---------------------------- MODULE CacheProofs ----------------------------
(***************************************************************************)
(* Theorems about the read-through cache of Cache.tla, for any number of   *)
(* callers, names, periods and cache sizes: the types and the size of the  *)
(* cache, that one loader of a key runs at a time, that no call is left in *)
(* the group, and how old an answer can be.  The group's map and the       *)
(* requests that own its calls are related first; ages follow from the     *)
(* period that a key names.                                                *)
(***************************************************************************)
EXTENDS Cache, TLAPS, FiniteSetTheorems

Working(r) == pc[r] \in {"load", "loaded", "panicked"}

\* The map lists the calls that have not been deleted, and only those.
Listed ==
  /\ \A r \in Requests : Working(r) => key[r] \in DOMAIN inflight /\ inflight[key[r]] = r
  /\ \A k \in DOMAIN inflight : Working(inflight[k]) /\ key[inflight[k]] = k

CInv == TypeOK /\ Listed

LEMMA InitCInv == Init => CInv
<1> SUFFICES ASSUME Init PROVE CInv
  OBVIOUS
<1>1. DOMAIN cached = {} /\ DOMAIN inflight = {}
  BY DEF Init
<1>2. (CHOOSE n \in Names : TRUE) \in Names
  BY CacheAssumption
<1>3. IsFiniteSet({}) /\ Cardinality({}) = 0
  BY FS_EmptySet
<1>4. TypeOK
  BY <1>1, <1>2, <1>3, CacheAssumption DEF Init, TypeOK, Keys, Ended
<1>5. Listed
  BY <1>1 DEF Init, Listed, Working
<1>6. QED
  BY <1>4, <1>5 DEF CInv

\* The key of a name at a time ends in a time that is later by at most a period.
LEMMA KeyAtIsKey ==
  ASSUME NEW n \in Names, NEW t \in Nat
  PROVE  /\ KeyAt(n, t) \in Keys /\ KeyAt(n, t)[1] = n
         /\ Period[n] # 0 => KeyAt(n, t)[2] > t /\ KeyAt(n, t)[2] <= t + Period[n]
<1>1. CASE Period[n] = 0
  BY <1>1 DEF KeyAt, Keys
<1>2. CASE Period[n] # 0
  <2> DEFINE P == Period[n]
             m == t % P
  <2>1. P \in Nat /\ P > 0
    BY <1>2, CacheAssumption
  <2> HIDE DEF P
  <2>2. m \in 0..(P - 1)
    BY <2>1
  <2> HIDE DEF m
  <2>3. t + (P - m) \in Nat /\ t + (P - m) > t /\ t + (P - m) <= t + P
    BY <2>1, <2>2
  <2>4. KeyAt(n, t) = <<n, t + (P - m)>>
    BY <1>2 DEF KeyAt, P, m
  <2>5. QED
    BY <2>3, <2>4 DEF Keys, P
<1>3. QED
  BY <1>1, <1>2

\* Adding a key to a cache that makes room for it keeps the cache small.
LEMMA AddKeepsSize ==
  ASSUME TypeOK, NEW k \in Keys, NEW gone \in Evicted(k)
  PROVE  /\ IsFiniteSet((DOMAIN cached \ gone) \cup {k})
         /\ Cardinality((DOMAIN cached \ gone) \cup {k}) <= Size
         /\ (DOMAIN cached \ gone) \cup {k} \subseteq Keys
<1> DEFINE D == DOMAIN cached
<1>1. D \subseteq Keys /\ IsFiniteSet(D) /\ Cardinality(D) <= Size /\ Cardinality(D) \in Nat /\ Size \in Nat
  BY FS_CardinalityType, CacheAssumption DEF TypeOK
<1>2. gone \in IF k \in D \/ Cardinality(D) < Size THEN {{}} ELSE {{old} : old \in D}
  BY DEF Evicted
<1> HIDE DEF D
<1>3. CASE k \in D
  <2>1. (D \ gone) \cup {k} = D
    BY <1>2, <1>3
  <2>2. QED
    BY <1>1, <2>1 DEF D
<1>4. CASE k \notin D /\ Cardinality(D) < Size
  <2>1. (D \ gone) \cup {k} = D \cup {k}
    BY <1>2, <1>4
  <2>2. IsFiniteSet(D \cup {k}) /\ Cardinality(D \cup {k}) = Cardinality(D) + 1
    BY <1>1, <1>4, FS_AddElement
  <2>3. Cardinality(D \cup {k}) <= Size
    BY <1>1, <1>4, <2>2
  <2>4. QED
    BY <1>1, <2>1, <2>2, <2>3 DEF D
<1>5. CASE k \notin D /\ ~(Cardinality(D) < Size)
  <2>1. PICK old \in D : gone = {old}
    BY <1>2, <1>5
  <2>2. IsFiniteSet(D \ {old}) /\ Cardinality(D \ {old}) = Cardinality(D) - 1
    BY <1>1, FS_RemoveElement
  <2>3. k \notin D \ {old}
    BY <1>5
  <2>4. /\ IsFiniteSet((D \ {old}) \cup {k})
        /\ Cardinality((D \ {old}) \cup {k}) = Cardinality(D \ {old}) + 1
    BY <2>2, <2>3, FS_AddElement
  <2>5. Cardinality((D \ {old}) \cup {k}) <= Size
    BY <1>1, <2>2, <2>4
  <2>6. QED
    BY <1>1, <2>1, <2>4, <2>5 DEF D
<1>6. QED
  BY <1>3, <1>4, <1>5

\* A request is asked for a name and by a caller, or by a loader.
LEMMA AskedByLoader ==
  ASSUME TypeOK, NEW r \in Requests
  PROVE  /\ r[1] \in Callers /\ r = <<r[1], r[2]>> /\ r[2] \in {1, 2}
         /\ InnerOf(r) \in Requests /\ key[r][1] \in Names
         /\ Nested(r) => Inner[key[r][1]] \in Names /\ r # InnerOf(r)
<1>1. key[r] \in Names \X Nat
  BY DEF TypeOK, Keys
<1>2. QED
  BY <1>1, CacheAssumption DEF Requests, InnerOf, Nested

Labels == {"idle", "get", "do", "wait", "load", "loaded", "check", "add"} \cup Ended

\* A request that moves without touching the map and without owning a call
\* before or after, and whose key changes only then, keeps the map's relation.
LEMMA ListedKept ==
  ASSUME CInv, NEW r \in Requests, UNCHANGED inflight,
         NEW l \in Labels \ {"load", "loaded", "panicked"}, Goto(r, l), ~Working(r),
         \A s \in Requests \ {r} : key'[s] = key[s]
  PROVE  Listed'
<1>1. pc' = [pc EXCEPT ![r] = l] /\ pc \in [Requests -> Labels] /\ inflight' = inflight
  BY DEF CInv, TypeOK, Goto, Labels
<1>2. pc'[r] = l /\ \A s \in Requests \ {r} : pc'[s] = pc[s]
  BY <1>1
<1>3. ASSUME NEW s \in Requests, pc'[s] \in {"load", "loaded", "panicked"}
      PROVE  key'[s] \in DOMAIN inflight' /\ inflight'[key'[s]] = s
  <2>1. s # r
    BY <1>2, <1>3
  <2>2. Working(s)
    BY <1>2, <1>3, <2>1 DEF Working
  <2>3. QED
    BY <1>1, <2>1, <2>2 DEF CInv, Listed
<1>4. ASSUME NEW k \in DOMAIN inflight'
      PROVE  pc'[inflight'[k]] \in {"load", "loaded", "panicked"} /\ key'[inflight'[k]] = k
  <2>1. inflight[k] \in Requests /\ Working(inflight[k]) /\ key[inflight[k]] = k
    BY <1>1, <1>4 DEF CInv, Listed, TypeOK
  <2>2. inflight[k] # r
    BY <2>1
  <2>3. QED
    BY <1>1, <1>2, <2>1, <2>2 DEF Working
<1>5. QED
  BY <1>3, <1>4 DEF Listed, Working

\* The same for a request that owns a call and keeps it.
LEMMA OwnerKept ==
  ASSUME CInv, NEW r \in Requests, UNCHANGED <<inflight, key>>,
         NEW l \in {"load", "loaded", "panicked"}, Goto(r, l), Working(r)
  PROVE  Listed'
<1>1. pc' = [pc EXCEPT ![r] = l] /\ pc \in [Requests -> Labels]
  BY DEF CInv, TypeOK, Goto, Labels
<1>2. \A s \in Requests : Working(s)' <=> Working(s)
  BY <1>1 DEF Working
<1>3. \A k \in DOMAIN inflight : inflight[k] \in Requests
  BY DEF CInv, TypeOK
<1>4. ASSUME NEW k \in DOMAIN inflight' PROVE pc'[inflight'[k]] \in {"load", "loaded", "panicked"}
  BY <1>2, <1>3 DEF CInv, Listed, Working
<1>5. QED
  BY <1>2, <1>4 DEF CInv, Listed, Working

LEMMA AskCInv ==
  ASSUME CInv, NEW r \in Requests, NEW n \in Names, Ask(r, n)
  PROVE  CInv'
<1>1. KeyAt(n, now) \in Keys
  BY KeyAtIsKey DEF CInv, TypeOK
<1>2. TypeOK'
  BY <1>1 DEF Ask, Goto, CInv, TypeOK
<1>3. Listed'
  <2>1. ~Working(r)
    BY DEF Ask, Working
  <2>2. \A s \in Requests \ {r} : key'[s] = key[s]
    BY DEF Ask, CInv, TypeOK
  <2>3. "get" \in Labels \ {"load", "loaded", "panicked"}
    BY DEF Labels
  <2>4. QED
    BY <2>1, <2>2, <2>3, ListedKept DEF Ask
<1>4. QED
  BY <1>2, <1>3 DEF CInv

LEMMA StepCInv == CInv /\ [Next]_vars => CInv'
<1> SUFFICES ASSUME CInv, [Next]_vars PROVE CInv'
  OBVIOUS
<1> USE DEF CInv
<1>1. CASE Tick
  BY <1>1 DEF Tick, TypeOK, Listed, Working
<1>2. ASSUME NEW c \in Callers, NEW n \in Names, Ask(<<c, 1>>, n) PROVE CInv'
  BY <1>2, AskCInv DEF Requests
<1>3. ASSUME NEW r \in Requests, AskInner(r) PROVE CInv'
  BY <1>3, AskCInv, AskedByLoader DEF AskInner
<1>4. ASSUME NEW r \in Requests, Get(r) PROVE CInv'
  <2>1. TypeOK'
    BY <1>4 DEF Get, Goto, TypeOK, Ended
  <2>2. ~Working(r) /\ \A s \in Requests \ {r} : key'[s] = key[s]
    BY <1>4 DEF Get, Working
  <2>3. /\ UNCHANGED inflight
        /\ Goto(r, "returned") \/ Goto(r, "do")
    BY <1>4 DEF Get
  <2>4. {"returned", "do"} \subseteq Labels \ {"load", "loaded", "panicked"}
    BY DEF Labels, Ended
  <2>5. QED
    BY <2>1, <2>2, <2>3, <2>4, ListedKept
<1>5. ASSUME NEW r \in Requests, Enter(r) PROVE CInv'
  <2>1. pc[r] = "do" /\ UNCHANGED <<now, cached, key, asked, value, err>> /\ key[r] \in Keys
    BY <1>5 DEF Enter, TypeOK
  <2>2. CASE /\ key[r] \in DOMAIN inflight
             /\ Goto(r, "wait") /\ call' = [call EXCEPT ![r] = inflight[key[r]]]
             /\ UNCHANGED inflight
    <3>1. TypeOK'
      BY <2>1, <2>2 DEF Goto, TypeOK
    <3>2. "wait" \in Labels \ {"load", "loaded", "panicked"} /\ ~Working(r)
      BY <2>1 DEF Labels, Working
    <3>3. QED
      BY <2>1, <2>2, <3>1, <3>2, ListedKept
  <2>3. CASE /\ key[r] \notin DOMAIN inflight /\ Goto(r, "load")
             /\ inflight' = [k \in DOMAIN inflight \cup {key[r]} |->
                               IF k = key[r] THEN r ELSE inflight[k]]
             /\ UNCHANGED call
    <3>1. TypeOK'
      BY <2>1, <2>3 DEF Goto, TypeOK
    <3>2. pc'[r] = "load" /\ \A s \in Requests \ {r} : pc'[s] = pc[s]
      BY <2>3 DEF Goto, TypeOK
    <3>3. ASSUME NEW s \in Requests, pc'[s] \in {"load", "loaded", "panicked"}
          PROVE  key'[s] \in DOMAIN inflight' /\ inflight'[key'[s]] = s
      BY <2>1, <2>3, <3>2, <3>3 DEF Listed, Working
    <3>4. ASSUME NEW k \in DOMAIN inflight'
          PROVE  pc'[inflight'[k]] \in {"load", "loaded", "panicked"} /\ key'[inflight'[k]] = k
      <4>1. CASE k = key[r]
        BY <2>1, <2>3, <3>2, <4>1
      <4>2. CASE k # key[r]
        <5>1. k \in DOMAIN inflight /\ inflight'[k] = inflight[k]
          BY <2>3, <3>4, <4>2
        <5>2. Working(inflight[k]) /\ key[inflight[k]] = k /\ inflight[k] \in Requests
          BY <5>1 DEF Listed, TypeOK
        <5>3. QED
          BY <2>1, <3>2, <4>2, <5>1, <5>2 DEF Working
      <4>3. QED
        BY <4>1, <4>2
    <3>5. QED
      BY <3>1, <3>3, <3>4 DEF Listed, Working
  <2>4. QED
    BY <1>5, <2>2, <2>3 DEF Enter
<1>6. ASSUME NEW r \in Requests, Wait(r) PROVE CInv'
  <2>1. TypeOK'
    BY <1>6 DEF Wait, Goto, TypeOK, Ended
  <2>2. ~Working(r) /\ \A s \in Requests \ {r} : key'[s] = key[s]
    BY <1>6 DEF Wait, Working
  <2>3. UNCHANGED inflight /\ (Goto(r, "failed") \/ Goto(r, "check"))
    BY <1>6 DEF Wait
  <2>4. {"failed", "check"} \subseteq Labels \ {"load", "loaded", "panicked"}
    BY DEF Labels, Ended
  <2>5. QED
    BY <2>1, <2>2, <2>3, <2>4, ListedKept
<1>7. ASSUME NEW r \in Requests, Load(r) \/ LoadFails(r) \/ LoadPanics(r) PROVE CInv'
  <2>1. Working(r) /\ UNCHANGED <<now, cached, inflight, key, asked, call>>
    BY <1>7 DEF Load, LoadFails, LoadPanics, Ready, Loading, Working
  <2>2. Goto(r, "loaded") \/ Goto(r, "panicked")
    BY <1>7 DEF Load, LoadFails, LoadPanics
  <2>3. Oldest(r) \in Nat
    BY AskedByLoader DEF Oldest, TypeOK
  <2>4. value' \in [Requests -> Nat] /\ err' \in [Requests -> BOOLEAN]
    <3>1. \/ value' = [value EXCEPT ![r] = Oldest(r)] /\ err' = err
          \/ value' = value /\ err' = [err EXCEPT ![r] = TRUE]
          \/ value' = value /\ err' = err
      BY <1>7 DEF Load, LoadFails, LoadPanics
    <3>2. value \in [Requests -> Nat] /\ err \in [Requests -> BOOLEAN]
      BY DEF TypeOK
    <3>3. QED
      BY <2>3, <3>1, <3>2
  <2>5. TypeOK'
    BY <2>1, <2>2, <2>4 DEF Goto, TypeOK, Ended
  <2>6. Listed'
    BY <2>1, <2>2, OwnerKept
  <2>7. QED
    BY <2>5, <2>6
<1>8. ASSUME NEW r \in Requests, Delete(r) PROVE CInv'
  <2>1. /\ pc[r] = "loaded" /\ UNCHANGED <<now, cached, key, asked, call, value, err>>
        /\ inflight' = [k \in DOMAIN inflight \ {key[r]} |-> inflight[k]]
        /\ Goto(r, "failed") \/ Goto(r, "check")
    BY <1>8 DEF Delete
  <2>2. TypeOK'
    BY <2>1 DEF Goto, TypeOK, Ended
  <2>3. pc'[r] \in {"failed", "check"} /\ \A s \in Requests \ {r} : pc'[s] = pc[s]
    BY <2>1 DEF Goto, TypeOK
  <2>4. inflight[key[r]] = r
    BY <2>1 DEF Listed, Working
  <2>5. ASSUME NEW s \in Requests, pc'[s] \in {"load", "loaded", "panicked"}
        PROVE  key'[s] \in DOMAIN inflight' /\ inflight'[key'[s]] = s
    <3>1. s # r
      BY <2>3, <2>5
    <3>2. key[s] \in DOMAIN inflight /\ inflight[key[s]] = s
      BY <2>3, <2>5, <3>1 DEF Listed, Working
    <3>3. QED
      BY <2>1, <2>4, <3>1, <3>2
  <2>6. ASSUME NEW k \in DOMAIN inflight'
        PROVE  pc'[inflight'[k]] \in {"load", "loaded", "panicked"} /\ key'[inflight'[k]] = k
    <3>1. k \in DOMAIN inflight /\ k # key[r] /\ inflight'[k] = inflight[k]
      BY <2>1, <2>6
    <3>2. Working(inflight[k]) /\ key[inflight[k]] = k /\ inflight[k] \in Requests
      BY <3>1 DEF Listed, TypeOK
    <3>3. QED
      BY <2>1, <2>3, <3>1, <3>2 DEF Working
  <2>7. QED
    BY <2>2, <2>5, <2>6 DEF Listed, Working
<1>9. ASSUME NEW r \in Requests, Check(r) PROVE CInv'
  <2>1. TypeOK'
    BY <1>9 DEF Check, Goto, TypeOK, Ended
  <2>2. ~Working(r) /\ \A s \in Requests \ {r} : key'[s] = key[s]
    BY <1>9 DEF Check, Working
  <2>3. UNCHANGED inflight /\ (Goto(r, "returned") \/ Goto(r, "add"))
    BY <1>9 DEF Check
  <2>4. {"returned", "add"} \subseteq Labels \ {"load", "loaded", "panicked"}
    BY DEF Labels, Ended
  <2>5. QED
    BY <2>1, <2>2, <2>3, <2>4, ListedKept
<1>10. ASSUME NEW r \in Requests, Add(r) PROVE CInv'
  <2>1. /\ pc[r] = "add" /\ Goto(r, "returned")
        /\ UNCHANGED <<now, inflight, key, asked, call, value, err>>
    BY <1>10 DEF Add
  <2>2. PICK gone \in Evicted(key[r]) :
          cached' = [k \in (DOMAIN cached \ gone) \cup {key[r]} |->
                       IF k = key[r] THEN value[r] ELSE cached[k]]
    BY <1>10 DEF Add
  <2>3. /\ IsFiniteSet(DOMAIN cached') /\ Cardinality(DOMAIN cached') <= Size
        /\ DOMAIN cached' \subseteq Keys
    <3>1. key[r] \in Keys
      BY DEF TypeOK
    <3>2. QED
      BY <2>2, <3>1, AddKeepsSize
  <2>4. cached' \in [DOMAIN cached' -> Nat]
    BY <2>2 DEF TypeOK
  <2>5. TypeOK'
    BY <2>1, <2>3, <2>4 DEF Goto, TypeOK, Ended
  <2>6. "returned" \in Labels \ {"load", "loaded", "panicked"} /\ ~Working(r)
    BY <2>1 DEF Labels, Ended, Working
  <2>7. QED
    BY <2>1, <2>5, <2>6, ListedKept
<1>11. CASE UNCHANGED vars
  BY <1>11 DEF vars, TypeOK, Listed, Working
<1>12. QED
  BY <1>1, <1>2, <1>3, <1>4, <1>5, <1>6, <1>7, <1>8, <1>9, <1>10, <1>11 DEF Next, Step

\* Whatever the requests and loaders do, the cache holds at most Size values.
THEOREM CacheTypeOK == Spec => []TypeOK
<1>1. CInv => TypeOK
  BY DEF CInv
<1>2. QED
  BY InitCInv, StepCInv, <1>1, PTL DEF Spec

\* One loader of a key runs at a time, for any number of callers and keys, and
\* also when loaders panic.
THEOREM CacheOneInFlight == Spec => []OneInFlight
<1>1. CInv => OneInFlight
  BY DEF CInv, Listed, Working, OneInFlight, Loading
<1>2. QED
  BY InitCInv, StepCInv, <1>1, PTL DEF Spec

\* Whatever a loader ends with, its call is gone from the group once Do has
\* returned: only a panic leaves one behind.
THEOREM CacheNoCallLeft == Spec => []NoCallLeft
<1>1. CInv => NoCallLeft
  BY DEF CInv, Listed, Working, NoCallLeft
<1>2. QED
  BY InitCInv, StepCInv, <1>1, PTL DEF Spec
-----------------------------------------------------------------------------
\* The oldest data that a value of key k may be made of: from the beginning of
\* the period that ends in k, and older by less than the period of what its
\* loader asks for.
Bound(k) ==
  k[2] - Period[k[1]] - (IF Inner[k[1]] = None THEN 0 ELSE Period[Inner[k[1]]] - 1)
Young(k, v) == Dated(k[1]) => v >= Bound(k)

\* A request was asked in the period of its key.
InPeriod ==
  \A r \in Requests :
    /\ asked[r] <= now
    /\ pc[r] # "idle" /\ Period[key[r][1]] # 0 =>
         key[r][2] > asked[r] /\ key[r][2] <= asked[r] + Period[key[r][1]]

\* The request of a loader is made while the loader runs, for the name it asks.
Nesting ==
  \A c \in Callers :
    pc[<<c, 2>>] # "idle" =>
      /\ pc[<<c, 1>>] \notin {"idle", "get", "do", "wait"}
      /\ Inner[key[<<c, 1>>][1]] # None /\ key[<<c, 2>>][1] = Inner[key[<<c, 1>>][1]]
      /\ asked[<<c, 2>>] >= asked[<<c, 1>>]

\* The call that a request waits for is one of its key, and has begun.
Begun(s) ==
  \/ pc[s] \in {"load", "panicked", "loaded", "check", "add", "returned"}
  \/ pc[s] = "failed" /\ err[s]
Waiting ==
  \A r \in Requests : pc[r] = "wait" => key[call[r]] = key[r] /\ Begun(call[r])

\* Values are young where they are kept and where they are handed on.
Holds(r) == pc[r] \in {"check", "add", "returned"} \/ (pc[r] = "loaded" /\ ~err[r])
Fresh ==
  /\ \A k \in DOMAIN cached : Young(k, cached[k])
  /\ \A r \in Requests : Holds(r) => Young(key[r], value[r])

AgeInv == InPeriod /\ Nesting /\ Waiting /\ Fresh

LEMMA InitAgeInv == Init => AgeInv
<1> SUFFICES ASSUME Init PROVE AgeInv
  OBVIOUS
<1>1. now = 0 /\ \A r \in Requests : pc[r] = "idle" /\ asked[r] = 0
  BY DEF Init
<1>2. DOMAIN cached = {}
  BY DEF Init
<1>3. \A c \in Callers : <<c, 2>> \in Requests
  BY DEF Requests
<1>4. InPeriod /\ Waiting /\ Fresh
  BY <1>1, <1>2 DEF InPeriod, Waiting, Fresh, Holds
<1>5. Nesting
  BY <1>1, <1>3 DEF Nesting
<1>6. QED
  BY <1>4, <1>5 DEF AgeInv

\* What a loader that is done with its own request has is young.
LEMMA OldestIsYoung ==
  ASSUME TypeOK, InPeriod, Nesting, Fresh, NEW r \in Requests, Ready(r)
  PROVE  Young(key[r], Oldest(r))
<1> SUFFICES ASSUME Dated(key[r][1]) PROVE Oldest(r) >= Bound(key[r])
  BY DEF Young
<1> DEFINE n == key[r][1]
           i == InnerOf(r)
<1>1. /\ n \in Names /\ key[r][2] \in Nat /\ asked[r] \in Nat /\ now \in Nat
      /\ Period[n] \in Nat /\ Period[n] # 0
  BY CacheAssumption, AskedByLoader DEF TypeOK, Keys, Dated
<1>2. asked[r] <= now /\ key[r][2] > asked[r] /\ key[r][2] <= asked[r] + Period[n]
  BY <1>1 DEF InPeriod, Ready, Loading
<1>3. CASE Inner[n] = None
  BY <1>1, <1>2, <1>3 DEF Bound, Oldest, Nested
<1>4. CASE Inner[n] # None
  <2>1. Inner[n] \in Names /\ Period[Inner[n]] \in Nat /\ Period[Inner[n]] # 0
    BY <1>1, <1>4, CacheAssumption DEF Dated
  <2>2. now >= Bound(key[r])
    BY <1>1, <1>2, <1>4, <2>1 DEF Bound
  <2>3. CASE ~Nested(r)
    BY <2>2, <2>3 DEF Oldest
  <2>4. CASE Nested(r)
    <3>1. i \in Requests /\ pc[i] = "returned" /\ r[1] \in Callers /\ r = <<r[1], 1>>
      BY <2>4, AskedByLoader DEF Ready, Nested
    <3>2. key[i][1] = Inner[n] /\ asked[i] >= asked[r]
      BY <3>1 DEF Nesting, InnerOf
    <3>3. key[i][2] \in Nat /\ asked[i] \in Nat /\ value[i] \in Nat
      BY <3>1 DEF TypeOK, Keys
    <3>4. key[i][2] > asked[i]
      BY <2>1, <3>1, <3>2 DEF InPeriod
    <3>5. Inner[Inner[n]] = None
      BY <1>1, <1>4, CacheAssumption
    <3>6. value[i] >= key[i][2] - Period[Inner[n]]
      <4>1. Young(key[i], value[i])
        BY <3>1 DEF Fresh, Holds
      <4>2. Dated(key[i][1])
        BY <2>1, <3>2, <3>5 DEF Dated
      <4>3. Bound(key[i]) = key[i][2] - Period[Inner[n]] - 0
        BY <3>2, <3>5 DEF Bound
      <4>4. QED
        BY <2>1, <3>3, <4>1, <4>2, <4>3 DEF Young
    <3>7. value[i] >= Bound(key[r])
      BY <1>1, <1>2, <1>4, <2>1, <3>2, <3>3, <3>4, <3>6 DEF Bound
    <3>8. QED
      BY <2>2, <3>7 DEF Oldest
  <2>5. QED
    BY <2>3, <2>4
<1>5. QED
  BY <1>3, <1>4

\* An answer that is young for its key is young for the request.
LEMMA YoungIsNotTooOld == TypeOK /\ AgeInv => NotTooOld
<1> SUFFICES ASSUME TypeOK, AgeInv, NEW r \in Requests, pc[r] = "returned", Dated(key[r][1])
             PROVE  value[r] >= asked[r] - Age(key[r][1])
  BY DEF NotTooOld
<1> DEFINE n == key[r][1]
           P == Period[n]
           Q == Period[Inner[n]]
<1>1. n \in Names /\ key[r][2] \in Nat /\ asked[r] \in Nat /\ value[r] \in Nat
  BY AskedByLoader DEF TypeOK, Keys
<1>2. P \in Nat /\ P # 0 /\ (Inner[n] # None => Q \in Nat)
  BY <1>1, CacheAssumption DEF Dated
<1>3. key[r][2] > asked[r]
  BY <1>2 DEF AgeInv, InPeriod
<1>4. value[r] >= Bound(key[r])
  BY DEF AgeInv, Fresh, Holds, Young
<1>5. CASE Inner[n] = None
  BY <1>1, <1>2, <1>3, <1>4, <1>5 DEF Bound, Age
<1>6. CASE Inner[n] # None
  BY <1>1, <1>2, <1>3, <1>4, <1>6 DEF Bound, Age
<1>7. QED
  BY <1>5, <1>6

\* A request that goes on keeps its period, and does not go back before the
\* load in which its own loader's request is made.
LEMMA MoveKeeps ==
  ASSUME TypeOK, InPeriod, Nesting, NEW r \in Requests, NEW l, Goto(r, l),
         UNCHANGED <<now, key, asked>>, pc[r] # "idle", l # "idle",
         pc[r] \notin {"get", "do", "wait"} => l \notin {"get", "do", "wait"}
  PROVE  InPeriod' /\ Nesting'
<1>1. pc'[r] = l /\ \A s \in Requests \ {r} : pc'[s] = pc[s]
  BY DEF Goto, TypeOK
<1>2. InPeriod'
  BY <1>1 DEF InPeriod
<1>3. ASSUME NEW c \in Callers, pc'[<<c, 2>>] # "idle"
      PROVE  /\ pc'[<<c, 1>>] \notin {"idle", "get", "do", "wait"}
             /\ Inner[key[<<c, 1>>][1]] # None /\ key[<<c, 2>>][1] = Inner[key[<<c, 1>>][1]]
             /\ asked[<<c, 2>>] >= asked[<<c, 1>>]
  <2>1. <<c, 1>> \in Requests /\ <<c, 2>> \in Requests
    BY DEF Requests
  <2>2. pc[<<c, 2>>] # "idle"
    BY <1>1, <1>3, <2>1
  <2>3. pc[<<c, 1>>] \notin {"idle", "get", "do", "wait"}
    BY <2>2 DEF Nesting
  <2>4. pc'[<<c, 1>>] \notin {"idle", "get", "do", "wait"}
    BY <1>1, <2>1, <2>3
  <2>5. QED
    BY <2>2, <2>4 DEF Nesting
<1>4. Nesting'
  BY <1>3 DEF Nesting
<1>5. QED
  BY <1>2, <1>4

\* Calls that have begun stay so, for those who wait for them.
LEMMA WaitingKept ==
  ASSUME TypeOK, Waiting, NEW r \in Requests, NEW l \in Labels \ {"wait"}, Goto(r, l),
         UNCHANGED <<key, call>>, \A s \in Requests : Begun(s) => Begun(s)'
  PROVE  Waiting'
<1>1. \A s \in Requests : pc'[s] = "wait" => pc[s] = "wait"
  BY DEF Goto, TypeOK
<1>2. ASSUME NEW s \in Requests, pc'[s] = "wait"
      PROVE  key'[call'[s]] = key'[s] /\ Begun(call[s])'
  <2>1. call[s] \in Requests /\ Begun(call[s]) /\ key[call[s]] = key[s]
    BY <1>1, <1>2 DEF Waiting, TypeOK
  <2>2. call[s]' = call[s]
    OBVIOUS
  <2>3. \A q \in Requests : q = call[s] => Begun(q)'
    BY <2>1
  <2>4. QED
    BY <2>1, <2>2, <2>3 DEF Begun
<1>3. QED
  BY <1>2 DEF Waiting, Begun

LEMMA FreshKept ==
  ASSUME TypeOK, Fresh, NEW r \in Requests, UNCHANGED <<cached, key>>,
         \A s \in Requests \ {r} : pc'[s] = pc[s] /\ value'[s] = value[s] /\ err'[s] = err[s],
         pc'[r] \in {"check", "add", "returned"} \/ (pc'[r] = "loaded" /\ ~err'[r])
           => Young(key[r], value'[r])
  PROVE  Fresh'
<1>1. \A k \in DOMAIN cached' : Young(k, cached'[k])
  BY DEF Fresh
<1>2. ASSUME NEW s \in Requests,
             pc'[s] \in {"check", "add", "returned"} \/ (pc'[s] = "loaded" /\ ~err'[s])
      PROVE  Young(key'[s], value'[s])
  <2>1. CASE s = r
    BY <1>2, <2>1
  <2>2. CASE s # r
    BY <1>2, <2>2 DEF Fresh, Holds
  <2>3. QED
    BY <2>1, <2>2
<1>3. QED
  BY <1>1, <1>2 DEF Fresh, Holds, Young, Bound

\* A new request: a caller's, or that of a loader which is running.
LEMMA AskAgeInv ==
  ASSUME TypeOK, AgeInv, NEW r \in Requests, NEW n \in Names, Ask(r, n),
         r[2] = 2 => /\ pc[<<r[1], 1>>] = "load"
                     /\ Inner[key[<<r[1], 1>>][1]] = n /\ n # None
  PROVE  AgeInv'
<1>1. /\ pc[r] = "idle" /\ pc' = [pc EXCEPT ![r] = "get"]
      /\ key' = [key EXCEPT ![r] = KeyAt(n, now)] /\ asked' = [asked EXCEPT ![r] = now]
      /\ UNCHANGED <<now, cached, inflight, call, value, err>>
  BY DEF Ask, Goto
<1>2. /\ pc'[r] = "get" /\ key'[r] = KeyAt(n, now) /\ asked'[r] = now
      /\ \A s \in Requests \ {r} : pc'[s] = pc[s] /\ key'[s] = key[s] /\ asked'[s] = asked[s]
  BY <1>1 DEF TypeOK
<1>3. /\ now \in Nat /\ KeyAt(n, now)[1] = n
      /\ Period[n] # 0 => KeyAt(n, now)[2] > now /\ KeyAt(n, now)[2] <= now + Period[n]
  BY KeyAtIsKey DEF TypeOK
<1>4. InPeriod'
  <2>1. ASSUME NEW s \in Requests
        PROVE  /\ asked'[s] <= now
               /\ pc'[s] # "idle" /\ Period[key'[s][1]] # 0 =>
                    key'[s][2] > asked'[s] /\ key'[s][2] <= asked'[s] + Period[key'[s][1]]
    <3>1. CASE s = r
      BY <1>2, <1>3, <3>1
    <3>2. CASE s # r
      BY <1>2, <3>2 DEF AgeInv, InPeriod
    <3>3. QED
      BY <3>1, <3>2
  <2>2. QED
    BY <1>1, <2>1 DEF InPeriod
<1>5. Nesting'
  <2>1. ASSUME NEW c \in Callers, pc'[<<c, 2>>] # "idle"
        PROVE  /\ pc'[<<c, 1>>] \notin {"idle", "get", "do", "wait"}
               /\ Inner[key'[<<c, 1>>][1]] # None
               /\ key'[<<c, 2>>][1] = Inner[key'[<<c, 1>>][1]]
               /\ asked'[<<c, 2>>] >= asked'[<<c, 1>>]
    <3>1. <<c, 1>> \in Requests /\ <<c, 2>> \in Requests /\ <<c, 1>> # <<c, 2>>
      BY DEF Requests
    <3>2. CASE r = <<c, 2>>
      <4>1. pc[<<c, 1>>] = "load" /\ Inner[key[<<c, 1>>][1]] = n /\ n # None
        BY <3>2
      <4>2. asked[<<c, 1>>] <= now
        BY <3>1 DEF AgeInv, InPeriod
      <4>3. QED
        BY <1>2, <1>3, <3>1, <3>2, <4>1, <4>2
    <3>3. CASE r # <<c, 2>>
      <4>1. pc[<<c, 2>>] # "idle"
        BY <1>2, <2>1, <3>1, <3>3
      <4>2. r # <<c, 1>>
        BY <1>1, <4>1 DEF AgeInv, Nesting
      <4>3. QED
        BY <1>2, <3>1, <3>3, <4>1, <4>2 DEF AgeInv, Nesting
    <3>4. QED
      BY <3>2, <3>3
  <2>2. QED
    BY <2>1 DEF Nesting
<1>6. Waiting'
  <2>1. ASSUME NEW s \in Requests, pc'[s] = "wait"
        PROVE  /\ key'[call[s]] = key'[s]
               /\ \/ pc'[call[s]] \in {"load", "panicked", "loaded", "check", "add", "returned"}
                  \/ pc'[call[s]] = "failed" /\ err[call[s]]
    <3>1. s # r /\ pc[s] = "wait"
      BY <1>2, <2>1
    <3>2. call[s] \in Requests /\ key[call[s]] = key[s] /\ Begun(call[s])
      BY <3>1 DEF AgeInv, Waiting, TypeOK
    <3>3. call[s] # r
      BY <1>1, <3>2 DEF Begun
    <3>4. QED
      BY <1>2, <3>1, <3>2, <3>3 DEF Begun
  <2>2. QED
    BY <1>1, <2>1 DEF Waiting, Begun
<1>7. Fresh'
  <2>1. ASSUME NEW s \in Requests,
               pc'[s] \in {"check", "add", "returned"} \/ (pc'[s] = "loaded" /\ ~err[s])
        PROVE  Young(key'[s], value[s])
    BY <1>2, <2>1 DEF AgeInv, Fresh, Holds
  <2>2. QED
    BY <1>1, <2>1 DEF AgeInv, Fresh, Holds, Young, Bound
<1>8. QED
  BY <1>4, <1>5, <1>6, <1>7 DEF AgeInv

LEMMA StepAgeInv == CInv /\ AgeInv /\ [Next]_vars => AgeInv'
<1> SUFFICES ASSUME CInv, AgeInv, [Next]_vars PROVE AgeInv'
  OBVIOUS
<1>0. TypeOK /\ InPeriod /\ Nesting /\ Waiting /\ Fresh
  BY DEF CInv, AgeInv
<1>1. CASE Tick
  <2>1. now' = now + 1 /\ UNCHANGED <<cached, inflight, pc, key, asked, call, value, err>>
    BY <1>1 DEF Tick
  <2>2. InPeriod'
    <3>1. now \in Nat /\ \A r \in Requests : asked[r] \in Nat
      BY <1>0 DEF TypeOK
    <3>2. QED
      BY <1>0, <2>1, <3>1 DEF InPeriod
  <2>3. QED
    BY <1>0, <2>1, <2>2 DEF AgeInv, Nesting, Waiting, Begun, Fresh, Holds, Young, Bound
<1>2. ASSUME NEW c \in Callers, NEW n \in Names, Ask(<<c, 1>>, n) PROVE AgeInv'
  <2>1. <<c, 1>> \in Requests /\ <<c, 1>>[2] # 2
    BY DEF Requests
  <2>2. QED
    BY <1>0, <1>2, <2>1, AskAgeInv
<1>3. ASSUME NEW r \in Requests, AskInner(r) PROVE AgeInv'
  <2>1. /\ InnerOf(r) \in Requests /\ Inner[key[r][1]] \in Names /\ r = <<r[1], 1>>
        /\ pc[r] = "load" /\ Ask(InnerOf(r), Inner[key[r][1]])
    BY <1>0, <1>3, AskedByLoader DEF AskInner, Loading, Nested
  <2>2. InnerOf(r)[1] = r[1] /\ Inner[key[r][1]] # None
    BY <2>1, CacheAssumption DEF InnerOf
  <2>3. pc[<<InnerOf(r)[1], 1>>] = "load" /\ Inner[key[<<InnerOf(r)[1], 1>>][1]] = Inner[key[r][1]]
    BY <2>1, <2>2
  <2>4. QED
    BY <1>0, <2>1, <2>2, <2>3, AskAgeInv
<1>4. ASSUME NEW r \in Requests, Get(r) PROVE AgeInv'
  <2>1. pc[r] = "get" /\ UNCHANGED <<now, cached, inflight, key, asked, call, err>>
    BY <1>4 DEF Get
  <2>2. \/ Goto(r, "returned") /\ key[r] \in DOMAIN cached
           /\ value' = [value EXCEPT ![r] = cached[key[r]]]
        \/ Goto(r, "do") /\ UNCHANGED value
    BY <1>4 DEF Get
  <2>3. PICK l \in {"returned", "do"} : Goto(r, l)
    BY <2>2
  <2>4. pc'[r] = l /\ \A s \in Requests \ {r} : pc'[s] = pc[s]
    BY <1>0, <2>3 DEF Goto, TypeOK
  <2>5. InPeriod' /\ Nesting'
    BY <1>0, <2>1, <2>3, MoveKeeps
  <2>6. Waiting'
    <3>1. \A s \in Requests : Begun(s) => Begun(s)'
      BY <2>1, <2>4 DEF Begun
    <3>2. l \in Labels \ {"wait"}
      BY DEF Labels, Ended
    <3>3. QED
      BY <1>0, <2>1, <2>3, <3>1, <3>2, WaitingKept
  <2>7. Fresh'
    <3>1. \A s \in Requests \ {r} : pc'[s] = pc[s] /\ value'[s] = value[s] /\ err'[s] = err[s]
      BY <1>0, <2>1, <2>2, <2>4 DEF TypeOK
    <3>2. pc'[r] \in {"check", "add", "returned"} \/ (pc'[r] = "loaded" /\ ~err'[r])
            => Young(key[r], value'[r])
      <4>1. CASE l = "do"
        BY <2>4, <4>1
      <4>2. CASE l = "returned"
        <5>1. key[r] \in DOMAIN cached /\ value'[r] = cached[key[r]]
          BY <1>0, <2>2, <2>4, <4>2 DEF Goto, TypeOK
        <5>2. QED
          BY <1>0, <5>1 DEF Fresh
      <4>3. QED
        BY <4>1, <4>2
    <3>3. QED
      BY <1>0, <2>1, <3>1, <3>2, FreshKept
  <2>8. QED
    BY <2>5, <2>6, <2>7 DEF AgeInv
<1>5. ASSUME NEW r \in Requests, Enter(r) PROVE AgeInv'
  <2>1. pc[r] = "do" /\ UNCHANGED <<now, cached, key, asked, value, err>>
    BY <1>5 DEF Enter
  <2>2. \/ Goto(r, "wait") /\ key[r] \in DOMAIN inflight
           /\ call' = [call EXCEPT ![r] = inflight[key[r]]]
        \/ Goto(r, "load") /\ UNCHANGED call
    BY <1>5 DEF Enter
  <2>3. PICK l \in {"wait", "load"} : Goto(r, l)
    BY <2>2
  <2>4. pc'[r] = l /\ \A s \in Requests \ {r} : pc'[s] = pc[s]
    BY <1>0, <2>3 DEF Goto, TypeOK
  <2>5. InPeriod' /\ Nesting'
    BY <1>0, <2>1, <2>3, MoveKeeps
  <2>6. Waiting'
    <3>1. \A s \in Requests : Begun(s) => Begun(s)'
      BY <2>1, <2>4 DEF Begun
    <3>2. CASE l = "load"
      <4>1. UNCHANGED call
        BY <1>0, <2>2, <2>4, <3>2 DEF Goto, TypeOK
      <4>2. l \in Labels \ {"wait"}
        BY <3>2 DEF Labels
      <4>3. QED
        BY <1>0, <2>1, <2>3, <3>1, <4>1, <4>2, WaitingKept
    <3>3. CASE l = "wait"
      <4>1. key[r] \in DOMAIN inflight /\ call' = [call EXCEPT ![r] = inflight[key[r]]]
        BY <1>0, <2>2, <2>4, <3>3 DEF Goto, TypeOK
      <4>2. /\ inflight[key[r]] \in Requests /\ key[inflight[key[r]]] = key[r]
            /\ Begun(inflight[key[r]])
        BY <4>1 DEF CInv, TypeOK, Listed, Working, Begun
      <4>3. call'[r] = inflight[key[r]] /\ \A s \in Requests \ {r} : call'[s] = call[s]
        BY <1>0, <4>1 DEF TypeOK
      <4>4. ASSUME NEW s \in Requests, pc'[s] = "wait"
            PROVE  /\ key[call'[s]] = key[s] /\ call'[s] \in Requests /\ Begun(call'[s])
        <5>1. CASE s = r
          BY <4>2, <4>3, <5>1
        <5>2. CASE s # r
          <6>1. pc[s] = "wait" /\ call'[s] = call[s]
            BY <2>4, <4>3, <4>4, <5>2
          <6>2. QED
            BY <1>0, <6>1 DEF Waiting, TypeOK
        <5>3. QED
          BY <5>1, <5>2
      <4>5. ASSUME NEW s \in Requests, pc'[s] = "wait"
            PROVE  \/ pc'[call'[s]] \in {"load", "panicked", "loaded", "check", "add", "returned"}
                   \/ pc'[call'[s]] = "failed" /\ err'[call'[s]]
        BY <2>1, <2>4, <4>4, <4>5 DEF Begun
      <4>6. QED
        BY <2>1, <4>4, <4>5 DEF Waiting, Begun
    <3>4. QED
      BY <3>2, <3>3
  <2>7. Fresh'
    BY <1>0, <2>1, <2>4, FreshKept
  <2>8. QED
    BY <2>5, <2>6, <2>7 DEF AgeInv
<1>6. ASSUME NEW r \in Requests, Wait(r) PROVE AgeInv'
  <2>1. /\ pc[r] = "wait" /\ UNCHANGED <<now, cached, inflight, key, asked, call, err>>
        /\ pc[call[r]] \notin {"load", "panicked"}
        /\ value' = [value EXCEPT ![r] = value[call[r]]]
        /\ Goto(r, IF err[call[r]] THEN "failed" ELSE "check")
    BY <1>6 DEF Wait
  <2> DEFINE l == IF err[call[r]] THEN "failed" ELSE "check"
  <2>2. l \in {"failed", "check"}
    OBVIOUS
  <2>3. pc'[r] = l /\ \A s \in Requests \ {r} : pc'[s] = pc[s]
    BY <1>0, <2>1 DEF Goto, TypeOK
  <2>4. call[r] \in Requests /\ key[call[r]] = key[r] /\ Begun(call[r])
    BY <1>0, <2>1 DEF Waiting, TypeOK
  <2>5. l = "check" => Young(key[r], value[call[r]])
    <3>1. l = "check" => Holds(call[r])
      BY <2>1, <2>4 DEF Begun, Holds
    <3>2. QED
      BY <1>0, <2>4, <3>1 DEF Fresh
  <2>6. value'[r] = value[call[r]] /\ \A s \in Requests \ {r} : value'[s] = value[s]
    BY <1>0, <2>1 DEF TypeOK
  <2> HIDE DEF l
  <2>7. Goto(r, l)
    BY <2>1 DEF l
  <2>8. InPeriod' /\ Nesting'
    BY <1>0, <2>1, <2>2, <2>7, MoveKeeps
  <2>9. Waiting'
    <3>1. \A s \in Requests : Begun(s) => Begun(s)'
      BY <1>0, <2>1, <2>3 DEF Begun
    <3>2. l \in Labels \ {"wait"}
      BY <2>2 DEF Labels, Ended
    <3>3. QED
      BY <1>0, <2>1, <2>7, <3>1, <3>2, WaitingKept
  <2>10. Fresh'
    BY <1>0, <2>1, <2>2, <2>3, <2>5, <2>6, FreshKept
  <2>11. QED
    BY <2>8, <2>9, <2>10 DEF AgeInv
<1>7. ASSUME NEW r \in Requests, Load(r) \/ LoadFails(r) \/ LoadPanics(r) PROVE AgeInv'
  <2>1. pc[r] = "load" /\ UNCHANGED <<now, cached, inflight, key, asked, call>>
    BY <1>7 DEF Load, LoadFails, LoadPanics, Ready, Loading
  <2>2. PICK l \in {"loaded", "panicked"} : Goto(r, l)
    BY <1>7 DEF Load, LoadFails, LoadPanics
  <2>3. pc'[r] = l /\ \A s \in Requests \ {r} : pc'[s] = pc[s]
    BY <1>0, <2>2 DEF Goto, TypeOK
  <2>4. \/ Ready(r) /\ value' = [value EXCEPT ![r] = Oldest(r)] /\ err' = err
        \/ value' = value /\ err' = [err EXCEPT ![r] = TRUE]
        \/ Goto(r, "panicked") /\ value' = value /\ err' = err
    BY <1>7 DEF Load, LoadFails, LoadPanics
  <2>5. \A s \in Requests \ {r} : value'[s] = value[s] /\ err'[s] = err[s]
    BY <1>0, <2>4 DEF TypeOK
  <2>6. InPeriod' /\ Nesting'
    BY <1>0, <2>1, <2>2, MoveKeeps
  <2>7. Waiting'
    <3>1. \A s \in Requests : Begun(s) => Begun(s)'
      BY <2>3, <2>5 DEF Begun
    <3>2. l \in Labels \ {"wait"}
      BY DEF Labels, Ended
    <3>3. QED
      BY <1>0, <2>1, <2>2, <3>1, <3>2, WaitingKept
  <2>8. Fresh'
    <3>1. pc'[r] \in {"check", "add", "returned"} \/ (pc'[r] = "loaded" /\ ~err'[r])
            => Young(key[r], value'[r])
      <4>1. SUFFICES ASSUME pc'[r] = "loaded", ~err'[r] PROVE Young(key[r], value'[r])
        BY <2>3
      <4>2. Ready(r) /\ value'[r] = Oldest(r)
        BY <1>0, <2>3, <2>4, <4>1 DEF Goto, TypeOK
      <4>3. QED
        BY <1>0, <4>2, OldestIsYoung
    <3>2. QED
      BY <1>0, <2>1, <2>3, <2>5, <3>1, FreshKept
  <2>9. QED
    BY <2>6, <2>7, <2>8 DEF AgeInv
<1>8. ASSUME NEW r \in Requests, Delete(r) PROVE AgeInv'
  <2>1. /\ pc[r] = "loaded" /\ UNCHANGED <<now, cached, key, asked, call, value, err>>
        /\ Goto(r, IF err[r] THEN "failed" ELSE "check")
    BY <1>8 DEF Delete
  <2> DEFINE l == IF err[r] THEN "failed" ELSE "check"
  <2>2. l \in {"failed", "check"} /\ Goto(r, l)
    BY <2>1
  <2>3. pc'[r] = l /\ \A s \in Requests \ {r} : pc'[s] = pc[s]
    BY <1>0, <2>1 DEF Goto, TypeOK
  <2>4. (l = "failed" => err[r]) /\ (l = "check" => ~err[r])
    OBVIOUS
  <2> HIDE DEF l
  <2>5. InPeriod' /\ Nesting'
    BY <1>0, <2>1, <2>2, MoveKeeps
  <2>6. Waiting'
    <3>1. \A s \in Requests : Begun(s) => Begun(s)'
      BY <2>1, <2>2, <2>3, <2>4 DEF Begun
    <3>2. l \in Labels \ {"wait"}
      BY <2>2 DEF Labels, Ended
    <3>3. QED
      BY <1>0, <2>1, <2>2, <3>1, <3>2, WaitingKept
  <2>7. Fresh'
    <3>1. l = "check" => Young(key[r], value[r])
      BY <1>0, <2>1, <2>4 DEF Fresh, Holds
    <3>2. QED
      BY <1>0, <2>1, <2>2, <2>3, <3>1, FreshKept
  <2>8. QED
    BY <2>5, <2>6, <2>7 DEF AgeInv
<1>9. ASSUME NEW r \in Requests, Check(r) PROVE AgeInv'
  <2>1. pc[r] = "check" /\ UNCHANGED <<now, cached, inflight, key, asked, call, value, err>>
    BY <1>9 DEF Check
  <2>2. PICK l \in {"returned", "add"} : Goto(r, l)
    BY <1>9 DEF Check
  <2>3. pc'[r] = l /\ \A s \in Requests \ {r} : pc'[s] = pc[s]
    BY <1>0, <2>2 DEF Goto, TypeOK
  <2>4. InPeriod' /\ Nesting'
    BY <1>0, <2>1, <2>2, MoveKeeps
  <2>5. Waiting'
    <3>1. \A s \in Requests : Begun(s) => Begun(s)'
      BY <2>1, <2>3 DEF Begun
    <3>2. l \in Labels \ {"wait"}
      BY DEF Labels, Ended
    <3>3. QED
      BY <1>0, <2>1, <2>2, <3>1, <3>2, WaitingKept
  <2>6. Fresh'
    <3>1. Young(key[r], value[r])
      BY <1>0, <2>1 DEF Fresh, Holds
    <3>2. QED
      BY <1>0, <2>1, <2>3, <3>1, FreshKept
  <2>7. QED
    BY <2>4, <2>5, <2>6 DEF AgeInv
<1>10. ASSUME NEW r \in Requests, Add(r) PROVE AgeInv'
  <2>1. /\ pc[r] = "add" /\ Goto(r, "returned")
        /\ UNCHANGED <<now, inflight, key, asked, call, value, err>>
    BY <1>10 DEF Add
  <2>2. PICK gone \in Evicted(key[r]) :
          cached' = [k \in (DOMAIN cached \ gone) \cup {key[r]} |->
                       IF k = key[r] THEN value[r] ELSE cached[k]]
    BY <1>10 DEF Add
  <2>3. pc'[r] = "returned" /\ \A s \in Requests \ {r} : pc'[s] = pc[s]
    BY <1>0, <2>1 DEF Goto, TypeOK
  <2>4. InPeriod' /\ Nesting'
    BY <1>0, <2>1, MoveKeeps
  <2>5. Waiting'
    <3>1. \A s \in Requests : Begun(s) => Begun(s)'
      BY <2>1, <2>3 DEF Begun
    <3>2. "returned" \in Labels \ {"wait"}
      BY DEF Labels, Ended
    <3>3. QED
      BY <1>0, <2>1, <3>1, <3>2, WaitingKept
  <2>6. Young(key[r], value[r])
    BY <1>0, <2>1 DEF Fresh, Holds
  <2>7. \A k \in DOMAIN cached' : Young(k, cached'[k])
    BY <1>0, <2>2, <2>6 DEF Fresh
  <2>8. ASSUME NEW s \in Requests,
               pc'[s] \in {"check", "add", "returned"} \/ (pc'[s] = "loaded" /\ ~err[s])
        PROVE  Young(key[s], value[s])
    BY <1>0, <2>1, <2>3, <2>6, <2>8 DEF Fresh, Holds
  <2>9. Fresh'
    BY <2>1, <2>7, <2>8 DEF Fresh, Holds, Young, Bound
  <2>10. QED
    BY <2>4, <2>5, <2>9 DEF AgeInv
<1>11. CASE UNCHANGED vars
  BY <1>0, <1>11 DEF vars, AgeInv, InPeriod, Nesting, Waiting, Begun, Fresh, Holds, Young, Bound
<1>12. QED
  BY <1>1, <1>2, <1>3, <1>4, <1>5, <1>6, <1>7, <1>8, <1>9, <1>10, <1>11 DEF Next, Step

\* The ttl bounds the age of the data behind every answer, for any periods and
\* for any length of loads and waits.
THEOREM CacheNotTooOld == Spec => []NotTooOld
<1>1. Init => CInv /\ AgeInv
  BY InitCInv, InitAgeInv
<1>2. CInv /\ AgeInv /\ [Next]_vars => (CInv /\ AgeInv)'
  BY StepCInv, StepAgeInv
<1>3. CInv /\ AgeInv => NotTooOld
  BY YoungIsNotTooOld DEF CInv
<1>4. QED
  BY <1>1, <1>2, <1>3, PTL DEF Spec
=============================================================================
