------------------------------- MODULE Cache -------------------------------
(***************************************************************************)
(* The read-through cache of src/utils/cache.go: an LRU cache in front of  *)
(* loaders, whose keys end in the time at which they stop being asked for, *)
(* and a group that lets one request at a time run the loader of a key     *)
(* while the others wait for its result.  A loader may itself ask the      *)
(* cache (the home page asks for the configuration); it may return an      *)
(* error, and it may panic, which ends the request that runs it only.      *)
(***************************************************************************)
EXTENDS Integers, FiniteSets

CONSTANTS Callers,  \* goroutines, each making one request
          Names,    \* what is cached
          Period,   \* how long the key of a name stays the same, padding included; 0: for ever
          Inner,    \* the name that the loader of a name asks for, or None
          None,
          Fails, Panics, \* names whose loader may return an error, or panic
          Size,     \* capacity of the LRU cache
          MaxNow    \* bound of the clock

ASSUME CacheAssumption ==
  /\ Names # {} /\ Period \in [Names -> Nat]
  /\ None \notin Names /\ Inner \in [Names -> Names \cup {None}]
  /\ \A n \in Names : Inner[n] # None => Inner[Inner[n]] = None
  /\ Fails \subseteq Names /\ Panics \subseteq Names
  /\ Size \in Nat \ {0} /\ MaxNow \in Nat

VARIABLES
  now,      \* the clock
  cached,   \* lcache: from keys to values
  inflight, \* the group's map: from keys to the request that runs the loader
  pc, key, asked, \* of each request: where it is, its key, when that was computed
  call,     \* the request whose result it waits for
  value, err \* what it has, and what the call it started ended with

vars == <<now, cached, inflight, pc, key, asked, call, value, err>>

\* The request a caller makes and the one that its loader makes.
Requests == Callers \X {1, 2}
InnerOf(r) == <<r[1], 2>>

Keys == Names \X Nat
\* CacheFromLru: the key of a name at time t ends in the end of t's period.
KeyAt(n, t) ==
  <<n, IF Period[n] = 0 THEN 0 ELSE t + (Period[n] - (t % Period[n]))>>

Init ==
  /\ now = 0
  /\ cached = [k \in {} |-> 0] /\ inflight = [k \in {} |-> 0]
  /\ pc = [r \in Requests |-> "idle"]
  /\ key = [r \in Requests |-> <<CHOOSE n \in Names : TRUE, 0>>]
  /\ asked = [r \in Requests |-> 0]
  /\ call = [r \in Requests |-> r]
  /\ value = [r \in Requests |-> 0] /\ err = [r \in Requests |-> FALSE]
-----------------------------------------------------------------------------
Goto(r, label) == pc' = [pc EXCEPT ![r] = label]

Tick == now < MaxNow /\ now' = now + 1
        /\ UNCHANGED <<cached, inflight, pc, key, asked, call, value, err>>

\* Faulty variant: the key does not change with the time.
AskUndated(r, n) ==
  /\ pc[r] = "idle" /\ Goto(r, "get")
  /\ key' = [key EXCEPT ![r] = <<n, Period[n]>>] /\ asked' = [asked EXCEPT ![r] = now]
  /\ UNCHANGED <<now, cached, inflight, call, value, err>>
\* A request for n: CacheFromLru computes its key.
Ask(r, n) ==
  /\ pc[r] = "idle" /\ Goto(r, "get")
  /\ key' = [key EXCEPT ![r] = KeyAt(n, now)] /\ asked' = [asked EXCEPT ![r] = now]
  /\ UNCHANGED <<now, cached, inflight, call, value, err>>

\* CacheFromLruWithFixKey: lcache.Get.
Get(r) ==
  /\ pc[r] = "get"
  /\ IF key[r] \in DOMAIN cached
     THEN Goto(r, "returned") /\ value' = [value EXCEPT ![r] = cached[key[r]]]
     ELSE Goto(r, "do") /\ UNCHANGED value
  /\ UNCHANGED <<now, cached, inflight, key, asked, call, err>>

\* Faulty variant: the call in flight is not looked for.
EnterAlways(r) ==
  /\ pc[r] = "do"
  /\ Goto(r, "load")
  /\ inflight' = [k \in DOMAIN inflight \cup {key[r]} |->
                    IF k = key[r] THEN r ELSE inflight[k]]
  /\ UNCHANGED <<now, cached, key, asked, call, value, err>>
\* Do, under the group's mutex: wait for the call in flight, or start one.
Enter(r) ==
  /\ pc[r] = "do"
  /\ IF key[r] \in DOMAIN inflight
     THEN Goto(r, "wait") /\ call' = [call EXCEPT ![r] = inflight[key[r]]]
          /\ UNCHANGED inflight
     ELSE Goto(r, "load")
          /\ inflight' = [k \in DOMAIN inflight \cup {key[r]} |->
                            IF k = key[r] THEN r ELSE inflight[k]]
          /\ UNCHANGED call
  /\ UNCHANGED <<now, cached, key, asked, value, err>>

\* The call is done: the waiting request has its result.
Wait(r) ==
  /\ pc[r] = "wait" /\ pc[call[r]] \notin {"load", "panicked"}
  /\ value' = [value EXCEPT ![r] = value[call[r]]]
  /\ Goto(r, IF err[call[r]] THEN "failed" ELSE "check")
  /\ UNCHANGED <<now, cached, inflight, key, asked, call, err>>
-----------------------------------------------------------------------------
\* The loader of r's name, running; it asks for another name first if it has one.
Loading(r) == pc[r] = "load"
Nested(r) == r[2] = 1 /\ Inner[key[r][1]] # None

AskInner(r) == Loading(r) /\ Nested(r) /\ Ask(InnerOf(r), Inner[key[r][1]])

\* The loader reads the source now; the value is as old as the oldest part of it.
Oldest(r) == IF Nested(r) /\ value[InnerOf(r)] < now THEN value[InnerOf(r)] ELSE now
Ready(r) == Loading(r) /\ (Nested(r) => pc[InnerOf(r)] = "returned")

\* fn returns and wg.Done lets the waiting requests go on.
Load(r) ==
  /\ Ready(r) /\ Goto(r, "loaded")
  /\ value' = [value EXCEPT ![r] = Oldest(r)]
  /\ UNCHANGED <<now, cached, inflight, key, asked, call, err>>

\* Faulty variant: an error returns before wg.Done.
LoadFailsEarly(r) ==
  /\ Ready(r) /\ key[r][1] \in Fails /\ Goto(r, "panicked")
  /\ UNCHANGED <<now, cached, inflight, key, asked, call, value, err>>
LoadFails(r) ==
  /\ Ready(r) /\ key[r][1] \in Fails /\ Goto(r, "loaded")
  /\ err' = [err EXCEPT ![r] = TRUE]
  /\ UNCHANGED <<now, cached, inflight, key, asked, call, value>>

\* fn panics, or takes the nil result of its own request for a value, and
\* leaves Do where it stands; the caller's server recovers.
LoadPanics(r) ==
  /\ Loading(r)
  /\ \/ Ready(r) /\ key[r][1] \in Panics
     \/ Nested(r) /\ pc[InnerOf(r)] \in {"failed", "panicked"}
  /\ Goto(r, "panicked")
  /\ UNCHANGED <<now, cached, inflight, key, asked, call, value, err>>

\* Faulty variant: an error leaves the call in the map.
DeleteLoadedOnly(r) ==
  /\ pc[r] = "loaded"
  /\ inflight' = IF err[r] THEN inflight
                 ELSE [k \in DOMAIN inflight \ {key[r]} |-> inflight[k]]
  /\ Goto(r, IF err[r] THEN "failed" ELSE "check")
  /\ UNCHANGED <<now, cached, key, asked, call, value, err>>
\* Do: delete(g.m, key), whatever the result.
Delete(r) ==
  /\ pc[r] = "loaded"
  /\ inflight' = [k \in DOMAIN inflight \ {key[r]} |-> inflight[k]]
  /\ Goto(r, IF err[r] THEN "failed" ELSE "check")
  /\ UNCHANGED <<now, cached, key, asked, call, value, err>>
-----------------------------------------------------------------------------
\* CacheFromLruWithFixKey, after Do: another request may have added the key.
Check(r) ==
  /\ pc[r] = "check"
  /\ Goto(r, IF key[r] \in DOMAIN cached THEN "returned" ELSE "add")
  /\ UNCHANGED <<now, cached, inflight, key, asked, call, value, err>>

\* A full cache loses one of its entries for a new one (any of them: the order
\* of use is left out).
Evicted(k) ==
  IF k \in DOMAIN cached \/ Cardinality(DOMAIN cached) < Size
  THEN {{}} ELSE {{old} : old \in DOMAIN cached}

\* Faulty variant: nothing is evicted.
AddWithoutEviction(r) ==
  /\ pc[r] = "add" /\ Goto(r, "returned")
  /\ cached' = [k \in DOMAIN cached \cup {key[r]} |->
                  IF k = key[r] THEN value[r] ELSE cached[k]]
  /\ UNCHANGED <<now, inflight, key, asked, call, value, err>>
Add(r) ==
  /\ pc[r] = "add" /\ Goto(r, "returned")
  /\ \E gone \in Evicted(key[r]) :
       cached' = [k \in (DOMAIN cached \ gone) \cup {key[r]} |->
                    IF k = key[r] THEN value[r] ELSE cached[k]]
  /\ UNCHANGED <<now, inflight, key, asked, call, value, err>>

Step(r) ==
  \/ Get(r) \/ Enter(r) \/ Wait(r) \/ AskInner(r)
  \/ Load(r) \/ LoadFails(r) \/ LoadPanics(r) \/ Delete(r) \/ Check(r) \/ Add(r)

Next ==
  \/ Tick
  \/ \E c \in Callers, n \in Names : Ask(<<c, 1>>, n)
  \/ \E r \in Requests : Step(r)

Spec == Init /\ [][Next]_vars

\* Every goroutine that can go on does, and a loader ends in one of its ways;
\* callers need not come.
FairSpec == Spec /\ \A r \in Requests : WF_vars(Step(r))
-----------------------------------------------------------------------------
Ended == {"returned", "failed", "panicked"}

TypeOK ==
  /\ now \in Nat
  /\ DOMAIN cached \subseteq Keys /\ cached \in [DOMAIN cached -> Nat]
  /\ IsFiniteSet(DOMAIN cached) /\ Cardinality(DOMAIN cached) <= Size
  /\ DOMAIN inflight \subseteq Keys /\ inflight \in [DOMAIN inflight -> Requests]
  /\ pc \in [Requests -> {"idle", "get", "do", "wait", "load", "loaded", "check", "add"} \cup Ended]
  /\ key \in [Requests -> Keys] /\ asked \in [Requests -> Nat]
  /\ call \in [Requests -> Requests]
  /\ value \in [Requests -> Nat] /\ err \in [Requests -> BOOLEAN]

\* Do runs at most one loader of a key at a time, even when requests come
\* between the end of a load, its removal from the map and lcache.Add.
OneInFlight ==
  \A r, s \in Requests : Loading(r) /\ Loading(s) /\ key[r] = key[s] => r = s

\* No call stays in the group's map when its loader has returned, so the next
\* request loads again, after an error too; only a panic leaves one behind.
NoCallLeft == \A k \in DOMAIN inflight : pc[inflight[k]] \in {"load", "loaded", "panicked"}

\* How old a value of n may be when it is asked for: less than its own period,
\* and less than the period of the value its loader got from the cache.  There is
\* such a bound if both are dated.
Age(n) == Period[n] - 1 + IF Inner[n] = None THEN 0 ELSE Period[Inner[n]] - 1
Dated(n) == Period[n] # 0 /\ (Inner[n] # None => Period[Inner[n]] # 0)

\* The ttl of CacheFromLru bounds the age of the data behind an answer at the
\* time of the request, however long loads and waits take, whoever adds the
\* value to the cache, and when a loader's own data came from the cache.
NotTooOld ==
  \A r \in Requests :
    pc[r] = "returned" /\ Dated(key[r][1]) => value[r] >= asked[r] - Age(key[r][1])

\* "If a duplicate comes in, the duplicate caller waits for the original to complete and
\* receives the same results": every request ends, whatever fails, unless a loader
\* panics; its call is never done, and requests may wait for it for ever.
Panicked == \E r \in Requests : pc[r] = "panicked" /\ key[r][1] \in Panics
EveryRequestEnds == \A r \in Requests : pc[r] # "idle" ~> pc[r] \in Ended \/ Panicked
=============================================================================
