--------------------------- MODULE AccountsProofs ---------------------------
(***************************************************************************)
(* The accounts and tokens of Accounts.tla, for any number of requests at  *)
(* a time, mobiles, codes and times: how many accounts a mobile and live   *)
(* tokens a user can have, and for how long a token that is no longer good *)
(* is still accepted.                                                      *)
(***************************************************************************)
EXTENDS Accounts, FiniteSetTheorems, TLAPS

\* A code that is still in the store is good for one more account.
Unused(m) == IF code[m] = None THEN 0 ELSE 1

\* The accounts of a mobile are bounded by requests and by codes.
Bounded(m) ==
  /\ Cardinality(Accounts(m)) + Cardinality(Inserting(m)) <= Cardinality(Slots) + overlooked[m]
  /\ Cardinality(Accounts(m)) + Cardinality(Registering(m)) + Unused(m) <= sent[m]

TokensBounded(u) == Cardinality(Live(u)) + Cardinality(Creating(u)) <= Cardinality(Slots) + spared[u]

\* A token was good when it was loaded, and the key it is kept under ends less
\* than a period after that.
SafeRequest(v) ==
  /\ req[v].at = "add" => req[v].asked <= GoodUntil(req[v].of)
  /\ req[v].at = "accepted" => req[v].asked < GoodUntil(req[v].of) + Period
SafeEntry(c) == c[2] <= GoodUntil(c[1]) + Period /\ c[2] <= now + Period

AInv ==
  /\ TypeOK
  /\ \A m \in Mobiles : Bounded(m)
  /\ \A u \in DOMAIN users : TokensBounded(u)
  /\ \A v \in Slots : SafeRequest(v)
  /\ \A c \in cached : SafeEntry(c)
-----------------------------------------------------------------------------
LEMMA AddedRow ==
  ASSUME NEW n \in Nat, NEW rows, DOMAIN rows = 1..n, NEW row
  PROVE  /\ Following(rows) = n + 1
         /\ Added(rows, row) = [i \in 1..(n + 1) |-> IF i = n + 1 THEN row ELSE rows[i]]
<1>1. Following(rows) = n + 1
  <2>1. 1 \in Int /\ n \in Int /\ (IF 1 > n THEN 0 ELSE n - 1 + 1) = n
    OBVIOUS
  <2>2. Cardinality(1..n) = IF 1 > n THEN 0 ELSE n - 1 + 1
    BY <2>1, FS_Interval, Zenon
  <2>3. Cardinality(1..n) = n
    BY <2>1, <2>2
  <2>4. QED
    BY <2>3 DEF Following
<1>2. DOMAIN rows \cup {n + 1} = 1..(n + 1)
  OBVIOUS
<1>3. Added(rows, row) = [i \in 1..(n + 1) |-> IF i = n + 1 THEN row ELSE rows[i]]
  BY <1>1, <1>2, Zenon DEF Added
<1>4. QED
  BY <1>1, <1>3, Zenon

LEMMA Ending ==
  ASSUME NEW t \in Nat
  PROVE  End(t) \in Nat /\ t < End(t) /\ End(t) <= t + Period
<1>1. Period \in Nat \ {0}
  BY AccountsAssumption
<1>2. \A p \in Nat \ {0} : t % p \in Nat /\ t % p < p
  OBVIOUS
<1>3. t % Period \in Nat /\ t % Period < Period
  BY <1>1, <1>2
<1>4. QED
  BY <1>1, <1>3 DEF End

\* What TypeOK says, with the numbers of rows named.
LEMMA Typed ==
  ASSUME TypeOK
  PROVE  \E n, k \in Nat :
           /\ n <= Users /\ users \in [1..n -> Mobiles] /\ DOMAIN users = 1..n
           /\ k <= Tokens /\ tokens \in [1..k -> Token] /\ DOMAIN tokens = 1..k
<1>1. PICK n \in 0..Users : users \in [1..n -> Mobiles]
  BY DEF TypeOK
<1>2. PICK k \in 0..Tokens : tokens \in [1..k -> Token]
  BY DEF TypeOK
<1>3. n \in Nat /\ k \in Nat /\ n <= Users /\ k <= Tokens
  BY AccountsAssumption
<1>4. QED
  BY <1>1, <1>2, <1>3
-----------------------------------------------------------------------------
Request == [at : Places, of : Mobiles \cup Int, asked : 0..now]
Requested == req \in [Slots -> Request] /\ \A r \in Slots : About(r)

\* A request q may be at.
Fits(q) ==
  /\ q \in [at : Places, of : Mobiles \cup Int, asked : 0..now]
  /\ q.at \in {"look", "insert"} => q.of \in Mobiles
  /\ q.at \in {"address", "disable", "create"} => q.of \in DOMAIN users'
  /\ q.at \in {"load", "add", "accepted"} => q.of \in DOMAIN tokens'

LEMMA RequestKept ==
  ASSUME TypeOK, NEW r \in Slots, NEW q, Fits(q), req' = [req EXCEPT ![r] = q], now' = now,
         DOMAIN users \subseteq DOMAIN users', DOMAIN tokens \subseteq DOMAIN tokens'
  PROVE  Requested'
<1>1. req' \in [Slots -> Request']
  BY DEF TypeOK, Request, Fits
<1>2. ASSUME NEW v \in Slots PROVE About(v)'
  <2>1. CASE v = r
    <3>1. req'[v] = q
      BY <2>1 DEF TypeOK
    <3>2. QED
      BY <3>1 DEF Fits, About
  <2>2. CASE v # r
    <3>1. req'[v] = req[v] /\ About(v)
      BY <2>2 DEF TypeOK
    <3>2. QED
      BY <3>1 DEF About
  <2>3. QED
    BY <2>1, <2>2
<1>3. QED
  BY <1>1, <1>2 DEF Requested, Request

LEMMA RowsKept ==
  ASSUME TypeOK, UNCHANGED <<now, sent, code, users, tokens, cached>>, Requested',
         overlooked' \in [Mobiles -> 0..Faults], spared' \in [1..Users -> 0..Faults]
  PROVE  TypeOK'
<1>1. \E n \in 0..Tokens : tokens' \in [1..n -> Token']
  BY DEF TypeOK, Token
<1>2. QED
  BY <1>1 DEF TypeOK, Requested, Request

\* The steps that only move a request.
LEMMA MovesTyped ==
  ASSUME TypeOK, NEW r \in Slots, UNCHANGED <<now, sent, code, users, tokens, cached>>,
         \/ Look(r) \/ LookFails(r) \/ Address(r) \/ DisableFails(r) \/ Load(r) \/ Answer(r) \/ Fail(r)
         \/ \E m \in Mobiles : SignIn(r, m)
         \/ \E t \in DOMAIN tokens : Authenticate(r, t)
  PROVE  TypeOK'
<1>1. req[r] \in [at : Places, of : Mobiles \cup Int, asked : 0..now] /\ About(r) /\ now \in Nat
  BY AccountsAssumption DEF TypeOK, Times
<1>2. PICK n \in Nat, k \in Nat : DOMAIN users = 1..n /\ DOMAIN tokens = 1..k
  BY Typed
<1>3. Fits(Idle)
  BY <1>1 DEF Fits, Idle, None, Places
<1>9. overlooked' \in [Mobiles -> 0..Faults] /\ spared' \in [1..Users -> 0..Faults]
  <2>1. CASE LookFails(r)
    <3>1. \A i \in 0..Faults : i < Faults => i + 1 \in 0..Faults
      BY AccountsAssumption
    <3>2. QED
      BY <2>1, <3>1 DEF LookFails, TypeOK
  <2>2. CASE DisableFails(r)
    <3>1. \A i \in 0..Faults : i < Faults => i + 1 \in 0..Faults
      BY AccountsAssumption
    <3>2. QED
      BY <2>2, <3>1 DEF DisableFails, TypeOK
  <2>3. CASE UNCHANGED ignored
    BY <2>3 DEF ignored, TypeOK
  <2>4. QED
    BY <2>1, <2>2, <2>3 DEF Look, Address, Load, Answer, Fail, SignIn, Authenticate
<1>4. CASE req' = [req EXCEPT ![r] = Idle]
  BY <1>3, <1>4, <1>9, RequestKept, RowsKept
<1>5. \/ Goes(r, "look", "insert") \/ Goes(r, "address", "disable")
      \/ Goes(r, "load", "add") \/ Goes(r, "disable", "create")
      => TypeOK'
  <2> SUFFICES ASSUME \/ Goes(r, "look", "insert") \/ Goes(r, "address", "disable")
                      \/ Goes(r, "load", "add") \/ Goes(r, "disable", "create")
               PROVE  TypeOK'
    OBVIOUS
  <2>1. PICK to \in {"insert", "disable", "add", "create"} :
          /\ req' = [req EXCEPT ![r].at = to]
          /\ to = "insert" => req[r].at = "look"
          /\ to = "disable" => req[r].at = "address"
          /\ to = "create" => req[r].at = "disable"
          /\ to = "add" => req[r].at = "load"
    BY DEF Goes
  <2>2. Fits([req[r] EXCEPT !.at = to])
    BY <1>1, <2>1 DEF Fits, About, Places
  <2>3. req' = [req EXCEPT ![r] = [req[r] EXCEPT !.at = to]]
    BY <2>1
  <2>4. QED
    BY <1>9, <2>2, <2>3, RequestKept, RowsKept
<1>6. ASSUME NEW m \in Mobiles, SignIn(r, m) PROVE TypeOK'
  <2>1. PICK u \in Accounts(m) : req' = [req EXCEPT ![r] = [at |-> "disable", of |-> u, asked |-> 0]]
    BY <1>6 DEF SignIn, Begins
  <2>2. Fits([at |-> "disable", of |-> u, asked |-> 0])
    BY <1>1, <1>2 DEF Fits, Places, Accounts
  <2>3. QED
    BY <1>9, <2>1, <2>2, RequestKept, RowsKept
<1>7. ASSUME NEW t \in DOMAIN tokens, Authenticate(r, t) PROVE TypeOK'
  <2>1. PICK at \in {"accepted", "load"} : req' = [req EXCEPT ![r] = [at |-> at, of |-> t, asked |-> now]]
    BY <1>7 DEF Authenticate, Begins
  <2>2. Fits([at |-> at, of |-> t, asked |-> now])
    BY <1>1, <1>2 DEF Fits, Places
  <2>3. QED
    BY <1>9, <2>1, <2>2, RequestKept, RowsKept
<1>8. QED
  BY <1>4, <1>5, <1>6, <1>7 DEF Look, LookFails, Address, DisableFails, Load, Answer, Fail, Ends

LEMMA SignUpTyped == ASSUME TypeOK, NEW r \in Slots, NEW m \in Mobiles, NEW c, SignUp(r, m, c) PROVE TypeOK'
<1>1. UNCHANGED <<now, sent, users, tokens, cached, overlooked, spared>> /\ code' = [code EXCEPT ![m] = None]
  BY DEF SignUp, Verify, ignored
<1>2. Requested'
  <2>1. CASE req' = [req EXCEPT ![r] = [at |-> "look", of |-> m, asked |-> 0]]
    <3>1. Fits([at |-> "look", of |-> m, asked |-> 0])
      BY DEF Fits, Places, TypeOK, Times
    <3>2. QED
      BY <1>1, <2>1, <3>1, RequestKept
  <2>2. CASE UNCHANGED req
    BY <1>1, <2>2 DEF TypeOK, Requested, Request, About
  <2>3. QED
    BY <2>1, <2>2 DEF SignUp, Begins
<1>3. code' \in [Mobiles -> (1..Codes) \cup {None}]
  BY <1>1 DEF TypeOK
<1>4. \E n \in 0..Tokens : tokens' \in [1..n -> Token']
  BY <1>1 DEF TypeOK, Token
<1>5. QED
  BY <1>1, <1>2, <1>3, <1>4 DEF TypeOK, Requested, Request

LEMMA InsertTyped ==
  ASSUME TypeOK, NEW r \in Slots, Insert(r),
         NEW n \in Nat, users \in [1..n -> Mobiles]
  PROVE  /\ TypeOK' /\ req[r].of \in Mobiles
         /\ users' \in [1..(n + 1) -> Mobiles] /\ users'[n + 1] = req[r].of
         /\ \A i \in 1..n : users'[i] = users[i]
         /\ req' = [req EXCEPT ![r] = [at |-> "address", of |-> n + 1, asked |-> 0]]
<1>1. /\ UNCHANGED <<now, sent, code, tokens, cached, overlooked, spared>> /\ users' = Added(users, req[r].of)
      /\ req' = [req EXCEPT ![r] = [at |-> "address", of |-> Following(users), asked |-> 0]]
      /\ Following(users) <= Users /\ req[r].at = "insert"
  BY DEF Insert, ignored
<1>2. req[r].of \in Mobiles
  BY <1>1 DEF TypeOK, About
<1>3. /\ Following(users) = n + 1 /\ users' \in [1..(n + 1) -> Mobiles]
      /\ users'[n + 1] = req[r].of /\ \A i \in 1..n : users'[i] = users[i]
  <2> DEFINE row == req[r].of
             rows == Added(users, row)
  <2>1. row \in Mobiles /\ users' = rows
    BY <1>1, <1>2
  <2> HIDE DEF row, rows
  <2>2. /\ Following(users) = n + 1
        /\ Added(users, row) = [i \in 1..(n + 1) |-> IF i = n + 1 THEN row ELSE users[i]]
    BY AddedRow
  <2>3. QED
    BY <2>1, <2>2 DEF row, rows
<1>4. DOMAIN users = 1..n /\ DOMAIN users' = 1..(n + 1) /\ n + 1 \in 0..Users
  BY <1>1, <1>3, AccountsAssumption
<1>5. Requested'
  <2>1. Fits([at |-> "address", of |-> n + 1, asked |-> 0])
    BY <1>4 DEF Fits, Places, TypeOK, Times
  <2>2. /\ DOMAIN users \subseteq DOMAIN users' /\ DOMAIN tokens \subseteq DOMAIN tokens' /\ now' = now
        /\ req' = [req EXCEPT ![r] = [at |-> "address", of |-> n + 1, asked |-> 0]]
    BY <1>1, <1>3, <1>4
  <2>3. QED
    BY <2>1, <2>2, RequestKept
<1>6. \E k \in 0..Tokens : tokens' \in [1..k -> Token']
  <2>1. Token \subseteq Token'
    BY <1>4 DEF Token
  <2>2. PICK k \in 0..Tokens : tokens \in [1..k -> Token]
    BY DEF TypeOK
  <2>3. tokens' \in [1..k -> Token']
    BY <1>1, <2>1, <2>2
  <2>4. QED
    BY <2>3
<1>7. TypeOK'
  BY <1>1, <1>3, <1>4, <1>5, <1>6 DEF TypeOK, Requested, Request
<1>8. QED
  BY <1>1, <1>2, <1>3, <1>7

LEMMA DisableTyped ==
  ASSUME TypeOK, NEW r \in Slots, Disable(r)
  PROVE  /\ TypeOK' /\ DOMAIN tokens' = DOMAIN tokens /\ req[r].of \in DOMAIN users
         /\ \A t \in DOMAIN tokens :
              tokens'[t] = IF t \in Live(req[r].of) THEN [tokens[t] EXCEPT !.disabled = now] ELSE tokens[t]
         /\ req' = [req EXCEPT ![r] = [req[r] EXCEPT !.at = "create"]]
<1>1. /\ UNCHANGED <<now, sent, code, users, cached, overlooked>> /\ req[r].at = "disable"
      /\ spared' = [spared EXCEPT ![req[r].of] = 0]
      /\ req' = [req EXCEPT ![r].at = "create"]
      /\ tokens' = [t \in DOMAIN tokens |->
                      IF t \in Live(req[r].of) THEN [tokens[t] EXCEPT !.disabled = now] ELSE tokens[t]]
  BY DEF Disable, Goes
<1>2. /\ req[r] \in [at : Places, of : Mobiles \cup Int, asked : 0..now]
      /\ req[r].of \in DOMAIN users /\ now \in Times
  BY <1>1 DEF TypeOK, About
<1>3. PICK k \in 0..Tokens : tokens \in [1..k -> Token]
  BY DEF TypeOK
<1>4. tokens' \in [1..k -> Token']
  BY <1>1, <1>2, <1>3 DEF Token
<1>5. Requested'
  <2>1. Fits([req[r] EXCEPT !.at = "create"])
    BY <1>1, <1>2 DEF Fits, Places
  <2>2. QED
    BY <1>1, <2>1, RequestKept
<1>8. spared' \in [1..Users -> 0..Faults]
  <2>1. 0 \in 0..Faults /\ spared \in [1..Users -> 0..Faults]
    BY AccountsAssumption DEF TypeOK
  <2>2. QED
    BY <1>1, <2>1
<1>6. TypeOK'
  BY <1>1, <1>3, <1>4, <1>5, <1>8 DEF TypeOK, Requested, Request
<1>7. QED
  BY <1>1, <1>2, <1>6

LEMMA CreateTyped ==
  ASSUME TypeOK, NEW r \in Slots, Create(r),
         NEW k \in Nat, tokens \in [1..k -> Token]
  PROVE  /\ TypeOK' /\ req[r].of \in DOMAIN users
         /\ DOMAIN tokens' = 1..(k + 1)
         /\ tokens'[k + 1] = [user |-> req[r].of, created |-> now, disabled |-> None]
         /\ \A i \in 1..k : tokens'[i] = tokens[i]
         /\ req' = [req EXCEPT ![r] = Idle]
<1> DEFINE row == [user |-> req[r].of, created |-> now, disabled |-> None]
<1>1. /\ UNCHANGED <<now, sent, code, users, cached, overlooked, spared>> /\ tokens' = Added(tokens, row)
      /\ req' = [req EXCEPT ![r] = Idle] /\ Following(tokens) <= Tokens /\ req[r].at = "create"
  BY DEF Create, Ends, ignored
<1>2. req[r].of \in DOMAIN users /\ now \in Times
  BY <1>1 DEF TypeOK, About
<1>3. row \in Token
  BY <1>2 DEF Token
<1> HIDE DEF row
<1>4. /\ Following(tokens) = k + 1 /\ tokens' \in [1..(k + 1) -> Token]
      /\ tokens'[k + 1] = row /\ \A i \in 1..k : tokens'[i] = tokens[i]
  <2>1. /\ Following(tokens) = k + 1
        /\ Added(tokens, row) = [i \in 1..(k + 1) |-> IF i = k + 1 THEN row ELSE tokens[i]]
    BY AddedRow
  <2>2. QED
    BY <1>1, <1>3, <2>1
<1>5. DOMAIN tokens = 1..k /\ DOMAIN tokens' = 1..(k + 1) /\ k + 1 \in 0..Tokens /\ Token' = Token
  BY <1>1, <1>4, AccountsAssumption DEF Token
<1>6. Requested'
  <2>1. Fits(Idle)
    BY DEF Fits, Idle, None, Places, TypeOK, Times
  <2>2. /\ DOMAIN users \subseteq DOMAIN users' /\ DOMAIN tokens \subseteq DOMAIN tokens' /\ now' = now
        /\ req' = [req EXCEPT ![r] = Idle]
    BY <1>1, <1>5
  <2>3. QED
    BY <2>1, <2>2, RequestKept
<1>7. cached' \subseteq (DOMAIN tokens') \X (1..(MaxNow + Period))
  BY <1>1, <1>5 DEF TypeOK
<1>8. \E j \in 0..Tokens : tokens' \in [1..j -> Token']
  BY <1>4, <1>5
<1>9. TypeOK'
  BY <1>1, <1>6, <1>7, <1>8 DEF TypeOK, Requested, Request
<1>10. QED
  BY <1>1, <1>2, <1>4, <1>5, <1>9 DEF row

LEMMA AddTyped ==
  ASSUME TypeOK, NEW r \in Slots, Add(r)
  PROVE  /\ TypeOK' /\ req[r].of \in DOMAIN tokens
         /\ req[r].asked \in Nat /\ req[r].asked <= now
<1>1. /\ UNCHANGED <<now, sent, code, users, tokens, overlooked, spared>> /\ req[r].at = "add"
      /\ cached' = cached \cup {<<req[r].of, End(req[r].asked)>>}
      /\ req' = [req EXCEPT ![r] = [req[r] EXCEPT !.at = "accepted"]]
  BY DEF Add, Goes, ignored
<1>2. /\ req[r] \in [at : Places, of : Mobiles \cup Int, asked : 0..now]
      /\ req[r].of \in DOMAIN tokens /\ now \in Times /\ now \in Nat /\ now <= MaxNow
      /\ req[r].asked \in Nat /\ req[r].asked <= now
  BY <1>1, AccountsAssumption DEF TypeOK, About, Times
<1>3. End(req[r].asked) \in 1..(MaxNow + Period)
  BY <1>2, Ending, AccountsAssumption
<1>4. Requested'
  <2>1. Fits([req[r] EXCEPT !.at = "accepted"])
    BY <1>1, <1>2 DEF Fits, Places
  <2>2. QED
    BY <1>1, <2>1, RequestKept
<1>5. cached' \subseteq (DOMAIN tokens') \X (1..(MaxNow + Period))
  BY <1>1, <1>2, <1>3 DEF TypeOK
<1>6. \E k \in 0..Tokens : tokens' \in [1..k -> Token']
  BY <1>1 DEF TypeOK, Token
<1>7. TypeOK'
  BY <1>1, <1>4, <1>5, <1>6 DEF TypeOK, Requested, Request
<1>8. QED
  BY <1>2, <1>7

LEMMA OthersTyped == ASSUME TypeOK, Tick \/ Restart \/ (\E m \in Mobiles : SendCode(m)) PROVE TypeOK'
<1>1. UNCHANGED <<users, tokens>>
  BY DEF Tick, Restart, SendCode
<1>2. \E k \in 0..Tokens : tokens' \in [1..k -> Token']
  BY <1>1 DEF TypeOK, Token
<1>3. CASE Tick
  <2>1. now \in Nat /\ now' \in Times /\ 0..now \subseteq 0..now'
    BY <1>3, AccountsAssumption DEF Tick, TypeOK, Times
  <2>2. \A r \in Slots : About(r)'
    BY <1>3 DEF Tick, TypeOK, About
  <2>3. req' \in [Slots -> [at : Places, of : Mobiles \cup Int, asked : 0..now']]
    BY <1>3, <2>1 DEF Tick, TypeOK
  <2>4. QED
    BY <1>2, <1>3, <2>1, <2>2, <2>3 DEF Tick, TypeOK, ignored
<1>4. CASE Restart
  <2>1. now \in Nat /\ now' = now
    BY <1>4, AccountsAssumption DEF Restart, TypeOK, Times
  <2>2. \A r \in Slots : About(r)'
    BY <1>4 DEF Restart, About, Idle
  <2>3. req' \in [Slots -> [at : Places, of : Mobiles \cup Int, asked : 0..now']]
    BY <1>4, <2>1 DEF Restart, Idle, None, Places
  <2>4. QED
    BY <1>2, <1>4, <2>2, <2>3 DEF Restart, TypeOK, ignored
<1>5. ASSUME NEW m \in Mobiles, SendCode(m) PROVE TypeOK'
  <2>1. sent[m] + 1 \in 0..Codes /\ sent[m] + 1 \in 1..Codes
    BY <1>5, AccountsAssumption DEF SendCode, TypeOK
  <2>2. \A r \in Slots : About(r)'
    BY <1>5 DEF SendCode, TypeOK, About
  <2>3. QED
    BY <1>2, <1>5, <2>1, <2>2 DEF SendCode, TypeOK, ignored
<1>6. QED
  BY <1>3, <1>4, <1>5
-----------------------------------------------------------------------------
LEMMA Finite ==
  \A S \in SUBSET Slots :
    IsFiniteSet(S) /\ Cardinality(S) \in Nat /\ Cardinality(S) <= Cardinality(Slots)
<1>1. IsFiniteSet(Slots) /\ Cardinality(Slots) \in Nat
  BY AccountsAssumption, FS_CardinalityType
<1>2. ASSUME NEW S \in SUBSET Slots
      PROVE  IsFiniteSet(S) /\ Cardinality(S) \in Nat /\ Cardinality(S) <= Cardinality(Slots)
  BY <1>1, FS_Subset, FS_CardinalityType
<1>3. QED
  BY <1>2

LEMMA Fewer == \A S, T : IsFiniteSet(T) /\ S \subseteq T => Cardinality(S) <= Cardinality(T)
  BY FS_Subset

LEMMA RowsFinite ==
  ASSUME TypeOK
  PROVE  /\ \A m : IsFiniteSet(Accounts(m)) /\ Cardinality(Accounts(m)) \in Nat
         /\ \A u : IsFiniteSet(Live(u)) /\ Cardinality(Live(u)) \in Nat
<1>1. PICK n \in Nat, k \in Nat : DOMAIN users = 1..n /\ DOMAIN tokens = 1..k
  BY Typed
<1>2. IsFiniteSet(1..n) /\ IsFiniteSet(1..k)
  <2>1. 1 \in Int /\ n \in Int /\ k \in Int
    OBVIOUS
  <2>2. QED
    BY <2>1, FS_Interval
<1>3. \A m, u : Accounts(m) \subseteq 1..n /\ Live(u) \subseteq 1..k
  BY <1>1 DEF Accounts, Live
<1>4. QED
  BY <1>2, <1>3, FS_Subset, FS_CardinalityType

LEMMA Sets ==
  /\ \A m : Inserting(m) \in SUBSET Slots /\ Registering(m) \in SUBSET Slots
  /\ \A m : Inserting(m)' \in SUBSET Slots /\ Registering(m)' \in SUBSET Slots
  /\ \A u : Creating(u) \in SUBSET Slots /\ Creating(u)' \in SUBSET Slots
  BY DEF Inserting, Registering, Creating

\* Steps that do not bring an account of m nearer.
LEMMA NotNearer ==
  ASSUME TypeOK, NEW m \in Mobiles, Bounded(m), users' = users,
         Inserting(m)' \subseteq Inserting(m), Registering(m)' \subseteq Registering(m),
         code'[m] = code[m] \/ code'[m] = None, sent'[m] = sent[m],
         overlooked'[m] = overlooked[m]
  PROVE  Bounded(m)'
<1>1. /\ Cardinality(Accounts(m)) \in Nat /\ Accounts(m)' = Accounts(m)
      /\ Cardinality(Inserting(m)) \in Nat /\ Cardinality(Inserting(m)') \in Nat
      /\ Cardinality(Registering(m)) \in Nat /\ Cardinality(Registering(m)') \in Nat
  BY RowsFinite, Sets, Finite DEF Accounts
<1>2. Cardinality(Inserting(m)') <= Cardinality(Inserting(m))
  BY Sets, Finite, Fewer
<1>3. Cardinality(Registering(m)') <= Cardinality(Registering(m))
  BY Sets, Finite, Fewer
<1>4. Unused(m) \in Nat /\ Unused(m)' \in Nat /\ Unused(m)' <= Unused(m)
  BY DEF Unused
<1>5. Cardinality(Slots) \in Nat /\ sent[m] \in Nat /\ overlooked[m] \in Nat
  BY AccountsAssumption, FS_CardinalityType DEF TypeOK
<1>6. QED
  BY <1>1, <1>2, <1>3, <1>4, <1>5 DEF Bounded

LEMMA InsertBounded ==
  ASSUME TypeOK, NEW m \in Mobiles, Bounded(m), NEW r \in Slots, Insert(r)
  PROVE  Bounded(m)'
<1>1. PICK n \in Nat : users \in [1..n -> Mobiles]
  BY Typed
<1>2. /\ req[r].of \in Mobiles /\ users' \in [1..(n + 1) -> Mobiles] /\ users'[n + 1] = req[r].of
      /\ \A i \in 1..n : users'[i] = users[i]
      /\ req' = [req EXCEPT ![r] = [at |-> "address", of |-> n + 1, asked |-> 0]]
      /\ req[r].at = "insert" /\ UNCHANGED <<sent, code, overlooked>>
  <2>1. req[r].at = "insert" /\ UNCHANGED <<sent, code, overlooked>>
    BY DEF Insert, ignored
  <2>2. QED
    BY <1>1, <2>1, InsertTyped
<1>3. CASE req[r].of = m
  <2>1. Accounts(m)' = Accounts(m) \cup {n + 1} /\ n + 1 \notin Accounts(m)
    BY <1>1, <1>2, <1>3 DEF Accounts
  <2>2. Cardinality(Accounts(m)') = Cardinality(Accounts(m)) + 1
    BY <2>1, RowsFinite, FS_AddElement
  <2>3. /\ Inserting(m)' = Inserting(m) \ {r} /\ r \in Inserting(m)
        /\ Registering(m)' = Registering(m) \ {r} /\ r \in Registering(m)
    BY <1>2, <1>3 DEF TypeOK, Inserting, Registering
  <2>4. Cardinality(Inserting(m)') = Cardinality(Inserting(m)) - 1
    BY <2>3, Sets, Finite, FS_RemoveElement
  <2>5. Cardinality(Registering(m)') = Cardinality(Registering(m)) - 1
    BY <2>3, Sets, Finite, FS_RemoveElement
  <2>6. /\ Cardinality(Accounts(m)) \in Nat /\ Cardinality(Inserting(m)) \in Nat
        /\ Cardinality(Registering(m)) \in Nat /\ Unused(m) \in Nat /\ Unused(m)' = Unused(m)
    BY <1>2, RowsFinite, Sets, Finite DEF Unused
  <2>7. Cardinality(Slots) \in Nat /\ sent[m] \in Nat /\ sent'[m] = sent[m] /\ overlooked[m] \in Nat
        /\ overlooked'[m] = overlooked[m]
    BY <1>2, AccountsAssumption, FS_CardinalityType DEF TypeOK
  <2>8. QED
    BY <2>2, <2>4, <2>5, <2>6, <2>7 DEF Bounded
<1>4. CASE req[r].of # m
  <2>1. Accounts(m)' = Accounts(m)
    BY <1>1, <1>2, <1>4 DEF Accounts
  <2>2. Inserting(m)' = Inserting(m) /\ Registering(m)' = Registering(m)
    BY <1>2, <1>4 DEF TypeOK, Inserting, Registering
  <2>3. QED
    BY <1>2, <2>1, <2>2 DEF Bounded, Unused
<1>5. QED
  BY <1>3, <1>4

\* A request that finds no account of its mobile, or is refused for one.
LEMMA LookBounded ==
  ASSUME TypeOK, NEW m \in Mobiles, Bounded(m), NEW r \in Slots, Look(r)
  PROVE  Bounded(m)'
<1>1. users' = users /\ UNCHANGED <<sent, code, overlooked>> /\ req[r].at = "look"
  BY DEF Look, Goes, Ends, ignored
<1>2. CASE Ends(r, "look")
  <2>1. Inserting(m)' \subseteq Inserting(m) /\ Registering(m)' \subseteq Registering(m)
    BY <1>2 DEF Ends, Idle, TypeOK, Inserting, Registering
  <2>2. QED
    BY <1>1, <2>1, NotNearer
<1>5. CASE Goes(r, "look", "insert") /\ req[r].of # m
  <2>1. Inserting(m)' \subseteq Inserting(m) /\ Registering(m)' \subseteq Registering(m)
    BY <1>5 DEF Goes, TypeOK, Inserting, Registering
  <2>2. QED
    BY <1>1, <2>1, NotNearer
<1>3. CASE Goes(r, "look", "insert") /\ Accounts(req[r].of) = {} /\ req[r].of = m
  <2>1. Cardinality(Accounts(m)) = 0 /\ Accounts(m)' = Accounts(m)
    BY <1>1, <1>3, FS_EmptySet DEF Accounts
  <2>2. Registering(m)' = Registering(m)
    BY <1>3 DEF Goes, TypeOK, Registering
  <2>3. Cardinality(Inserting(m)') \in Nat /\ Cardinality(Inserting(m)') <= Cardinality(Slots)
    BY Sets, Finite
  <2>5. Cardinality(Slots) \in Nat /\ overlooked[m] \in Nat
    BY AccountsAssumption, FS_CardinalityType DEF TypeOK
  <2>4. QED
    BY <1>1, <2>1, <2>2, <2>3, <2>5 DEF Bounded, Unused
<1>4. QED
  BY <1>2, <1>3, <1>5 DEF Look

\* A look that failed brings one account more, and is counted.
LEMMA LookFailsBounded ==
  ASSUME TypeOK, NEW m \in Mobiles, Bounded(m), NEW r \in Slots, LookFails(r)
  PROVE  Bounded(m)'
<1>1. /\ users' = users /\ UNCHANGED <<sent, code>> /\ Goes(r, "look", "insert")
      /\ overlooked' = [overlooked EXCEPT ![req[r].of] = @ + 1]
  BY DEF LookFails
<1>2. CASE req[r].of # m
  <2>1. Inserting(m)' \subseteq Inserting(m) /\ Registering(m)' \subseteq Registering(m)
    BY <1>1, <1>2 DEF Goes, TypeOK, Inserting, Registering
  <2>2. overlooked'[m] = overlooked[m]
    BY <1>1, <1>2 DEF TypeOK
  <2>3. QED
    BY <1>1, <2>1, <2>2, NotNearer
<1>3. CASE req[r].of = m
  <2>1. Accounts(m)' = Accounts(m) /\ Registering(m)' = Registering(m) /\ Unused(m)' = Unused(m)
    BY <1>1 DEF Accounts, Goes, TypeOK, Registering, Unused
  <2>2. Inserting(m)' = Inserting(m) \cup {r} /\ r \notin Inserting(m)
    BY <1>1, <1>3 DEF Goes, TypeOK, Inserting
  <2>3. Cardinality(Inserting(m)') = Cardinality(Inserting(m)) + 1
    BY <2>2, Sets, Finite, FS_AddElement
  <2>4. overlooked'[m] = overlooked[m] + 1
    BY <1>1, <1>3 DEF TypeOK
  <2>5. /\ Cardinality(Accounts(m)) \in Nat /\ Cardinality(Inserting(m)) \in Nat
        /\ Cardinality(Slots) \in Nat /\ overlooked[m] \in Nat
    <3>1. Cardinality(Slots) \in Nat /\ overlooked[m] \in Nat
      BY AccountsAssumption, FS_CardinalityType DEF TypeOK
    <3>2. QED
      BY <3>1, RowsFinite, Sets, Finite
  <2>6. QED
    BY <1>1, <2>1, <2>3, <2>4, <2>5 DEF Bounded
<1>4. QED
  BY <1>2, <1>3

LEMMA SignUpBounded ==
  ASSUME TypeOK, NEW m \in Mobiles, Bounded(m),
         NEW r \in Slots, NEW k \in Mobiles, NEW c, SignUp(r, k, c)
  PROVE  Bounded(m)'
<1>1. /\ users' = users /\ sent' = sent /\ code' = [code EXCEPT ![k] = None]
      /\ overlooked' = overlooked
      /\ req[r] = Idle /\ code[k] # None
      /\ \/ req' = [req EXCEPT ![r] = [at |-> "look", of |-> k, asked |-> 0]]
         \/ req' = req
  BY DEF SignUp, Verify, Begins, ignored
<1>2. CASE m = k /\ req' = [req EXCEPT ![r] = [at |-> "look", of |-> k, asked |-> 0]]
  <2>1. Registering(m)' = Registering(m) \cup {r} /\ r \notin Registering(m)
    BY <1>1, <1>2 DEF TypeOK, Registering, Idle
  <2>2. Cardinality(Registering(m)') = Cardinality(Registering(m)) + 1
    BY <2>1, Sets, Finite, FS_AddElement
  <2>3. Inserting(m)' = Inserting(m) /\ Accounts(m)' = Accounts(m)
    BY <1>1, <1>2 DEF TypeOK, Inserting, Accounts, Idle
  <2>4. Unused(m) = 1 /\ Unused(m)' = 0
    BY <1>1, <1>2 DEF TypeOK, Unused
  <2>5. Cardinality(Registering(m)) \in Nat /\ Cardinality(Accounts(m)) \in Nat /\ sent[m] \in Nat
    <3>1. sent[m] \in Nat
      BY AccountsAssumption DEF TypeOK
    <3>2. QED
      BY <3>1, RowsFinite, Sets, Finite
  <2>6. QED
    BY <1>1, <2>2, <2>3, <2>4, <2>5 DEF Bounded
<1>3. CASE m # k \/ req' = req
  <2>1. Inserting(m)' \subseteq Inserting(m) /\ Registering(m)' \subseteq Registering(m)
    <3>1. CASE req' = req
      BY <3>1 DEF Inserting, Registering
    <3>2. CASE m # k /\ req' = [req EXCEPT ![r] = [at |-> "look", of |-> k, asked |-> 0]]
      BY <3>2 DEF TypeOK, Inserting, Registering
    <3>3. QED
      BY <1>1, <1>3, <3>1, <3>2
  <2>2. (code'[m] = code[m] \/ code'[m] = None) /\ sent'[m] = sent[m]
    BY <1>1 DEF TypeOK
  <2>3. QED
    BY <1>1, <2>1, <2>2, NotNearer
<1>4. QED
  BY <1>1, <1>2, <1>3

LEMMA SendCodeBounded ==
  ASSUME TypeOK, NEW m \in Mobiles, Bounded(m), NEW k \in Mobiles, SendCode(k)
  PROVE  Bounded(m)'
<1>1. /\ users' = users /\ req' = req /\ sent' = [sent EXCEPT ![k] = sent[k] + 1]
      /\ code' = [code EXCEPT ![k] = sent[k] + 1] /\ overlooked' = overlooked
  BY DEF SendCode, ignored
<1>2. /\ Inserting(m)' = Inserting(m) /\ Registering(m)' = Registering(m)
      /\ Accounts(m)' = Accounts(m)
  BY <1>1 DEF Inserting, Registering, Accounts
<1>3. /\ Cardinality(Registering(m)) \in Nat /\ Cardinality(Accounts(m)) \in Nat
      /\ sent[m] \in Nat /\ Unused(m) \in 0..1 /\ Unused(m)' \in 0..1
  <2>1. sent[m] \in Nat
    BY AccountsAssumption DEF TypeOK
  <2>2. Unused(m) \in 0..1 /\ Unused(m)' \in 0..1
    BY DEF Unused
  <2>3. QED
    BY <2>1, <2>2, RowsFinite, Sets, Finite
<1>4. CASE m = k
  <2>1. sent'[m] = sent[m] + 1 /\ overlooked'[m] = overlooked[m]
    BY <1>1, <1>4 DEF TypeOK
  <2>2. QED
    BY <1>2, <1>3, <2>1 DEF Bounded
<1>5. CASE m # k
  <2>1. sent'[m] = sent[m] /\ Unused(m)' = Unused(m) /\ overlooked'[m] = overlooked[m]
    BY <1>1, <1>5 DEF TypeOK, Unused
  <2>2. QED
    BY <1>2, <2>1 DEF Bounded
<1>6. QED
  BY <1>4, <1>5

\* The steps that sign nobody up.
LEMMA OthersBounded ==
  ASSUME TypeOK, NEW m \in Mobiles, Bounded(m),
         \/ Tick \/ Restart \/ UNCHANGED vars
         \/ \E r \in Slots :
              \/ Address(r) \/ Disable(r) \/ DisableFails(r) \/ Create(r) \/ Load(r) \/ Add(r) \/ Answer(r) \/ Fail(r)
              \/ \E k \in Mobiles : SignIn(r, k)
              \/ \E t \in DOMAIN tokens : Authenticate(r, t)
  PROVE  Bounded(m)'
<1>1. /\ users' = users /\ sent' = sent /\ overlooked' = overlooked
      /\ code' = code \/ code' = [k \in Mobiles |-> None]
  BY DEF Tick, Restart, vars, ignored, Address, Disable, DisableFails, Create, Load, Add, Answer,
         Fail, SignIn, Authenticate
<1>2. CASE Tick \/ Restart \/ UNCHANGED vars
  BY <1>1, <1>2, NotNearer DEF Tick, Restart, vars, Inserting, Registering, Idle
<1>3. ASSUME NEW r \in Slots, NEW q, req' = [req EXCEPT ![r] = q], q.at \notin {"look", "insert"}
      PROVE  Bounded(m)'
  <2>1. Inserting(m)' \subseteq Inserting(m) /\ Registering(m)' \subseteq Registering(m)
    BY <1>3 DEF TypeOK, Inserting, Registering
  <2>2. QED
    BY <1>1, <2>1, NotNearer
<1>4. ASSUME NEW r \in Slots,
             \/ Address(r) \/ Disable(r) \/ DisableFails(r) \/ Create(r) \/ Load(r) \/ Add(r) \/ Answer(r) \/ Fail(r)
             \/ \E k \in Mobiles : SignIn(r, k)
             \/ \E t \in DOMAIN tokens : Authenticate(r, t)
      PROVE  \E q : req' = [req EXCEPT ![r] = q] /\ q.at \notin {"look", "insert"}
  <2>1. ASSUME req' = [req EXCEPT ![r] = Idle]
        PROVE  \E q : req' = [req EXCEPT ![r] = q] /\ q.at \notin {"look", "insert"}
    <3>1. Idle.at \notin {"look", "insert"}
      BY DEF Idle
    <3> WITNESS Idle
    <3>2. QED
      BY <2>1, <3>1
  <2>2. ASSUME NEW to \in {"disable", "create", "add", "accepted"}, req' = [req EXCEPT ![r].at = to]
        PROVE  \E q : req' = [req EXCEPT ![r] = q] /\ q.at \notin {"look", "insert"}
    <3>1. req' = [req EXCEPT ![r] = [req[r] EXCEPT !.at = to]] /\ [req[r] EXCEPT !.at = to].at = to
      BY <2>2 DEF TypeOK
    <3>2. to \notin {"look", "insert"}
      OBVIOUS
    <3> WITNESS [req[r] EXCEPT !.at = to]
    <3>3. QED
      BY <3>1, <3>2
  <2>3. ASSUME NEW at \in {"disable", "accepted", "load"}, NEW x, NEW t,
               req' = [req EXCEPT ![r] = [at |-> at, of |-> x, asked |-> t]]
        PROVE  \E q : req' = [req EXCEPT ![r] = q] /\ q.at \notin {"look", "insert"}
    <3>1. [at |-> at, of |-> x, asked |-> t].at = at
      OBVIOUS
    <3>2. QED
      BY <2>3, <3>1
  <2>4. CASE \/ Address(r) \/ Disable(r) \/ DisableFails(r) \/ Create(r)
            \/ Load(r) \/ Add(r) \/ Answer(r) \/ Fail(r)
    <3>1. \/ req' = [req EXCEPT ![r] = Idle]
          \/ \E to \in {"disable", "create", "add", "accepted"} : req' = [req EXCEPT ![r].at = to]
      BY <2>4 DEF Address, Disable, DisableFails, Create, Load, Add, Answer, Fail, Goes, Ends
    <3>2. QED
      BY <3>1, <2>1, <2>2
  <2>5. CASE \E k \in Mobiles : SignIn(r, k)
    <3>1. PICK u \in DOMAIN users : req' = [req EXCEPT ![r] = [at |-> "disable", of |-> u, asked |-> 0]]
      BY <2>5 DEF SignIn, Begins, Accounts
    <3>2. QED
      BY <3>1, <2>3
  <2>6. CASE \E t \in DOMAIN tokens : Authenticate(r, t)
    BY <2>3, <2>6 DEF Authenticate, Begins
  <2>7. QED
    BY <1>4, <2>4, <2>5, <2>6
<1>5. QED
  BY <1>2, <1>3, <1>4
-----------------------------------------------------------------------------
LEMMA Spared == TypeOK => \A u \in DOMAIN users : u \in 1..Users /\ spared[u] \in Nat
<1> SUFFICES ASSUME TypeOK, NEW u \in DOMAIN users PROVE u \in 1..Users /\ spared[u] \in Nat
  OBVIOUS
<1>1. u \in 1..Users
  BY Typed, AccountsAssumption
<1>2. QED
  BY <1>1, AccountsAssumption DEF TypeOK

LEMMA FewerCreating ==
  ASSUME TypeOK, NEW u \in DOMAIN users, TokensBounded(u), tokens' = tokens,
         Creating(u)' \subseteq Creating(u), spared'[u] = spared[u]
  PROVE  TokensBounded(u)'
<1>1. Live(u)' = Live(u) /\ Cardinality(Live(u)) \in Nat /\ Cardinality(Slots) \in Nat
  BY RowsFinite, AccountsAssumption, FS_CardinalityType DEF Live
<1>2. Cardinality(Creating(u)) \in Nat /\ Cardinality(Creating(u)') \in Nat
      /\ Cardinality(Creating(u)') <= Cardinality(Creating(u))
  BY Sets, Finite, Fewer
<1>4. spared[u] \in Nat
  BY Spared
<1>3. QED
  BY <1>1, <1>2, <1>4 DEF TokensBounded

LEMMA DisableBounded ==
  ASSUME TypeOK, NEW u \in DOMAIN users, TokensBounded(u), NEW r \in Slots, Disable(r)
  PROVE  TokensBounded(u)'
<1>1. /\ DOMAIN tokens' = DOMAIN tokens
      /\ \A t \in DOMAIN tokens :
           tokens'[t] = IF t \in Live(req[r].of) THEN [tokens[t] EXCEPT !.disabled = now] ELSE tokens[t]
      /\ req' = [req EXCEPT ![r] = [req[r] EXCEPT !.at = "create"]]
  BY DisableTyped
<1>2. PICK k \in Nat : tokens \in [1..k -> Token] /\ DOMAIN tokens = 1..k
  BY Typed
<1>3. now # None
  BY AccountsAssumption DEF TypeOK, Times, None
<1>7. /\ spared' = [spared EXCEPT ![req[r].of] = 0] /\ u \in DOMAIN spared
      /\ Cardinality(Slots) \in Nat /\ spared[u] \in Nat
  BY Spared, AccountsAssumption, FS_CardinalityType DEF Disable, TypeOK
<1>4. CASE req[r].of = u
  <2>1. Live(u)' = {}
    BY <1>1, <1>2, <1>3, <1>4 DEF Live, Token
  <2>2. Cardinality(Creating(u)') \in Nat /\ Cardinality(Creating(u)') <= Cardinality(Slots)
    BY Sets, Finite
  <2>3. QED
    BY <1>4, <1>7, <2>1, <2>2, FS_EmptySet DEF TokensBounded
<1>5. CASE req[r].of # u
  <2>1. Live(u)' = Live(u)
    BY <1>1, <1>2, <1>5 DEF Live, Token
  <2>2. Creating(u)' = Creating(u)
    BY <1>1, <1>5 DEF TypeOK, Creating
  <2>3. QED
    BY <1>5, <1>7, <2>1, <2>2 DEF TokensBounded
<1>6. QED
  BY <1>4, <1>5

\* A request that failed to disable the tokens brings one more, and is counted.
LEMMA DisableFailsBounded ==
  ASSUME TypeOK, NEW u \in DOMAIN users, TokensBounded(u), NEW r \in Slots, DisableFails(r)
  PROVE  TokensBounded(u)'
<1>1. /\ tokens' = tokens /\ Goes(r, "disable", "create")
      /\ spared' = [spared EXCEPT ![req[r].of] = @ + 1]
  BY DEF DisableFails
<1>2. u \in DOMAIN spared /\ Cardinality(Slots) \in Nat /\ spared[u] \in Nat
  BY Spared, AccountsAssumption, FS_CardinalityType DEF TypeOK
<1>3. CASE req[r].of # u
  <2>1. Creating(u)' \subseteq Creating(u)
    BY <1>1, <1>3 DEF Goes, TypeOK, Creating
  <2>2. spared'[u] = spared[u]
    BY <1>1, <1>2, <1>3
  <2>3. QED
    BY <1>1, <2>1, <2>2, FewerCreating
<1>4. CASE req[r].of = u
  <2>1. Creating(u)' = Creating(u) \cup {r} /\ r \notin Creating(u)
    BY <1>1, <1>4 DEF Goes, TypeOK, Creating
  <2>2. Cardinality(Creating(u)') = Cardinality(Creating(u)) + 1
    BY <2>1, Sets, Finite, FS_AddElement
  <2>3. spared'[u] = spared[u] + 1 /\ Live(u)' = Live(u)
    BY <1>1, <1>2, <1>4 DEF Live
  <2>4. Cardinality(Live(u)) \in Nat /\ Cardinality(Creating(u)) \in Nat
    BY RowsFinite, Sets, Finite
  <2>5. QED
    BY <1>2, <2>2, <2>3, <2>4 DEF TokensBounded
<1>5. QED
  BY <1>3, <1>4

LEMMA CreateBounded ==
  ASSUME TypeOK, NEW u \in DOMAIN users, TokensBounded(u), NEW r \in Slots, Create(r)
  PROVE  TokensBounded(u)'
<1>1. PICK k \in Nat : tokens \in [1..k -> Token] /\ DOMAIN tokens = 1..k
  BY Typed
<1>2. /\ DOMAIN tokens' = 1..(k + 1)
      /\ tokens'[k + 1] = [user |-> req[r].of, created |-> now, disabled |-> None]
      /\ \A i \in 1..k : tokens'[i] = tokens[i]
      /\ req' = [req EXCEPT ![r] = Idle]
  BY <1>1, CreateTyped
<1>3. req[r].at = "create" /\ spared' = spared
  BY DEF Create, Ends, ignored
<1>4. CASE req[r].of = u
  <2>1. Live(u)' = Live(u) \cup {k + 1} /\ k + 1 \notin Live(u)
    BY <1>1, <1>2, <1>4 DEF Live
  <2>2. Cardinality(Live(u)') = Cardinality(Live(u)) + 1
    BY <2>1, RowsFinite, FS_AddElement
  <2>3. Creating(u)' = Creating(u) \ {r} /\ r \in Creating(u)
    BY <1>2, <1>3, <1>4 DEF TypeOK, Creating, Idle
  <2>4. Cardinality(Creating(u)') = Cardinality(Creating(u)) - 1
    BY <2>3, Sets, Finite, FS_RemoveElement
  <2>5. /\ Cardinality(Live(u)) \in Nat /\ Cardinality(Creating(u)) \in Nat
        /\ Cardinality(Slots) \in Nat /\ spared[u] \in Nat
    BY RowsFinite, Sets, Finite, Spared, AccountsAssumption, FS_CardinalityType
  <2>6. QED
    BY <1>3, <2>2, <2>4, <2>5 DEF TokensBounded
<1>5. CASE req[r].of # u
  <2>1. Live(u)' = Live(u)
    BY <1>1, <1>2, <1>5 DEF Live
  <2>2. Creating(u)' = Creating(u)
    BY <1>2, <1>5 DEF TypeOK, Creating, Idle
  <2>3. QED
    BY <1>3, <2>1, <2>2 DEF TokensBounded
<1>6. QED
  BY <1>4, <1>5

LEMMA NewUserBounded ==
  ASSUME TypeOK, NEW u, u \notin DOMAIN users, tokens' = tokens, spared'[u] \in Nat
  PROVE  TokensBounded(u)'
<1>1. PICK k \in Nat : tokens \in [1..k -> Token] /\ DOMAIN tokens = 1..k
  BY Typed
<1>2. Live(u)' = {}
  BY <1>1 DEF Live, Token
<1>3. Cardinality(Creating(u)') \in Nat /\ Cardinality(Creating(u)') <= Cardinality(Slots)
  BY Sets, Finite
<1>5. Cardinality(Slots) \in Nat
  BY AccountsAssumption, FS_CardinalityType
<1>4. QED
  BY <1>2, <1>3, <1>5, FS_EmptySet DEF TokensBounded
-----------------------------------------------------------------------------
\* A token may stop being good, but not before it was.
LEMMA GoodFrame ==
  ASSUME TypeOK, NEW t \in DOMAIN tokens,
         \/ tokens' = tokens
         \/ \E r \in Slots : Disable(r) \/ Create(r)
  PROVE  /\ GoodUntil(t) \in Int /\ GoodUntil(t)' \in Int
         /\ GoodUntil(t)' = GoodUntil(t) \/ GoodUntil(t)' = now
<1>1. PICK k \in Nat : tokens \in [1..k -> Token] /\ DOMAIN tokens = 1..k
  BY Typed
<1>2. /\ tokens[t].created \in Nat /\ tokens[t].disabled \in Int
      /\ Life \in Nat /\ now \in Nat /\ now # None
  <2>1. Life \in Nat /\ Times \subseteq Nat /\ now \in Times
    BY AccountsAssumption DEF TypeOK, Times
  <2>2. tokens[t] \in Token
    BY <1>1
  <2>3. tokens[t].created \in Times /\ tokens[t].disabled \in Times \cup {None}
    BY <2>2 DEF Token
  <2>4. tokens[t].created \in Nat /\ now \in Nat
    BY <2>1, <2>3
  <2>5. tokens[t].disabled \in Nat \cup {None}
    BY <2>1, <2>3
  <2>6. QED
    BY <2>1, <2>4, <2>5 DEF None
<1>3. CASE tokens'[t] = tokens[t]
  BY <1>2, <1>3 DEF GoodUntil
<1>4. ASSUME NEW r \in Slots, Disable(r)
      PROVE  \/ tokens'[t] = tokens[t]
             \/ tokens[t].disabled = None /\ tokens'[t] = [tokens[t] EXCEPT !.disabled = now]
  BY <1>4, DisableTyped DEF Live
<1>5. CASE tokens[t].disabled = None /\ tokens'[t] = [tokens[t] EXCEPT !.disabled = now]
  <2>1. tokens'[t].created = tokens[t].created /\ tokens'[t].disabled = now
    BY <1>1, <1>5 DEF Token
  <2>2. QED
    BY <1>2, <1>5, <2>1 DEF GoodUntil
<1>6. ASSUME NEW r \in Slots, Create(r) PROVE tokens'[t] = tokens[t]
  BY <1>1, <1>6, CreateTyped
<1>7. QED
  BY <1>3, <1>4, <1>5, <1>6

LEMMA NowIsNat == TypeOK => now \in Nat /\ Period \in Nat \ {0}
  BY AccountsAssumption DEF TypeOK, Times

LEMMA RequestFrame ==
  ASSUME TypeOK, NEW v \in Slots, SafeRequest(v), req'[v] = req[v],
         tokens' = tokens \/ \E r \in Slots : Disable(r) \/ Create(r)
  PROVE  SafeRequest(v)'
<1>1. req[v].asked \in Nat /\ req[v].asked <= now
  BY NowIsNat DEF TypeOK
<1>2. CASE req[v].at \in {"add", "accepted"}
  <2>1. PICK t \in DOMAIN tokens : t = req[v].of
    BY <1>2 DEF TypeOK, About
  <2>2. /\ GoodUntil(t) \in Int /\ GoodUntil(t)' \in Int
        /\ GoodUntil(t)' = GoodUntil(t) \/ GoodUntil(t)' = now
    BY GoodFrame
  <2>3. GoodUntil(req[v].of) = GoodUntil(t) /\ GoodUntil(req[v].of)' = GoodUntil(t)'
    BY <2>1
  <2>4. QED
    BY <1>1, <2>2, <2>3, NowIsNat DEF SafeRequest
<1>3. QED
  BY <1>2 DEF SafeRequest

LEMMA EntryFrame ==
  ASSUME TypeOK, NEW c \in cached, SafeEntry(c), now' = now \/ now' = now + 1,
         tokens' = tokens \/ \E r \in Slots : Disable(r) \/ Create(r)
  PROVE  SafeEntry(c)'
<1>1. c[1] \in DOMAIN tokens /\ c[2] \in Nat
  BY AccountsAssumption DEF TypeOK
<1>2. /\ GoodUntil(c[1]) \in Int /\ GoodUntil(c[1])' \in Int
      /\ GoodUntil(c[1])' = GoodUntil(c[1]) \/ GoodUntil(c[1])' = now
  BY <1>1, GoodFrame
<1>3. QED
  BY <1>1, <1>2, NowIsNat DEF SafeEntry

LEMMA LoadSafe == ASSUME TypeOK, NEW r \in Slots, Load(r) PROVE SafeRequest(r)'
<1>1. CASE Ends(r, "load")
  BY <1>1 DEF Ends, Idle, TypeOK, SafeRequest
<1>2. CASE Goes(r, "load", "add") /\ Good(req[r].of)
  <2>1. PICK t \in DOMAIN tokens : t = req[r].of
    BY <1>2 DEF Goes, TypeOK, About
  <2>2. now - tokens[t].created <= Life /\ tokens[t].disabled = None
    BY <1>2, <2>1 DEF Good
  <2>3. PICK k \in Nat : tokens \in [1..k -> Token] /\ DOMAIN tokens = 1..k
    BY Typed
  <2>4. tokens[t].created \in Nat /\ Life \in Nat
    <3>1. tokens[t] \in Token /\ Times \subseteq Nat /\ Life \in Nat
      BY <2>3, AccountsAssumption DEF Times
    <3>2. QED
      BY <3>1 DEF Token
  <2>5. now <= GoodUntil(t)
    BY <2>2, <2>4, NowIsNat DEF GoodUntil
  <2>6. req[r].asked \in Nat /\ req[r].asked <= now /\ GoodUntil(t) \in Int
    BY <2>2, <2>4, NowIsNat DEF TypeOK, GoodUntil
  <2>7. req'[r].at = "add" /\ req'[r].asked = req[r].asked /\ req'[r].of = t
    BY <1>2, <2>1 DEF Goes, TypeOK
  <2>8. GoodUntil(t)' = GoodUntil(t)
    BY DEF Load, GoodUntil
  <2>9. GoodUntil(req[r].of)' = GoodUntil(t)'
    BY <2>7
  <2>10. QED
    BY <2>5, <2>6, <2>7, <2>8, <2>9, NowIsNat DEF SafeRequest
<1>3. QED
  BY <1>1, <1>2 DEF Load

LEMMA AuthenticateSafe ==
  ASSUME TypeOK, NEW r \in Slots, NEW t \in DOMAIN tokens, Authenticate(r, t),
         \A c \in cached : SafeEntry(c), \A v \in Slots : SafeRequest(v)
  PROVE  SafeRequest(r)'
<1>1. PICK at \in {"accepted", "load"} :
        /\ req' = [req EXCEPT ![r] = [at |-> at, of |-> t, asked |-> now]]
        /\ at = "accepted" => Known(t)
        /\ tokens' = tokens
  BY DEF Authenticate, Begins
<1>2. req'[r] = [at |-> at, of |-> t, asked |-> now]
  BY <1>1 DEF TypeOK
<1>3. CASE at = "load"
  BY <1>2, <1>3 DEF SafeRequest
<1>4. CASE at = "accepted"
  <2>1. End(now) <= GoodUntil(t) + Period
    <3>1. CASE <<t, End(now)>> \in cached
      BY <3>1 DEF SafeEntry
    <3>2. ASSUME NEW s \in Slots, req[s].at = "add", req[s].of = t, End(req[s].asked) = End(now)
          PROVE  End(now) <= GoodUntil(t) + Period
      <4>1. req[s].asked \in Nat /\ req[s].asked <= GoodUntil(req[s].of)
        BY <3>2, NowIsNat DEF TypeOK, SafeRequest
      <4>2. GoodUntil(req[s].of) = GoodUntil(t) /\ GoodUntil(t) \in Int
        BY <1>1, <3>2, GoodFrame
      <4>3. End(req[s].asked) \in Nat /\ End(req[s].asked) <= req[s].asked + Period
        BY <4>1, Ending
      <4>4. QED
        BY <3>2, <4>1, <4>2, <4>3, NowIsNat
    <3>3. QED
      BY <1>1, <1>4, <3>1, <3>2 DEF Known
  <2>2. End(now) \in Nat /\ now < End(now) /\ GoodUntil(t) \in Int
    BY NowIsNat, Ending, GoodFrame, <1>1
  <2>3. GoodUntil(req[r].of)' = GoodUntil(t)
    BY <1>1, <1>2 DEF GoodUntil
  <2>4. now < GoodUntil(t) + Period
    BY <2>1, <2>2, NowIsNat
  <2>5. QED
    BY <1>2, <1>4, <2>3, <2>4 DEF SafeRequest
<1>5. QED
  BY <1>1, <1>3, <1>4

LEMMA AddSafe ==
  ASSUME TypeOK, NEW r \in Slots, Add(r), SafeRequest(r), \A c \in cached : SafeEntry(c)
  PROVE  SafeRequest(r)' /\ \A c \in cached' : SafeEntry(c)'
<1> DEFINE a == req[r].asked
<1>1. PICK t \in DOMAIN tokens : t = req[r].of
  BY AddTyped
<1>2. a \in Nat /\ a <= now /\ req[r].at = "add" /\ UNCHANGED <<now, tokens>>
  BY AddTyped DEF Add, Goes
<1>3. a <= GoodUntil(t) /\ GoodUntil(t) \in Int /\ GoodUntil(t)' = GoodUntil(t)
  BY <1>1, <1>2, GoodFrame DEF SafeRequest, GoodUntil
<1>4. SafeRequest(r)'
  <2>1. req'[r].at = "accepted" /\ req'[r].asked = a /\ req'[r].of = t
    BY <1>1 DEF Add, Goes, TypeOK
  <2>2. GoodUntil(req[r].of)' = GoodUntil(t)'
    BY <2>1
  <2>3. QED
    BY <1>2, <1>3, <2>1, <2>2, NowIsNat DEF SafeRequest
<1>5. ASSUME NEW c \in cached' PROVE SafeEntry(c)'
  <2>1. CASE c \in cached
    BY <1>2, <2>1, EntryFrame
  <2>2. CASE c = <<t, End(a)>>
    <3>1. c[1] = t /\ c[2] = End(a)
      BY <2>2
    <3>2. End(a) \in Nat /\ End(a) <= a + Period
      BY <1>2, Ending
    <3>3. GoodUntil(c[1])' = GoodUntil(t)
      BY <1>3, <3>1
    <3>4. QED
      BY <1>2, <1>3, <3>1, <3>2, <3>3, NowIsNat DEF SafeEntry
  <2>3. QED
    BY <1>1, <2>1, <2>2 DEF Add
<1>6. QED
  BY <1>4, <1>5
-----------------------------------------------------------------------------
LEMMA StepTyped == ASSUME TypeOK, [Next]_vars PROVE TypeOK'
<1>1. ASSUME NEW r \in Slots, Insert(r) PROVE TypeOK'
  <2>1. PICK n \in Nat : users \in [1..n -> Mobiles]
    BY Typed
  <2>2. QED
    BY <1>1, <2>1, InsertTyped
<1>2. ASSUME NEW r \in Slots, Create(r) PROVE TypeOK'
  <2>1. PICK k \in Nat : tokens \in [1..k -> Token]
    BY Typed
  <2>2. QED
    BY <1>2, <2>1, CreateTyped
<1>3. ASSUME NEW r \in Slots,
             \/ Look(r) \/ LookFails(r) \/ Address(r) \/ DisableFails(r) \/ Load(r) \/ Answer(r) \/ Fail(r)
             \/ \E m \in Mobiles : SignIn(r, m)
             \/ \E t \in DOMAIN tokens : Authenticate(r, t)
      PROVE  TypeOK'
  <2>1. UNCHANGED <<now, sent, code, users, tokens, cached>>
    BY <1>3 DEF Look, LookFails, Address, DisableFails, Load, Answer, Fail, SignIn, Authenticate
  <2>2. QED
    BY <1>3, <2>1, MovesTyped
<1>4. CASE UNCHANGED vars
  BY <1>4 DEF vars, ignored, TypeOK, Token, About
<1>5. QED
  BY <1>1, <1>2, <1>3, <1>4, SignUpTyped, DisableTyped, AddTyped, OthersTyped DEF Next

LEMMA StepBounded ==
  ASSUME TypeOK, [Next]_vars, NEW m \in Mobiles, Bounded(m)
  PROVE  Bounded(m)'
<1>1. ASSUME NEW r \in Slots,
             \/ Address(r) \/ Disable(r) \/ DisableFails(r) \/ Create(r) \/ Load(r) \/ Add(r) \/ Answer(r) \/ Fail(r)
             \/ \E k \in Mobiles : SignIn(r, k)
             \/ \E t \in DOMAIN tokens : Authenticate(r, t)
      PROVE  Bounded(m)'
  BY <1>1, OthersBounded
<1>2. CASE Tick \/ Restart \/ UNCHANGED vars
  BY <1>2, OthersBounded
<1>3. QED
  BY <1>1, <1>2, LookBounded, LookFailsBounded, SignUpBounded, SendCodeBounded, InsertBounded DEF Next

LEMMA SparedNext == TypeOK' => \A u \in DOMAIN users' : spared'[u] \in Nat
<1> SUFFICES ASSUME TypeOK', NEW u \in DOMAIN users' PROVE spared'[u] \in Nat
  OBVIOUS
<1>1. PICK n \in 0..Users : users' \in [1..n -> Mobiles]
  BY DEF TypeOK
<1>2. u \in 1..Users
  BY <1>1, AccountsAssumption
<1>3. QED
  BY <1>2, AccountsAssumption DEF TypeOK

LEMMA StepTokensBounded ==
  ASSUME TypeOK, TypeOK', [Next]_vars, \A u \in DOMAIN users : TokensBounded(u),
         NEW u \in DOMAIN users'
  PROVE  TokensBounded(u)'
<1>1. CASE u \notin DOMAIN users
  <2>1. tokens' = tokens
    <3>1. PICK r \in Slots : Insert(r)
      BY <1>1 DEF Next, vars, Tick, Restart, SendCode, SignIn, SignUp, Look, LookFails, Address,
                  Disable, DisableFails, Fail, Create, Authenticate, Load, Add, Answer
    <3>2. QED
      BY <3>1 DEF Insert
  <2>3. spared'[u] \in Nat
    <3>1. \A v \in DOMAIN users' : spared'[v] \in Nat
      BY SparedNext
    <3>2. QED
      BY <3>1
  <2>2. QED
    BY <1>1, <2>1, <2>3, NewUserBounded
<1>2. CASE u \in DOMAIN users
  <2>1. ASSUME NEW r \in Slots, UNCHANGED <<tokens, spared>>, NEW q, q.at # "create",
               req' = [req EXCEPT ![r] = q]
        PROVE  TokensBounded(u)'
    <3>1. Creating(u)' \subseteq Creating(u)
      BY <2>1 DEF TypeOK, Creating
    <3>2. QED
      BY <1>2, <2>1, <3>1, FewerCreating
  <2>2. ASSUME NEW r \in Slots, UNCHANGED <<tokens, spared>>, NEW to \in {"insert", "disable", "add", "accepted"},
               req' = [req EXCEPT ![r].at = to]
        PROVE  TokensBounded(u)'
    <3>1. Creating(u)' \subseteq Creating(u)
      BY <2>2 DEF TypeOK, Creating
    <3>2. QED
      BY <1>2, <2>2, <3>1, FewerCreating
  <2>3. ASSUME NEW r \in Slots, UNCHANGED <<tokens, spared>>, req' = [req EXCEPT ![r] = Idle]
        PROVE  TokensBounded(u)'
    <3>1. Creating(u)' \subseteq Creating(u)
      BY <2>3 DEF TypeOK, Creating, Idle
    <3>2. QED
      BY <1>2, <2>3, <3>1, FewerCreating
  <2>4. CASE UNCHANGED <<tokens, spared>> /\ req' = req
    BY <1>2, <2>4, FewerCreating DEF Creating
  <2>5. CASE Restart
    BY <1>2, <2>5, FewerCreating DEF Restart, ignored, Creating, Idle
  <2>6. ASSUME NEW r \in Slots, Look(r) \/ LookFails(r) \/ Address(r) \/ Load(r) \/ Add(r) \/ Answer(r) \/ Fail(r)
        PROVE  TokensBounded(u)'
    <3>1. /\ UNCHANGED <<tokens, spared>>
          /\ \/ req' = [req EXCEPT ![r] = Idle]
             \/ \E to \in {"insert", "disable", "add", "accepted"} : req' = [req EXCEPT ![r].at = to]
      BY <2>6 DEF Look, LookFails, Address, Load, Add, Answer, Fail, Goes, Ends, ignored
    <3>2. QED
      BY <2>2, <2>3, <3>1
  <2>7. ASSUME NEW r \in Slots, NEW t \in DOMAIN tokens, Authenticate(r, t)
        PROVE  TokensBounded(u)'
    <3>1. PICK at \in {"accepted", "load"} :
            req' = [req EXCEPT ![r] = [at |-> at, of |-> t, asked |-> now]] /\ UNCHANGED <<tokens, spared>>
      BY <2>7 DEF Authenticate, Begins, ignored
    <3>2. [at |-> at, of |-> t, asked |-> now].at # "create"
      OBVIOUS
    <3>3. QED
      BY <2>1, <3>1, <3>2
  <2>8. ASSUME NEW r \in Slots, NEW m \in Mobiles, SignIn(r, m)
        PROVE  TokensBounded(u)'
    <3>1. PICK v \in DOMAIN users :
            req' = [req EXCEPT ![r] = [at |-> "disable", of |-> v, asked |-> 0]] /\ UNCHANGED <<tokens, spared>>
      BY <2>8 DEF SignIn, Begins, Accounts, ignored
    <3>2. [at |-> "disable", of |-> v, asked |-> 0].at # "create"
      OBVIOUS
    <3>3. QED
      BY <2>1, <3>1, <3>2
  <2>9. ASSUME NEW r \in Slots, NEW m \in Mobiles, NEW c, SignUp(r, m, c)
        PROVE  TokensBounded(u)'
    <3>1. /\ UNCHANGED <<tokens, spared>>
          /\ req' = req \/ req' = [req EXCEPT ![r] = [at |-> "look", of |-> m, asked |-> 0]]
      BY <2>9 DEF SignUp, Begins, ignored
    <3>2. [at |-> "look", of |-> m, asked |-> 0].at # "create"
      OBVIOUS
    <3>3. QED
      BY <2>1, <2>4, <3>1, <3>2
  <2>10. ASSUME NEW r \in Slots, Insert(r) PROVE TokensBounded(u)'
    <3>1. /\ req' = [req EXCEPT ![r] = [at |-> "address", of |-> Following(users), asked |-> 0]]
          /\ UNCHANGED <<tokens, spared>>
      BY <2>10 DEF Insert, ignored
    <3>2. [at |-> "address", of |-> Following(users), asked |-> 0].at # "create"
      OBVIOUS
    <3>3. QED
      BY <2>1, <3>1, <3>2
  <2>11. CASE Tick \/ (\E m \in Mobiles : SendCode(m)) \/ UNCHANGED vars
    BY <2>4, <2>11 DEF Tick, SendCode, vars, ignored
  <2>12. QED
    BY <1>2, <2>5, <2>6, <2>7, <2>8, <2>9, <2>10, <2>11, DisableBounded, DisableFailsBounded,
       CreateBounded DEF Next
<1>3. QED
  BY <1>1, <1>2

\* What a step writes of the tokens, the cache and the clock.
LEMMA TokenSteps ==
  ASSUME [Next]_vars
  PROVE  /\ tokens' = tokens \/ \E r \in Slots : Disable(r) \/ Create(r)
         /\ now' = now \/ now' = now + 1
         /\ cached' \subseteq cached \/ \E r \in Slots : Add(r)
  BY DEF Next, vars, Tick, Restart, SendCode, SignIn, SignUp, Look, LookFails, Insert, Address,
         Disable, DisableFails, Fail, Create, Authenticate, Load, Add, Answer

LEMMA StepSafe ==
  ASSUME TypeOK, [Next]_vars, \A v \in Slots : SafeRequest(v), \A c \in cached : SafeEntry(c)
  PROVE  (\A v \in Slots : SafeRequest(v)') /\ (\A c \in cached' : SafeEntry(c)')
<1>1. ASSUME NEW c \in cached' PROVE SafeEntry(c)'
  BY TokenSteps, AddSafe, EntryFrame
<1>2. ASSUME NEW v \in Slots PROVE SafeRequest(v)'
  <2>1. CASE req'[v] = req[v]
    BY <2>1, TokenSteps, RequestFrame
  <2>2. CASE req'[v].at \notin {"add", "accepted"}
    BY <2>2 DEF SafeRequest
  <2>3. CASE Load(v) \/ Add(v) \/ \E t \in DOMAIN tokens : Authenticate(v, t)
    BY <2>3, LoadSafe, AddSafe, AuthenticateSafe
  <2>4. CASE Restart
    BY <2>2, <2>4 DEF Restart, Idle
  <2>5. CASE req' = req
    BY <2>1, <2>5
  <2>6. ASSUME NEW r \in Slots, NEW q, req' = [req EXCEPT ![r] = q], q.at \notin {"add", "accepted"}
        PROVE  SafeRequest(v)'
    BY <2>1, <2>2, <2>6 DEF TypeOK
  <2>7. ASSUME NEW r \in Slots, r # v, Load(r) \/ Add(r) \/ \E t \in DOMAIN tokens : Authenticate(r, t)
        PROVE  SafeRequest(v)'
    BY <2>1, <2>7 DEF Load, Add, Authenticate, Begins, Goes, Ends, TypeOK
  <2>8. ASSUME NEW r \in Slots, NEW to \in {"insert", "disable", "create"},
               req' = [req EXCEPT ![r].at = to]
        PROVE  SafeRequest(v)'
    BY <2>1, <2>2, <2>8 DEF TypeOK
  <2>9. ASSUME NEW r \in Slots, req' = [req EXCEPT ![r] = Idle] PROVE SafeRequest(v)'
    BY <2>1, <2>2, <2>9 DEF TypeOK, Idle
  <2>10. ASSUME NEW r \in Slots, NEW at \in {"look", "disable", "address"}, NEW x,
                req' = [req EXCEPT ![r] = [at |-> at, of |-> x, asked |-> 0]]
         PROVE  SafeRequest(v)'
    BY <2>1, <2>2, <2>10 DEF TypeOK
  <2>11. ASSUME NEW r \in Slots,
                \/ Look(r) \/ LookFails(r) \/ Address(r) \/ Disable(r) \/ DisableFails(r)
                \/ Create(r) \/ Answer(r) \/ Fail(r)
         PROVE  SafeRequest(v)'
    <3>1. \/ req' = [req EXCEPT ![r] = Idle]
          \/ \E to \in {"insert", "disable", "create"} : req' = [req EXCEPT ![r].at = to]
      BY <2>11 DEF Look, LookFails, Address, Disable, DisableFails, Create, Answer, Fail, Goes, Ends
    <3>2. QED
      BY <2>8, <2>9, <3>1
  <2>12. ASSUME NEW r \in Slots, NEW m \in Mobiles, SignIn(r, m) PROVE SafeRequest(v)'
    <3>1. PICK u \in DOMAIN users : req' = [req EXCEPT ![r] = [at |-> "disable", of |-> u, asked |-> 0]]
      BY <2>12 DEF SignIn, Begins, Accounts
    <3>2. QED
      BY <2>10, <3>1
  <2>13. ASSUME NEW r \in Slots, NEW m \in Mobiles, NEW c, SignUp(r, m, c) PROVE SafeRequest(v)'
    BY <2>5, <2>10, <2>13 DEF SignUp, Begins
  <2>14. ASSUME NEW r \in Slots, Insert(r) PROVE SafeRequest(v)'
    BY <2>10, <2>14 DEF Insert
  <2>15. CASE Tick \/ (\E m \in Mobiles : SendCode(m)) \/ UNCHANGED vars
    BY <2>5, <2>15 DEF Tick, SendCode, vars
  <2>16. QED
    BY <2>3, <2>4, <2>7, <2>11, <2>12, <2>13, <2>14, <2>15 DEF Next
<1>3. QED
  BY <1>1, <1>2

LEMMA InitAInv == Init => AInv
<1> SUFFICES ASSUME Init PROVE AInv
  OBVIOUS
<1>1. DOMAIN users = {} /\ DOMAIN tokens = {} /\ cached = {} /\ \A r \in Slots : req[r] = Idle
  BY DEF Init
<1>2. TypeOK
  <2>1. users \in [1..0 -> Mobiles] /\ tokens \in [1..0 -> Token] /\ 0 \in 0..Users /\ 0 \in 0..Tokens
    BY AccountsAssumption DEF Init
  <2>2. /\ now \in Times /\ sent \in [Mobiles -> 0..Codes]
        /\ code \in [Mobiles -> (1..Codes) \cup {None}]
    BY AccountsAssumption DEF Init, Times
  <2>3. req \in [Slots -> [at : Places, of : Mobiles \cup Int, asked : 0..now]]
    BY DEF Init, Idle, None, Places
  <2>4. \A r \in Slots : About(r)
    BY <1>1 DEF About, Idle
  <2>6. overlooked \in [Mobiles -> 0..Faults] /\ spared \in [1..Users -> 0..Faults]
    BY AccountsAssumption DEF Init
  <2>5. QED
    BY <1>1, <2>1, <2>2, <2>3, <2>4, <2>6 DEF TypeOK
<1>3. ASSUME NEW m \in Mobiles PROVE Bounded(m)
  <2>1. Accounts(m) = {} /\ Inserting(m) = {} /\ Registering(m) = {} /\ Unused(m) = 0 /\ sent[m] = 0
    BY <1>1 DEF Init, Accounts, Inserting, Registering, Unused, Idle
  <2>2. Cardinality({}) = 0 /\ Cardinality(Slots) \in Nat /\ overlooked[m] = 0
    BY FS_EmptySet, AccountsAssumption, FS_CardinalityType DEF Init
  <2>3. QED
    BY <2>1, <2>2 DEF Bounded
<1>4. \A v \in Slots : SafeRequest(v)
  BY <1>1 DEF SafeRequest, Idle
<1>5. QED
  BY <1>1, <1>2, <1>3, <1>4 DEF AInv

LEMMA StepAInv == AInv /\ [Next]_vars => AInv'
<1> SUFFICES ASSUME AInv, [Next]_vars PROVE AInv'
  OBVIOUS
<1>1. TypeOK'
  BY StepTyped DEF AInv
<1>2. \A m \in Mobiles : Bounded(m)'
  BY StepBounded DEF AInv
<1>3. \A u \in DOMAIN users' : TokensBounded(u)'
  BY <1>1, StepTokensBounded DEF AInv
<1>4. (\A v \in Slots : SafeRequest(v)') /\ (\A c \in cached' : SafeEntry(c)')
  BY StepSafe DEF AInv
<1>5. QED
  BY <1>1, <1>2, <1>3, <1>4 DEF AInv
-----------------------------------------------------------------------------
\* Codes, accounts, tokens, cache and requests keep their types, and what a
\* request is about is there.
THEOREM AccountsTypeOK == Spec => []TypeOK
<1>1. AInv => TypeOK
  BY DEF AInv
<1>2. QED
  BY InitAInv, StepAInv, <1>1, PTL DEF Spec

\* However many requests are served at a time, a mobile has no more accounts
\* than that, and one more for each look that failed.
THEOREM AccountsAreByOverlap == Spec => []AccountsByOverlap
<1>1. AInv => AccountsByOverlap
  BY DEF AInv, Bounded, AccountsByOverlap
<1>2. QED
  BY InitAInv, StepAInv, <1>1, PTL DEF Spec

\* A mobile has no more accounts than codes were sent to it, restarts or not.
THEOREM AccountsAreByCodes == Spec => []AccountsByCodes
<1>1. AInv => AccountsByCodes
  <2> SUFFICES ASSUME AInv, NEW m \in Mobiles
               PROVE  Cardinality(Accounts(m)) + Cardinality(Registering(m)) <= sent[m]
    BY DEF AccountsByCodes
  <2>1. /\ Cardinality(Accounts(m)) \in Nat /\ Cardinality(Registering(m)) \in Nat
        /\ Unused(m) \in Nat
    BY RowsFinite, Sets, Finite DEF AInv, Unused
  <2>2. sent[m] \in Nat
    BY AccountsAssumption DEF AInv, TypeOK
  <2>3. QED
    BY <2>1, <2>2 DEF AInv, Bounded
<1>2. QED
  BY InitAInv, StepAInv, <1>1, PTL DEF Spec

\* A user has no more live tokens than requests are served at a time, and one
\* more for each failure to disable them since they were last disabled.
THEOREM LiveTokensAreByOverlap == Spec => []LiveTokensByOverlap
<1>1. AInv => LiveTokensByOverlap
  BY DEF AInv, TokensBounded, LiveTokensByOverlap
<1>2. QED
  BY InitAInv, StepAInv, <1>1, PTL DEF Spec

\* A token that is disabled or too old is accepted for less than one more period
\* of the cache, whatever the order in which it is loaded, kept and disabled.
THEOREM AcceptedTokenWasGood == Spec => []AcceptedWasGood
<1>1. AInv => AcceptedWasGood
  BY DEF AInv, SafeRequest, AcceptedWasGood
<1>2. QED
  BY InitAInv, StepAInv, <1>1, PTL DEF Spec
=============================================================================
