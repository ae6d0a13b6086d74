------------------------------ MODULE Accounts ------------------------------
(***************************************************************************)
(* Accounts and tokens: codes sent to a mobile number and verified once    *)
(* (utils/captcha.go), SignUp and SignIn (rserver/user_auth_server.go),    *)
(* User.GenToken, which disables the tokens of a user before it creates    *)
(* one, and getAuthedUserId (main.go), which accepts a token from the      *)
(* database or from a cache whose keys end in a time.  Requests overlap;   *)
(* none of this is done in a transaction, and any statement may fail:      *)
(* SignUp takes a failed look for a mobile without an account, GenToken    *)
(* goes on when the tokens could not be disabled.                          *)
(*                                                                         *)
(* Of a user's row only the number and the mobile are kept: SignIn finds   *)
(* the password right or wrong.                                            *)
(***************************************************************************)
EXTENDS Integers, FiniteSets

CONSTANTS Slots,    \* requests being served at a time
          Mobiles,
          Users, Tokens, \* bounds: row numbers of ba_user and ba_token_v2, from 1
          Codes,    \* bound: codes sent to a mobile
          Faults,   \* bound: ignored failures, of a mobile and of a user
          Period,   \* how long the key of a cached token stays the same, padding included
          Life,     \* how long a token is good for: 48 hours
          MaxNow    \* bound of the clock

ASSUME AccountsAssumption ==
  /\ IsFiniteSet(Slots)
  /\ {Users, Tokens, Codes, Faults, Life, MaxNow} \subseteq Nat /\ Period \in Nat \ {0}

VARIABLES
  now,
  sent, code,  \* of a mobile: codes sent to it, and the one that is in the store, or None
  users,       \* ba_user: the mobile of each user
  tokens,      \* ba_token_v2: user, when created, when disabled or None
  cached,      \* lcache: tokens, each with the end of the period it was asked for in
  req,         \* requests: where it is, the mobile, user or token it is about, and
               \* when a token was shown
  overlooked,  \* of a mobile: sign-ups that went on although it has an account,
               \* because the look for it failed
  spared       \* of a user: requests since its live tokens were last disabled that
               \* failed to disable them

ignored == <<overlooked, spared>>
vars == <<now, sent, code, users, tokens, cached, req, ignored>>

None == -1
Accounts(m) == {u \in DOMAIN users : users[u] = m}
Live(u) == {t \in DOMAIN tokens : tokens[t].user = u /\ tokens[t].disabled = None}
Following(rows) == Cardinality(DOMAIN rows) + 1
Added(rows, row) ==
  [i \in DOMAIN rows \cup {Following(rows)} |-> IF i = Following(rows) THEN row ELSE rows[i]]

Idle == [at |-> "idle", of |-> None, asked |-> 0]

Init ==
  /\ now = 0
  /\ sent = [m \in Mobiles |-> 0] /\ code = [m \in Mobiles |-> None]
  /\ users = [u \in {} |-> 0] /\ tokens = [t \in {} |-> 0] /\ cached = {}
  /\ req = [r \in Slots |-> Idle]
  /\ overlooked = [m \in Mobiles |-> 0] /\ spared = [u \in 1..Users |-> 0]
-----------------------------------------------------------------------------
Begins(r, label, x, t) == req[r] = Idle /\ req' = [req EXCEPT ![r] = [at |-> label, of |-> x, asked |-> t]]
Goes(r, from, to) == req[r].at = from /\ req' = [req EXCEPT ![r].at = to]
Ends(r, from) == req[r].at = from /\ req' = [req EXCEPT ![r] = Idle]

Tick == now < MaxNow /\ now' = now + 1 /\ UNCHANGED <<sent, code, users, tokens, cached, req, ignored>>

\* GenCaptcha: a new code takes the place of the one in the store.
SendCode(m) ==
  /\ sent[m] < Codes
  /\ sent' = [sent EXCEPT ![m] = @ + 1] /\ code' = [code EXCEPT ![m] = sent[m] + 1]
  /\ UNCHANGED <<now, users, tokens, cached, req, ignored>>

\* Faulty variant: a verified code stays in the store.
VerifyKeeps(m) == code[m] # None /\ UNCHANGED code
\* VerifyCaptcha takes the code out of the store, whatever was typed.
Verify(m) == code[m] # None /\ code' = [code EXCEPT ![m] = None]

SignUp(r, m, vcode) ==
  /\ Verify(m)
  /\ \/ vcode = code[m] /\ Begins(r, "look", m, 0)
     \/ vcode # code[m] /\ req[r] = Idle /\ UNCHANGED req
  /\ UNCHANGED <<now, sent, users, tokens, cached, ignored>>

\* Faulty variant: the mobile is not looked for.
LookNowhere(r) == Goes(r, "look", "insert") /\ UNCHANGED <<now, sent, code, users, tokens, cached, ignored>>
\* The mobile has no account yet, or the request is refused.
Look(r) ==
  /\ \/ Goes(r, "look", "insert") /\ Accounts(req[r].of) = {}
     \/ Ends(r, "look") /\ Accounts(req[r].of) # {}
  /\ UNCHANGED <<now, sent, code, users, tokens, cached, ignored>>

\* SignUp refuses only when First returned no error: a query that failed passes
\* for a mobile without an account.
LookFails(r) ==
  LET m == req[r].of IN
  /\ Goes(r, "look", "insert") /\ Accounts(m) # {} /\ overlooked[m] < Faults
  /\ overlooked' = [overlooked EXCEPT ![m] = @ + 1]
  /\ UNCHANGED <<now, sent, code, users, tokens, cached, spared>>

Insert(r) ==
  /\ req[r].at = "insert" /\ Following(users) <= Users
  /\ users' = Added(users, req[r].of)
  /\ req' = [req EXCEPT ![r] = [at |-> "address", of |-> Following(users), asked |-> 0]]
  /\ UNCHANGED <<now, sent, code, tokens, cached, ignored>>

\* CreateAddress and the rows that follow; without an answer the request
\* panics, and the account stays without them.
Address(r) ==
  /\ Goes(r, "address", "disable") \/ Ends(r, "address")
  /\ UNCHANGED <<now, sent, code, users, tokens, cached, ignored>>

\* First: of the accounts of the mobile the one with the lowest number.
SignIn(r, m) ==
  /\ \E u \in Accounts(m) : (\A v \in Accounts(m) : u <= v) /\ Begins(r, "disable", u, 0)
  /\ UNCHANGED <<now, sent, code, users, tokens, cached, ignored>>
-----------------------------------------------------------------------------
\* Faulty variant: only the last token is disabled.
DisableLast(r) ==
  /\ Goes(r, "disable", "create")
  /\ tokens' = [t \in DOMAIN tokens |->
                  IF t \in Live(req[r].of) /\ t + 1 = Following(tokens)
                  THEN [tokens[t] EXCEPT !.disabled = now] ELSE tokens[t]]
  /\ spared' = [spared EXCEPT ![req[r].of] = 0]
  /\ UNCHANGED <<now, sent, code, users, cached, overlooked>>
\* GenToken, first statement: update ba_token_v2 set disabled = 1.
Disable(r) ==
  /\ Goes(r, "disable", "create")
  /\ tokens' = [t \in DOMAIN tokens |->
                  IF t \in Live(req[r].of) THEN [tokens[t] EXCEPT !.disabled = now] ELSE tokens[t]]
  /\ spared' = [spared EXCEPT ![req[r].of] = 0]
  /\ UNCHANGED <<now, sent, code, users, cached, overlooked>>

\* The error of the update is ignored: the live tokens stay, one more is created.
DisableFails(r) ==
  LET u == req[r].of IN
  /\ Goes(r, "disable", "create") /\ Live(u) # {} /\ spared[u] < Faults
  /\ spared' = [spared EXCEPT ![u] = @ + 1]
  /\ UNCHANGED <<now, sent, code, users, tokens, cached, overlooked>>

\* GenToken, second statement.
Create(r) ==
  /\ Ends(r, "create") /\ Following(tokens) <= Tokens
  /\ tokens' = Added(tokens, [user |-> req[r].of, created |-> now, disabled |-> None])
  /\ UNCHANGED <<now, sent, code, users, cached, ignored>>
-----------------------------------------------------------------------------
\* Faulty variant: one key for all times.
EndUndated(t) == Period
\* CacheFromLru: the end of the period that t is in.
End(t) == t + (Period - (t % Period))

\* The token's user is in the cache, or another request has loaded it under the
\* same key.
Known(t) ==
  \/ <<t, End(now)>> \in cached
  \/ \E s \in Slots : req[s].at = "add" /\ req[s].of = t /\ End(req[s].asked) = End(now)

\* getAuthedUserId, as far as the cache: group.Do takes another request's result,
\* or comes when that is gone and not yet in the cache.
Authenticate(r, t) ==
  /\ \/ Known(t) /\ Begins(r, "accepted", t, now)
     \/ <<t, End(now)>> \notin cached /\ Begins(r, "load", t, now)
  /\ UNCHANGED <<now, sent, code, users, tokens, cached, ignored>>

\* get: the token is neither disabled nor older than it may be, or refused.
Good(t) == tokens[t].disabled = None /\ now - tokens[t].created <= Life
Load(r) ==
  /\ \/ Goes(r, "load", "add") /\ Good(req[r].of)
     \/ Ends(r, "load") /\ ~Good(req[r].of)
  /\ UNCHANGED <<now, sent, code, users, tokens, cached, ignored>>

Add(r) ==
  /\ Goes(r, "add", "accepted")
  /\ cached' = cached \cup {<<req[r].of, End(req[r].asked)>>}
  /\ UNCHANGED <<now, sent, code, users, tokens, ignored>>

\* The handler runs for the user, and answers.
Answer(r) == Ends(r, "accepted") /\ UNCHANGED <<now, sent, code, users, tokens, cached, ignored>>

\* A statement whose error is looked at fails, and the request ends with it: the
\* user or the token could not be inserted, the shown token not be loaded.
Fail(r) ==
  /\ \E from \in {"insert", "create", "load"} : Ends(r, from)
  /\ UNCHANGED <<now, sent, code, users, tokens, cached, ignored>>

\* The server is restarted: requests, codes and cache are lost.
Restart ==
  /\ req' = [r \in Slots |-> Idle] /\ code' = [m \in Mobiles |-> None] /\ cached' = {}
  /\ UNCHANGED <<now, sent, users, tokens, ignored>>

Next ==
  \/ Tick \/ Restart
  \/ \E m \in Mobiles : SendCode(m)
  \/ \E r \in Slots :
       \/ \E m \in Mobiles : SignIn(r, m) \/ \E vcode \in 0..Codes : SignUp(r, m, vcode)
       \/ Look(r) \/ LookFails(r) \/ Insert(r) \/ Address(r)
       \/ Disable(r) \/ DisableFails(r) \/ Create(r) \/ Fail(r)
       \/ \E t \in DOMAIN tokens : Authenticate(r, t)
       \/ Load(r) \/ Add(r) \/ Answer(r)

Spec == Init /\ [][Next]_vars
-----------------------------------------------------------------------------
Times == 0..MaxNow
Token == [user : DOMAIN users, created : Times, disabled : Times \cup {None}]
Places == {"idle", "look", "insert", "address", "disable", "create", "load", "add", "accepted"}
\* What a request is about.
About(r) ==
  /\ req[r].at \in {"look", "insert"} => req[r].of \in Mobiles
  /\ req[r].at \in {"address", "disable", "create"} => req[r].of \in DOMAIN users
  /\ req[r].at \in {"load", "add", "accepted"} => req[r].of \in DOMAIN tokens

TypeOK ==
  /\ now \in Times
  /\ sent \in [Mobiles -> 0..Codes] /\ code \in [Mobiles -> (1..Codes) \cup {None}]
  /\ \E n \in 0..Users : users \in [1..n -> Mobiles]
  /\ \E n \in 0..Tokens : tokens \in [1..n -> Token]
  /\ cached \subseteq (DOMAIN tokens) \X (1..(MaxNow + Period))
  /\ req \in [Slots -> [at : Places, of : Mobiles \cup Int, asked : 0..now]]
  /\ \A r \in Slots : About(r)
  /\ overlooked \in [Mobiles -> 0..Faults] /\ spared \in [1..Users -> 0..Faults]

Inserting(m)   == {r \in Slots : req[r].at = "insert" /\ req[r].of = m}
Registering(m) == {r \in Slots : req[r].at \in {"look", "insert"} /\ req[r].of = m}
Creating(u)    == {r \in Slots : req[r].at = "create" /\ req[r].of = u}

\* A mobile has one account, but for sign-ups that overlapped and looks that
\* failed: with those about to be inserted, not more than requests are served at
\* a time, and one more for each look that failed although there was an account.
AccountsByOverlap ==
  \A m \in Mobiles :
    Cardinality(Accounts(m)) + Cardinality(Inserting(m)) <= Cardinality(Slots) + overlooked[m]

\* A code is good for one sign-up, however often and when it is typed: a mobile
\* has not more accounts, nor sign-ups under way, than codes were sent to it.
AccountsByCodes ==
  \A m \in Mobiles : Cardinality(Accounts(m)) + Cardinality(Registering(m)) <= sent[m]

\* A user has one token that is not disabled, but for sign-ins that were between
\* the statements of GenToken together, and one more for each that could not
\* disable the tokens since one last did: a failure is made good by the next
\* sign-in.
LiveTokensByOverlap ==
  \A u \in DOMAIN users :
    Cardinality(Live(u)) + Cardinality(Creating(u)) <= Cardinality(Slots) + spared[u]

\* Until when a token is good, as far as is known.
GoodUntil(t) ==
  LET last == tokens[t].created + Life IN
  IF tokens[t].disabled = None \/ last < tokens[t].disabled THEN last ELSE tokens[t].disabled

\* A token that is accepted was good less than one period of the cache before it
\* was shown, whatever has disabled it since, however long it took to load it.
AcceptedWasGood ==
  \A r \in Slots : req[r].at = "accepted" => req[r].asked < GoodUntil(req[r].of) + Period
=============================================================================
