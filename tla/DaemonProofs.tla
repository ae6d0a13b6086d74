---------------------------- MODULE DaemonProofs ----------------------------
(***************************************************************************)
(* The daemon of Daemon.tla, for any jobs, runs and requesters: it never   *)
(* closes its quit channel twice, and it ends under a job that works only  *)
(* if the job was listed after the last look began or if another run of    *)
(* the same job has taken the entry they share out of workingMap.          *)
(***************************************************************************)
EXTENDS Daemon, TLAPS

\* Another run of r's job has ended, and deleted the entry of both.
Shared(r) == \E s \in JobRuns : s # r /\ s[1] = r[1] /\ run[s] = "ended"
\* A run of job j was listed since the last look began.
Fresh(j) == \E s \in recent : s[1] = j

Listed == \A r \in JobRuns : Working(r) => r[1] \in workingMap \/ Shared(r)
\* What a look that has found nothing so far knows of the jobs it has visited.
Visited ==
  /\ main \in {"look", "exited"} /\ ~size =>
       \A j \in Jobs \ toVisit : j \in workingMap => Fresh(j)
  /\ main = "exited" => toVisit = {} /\ ~size
Flagged == (quit <=> isShutdown) /\ dead # "close"

DInv == TypeOK /\ Listed /\ Visited /\ Flagged

LEMMA InitDInv == Init => DInv
<1> SUFFICES ASSUME Init PROVE DInv
  OBVIOUS
<1>1. TypeOK
  <2>1. /\ asker \in [Requesters -> {"idle", "asking", "returned"}]
        /\ run \in [JobRuns -> {"due", "fired", "working", "ended"}]
    BY DEF Init
  <2>2. interrupt \in 0..1
    BY SMT DEF Init
  <2>3. isShutdown \in BOOLEAN /\ quit \in BOOLEAN /\ shutdown \in BOOLEAN /\ size \in BOOLEAN
    BY Zenon DEF Init
  <2>4. /\ workingMap \subseteq Jobs /\ recent \subseteq JobRuns /\ toVisit \subseteq Jobs
        /\ main \in {"serve", "look", "sleep", "exited"} /\ dead \in {"no", "job", "close", "signal"}
    BY SMT DEF Init
  <2>5. QED
    BY <2>1, <2>2, <2>3, <2>4, Zenon DEF TypeOK
<1>2. Flagged
  BY DEF Init, Flagged
<1>3. Listed /\ Visited
  BY DEF Init, Listed, Visited, Working
<1>4. QED
  BY <1>1, <1>2, <1>3 DEF DInv

\* What a step that leaves the jobs and DeamonAll alone keeps.
LEMMA Undisturbed ==
  DInv /\ UNCHANGED <<cron, daemon>> => Listed' /\ Visited'
  BY DEF DInv, cron, daemon, Listed, Visited, Working, Shared, Fresh

LEMMA ShutdownFlagged ==
  ASSUME DInv, Shutdown
  PROVE  /\ Flagged' /\ isShutdown' \in BOOLEAN /\ quit' \in BOOLEAN
         /\ dead' \in {"no", "job", "close", "signal"}
  BY DEF Shutdown, DInv, TypeOK, Flagged

LEMMA StepDInv == DInv /\ [Next]_vars => DInv'
<1> SUFFICES ASSUME DInv, [Next]_vars PROVE DInv'
  OBVIOUS
<1> USE DEF DInv, TypeOK
<1>1. CASE Signal \/ Killed \/ HandleQuit
  <2>1. UNCHANGED <<cron, daemon>>
    BY <1>1 DEF Signal, Killed, HandleQuit
  <2>2. Flagged'
    BY <1>1 DEF Signal, Killed, HandleQuit, interceptor, Flagged
  <2>3. CASE Signal
    BY <2>1, <2>2, <2>3, Undisturbed DEF Signal, cron, daemon
  <2>4. CASE Killed
    BY <2>1, <2>2, <2>4, Undisturbed DEF Killed, interceptor, cron, daemon
  <2>5. CASE HandleQuit
    BY <2>1, <2>2, <2>5, Undisturbed DEF HandleQuit, cron, daemon
  <2>6. QED
    BY <1>1, <2>3, <2>4, <2>5
<1>2. CASE HandleSignal
  <2>1. UNCHANGED <<cron, daemon>> /\ Shutdown
    BY <1>2 DEF HandleSignal
  <2>2. TypeOK'
    BY <1>2, <2>1, ShutdownFlagged DEF HandleSignal, cron, daemon
  <2>3. QED
    BY <2>1, <2>2, Undisturbed, ShutdownFlagged
<1>3. ASSUME NEW a \in Requesters, HandleRequest(a) PROVE DInv'
  <2>1. UNCHANGED <<cron, daemon>> /\ Shutdown
    BY <1>3 DEF HandleRequest
  <2>2. TypeOK'
    BY <1>3, <2>1, ShutdownFlagged DEF HandleRequest, cron, daemon
  <2>3. QED
    BY <2>1, <2>2, Undisturbed, ShutdownFlagged
<1>4. ASSUME NEW a \in Requesters, RequestShutdown(a) \/ RequestSeesQuit(a) PROVE DInv'
  <2>1. UNCHANGED <<cron, daemon>> /\ TypeOK' /\ Flagged'
    BY <1>4 DEF RequestShutdown, RequestSeesQuit, cron, daemon, Flagged
  <2>2. QED
    BY <2>1, Undisturbed
<1>5. ASSUME NEW r \in JobRuns, Fire(r) \/ Panic(r) PROVE DInv'
  <2>1. TypeOK' /\ Flagged'
    BY <1>5 DEF Fire, Panic, Enters, interceptor, cron, daemon, Flagged
  <2>2. Listed' /\ Visited'
    BY <1>5 DEF Fire, Panic, Enters, cron, daemon, Listed, Visited, Working, Shared, Fresh
  <2>3. QED
    BY <2>1, <2>2
<1>6. ASSUME NEW r \in JobRuns, Store(r) PROVE DInv'
  <2>1. r[1] \in Jobs
    BY DEF JobRuns
  <2>2. TypeOK' /\ Flagged'
    BY <1>6, <2>1 DEF Store, Enters, interceptor, daemon, Flagged
  <2>3. \A s \in JobRuns : Shared(s) => Shared(s)'
    BY <1>6 DEF Store, Enters, Shared
  <2>4. Listed'
    BY <1>6, <2>3 DEF Store, Enters, Listed, Working
  <2>5. Visited'
    BY <1>6 DEF Store, Enters, daemon, Visited, Fresh, Up
  <2>6. QED
    BY <2>2, <2>4, <2>5
<1>7. ASSUME NEW r \in JobRuns, Finish(r) PROVE DInv'
  <2>1. TypeOK' /\ Flagged'
    BY <1>7 DEF Finish, Enters, interceptor, daemon, Flagged
  <2>2. \A s \in JobRuns : Shared(s) => Shared(s)'
    BY <1>7 DEF Finish, Enters, Shared
  <2>3. \A s \in JobRuns : s # r /\ s[1] = r[1] => Shared(s)'
    BY <1>7 DEF Finish, Enters, Shared
  <2>4. Listed'
    BY <1>7, <2>2, <2>3 DEF Finish, Enters, Listed, Working
  <2>5. Visited'
    BY <1>7 DEF Finish, Enters, daemon, Visited, Fresh, Up
  <2>6. QED
    BY <2>1, <2>4, <2>5
<1>8. CASE Look
  <2>1. TypeOK' /\ Flagged'
    BY <1>8 DEF Look, interceptor, Flagged
  <2>2. Listed' /\ Visited'
    BY <1>8 DEF Look, Listed, Visited, Working, Shared
  <2>3. QED
    BY <2>1, <2>2
<1>9. ASSUME NEW j \in Jobs, Visit(j) PROVE DInv'
  <2>1. TypeOK' /\ Flagged'
    BY <1>9 DEF Visit, interceptor, cron, Flagged
  <2>2. Listed' /\ Visited'
    BY <1>9 DEF Visit, cron, Listed, Visited, Working, Shared, Fresh
  <2>3. QED
    BY <2>1, <2>2
<1>10. CASE Looked
  <2>1. TypeOK' /\ Flagged'
    BY <1>10 DEF Looked, interceptor, cron, Flagged
  <2>2. Listed' /\ Visited'
    BY <1>10 DEF Looked, cron, Listed, Visited, Working, Shared, Fresh
  <2>3. QED
    BY <2>1, <2>2
<1>11. CASE UNCHANGED vars
  BY <1>11, Undisturbed DEF vars, interceptor, cron, daemon, Flagged
<1>12. QED
  BY <1>1, <1>2, <1>3, <1>4, <1>5, <1>6, <1>7, <1>8, <1>9, <1>10, <1>11
     DEF Next, Handler, Job, Main

\* Every variable of the process keeps its type, whatever comes and goes.
THEOREM DaemonTypeOK == Spec => []TypeOK
<1>1. DInv => TypeOK
  BY DEF DInv
<1>2. QED
  BY InitDInv, StepDInv, <1>1, PTL DEF Spec

\* The process is never killed by a second close of quit, however many signals
\* and requests for the shutdown it gets.
THEOREM DaemonClosedOnce == Spec => []ClosedOnce
<1>1. DInv => ClosedOnce
  BY DEF DInv, Flagged, ClosedOnce
<1>2. QED
  BY InitDInv, StepDInv, <1>1, PTL DEF Spec

\* DeamonAll ends the process under a job that works only if the job came too
\* late for the last look or had shared its entry with a run that ended.
THEOREM DaemonWorkIsAwaited == Spec => []WorkIsAwaited
<1>1. DInv => WorkIsAwaited
  <2> SUFFICES ASSUME DInv, main = "exited", NEW r \in JobRuns, Working(r)
               PROVE  Unlisted(r) \/ Relisted(r)
    BY DEF WorkIsAwaited
  <2>1. r[1] \in Jobs \ toVisit /\ (r[1] \in workingMap => Fresh(r[1]))
    BY DEF DInv, Visited, JobRuns
  <2>2. QED
    BY <2>1 DEF DInv, Listed, Shared, Unlisted, Relisted, Fresh
<1>2. QED
  BY InitDInv, StepDInv, <1>1, PTL DEF Spec
=============================================================================
