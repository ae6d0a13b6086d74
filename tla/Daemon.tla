------------------------------- MODULE Daemon -------------------------------
(***************************************************************************)
(* The process of the timer jobs: cron starts the jobs in goroutines of    *)
(* their own, each of which lists itself in workingMap while it works; the *)
(* signal interceptor turns a signal, or a request of the program, into    *)
(* the closing of a channel; and DeamonAll, which waits for that, looks    *)
(* until no job is listed and then ends the process, whatever still runs.  *)
(* Cron is not stopped, and a job that panics takes the process with it.   *)
(***************************************************************************)
EXTENDS Naturals

CONSTANTS Jobs,      \* names of jobs
          Runs,      \* runs of a job that cron starts: a bound
          Requesters \* goroutines that ask for the shutdown

VARIABLES
  interrupt,  \* signals in interruptChannel, which has room for one
  isShutdown, quit, shutdown, \* mainInterruptHandler's flag and the two channels: closed?
  asker,      \* where each requester is
  run,        \* where each run of each job is
  workingMap, \* the jobs listed in it
  recent,     \* runs listed since the last look began
  main, toVisit, size, \* where DeamonAll is, the keys Range still visits, any found?
  dead        \* what has killed the process

interceptor == <<interrupt, isShutdown, quit, shutdown, asker>>
cron        == <<run, workingMap, recent>>
daemon      == <<main, toVisit, size>>
vars        == <<interceptor, cron, daemon, dead>>

JobRuns == Jobs \X Runs

Init ==
  /\ interrupt = 0 /\ isShutdown = FALSE /\ quit = FALSE /\ shutdown = FALSE
  /\ asker = [a \in Requesters |-> "idle"]
  /\ run = [r \in JobRuns |-> "due"]
  /\ workingMap = {} /\ recent = {}
  /\ main = "serve" /\ toVisit = {} /\ size = FALSE
  /\ dead = "no"

Up == main # "exited" /\ dead = "no"
-----------------------------------------------------------------------------
\* signal.Notify drops a signal that interruptChannel has no room for.
Signal ==
  /\ Up /\ ~shutdown /\ interrupt = 0 /\ interrupt' = 1
  /\ UNCHANGED <<isShutdown, quit, shutdown, asker, cron, daemon, dead>>
\* Once the handler has called signal.Stop, a signal has its default effect.
Killed == Up /\ shutdown /\ dead' = "signal" /\ UNCHANGED <<interceptor, cron, daemon>>

\* Faulty variant: no look at isShutdown.
ShutdownAgain ==
  /\ isShutdown' = TRUE /\ quit' = TRUE
  /\ dead' = IF quit THEN "close" ELSE dead
\* shutdown(): the second one is ignored, for closing quit again would panic.
Shutdown ==
  IF isShutdown THEN UNCHANGED <<isShutdown, quit, dead>>
  ELSE /\ isShutdown' = TRUE /\ quit' = TRUE
       /\ dead' = IF quit THEN "close" ELSE dead

\* The cases of mainInterruptHandler's select.
HandleSignal ==
  /\ Up /\ ~shutdown /\ interrupt > 0
  /\ interrupt' = interrupt - 1 /\ Shutdown
  /\ UNCHANGED <<shutdown, asker, cron, daemon>>

\* Faulty variant: the select has no case for requests.
HandleNoRequest(a) == FALSE /\ UNCHANGED vars
\* shutdownRequestChannel has no buffer: the handler receives as the requester sends.
HandleRequest(a) ==
  /\ Up /\ ~shutdown /\ asker[a] = "asking"
  /\ asker' = [asker EXCEPT ![a] = "returned"] /\ Shutdown
  /\ UNCHANGED <<interrupt, shutdown, cron, daemon>>

\* close(shutdownChannel), signal.Stop and return.
HandleQuit ==
  /\ Up /\ quit /\ ~shutdown
  /\ shutdown' = TRUE
  /\ UNCHANGED <<interrupt, isShutdown, quit, asker, cron, daemon, dead>>

RequestShutdown(a) ==
  /\ Up /\ asker[a] = "idle"
  /\ asker' = [asker EXCEPT ![a] = "asking"]
  /\ UNCHANGED <<interrupt, isShutdown, quit, shutdown, cron, daemon, dead>>

\* The other case of RequestShutdown's select.
RequestSeesQuit(a) ==
  /\ Up /\ asker[a] = "asking" /\ quit
  /\ asker' = [asker EXCEPT ![a] = "returned"]
  /\ UNCHANGED <<interrupt, isShutdown, quit, shutdown, cron, daemon, dead>>
-----------------------------------------------------------------------------
Enters(r, from, to) == Up /\ run[r] = from /\ run' = [run EXCEPT ![r] = to]

\* Cron fires: go f().
Fire(r) == Enters(r, "due", "fired")
           /\ UNCHANGED <<interceptor, workingMap, recent, daemon, dead>>

\* Faulty variant: a job that does not list itself.
StoreNothing(r) == Enters(r, "fired", "working")
                   /\ UNCHANGED <<interceptor, workingMap, recent, daemon, dead>>
\* workingMap.Store, one key for all runs of a job.
Store(r) ==
  /\ Enters(r, "fired", "working")
  /\ workingMap' = workingMap \cup {r[1]} /\ recent' = recent \cup {r}
  /\ UNCHANGED <<interceptor, daemon, dead>>

\* Faulty variant: a job that returns early without the deferred Delete.
FinishListed(r) == Enters(r, "working", "ended")
                   /\ UNCHANGED <<interceptor, workingMap, recent, daemon, dead>>
\* However the job returns, workingMap.Delete is deferred.
Finish(r) ==
  /\ Enters(r, "working", "ended")
  /\ workingMap' = workingMap \ {r[1]}
  /\ UNCHANGED <<interceptor, recent, daemon, dead>>

\* LoadDbConfig panics when the database fails, and nothing recovers.
Panic(r) ==
  /\ Up /\ run[r] = "working" /\ dead' = "job"
  /\ UNCHANGED <<interceptor, cron, daemon>>
-----------------------------------------------------------------------------
\* The shutdown channel is closed, or the two seconds of sleep are over.
Look ==
  /\ Up
  /\ \/ main = "serve" /\ shutdown
     \/ main = "sleep"
  /\ main' = "look" /\ toVisit' = Jobs /\ size' = FALSE /\ recent' = {}
  /\ UNCHANGED <<interceptor, run, workingMap, dead>>

\* Range visits the keys one after another while jobs come and go.
Visit(j) ==
  /\ Up /\ main = "look" /\ j \in toVisit
  /\ toVisit' = toVisit \ {j} /\ size' = (size \/ j \in workingMap)
  /\ UNCHANGED <<interceptor, cron, main, dead>>

Looked ==
  /\ Up /\ main = "look" /\ toVisit = {}
  /\ main' = IF size THEN "sleep" ELSE "exited"
  /\ UNCHANGED <<interceptor, cron, toVisit, size, dead>>

Handler == HandleSignal \/ HandleQuit \/ \E a \in Requesters : HandleRequest(a)
Job(r)  == Store(r) \/ Finish(r) \/ Panic(r)
Main    == Look \/ Looked \/ \E j \in Jobs : Visit(j)

Next ==
  \/ Signal \/ Killed \/ Handler \/ Main
  \/ \E a \in Requesters : RequestShutdown(a) \/ RequestSeesQuit(a)
  \/ \E r \in JobRuns : Fire(r) \/ Job(r)

Spec == Init /\ [][Next]_vars

\* Goroutines that can go on do; a select takes a case that is ready again and
\* again, whatever else is ready.
FairSpec ==
  /\ Spec /\ WF_vars(Main) /\ WF_vars(HandleSignal) /\ SF_vars(HandleQuit)
  /\ \A a \in Requesters : WF_vars(HandleRequest(a) \/ RequestSeesQuit(a))
  /\ \A r \in JobRuns : WF_vars(Job(r))
-----------------------------------------------------------------------------
TypeOK ==
  /\ interrupt \in 0..1 /\ isShutdown \in BOOLEAN /\ quit \in BOOLEAN /\ shutdown \in BOOLEAN
  /\ asker \in [Requesters -> {"idle", "asking", "returned"}]
  /\ run \in [JobRuns -> {"due", "fired", "working", "ended"}]
  /\ workingMap \subseteq Jobs /\ recent \subseteq JobRuns
  /\ main \in {"serve", "look", "sleep", "exited"} /\ toVisit \subseteq Jobs /\ size \in BOOLEAN
  /\ dead \in {"no", "job", "close", "signal"}

Working(r) == run[r] = "working"
\* Another run of r's job has taken the entry with it.
Unlisted(r) == r[1] \notin workingMap /\ \E s \in JobRuns : s # r /\ s[1] = r[1] /\ run[s] = "ended"
\* r's job was listed after the last look began.
Relisted(r) == \E s \in recent : s[1] = r[1]

\* The process does not end under a job that works, unless the job was started
\* while DeamonAll looked, or shared its entry with a run that ended before it.
WorkIsAwaited ==
  main = "exited" => \A r \in JobRuns : Working(r) => Unlisted(r) \/ Relisted(r)

\* However many signals and requests come, quit is closed once: a second close
\* would kill the process.
ClosedOnce == dead # "close"

\* A signal ends the process, however its jobs go.
ShutdownEnds == interrupt > 0 ~> main = "exited" \/ dead # "no"

\* RequestShutdown returns, though the handler may have gone.
RequestsReturn ==
  \A a \in Requesters : asker[a] = "asking" ~> asker[a] = "returned" \/ ~Up
=============================================================================
