----------------------------- MODULE Supervisor -----------------------------
(***************************************************************************)
(* The proxy's process (src/main.py): the main coroutine, the proxy, the   *)
(* API and the scheduler, all tasks of one event loop.                     *)
(*                                                                         *)
(* The scheduler's jobs are plain functions and nothing in a round is      *)
(* awaited that suspends, so a round is one step of the loop, however long *)
(* it takes: nothing else of the process moves meanwhile, no connection is *)
(* accepted or relayed and no signal is handled.  The rest of the world -  *)
(* clients, signals, SQL Server, the operator's scripts - does not wait.   *)
(***************************************************************************)
EXTENDS Reports

CONSTANTS
    MaxConns,           \* bound: connections open at once
    MaxStarts           \* bound: times the process is started

ASSUME SupervisorAssumption ==
    /\ MaxConns \in Nat /\ MaxStarts \in Nat \ {0}

VARIABLES
    main,       \* "run", "gather" (both in main()) or "exited"
    stop,       \* stop_event is set
    signal,     \* "none", "pending" or "handled"
    proxy,      \* the proxy's task
    api,        \* the API's task
    sched,      \* the scheduler's task
    waiting,    \* a client is connected to the listening socket, not accepted yet
    conns,      \* connections handled
    installed,  \* scripts/publish_feedback.py is where the scheduler expects it
    waits,      \* Server.wait_closed waits for them (Python 3.12 and later)
    starts      \* times the process was started

control == <<main, stop, signal>>
tasks   == <<proxy, api, sched>>
clients == <<waiting, conns>>
boot    == <<installed, waits, starts>>
process == <<control, tasks, clients, boot>>
vars    == <<pipeline, process>>

TypeOK ==
    /\ ReportsTypeOK
    /\ main \in {"run", "gather", "exited"}
    /\ signal \in {"none", "pending", "handled"}
    /\ proxy \in {"starting", "listening", "closing", "done", "failed"}
    /\ api \in {"starting", "serving", "done", "failed"}
    /\ sched \in {"starting", "on", "done"}
    /\ {stop, waiting, installed, waits} \subseteq BOOLEAN
    /\ conns \in 0..MaxConns /\ starts \in 1..MaxStarts
    /\ job[Scheduler] # None => sched = "on" /\ main # "exited"

Started ==
    /\ main' = "run" /\ stop' = FALSE /\ signal' = "none"
    /\ proxy' = "starting" /\ api' = "starting" /\ sched' = "starting"
    /\ waiting' = FALSE /\ conns' = 0

Init ==
    /\ ReportsInit
    /\ main = "run" /\ stop = FALSE /\ signal = "none"
    /\ proxy = "starting" /\ api = "starting" /\ sched = "starting"
    /\ waiting = FALSE /\ conns = 0
    /\ installed \in BOOLEAN /\ waits \in BOOLEAN /\ starts = 1

-----------------------------------------------------------------------------
\* Mutant: the scheduler sleeps between its rounds without giving up the loop.
LoopFreeAsleep == main # "exited" /\ sched # "on"

\* Mutant: the jobs run in a thread of their own.
LoopFreeAlways == main # "exited"

\* No round is running: the loop takes the next callback that is ready.
LoopFree == main # "exited" /\ job[Scheduler] = None

Signal ==
    /\ main # "exited" /\ signal = "none" /\ ~stop
    /\ signal' = "pending"
    /\ UNCHANGED <<pipeline, main, stop, tasks, clients, boot>>

HandleSignal ==
    /\ LoopFree /\ signal = "pending"
    /\ signal' = "handled" /\ stop' = TRUE
    /\ UNCHANGED <<pipeline, main, tasks, clients, boot>>

-----------------------------------------------------------------------------
(***************************************************************************)
(* run_proxy, run_tls_terminating_proxy and the connections.               *)
(***************************************************************************)
\* The port may be taken, the certificate missing.
Listen ==
    /\ LoopFree /\ proxy = "starting"
    /\ proxy' \in {"listening", "failed"}
    /\ UNCHANGED <<pipeline, control, api, sched, clients, boot>>

\* The system completes the handshake whatever the loop does.
Connect ==
    /\ main # "exited" /\ proxy = "listening" /\ ~waiting /\ conns < MaxConns
    /\ waiting' = TRUE
    /\ UNCHANGED <<pipeline, control, tasks, conns, boot>>

Accept ==
    /\ LoopFree /\ proxy = "listening" /\ waiting
    /\ waiting' = FALSE /\ conns' = conns + 1
    /\ UNCHANGED <<pipeline, control, tasks, boot>>

\* A connection's parser decides about a batch and logs it.
DecideBatch ==
    /\ LoopFree /\ conns > 0
    /\ Decide
    /\ UNCHANGED process

\* handle_client is through with both pipes.
Disconnect ==
    /\ LoopFree /\ conns > 0
    /\ conns' = conns - 1
    /\ UNCHANGED <<pipeline, control, tasks, waiting, boot>>

\* Leaving "async with server" closes the listening socket ...
StopListening ==
    /\ LoopFree /\ stop /\ proxy = "listening"
    /\ proxy' = "closing" /\ waiting' = FALSE
    /\ UNCHANGED <<pipeline, control, api, sched, conns, boot>>

\* ... and waits for it to be closed.
ProxyEnds ==
    /\ LoopFree /\ proxy = "closing" /\ (waits => conns = 0)
    /\ proxy' = "done"
    /\ UNCHANGED <<pipeline, control, api, sched, clients, boot>>

-----------------------------------------------------------------------------
(***************************************************************************)
(* run_api and the process's end.                                          *)
(***************************************************************************)
ApiServes ==
    /\ LoopFree /\ api = "starting"
    /\ api' = "serving"
    /\ UNCHANGED <<pipeline, control, proxy, sched, clients, boot>>

ApiEnds ==
    /\ LoopFree /\ stop /\ api = "serving"
    /\ api' = "done"
    /\ UNCHANGED <<pipeline, control, proxy, sched, clients, boot>>

Gone ==
    /\ main' = "exited" /\ waiting' = FALSE /\ conns' = 0
    /\ UNCHANGED <<stop, signal, proxy, sched, boot>>

\* A port that is taken makes uvicorn call sys.exit, which ends the loop at once.
ApiExits ==
    /\ LoopFree /\ api = "starting"
    /\ api' = "failed"
    /\ Gone
    /\ UNCHANGED pipeline

-----------------------------------------------------------------------------
(***************************************************************************)
(* run_scheduler.                                                          *)
(***************************************************************************)
EndScheduler == sched' = "done" /\ UNCHANGED pipeline

\* The imports, and the first round at once.
SchedulerStarts ==
    /\ LoopFree /\ sched = "starting"
    /\ IF installed /\ ~stop THEN sched' = "on" /\ StartRound ELSE EndScheduler
    /\ UNCHANGED <<control, proxy, api, clients, boot>>

IntervalOver ==
    /\ LoopFree /\ sched = "on" /\ ~stop
    /\ StartRound
    /\ UNCHANGED process

\* Mutant: the loop is left when a round is over.
SchedulerEndsEarly ==
    /\ LoopFree /\ sched = "on"
    /\ EndScheduler
    /\ UNCHANGED <<control, proxy, api, clients, boot>>

SchedulerEnds ==
    /\ LoopFree /\ sched = "on" /\ stop
    /\ EndScheduler
    /\ UNCHANGED <<control, proxy, api, clients, boot>>

-----------------------------------------------------------------------------
(***************************************************************************)
(* main.                                                                   *)
(***************************************************************************)
Over == {"done", "failed"}
TaskDone == {proxy, api, sched} \cap Over # {}

\* Mutant: main forgets to set stop_event.
FirstCompletedOnly ==
    /\ LoopFree /\ main = "run" /\ TaskDone
    /\ main' = "gather"
    /\ UNCHANGED <<pipeline, stop, signal, tasks, clients, boot>>

\* The first task that ends takes the others with it.
FirstCompleted ==
    /\ LoopFree /\ main = "run" /\ TaskDone
    /\ stop' = TRUE /\ main' = "gather"
    /\ UNCHANGED <<pipeline, signal, tasks, clients, boot>>

\* gather swallows what the tasks raised; the exit status is 0 whatever it was.
\* asyncio.run cancels the connections that are left.
Exit ==
    /\ LoopFree /\ main = "gather" /\ {proxy, api, sched} \subseteq Over
    /\ Gone
    /\ UNCHANGED <<pipeline, api>>

\* The process is killed, in a round or between two.
Crash ==
    /\ main # "exited"
    /\ Killed(Scheduler)
    /\ Gone
    /\ UNCHANGED api

Restart ==
    /\ main = "exited" /\ starts < MaxStarts
    /\ starts' = starts + 1
    /\ Started
    /\ UNCHANGED <<pipeline, installed, waits>>

-----------------------------------------------------------------------------
\* What the loop does as soon as it is ready for it, each once in a process.
LoopStep ==
    \/ HandleSignal \/ Listen \/ StopListening \/ ProxyEnds
    \/ ApiServes \/ ApiExits \/ ApiEnds \/ SchedulerStarts \/ SchedulerEnds
    \/ FirstCompleted \/ Exit

Next ==
    \/ Pipeline /\ UNCHANGED process
    \/ Signal \/ Connect \/ DecideBatch \/ Disconnect \/ Crash \/ Restart
    \/ Accept \/ IntervalOver \/ LoopStep

\* A job ends, for every call in it is answered or times out; between two rounds the
\* loop runs the callbacks that are ready, so none waits for ever.
Spec ==
    /\ Init /\ [][Next]_vars
    /\ WF_vars(JobStep(Scheduler) /\ UNCHANGED process)
    /\ SF_vars(LoopStep) /\ SF_vars(Accept)

-----------------------------------------------------------------------------
(***************************************************************************)
(* Properties.                                                             *)
(***************************************************************************)
(* A signal, or the end of any task, ends the process: no task is left running
   without the others.  The one exception is an open connection under a Python
   whose wait_closed waits for it. *)
StopsTogether ==
    main # "exited" /\ (signal = "pending" \/ TaskDone) ~>
        main = "exited" \/ (waits /\ conns > 0)

(* A client that reaches the listening socket is accepted, or sees it close: no
   round of the scheduler keeps it waiting for ever. *)
ClientServed == waiting ~> ~waiting

(* An orderly end of the process, by a signal or a task that ended, does not come
   in the middle of a job: the profiles are whole unless something failed or a
   script was run by hand. *)
OrderlyExit ==
    main = "exited" /\ faults = 0 /\ byHand = 0 => profiles # Torn

(* The dry-run report a round leaves has every decision the proxy has made: none is
   made between that job and the end of the round. *)
DryrunComplete == job[Scheduler] = "feedback" /\ clean => dryrun = decided

(* Where publish_feedback.py is installed, an enabled scheduler runs until the process
   is told to stop, or cannot have a socket: neither a job that fails nor a client
   ends it. *)
SchedulerRuns ==
    installed /\ sched = "done" => signal # "none" \/ "failed" \in {proxy, api}
=============================================================================
