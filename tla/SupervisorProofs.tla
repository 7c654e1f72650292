-------------------------- MODULE SupervisorProofs --------------------------
(***************************************************************************)
(* Theorems about the proxy's process, for every number of connections,    *)
(* restarts, rounds and failures.  The steps of the process that reach the *)
(* reports are steps of the pipeline, or decisions of the proxy, so what   *)
(* ReportsProofs says of these holds in the process too.                   *)
(***************************************************************************)
EXTENDS Supervisor, ReportsProofs

-----------------------------------------------------------------------------
(***************************************************************************)
(* The steps of the process, seen from the pipeline.                       *)
(***************************************************************************)
(* A round is begun by the event loop alone, and so is a decision made. *)
LEMMA StepsOfTheLoop ==
    ASSUME [Next]_vars
    PROVE  \/ Pipeline /\ UNCHANGED process
           \/ LoopFree /\ (StartRound \/ Decide \/ UNCHANGED pipeline)
           \/ Killed(Scheduler) /\ main' = "exited"
           \/ UNCHANGED pipeline
<1>1. CASE UNCHANGED vars
  BY <1>1 DEF vars
<1>2. CASE Signal \/ Connect \/ Disconnect \/ Restart \/ Accept
  BY <1>2 DEF Signal, Connect, Disconnect, Restart, Accept
<1>3. CASE DecideBatch \/ IntervalOver
  BY <1>3 DEF DecideBatch, IntervalOver
<1>4. CASE Crash
  BY <1>4 DEF Crash, Gone
<1>5. CASE LoopStep
  <2>1. CASE SchedulerStarts
    BY <2>1 DEF SchedulerStarts, EndScheduler
  <2>2. CASE HandleSignal \/ Listen \/ StopListening \/ ProxyEnds \/ ApiServes
             \/ ApiExits \/ ApiEnds \/ SchedulerEnds \/ FirstCompleted \/ Exit
    BY <2>2 DEF HandleSignal, Listen, StopListening, ProxyEnds, ApiServes, ApiExits,
                ApiEnds, SchedulerEnds, EndScheduler, FirstCompleted, Exit
  <2> QED
    BY <1>5, <2>1, <2>2 DEF LoopStep
<1> QED
  BY <1>1, <1>2, <1>3, <1>4, <1>5 DEF Next

(* Whatever the process does, the files see a step of the pipeline, a decision or nothing. *)
LEMMA StepsOfThePipeline ==
    ASSUME [Next]_vars
    PROVE  [PipelineStep]_pipeline
BY StepsOfTheLoop DEF PipelineStep, ReportsNext

(* No job of the scheduler's starts by itself. *)
LEMMA PipelineKeepsIdle ==
    ASSUME ReportsTypeOK, Pipeline, job[Scheduler] = None
    PROVE  job'[Scheduler] = None
<1>0. /\ Scheduler \in Actors /\ Operator \in Actors /\ Scheduler # Operator
      /\ Actors = {Scheduler, Operator}
  BY DEF Actors, Scheduler, Operator
<1>1. CASE Capture
  BY <1>1 DEF Capture, local
<1>2. CASE StartByHand \/ Killed(Operator)
  BY <1>0, <1>2 DEF StartByHand, Killed, ReportsTypeOK
<1>3. ASSUME NEW a \in Actors, JobStep(a) \/ JobFails(a) PROVE job'[Scheduler] = None
  <2>1. job[a] # None
    BY <1>3, JobsAre DEF JobFails, JobStep, ReadXevents, SaveRaw, AggregateRead,
         AggregateOpen, AggregateDump, DailyRead, DailyWrite, NothingToRead,
         DryrunReport, LlmSummary, LlmInsights, Feedback, Runs
  <2>2. a = Operator
    BY <1>0, <2>1
  <2>3. Done(a) => job'[Scheduler] = None
    BY <1>0, <2>2 DEF Done, ReportsTypeOK
  <2> QED
    BY <1>3, <2>3 DEF JobFails, JobStep, ReadXevents, SaveRaw, AggregateRead,
         AggregateOpen, AggregateDump, DailyRead, DailyWrite, NothingToRead,
         DryrunReport, LlmSummary, LlmInsights, Feedback, Wrote
<1> QED
  BY <1>1, <1>2, <1>3 DEF Pipeline

-----------------------------------------------------------------------------
(***************************************************************************)
(* Type correctness, and no round outside the process it belongs to.       *)
(***************************************************************************)
\* What TypeOK says of the process alone, and that there is room for a client that
\* waits.
ProcessTypeOK ==
    /\ main \in {"run", "gather", "exited"}
    /\ signal \in {"none", "pending", "handled"}
    /\ proxy \in {"starting", "listening", "closing", "done", "failed"}
    /\ api \in {"starting", "serving", "done", "failed"}
    /\ sched \in {"starting", "on", "done"}
    /\ {stop, waiting, installed, waits} \subseteq BOOLEAN
    /\ conns \in 0..MaxConns /\ starts \in 1..MaxStarts
    /\ waiting => conns < MaxConns

RoundInProcess == job[Scheduler] # None => sched = "on" /\ main # "exited"

(* A client waits only where there is room for its connection, so that no step of
   the process leaves a variable's type. *)
LEMMA ProcessStepType ==
    ASSUME ProcessTypeOK, [Next]_vars
    PROVE  ProcessTypeOK'
<1> USE SupervisorAssumption DEF ProcessTypeOK
<1>1. CASE UNCHANGED process
  BY <1>1 DEF process, control, tasks, clients, boot
<1>2. CASE Signal \/ HandleSignal \/ FirstCompleted
  <2>1. /\ main' \in {main, "gather"} /\ signal' \in {"pending", "handled", signal}
        /\ stop' = stop \/ stop' = TRUE
        /\ UNCHANGED <<tasks, clients, boot>>
    BY <1>2 DEF Signal, HandleSignal, FirstCompleted
  <2>2. stop' \in BOOLEAN
    BY <2>1
  <2>3. UNCHANGED <<proxy, api, sched, waiting, conns, installed, waits, starts>>
    BY <2>1 DEF tasks, clients, boot
  <2> QED
    BY <2>1, <2>2, <2>3
<1>3. CASE Listen \/ StopListening \/ ProxyEnds
  <2>1. /\ proxy' \in {"listening", "failed", "closing", "done"}
        /\ waiting' = waiting \/ waiting' = FALSE
        /\ UNCHANGED <<control, api, sched, conns, boot>>
    BY <1>3 DEF Listen, StopListening, ProxyEnds, clients
  <2>2. waiting' \in BOOLEAN /\ (waiting' => waiting)
    <3>1. CASE waiting' = waiting
      BY <3>1
    <3>2. CASE waiting' = FALSE
      BY <3>2
    <3> QED
      BY <2>1, <3>1, <3>2
  <2>3. UNCHANGED <<main, stop, signal, api, sched, conns, installed, waits, starts>>
    BY <2>1 DEF control, boot
  <2> QED
    BY <2>1, <2>2, <2>3
<1>4. CASE Connect
  BY <1>4 DEF Connect, control, tasks, boot
<1>5. CASE Disconnect
  BY <1>5 DEF Disconnect, control, tasks, boot
<1>6. CASE Accept
  <2>1. conns < MaxConns /\ conns' = conns + 1 /\ waiting' = FALSE
    BY <1>6 DEF Accept
  <2>2. conns' \in 0..MaxConns
    BY <2>1
  <2>3. UNCHANGED <<pipeline, control, tasks, boot>>
    BY <1>6 DEF Accept
  <2> QED
    BY <2>1, <2>2, <2>3 DEF control, tasks, boot
<1>7. CASE ApiServes \/ ApiEnds
  BY <1>7 DEF ApiServes, ApiEnds, control, clients, boot
<1>8. CASE ApiExits \/ Exit \/ Crash
  <2>1. /\ main' = "exited" /\ waiting' = FALSE /\ conns' = 0
        /\ UNCHANGED <<stop, signal, proxy, sched, boot>>
        /\ api' \in {api, "failed"}
    BY <1>8 DEF ApiExits, Exit, Crash, Gone
  <2>2. 0 \in 0..MaxConns
    OBVIOUS
  <2> QED
    BY <2>1, <2>2 DEF boot
<1>9. CASE SchedulerStarts \/ SchedulerEnds
  <2>1. sched' \in {"on", "done"} /\ UNCHANGED <<control, proxy, api, clients, boot>>
    BY <1>9 DEF SchedulerStarts, SchedulerEnds, EndScheduler
  <2> QED
    BY <2>1 DEF control, clients, boot
<1>10. CASE Restart
  <2>1. starts' \in 1..MaxStarts /\ 0 \in 0..MaxConns /\ waits' \in BOOLEAN /\ installed' \in BOOLEAN
    BY <1>10 DEF Restart
  <2>2. Started
    BY <1>10 DEF Restart
  <2> QED
    BY <2>1, <2>2 DEF Started
<1>11. CASE UNCHANGED vars
  BY <1>11 DEF vars, process, control, tasks, clients, boot
<1> QED
  BY <1>1, <1>2, <1>3, <1>4, <1>5, <1>6, <1>7, <1>8, <1>9, <1>10, <1>11
     DEF Next, LoopStep, DecideBatch, IntervalOver

(* A round runs only in a process whose scheduler is on, and ends with it. *)
LEMMA RoundInProcessStep ==
    ASSUME ReportsTypeOK, RoundInProcess, [Next]_vars
    PROVE  RoundInProcess'
<1> USE DEF RoundInProcess
<1>1. CASE Pipeline /\ UNCHANGED process
  BY <1>1, PipelineKeepsIdle DEF process, control, tasks
<1>2. CASE Signal \/ Connect \/ Disconnect \/ Accept \/ Restart \/ UNCHANGED vars
  BY <1>2 DEF Signal, Connect, Disconnect, Accept, Restart, control, tasks, pipeline,
              local, vars, process
<1>3. CASE DecideBatch
  BY <1>3 DEF DecideBatch, Decide, LoopFree, local
<1>4. CASE IntervalOver \/ SchedulerStarts
  BY <1>4 DEF IntervalOver, SchedulerStarts, EndScheduler, LoopFree, process, control,
              tasks, pipeline, local
<1>5. CASE Crash
  BY <1>5 DEF Crash, Killed, ReportsTypeOK, Actors
<1>6. CASE HandleSignal \/ Listen \/ StopListening \/ ProxyEnds \/ ApiServes \/ ApiExits
           \/ ApiEnds \/ SchedulerEnds \/ FirstCompleted \/ Exit
  <2>1. job[Scheduler] = None /\ UNCHANGED pipeline
    BY <1>6 DEF HandleSignal, Listen, StopListening, ProxyEnds, ApiServes, ApiExits,
                ApiEnds, SchedulerEnds, EndScheduler, FirstCompleted, Exit, LoopFree
  <2> QED
    BY <2>1 DEF pipeline, local
<1> QED
  BY <1>1, <1>2, <1>3, <1>4, <1>5, <1>6 DEF Next, LoopStep

Inv == ReportsTypeOK /\ LinesBounded /\ ProcessTypeOK /\ RoundInProcess

(* A process that starts, with no round begun, satisfies the invariant. *)
LEMMA InvInit == Init => Inv
<1> SUFFICES ASSUME Init PROVE Inv
  OBVIOUS
<1>1. ReportsTypeOK /\ LinesBounded
  BY ReportsInitType DEF Init
<1>2. job[Scheduler] = None
  BY DEF Init, ReportsInit, Actors
<1>3. 0 \in 0..MaxConns /\ 1 \in 1..MaxStarts
  BY SupervisorAssumption
<1> QED
  BY <1>1, <1>2, <1>3 DEF Init, Inv, ProcessTypeOK, RoundInProcess

(* Every step of the process, of the pipeline and of the world outside preserves it. *)
LEMMA InvStep == Inv /\ [Next]_vars => Inv'
BY StepsOfThePipeline, ReportsStepType, ProcessStepType, RoundInProcessStep DEF Inv

(* Every variable of the process and of its reports keeps its type, and a job of the
   scheduler's runs only in a process that is there and has its scheduler on. *)
THEOREM TypeCorrect == Spec => []TypeOK
<1>1. Inv => TypeOK
  BY DEF Inv, ProcessTypeOK, RoundInProcess, TypeOK
<1> QED
  BY <1>1, InvInit, InvStep, PTL DEF Spec

-----------------------------------------------------------------------------
(***************************************************************************)
(* The reports of the process.                                             *)
(***************************************************************************)
(* The pipeline's promises hold in the process, whatever it is told to do. *)
THEOREM ProcessReports == Spec => []FreshReport /\ []ReportBounded
<1> DEFINE All == Inv /\ CountsBounded /\ RoundInOrder
<1>1. Init => All
  BY InvInit, CountsBoundedInit DEF Init, ReportsInit, RoundInOrder
<1>2. All /\ [Next]_vars => All'
  BY InvStep, StepsOfThePipeline, CountsBoundedStep, RoundInOrderStep DEF Inv
<1>3. All => FreshReport /\ ReportBounded
  BY DEF Inv, ReportsTypeOK, RoundInOrder, Shows, AfterAggregate, FreshReport, CountsBounded,
         Within, ReportBounded
<1> QED
  BY <1>1, <1>2, <1>3, PTL DEF Spec

-----------------------------------------------------------------------------
(***************************************************************************)
(* No orderly end in the middle of a job.                                  *)
(***************************************************************************)
\* The profiles are torn only while the scheduler writes them.
TornMidway ==
    faults = 0 /\ byHand = 0 =>
        /\ job[Operator] = None
        /\ profiles = Torn <=> Runs(Scheduler, "aggregate", "write")

(* As long as nothing fails and no script is run by hand, whoever opens the profiles
   closes them. *)
LEMMA TornMidwayStep ==
    ASSUME ReportsTypeOK, TornMidway, [PipelineStep]_pipeline
    PROVE  TornMidway'
<1> SUFFICES ASSUME faults' = 0, byHand' = 0
             PROVE  /\ job'[Operator] = None
                    /\ profiles' = Torn <=> Runs(Scheduler, "aggregate", "write")'
  BY DEF TornMidway
<1> USE DEF GoTo
<1>0. /\ Scheduler \in Actors /\ Operator \in Actors /\ Scheduler # Operator
      /\ Actors = {Scheduler, Operator}
  BY DEF Actors, Scheduler, Operator
<1>1. Torn \notin Counts /\ None \notin JobNames
  BY ReportsAssumption, JobsAre
<1>2. CASE Capture \/ Decide \/ UNCHANGED pipeline
  BY <1>2 DEF Capture, Decide, TornMidway, Runs, pipeline, files, local, hist
<1>3. CASE StartByHand
  BY <1>3 DEF StartByHand, ReportsTypeOK
<1>4. CASE StartRound
  <2>1. job'[Operator] = None /\ job'[Scheduler] = "xevents" /\ job[Scheduler] = None
    BY <1>0, <1>4 DEF StartRound, ReportsTypeOK, Jobs, TornMidway
  <2>2. profiles' = profiles /\ profiles # Torn
    BY <1>1, <1>4, <2>1, JobsAre DEF StartRound, TornMidway, Runs, files
  <2> QED
    BY <2>1, <2>2 DEF Runs
<1>5. ASSUME NEW a \in Actors, Killed(a) \/ JobFails(a) PROVE FALSE
  BY <1>5 DEF Killed, JobFails, CutShort, ReportsTypeOK
<1>6. ASSUME NEW a \in Actors, JobStep(a)
      PROVE  /\ job'[Operator] = None
             /\ profiles' = Torn <=> Runs(Scheduler, "aggregate", "write")'
  <2>1. job[a] # None /\ faults = 0 /\ byHand = 0
    BY <1>6, JobsAre DEF JobStep, ReadXevents, SaveRaw, AggregateRead, AggregateOpen,
         AggregateDump, DailyRead, DailyWrite, NothingToRead, DryrunReport, LlmSummary,
         LlmInsights, Feedback, Wrote, Runs, hist
  <2>2. /\ a = Scheduler /\ job[Operator] = None
        /\ profiles = Torn <=> Runs(Scheduler, "aggregate", "write")
    BY <1>0, <2>1 DEF TornMidway
  <2>3. Done(a) => job'[Operator] = None /\ ~Runs(Scheduler, "aggregate", "write")'
    BY <1>0, <2>2 DEF Done, ReportsTypeOK, Runs
  <2>4. CASE AggregateOpen(a)
    <3>1. job' = job /\ at'[Scheduler] = "write" /\ profiles' = Torn
      BY <1>0, <2>2, <2>4 DEF AggregateOpen, ReportsTypeOK
    <3> QED
      BY <2>2, <2>4, <3>1 DEF AggregateOpen, Runs
  <2>5. CASE AggregateDump(a)
    <3>1. Done(a) /\ profiles' = counts[a] /\ counts[a] \in Counts
      BY <2>2, <2>5 DEF AggregateDump, ReportsTypeOK
    <3> QED
      BY <1>1, <2>3, <3>1
  <2>6. CASE ReadXevents(a) \/ AggregateRead(a) \/ DailyRead(a)
    <3>1. /\ at[Scheduler] = "read" /\ UNCHANGED <<job, profiles>>
          /\ job[Scheduler] = "aggregate" => at'[Scheduler] = "open"
      BY <1>0, <2>2, <2>6
         DEF ReadXevents, AggregateRead, DailyRead, Runs, files, ReportsTypeOK
    <3> QED
      BY <2>2, <3>1 DEF Runs
  <2>7. CASE SaveRaw(a) \/ DailyWrite(a) \/ NothingToRead(a) \/ DryrunReport(a)
             \/ LlmSummary(a) \/ LlmInsights(a) \/ Feedback(a)
    <3>1. Done(a) /\ profiles' = profiles /\ job[Scheduler] # "aggregate"
      BY <2>2, <2>7 DEF SaveRaw, DailyWrite, NothingToRead, DryrunReport, LlmSummary,
         LlmInsights, Feedback, Wrote, Runs, files
    <3> QED
      BY <2>2, <2>3, <3>1 DEF Runs
  <2> QED
    BY <1>6, <2>4, <2>5, <2>6, <2>7 DEF JobStep
<1> QED
  BY <1>0, <1>2, <1>3, <1>4, <1>5, <1>6 DEF PipelineStep, ReportsNext, Pipeline

(* main() returns only between two rounds, so an orderly end leaves whole profiles. *)
THEOREM ExitIsOrderly == Spec => []OrderlyExit
<1> DEFINE All == Inv /\ TornMidway
<1>1. Init => All
  <2>1. ASSUME Init PROVE TornMidway
    BY <2>1, JobsAre, ReportsAssumption DEF Init, ReportsInit, TornMidway, Runs, Actors
  <2> QED
    BY <2>1, InvInit
<1>2. All /\ [Next]_vars => All'
  BY InvStep, StepsOfThePipeline, TornMidwayStep DEF Inv
<1>3. All => OrderlyExit
  BY JobsAre DEF Inv, RoundInProcess, TornMidway, Runs, OrderlyExit
<1> QED
  BY <1>1, <1>2, <1>3, PTL DEF Spec

-----------------------------------------------------------------------------
(***************************************************************************)
(* No decision between the dry-run report and the end of its round.        *)
(***************************************************************************)
DecisionsReported ==
    clean /\ job[Scheduler] \in {"llm_summary", "llm_insights", "feedback"} =>
        dryrun = decided

(* A decision is a step of the loop, and the loop is busy with the round. *)
LEMMA DecisionsReportedStep ==
    ASSUME ReportsTypeOK, DecisionsReported, [Next]_vars
    PROVE  DecisionsReported'
<1> DEFINE Late == {"llm_summary", "llm_insights", "feedback"}
<1> SUFFICES ASSUME clean', job'[Scheduler] \in Late
             PROVE  dryrun' = decided'
  BY DEF DecisionsReported
<1>0. /\ Scheduler \in Actors /\ Operator \in Actors /\ Scheduler # Operator
      /\ Actors = {Scheduler, Operator} /\ None \notin Late
  BY JobsAre DEF Actors, Scheduler, Operator
<1>1. CASE UNCHANGED pipeline
  BY <1>1 DEF pipeline, files, local, hist, DecisionsReported
<1>2. CASE LoopFree /\ (StartRound \/ Decide)
  <2>1. job'[Scheduler] \in {None, "xevents"}
    BY <1>0, <1>2 DEF LoopFree, StartRound, Decide, local, ReportsTypeOK, Jobs
  <2> QED
    BY <1>0, <2>1
<1>3. CASE Killed(Scheduler)
  BY <1>3 DEF Killed, CutShort
<1>4. CASE Pipeline
  <2>1. CASE Capture
    BY <2>1 DEF Capture, local, hist, DecisionsReported
  <2>2. CASE StartByHand
    BY <2>2 DEF StartByHand
  <2>3. CASE Killed(Operator) \/ JobFails(Operator)
    <3>1. /\ UNCHANGED <<decided, dryrun>> /\ job'[Scheduler] = job[Scheduler] /\ clean
      BY <1>0, <2>3 DEF Killed, JobFails, CutShort, Done, ReportsTypeOK
    <3> QED
      BY <3>1 DEF DecisionsReported
  <2>4. CASE JobFails(Scheduler)
    BY <2>4 DEF JobFails, CutShort
  <2>5. ASSUME NEW a \in Actors, DryrunReport(a) PROVE dryrun' = decided'
    BY <2>5 DEF DryrunReport
  <2>6. ASSUME NEW a \in Actors, JobStep(a), ~DryrunReport(a) PROVE dryrun' = decided'
    <3>1. UNCHANGED <<decided, dryrun>> /\ clean
      BY <2>6 DEF JobStep, ReadXevents, SaveRaw, AggregateRead, AggregateOpen,
         AggregateDump, DailyRead, DailyWrite, NothingToRead, LlmSummary, LlmInsights,
         Feedback, Wrote, files, hist
    <3>2. CASE a = Operator \/ UNCHANGED job
      <4>1. job'[Scheduler] = job[Scheduler]
        BY <1>0, <2>6, <3>2 DEF JobStep, ReadXevents, SaveRaw, AggregateRead,
           AggregateOpen, AggregateDump, DailyRead, DailyWrite, NothingToRead,
           LlmSummary, LlmInsights, Feedback, Wrote, Done, ReportsTypeOK
      <4> QED
        BY <3>1, <4>1 DEF DecisionsReported
    <3>3. CASE a = Scheduler /\ ~UNCHANGED job
      <4>1. /\ job'[Scheduler] = Following(job[Scheduler])
            /\ job[Scheduler] \in {"xevents", "aggregate", "report"} \cup Late
        BY <1>0, <2>6, <3>3 DEF JobStep, ReadXevents, SaveRaw, AggregateRead,
           AggregateOpen, AggregateDump, DailyRead, DailyWrite, NothingToRead,
           LlmSummary, LlmInsights, Feedback, Wrote, Done, Runs, ReportsTypeOK
      <4>2. job[Scheduler] \in {"xevents", "aggregate", "report"} =>
                Following(job[Scheduler]) \in {"aggregate", "report", "dryrun_report"}
        BY FollowingIs
      <4>3. job[Scheduler] \in Late
        BY <4>1, <4>2
      <4> QED
        BY <3>1, <4>3 DEF DecisionsReported
    <3> QED
      BY <1>0, <3>2, <3>3
  <2> QED
    BY <1>0, <1>4, <2>1, <2>2, <2>3, <2>4, <2>5, <2>6 DEF Pipeline
<1> QED
  BY <1>1, <1>2, <1>3, <1>4, StepsOfTheLoop

(* The dry-run report that a round leaves has every decision made so far. *)
THEOREM DryrunIsComplete == Spec => []DryrunComplete
<1> DEFINE All == Inv /\ DecisionsReported
<1>1. Init => All
  BY InvInit DEF Init, ReportsInit, DecisionsReported
<1>2. All /\ [Next]_vars => All'
  BY InvStep, DecisionsReportedStep DEF Inv
<1>3. All => DryrunComplete
  BY DEF DecisionsReported, DryrunComplete
<1> QED
  BY <1>1, <1>2, <1>3, PTL DEF Spec

-----------------------------------------------------------------------------
(***************************************************************************)
(* Why a scheduler ends.                                                   *)
(***************************************************************************)
HasCause == signal # "none" \/ proxy = "failed" \/ api = "failed"

\* Whatever is stopped, or over, has a cause outside the scheduler.
StopsForCause ==
    installed /\ (stop \/ sched = "done" \/ proxy \in {"closing", "done"} \/ api = "done") =>
        HasCause

(* While the scheduler has all its jobs, only a signal or a socket that cannot be had
   sets the stop event; what is stopped by it has the same cause. *)
LEMMA StopsForCauseStep ==
    ASSUME ProcessTypeOK, StopsForCause, [Next]_vars
    PROVE  StopsForCause'
<1> USE DEF StopsForCause, HasCause
<1>1. CASE UNCHANGED process
  BY <1>1 DEF process, control, tasks, boot
<1>2. CASE Signal \/ HandleSignal
  BY <1>2 DEF Signal, HandleSignal, tasks, boot
<1>3. CASE FirstCompleted
  <2>1. installed => HasCause
    BY <1>3 DEF FirstCompleted, TaskDone, Over
  <2> QED
    BY <1>3, <2>1 DEF FirstCompleted, tasks, boot
<1>4. CASE Listen \/ StopListening \/ ProxyEnds
  BY <1>4 DEF Listen, StopListening, ProxyEnds, control, boot
<1>5. CASE ApiServes \/ ApiEnds \/ ApiExits
  BY <1>5 DEF ApiServes, ApiEnds, ApiExits, Gone, control, boot
<1>6. CASE Exit \/ Crash
  BY <1>6 DEF Exit, Crash, Gone, boot
<1>7. CASE SchedulerStarts \/ SchedulerEnds
  BY <1>7 DEF SchedulerStarts, SchedulerEnds, EndScheduler, control, boot
<1>8. CASE Connect \/ Disconnect \/ Accept
  BY <1>8 DEF Connect, Disconnect, Accept, control, tasks, boot
<1>9. CASE Restart
  BY <1>9 DEF Restart, Started
<1>10. CASE UNCHANGED vars
  BY <1>10 DEF vars, process, control, tasks, boot
<1> QED
  BY <1>1, <1>2, <1>3, <1>4, <1>5, <1>6, <1>7, <1>8, <1>9, <1>10
     DEF Next, LoopStep, DecideBatch, IntervalOver

(* The missing publish_feedback.py is the only reason for which a scheduler that is
   enabled ends without a signal and without a socket that could not be had: where
   the script is installed, it runs. *)
THEOREM SchedulerGoesOn == Spec => []SchedulerRuns
<1> DEFINE All == Inv /\ StopsForCause
<1>1. Init => All
  BY InvInit DEF Init, StopsForCause
<1>2. All /\ [Next]_vars => All'
  BY InvStep, StopsForCauseStep DEF Inv
<1>3. All => SchedulerRuns
  BY DEF StopsForCause, HasCause, SchedulerRuns
<1> QED
  BY <1>1, <1>2, <1>3, PTL DEF Spec
=============================================================================
