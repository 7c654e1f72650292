------------------------------ MODULE Reports ------------------------------
(***************************************************************************)
(* The reporting pipeline (src/scripts): the reader of the captured events,*)
(* the profiles aggregated from them and the reports written from these.   *)
(* Two actors run its jobs: the scheduler in the proxy's process, and an   *)
(* operator (or cron) who starts the same scripts in another one.          *)
(*                                                                         *)
(* A statement is the list of columns extract_columns finds in it, an event*)
(* the place of a statement among all that SQL Server captured.  A text    *)
(* that inserts into a column and updates it names the column twice.  The  *)
(* raw files are the number of lines each event has in them.  A profile is *)
(* reduced to its count; nulls, which no code counts, values, suggestions  *)
(* and the SELECT summary are left out.                                    *)
(***************************************************************************)
EXTENDS Integers, Sequences, FiniteSets

CONSTANTS
    None,           \* no job, no such file
    Torn,           \* profiles that do not parse
    Fields,         \* table.column
    Statements,     \* what applications execute: lists of columns
    TopFields,      \* columns a daily report lists at most
    RingSize,       \* events SQL Server's ring buffer holds
    MaxEvents,      \* bound: statements captured
    MaxByHand,      \* bound: jobs the operator starts
    MaxRounds,      \* bound: rounds of the scheduler
    MaxFaults,      \* bound: jobs, or whole processes, that fail
    MaxDecisions    \* bound: decisions of the proxy

Scheduler == "scheduler"
Operator  == "operator"
Actors    == {Scheduler, Operator}

\* The order of run_scheduler's loop.
Jobs == <<"xevents", "aggregate", "report", "dryrun_report",
          "llm_summary", "llm_insights", "feedback">>
JobNames == {Jobs[i] : i \in DOMAIN Jobs}

Counts == [Fields -> Nat]
Zero   == [f \in Fields |-> 0]

\* What a report lists: the counts of some columns.
IsListing(d) == DOMAIN d \in SUBSET Fields /\ d \in [DOMAIN d -> Nat]

ASSUME ReportsAssumption ==
    /\ None \notin JobNames \cup Counts /\ Torn \notin Counts /\ None # Torn
    /\ \A some \in SUBSET Fields : None \notin [some -> Nat]
    /\ IsFiniteSet(Fields) /\ Statements \subseteq Seq(Fields)
    /\ TopFields \in Nat \ {0}
    /\ RingSize \in Nat \ {0} /\ MaxEvents \in Nat /\ MaxByHand \in Nat
    /\ MaxRounds \in Nat /\ MaxFaults \in Nat /\ MaxDecisions \in Nat

-----------------------------------------------------------------------------
VARIABLES
    captured,   \* the statements SQL Server captured, in order
    lines,      \* per event: its lines in data/xevents/raw
    profiles,   \* data/aggregations/field_profiles.json
    daily,      \* reports/report-*.md: the counts in it
    dryrun,     \* reports/dryrun-*.md: the decisions in it
    decided,    \* lines of the decision log
    job,        \* per actor: the job it runs
    at,         \* per actor: "read", "open" or "write", its place in the job
    batch,      \* per actor: the events its reader holds
    counts,     \* per actor: the counts its job holds
    byHand,     \* jobs the operator started
    rounds,     \* rounds the scheduler began
    reads,      \* history: readers that wrote lines
    clean,      \* history: no job of the scheduler's round failed, none ran beside it
    faults      \* failures so far

files == <<lines, profiles, daily, dryrun>>
local == <<job, at, batch, counts>>
hist  == <<byHand, rounds, reads, clean, faults>>
pipeline == <<captured, decided, files, local, hist>>

Events == DOMAIN captured

ReportsTypeOK ==
    /\ captured \in Seq(Statements) /\ Len(captured) <= MaxEvents
    /\ lines \in [Events -> Nat]
    /\ profiles \in Counts \cup {None, Torn} /\ (daily # None => IsListing(daily))
    /\ {dryrun, decided} \subseteq 0..MaxDecisions /\ dryrun <= decided
    /\ job \in [Actors -> JobNames \cup {None}]
    /\ at \in [Actors -> {"read", "open", "write"}]
    /\ batch \in [Actors -> SUBSET Events] /\ counts \in [Actors -> Counts]
    /\ \A a \in Actors : at[a] = "open" => job[a] = "aggregate"
    /\ byHand \in 0..MaxByHand /\ rounds \in 0..MaxRounds /\ reads \in Nat /\ faults \in 0..MaxFaults
    /\ clean \in BOOLEAN

ReportsInit ==
    /\ captured = <<>> /\ lines = <<>> /\ decided = 0
    /\ profiles = None /\ daily = None /\ dryrun = 0
    /\ job = [a \in Actors |-> None] /\ at = [a \in Actors |-> "read"]
    /\ batch = [a \in Actors |-> {}] /\ counts = [a \in Actors |-> Zero]
    /\ byHand = 0 /\ rounds = 0 /\ reads = 0 /\ clean = FALSE /\ faults = 0

-----------------------------------------------------------------------------
Runs(a, name, where) == job[a] = name /\ at[a] = where
GoTo(a, where) == at' = [at EXCEPT ![a] = where]

\* Mutant: the daily report is made before the profiles it is made from.
FollowingEarly(name) ==
    CASE name = "xevents"   -> "report"
      [] name = "report"    -> "aggregate"
      [] name = "aggregate" -> "dryrun_report"
      [] name = "feedback"  -> None
      [] OTHER -> Jobs[1 + CHOOSE i \in DOMAIN Jobs : Jobs[i] = name]

Following(name) ==
    LET i == CHOOSE k \in DOMAIN Jobs : Jobs[k] = name
    IN  IF i = Len(Jobs) THEN None ELSE Jobs[i + 1]

\* A job is over, with an exception or SystemExit perhaps, which _run_job catches: the
\* scheduler goes on with the next one, a script ends.
Done(a) ==
    /\ job' = [job EXCEPT ![a] = IF a = Scheduler THEN Following(@) ELSE None]
    /\ GoTo(a, "read")
    /\ batch' = [batch EXCEPT ![a] = {}]
    /\ counts' = [counts EXCEPT ![a] = Zero]

\* A script is started by hand, while the scheduler may be in a round.
StartByHand ==
    /\ job[Operator] = None /\ byHand < MaxByHand
    /\ \E name \in JobNames \ {"feedback"} : job' = [job EXCEPT ![Operator] = name]
    /\ GoTo(Operator, "read")
    /\ byHand' = byHand + 1 /\ clean' = FALSE
    /\ UNCHANGED <<captured, decided, files, batch, counts, rounds, reads, faults>>

\* run_scheduler's loop comes round: the jobs, one after the other.
StartRound ==
    /\ job[Scheduler] = None /\ rounds < MaxRounds
    /\ job' = [job EXCEPT ![Scheduler] = Jobs[1]]
    /\ rounds' = rounds + 1
    /\ clean' = (job[Operator] = None)
    /\ UNCHANGED <<captured, decided, files, at, batch, counts, byHand, reads, faults>>

\* SQL Server captures a statement, whatever the proxy is doing.
Capture ==
    /\ Len(captured) < MaxEvents
    /\ \E s \in Statements : captured' = Append(captured, s)
    /\ lines' = Append(lines, 0)
    /\ UNCHANGED <<decided, profiles, daily, dryrun, local, hist>>

-----------------------------------------------------------------------------
(***************************************************************************)
(* The jobs.                                                               *)
(***************************************************************************)
\* What the ring buffer still holds; no run removes anything from it.
Ring == {i \in Events : i > Len(captured) - RingSize}

ReadXevents(a) ==
    /\ Runs(a, "xevents", "read")
    /\ batch' = [batch EXCEPT ![a] = Ring]
    /\ GoTo(a, "write")
    /\ UNCHANGED <<captured, decided, files, job, counts, hist>>

AppendLines(some) == lines' = [i \in Events |-> lines[i] + IF i \in some THEN 1 ELSE 0]

SaveRaw(a) ==
    /\ Runs(a, "xevents", "write")
    /\ AppendLines(batch[a])
    /\ reads' = reads + 1
    /\ Done(a)
    /\ UNCHANGED <<captured, decided, profiles, daily, dryrun, byHand,
                   rounds, clean, faults>>

\* Where a column is named: in which event, and at which place of its statement.
Mentions(f) ==
    {m \in UNION {{i} \X DOMAIN captured[i] : i \in Events} : captured[m[1]][m[2]] = f}

\* Each line of an event is read, and each place that names the column in it counts.
CountOf(f) == Cardinality(UNION {{m} \X (1..lines[m[1]]) : m \in Mentions(f)})

\* Mutant: the lines are added to the profiles there are.
TallyAdded ==
    [f \in Fields |-> CountOf(f) + IF profiles \in {None, Torn} THEN 0 ELSE profiles[f]]

\* Every line of every raw file, each run from nothing.
Tally == [f \in Fields |-> CountOf(f)]

AggregateRead(a) ==
    /\ Runs(a, "aggregate", "read")
    /\ counts' = [counts EXCEPT ![a] = Tally]
    /\ GoTo(a, "open")
    /\ UNCHANGED <<captured, decided, files, job, batch, hist>>

AggregateOpen(a) ==
    /\ Runs(a, "aggregate", "open")
    /\ profiles' = Torn
    /\ GoTo(a, "write")
    /\ UNCHANGED <<captured, decided, lines, daily, dryrun,
                   job, batch, counts, hist>>

\* Written over what the other actor may have written since the file was opened.
AggregateDump(a) ==
    /\ Runs(a, "aggregate", "write")
    /\ profiles' \in {counts[a]} \cup
                     (IF profiles \in {Torn, counts[a]} THEN {} ELSE {Torn})
    /\ Done(a)
    /\ UNCHANGED <<captured, decided, lines, daily, dryrun, hist>>

DailyRead(a) ==
    /\ Runs(a, "report", "read") /\ profiles \notin {None, Torn}
    /\ counts' = [counts EXCEPT ![a] = profiles]
    /\ GoTo(a, "write")
    /\ UNCHANGED <<captured, decided, files, job, batch, hist>>

\* The ranking is by nulls, which are all the same: the first columns of the file, whose
\* order is not kept here.  A column without a count may be there for a suggestion.
DailyWrite(a) ==
    /\ Runs(a, "report", "write")
    /\ \E top \in SUBSET Fields :
           /\ Cardinality(top) <= TopFields
           /\ Cardinality(top) = TopFields \/ \A f \in Fields \ top : counts[a][f] = 0
           /\ daily' = [f \in top |-> counts[a][f]]
    /\ Done(a)
    /\ UNCHANGED <<captured, decided, lines, profiles, dryrun, hist>>

\* No daily report from profiles that are missing or do not parse, and no summary
\* from ones that do not parse.
NothingToRead(a) ==
    /\ \/ Runs(a, "report", "read") /\ profiles \in {None, Torn}
       \/ Runs(a, "llm_summary", "read") /\ profiles = Torn
    /\ Done(a)
    /\ clean' = (clean /\ a # Scheduler)
    /\ UNCHANGED <<captured, decided, files, byHand, rounds, reads, faults>>

\* The decisions of the day, read and written in one step.
DryrunReport(a) ==
    /\ Runs(a, "dryrun_report", "read")
    /\ dryrun' = decided
    /\ Done(a)
    /\ UNCHANGED <<captured, decided, lines, profiles, daily, hist>>

Wrote(a) == Done(a) /\ UNCHANGED <<captured, decided, files, hist>>

\* Nothing is summarised where there are no profiles; no job reads the summary.
LlmSummary(a) == Runs(a, "llm_summary", "read") /\ profiles # Torn /\ Wrote(a)

\* Profiles that are missing or torn count as none.
LlmInsights(a) == Runs(a, "llm_insights", "read") /\ Wrote(a)

\* The script the repository lacks here, as the stand-in of the scheduler's test.
Feedback(a) == Runs(a, "feedback", "read") /\ Wrote(a)

\* A job that is cut short has written some of its lines, and a file it had opened
\* stays truncated.
CutShort(a) ==
    /\ faults < MaxFaults /\ faults' = faults + 1
    /\ IF Runs(a, "xevents", "write")
          THEN reads' = reads + 1 /\ \E some \in SUBSET batch[a] : AppendLines(some)
          ELSE UNCHANGED <<reads, lines>>
    /\ clean' = (clean /\ a # Scheduler)
    /\ UNCHANGED <<captured, decided, profiles, daily, dryrun, byHand, rounds>>

\* No driver, no session, no disk.
JobFails(a) == job[a] # None /\ CutShort(a) /\ Done(a)

\* The actor's process dies, in the middle of a job or between two.
Killed(a) ==
    /\ CutShort(a)
    /\ job' = [job EXCEPT ![a] = None]
    /\ GoTo(a, "read")
    /\ batch' = [batch EXCEPT ![a] = {}] /\ counts' = [counts EXCEPT ![a] = Zero]

\* The proxy logs a decision.
Decide ==
    /\ decided < MaxDecisions
    /\ decided' = decided + 1
    /\ UNCHANGED <<captured, files, local, hist>>

JobStep(a) ==
    \/ ReadXevents(a) \/ SaveRaw(a)
    \/ AggregateRead(a) \/ AggregateOpen(a) \/ AggregateDump(a)
    \/ DailyRead(a) \/ DailyWrite(a) \/ NothingToRead(a)
    \/ DryrunReport(a) \/ LlmSummary(a) \/ LlmInsights(a) \/ Feedback(a)

\* All but the beginning of a round and the end of the proxy's process, for which
\* Supervisor.tla says when they may come; the decisions come from there alone.
Pipeline ==
    \/ Capture \/ StartByHand \/ Killed(Operator)
    \/ \E a \in Actors : JobStep(a) \/ JobFails(a)

ReportsNext == Pipeline \/ StartRound \/ Killed(Scheduler)

ReportsSpec == ReportsInit /\ [][ReportsNext]_pipeline

-----------------------------------------------------------------------------
(***************************************************************************)
(* Properties.                                                             *)
(***************************************************************************)
(* A round of the scheduler in which no job fails, and beside which no script is run
   by hand, ends with a report that is up to date, whatever failed or was killed in an
   earlier round: every count it shows is of all the lines there are, those the round
   has just written among them, and a column that has lines is missing only where
   TopFields others are shown.  No job reads what another one has still to write. *)
FreshReport ==
    job[Scheduler] = "feedback" /\ clean =>
        /\ daily # None
        /\ \A f \in DOMAIN daily : daily[f] = Tally[f]
        /\ \A f \in Fields \ DOMAIN daily :
               Tally[f] > 0 => Cardinality(DOMAIN daily) = TopFields

(* However often the ring buffer is read again, whoever reads it and whichever
   job fails half way, the report counts each mention of a column in an event at
   most once for each run of the reader. *)
ReportBounded ==
    daily # None =>
        \A f \in DOMAIN daily : daily[f] <= reads * Cardinality(Mentions(f))
=============================================================================
