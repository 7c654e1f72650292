--------------------------- MODULE ReportsProofs ---------------------------
(***************************************************************************)
(* Theorems about the reporting pipeline, for every set of columns and     *)
(* statements, every ring buffer and every bound.                          *)
(*                                                                         *)
(* The steps are those of the pipeline and the proxy's decisions, so that  *)
(* SupervisorProofs can use every lemma for the process as a whole.        *)
(***************************************************************************)
EXTENDS Reports, FiniteSetTheorems, SequenceTheorems, TLAPS

PipelineStep == ReportsNext \/ Decide

-----------------------------------------------------------------------------
(***************************************************************************)
(* The order of the jobs.                                                  *)
(***************************************************************************)
(* The scheduler runs seven jobs, in this order and each once. *)
LEMMA JobsAre ==
    /\ JobNames = {"xevents", "aggregate", "report", "dryrun_report",
                   "llm_summary", "llm_insights", "feedback"}
    /\ DOMAIN Jobs = 1..7 /\ Len(Jobs) = 7
    /\ None \notin JobNames
<1>1. DOMAIN Jobs = 1..7 /\ Len(Jobs) = 7
  BY DEF Jobs
<1>2. JobNames = {Jobs[1], Jobs[2], Jobs[3], Jobs[4], Jobs[5], Jobs[6], Jobs[7]}
  BY <1>1 DEF JobNames
<1> QED
  BY <1>1, <1>2, ReportsAssumption DEF Jobs

(* The job that comes after each, and none after the last. *)
LEMMA FollowingIs ==
    /\ Following("xevents") = "aggregate"
    /\ Following("aggregate") = "report"
    /\ Following("report") = "dryrun_report"
    /\ Following("dryrun_report") = "llm_summary"
    /\ Following("llm_summary") = "llm_insights"
    /\ Following("llm_insights") = "feedback"
    /\ Following("feedback") = None
<1> DEFINE place(name) == CHOOSE k \in DOMAIN Jobs : Jobs[k] = name
<1>1. \A i \in 1..7 : place(Jobs[i]) = i
  <2> SUFFICES ASSUME NEW i \in 1..7 PROVE place(Jobs[i]) = i
    OBVIOUS
  <2>1. \A k \in 1..7 : Jobs[k] = Jobs[i] => k = i
    BY DEF Jobs
  <2>2. place(Jobs[i]) \in DOMAIN Jobs /\ Jobs[place(Jobs[i])] = Jobs[i]
    BY JobsAre
  <2> QED
    BY <2>1, <2>2, JobsAre
<1>p. \A i \in 1..7 : Following(Jobs[i]) =
           IF place(Jobs[i]) = Len(Jobs) THEN None ELSE Jobs[place(Jobs[i]) + 1]
  BY DEF Following
<1> HIDE DEF place
<1>2. \A i \in 1..6 : Following(Jobs[i]) = Jobs[i + 1]
  BY <1>1, <1>p, JobsAre
<1>3. Following(Jobs[7]) = None
  BY <1>1, <1>p, JobsAre
<1>4. /\ Following(Jobs[1]) = Jobs[2] /\ Following(Jobs[2]) = Jobs[3]
      /\ Following(Jobs[3]) = Jobs[4] /\ Following(Jobs[4]) = Jobs[5]
      /\ Following(Jobs[5]) = Jobs[6] /\ Following(Jobs[6]) = Jobs[7]
  BY <1>2
<1> QED
  BY <1>3, <1>4 DEF Jobs

(* What follows a job of the list in run_scheduler is a job of it, or nothing. *)
LEMMA FollowingType ==
    ASSUME NEW name \in JobNames
    PROVE  Following(name) \in JobNames \cup {None}
BY JobsAre, FollowingIs

-----------------------------------------------------------------------------
(***************************************************************************)
(* The lines of the raw files and what a report may count.                 *)
(***************************************************************************)
\* No event has more lines than there were readers that wrote some.
LinesBounded == \A i \in Events : lines[i] <= reads

\* Counts that no more than the readers account for.
Within(c) == \A f \in DOMAIN c : c[f] <= reads * Cardinality(Mentions(f))

(* The places where events name a column are finitely many, so that counting them is
   defined. *)
LEMMA MentionsAre ==
    ASSUME NEW some \in Seq(Statements), NEW f
    PROVE  LET places == {m \in UNION {{i} \X DOMAIN some[i] : i \in DOMAIN some} :
                             some[m[1]][m[2]] = f}
           IN  IsFiniteSet(places) /\ Cardinality(places) \in Nat
<1> DEFINE At(i) == {i} \X DOMAIN some[i]
           all == UNION {At(i) : i \in DOMAIN some}
           places == {m \in all : some[m[1]][m[2]] = f}
<1>1. Len(some) \in Nat /\ DOMAIN some = 1..Len(some)
  BY LenProperties
<1>2. IsFiniteSet(DOMAIN some)
  BY <1>1, FS_Interval
<1>3. ASSUME NEW i \in DOMAIN some PROVE IsFiniteSet(At(i))
  <2>1. some[i] \in Seq(Fields)
    BY <1>1, ElementOfSeq, ReportsAssumption
  <2>2. Len(some[i]) \in Nat /\ DOMAIN some[i] = 1..Len(some[i])
    BY <2>1, LenProperties
  <2>3. IsFiniteSet(DOMAIN some[i])
    BY <2>2, FS_Interval
  <2>4. IsFiniteSet({i})
    BY FS_Singleton
  <2> QED
    BY <2>3, <2>4, FS_Product
<1>4. IsFiniteSet(all)
  <2> DEFINE each == {At(i) : i \in DOMAIN some}
           placing == [i \in DOMAIN some |-> At(i)]
  <2>1. IsFiniteSet(each)
    <3>1. placing \in Surjection(DOMAIN some, each)
      BY DEF Surjection
    <3> QED
      BY ONLY <1>2, <3>1, FS_Surjection
  <2>2. \A S \in each : IsFiniteSet(S)
    BY <1>3
  <2> HIDE DEF each, At
  <2>3. IsFiniteSet(UNION each)
    BY <2>1, <2>2, FS_UNION
  <2> QED
    BY <2>3 DEF each
<1>5. IsFiniteSet(places)
  <2> HIDE DEF all
  <2>1. places \subseteq all
    OBVIOUS
  <2> QED
    BY <1>4, <2>1, FS_Subset
<1> QED
  BY <1>5, FS_CardinalityType

(* So are those of the events captured. *)
LEMMA MentionsFinite ==
    ASSUME ReportsTypeOK, NEW f
    PROVE  IsFiniteSet(Mentions(f)) /\ Cardinality(Mentions(f)) \in Nat
BY MentionsAre DEF ReportsTypeOK, Mentions, Events

(* A column counts once for each reader and each mention of it, at most. *)
LEMMA CountOfBounded ==
    ASSUME ReportsTypeOK, LinesBounded, NEW f \in Fields
    PROVE  CountOf(f) \in Nat /\ CountOf(f) <= reads * Cardinality(Mentions(f))
<1> DEFINE some == UNION {{m} \X (1..lines[m[1]]) : m \in Mentions(f)}
           most == Mentions(f) \X (1..reads)
<1>1. reads \in Nat /\ lines \in [Events -> Nat]
  BY DEF ReportsTypeOK
<1>2. IsFiniteSet(1..reads) /\ Cardinality(1..reads) = reads
  BY <1>1, FS_Interval
<1>3. /\ IsFiniteSet(most)
      /\ Cardinality(most) = Cardinality(Mentions(f)) * reads
  BY <1>2, MentionsFinite, FS_Product
<1>4. some \subseteq most
  <2> SUFFICES ASSUME NEW m \in Mentions(f), NEW l \in {m} \X (1..lines[m[1]])
               PROVE  l \in Mentions(f) \X (1..reads)
    OBVIOUS
  <2>1. m[1] \in Events
    BY DEF Mentions
  <2>2. lines[m[1]] \in Nat /\ lines[m[1]] <= reads
    BY <1>1, <2>1 DEF LinesBounded
  <2>3. 1..lines[m[1]] \subseteq 1..reads
    BY <1>1, <2>2
  <2> QED
    BY <2>3
<1>5. IsFiniteSet(some) /\ Cardinality(some) <= Cardinality(most)
  <2> HIDE DEF some, most
  <2> QED
    BY <1>3, <1>4, FS_Subset
<1>6. Cardinality(some) \in Nat
  BY <1>5, FS_CardinalityType
<1>7. Cardinality(Mentions(f)) * reads = reads * Cardinality(Mentions(f))
  BY <1>1, MentionsFinite
<1> QED
  BY <1>3, <1>5, <1>6, <1>7 DEF CountOf

(* The profiles made from nothing are counts, and within the bound. *)
LEMMA TallyWithin ==
    ASSUME ReportsTypeOK, LinesBounded
    PROVE  Tally \in Counts /\ Within(Tally)
BY CountOfBounded DEF Tally, Counts, Within

(* A run of aggregate_profiles.py that has read nothing is within the bound of ReportBounded. *)
LEMMA ZeroWithin ==
    ASSUME ReportsTypeOK
    PROVE  Zero \in Counts /\ Within(Zero)
<1>1. reads \in Nat
  BY DEF ReportsTypeOK
<1>2. \A f \in Fields : reads * Cardinality(Mentions(f)) >= 0
  BY <1>1, MentionsFinite
<1> QED
  BY <1>2 DEF Zero, Counts, Within

(* More readers, or more events, account for no less. *)
LEMMA ProductMonotone ==
    ASSUME NEW a \in Nat, NEW b \in Nat, NEW c \in Nat, NEW d \in Nat, a <= c, b <= d
    PROVE  a * b <= c * d
<1>1. PICK x \in Nat : c = a + x
  <2>1. c - a \in Nat /\ c = a + (c - a)
    OBVIOUS
  <2> QED
    BY <2>1
<1>2. PICK y \in Nat : d = b + y
  <2>1. d - b \in Nat /\ d = b + (d - b)
    OBVIOUS
  <2> QED
    BY <2>1
<1>3. c * d = a * b + (a * y + x * b + x * y)
  BY <1>1, <1>2
<1>4. a * y \in Nat /\ x * b \in Nat /\ x * y \in Nat /\ a * b \in Nat
  OBVIOUS
<1> QED
  BY <1>3, <1>4

(* A count within the bound stays within it: neither the number of reads nor the
   events captured ever become fewer. *)
LEMMA WithinKept ==
    ASSUME ReportsTypeOK, ReportsTypeOK', reads <= reads',
           \A f : Mentions(f) \subseteq Mentions(f)',
           NEW c, IsListing(c), Within(c)
    PROVE  \A f \in DOMAIN c : c[f] <= reads' * Cardinality(Mentions(f)')
<1> SUFFICES ASSUME NEW f \in DOMAIN c
             PROVE  c[f] <= reads' * Cardinality(Mentions(f)')
  OBVIOUS
<1> DEFINE n == Cardinality(Mentions(f))
           m == Cardinality(Mentions(f)')
<1>1. IsFiniteSet(Mentions(f)') /\ m \in Nat /\ n \in Nat
  <2>1. IsFiniteSet(Mentions(f)) /\ n \in Nat
    BY MentionsFinite
  <2>2. captured' \in Seq(Statements)
    BY DEF ReportsTypeOK
  <2>3. IsFiniteSet(Mentions(f)') /\ m \in Nat
    BY <2>2, MentionsAre DEF Mentions, Events
  <2> QED
    BY <2>1, <2>3
<1>2. n <= m
  BY <1>1, FS_Subset
<1>3. reads \in Nat /\ reads' \in Nat /\ c[f] \in Nat
  BY DEF ReportsTypeOK, IsListing
<1>4. reads * n <= reads' * m
  BY <1>1, <1>2, <1>3, ProductMonotone
<1>5. c[f] <= reads * n
  BY DEF Within
<1>6. reads * n \in Int /\ reads' * m \in Int
  BY <1>1, <1>3
<1> QED
  BY <1>3, <1>4, <1>5, <1>6

-----------------------------------------------------------------------------
(***************************************************************************)
(* Type correctness.                                                       *)
(***************************************************************************)
(* A job that is over leaves the actor's variables well typed. *)
LEMMA DoneType ==
    ASSUME ReportsTypeOK, NEW a \in Actors, job[a] # None, Done(a), UNCHANGED captured
    PROVE  /\ job' \in [Actors -> JobNames \cup {None}]
           /\ at' \in [Actors -> {"read", "open", "write"}]
           /\ batch' \in [Actors -> SUBSET Events'] /\ counts' \in [Actors -> Counts]
           /\ \A b \in Actors : at'[b] = "open" => job'[b] = "aggregate"
<1>1. job[a] \in JobNames
  BY DEF ReportsTypeOK
<1>2. (IF a = Scheduler THEN Following(job[a]) ELSE None) \in JobNames \cup {None}
  BY <1>1, FollowingType
<1>3. Zero \in Counts /\ Events' = Events
  BY DEF Zero, Counts, Events
<1> QED
  BY <1>2, <1>3 DEF Done, GoTo, ReportsTypeOK

(* A process that dies leaves them so, too. *)
LEMMA KilledType ==
    ASSUME ReportsTypeOK, NEW a \in Actors, Killed(a)
    PROVE  /\ job' \in [Actors -> JobNames \cup {None}]
           /\ at' \in [Actors -> {"read", "open", "write"}]
           /\ batch' \in [Actors -> SUBSET Events'] /\ counts' \in [Actors -> Counts]
           /\ \A b \in Actors : at'[b] = "open" => job'[b] = "aggregate"
<1>1. Zero \in Counts /\ Events' = Events
  BY DEF Zero, Counts, Events, Killed, CutShort
<1> QED
  BY <1>1 DEF Killed, GoTo, ReportsTypeOK

(* Lines that are appended are a line more of some events, and no line without a
   reader that wrote it. *)
LEMMA AppendLinesBounded ==
    ASSUME ReportsTypeOK, LinesBounded, NEW some, AppendLines(some), reads' = reads + 1,
           UNCHANGED captured
    PROVE  lines' \in [Events' -> Nat] /\ LinesBounded'
<1>1. /\ reads \in Nat /\ lines \in [Events -> Nat] /\ Events' = Events
      /\ \A i \in Events : lines[i] \in Nat /\ lines[i] <= reads
  BY DEF ReportsTypeOK, LinesBounded, Events
<1>2. \A i \in Events : /\ lines'[i] = lines[i] + IF i \in some THEN 1 ELSE 0
                        /\ lines'[i] \in Nat /\ lines'[i] <= reads + 1
  BY <1>1 DEF AppendLines
<1> QED
  BY <1>1, <1>2 DEF AppendLines, LinesBounded

(* What a failure leaves alone, and what it may append. *)
LEMMA CutShortType ==
    ASSUME ReportsTypeOK, LinesBounded, NEW a \in Actors, CutShort(a)
    PROVE  /\ lines' \in [Events' -> Nat] /\ LinesBounded'
           /\ reads' \in Nat /\ faults' \in 0..MaxFaults /\ clean' \in BOOLEAN
<1>1. faults' \in 0..MaxFaults /\ clean' \in BOOLEAN
  BY ReportsAssumption DEF CutShort, ReportsTypeOK
<1>2. Events' = Events /\ reads' \in Nat
  BY DEF CutShort, ReportsTypeOK, Events
<1>3. CASE Runs(a, "xevents", "write")
  <2>1. PICK some : AppendLines(some) /\ reads' = reads + 1 /\ UNCHANGED captured
    BY <1>3 DEF CutShort
  <2> QED
    BY <1>1, <1>2, <2>1, AppendLinesBounded
<1>4. CASE ~Runs(a, "xevents", "write")
  BY <1>1, <1>2, <1>4 DEF CutShort, ReportsTypeOK, LinesBounded
<1> QED
  BY <1>3, <1>4

(* The files a deployment starts with are well typed and hold no line. *)
LEMMA ReportsInitType == ReportsInit => ReportsTypeOK /\ LinesBounded
<1> SUFFICES ASSUME ReportsInit PROVE ReportsTypeOK /\ LinesBounded
  OBVIOUS
<1>1. captured \in Seq(Statements) /\ Len(captured) = 0 /\ Events = {}
  BY EmptySeq DEF ReportsInit, Events
<1>2. lines \in [Events -> Nat]
  BY <1>1 DEF ReportsInit
<1>3. Zero \in Counts
  BY DEF Zero, Counts
<1>4. /\ job \in [Actors -> JobNames \cup {None}]
      /\ at \in [Actors -> {"read", "open", "write"}]
      /\ batch \in [Actors -> SUBSET Events] /\ counts \in [Actors -> Counts]
      /\ \A a \in Actors : at[a] # "open"
  BY <1>3 DEF ReportsInit
<1>5. 0 \in 0..MaxDecisions /\ 0 \in 0..MaxByHand /\ 0 \in 0..MaxRounds
      /\ 0 \in 0..MaxFaults /\ 0 <= MaxEvents
  BY ReportsAssumption
<1>6. LinesBounded
  BY <1>1 DEF LinesBounded
<1>7. Len(captured) <= MaxEvents
  BY <1>1, <1>5
<1>8. /\ profiles = None /\ daily = None /\ dryrun = 0 /\ decided = 0
      /\ byHand = 0 /\ rounds = 0 /\ reads = 0 /\ faults = 0 /\ clean = FALSE
  BY DEF ReportsInit
<1>9. /\ {dryrun, decided} \subseteq 0..MaxDecisions /\ dryrun <= decided
      /\ byHand \in 0..MaxByHand /\ rounds \in 0..MaxRounds /\ reads \in Nat
      /\ faults \in 0..MaxFaults
  BY <1>5, <1>8
<1> QED
  BY <1>1, <1>2, <1>4, <1>6, <1>7, <1>8, <1>9 DEF ReportsTypeOK

(* A captured event is a new one, without lines. *)
LEMMA CaptureType ==
    ASSUME ReportsTypeOK, LinesBounded, Capture
    PROVE  ReportsTypeOK' /\ LinesBounded'
<1>1. PICK s \in Statements : captured' = Append(captured, s)
  BY DEF Capture
<1>2. /\ captured' \in Seq(Statements) /\ Len(captured') = Len(captured) + 1
      /\ Len(captured) \in Nat
      /\ Events = 1..Len(captured) /\ Events' = 1..(Len(captured) + 1)
  BY <1>1, AppendProperties, LenProperties DEF ReportsTypeOK, Events
<1>3. lines \in Seq(Nat) /\ Len(lines) = Len(captured)
  BY <1>2, LenProperties DEF ReportsTypeOK
<1>4. /\ lines' \in [Events' -> Nat]
      /\ \A i \in Events : lines'[i] = lines[i]
      /\ lines'[Len(captured) + 1] = 0
  <2>1. lines' = Append(lines, 0) /\ 0 \in Nat
    BY DEF Capture
  <2>2. /\ lines' \in Seq(Nat) /\ Len(lines') = Len(lines) + 1
        /\ \A i \in 1..Len(lines) : lines'[i] = lines[i]
        /\ lines'[Len(lines) + 1] = 0
    BY <1>3, <2>1, AppendProperties
  <2>3. lines' \in [1..Len(lines') -> Nat]
    BY <2>2, LenProperties
  <2> QED
    BY <1>2, <1>3, <2>2, <2>3
<1>5. LinesBounded'
  BY <1>2, <1>4 DEF LinesBounded, Capture, hist, ReportsTypeOK
<1>6. Len(captured') <= MaxEvents
  BY <1>2, ReportsAssumption DEF Capture
<1>7. Events \subseteq Events'
  BY <1>2
<1> QED
  BY <1>2, <1>4, <1>5, <1>6, <1>7 DEF ReportsTypeOK, Capture, local, hist

(* No job, failure or death takes a file of the pipeline out of its type, and a line is
   appended at most once by each run of the reader. *)
LEMMA ReportsStepType ==
    ASSUME ReportsTypeOK, LinesBounded, [PipelineStep]_pipeline
    PROVE  ReportsTypeOK' /\ LinesBounded'
<1> USE DEF GoTo
<1>0. (captured' = captured) => Events' = Events
  BY DEF Events
<1>1. CASE Capture
  BY <1>1, CaptureType
<1>2. CASE StartByHand
  <2>1. byHand' \in 0..MaxByHand
    BY <1>2, ReportsAssumption DEF StartByHand, ReportsTypeOK
  <2> QED
    BY <1>0, <1>2, <2>1 DEF StartByHand, ReportsTypeOK, LinesBounded, files, Actors
<1>3. CASE StartRound
  <2>1. rounds' \in 0..MaxRounds
    BY <1>3, ReportsAssumption DEF StartRound, ReportsTypeOK
  <2>2. Jobs[1] \in JobNames /\ (at[Scheduler] = "open" => job[Scheduler] = "aggregate")
    BY JobsAre DEF JobNames, ReportsTypeOK, Actors
  <2>3. None # "aggregate"
    BY JobsAre
  <2> QED
    BY <1>0, <1>3, <2>1, <2>2, <2>3 DEF StartRound, ReportsTypeOK, LinesBounded, files, Actors
<1>4. CASE Decide
  BY <1>0, <1>4, ReportsAssumption
     DEF Decide, ReportsTypeOK, LinesBounded, files, local, hist
<1>5. ASSUME NEW a \in Actors, Killed(a) PROVE ReportsTypeOK' /\ LinesBounded'
  BY <1>5, KilledType, CutShortType DEF Killed, CutShort, ReportsTypeOK
<1>6. ASSUME NEW a \in Actors, JobFails(a) PROVE ReportsTypeOK' /\ LinesBounded'
  <2>1. job[a] # None /\ CutShort(a) /\ Done(a)
    BY <1>6 DEF JobFails
  <2> QED
    BY <2>1, DoneType, CutShortType DEF CutShort, ReportsTypeOK
<1>7. ASSUME NEW a \in Actors, JobStep(a) PROVE ReportsTypeOK' /\ LinesBounded'
  <2>0. \A where : \A name \in JobNames : Runs(a, name, where) => job[a] # None
    BY JobsAre DEF Runs
  <2>1. CASE ReadXevents(a)
    <3>1. Ring \subseteq Events /\ Events' = Events
      BY <2>1, <1>0 DEF Ring, ReadXevents
    <3> QED
      BY <2>1, <3>1 DEF ReadXevents, Runs, ReportsTypeOK, LinesBounded, files, hist
  <2>2. CASE SaveRaw(a)
    <3>1. job[a] # None
      BY <2>2, JobsAre DEF SaveRaw, Runs
    <3>2. lines' \in [Events' -> Nat] /\ LinesBounded'
      BY <2>2, AppendLinesBounded DEF SaveRaw
    <3> QED
      BY <2>2, <3>1, <3>2, DoneType DEF SaveRaw, ReportsTypeOK
  <2>3. CASE AggregateRead(a)
    BY <1>0, <2>3, TallyWithin DEF AggregateRead, Runs, ReportsTypeOK, LinesBounded, files, hist
  <2>4. CASE AggregateOpen(a)
    BY <1>0, <2>4 DEF AggregateOpen, Runs, ReportsTypeOK, LinesBounded, hist
  <2>5. CASE AggregateDump(a)
    <3>1. job[a] # None
      BY <2>5, JobsAre DEF AggregateDump, Runs
    <3> QED
      BY <1>0, <2>5, <3>1, DoneType DEF AggregateDump, ReportsTypeOK, LinesBounded, hist
  <2>6. CASE DailyRead(a)
    BY <1>0, <2>6 DEF DailyRead, Runs, ReportsTypeOK, LinesBounded, files, hist
  <2>7. CASE DailyWrite(a)
    <3>1. job[a] # None
      BY <2>7, JobsAre DEF DailyWrite, Runs
    <3>2. IsListing(daily')
      <4>1. PICK top \in SUBSET Fields : daily' = [f \in top |-> counts[a][f]]
        BY <2>7 DEF DailyWrite
      <4>2. \A f \in top : counts[a][f] \in Nat
        BY DEF ReportsTypeOK, Counts
      <4> QED
        BY <4>1, <4>2 DEF IsListing
    <3>3. captured' = captured /\ Done(a)
      BY <2>7 DEF DailyWrite
    <3>4. UNCHANGED <<decided, lines, profiles, dryrun, byHand, rounds, reads, clean, faults>>
      BY <2>7 DEF DailyWrite, hist
    <3> QED
      BY <1>0, <3>1, <3>2, <3>3, <3>4, DoneType DEF ReportsTypeOK, LinesBounded
  <2>8. CASE NothingToRead(a)
    <3>1. job[a] # None
      BY <2>8, JobsAre DEF NothingToRead, Runs
    <3> QED
      BY <1>0, <2>8, <3>1, DoneType DEF NothingToRead, ReportsTypeOK, LinesBounded, files
  <2>9. CASE DryrunReport(a)
    <3>1. job[a] # None
      BY <2>9, JobsAre DEF DryrunReport, Runs
    <3>2. dryrun' \in 0..MaxDecisions
      BY <2>9 DEF DryrunReport, ReportsTypeOK
    <3> QED
      BY <1>0, <2>9, <3>1, <3>2, DoneType DEF DryrunReport, ReportsTypeOK, LinesBounded, hist
  <2>10. CASE LlmSummary(a) \/ LlmInsights(a) \/ Feedback(a)
    <3>1. job[a] # None /\ Wrote(a)
      BY <2>10, JobsAre DEF LlmSummary, LlmInsights, Feedback, Runs
    <3> QED
      BY <1>0, <3>1, DoneType DEF Wrote, ReportsTypeOK, LinesBounded, files, hist
  <2> QED
    BY <1>7, <2>1, <2>2, <2>3, <2>4, <2>5, <2>6, <2>7, <2>8, <2>9, <2>10 DEF JobStep
<1>8. CASE UNCHANGED pipeline
  BY <1>0, <1>8 DEF pipeline, files, local, hist, ReportsTypeOK, LinesBounded
<1> QED
  BY <1>1, <1>2, <1>3, <1>4, <1>5, <1>6, <1>7, <1>8
     DEF PipelineStep, ReportsNext, Pipeline, Actors

(* Every variable of the pipeline keeps its type. *)
THEOREM ReportsTypeCorrect == ReportsSpec => []ReportsTypeOK
<1> DEFINE Inv == ReportsTypeOK /\ LinesBounded
<1>1. ReportsInit => Inv
  BY ReportsInitType
<1>2. Inv /\ [ReportsNext]_pipeline => Inv'
  BY ReportsStepType DEF PipelineStep
<1> QED
  BY <1>1, <1>2, PTL DEF ReportsSpec

-----------------------------------------------------------------------------
(***************************************************************************)
(* No count exceeds what the readers account for.                          *)
(***************************************************************************)
CountsBounded ==
    /\ profiles \in Counts => Within(profiles)
    /\ daily # None => Within(daily)
    /\ \A a \in Actors : Within(counts[a])

(* Where the numbers of a step come from: a job tallies the raw files or reads the
   profiles, and writes what it holds. *)
LEMMA NumbersStep ==
    ASSUME ReportsTypeOK, [PipelineStep]_pipeline
    PROVE  /\ reads <= reads'
           /\ profiles' \in {profiles, Torn} \cup {counts[a] : a \in Actors}
           /\ \/ daily' = daily
              \/ \E a \in Actors, top \in SUBSET Fields : daily' = [f \in top |-> counts[a][f]]
           /\ \A b \in Actors :
                  \/ counts'[b] \in {counts[b], Zero, Tally}
                  \/ counts'[b] = profiles /\ profiles \notin {None, Torn}
<1> USE DEF ReportsTypeOK
<1>1. CASE Capture \/ StartByHand \/ StartRound \/ Decide \/ UNCHANGED pipeline
  BY <1>1 DEF Capture, StartByHand, StartRound, Decide, pipeline, files, local, hist
<1>2. ASSUME NEW a \in Actors, Killed(a) PROVE
             /\ reads <= reads'
             /\ profiles' = profiles /\ daily' = daily
             /\ \A b \in Actors : counts'[b] \in {counts[b], Zero}
  BY <1>2 DEF Killed, CutShort
<1>3. ASSUME NEW a \in Actors, JobFails(a) PROVE
             /\ reads <= reads'
             /\ profiles' = profiles /\ daily' = daily
             /\ \A b \in Actors : counts'[b] \in {counts[b], Zero}
  BY <1>3 DEF JobFails, CutShort, Done
<1>4. ASSUME NEW a \in Actors, JobStep(a) PROVE
             /\ reads <= reads'
             /\ profiles' \in {profiles, Torn, counts[a]}
             /\ \/ daily' = daily
                \/ \E top \in SUBSET Fields : daily' = [f \in top |-> counts[a][f]]
             /\ \A b \in Actors :
                    \/ counts'[b] \in {counts[b], Zero, Tally}
                    \/ counts'[b] = profiles /\ profiles \notin {None, Torn}
  <2>1. CASE ReadXevents(a) \/ SaveRaw(a)
    BY <2>1 DEF ReadXevents, SaveRaw, Done, files, hist
  <2>2. CASE AggregateRead(a) \/ AggregateOpen(a) \/ AggregateDump(a)
    BY <2>2 DEF AggregateRead, AggregateOpen, AggregateDump, Done, files, hist
  <2>3. CASE DailyRead(a) \/ DailyWrite(a) \/ NothingToRead(a)
    BY <2>3 DEF DailyRead, DailyWrite, NothingToRead, Done, files, hist
  <2>4. CASE DryrunReport(a) \/ LlmSummary(a) \/ LlmInsights(a) \/ Feedback(a)
    BY <2>4 DEF DryrunReport, LlmSummary, LlmInsights, Feedback, Wrote, Done, files, hist
  <2> QED
    BY <1>4, <2>1, <2>2, <2>3, <2>4 DEF JobStep
<1>5. Operator \in Actors /\ Scheduler \in Actors
  BY DEF Actors
<1> QED
  BY <1>1, <1>2, <1>3, <1>4, <1>5 DEF PipelineStep, ReportsNext, Pipeline

(* No event disappears, and none changes. *)
LEMMA MentionsKept ==
    ASSUME ReportsTypeOK, [PipelineStep]_pipeline, NEW f
    PROVE  Mentions(f) \subseteq Mentions(f)'
<1>1. CASE Capture
  <2>1. PICK s \in Statements : captured' = Append(captured, s)
    BY <1>1 DEF Capture
  <2>2. /\ Events = 1..Len(captured) /\ Events' = 1..(Len(captured) + 1)
        /\ Len(captured) \in Nat
        /\ \A i \in Events : captured'[i] = captured[i]
    BY <2>1, AppendProperties, LenProperties DEF ReportsTypeOK, Events
  <2> QED
    BY <2>2 DEF Mentions
<1>2. CASE UNCHANGED captured
  BY <1>2 DEF Mentions, Events
<1>3. Capture \/ UNCHANGED captured
  BY DEF PipelineStep, ReportsNext, Pipeline, StartByHand, StartRound, Decide, Killed,
         CutShort, JobFails, JobStep, ReadXevents, SaveRaw, AggregateRead,
         AggregateOpen, AggregateDump, DailyRead, DailyWrite, NothingToRead,
         DryrunReport, LlmSummary, LlmInsights, Feedback, Wrote, pipeline
<1> QED
  BY <1>1, <1>2, <1>3

(* No job writes profiles or a report with more than the reads account for. *)
LEMMA CountsBoundedStep ==
    ASSUME ReportsTypeOK, LinesBounded, CountsBounded, [PipelineStep]_pipeline
    PROVE  CountsBounded'
<1>1. ReportsTypeOK'
  BY ReportsStepType
<1>2. /\ reads <= reads'
      /\ profiles' \in {profiles, Torn} \cup {counts[a] : a \in Actors}
      /\ \/ daily' = daily
         \/ \E a \in Actors, top \in SUBSET Fields : daily' = [f \in top |-> counts[a][f]]
      /\ \A b \in Actors :
             \/ counts'[b] \in {counts[b], Zero, Tally}
             \/ counts'[b] = profiles /\ profiles \notin {None, Torn}
  BY NumbersStep
<1>3. \A c : IsListing(c) /\ Within(c) =>
                 \A f \in DOMAIN c : c[f] <= reads' * Cardinality(Mentions(f)')
  <2>1. \A f : Mentions(f) \subseteq Mentions(f)'
    BY MentionsKept
  <2> QED
    BY <1>1, <1>2, <2>1, WithinKept
<1>c. \A c \in Counts : IsListing(c) /\ DOMAIN c = Fields
  BY DEF Counts, IsListing
<1>4. \A a \in Actors : counts[a] \in Counts /\ Within(counts[a])
  BY DEF ReportsTypeOK, CountsBounded
<1>5. \A c \in {Zero, Tally} : c \in Counts /\ Within(c)
  BY ZeroWithin, TallyWithin
<1>6. profiles \notin {None, Torn} => profiles \in Counts /\ Within(profiles)
  BY DEF ReportsTypeOK, CountsBounded
<1>7. Torn \notin Counts /\ None \notin Counts
  BY ReportsAssumption
<1>8. profiles' \in Counts => Within(profiles)'
  BY <1>2, <1>3, <1>c, <1>4, <1>6, <1>7 DEF Within
<1>9. daily' # None => Within(daily)'
  <2>1. CASE daily' = daily
    BY <1>3, <2>1 DEF Within, CountsBounded, ReportsTypeOK
  <2>2. ASSUME NEW a \in Actors, NEW top \in SUBSET Fields,
               daily' = [f \in top |-> counts[a][f]]
        PROVE  Within(daily)'
    <3>1. \A f \in Fields : counts[a][f] <= reads' * Cardinality(Mentions(f)')
      BY <1>3, <1>c, <1>4
    <3> QED
      BY <2>2, <3>1 DEF Within
  <2> QED
    BY <1>2, <2>1, <2>2
<1>10. ASSUME NEW a \in Actors PROVE Within(counts[a])'
  <2>1. counts'[a] \in Counts /\ Within(counts'[a])
    BY <1>2, <1>4, <1>5, <1>6
  <2> QED
    BY <1>3, <1>c, <2>1 DEF Within
<1> QED
  BY <1>8, <1>9, <1>10 DEF CountsBounded

(* Before the first job there is nothing that could be too much. *)
LEMMA CountsBoundedInit == ReportsInit => CountsBounded
<1> SUFFICES ASSUME ReportsInit PROVE CountsBounded
  OBVIOUS
<1>1. ReportsTypeOK
  BY ReportsInitType
<1> QED
  BY <1>1, ZeroWithin, ReportsAssumption DEF ReportsInit, CountsBounded

(* The daily report counts each mention of a column in an event at most once for each
   run of the reader: aggregate_profiles.py starts from nothing every time, and a job
   that fails half way appends no line twice. *)
THEOREM ReportIsBounded == ReportsSpec => []ReportBounded
<1> DEFINE Inv == ReportsTypeOK /\ LinesBounded /\ CountsBounded
<1>1. ReportsInit => Inv
  BY ReportsInitType, CountsBoundedInit
<1>2. Inv /\ [ReportsNext]_pipeline => Inv'
  BY ReportsStepType, CountsBoundedStep DEF PipelineStep
<1>3. Inv => ReportBounded
  BY DEF CountsBounded, Within, ReportBounded
<1> QED
  BY <1>1, <1>2, <1>3, PTL DEF ReportsSpec

-----------------------------------------------------------------------------
(***************************************************************************)
(* What a round of the scheduler that goes well has done so far.           *)
(***************************************************************************)
AfterAggregate == {"report", "dryrun_report", "llm_summary", "llm_insights", "feedback"}

\* A report of these counts: all of them, or as many as a report has room for.
Shows(c) ==
    /\ daily # None
    /\ \A f \in DOMAIN daily : daily[f] = c[f]
    /\ \A f \in Fields \ DOMAIN daily : c[f] > 0 => Cardinality(DOMAIN daily) = TopFields

RoundInOrder ==
    clean =>
        /\ job[Operator] = None
        /\ job[Scheduler] = "aggregate" /\ at[Scheduler] # "read" => counts[Scheduler] = Tally
        /\ Runs(Scheduler, "aggregate", "write") => profiles = Torn
        /\ job[Scheduler] \in AfterAggregate => profiles = Tally
        /\ Runs(Scheduler, "report", "write") => counts[Scheduler] = Tally
        /\ job[Scheduler] \in AfterAggregate \ {"report"} => Shows(Tally)

(* An event that has just been captured has no lines yet. *)
LEMMA CaptureKeepsTally ==
    ASSUME ReportsTypeOK, Capture
    PROVE  Tally' = Tally
<1>1. PICK s \in Statements : captured' = Append(captured, s)
  BY DEF Capture
<1>2. /\ Len(captured) \in Nat
      /\ Events = 1..Len(captured) /\ Events' = 1..(Len(captured) + 1)
      /\ \A i \in Events : captured'[i] = captured[i]
  BY <1>1, AppendProperties, LenProperties DEF ReportsTypeOK, Events
<1>3. lines \in Seq(Nat) /\ Len(lines) = Len(captured)
  BY <1>2, LenProperties DEF ReportsTypeOK
<1>4. /\ \A i \in Events : lines'[i] = lines[i]
      /\ lines'[Len(captured) + 1] = 0
  <2>1. lines' = Append(lines, 0) /\ 0 \in Nat
    BY DEF Capture
  <2> QED
    BY <1>2, <1>3, <2>1, AppendProperties
<1>5. ASSUME NEW f PROVE CountOf(f)' = CountOf(f)
  <2> DEFINE new == Len(captured) + 1
             Read(m) == {m} \X (1..lines[m[1]])
             Reads(m) == {m} \X (1..lines'[m[1]])
  <2>1. /\ \A m \in Mentions(f)' : m \in Mentions(f) \/ m[1] = new
        /\ \A m \in Mentions(f) : m \in Mentions(f)' /\ m[1] \in Events
    BY <1>2 DEF Mentions
  <2>2. \A m : m[1] = new => Reads(m) = {}
    BY <1>4
  <2>3. \A m \in Mentions(f) : Reads(m) = Read(m)
    BY <1>4, <2>1
  <2>4. UNION {Reads(m) : m \in Mentions(f)'} = UNION {Read(m) : m \in Mentions(f)}
    <3> HIDE DEF Read, Reads, new
    <3> QED
      BY <2>1, <2>2, <2>3
  <2> QED
    BY <2>4 DEF CountOf
<1> QED
  BY <1>5 DEF Tally

(* What aggregate_profiles.py would count depends on the raw files alone. *)
LEMMA TallyKept ==
    ASSUME UNCHANGED <<captured, lines>>
    PROVE  Tally' = Tally
BY DEF Tally, CountOf, Mentions, Events

(* Neither a failing job of the operator's nor the end of its process disturbs a
   round it does not run beside. *)
LEMMA RoundInOrderStep ==
    ASSUME ReportsTypeOK, RoundInOrder, [PipelineStep]_pipeline
    PROVE  RoundInOrder'
<1> SUFFICES ASSUME clean' PROVE RoundInOrder'
  BY DEF RoundInOrder
<1> USE DEF GoTo
<1>0. /\ Scheduler \in Actors /\ Operator \in Actors /\ Scheduler # Operator
      /\ Actors = {Scheduler, Operator}
  BY DEF Actors, Scheduler, Operator
<1>j. None \notin JobNames /\ AfterAggregate \cup {"xevents", "aggregate"} = JobNames
  BY JobsAre DEF AfterAggregate
<1>1. CASE Capture
  BY <1>1, CaptureKeepsTally DEF Capture, RoundInOrder, Shows, Runs, local, hist
<1>2. CASE StartByHand
  BY <1>2 DEF StartByHand
<1>3. CASE StartRound
  <2>1. job'[Operator] = None /\ job'[Scheduler] = "xevents"
    BY <1>0, <1>3 DEF StartRound, ReportsTypeOK, Jobs
  <2> QED
    BY <2>1 DEF RoundInOrder, Runs, AfterAggregate
<1>4. CASE Decide
  BY <1>4, TallyKept DEF Decide, RoundInOrder, Shows, Runs, files, local, hist
<1>5. CASE Killed(Operator)
  <2>1. clean /\ job[Operator] = None
    BY <1>5 DEF Killed, CutShort, RoundInOrder
  <2>2. ~Runs(Operator, "xevents", "write")
    BY <2>1, <1>j DEF Runs
  <2>3. /\ UNCHANGED <<captured, lines, profiles, daily>>
        /\ job'[Scheduler] = job[Scheduler] /\ at'[Scheduler] = at[Scheduler]
        /\ counts'[Scheduler] = counts[Scheduler] /\ job'[Operator] = None
    BY <1>0, <1>5, <2>2 DEF Killed, CutShort, ReportsTypeOK
  <2> QED
    BY <2>1, <2>3, TallyKept DEF RoundInOrder, Shows, Runs
<1>6. CASE Killed(Scheduler)
  BY <1>6 DEF Killed, CutShort
<1>7. ASSUME NEW a \in Actors, JobFails(a) \/ JobStep(a) PROVE RoundInOrder'
  <2>1. clean
    BY <1>7 DEF JobFails, CutShort, JobStep, ReadXevents, SaveRaw, AggregateRead,
         AggregateOpen, AggregateDump, DailyRead, DailyWrite, NothingToRead,
         DryrunReport, LlmSummary, LlmInsights, Feedback, Wrote, hist
  <2>2. job[Operator] = None
    BY <2>1 DEF RoundInOrder
  <2>3. job[a] # None
    BY <1>7, <1>j DEF JobFails, JobStep, ReadXevents, SaveRaw, AggregateRead,
         AggregateOpen, AggregateDump, DailyRead, DailyWrite, NothingToRead,
         DryrunReport, LlmSummary, LlmInsights, Feedback, Runs, AfterAggregate
  <2>4. a = Scheduler
    BY <1>0, <2>2, <2>3
  <2>5. ~JobFails(a) /\ ~NothingToRead(a)
    BY <2>4 DEF JobFails, NothingToRead, CutShort
  <2> DEFINE Over == /\ job'[Scheduler] = Following(job[Scheduler]) /\ at'[Scheduler] = "read"
                     /\ job'[Operator] = None
             Goes == /\ job'[Scheduler] = job[Scheduler] /\ job'[Operator] = None
  <2>6. Done(a) => Over
    BY <1>0, <2>2, <2>4 DEF Done, ReportsTypeOK
  <2>7. UNCHANGED job => Goes
    BY <2>2
  <2> HIDE DEF Over, Goes
  <2>8. CASE ReadXevents(a)
    BY <2>4, <2>7, <2>8 DEF ReadXevents, Goes, Runs, RoundInOrder, AfterAggregate
  <2>9. CASE SaveRaw(a)
    <3>1. Over /\ job[Scheduler] = "xevents"
      BY <2>4, <2>6, <2>9 DEF SaveRaw, Runs
    <3> QED
      BY <3>1, FollowingIs DEF Over, Runs, RoundInOrder, AfterAggregate
  <2>10. CASE AggregateRead(a)
    <3>1. Goes /\ job[Scheduler] = "aggregate" /\ at'[Scheduler] = "open"
      BY <1>0, <2>4, <2>7, <2>10 DEF AggregateRead, Runs, ReportsTypeOK
    <3>2. counts'[Scheduler] = Tally
      BY <1>0, <2>4, <2>10 DEF AggregateRead, ReportsTypeOK
    <3>3. UNCHANGED <<captured, lines>>
      BY <2>10 DEF AggregateRead, files
    <3> QED
      BY <3>1, <3>2, <3>3, TallyKept DEF Goes, Runs, RoundInOrder, AfterAggregate
  <2>11. CASE AggregateOpen(a)
    <3>1. Goes /\ job[Scheduler] = "aggregate" /\ at[Scheduler] = "open"
      BY <1>0, <2>4, <2>7, <2>11 DEF AggregateOpen, Runs
    <3>2. UNCHANGED <<captured, lines, counts>> /\ profiles' = Torn
      BY <2>11 DEF AggregateOpen
    <3> QED
      BY <2>1, <3>1, <3>2, TallyKept DEF Goes, Runs, RoundInOrder, AfterAggregate
  <2>12. CASE AggregateDump(a)
    <3>1. Over /\ Runs(Scheduler, "aggregate", "write")
      BY <2>4, <2>6, <2>12 DEF AggregateDump
    <3>2. counts[Scheduler] = Tally /\ profiles = Torn
      BY <2>1, <3>1 DEF RoundInOrder, Runs
    <3>3. UNCHANGED <<captured, lines>> /\ profiles' = Tally
      BY <2>4, <2>12, <3>2 DEF AggregateDump
    <3> QED
      BY <3>1, <3>3, FollowingIs, TallyKept DEF Over, Runs, RoundInOrder, AfterAggregate
  <2>13. CASE DailyRead(a)
    <3>1. Goes /\ job[Scheduler] = "report" /\ profiles = Tally
      BY <2>1, <2>4, <2>7, <2>13 DEF DailyRead, Runs, RoundInOrder, AfterAggregate
    <3>2. counts'[Scheduler] = profiles
      BY <1>0, <2>4, <2>13 DEF DailyRead, ReportsTypeOK
    <3>3. UNCHANGED <<captured, lines, profiles>>
      BY <2>13 DEF DailyRead, files
    <3> QED
      BY <3>1, <3>2, <3>3, TallyKept DEF Goes, Runs, RoundInOrder, AfterAggregate
  <2>14. CASE DailyWrite(a)
    <3>1. Over /\ Runs(Scheduler, "report", "write")
      BY <2>4, <2>6, <2>14 DEF DailyWrite
    <3>2. counts[Scheduler] = Tally /\ profiles = Tally
      BY <2>1, <3>1 DEF RoundInOrder, Runs, AfterAggregate
    <3>3. UNCHANGED <<captured, lines, profiles>> /\ Shows(Tally)'
      <4>1. PICK top \in SUBSET Fields :
                /\ Cardinality(top) <= TopFields
                /\ Cardinality(top) = TopFields \/ \A f \in Fields \ top : Tally[f] = 0
                /\ daily' = [f \in top |-> Tally[f]]
        BY <2>4, <2>14, <3>2 DEF DailyWrite
      <4>2. UNCHANGED <<captured, lines, profiles>>
        BY <2>14 DEF DailyWrite
      <4>3. daily' # None
        <5>1. \A f \in top : Tally[f] \in Nat
          BY <3>2, <1>0 DEF ReportsTypeOK, Counts
        <5>2. daily' \in [top -> Nat]
          BY <4>1, <5>1
        <5> QED
          BY <5>2, ReportsAssumption
      <4>4. DOMAIN daily' = top /\ Tally' = Tally
        BY <4>1, <4>2, TallyKept
      <4> QED
        BY <4>1, <4>2, <4>3, <4>4 DEF Shows
    <3> QED
      BY <3>1, <3>2, <3>3, FollowingIs, TallyKept DEF Over, Runs, RoundInOrder, AfterAggregate
  <2>15. CASE DryrunReport(a) \/ LlmSummary(a) \/ LlmInsights(a) \/ Feedback(a)
    <3>1. Over /\ UNCHANGED <<captured, lines, profiles, daily>>
      BY <2>6, <2>15 DEF DryrunReport, LlmSummary, LlmInsights, Feedback, Wrote, files
    <3>2. job[Scheduler] \in AfterAggregate \ {"report"}
      BY <2>4, <2>15 DEF DryrunReport, LlmSummary, LlmInsights, Feedback, Runs, AfterAggregate
    <3>3. Following(job[Scheduler]) \in {"llm_summary", "llm_insights", "feedback", None}
      <4>1. \/ job[Scheduler] = "dryrun_report" \/ job[Scheduler] = "llm_summary"
            \/ job[Scheduler] = "llm_insights" \/ job[Scheduler] = "feedback"
        BY <3>2 DEF AfterAggregate
      <4> QED
        BY <4>1, FollowingIs
    <3>4. profiles = Tally /\ Shows(Tally)
      BY <2>1, <3>2 DEF RoundInOrder
    <3>5. Shows(Tally)'
      BY <3>1, <3>4, TallyKept DEF Shows
    <3> QED
      BY <1>j, <3>1, <3>3, <3>4, <3>5, TallyKept DEF Over, Runs, RoundInOrder, AfterAggregate
  <2> QED
    BY <1>7, <2>5, <2>8, <2>9, <2>10, <2>11, <2>12, <2>13, <2>14, <2>15 DEF JobStep
<1>8. CASE UNCHANGED pipeline
  BY <1>8, TallyKept DEF pipeline, files, local, hist, RoundInOrder, Shows, Runs
<1> QED
  BY <1>1, <1>2, <1>3, <1>4, <1>5, <1>6, <1>7, <1>8 DEF PipelineStep, ReportsNext, Pipeline

(* The round's last job finds a report whose counts are of all the lines there are, and
   which is full if it lacks a column: the jobs of run_scheduler come in the order in
   which each needs what another one writes. *)
THEOREM ReportIsFresh == ReportsSpec => []FreshReport
<1> DEFINE Inv == ReportsTypeOK /\ LinesBounded /\ RoundInOrder
<1>1. ReportsInit => Inv
  BY ReportsInitType DEF ReportsInit, RoundInOrder
<1>2. Inv /\ [ReportsNext]_pipeline => Inv'
  BY ReportsStepType, RoundInOrderStep DEF PipelineStep
<1>3. Inv => FreshReport
  BY DEF RoundInOrder, Shows, AfterAggregate, FreshReport
<1> QED
  BY <1>1, <1>2, <1>3, PTL DEF ReportsSpec
=============================================================================
