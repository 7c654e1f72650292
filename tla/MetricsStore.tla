---------------------------- MODULE MetricsStore ----------------------------
(***************************************************************************)
(* The counters' file and the decision log (src/metrics), their writers and*)
(* their readers.  The proxy counts on its event loop, one decision after  *)
(* the other; scripts/replay_dryrun.py and operators' one-liners count in  *)
(* processes of their own, on the same file.  The API reads both in        *)
(* threads of the proxy's process.  _lock excludes the threads of one      *)
(* process only.                                                           *)
(*                                                                         *)
(* A counter's key is <<rule, action>>, with None for a counter that is not*)
(* a rule's.  A key the file does not have reads as 0 and is modelled so.  *)
(* A file that is open for writing, or that two processes have written at  *)
(* once, does not parse; _read takes it for one without counters.          *)
(***************************************************************************)
EXTENDS Integers, Sequences, FiniteSets, FiniteSetsExt

CONSTANTS
    None,           \* no rule
    RuleIds,        \* ids of the rules in force
    Events,         \* decisions the engine makes: [rule, action]
    Tools,          \* other processes that count
    Torn,           \* content of a file that does not parse
    MaxFaults,      \* bound: processes that die and accesses to a file that fail
    MaxDay,         \* bound: days the model runs
    Limit,          \* lines /decisions and the dashboards read at most
    MaxWork         \* bound: per process, the decisions or events it counts

Days    == 1..MaxDay
Proxy   == "proxy"
Procs   == {Proxy} \cup Tools
Sides   == {"proxy", "tools"}
Side(p) == IF p = Proxy THEN "proxy" ELSE "tools"
Actions == {"allow", "block", "autocorrect"}
Keys    == (RuleIds \cup {None}) \X Actions
Counts  == [Keys -> Nat]
Zero    == [k \in Keys |-> 0]
Entries == [rule : RuleIds \cup {None}, action : Actions, day : Days]

ASSUME StoreAssumption ==
    /\ None \notin RuleIds /\ Proxy \notin Tools /\ Torn \notin Counts
    /\ Events \subseteq [rule : RuleIds \cup {None}, action : Actions]
    /\ MaxFaults \in Nat /\ Limit \in Nat /\ MaxDay \in Nat \ {0}
    /\ MaxWork \in [Procs -> Nat]

-----------------------------------------------------------------------------
VARIABLES
    file,       \* METRICS_PATH
    log,        \* DECISIONS_PATH
    day,        \* today
    lock,       \* per process: _lock is held across a step
    pc,         \* per process: its writer's place, "idle", "next", "open", "dump"
    todo,       \* per process: what its writer has still to do, in order
    data,       \* per process: data of inc
    work,       \* per process: decisions or events begun
    seen,       \* what the last GET /metrics answered
    rows,       \* what the GET /dryrun.json after it read
    asking,     \* the client has got /metrics and asks for /dryrun.json next
    counted,    \* history: the increments completed, the proxy's and the tools'
    raced,      \* history: two processes were inside inc at once
    faults,     \* deaths and failed accesses so far
    faulty      \* history: an access to the file failed, or a writer died in it

reader == <<seen, rows, asking>>
hist   == <<counted, raced, faults, faulty>>
vars   == <<file, log, day, lock, pc, todo, data, work, reader, hist>>

Op(do, key) == [do |-> do, key |-> key]
Ops == {Op("inc", k) : k \in Keys} \cup {Op("append", k) : k \in Keys}

TypeOK ==
    /\ file \in Counts \cup {Torn}
    /\ log \in Seq(Entries) /\ rows \in Seq(Entries)
    /\ day \in Days /\ work \in [Procs -> Nat]
    /\ lock \in [Procs -> BOOLEAN]
    /\ pc \in [Procs -> {"idle", "next", "open", "dump"}]
    /\ todo \in [Procs -> Seq(Ops)]
    /\ data \in [Procs -> Counts]
    /\ seen \in Counts /\ faults \in 0..MaxFaults /\ counted \in [Sides -> Counts]
    /\ asking \in BOOLEAN /\ raced \in BOOLEAN /\ faulty \in BOOLEAN

Init ==
    /\ file = Zero /\ log = <<>> /\ day = 1
    /\ lock = [p \in Procs |-> FALSE] /\ pc = [p \in Procs |-> "idle"]
    /\ todo = [p \in Procs |-> <<>>] /\ data = [p \in Procs |-> Zero]
    /\ work = [p \in Procs |-> 0]
    /\ seen = Zero /\ rows = <<>> /\ asking = FALSE
    /\ counted = [side \in Sides |-> Zero] /\ raced = FALSE
    /\ faults = 0 /\ faulty = FALSE

-----------------------------------------------------------------------------
(***************************************************************************)
(* The writers.                                                            *)
(***************************************************************************)
RuleHit(e) == IF e.rule = None THEN <<>> ELSE <<Op("inc", <<e.rule, e.action>>)>>

\* Mutant: the decision is logged after it was counted.
DecisionCountedFirst(e) ==
    RuleHit(e) \o <<Op("append", <<e.rule, e.action>>)>>

\* The pipe in log mode; in enforce mode one more counter follows a block.
Decision(e) == <<Op("append", <<e.rule, e.action>>)>> \o RuleHit(e)

\* simulate: the event's action, then its rule's; nothing is logged.
Simulated(e) == <<Op("inc", <<None, e.action>>)>> \o RuleHit(e)

Fault == faults < MaxFaults /\ faults' = faults + 1

Go(p, where) == pc' = [pc EXCEPT ![p] = where]

Begin(p) ==
    /\ pc[p] = "idle" /\ work[p] < MaxWork[p]
    /\ work' = [work EXCEPT ![p] = @ + 1]
    /\ \E e \in Events :
          todo' = [todo EXCEPT ![p] = IF p = Proxy THEN Decision(e) ELSE Simulated(e)]
    /\ Go(p, "next")
    /\ UNCHANGED <<file, log, day, lock, data, reader, hist>>

\* decisions.append: one line at the end of the file.
AppendLine(p) ==
    /\ pc[p] = "next" /\ todo[p] # <<>> /\ Head(todo[p]).do = "append"
    /\ log' = Append(log, [rule   |-> Head(todo[p]).key[1],
                           action |-> Head(todo[p]).key[2], day |-> day])
    /\ todo' = [todo EXCEPT ![p] = Tail(@)]
    /\ UNCHANGED <<file, day, lock, pc, data, work, reader, hist>>

\* Mutant: what does not parse is given back.
ContentAsFound == file

\* _read: whatever does not parse is a file without counters.
Content == IF file = Torn THEN Zero ELSE file

\* inc takes the lock, which only readers may hold meanwhile, for as long as
\* their own step takes; it reads and adds by = 1.  A read that fails counts as a
\* file without counters, too.
ReadCounters(p) ==
    /\ pc[p] = "next" /\ todo[p] # <<>> /\ Head(todo[p]).do = "inc"
    /\ lock' = [lock EXCEPT ![p] = TRUE]
    /\ \E broken \in BOOLEAN :
          /\ faulty' = (faulty \/ broken)
          /\ IF broken THEN Fault ELSE UNCHANGED faults
          /\ data' = [data EXCEPT ![p] = [(IF broken THEN Zero ELSE Content)
                                             EXCEPT ![Head(todo[p]).key] = @ + 1]]
    /\ Go(p, "open")
    /\ raced' = (raced \/ \E q \in Procs \ {p} : pc[q] \in {"open", "dump"})
    /\ UNCHANGED <<file, log, day, todo, work, reader, counted>>

Truncate(p) ==
    /\ pc[p] = "open"
    /\ file' = Torn
    /\ Go(p, "dump")
    /\ UNCHANGED <<log, day, lock, todo, data, work, reader, hist>>

\* Written over what another process may have written since the truncation.
Left(p) ==
    {data[p]} \cup (IF file \in {Torn, data[p]} THEN {} ELSE {Torn})

Completed(p) ==
    /\ todo' = [todo EXCEPT ![p] = Tail(@)]
    /\ counted' = [counted EXCEPT ![Side(p)][Head(todo[p]).key] = @ + 1]

\* Mutant: the counters as they were are written, and the new one is lost.
DumpOld(p) ==
    /\ pc[p] = "dump"
    /\ file' = [data[p] EXCEPT ![Head(todo[p]).key] = @ - 1]
    /\ lock' = [lock EXCEPT ![p] = FALSE]
    /\ data' = [data EXCEPT ![p] = Zero]
    /\ Completed(p)
    /\ Go(p, "next")
    /\ UNCHANGED <<log, day, work, reader, raced, faults, faulty>>

\* Mutant: the increment is made again.
DumpAgain(p) ==
    /\ pc[p] = "dump"
    /\ file' \in Left(p)
    /\ lock' = [lock EXCEPT ![p] = FALSE]
    /\ data' = [data EXCEPT ![p] = Zero]
    /\ Go(p, "next")
    /\ UNCHANGED <<log, day, todo, work, reader, hist>>

\* json.dump and the ends of both with statements.
Dump(p) ==
    /\ pc[p] = "dump"
    /\ file' \in Left(p)
    /\ lock' = [lock EXCEPT ![p] = FALSE]
    /\ data' = [data EXCEPT ![p] = Zero]
    /\ Completed(p)
    /\ Go(p, "next")
    /\ UNCHANGED <<log, day, work, reader, raced, faults, faulty>>

\* Mutant: a failing write keeps the lock.
FailLocked(p) ==
    /\ Fault
    /\ pc[p] \in {"open", "dump"} \/ (pc[p] = "next" /\ todo[p] # <<>>)
    /\ faulty' = (faulty \/ pc[p] = "dump")
    /\ todo' = [todo EXCEPT ![p] = <<>>]
    /\ Go(p, "idle")
    /\ UNCHANGED <<file, log, day, lock, data, work, reader, counted, raced>>

\* The log or the file cannot be written: the rest of the event's work is left
\* undone, in the pipe and in simulate.  A file that was truncated stays so.
Fail(p) ==
    /\ Fault
    /\ pc[p] \in {"open", "dump"} \/ (pc[p] = "next" /\ todo[p] # <<>>)
    /\ faulty' = (faulty \/ pc[p] = "dump")
    /\ lock' = [lock EXCEPT ![p] = FALSE]
    /\ todo' = [todo EXCEPT ![p] = <<>>]
    /\ data' = [data EXCEPT ![p] = Zero]
    /\ Go(p, "idle")
    /\ UNCHANGED <<file, log, day, work, reader, counted, raced>>

Finish(p) ==
    /\ pc[p] = "next" /\ todo[p] = <<>>
    /\ Go(p, "idle")
    /\ UNCHANGED <<file, log, day, lock, todo, data, work, reader, hist>>

Write(p) ==
    \/ AppendLine(p) \/ ReadCounters(p) \/ Truncate(p) \/ Dump(p) \/ Fail(p) \/ Finish(p)

\* The process dies, and its lock with it.
Crash(p) ==
    /\ Fault
    /\ faulty' = (faulty \/ pc[p] = "dump")
    /\ lock' = [lock EXCEPT ![p] = FALSE]
    /\ todo' = [todo EXCEPT ![p] = <<>>]
    /\ data' = [data EXCEPT ![p] = Zero]
    /\ Go(p, "idle")
    /\ UNCHANGED <<file, log, day, work, reader, counted, raced>>

-----------------------------------------------------------------------------
(***************************************************************************)
(* The API, asked for the counters and then for the decisions.             *)
(***************************************************************************)
\* Mutant: the counters are read without the lock, as get_rule_counters does.
GetMetricsUnlocked ==
    /\ ~asking
    /\ seen' = Content /\ asking' = TRUE /\ rows' = <<>>
    /\ UNCHANGED <<file, log, day, lock, pc, todo, data, work, hist>>

GetMetrics ==
    /\ ~asking /\ ~lock[Proxy]
    /\ asking' = TRUE /\ rows' = <<>>
    /\ \E broken \in BOOLEAN :
          /\ faulty' = (faulty \/ broken)
          /\ IF broken THEN Fault ELSE UNCHANGED faults
          /\ seen' = IF broken THEN Zero ELSE Content
    /\ UNCHANGED <<file, log, day, lock, pc, todo, data, work, counted, raced>>

\* decisions.tail.
Latest(limit) == SubSeq(log, Max({0, Len(log) - limit}) + 1, Len(log))

GetDecisions ==
    /\ rows' = Latest(Limit) /\ asking' = FALSE
    /\ UNCHANGED <<file, log, day, lock, pc, todo, data, work, seen, hist>>

Midnight ==
    /\ day + 1 \in Days
    /\ day' = day + 1
    /\ UNCHANGED <<file, log, lock, pc, todo, data, work, reader, hist>>

Next ==
    \/ \E p \in Procs : Begin(p) \/ Write(p) \/ Crash(p)
    \/ GetMetrics \/ GetDecisions \/ Midnight

\* What a writer has begun it goes on with; the lock is free between its steps.
Spec == Init /\ [][Next]_vars /\ \A p \in Procs : WF_vars(Write(p))

-----------------------------------------------------------------------------
(***************************************************************************)
(* Properties.                                                             *)
(***************************************************************************)
Total(k) == counted["proxy"][k] + counted["tools"][k]

Lines(some, k) == {i \in DOMAIN some : <<some[i].rule, some[i].action>> = k}

\* What /dryrun.json counts of a key on one day, from what tail gave it.
Dashboard(d, k) == {i \in Lines(rows, k) : rows[i].day = d}

(* As long as no two processes count at the same moment and no access to the
   file fails, no increment is lost, whoever makes it and whichever process dies
   between two increments. *)
CountersExact ==
    ~raced /\ ~faulty /\ (\A p \in Procs : pc[p] # "dump") =>
        \A k \in Keys : file # Torn /\ file[k] = Total(k)

(* Races, torn files, failing disks and deaths lose increments but never invent
   one: no counter is ahead of what was counted. *)
NeverInvented ==
    file # Torn => \A k \in Keys : file[k] <= Total(k)

(* The counters the API shows go back only when another process has the file
   open, counted at the same moment, or when an access to it failed. *)
MetricsNeverGoBack ==
    [][~raced' /\ ~faulty' /\ (\A t \in Tools : pc[t] # "dump") =>
          \A k \in Keys : seen'[k] >= seen[k]]_vars

(* Who reads the counters and then the dashboards finds every hit of a rule that
   the proxy counted among the decisions of some day, unless the log has grown
   to what tail reads at most: counters never get ahead of the log. *)
DashboardCovers ==
    ~asking /\ Len(rows) < Limit =>
        \A k \in RuleIds \X Actions :
            seen[k] <= Cardinality(UNION {Dashboard(d, k) : d \in Days}) + counted["tools"][k]

(* _lock is given back whatever happens in the file, so that the API can answer. *)
LockFreed == \A p \in Procs : lock[p] ~> ~lock[p]
=============================================================================
