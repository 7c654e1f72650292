------------------------- MODULE MetricsStoreProofs -------------------------
(***************************************************************************)
(* Theorems about the counters' file and the decision log, for every set   *)
(* of rules and events, every number of processes that count and every     *)
(* bound.                                                                  *)
(***************************************************************************)
EXTENDS MetricsStore, FiniteSetTheorems, SequenceTheorems, TLAPS

-----------------------------------------------------------------------------
(***************************************************************************)
(* What a writer has still to do.                                          *)
(***************************************************************************)
Inside(p) == pc[p] \in {"open", "dump"}

\* _lock is held exactly from the read to the end of the write, of an increment.
LockHeld ==
    \A p \in Procs :
        /\ lock[p] = TRUE <=> Inside(p)
        /\ Inside(p) => todo[p] # <<>> /\ Head(todo[p]).do = "inc"

\* The proxy logs a decision before it counts the same decision.
TodoShape ==
    todo[Proxy] # <<>> =>
        \E k \in Keys : todo[Proxy] \in {<<Op("append", k), Op("inc", k)>>,
                                         <<Op("append", k)>>, <<Op("inc", k)>>}

(* The operations of a decision, and of an event that is replayed. *)
LEMMA WorkIsOps ==
    ASSUME NEW e \in Events
    PROVE  Decision(e) \in Seq(Ops) /\ Simulated(e) \in Seq(Ops)
<1>1. e.action \in Actions /\ e.rule \in RuleIds \cup {None}
  BY StoreAssumption
<1>2. \A r \in RuleIds \cup {None}, do \in {"inc", "append"} : Op(do, <<r, e.action>>) \in Ops
  BY <1>1 DEF Ops, Keys
<1>3. RuleHit(e) \in Seq(Ops)
  BY <1>1, <1>2, EmptySeq DEF RuleHit
<1>4. <<Op("append", <<e.rule, e.action>>)>> \in Seq(Ops)
      /\ <<Op("inc", <<None, e.action>>)>> \in Seq(Ops)
  BY <1>1, <1>2
<1> QED
  BY <1>3, <1>4, ConcatProperties DEF Decision, Simulated

(* Two operations, one after the other. *)
LEMMA PairIsConcat ==
    ASSUME NEW a, NEW b
    PROVE  <<a>> \o <<b>> = <<a, b>> /\ <<a>> \o <<>> = <<a>>
<1> DEFINE s == <<a>>
           t == <<b>>
           u == <<a, b>>
<1>1. s \in Seq({a, b}) /\ t \in Seq({a, b}) /\ u \in Seq({a, b})
  OBVIOUS
<1>2. /\ Len(s) = 1 /\ Len(t) = 1 /\ Len(u) = 2
      /\ s[1] = a /\ t[1] = b /\ u[1] = a /\ u[2] = b
  OBVIOUS
<1>3. <<a>> \o <<>> = <<a>>
  OBVIOUS
<1> HIDE DEF s, t, u
<1>4. /\ s \o t \in Seq({a, b}) /\ Len(s \o t) = 2
      /\ (s \o t)[1] = s[1] /\ (s \o t)[2] = t[1]
  BY <1>1, <1>2, ConcatProperties
<1>5. s \o t = u
  BY <1>1, <1>2, <1>4, SeqEqual
<1> QED
  BY <1>3, <1>5 DEF s, t, u

(* A decision is logged, and then counted if a rule made it. *)
LEMMA DecisionShape ==
    ASSUME NEW e \in Events
    PROVE  \E k \in Keys : Decision(e) \in {<<Op("append", k), Op("inc", k)>>, <<Op("append", k)>>}
<1> DEFINE k == <<e.rule, e.action>>
<1>1. k \in Keys
  BY StoreAssumption DEF Keys
<1> HIDE DEF k
<1>2. RuleHit(e) \in {<<>>, <<Op("inc", k)>>}
  BY DEF RuleHit, k
<1>3. Decision(e) = <<Op("append", k)>> \o RuleHit(e)
  BY DEF Decision, k
<1>4. Decision(e) \in {<<Op("append", k)>> \o <<Op("inc", k)>>, <<Op("append", k)>> \o <<>>}
  BY <1>2, <1>3
<1>5. /\ <<Op("append", k)>> \o <<Op("inc", k)>> = <<Op("append", k), Op("inc", k)>>
      /\ <<Op("append", k)>> \o <<>> = <<Op("append", k)>>
  BY PairIsConcat
<1> QED
  BY <1>1, <1>4, <1>5

(* The first operation has a key, and what comes after it are operations. *)
LEMMA TodoParts ==
    ASSUME TypeOK, NEW p \in Procs, todo[p] # <<>>
    PROVE  /\ Head(todo[p]) \in Ops /\ Head(todo[p]).key \in Keys
           /\ Head(todo[p]).do \in {"inc", "append"}
           /\ Tail(todo[p]) \in Seq(Ops)
<1>1. todo[p] \in Seq(Ops)
  BY DEF TypeOK
<1>2. Head(todo[p]) \in Ops /\ Tail(todo[p]) \in Seq(Ops)
  BY <1>1, HeadTailProperties
<1> QED
  BY <1>2 DEF Ops, Op

(* What is left when the operation at hand is taken off. *)
LEMMA EntryType ==
    ASSUME TypeOK, NEW k \in Keys
    PROVE  [rule |-> k[1], action |-> k[2], day |-> day] \in Entries
BY DEF Keys, Entries, TypeOK

(* tail gives lines of the log, and all of them when they are fewer than it may. *)
LEMMA LatestType ==
    ASSUME TypeOK
    PROVE  /\ Latest(Limit) \in Seq(Entries)
           /\ Len(Latest(Limit)) < Limit => Latest(Limit) = log
<1> DEFINE n == Len(log)
           first == Max({0, n - Limit}) + 1
<1>1. log \in Seq(Entries) /\ n \in Nat /\ Limit \in Nat
  BY LenProperties, StoreAssumption DEF TypeOK
<1>2. Max({0, n - Limit}) = IF n > Limit THEN n - Limit ELSE 0
  BY <1>1 DEF Max
<1>3. first \in 1..(n + 1) /\ n - first + 1 = IF n > Limit THEN Limit ELSE n
  BY <1>1, <1>2
<1>4. /\ Latest(Limit) = SubSeq(log, first, n)
      /\ \A i \in first..n : log[i] \in Entries
  BY <1>1, <1>3, ElementOfSeq DEF Latest
<1> HIDE DEF n, first
<1>5. /\ Latest(Limit) \in Seq(Entries)
      /\ Len(Latest(Limit)) = IF first <= n THEN n - first + 1 ELSE 0
  BY <1>1, <1>3, <1>4, SubSeqProperties
<1>6. ASSUME Len(Latest(Limit)) < Limit PROVE Latest(Limit) = log
  <2>1. n <= Limit
    BY <1>1, <1>3, <1>5, <1>6
  <2>2. first = 1
    BY <1>1, <1>2, <2>1 DEF first
  <2> QED
    BY <1>1, <1>4, <2>2, SubSeqProperties DEF n
<1> QED
  BY <1>5, <1>6

-----------------------------------------------------------------------------
(***************************************************************************)
(* Type correctness.                                                       *)
(***************************************************************************)
(* Before the first increment nobody holds a lock or has anything to do. *)
LEMMA InitType == Init => TypeOK /\ LockHeld /\ TodoShape
<1> SUFFICES ASSUME Init PROVE TypeOK /\ LockHeld /\ TodoShape
  OBVIOUS
<1>1. Zero \in Counts
  BY DEF Zero, Counts
<1>2. log \in Seq(Entries) /\ rows \in Seq(Entries) /\ <<>> \in Seq(Ops)
  BY EmptySeq DEF Init
<1>3. day \in Days /\ 0 \in 0..MaxFaults
  BY StoreAssumption DEF Init, Days
<1>4. LockHeld
  BY DEF Init, LockHeld, Inside
<1>5. TodoShape
  BY DEF Init, TodoShape, Procs
<1>6. TypeOK
  BY <1>1, <1>2, <1>3 DEF Init, TypeOK
<1> QED
  BY <1>4, <1>5, <1>6

(* A fault is counted. *)
LEMMA FaultType ==
    ASSUME TypeOK, Fault
    PROVE  faults' \in 0..MaxFaults
BY StoreAssumption DEF Fault, TypeOK

(* The end of a writer's work, by a failure or a death. *)
LEMMA AbandonedType ==
    ASSUME TypeOK, LockHeld, TodoShape, NEW p \in Procs, Fail(p) \/ Crash(p)
    PROVE  TypeOK' /\ LockHeld' /\ TodoShape'
<1>1. /\ Fault
      /\ faulty' = (faulty \/ pc[p] = "dump")
      /\ lock' = [lock EXCEPT ![p] = FALSE]
      /\ todo' = [todo EXCEPT ![p] = <<>>]
      /\ data' = [data EXCEPT ![p] = Zero]
      /\ pc' = [pc EXCEPT ![p] = "idle"]
      /\ UNCHANGED <<file, log, day, work, reader, counted, raced>>
  BY DEF Fail, Crash, Go
<1>2. faults' \in 0..MaxFaults /\ faulty' \in BOOLEAN
  BY <1>1, FaultType
<1>3. Zero \in Counts /\ <<>> \in Seq(Ops)
  BY EmptySeq DEF Zero, Counts
<1>4. TypeOK'
  BY <1>1, <1>2, <1>3 DEF TypeOK, reader
<1>5. LockHeld'
  BY <1>1 DEF LockHeld, Inside, TypeOK
<1>6. TodoShape'
  BY <1>1 DEF TodoShape, TypeOK, Procs
<1> QED
  BY <1>4, <1>5, <1>6

(* Every step of inc, append and their readers keeps the types, holds a lock exactly
   inside inc, and leaves the proxy at an entry of the log or the increment behind it. *)
LEMMA StepType ==
    ASSUME TypeOK, LockHeld, TodoShape, [Next]_vars
    PROVE  TypeOK' /\ LockHeld' /\ TodoShape'
<1> USE DEF Go
<1>1. ASSUME NEW p \in Procs, Begin(p) PROVE TypeOK' /\ LockHeld' /\ TodoShape'
  <2>1. PICK e \in Events :
            todo' = [todo EXCEPT ![p] = IF p = Proxy THEN Decision(e) ELSE Simulated(e)]
    BY <1>1 DEF Begin
  <2>2. Decision(e) \in Seq(Ops) /\ Simulated(e) \in Seq(Ops)
    BY WorkIsOps
  <2>3. TypeOK'
    BY <1>1, <2>1, <2>2 DEF Begin, TypeOK, reader, hist
  <2>4. LockHeld'
    BY <1>1, <2>1 DEF Begin, LockHeld, Inside, TypeOK
  <2>5. \E k \in Keys : Decision(e) \in {<<Op("append", k), Op("inc", k)>>, <<Op("append", k)>>}
    BY DecisionShape
  <2>6. TodoShape'
    BY <2>1, <2>5 DEF TodoShape, TypeOK, Procs
  <2> QED
    BY <2>3, <2>4, <2>6
<1>2. ASSUME NEW p \in Procs, AppendLine(p) PROVE TypeOK' /\ LockHeld' /\ TodoShape'
  <2>1. Head(todo[p]).key \in Keys /\ Tail(todo[p]) \in Seq(Ops)
    BY <1>2, TodoParts DEF AppendLine
  <2>2. log' \in Seq(Entries)
    BY <1>2, <2>1, EntryType, AppendProperties DEF AppendLine, TypeOK
  <2>3. TypeOK'
    BY <1>2, <2>1, <2>2 DEF AppendLine, TypeOK, reader, hist
  <2>4. LockHeld'
    BY <1>2 DEF AppendLine, LockHeld, Inside, TypeOK
  <2>5. TodoShape'
    <3>1. CASE p = Proxy
      <4>1. PICK k \in Keys : todo[Proxy] \in {<<Op("append", k), Op("inc", k)>>, <<Op("append", k)>>}
        BY <1>2, <3>1 DEF AppendLine, TodoShape, Op
      <4>2. /\ Tail(<<Op("append", k), Op("inc", k)>>) = <<Op("inc", k)>>
            /\ Tail(<<Op("append", k)>>) = <<>>
        OBVIOUS
      <4> QED
        BY <1>2, <3>1, <4>1, <4>2 DEF AppendLine, TodoShape, TypeOK, Procs
    <3>2. CASE p # Proxy
      BY <1>2, <3>2 DEF AppendLine, TodoShape, TypeOK, Procs
    <3> QED
      BY <3>1, <3>2
  <2> QED
    BY <2>3, <2>4, <2>5
<1>3. ASSUME NEW p \in Procs, ReadCounters(p) PROVE TypeOK' /\ LockHeld' /\ TodoShape'
  <2>1. Head(todo[p]).key \in Keys
    BY <1>3, TodoParts DEF ReadCounters
  <2>2. PICK broken \in BOOLEAN :
            /\ faulty' = (faulty \/ broken)
            /\ IF broken THEN Fault ELSE UNCHANGED faults
            /\ data' = [data EXCEPT ![p] = [(IF broken THEN Zero ELSE Content)
                                               EXCEPT ![Head(todo[p]).key] = @ + 1]]
    BY <1>3 DEF ReadCounters
  <2>3. Zero \in Counts /\ Content \in Counts
    BY DEF Zero, Counts, Content, TypeOK
  <2>4. data' \in [Procs -> Counts]
    <3> DEFINE read == IF broken THEN Zero ELSE Content
               more == [read EXCEPT ![Head(todo[p]).key] = @ + 1]
    <3>1. read \in [Keys -> Nat]
      BY <2>3 DEF Counts
    <3> HIDE DEF read
    <3>2. more \in Counts
      BY <2>1, <3>1 DEF Counts
    <3>3. data' = [data EXCEPT ![p] = more]
      BY <2>2 DEF read
    <3> HIDE DEF more
    <3> QED
      BY <1>3, <3>2, <3>3 DEF TypeOK
  <2>5. faults' \in 0..MaxFaults /\ faulty' \in BOOLEAN
    BY <2>2, FaultType DEF TypeOK
  <2>6. raced' \in BOOLEAN
    BY <1>3 DEF ReadCounters, TypeOK
  <2>7. TypeOK'
    BY <1>3, <2>4, <2>5, <2>6 DEF ReadCounters, TypeOK, reader
  <2>8. LockHeld'
    BY <1>3 DEF ReadCounters, LockHeld, Inside, TypeOK
  <2> QED
    BY <1>3, <2>7, <2>8 DEF ReadCounters, TodoShape
<1>4. ASSUME NEW p \in Procs, Truncate(p) PROVE TypeOK' /\ LockHeld' /\ TodoShape'
  BY <1>4 DEF Truncate, TypeOK, LockHeld, Inside, TodoShape, reader, hist
<1>5. ASSUME NEW p \in Procs, Dump(p) PROVE TypeOK' /\ LockHeld' /\ TodoShape'
  <2>1. todo[p] # <<>> /\ Head(todo[p]).do = "inc"
    BY <1>5 DEF Dump, LockHeld, Inside
  <2>2. Head(todo[p]).key \in Keys /\ Tail(todo[p]) \in Seq(Ops)
    BY <2>1, TodoParts
  <2>3. file' \in Counts \cup {Torn}
    BY <1>5 DEF Dump, Left, TypeOK
  <2>4. counted' \in [Sides -> Counts]
    BY <1>5, <2>2, SMTT(20) DEF Dump, Completed, Side, Sides, Counts, TypeOK
  <2>5. Zero \in Counts
    BY DEF Zero, Counts
  <2>6. TypeOK'
    BY <1>5, <2>2, <2>3, <2>4, <2>5 DEF Dump, Completed, TypeOK, reader
  <2>7. LockHeld'
    BY <1>5 DEF Dump, Completed, LockHeld, Inside, TypeOK
  <2>8. TodoShape'
    <3>1. CASE p = Proxy
      <4>1. PICK k \in Keys : todo[Proxy] = <<Op("inc", k)>>
        BY <2>1, <3>1 DEF TodoShape, Op
      <4>2. Tail(todo[Proxy]) = <<>>
        BY <4>1
      <4> QED
        BY <1>5, <3>1, <4>2 DEF Dump, Completed, TodoShape, TypeOK, Procs
    <3>2. CASE p # Proxy
      BY <1>5, <3>2 DEF Dump, Completed, TodoShape, TypeOK, Procs
    <3> QED
      BY <3>1, <3>2
  <2> QED
    BY <2>6, <2>7, <2>8
<1>6. ASSUME NEW p \in Procs, Fail(p) \/ Crash(p) PROVE TypeOK' /\ LockHeld' /\ TodoShape'
  BY <1>6, AbandonedType
<1>7. ASSUME NEW p \in Procs, Finish(p) PROVE TypeOK' /\ LockHeld' /\ TodoShape'
  BY <1>7 DEF Finish, TypeOK, LockHeld, Inside, TodoShape, reader, hist
<1>8. CASE GetMetrics
  <2>1. PICK broken \in BOOLEAN :
            /\ faulty' = (faulty \/ broken)
            /\ IF broken THEN Fault ELSE UNCHANGED faults
            /\ seen' = IF broken THEN Zero ELSE Content
    BY <1>8 DEF GetMetrics
  <2>2. seen' \in Counts
    BY <2>1 DEF Zero, Counts, Content, TypeOK
  <2>3. faults' \in 0..MaxFaults /\ faulty' \in BOOLEAN
    BY <2>1, FaultType DEF TypeOK
  <2>4. rows' \in Seq(Entries) /\ asking' \in BOOLEAN
    BY <1>8, EmptySeq DEF GetMetrics
  <2> QED
    BY <1>8, <2>2, <2>3, <2>4 DEF GetMetrics, TypeOK, LockHeld, Inside, TodoShape
<1>9. CASE GetDecisions
  <2>1. rows' \in Seq(Entries)
    BY <1>9, LatestType DEF GetDecisions
  <2> QED
    BY <1>9, <2>1 DEF GetDecisions, TypeOK, LockHeld, Inside, TodoShape, hist
<1>10. CASE Midnight
  BY <1>10 DEF Midnight, TypeOK, LockHeld, Inside, TodoShape, reader, hist
<1>11. CASE UNCHANGED vars
  BY <1>11 DEF vars, TypeOK, LockHeld, Inside, TodoShape, reader, hist
<1> QED
  BY <1>1, <1>2, <1>3, <1>4, <1>5, <1>6, <1>7, <1>8, <1>9, <1>10, <1>11 DEF Next, Write

(* Every variable keeps its type; the lock is held inside an increment and nowhere
   else. *)
THEOREM TypeCorrect == Spec => []TypeOK
<1>1. TypeOK /\ LockHeld /\ TodoShape /\ [Next]_vars => (TypeOK /\ LockHeld /\ TodoShape)'
  BY StepType
<1> QED
  BY <1>1, InitType, PTL DEF Spec

-----------------------------------------------------------------------------
(***************************************************************************)
(* No counter is ahead of what was counted.                                *)
(***************************************************************************)
\* The increment a writer is about to complete.
Pending(p, k) == IF k = Head(todo[p]).key THEN 1 ELSE 0

AtMost ==
    /\ file # Torn => \A k \in Keys : file[k] <= Total(k)
    /\ \A k \in Keys : seen[k] <= Total(k)
    /\ \A p \in Procs : Inside(p) => \A k \in Keys : data[p][k] <= Total(k) + Pending(p, k)

(* The numbers are numbers. *)
LEMMA CountsAreNumbers ==
    ASSUME TypeOK, NEW k \in Keys
    PROVE  /\ Total(k) \in Nat /\ seen[k] \in Nat
           /\ counted["proxy"][k] \in Nat /\ counted["tools"][k] \in Nat
           /\ Content[k] \in Nat /\ (file # Torn => file[k] \in Nat)
           /\ \A p \in Procs : data[p][k] \in Nat
<1>1. counted["proxy"] \in Counts /\ counted["tools"] \in Counts
  BY DEF TypeOK, Sides
<1>2. Content \in Counts
  BY DEF Zero, Counts, Content, TypeOK
<1> QED
  BY <1>1, <1>2 DEF TypeOK, Counts, Total

(* A completed increment counts once, on its writer's side. *)
LEMMA CompletedTotal ==
    ASSUME TypeOK, LockHeld, NEW p \in Procs, Dump(p), NEW k \in Keys
    PROVE  /\ Head(todo[p]).key \in Keys
           /\ Total(k)' = Total(k) + Pending(p, k)
           /\ counted'["proxy"][k] = counted["proxy"][k]
                                         + IF p = Proxy THEN Pending(p, k) ELSE 0
           /\ counted'["tools"][k] >= counted["tools"][k]
<1>1. Head(todo[p]).key \in Keys
  BY TodoParts DEF Dump, LockHeld, Inside
<1>2. counted' = [counted EXCEPT ![Side(p)][Head(todo[p]).key] = @ + 1]
  BY DEF Dump, Completed
<1>3. counted["proxy"] \in Counts /\ counted["tools"] \in Counts /\ counted \in [Sides -> Counts]
  BY DEF TypeOK, Sides
<1>4. counted["proxy"][k] \in Nat /\ counted["tools"][k] \in Nat
  BY CountsAreNumbers
<1>5. CASE p = Proxy
  BY <1>1, <1>2, <1>3, <1>4, <1>5 DEF Side, Sides, Total, Pending, Counts
<1>6. CASE p # Proxy
  BY <1>1, <1>2, <1>3, <1>4, <1>6 DEF Side, Sides, Total, Pending, Counts
<1> QED
  BY <1>1, <1>5, <1>6

(* What inc reads, with the increment added. *)
LEMMA ReadAdds ==
    ASSUME TypeOK, NEW p \in Procs, ReadCounters(p), NEW k \in Keys
    PROVE  /\ data'[p][k] \in {Content[k] + Pending(p, k), Pending(p, k)}
           /\ ~faulty' => data'[p][k] = Content[k] + Pending(p, k)
           /\ \A q \in Procs \ {p} : data'[q] = data[q]
<1>1. PICK broken \in BOOLEAN :
          /\ faulty' = (faulty \/ broken)
          /\ data' = [data EXCEPT ![p] = [(IF broken THEN Zero ELSE Content)
                                             EXCEPT ![Head(todo[p]).key] = @ + 1]]
  BY DEF ReadCounters
<1>2. Head(todo[p]).key \in Keys
  BY TodoParts DEF ReadCounters
<1>3. Zero \in Counts /\ Content \in Counts /\ Zero[k] = 0
  BY DEF Zero, Counts, Content, TypeOK
<1>4. data'[p] = [(IF broken THEN Zero ELSE Content) EXCEPT ![Head(todo[p]).key] = @ + 1]
  BY <1>1 DEF TypeOK
<1>5. CASE broken
  <2>1. data'[p][k] = Pending(p, k)
    BY <1>2, <1>3, <1>4, <1>5 DEF Counts, Pending
  <2>2. faulty'
    BY <1>1, <1>5
  <2> QED
    BY <1>1, <2>1, <2>2 DEF TypeOK
<1>6. CASE ~broken
  <2>1. data'[p][k] = Content[k] + Pending(p, k)
    BY <1>2, <1>3, <1>4, <1>6 DEF Counts, Pending
  <2> QED
    BY <1>1, <2>1 DEF TypeOK
<1> QED
  BY <1>5, <1>6

\* The steps that change neither the numbers nor who is inside an increment.
Aside ==
    /\ UNCHANGED <<file, data, counted, seen>>
    /\ \A p \in Procs : (pc'[p] # pc[p] => pc[p] \notin {"open", "dump"} /\ pc'[p] \notin {"open", "dump"})
    /\ \A p \in Procs : Inside(p) => todo'[p] = todo[p]

(* What is not inside inc changes neither the file nor what is about to be written to it. *)
LEMMA StepsAside ==
    ASSUME TypeOK,
           \/ \E p \in Procs : Begin(p) \/ AppendLine(p) \/ Finish(p)
           \/ GetDecisions \/ Midnight \/ UNCHANGED vars
    PROVE  Aside /\ UNCHANGED <<raced, faults, faulty>>
<1> USE DEF Go
<1>1. ASSUME NEW p \in Procs, Begin(p) PROVE Aside /\ UNCHANGED <<raced, faults, faulty>>
  BY <1>1 DEF Begin, Aside, Inside, TypeOK, reader, hist
<1>2. ASSUME NEW p \in Procs, AppendLine(p) PROVE Aside /\ UNCHANGED <<raced, faults, faulty>>
  BY <1>2 DEF AppendLine, Aside, Inside, TypeOK, reader, hist
<1>3. ASSUME NEW p \in Procs, Finish(p) PROVE Aside /\ UNCHANGED <<raced, faults, faulty>>
  BY <1>3 DEF Finish, Aside, Inside, TypeOK, reader, hist
<1>4. CASE GetDecisions \/ Midnight \/ UNCHANGED vars
  BY <1>4 DEF GetDecisions, Midnight, vars, Aside, Inside, reader, hist
<1> QED
  BY <1>1, <1>2, <1>3, <1>4

(* A process that gives up leaves the file as it is. *)
LEMMA Abandons ==
    ASSUME TypeOK, NEW p \in Procs, Fail(p) \/ Crash(p)
    PROVE  /\ UNCHANGED <<file, counted, seen, raced>>
           /\ pc' = [pc EXCEPT ![p] = "idle"]
           /\ \A q \in Procs \ {p} : data'[q] = data[q] /\ todo'[q] = todo[q]
           /\ faulty' = (faulty \/ pc[p] = "dump")
BY DEF Fail, Crash, Go, TypeOK, reader

(* Reading, truncating and writing back one more than was read, torn or lost in any
   order by any number of processes, never makes a counter exceed the increments. *)
LEMMA AtMostStep ==
    ASSUME TypeOK, LockHeld, AtMost, [Next]_vars
    PROVE  AtMost'
<1> USE DEF Go
<1>0. (UNCHANGED counted) => \A k : Total(k)' = Total(k)
  BY DEF Total
<1>1. ASSUME Aside PROVE AtMost'
  <2>1. \A p \in Procs : Inside(p)' => Inside(p)
    BY <1>1 DEF Aside, Inside
  <2> QED
    BY <1>0, <1>1, <2>1 DEF Aside, AtMost, Pending
<1>2. ASSUME NEW p \in Procs, ReadCounters(p) PROVE AtMost'
  <2>1. UNCHANGED <<file, todo, seen, counted>>
    BY <1>2 DEF ReadCounters, reader
  <2>2. \A q \in Procs \ {p} : Inside(q)' => Inside(q)
    BY <1>2 DEF ReadCounters, Inside, TypeOK
  <2>3. \A k \in Keys : Content[k] <= Total(k) /\ Total(k) \in Nat /\ Content[k] \in Nat
    <3> SUFFICES ASSUME NEW k \in Keys PROVE Content[k] <= Total(k)
      BY CountsAreNumbers
    <3>1. CASE file = Torn
      BY <3>1, CountsAreNumbers DEF Content, Zero
    <3>2. CASE file # Torn
      BY <3>2 DEF Content, AtMost
    <3> QED
      BY <3>1, <3>2
  <2>4. \A k \in Keys : data'[p][k] <= Total(k) + Pending(p, k)
    <3> SUFFICES ASSUME NEW k \in Keys PROVE data'[p][k] <= Total(k) + Pending(p, k)
      OBVIOUS
    <3>1. data'[p][k] \in {Content[k] + Pending(p, k), Pending(p, k)}
      BY <1>2, ReadAdds
    <3>2. Pending(p, k) \in {0, 1}
      BY DEF Pending
    <3> QED
      BY <2>3, <3>1, <3>2
  <2>5. \A q \in Procs \ {p} : data'[q] = data[q]
    <3>1. PICK broken \in BOOLEAN :
              data' = [data EXCEPT ![p] = [(IF broken THEN Zero ELSE Content)
                                             EXCEPT ![Head(todo[p]).key] = @ + 1]]
      BY <1>2 DEF ReadCounters
    <3> QED
      BY <3>1 DEF TypeOK
  <2> QED
    BY <1>0, <2>1, <2>2, <2>4, <2>5 DEF AtMost, Pending
<1>3. ASSUME NEW p \in Procs, Truncate(p) PROVE AtMost'
  <2>1. /\ UNCHANGED <<todo, seen, counted, data>> /\ file' = Torn
        /\ \A q \in Procs : Inside(q)' = Inside(q)
    BY <1>3 DEF Truncate, reader, hist, Inside, TypeOK
  <2> QED
    BY <1>0, <2>1 DEF AtMost, Pending
<1>4. ASSUME NEW p \in Procs, Dump(p) PROVE AtMost'
  <2>1. /\ UNCHANGED seen /\ file' \in {data[p], Torn} /\ Inside(p)
        /\ ~Inside(p)' /\ \A q \in Procs \ {p} : Inside(q)' = Inside(q)
        /\ \A q \in Procs \ {p} : data'[q] = data[q] /\ todo'[q] = todo[q]
    BY <1>4 DEF Dump, Left, Completed, reader, Inside, TypeOK
  <2>2. \A k \in Keys : /\ Total(k)' = Total(k) + Pending(p, k)
                        /\ Total(k) \in Nat /\ Pending(p, k) \in {0, 1}
    BY <1>4, CompletedTotal, CountsAreNumbers DEF Pending
  <2>3. \A k \in Keys : data[p][k] <= Total(k)'
    BY <2>1, <2>2 DEF AtMost
  <2>4. \A k \in Keys : seen[k] \in Nat /\ seen[k] <= Total(k) /\ seen[k] <= Total(k)'
    <3> SUFFICES ASSUME NEW k \in Keys PROVE seen[k] \in Nat /\ seen[k] <= Total(k)'
                                             /\ seen[k] <= Total(k)
      OBVIOUS
    <3>1. seen[k] \in Nat /\ seen[k] <= Total(k)
      BY CountsAreNumbers DEF AtMost
    <3> QED
      BY <2>2, <3>1
  <2>5. ASSUME NEW q \in Procs, Inside(q)', NEW k \in Keys
        PROVE  data'[q][k] <= Total(k)' + Pending(q, k)'
    <3>1. q # p /\ Inside(q) /\ data'[q] = data[q] /\ todo'[q] = todo[q]
      BY <2>1, <2>5
    <3>2. data[q][k] <= Total(k) + Pending(q, k) /\ data[q][k] \in Nat
      BY <3>1, CountsAreNumbers DEF AtMost
    <3>3. Pending(q, k)' = Pending(q, k) /\ Pending(q, k) \in {0, 1}
      BY <3>1 DEF Pending
    <3> QED
      BY <2>2, <3>1, <3>2, <3>3
  <2> QED
    BY <2>1, <2>3, <2>4, <2>5 DEF AtMost
<1>5. ASSUME NEW p \in Procs, Fail(p) \/ Crash(p) PROVE AtMost'
  <2>1. /\ UNCHANGED <<file, counted, seen>> /\ ~Inside(p)'
        /\ \A q \in Procs \ {p} : Inside(q)' = Inside(q)
        /\ \A q \in Procs \ {p} : data'[q] = data[q] /\ todo'[q] = todo[q]
    BY <1>5, Abandons DEF Inside, TypeOK
  <2> QED
    BY <1>0, <2>1 DEF AtMost, Pending
<1>6. CASE GetMetrics
  <2>1. /\ UNCHANGED <<file, pc, todo, data, counted>> /\ seen' \in {Zero, Content}
    BY <1>6 DEF GetMetrics
  <2>2. \A k \in Keys : seen'[k] <= Total(k)
    <3> SUFFICES ASSUME NEW k \in Keys PROVE seen'[k] <= Total(k)
      OBVIOUS
    <3>1. Total(k) \in Nat /\ Zero[k] = 0
      BY CountsAreNumbers DEF Zero
    <3>2. Content[k] <= Total(k)
      BY <3>1 DEF Content, AtMost
    <3> QED
      BY <2>1, <3>1, <3>2
  <2> QED
    BY <1>0, <2>1, <2>2 DEF AtMost, Pending, Inside
<1> QED
  BY <1>1, <1>2, <1>3, <1>4, <1>5, <1>6, StepsAside DEF Next, Write

Inv == TypeOK /\ LockHeld /\ TodoShape /\ AtMost

(* The empty store satisfies the invariant. *)
LEMMA InvInit == Init => Inv
<1> SUFFICES ASSUME Init PROVE Inv
  OBVIOUS
<1>1. TypeOK /\ LockHeld /\ TodoShape
  BY InitType
<1>2. \A k \in Keys : Total(k) = 0 /\ seen[k] = 0 /\ file[k] = 0
  BY DEF Init, Total, Zero, Sides
<1>3. \A p \in Procs : ~Inside(p)
  BY DEF Init, Inside
<1> QED
  BY <1>1, <1>2, <1>3 DEF Inv, AtMost

(* Every step of every process, failure and death preserves the invariant. *)
LEMMA InvStep == Inv /\ [Next]_vars => Inv'
BY StepType, AtMostStep DEF Inv

(* Whatever races, deaths and failing disks do to the file, no counter is ahead of
   the increments completed. *)
THEOREM CountersNeverInvented == Spec => []NeverInvented
<1>1. Inv => NeverInvented
  BY DEF Inv, AtMost, NeverInvented
<1> QED
  BY <1>1, InvInit, InvStep, PTL DEF Spec

-----------------------------------------------------------------------------
(***************************************************************************)
(* As long as no two processes count at once, none is lost.                *)
(***************************************************************************)
NobodyDumps == \A p \in Procs : pc[p] # "dump"

Exact ==
    ~raced /\ ~faulty =>
        /\ \A p, q \in Procs : Inside(p) /\ Inside(q) => p = q
        /\ NobodyDumps => file # Torn /\ \A k \in Keys : file[k] = Total(k)
        /\ \A p \in Procs :
               Inside(p) => \A k \in Keys : data[p][k] = Total(k) + Pending(p, k)
        /\ \A p \in Procs : pc[p] = "dump" => file = Torn

(* Without a race and a fault, the process inside inc is alone there, and what it read
   is what the file holds. *)
LEMMA ExactStep ==
    ASSUME TypeOK, LockHeld, Exact, [Next]_vars
    PROVE  Exact'
<1> USE DEF Go
<1> SUFFICES ASSUME ~raced', ~faulty' PROVE Exact'
  BY DEF Exact
<1>0. (UNCHANGED counted) => \A k : Total(k)' = Total(k)
  BY DEF Total
<1>1. ASSUME Aside, UNCHANGED <<raced, faults, faulty>> PROVE Exact'
  <2>1. /\ \A p \in Procs : Inside(p)' = Inside(p)
        /\ \A p \in Procs : pc'[p] = "dump" <=> pc[p] = "dump"
    BY <1>1 DEF Aside, Inside
  <2> QED
    BY <1>0, <1>1, <2>1 DEF Aside, Exact, Pending, NobodyDumps
<1>2. ASSUME NEW p \in Procs, ReadCounters(p) PROVE Exact'
  <2>1. /\ UNCHANGED <<file, todo, seen, counted>> /\ pc[p] = "next"
        /\ pc' = [pc EXCEPT ![p] = "open"]
    BY <1>2 DEF ReadCounters, reader
  <2>2. ~raced /\ \A q \in Procs \ {p} : pc[q] \notin {"open", "dump"}
    BY <1>2 DEF ReadCounters
  <2>3. ~faulty
    BY <1>2 DEF ReadCounters
  <2>4. NobodyDumps
    BY <2>1, <2>2 DEF NobodyDumps
  <2>5. file # Torn /\ \A k \in Keys : file[k] = Total(k)
    BY <2>2, <2>3, <2>4 DEF Exact
  <2>6. /\ \A q \in Procs : Inside(q)' => q = p
        /\ \A q \in Procs : pc'[q] # "dump"
    BY <2>1, <2>2 DEF Inside, TypeOK
  <2>7. \A k \in Keys : data'[p][k] = Total(k) + Pending(p, k)
    BY <1>2, <2>5, ReadAdds DEF Content
  <2> QED
    BY <1>0, <2>1, <2>5, <2>6, <2>7 DEF Exact, Pending
<1>3. ASSUME NEW p \in Procs, Truncate(p) PROVE Exact'
  <2>1. /\ UNCHANGED <<todo, seen, counted, data, raced, faulty>> /\ file' = Torn
        /\ pc[p] = "open" /\ pc' = [pc EXCEPT ![p] = "dump"]
    BY <1>3 DEF Truncate, reader, hist
  <2>2. /\ \A q \in Procs : Inside(q)' = Inside(q)
        /\ pc'[p] = "dump"
    BY <2>1 DEF Inside, TypeOK
  <2> QED
    BY <1>0, <2>1, <2>2 DEF Exact, Pending, NobodyDumps
<1>4. ASSUME NEW p \in Procs, Dump(p) PROVE Exact'
  <2>1. /\ ~raced /\ ~faulty /\ pc[p] = "dump" /\ Inside(p)
        /\ pc' = [pc EXCEPT ![p] = "next"]
    BY <1>4 DEF Dump, Inside
  <2>2. file = Torn /\ \A q \in Procs : Inside(q) => q = p
    BY <2>1 DEF Exact
  <2>3. file' = data[p] /\ data[p] # Torn
    BY <1>4, <2>2, StoreAssumption DEF Dump, Left, TypeOK
  <2>4. \A k \in Keys : file'[k] = Total(k)'
    BY <1>4, <2>1, <2>3, CompletedTotal DEF Exact
  <2>5. \A q \in Procs : ~Inside(q)' /\ pc'[q] # "dump"
    BY <2>1, <2>2 DEF Inside, TypeOK
  <2> QED
    BY <2>3, <2>4, <2>5 DEF Exact
<1>5. ASSUME NEW p \in Procs, Fail(p) \/ Crash(p) PROVE Exact'
  <2>1. /\ UNCHANGED <<file, counted, seen, raced>>
        /\ pc' = [pc EXCEPT ![p] = "idle"]
        /\ \A q \in Procs \ {p} : data'[q] = data[q] /\ todo'[q] = todo[q]
        /\ faulty' = (faulty \/ pc[p] = "dump")
    BY <1>5, Abandons
  <2>2. ~faulty /\ ~raced /\ pc[p] # "dump"
    BY <2>1
  <2>3. /\ ~Inside(p)' /\ \A q \in Procs \ {p} : Inside(q)' = Inside(q) /\ pc'[q] = pc[q]
        /\ pc'[p] # "dump"
    BY <2>1 DEF Inside, TypeOK
  <2>4. NobodyDumps' => NobodyDumps
    BY <2>2, <2>3 DEF NobodyDumps
  <2> QED
    BY <1>0, <2>1, <2>2, <2>3, <2>4 DEF Exact, Pending
<1>6. CASE GetMetrics
  <2>1. UNCHANGED <<file, pc, todo, data, counted, raced>> /\ ~faulty
    BY <1>6 DEF GetMetrics
  <2> QED
    BY <1>0, <2>1 DEF Exact, Pending, Inside, NobodyDumps
<1> QED
  BY <1>1, <1>2, <1>3, <1>4, <1>5, <1>6, StepsAside DEF Next, Write

(* The empty store counts the nothing that happened exactly. *)
LEMMA ExactInit == Init => Exact
<1> SUFFICES ASSUME Init PROVE Exact
  OBVIOUS
<1>1. \A k \in Keys : Total(k) = 0 /\ file[k] = 0
  BY DEF Init, Total, Zero, Sides
<1>2. \A p \in Procs : ~Inside(p) /\ pc[p] # "dump"
  BY DEF Init, Inside
<1>3. file # Torn
  BY StoreAssumption DEF Init, Zero, Counts
<1> QED
  BY <1>1, <1>2, <1>3 DEF Exact

(* No increment is lost as long as no two processes count at the same moment and no
   access to the file fails, however many of them die between two increments. *)
THEOREM CountersAreExact == Spec => []CountersExact
<1> DEFINE All == Inv /\ Exact
<1>1. All /\ [Next]_vars => All'
  BY InvStep, ExactStep DEF Inv
<1>2. All => CountersExact
  BY DEF Exact, NobodyDumps, CountersExact
<1> QED
  BY <1>1, <1>2, InvInit, ExactInit, PTL DEF Spec

(* The counters the API shows do not go back by themselves: what it reads under the
   lock, between two increments, is all that was counted, and it never showed more. *)
THEOREM MetricsOnlyGrow == Spec => MetricsNeverGoBack
<1> DEFINE All == Inv /\ Exact
           Quiet == ~raced' /\ ~faulty' /\ \A t \in Tools : pc[t] # "dump"
<1>1. ASSUME All, [Next]_vars PROVE Quiet => \A k \in Keys : seen'[k] >= seen[k]
  <2> SUFFICES ASSUME Quiet, NEW k \in Keys PROVE seen'[k] >= seen[k]
    OBVIOUS
  <2>1. seen[k] \in Nat /\ Total(k) \in Nat /\ seen[k] <= Total(k)
    BY <1>1, CountsAreNumbers DEF Inv, AtMost
  <2>2. CASE GetMetrics
    <3>1. pc[Proxy] # "dump"
      BY <1>1, <2>2 DEF GetMetrics, Inv, LockHeld, Inside, Procs
    <3>2. NobodyDumps
      BY <3>1 DEF NobodyDumps, Procs
    <3>3. ~raced /\ ~faulty /\ seen' = Content
      BY <2>2 DEF GetMetrics
    <3>4. file # Torn /\ file[k] = Total(k)
      BY <1>1, <3>2, <3>3 DEF Exact
    <3> QED
      BY <2>1, <3>3, <3>4 DEF Content
  <2>3. CASE UNCHANGED seen
    BY <2>1, <2>3
  <2>4. GetMetrics \/ UNCHANGED seen
    BY <1>1 DEF Next, Write, Begin, AppendLine, ReadCounters, Truncate, Dump, Fail, Finish,
                Crash, GetDecisions, Midnight, vars, reader
  <2> QED
    BY <2>2, <2>3, <2>4
<1>2. All /\ [Next]_vars => All'
  BY InvStep, ExactStep DEF Inv
<1>3. All /\ [Next]_vars => (Quiet => \A k \in Keys : seen'[k] >= seen[k])
  BY <1>1
<1> QED
  BY <1>2, <1>3, InvInit, ExactInit, PTL DEF Spec, MetricsNeverGoBack

-----------------------------------------------------------------------------
(***************************************************************************)
(* The counters never get ahead of the log.                                *)
(***************************************************************************)
Logged(k) == Cardinality(Lines(log, k))

Covered ==
    \A k \in Keys :
        /\ counted["proxy"][k] <= Logged(k)
        /\ todo[Proxy] # <<>> /\ Head(todo[Proxy]) = Op("inc", k) =>
               counted["proxy"][k] + 1 <= Logged(k)
        /\ seen[k] <= Logged(k) + counted["tools"][k]
        /\ ~asking /\ Len(rows) < Limit =>
               seen[k] <= Cardinality(Lines(rows, k)) + counted["tools"][k]

(* The lines with a key are a finite set, with one more when such a line is added. *)
LEMMA LinesAreFinite ==
    ASSUME NEW some \in Seq(Entries), NEW k
    PROVE  IsFiniteSet(Lines(some, k)) /\ Cardinality(Lines(some, k)) \in Nat
<1>1. DOMAIN some = 1..Len(some) /\ Len(some) \in Nat
  BY LenProperties
<1>2. IsFiniteSet(DOMAIN some)
  BY <1>1, FS_Interval
<1>3. Lines(some, k) \in SUBSET DOMAIN some
  BY DEF Lines
<1> QED
  BY <1>2, <1>3, FS_Subset, FS_CardinalityType

(* A line appended to the log is one more line of its own key and of no other. *)
LEMMA LinesAppend ==
    ASSUME NEW some \in Seq(Entries), NEW entry \in Entries, NEW k
    PROVE  Cardinality(Lines(Append(some, entry), k)) =
               Cardinality(Lines(some, k)) + IF <<entry.rule, entry.action>> = k THEN 1 ELSE 0
<1> DEFINE more == Append(some, entry)
           n == Len(some)
<1>1. /\ n \in Nat /\ DOMAIN some = 1..n /\ DOMAIN more = 1..(n + 1)
      /\ \A i \in 1..n : more[i] = some[i]
      /\ more[n + 1] = entry
  <2>1. more \in Seq(Entries) /\ Len(more) = n + 1
    BY AppendProperties
  <2> QED
    BY <2>1, AppendProperties, LenProperties
<1> HIDE DEF more, n
<1>2. IsFiniteSet(Lines(some, k)) /\ n + 1 \notin Lines(some, k)
  BY <1>1, LinesAreFinite DEF Lines
<1>3. CASE <<entry.rule, entry.action>> = k
  <2>1. Lines(more, k) = Lines(some, k) \cup {n + 1}
    BY <1>1, <1>3 DEF Lines
  <2> QED
    BY <1>2, <1>3, <2>1, FS_AddElement DEF more
<1>4. CASE <<entry.rule, entry.action>> # k
  <2>1. Lines(more, k) = Lines(some, k)
    BY <1>1, <1>4 DEF Lines
  <2> QED
    BY <1>4, <2>1, LinesAreFinite DEF more
<1> QED
  BY <1>3, <1>4

(* A line the proxy appends is there when it counts the decision; lines of others
   do no harm. *)
LEMMA CoveredAppend ==
    ASSUME Inv, Covered, NEW p \in Procs, AppendLine(p)
    PROVE  Covered'
<1> DEFINE key == Head(todo[p]).key
           entry == [rule |-> key[1], action |-> key[2], day |-> day]
<1>1. TypeOK /\ TodoShape
  BY DEF Inv
<1>2. key \in Keys /\ entry \in Entries /\ log \in Seq(Entries)
  BY <1>1, TodoParts, EntryType DEF AppendLine, TypeOK
<1>3. /\ log' = Append(log, entry) /\ todo' = [todo EXCEPT ![p] = Tail(@)]
      /\ UNCHANGED <<counted, seen, rows, asking>>
  BY DEF AppendLine, reader, hist
<1>4. <<entry.rule, entry.action>> = key
  BY <1>2 DEF Keys
<1>5. \A k \in Keys : /\ Logged(k)' = Logged(k) + IF key = k THEN 1 ELSE 0
                      /\ Logged(k) \in Nat
  BY <1>2, <1>3, <1>4, LinesAppend, LinesAreFinite DEF Logged
<1> HIDE DEF entry
<1> SUFFICES ASSUME NEW k \in Keys
             PROVE  /\ counted["proxy"][k] <= Logged(k)'
                    /\ todo'[Proxy] # <<>> /\ Head(todo'[Proxy]) = Op("inc", k) =>
                           counted["proxy"][k] + 1 <= Logged(k)'
                    /\ seen[k] <= Logged(k)' + counted["tools"][k]
  BY <1>3 DEF Covered
<1>6. /\ counted["proxy"][k] \in Nat /\ counted["tools"][k] \in Nat /\ seen[k] \in Nat
      /\ counted["proxy"][k] <= Logged(k) /\ seen[k] <= Logged(k) + counted["tools"][k]
      /\ Logged(k) \in Nat /\ Logged(k)' \in Nat /\ Logged(k) <= Logged(k)'
  BY <1>1, <1>5, CountsAreNumbers DEF Covered
<1>7. ASSUME todo'[Proxy] # <<>>, Head(todo'[Proxy]) = Op("inc", k)
      PROVE  counted["proxy"][k] + 1 <= Logged(k)'
  <2>1. CASE p = Proxy
    <3>1. PICK j \in Keys : todo[Proxy] \in {<<Op("append", j), Op("inc", j)>>, <<Op("append", j)>>}
      BY <1>1, <2>1 DEF AppendLine, TodoShape, Op
    <3>2. todo'[Proxy] = Tail(todo[Proxy])
      BY <1>1, <1>3, <2>1 DEF TypeOK, Procs
    <3>3. CASE todo[Proxy] = <<Op("append", j)>>
      BY <1>7, <3>2, <3>3
    <3>4. CASE todo[Proxy] = <<Op("append", j), Op("inc", j)>>
      <4>1. key = j /\ Head(todo'[Proxy]) = Op("inc", j)
        BY <2>1, <3>2, <3>4 DEF Op
      <4>2. j = k
        BY <1>7, <4>1 DEF Op
      <4> QED
        BY <1>5, <1>6, <4>1, <4>2
    <3> QED
      BY <3>1, <3>3, <3>4
  <2>2. CASE p # Proxy
    <3>1. todo'[Proxy] = todo[Proxy]
      BY <1>1, <1>3, <2>2 DEF TypeOK, Procs
    <3>2. counted["proxy"][k] + 1 <= Logged(k)
      BY <1>7, <3>1 DEF Covered
    <3> QED
      BY <1>6, <3>2
  <2> QED
    BY <2>1, <2>2
<1> QED
  BY <1>6, <1>7

(* An increment of the proxy's has its line, and one of a tool's is on the other
   side of the sum. *)
LEMMA CoveredDump ==
    ASSUME Inv, Covered, NEW p \in Procs, Dump(p)
    PROVE  Covered'
<1>1. TypeOK /\ LockHeld /\ TodoShape
  BY DEF Inv
<1>2. /\ UNCHANGED <<log, seen, rows, asking>> /\ todo' = [todo EXCEPT ![p] = Tail(@)]
      /\ todo[p] # <<>> /\ Head(todo[p]).do = "inc"
  BY <1>1 DEF Dump, Completed, reader, LockHeld, Inside
<1> SUFFICES ASSUME NEW k \in Keys
             PROVE  /\ counted'["proxy"][k] <= Logged(k)
                    /\ todo'[Proxy] # <<>> /\ Head(todo'[Proxy]) = Op("inc", k) =>
                           counted'["proxy"][k] + 1 <= Logged(k)
                    /\ seen[k] <= Logged(k) + counted'["tools"][k]
                    /\ ~asking /\ Len(rows) < Limit =>
                           seen[k] <= Cardinality(Lines(rows, k)) + counted'["tools"][k]
  BY <1>2 DEF Covered, Logged
<1>3. /\ counted'["proxy"][k] = counted["proxy"][k] + IF p = Proxy THEN Pending(p, k) ELSE 0
      /\ counted'["tools"][k] >= counted["tools"][k]
      /\ counted'["tools"][k] \in Nat
  <2>1. TypeOK'
    BY InvStep DEF Inv, Next, Write
  <2>2. counted'["tools"] \in Counts
    BY <2>1 DEF TypeOK, Sides
  <2> QED
    BY <1>1, <2>2, CompletedTotal DEF Counts
<1>4. /\ counted["proxy"][k] \in Nat /\ counted["tools"][k] \in Nat /\ seen[k] \in Nat
      /\ Logged(k) \in Nat /\ Cardinality(Lines(rows, k)) \in Nat
  BY <1>1, CountsAreNumbers, LinesAreFinite DEF Logged, TypeOK
<1>5. /\ counted["proxy"][k] <= Logged(k) /\ seen[k] <= Logged(k) + counted["tools"][k]
      /\ ~asking /\ Len(rows) < Limit =>
             seen[k] <= Cardinality(Lines(rows, k)) + counted["tools"][k]
  BY DEF Covered
<1>6. /\ seen[k] <= Logged(k) + counted'["tools"][k]
      /\ ~asking /\ Len(rows) < Limit =>
             seen[k] <= Cardinality(Lines(rows, k)) + counted'["tools"][k]
  BY <1>3, <1>4, <1>5, SMTT(20)
<1>7. CASE p = Proxy
  <2>1. PICK j \in Keys : todo[Proxy] = <<Op("inc", j)>>
    BY <1>1, <1>2, <1>7 DEF TodoShape, Op
  <2>2. todo'[Proxy] = <<>> /\ Head(todo[Proxy]) = Op("inc", j)
    BY <1>1, <1>2, <1>7, <2>1 DEF TypeOK
  <2>3. k = j => counted["proxy"][k] + 1 <= Logged(k)
    BY <2>1, <2>2 DEF Covered
  <2>4. Pending(p, k) = IF k = j THEN 1 ELSE 0
    BY <1>7, <2>2 DEF Pending, Op
  <2> QED
    BY <1>3, <1>4, <1>5, <1>6, <1>7, <2>2, <2>3, <2>4
<1>8. CASE p # Proxy
  <2>1. todo'[Proxy] = todo[Proxy]
    BY <1>1, <1>2, <1>8 DEF TypeOK, Procs
  <2>2. counted'["proxy"][k] = counted["proxy"][k]
    BY <1>3, <1>4, <1>8
  <2> QED
    BY <1>6, <2>1, <2>2 DEF Covered
<1> QED
  BY <1>7, <1>8

(* An increment of the proxy is always behind the line of the log it belongs to, so the
   log stays ahead of the counters at every step. *)
LEMMA CoveredStep ==
    ASSUME Inv, Covered, [Next]_vars
    PROVE  Covered'
<1> USE DEF Go
<1>0. TypeOK /\ TodoShape
  BY DEF Inv
<1>1. ASSUME UNCHANGED <<log, counted, seen, rows, asking>>,
             \/ todo'[Proxy] = todo[Proxy]
             \/ todo'[Proxy] = <<>>
             \/ \E k \in Keys : Head(todo'[Proxy]) = Op("append", k)
      PROVE  Covered'
  <2>1. ASSUME NEW k \in Keys, todo'[Proxy] # <<>>, Head(todo'[Proxy]) = Op("inc", k)
        PROVE  todo[Proxy] # <<>> /\ Head(todo[Proxy]) = Op("inc", k)
    <3>1. \A j \in Keys : Op("append", j) # Op("inc", k)
      BY DEF Op
    <3>2. todo'[Proxy] = todo[Proxy]
      BY <1>1, <2>1, <3>1
    <3> QED
      BY <2>1, <3>2
  <2> QED
    BY <1>1, <2>1 DEF Covered, Logged
<1>2. ASSUME NEW p \in Procs, Begin(p) PROVE Covered'
  <2>1. PICK e \in Events :
            todo' = [todo EXCEPT ![p] = IF p = Proxy THEN Decision(e) ELSE Simulated(e)]
    BY <1>2 DEF Begin
  <2>2. PICK k \in Keys : Decision(e) \in {<<Op("append", k), Op("inc", k)>>, <<Op("append", k)>>}
    BY DecisionShape
  <2>3. Head(Decision(e)) = Op("append", k)
    BY <2>2
  <2>4. todo'[Proxy] = todo[Proxy] \/ Head(todo'[Proxy]) = Op("append", k)
    BY <1>0, <2>1, <2>3 DEF TypeOK, Procs
  <2> QED
    BY <1>1, <1>2, <2>4 DEF Begin, reader, hist
<1>3. ASSUME NEW p \in Procs, AppendLine(p) \/ Dump(p) PROVE Covered'
  BY <1>3, CoveredAppend, CoveredDump
<1>4. ASSUME NEW p \in Procs, ReadCounters(p) \/ Truncate(p) \/ Finish(p) PROVE Covered'
  BY <1>1, <1>4 DEF ReadCounters, Truncate, Finish, reader, hist
<1>5. ASSUME NEW p \in Procs, Fail(p) \/ Crash(p) PROVE Covered'
  <2>1. todo'[Proxy] = todo[Proxy] \/ todo'[Proxy] = <<>>
    BY <1>0, <1>5 DEF Fail, Crash, TypeOK, Procs
  <2> QED
    BY <1>1, <1>5, <2>1 DEF Fail, Crash, reader
<1>6. CASE GetMetrics
  <2>1. /\ UNCHANGED <<log, counted, todo>> /\ asking' = TRUE /\ seen' \in {Zero, Content}
    BY <1>6 DEF GetMetrics
  <2>2. ASSUME NEW k \in Keys PROVE seen'[k] <= Logged(k) + counted["tools"][k]
    <3>1. /\ counted["proxy"][k] \in Nat /\ counted["tools"][k] \in Nat
          /\ Logged(k) \in Nat /\ Content[k] \in Nat /\ Zero[k] = 0
      BY <1>0, CountsAreNumbers, LinesAreFinite DEF Logged, TypeOK, Zero
    <3>2. Content[k] <= counted["proxy"][k] + counted["tools"][k]
      BY <3>1 DEF Content, Inv, AtMost, Total
    <3>3. counted["proxy"][k] <= Logged(k)
      BY DEF Covered
    <3> QED
      BY <2>1, <3>1, <3>2, <3>3
  <2> QED
    BY <2>1, <2>2 DEF Covered, Logged
<1>7. CASE GetDecisions
  <2>1. UNCHANGED <<log, counted, todo, seen>> /\ rows' = Latest(Limit)
    BY <1>7 DEF GetDecisions, hist
  <2>2. Len(rows') < Limit => rows' = log
    BY <1>0, <2>1, LatestType
  <2> QED
    BY <2>1, <2>2 DEF Covered, Logged
<1>8. CASE Midnight \/ UNCHANGED vars
  BY <1>1, <1>8 DEF Midnight, vars, reader, hist
<1> QED
  BY <1>2, <1>3, <1>4, <1>5, <1>6, <1>7, <1>8 DEF Next, Write

(* Before the first decision the log covers the counters. *)
LEMMA CoveredInit == Init => Covered
<1> SUFFICES ASSUME Init, NEW k \in Keys
             PROVE  /\ counted["proxy"][k] = 0 /\ counted["tools"][k] = 0 /\ seen[k] = 0
                    /\ todo[Proxy] = <<>>
                    /\ Logged(k) \in Nat /\ Cardinality(Lines(rows, k)) \in Nat
  BY DEF Covered
<1>1. TypeOK
  BY InitType
<1> QED
  BY <1>1, LinesAreFinite DEF Init, TypeOK, Logged, Sides, Zero, Procs

(* The lines of a key are those of its days. *)
LEMMA DashboardHasAll ==
    ASSUME TypeOK, NEW k
    PROVE  UNION {Dashboard(d, k) : d \in Days} = Lines(rows, k)
<1>1. ASSUME NEW i \in Lines(rows, k) PROVE rows[i].day \in Days
  <2>1. rows \in Seq(Entries) /\ i \in 1..Len(rows)
    BY LenProperties DEF TypeOK, Lines
  <2>2. rows[i] \in Entries
    BY <2>1, ElementOfSeq
  <2> QED
    BY <2>2 DEF Entries
<1> QED
  BY <1>1 DEF Dashboard

(* Who has seen a hit of the proxy's in the counters finds its line on the dashboard
   of some day: a decision is logged before it is counted. *)
THEOREM DashboardsCover == Spec => []DashboardCovers
<1> DEFINE All == Inv /\ Covered
<1>1. All /\ [Next]_vars => All'
  BY InvStep, CoveredStep
<1>2. All => DashboardCovers
  <2> SUFFICES ASSUME All, ~asking, Len(rows) < Limit, NEW k \in RuleIds \X Actions
               PROVE  seen[k] <= Cardinality(UNION {Dashboard(d, k) : d \in Days})
                                     + counted["tools"][k]
    BY DEF DashboardCovers
  <2>1. k \in Keys
    BY DEF Keys
  <2> QED
    BY <2>1, DashboardHasAll DEF Inv, Covered
<1> QED
  BY <1>1, <1>2, InvInit, CoveredInit, PTL DEF Spec
=============================================================================
