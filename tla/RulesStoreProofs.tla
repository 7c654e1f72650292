-------------------------- MODULE RulesStoreProofs --------------------------
(***************************************************************************)
(* Proofs about RulesStore, for every set of rules and files, every number *)
(* of threads and connections and every number of requests.                *)
(***************************************************************************)
EXTENDS RulesStore, ListTheorems, SequenceTheorems, TLAPS

-----------------------------------------------------------------------------
(***************************************************************************)
(* Lists of rules.                                                         *)
(***************************************************************************)
(* What load_rules keeps of a list is a list of the same objects. *)
LEMMA LoadedType ==
    ASSUME NEW S, NEW s \in Seq(S)
    PROVE  LoadRules(s) \in Seq(S)
BY SelectedParts DEF LoadRules

(* A list without a rule is a list; ids that are told apart stay so. *)
LEMMA WithoutParts ==
    ASSUME NEW S, NEW s \in Seq(S), NEW id
    PROVE  /\ Without(s, id) \in Seq(S)
           /\ Unique(s) => Unique(Without(s, id))
<1> DEFINE I == {i \in DOMAIN s : s[i].id # id}
           w == Selected(s, I)
<1>1. I \in SUBSET DOMAIN s
  OBVIOUS
<1>2. Without(s, id) = w
  BY DEF Without
<1> HIDE DEF I
<1>3. PICK place \in [DOMAIN w -> I] :
        /\ \A k \in DOMAIN w : w[k] = s[place[k]]
        /\ \A k, l \in DOMAIN w : place[k] = place[l] => k = l
  BY <1>1, SelectedParts
<1>4. w \in Seq(S)
  BY <1>1, SelectedParts
<1> HIDE DEF w
<1>5. ASSUME Unique(s), NEW k \in DOMAIN w, NEW l \in DOMAIN w, w[k].id = w[l].id
      PROVE  k = l
  <2>1. place[k] \in DOMAIN s /\ place[l] \in DOMAIN s
    BY <1>1, <1>3
  <2>2. s[place[k]].id = s[place[l]].id
    BY <1>3, <1>5
  <2>3. place[k] = place[l]
    BY <1>5, <2>1, <2>2 DEF Unique
  <2> QED
    BY <1>3, <2>3
<1> QED
  BY <1>2, <1>4, <1>5 DEF Unique

(* The same of a list with a rule of a new id. *)
LEMMA AppendedParts ==
    ASSUME NEW S, NEW s \in Seq(S), NEW r \in S
    PROVE  /\ Append(s, r) \in Seq(S)
           /\ Unique(s) /\ r.id \notin Ids(s) => Unique(Append(s, r))
<1> DEFINE w == Append(s, r)
           n == Len(s)
<1>1. /\ n \in Nat /\ DOMAIN s = 1..n /\ w \in Seq(S) /\ DOMAIN w = 1..(n + 1)
      /\ \A i \in 1..n : w[i] = s[i]
      /\ w[n + 1] = r
  BY LenProperties, AppendProperties
<1> HIDE DEF w, n
<1>2. ASSUME Unique(s), r.id \notin Ids(s), NEW i \in 1..(n + 1), NEW j \in 1..(n + 1),
             w[i].id = w[j].id
      PROVE  i = j
  <2>1. \A k \in 1..n : w[k].id # r.id
    BY <1>1, <1>2 DEF Ids
  <2>2. CASE i \in 1..n /\ j \in 1..n
    <3>1. s[i].id = s[j].id
      BY <1>1, <1>2, <2>2
    <3> QED
      BY <1>1, <1>2, <2>2, <3>1 DEF Unique
  <2>3. CASE i = n + 1 /\ j \in 1..n
    BY <1>1, <1>2, <2>1, <2>3
  <2>4. CASE i \in 1..n /\ j = n + 1
    BY <1>1, <1>2, <2>1, <2>4
  <2>5. CASE i = n + 1 /\ j = n + 1
    BY <2>5
  <2> QED
    BY <1>1, <1>2, <2>2, <2>3, <2>4, <2>5
<1>3. Unique(s) /\ r.id \notin Ids(s) => Unique(w)
  BY <1>1, <1>2 DEF Unique
<1> QED
  BY <1>1, <1>3 DEF w

-----------------------------------------------------------------------------
(***************************************************************************)
(* Objects of the files and rules of the API.                              *)
(***************************************************************************)
Anything == Objects \cup ApiRules

(* Every object the files start with or a client posts is one the model of the
   API accepts. *)
LEMMA ObjectsAccepted ==
    \A o \in Objects : Accepted(o) /\ Model(o) \in ApiRules
<1>1. ASSUME NEW o \in Posted PROVE Accepted(o)
  BY FilesAssumption
<1>2. ASSUME NEW f \in {StartFile, StartProposed}, NEW o \in ToSet(f) PROVE Accepted(o)
  BY FilesAssumption DEF Parses, ToSet
<1> QED
  BY <1>1, <1>2 DEF Objects, ApiRules

(* The model has all the fields, keeps those it is given and the id, and changes
   nothing of a rule it made. *)
LEMMA ModelParts ==
    /\ \A o \in Objects : Model(o).id = o.id
    /\ \A r \in ApiRules : Accepted(r) /\ Model(r) = r
<1>1. {"id", "target", "action"} \subseteq RequiredFields /\ RequiredFields \subseteq ApiFields
  BY DEF RequiredFields, ApiFields
<1>2. ASSUME NEW o \in Objects
      PROVE  /\ Model(o).id = o.id
             /\ Accepted(Model(o))
             /\ Model(Model(o)) = Model(o)
  <2>1. Accepted(o)
    BY ObjectsAccepted
  <2>2. /\ DOMAIN Model(o) = ApiFields
        /\ \A f \in ApiFields : f \in DOMAIN o => Model(o)[f] = o[f]
    BY DEF Model
  <2>3. /\ Model(o).id = o.id /\ Model(o).target = o.target /\ Model(o).action = o.action
    BY <1>1, <2>1, <2>2 DEF Accepted
  <2>4. Accepted(Model(o))
    BY <1>1, <2>1, <2>2, <2>3 DEF Accepted
  <2>5. Model(Model(o)) = [f \in ApiFields |-> Model(o)[f]]
    BY <2>2 DEF Model
  <2>6. Model(o) = [f \in ApiFields |-> Model(o)[f]]
    BY DEF Model
  <2> QED
    BY <2>3, <2>4, <2>5, <2>6
<1> QED
  BY <1>2 DEF ApiRules

(* Whatever is in a file that can be read is accepted, and is a list of rules with
   the ids of the objects once it is parsed. *)
LEMMA ParsedParts ==
    ASSUME NEW f \in Seq(Anything)
    PROVE  /\ Readable(f) /\ Parses(f)
           /\ Parsed(f) \in Seq(ApiRules) /\ DOMAIN Parsed(f) = DOMAIN f
           /\ \A i \in DOMAIN f : Parsed(f)[i].id = f[i].id
           /\ Ids(Parsed(f)) = Ids(f)
           /\ Unique(f) => Unique(Parsed(f))
<1>1. Len(f) \in Nat /\ DOMAIN f = 1..Len(f) /\ \A i \in DOMAIN f : f[i] \in Anything
  BY LenProperties, ElementOfSeq
<1>2. Readable(f)
  BY FilesAssumption DEF Readable, Anything
<1>3. \A o \in Anything : Accepted(o) /\ Model(o) \in ApiRules /\ Model(o).id = o.id
  BY ObjectsAccepted, ModelParts DEF Anything
<1>4. Parses(f)
  BY <1>1, <1>2, <1>3 DEF Parses
<1>5. Parsed(f) \in [1..Len(f) -> ApiRules]
  BY <1>1, <1>3 DEF Parsed
<1>6. Parsed(f) \in Seq(ApiRules) /\ DOMAIN Parsed(f) = DOMAIN f
  BY <1>1, <1>5, SeqDef
<1>7. \A i \in DOMAIN f : Parsed(f)[i].id = f[i].id
  BY <1>1, <1>3 DEF Parsed
<1>8. Ids(Parsed(f)) = Ids(f)
  BY <1>6, <1>7 DEF Ids
<1>9. Unique(f) => Unique(Parsed(f))
  BY <1>6, <1>7 DEF Unique
<1> QED
  BY <1>2, <1>4, <1>6, <1>7, <1>8, <1>9

(* Parsing changes nothing of a list of rules. *)
LEMMA ParsedTwice ==
    ASSUME NEW s \in Seq(ApiRules)
    PROVE  Parsed(s) = s
<1>1. Len(s) \in Nat /\ DOMAIN s = 1..Len(s) /\ \A i \in DOMAIN s : s[i] \in ApiRules
  BY LenProperties, ElementOfSeq
<1>2. s = [i \in DOMAIN s |-> s[i]]
  BY <1>1
<1>3. Parsed(s) = [i \in DOMAIN s |-> s[i]]
  BY <1>1, ModelParts DEF Parsed
<1> QED
  BY <1>2, <1>3

(* What a client posts is a rule as the API writes it. *)
LEMMA PostedAreRules == Posted \subseteq ApiRules
BY FilesAssumption DEF Objects, ApiRules

(* The list a request makes of one that it is not rejected for. *)
LEMMA EditedParts ==
    ASSUME NEW j \in Jobs, NEW rules \in Seq(ApiRules), ~Rejected(rules, j)
    PROVE  /\ Edited(rules, j) \in Seq(ApiRules)
           /\ Unique(rules) => Unique(Edited(rules, j))
<1>1. CASE j.op = "delete"
  <2>1. Edited(rules, j) = Without(rules, j.rule.id)
    BY <1>1 DEF Edited
  <2> QED
    BY <2>1, WithoutParts
<1>2. CASE j.op = "promote"
  <2>1. Edited(rules, j) = rules
    BY <1>2 DEF Edited
  <2> QED
    BY <2>1
<1>3. CASE j.op \in {"add", "propose"}
  <2>1. Edited(rules, j) = Append(rules, j.rule)
    BY <1>3 DEF Edited
  <2>2. j.rule \in Posted
    BY <1>3 DEF Jobs
  <2>3. j.rule.id \notin Ids(rules)
    BY <1>3 DEF Rejected
  <2> QED
    BY <2>1, <2>2, <2>3, PostedAreRules, AppendedParts
<1> QED
  BY <1>1, <1>2, <1>3 DEF Jobs

\* The history later is the history before and the list x.
Keeps(before, later)     == \A i \in DOMAIN before : i \in DOMAIN later /\ later[i] = before[i]
Grown(before, later, x) ==
    /\ Keeps(before, later)
    /\ \E i \in DOMAIN later : later[i] = x
    /\ \A i \in DOMAIN later : (i \in DOMAIN before /\ later[i] = before[i]) \/ later[i] = x

(* A history that grows by one list. *)
LEMMA HistoryGrows ==
    ASSUME NEW S, NEW h \in Seq(S), NEW x \in S
    PROVE  Append(h, x) \in Seq(S) /\ Grown(h, Append(h, x), x)
<1> DEFINE w == Append(h, x)
           n == Len(h)
<1>1. /\ n \in Nat /\ DOMAIN h = 1..n /\ w \in Seq(S) /\ DOMAIN w = 1..(n + 1)
      /\ \A i \in 1..n : w[i] = h[i]
      /\ w[n + 1] = x
  BY LenProperties, AppendProperties
<1> HIDE DEF w, n
<1>2. n + 1 \in 1..(n + 1) /\ \A i \in 1..(n + 1) : i \in 1..n \/ i = n + 1
  BY <1>1
<1>3. \A i \in 1..n : i \in 1..(n + 1)
  BY <1>1
<1>4. Keeps(h, w)
  BY <1>1, <1>3 DEF Keeps
<1>5. Grown(h, w, x)
  BY <1>1, <1>2, <1>4 DEF Grown
<1> QED
  BY <1>1, <1>5 DEF w

-----------------------------------------------------------------------------
(***************************************************************************)
(* The inductive invariant.                                                *)
(***************************************************************************)
\* Every list written so far has its ids told apart, and a file that is not half
\* written holds one of them.
History ==
    /\ \A i \in DOMAIN versions : Unique(versions[i])
    /\ \A i \in DOMAIN drafts : Unique(drafts[i])
    /\ rulesFile = Empty \/ \E i \in DOMAIN versions : rulesFile = versions[i]
    /\ proposedFile \in {Empty, Mixed} \/ \E i \in DOMAIN drafts : proposedFile = drafts[i]

\* The lock is held across a step only by the one thread that writes the rules in
\* force, and only a dead process leaves their file empty without it.
LockHeld ==
    /\ \A t \in Threads :
          /\ lock = t <=> (pc[t] = "dump" /\ WritesRules(job[t]))
          /\ pc[t] # "idle" => job[t] \in Jobs
    /\ rulesFile = Empty => crashed \/ lock # None

\* What a thread is about to write is its request applied to a list its file had.
From(t) == IF ReadsRules(job[t]) THEN versions ELSE drafts

Derived ==
    \A t \in Threads : pc[t] \in {"open", "dump"} =>
        \E i \in DOMAIN From(t) :
            /\ ~Rejected(Parsed(From(t)[i]), job[t])
            /\ got[t] = Edited(Parsed(From(t)[i]), job[t])

(* What TypeOK says of the histories and of what is in the files. *)
LEMMA ListTypes ==
    ASSUME TypeOK
    PROVE  /\ \A i \in DOMAIN versions : versions[i] \in Seq(Anything)
           /\ \A i \in DOMAIN drafts : drafts[i] \in Seq(Anything)
           /\ \A t \in Threads : \A i \in DOMAIN From(t) : From(t)[i] \in Seq(Anything)
           /\ \A t \in Threads : got[t] \in Seq(ApiRules) /\ got[t] \in Seq(Anything)
           /\ Readable(rulesFile) => rulesFile \in Seq(Anything)
           /\ Readable(proposedFile) => proposedFile \in Seq(Anything)
<1>1. versions \in Seq(Seq(Anything)) /\ drafts \in Seq(Seq(Anything))
  BY DEF TypeOK, Anything
<1>2. /\ \A i \in DOMAIN versions : versions[i] \in Seq(Anything)
      /\ \A i \in DOMAIN drafts : drafts[i] \in Seq(Anything)
  BY <1>1, LenProperties, ElementOfSeq
<1>3. \A t \in Threads : got[t] \in Seq(ApiRules)
  BY DEF TypeOK
<1>4. Seq(ApiRules) \subseteq Seq(Anything)
  BY DEF Anything
<1>5. /\ Readable(rulesFile) => rulesFile \in Seq(Anything)
      /\ Readable(proposedFile) => proposedFile \in Seq(Anything)
  BY DEF TypeOK, Contents, Readable, Anything
<1> QED
  BY <1>2, <1>3, <1>4, <1>5 DEF From

(* A list that can be read is one of the history, with its ids told apart. *)
LEMMA SourceParts ==
    ASSUME TypeOK, History, NEW t \in Threads, Parses(Source(t))
    PROVE  /\ \E i \in DOMAIN From(t) : Source(t) = From(t)[i]
           /\ Parsed(Source(t)) \in Seq(ApiRules) /\ Unique(Parsed(Source(t)))
<1>1. Readable(Source(t))
  BY DEF Parses
<1>2. PICK i \in DOMAIN From(t) : Source(t) = From(t)[i]
  BY <1>1 DEF Readable, History, Source, From
<1>3. From(t)[i] \in Seq(Anything) /\ Unique(From(t)[i])
  BY ListTypes DEF History, From
<1> QED
  BY <1>2, <1>3, ParsedParts

(* What a thread writes is a list with its ids told apart. *)
LEMMA DerivedParts ==
    ASSUME TypeOK, History, LockHeld, Derived, NEW t \in Threads, pc[t] \in {"open", "dump"}
    PROVE  Unique(got[t])
<1>1. job[t] \in Jobs
  BY DEF LockHeld
<1>2. PICK i \in DOMAIN From(t) :
        /\ ~Rejected(Parsed(From(t)[i]), job[t])
        /\ got[t] = Edited(Parsed(From(t)[i]), job[t])
  BY DEF Derived
<1>3. From(t)[i] \in Seq(Anything) /\ Unique(From(t)[i])
  BY ListTypes DEF History, From
<1>4. Parsed(From(t)[i]) \in Seq(ApiRules) /\ Unique(Parsed(From(t)[i]))
  BY <1>3, ParsedParts
<1> QED
  BY <1>1, <1>2, <1>4, EditedParts

-----------------------------------------------------------------------------
(***************************************************************************)
(* Type correctness.                                                       *)
(***************************************************************************)
(* The service starts with the two files. *)
LEMMA InitType == Init => TypeOK
<1> SUFFICES ASSUME Init PROVE TypeOK
  OBVIOUS
<1>1. StartFile \in Seq(Objects) /\ StartProposed \in Seq(Objects)
  BY FilesAssumption
<1>2. Seq(Objects) \subseteq Seq(Objects \cup ApiRules)
  OBVIOUS
<1>3. rulesFile \in Contents /\ proposedFile \in Contents
  BY <1>1, <1>2 DEF Init, Contents
<1>4. versions \in Seq(Seq(Objects \cup ApiRules)) /\ drafts \in Seq(Seq(Objects \cup ApiRules))
  BY <1>1, <1>2 DEF Init
<1>5. \A S : <<>> \in Seq(S)
  BY EmptySeq
<1>6. requests \in 0..MaxRequests
  BY StoreAssumption DEF Init
<1> QED
  BY <1>3, <1>4, <1>5, <1>6 DEF Init, TypeOK

\* The parts of TypeOK that are about lists, apart from the rest.
ListsOK ==
    /\ rulesFile \in Contents /\ proposedFile \in Contents
    /\ got \in [Threads -> Seq(ApiRules)]
    /\ engine \in [Connections -> Seq(Anything)]
    /\ versions \in Seq(Seq(Anything))
    /\ drafts \in Seq(Seq(Anything))

StatesOK ==
    /\ lock \in Threads \cup {None}
    /\ pc \in [Threads -> {"idle", "read", "open", "dump"}]
    /\ job \in [Threads -> Jobs \cup {None}]
    /\ reply \in [Threads -> {"none", "ok", "rejected", "failed"}]
    /\ requests \in 0..MaxRequests
    /\ conn \in [Connections -> {"closed", "open", "refused"}]
    /\ crashed \in BOOLEAN

(* Every step keeps the states. *)
LEMMA StatesStep == TypeOK /\ [Next]_vars => StatesOK'
<1> SUFFICES ASSUME TypeOK, [Next]_vars PROVE StatesOK'
  OBVIOUS
<1>1. StatesOK
  BY DEF TypeOK, StatesOK
<1>2. ASSUME NEW t \in Threads, Begin(t) PROVE StatesOK'
  <2>1. requests' \in 0..MaxRequests
    BY <1>1, <1>2, StoreAssumption DEF Begin, StatesOK
  <2> QED
    BY <1>1, <1>2, <2>1 DEF Begin, Go, StatesOK, proxy
<1>3. ASSUME NEW t \in Threads, Handle(t) PROVE StatesOK'
  BY <1>1, <1>3
     DEF Handle, ReadFails, Reject, Edit, OpenRules, DumpRules, OpenProposed, DumpProposed,
         Answer, Go, StatesOK, proxy
<1>4. ASSUME NEW c \in Connections, Connect(c) \/ Disconnect(c) PROVE StatesOK'
  BY <1>1, <1>4 DEF Connect, Disconnect, StatesOK
<1>5. CASE Crash
  <2>1. crashed' \in BOOLEAN
    BY <1>5 DEF Crash
  <2> QED
    BY <1>1, <1>5, <2>1 DEF Crash, StatesOK
<1>6. CASE UNCHANGED vars
  BY <1>1, <1>6 DEF vars, StatesOK
<1> QED
  BY <1>2, <1>3, <1>4, <1>5, <1>6 DEF Next

(* Every step keeps the lists lists of rules. *)
LEMMA ListsStep == TypeOK /\ History /\ LockHeld /\ Derived /\ [Next]_vars => ListsOK'
<1> SUFFICES ASSUME TypeOK, History, LockHeld, Derived, [Next]_vars PROVE ListsOK'
  OBVIOUS
<1>1. ListsOK
  BY DEF TypeOK, ListsOK, Anything
<1>2. Empty \in Contents /\ Mixed \in Contents /\ Seq(Anything) \subseteq Contents
  BY DEF Contents, Anything
<1>3. \A t \in Threads : got[t] \in Seq(ApiRules) /\ got[t] \in Seq(Anything)
  BY ListTypes
<1>4. <<>> \in Seq(ApiRules) /\ <<>> \in Seq(Anything)
  BY EmptySeq
<1>5. ASSUME UNCHANGED <<rulesFile, proposedFile, got, engine, versions, drafts>>
      PROVE  ListsOK'
  BY <1>1, <1>5 DEF ListsOK
<1>6. ASSUME NEW t \in Threads, Begin(t) PROVE ListsOK'
  BY <1>5, <1>6 DEF Begin, proxy
<1>7. ASSUME NEW t \in Threads, ReadFails(t) \/ Reject(t) PROVE ListsOK'
  <2>1. got' \in [Threads -> Seq(ApiRules)]
    BY <1>1, <1>4, <1>7 DEF ReadFails, Reject, Answer, ListsOK
  <2> QED
    BY <1>1, <1>7, <2>1 DEF ReadFails, Reject, ListsOK, proxy
<1>8. ASSUME NEW t \in Threads, Edit(t) PROVE ListsOK'
  <2>1. job[t] \in Jobs
    BY <1>8 DEF Edit, MayRead, LockHeld
  <2>2. Edited(Parsed(Source(t)), job[t]) \in Seq(ApiRules)
    BY <1>8, <2>1, SourceParts, EditedParts DEF Edit
  <2>3. got' \in [Threads -> Seq(ApiRules)]
    BY <1>1, <1>8, <2>2 DEF Edit, ListsOK
  <2> QED
    BY <1>1, <1>8, <2>3 DEF Edit, ListsOK, proxy
<1>9. ASSUME NEW t \in Threads, OpenRules(t) \/ OpenProposed(t) PROVE ListsOK'
  BY <1>1, <1>2, <1>9 DEF OpenRules, OpenProposed, ListsOK, proxy
<1>10. ASSUME NEW t \in Threads, DumpRules(t) PROVE ListsOK'
  <2>1. got' \in [Threads -> Seq(ApiRules)]
    BY <1>1, <1>4, <1>10 DEF DumpRules, Answer, ListsOK
  <2>2. versions' \in Seq(Seq(Anything))
    BY <1>1, <1>3, <1>10, AppendProperties DEF DumpRules, ListsOK
  <2> QED
    BY <1>1, <1>2, <1>3, <1>10, <2>1, <2>2 DEF DumpRules, ListsOK, proxy
<1>11. ASSUME NEW t \in Threads, DumpProposed(t) PROVE ListsOK'
  <2>1. got' \in [Threads -> Seq(ApiRules)]
    BY <1>1, <1>4, <1>11 DEF DumpProposed, Answer, ListsOK
  <2>2. drafts' \in Seq(Seq(Anything))
    BY <1>1, <1>3, <1>11, AppendProperties DEF DumpProposed, ListsOK
  <2>3. proposedFile' \in {got[t], Mixed}
    BY <1>11 DEF DumpProposed
  <2> QED
    BY <1>1, <1>2, <1>3, <1>11, <2>1, <2>2, <2>3 DEF DumpProposed, ListsOK, proxy
<1>12. ASSUME NEW c \in Connections, Connect(c) PROVE ListsOK'
  <2>1. Readable(rulesFile) => LoadRules(rulesFile) \in Seq(Anything)
    BY ListTypes, LoadedType
  <2>2. engine' \in [Connections -> Seq(Anything)]
    BY <1>1, <1>12, <2>1 DEF Connect, ListsOK
  <2> QED
    BY <1>1, <1>12, <2>2 DEF Connect, ListsOK
<1>13. ASSUME NEW c \in Connections, Disconnect(c) PROVE ListsOK'
  BY <1>1, <1>4, <1>13 DEF Disconnect, ListsOK
<1>14. CASE Crash
  BY <1>1, <1>4, <1>14 DEF Crash, ListsOK
<1>15. CASE UNCHANGED vars
  BY <1>5, <1>15 DEF vars
<1> QED
  BY <1>6, <1>7, <1>8, <1>9, <1>10, <1>11, <1>12, <1>13, <1>14, <1>15 DEF Next, Handle

(* The two parts of TypeOK together. *)
LEMMA TypeStep == TypeOK /\ History /\ LockHeld /\ Derived /\ [Next]_vars => TypeOK'
<1>1. StatesOK' /\ ListsOK' => TypeOK'
  BY DEF StatesOK, ListsOK, TypeOK, Anything
<1> QED
  BY <1>1, StatesStep, ListsStep

-----------------------------------------------------------------------------
(***************************************************************************)
(* The lock, the files and what the threads are about to write.            *)
(***************************************************************************)
(* The lock is taken and given back by the writers of the rules in force alone. *)
LEMMA LockStep == TypeOK /\ History /\ LockHeld /\ [Next]_vars => LockHeld'
<1> SUFFICES ASSUME TypeOK, History, LockHeld, [Next]_vars PROVE LockHeld'
  OBVIOUS
<1>1. /\ lock \in Threads \cup {None} /\ None \notin Threads
      /\ pc \in [Threads -> {"idle", "read", "open", "dump"}]
      /\ job \in [Threads -> Jobs \cup {None}]
  BY StoreAssumption DEF TypeOK
<1>2. ASSUME UNCHANGED <<rulesFile, lock, crashed, job>>, NEW t \in Threads, NEW where,
             pc' = [pc EXCEPT ![t] = where],
             pc[t] = "dump" \/ where = "dump" => ~WritesRules(job[t]),
             where # "idle" => job[t] \in Jobs
      PROVE  LockHeld'
  <2>1. \A u \in Threads : pc'[u] = IF u = t THEN where ELSE pc[u]
    BY <1>1, <1>2
  <2>2. \A u \in Threads : lock' = u <=> (pc'[u] = "dump" /\ WritesRules(job'[u]))
    BY <1>2, <2>1 DEF LockHeld
  <2>3. \A u \in Threads : pc'[u] # "idle" => job'[u] \in Jobs
    BY <1>2, <2>1 DEF LockHeld
  <2>4. rulesFile' = Empty => crashed' \/ lock' # None
    BY <1>2 DEF LockHeld
  <2> QED
    BY <2>2, <2>3, <2>4 DEF LockHeld
<1>3. ASSUME NEW t \in Threads, Begin(t) PROVE LockHeld'
  <2>1. PICK j \in Jobs : job' = [job EXCEPT ![t] = j]
    BY <1>3 DEF Begin
  <2>2. UNCHANGED <<rulesFile, lock, crashed>> /\ pc[t] = "idle" /\ pc' = [pc EXCEPT ![t] = "read"]
    BY <1>3 DEF Begin, Go, proxy
  <2>3. \A u \in Threads : /\ pc'[u] = IF u = t THEN "read" ELSE pc[u]
                          /\ job'[u] = IF u = t THEN j ELSE job[u]
    BY <1>1, <2>1, <2>2
  <2>4. \A u \in Threads : lock' = u <=> (pc'[u] = "dump" /\ WritesRules(job'[u]))
    BY <2>2, <2>3 DEF LockHeld
  <2>5. \A u \in Threads : pc'[u] # "idle" => job'[u] \in Jobs
    BY <2>2, <2>3 DEF LockHeld
  <2> QED
    BY <2>2, <2>4, <2>5 DEF LockHeld
<1>4. ASSUME NEW t \in Threads, ReadFails(t) \/ Reject(t) PROVE LockHeld'
  <2>1. /\ UNCHANGED <<rulesFile, lock, crashed, job>>
        /\ pc[t] = "read" /\ pc' = [pc EXCEPT ![t] = "idle"]
    BY <1>4 DEF ReadFails, Reject, MayRead, Answer, Go, proxy
  <2> QED
    BY <1>2, <2>1
<1>5. ASSUME NEW t \in Threads, Edit(t) PROVE LockHeld'
  <2>1. /\ UNCHANGED <<rulesFile, lock, crashed, job>>
        /\ pc[t] = "read" /\ pc' = [pc EXCEPT ![t] = "open"]
    BY <1>5 DEF Edit, MayRead, Go, proxy
  <2>2. job[t] \in Jobs
    BY <2>1 DEF LockHeld
  <2> QED
    BY <1>2, <2>1, <2>2
<1>6. ASSUME NEW t \in Threads, OpenRules(t) PROVE LockHeld'
  <2>1. /\ lock = None /\ lock' = t /\ WritesRules(job[t]) /\ pc[t] = "open"
        /\ job' = job /\ pc' = [pc EXCEPT ![t] = "dump"]
    BY <1>6 DEF OpenRules, Go
  <2>2. \A u \in Threads : pc'[u] = IF u = t THEN "dump" ELSE pc[u]
    BY <1>1, <2>1
  <2>3. \A u \in Threads : ~(pc[u] = "dump" /\ WritesRules(job[u]))
    BY <1>1, <2>1 DEF LockHeld
  <2>4. \A u \in Threads : lock' = u <=> (pc'[u] = "dump" /\ WritesRules(job'[u]))
    BY <2>1, <2>2, <2>3
  <2>5. \A u \in Threads : pc'[u] # "idle" => job'[u] \in Jobs
    BY <2>1, <2>2 DEF LockHeld
  <2> QED
    BY <1>1, <2>1, <2>4, <2>5 DEF LockHeld
<1>7. ASSUME NEW t \in Threads, DumpRules(t) PROVE LockHeld'
  <2>1. /\ lock' = None /\ pc[t] = "dump" /\ WritesRules(job[t]) /\ rulesFile' = got[t]
        /\ job' = job /\ pc' = [pc EXCEPT ![t] = "idle"]
    BY <1>7 DEF DumpRules, Answer, Go
  <2>2. \A u \in Threads : pc'[u] = IF u = t THEN "idle" ELSE pc[u]
    BY <1>1, <2>1
  <2>3. lock = t
    BY <2>1 DEF LockHeld
  <2>4. \A u \in Threads : lock' = u <=> (pc'[u] = "dump" /\ WritesRules(job'[u]))
    BY <1>1, <2>1, <2>2, <2>3 DEF LockHeld
  <2>5. \A u \in Threads : pc'[u] # "idle" => job'[u] \in Jobs
    BY <2>1, <2>2 DEF LockHeld
  <2>6. rulesFile' # Empty
    BY <2>1, ListTypes, ParsedParts DEF Readable
  <2> QED
    BY <2>4, <2>5, <2>6 DEF LockHeld
<1>8. ASSUME NEW t \in Threads, OpenProposed(t) PROVE LockHeld'
  <2>1. /\ UNCHANGED <<rulesFile, lock, crashed, job>> /\ ~WritesRules(job[t])
        /\ pc[t] = "open" /\ pc' = [pc EXCEPT ![t] = "dump"]
    BY <1>8 DEF OpenProposed, Go, proxy
  <2>2. job[t] \in Jobs
    BY <2>1 DEF LockHeld
  <2> QED
    BY <1>2, <2>1, <2>2
<1>9. ASSUME NEW t \in Threads, DumpProposed(t) PROVE LockHeld'
  <2>1. /\ UNCHANGED <<rulesFile, lock, crashed, job>> /\ ~WritesRules(job[t])
        /\ pc' = [pc EXCEPT ![t] = "idle"]
    BY <1>9 DEF DumpProposed, Answer, Go, proxy
  <2> QED
    BY <1>2, <2>1
<1>10. ASSUME NEW c \in Connections, Connect(c) \/ Disconnect(c) PROVE LockHeld'
  BY <1>10 DEF Connect, Disconnect, LockHeld
<1>11. CASE Crash
  BY <1>1, <1>11 DEF Crash, LockHeld
<1>12. CASE UNCHANGED vars
  BY <1>12 DEF vars, LockHeld
<1> QED
  BY <1>3, <1>4, <1>5, <1>6, <1>7, <1>8, <1>9, <1>10, <1>11, <1>12 DEF Next, Handle

(* A list is written only whole, and goes into the history of its file. *)
LEMMA HistoryStep == TypeOK /\ History /\ LockHeld /\ Derived /\ [Next]_vars => History'
<1> SUFFICES ASSUME TypeOK, History, LockHeld, Derived, [Next]_vars PROVE History'
  OBVIOUS
<1>1. versions \in Seq(Seq(Anything)) /\ drafts \in Seq(Seq(Anything))
  BY DEF TypeOK, Anything
<1>2. \A t \in Threads : got[t] \in Seq(Anything)
  BY ListTypes
<1>3. ASSUME UNCHANGED <<rulesFile, proposedFile, versions, drafts>> PROVE History'
  BY <1>3 DEF History
<1>4. ASSUME NEW t \in Threads, Begin(t) \/ ReadFails(t) \/ Reject(t) \/ Edit(t) PROVE History'
  BY <1>3, <1>4 DEF Begin, ReadFails, Reject, Edit
<1>5. ASSUME NEW t \in Threads, OpenRules(t) \/ OpenProposed(t) PROVE History'
  BY <1>5 DEF OpenRules, OpenProposed, History
<1>6. ASSUME NEW t \in Threads, DumpRules(t) PROVE History'
  <2>1. /\ pc[t] = "dump" /\ rulesFile' = got[t] /\ versions' = Append(versions, got[t])
        /\ UNCHANGED <<proposedFile, drafts>>
    BY <1>6 DEF DumpRules
  <2>2. Unique(got[t])
    BY <2>1, DerivedParts
  <2>3. Grown(versions, versions', got[t])
    BY <1>1, <1>2, <2>1, HistoryGrows
  <2>4. \A i \in DOMAIN versions' : Unique(versions'[i])
    BY <2>2, <2>3 DEF History, Grown
  <2>5. \E i \in DOMAIN versions' : rulesFile' = versions'[i]
    BY <2>1, <2>3 DEF Grown
  <2> QED
    BY <2>1, <2>4, <2>5 DEF History
<1>7. ASSUME NEW t \in Threads, DumpProposed(t) PROVE History'
  <2>1. /\ pc[t] = "dump" /\ proposedFile' \in {got[t], Mixed}
        /\ drafts' = Append(drafts, got[t])
        /\ UNCHANGED <<rulesFile, versions>>
    BY <1>7 DEF DumpProposed
  <2>2. Unique(got[t])
    BY <2>1, DerivedParts
  <2>3. Grown(drafts, drafts', got[t])
    BY <1>1, <1>2, <2>1, HistoryGrows
  <2>4. \A i \in DOMAIN drafts' : Unique(drafts'[i])
    BY <2>2, <2>3 DEF History, Grown
  <2>5. proposedFile' \in {Empty, Mixed} \/ \E i \in DOMAIN drafts' : proposedFile' = drafts'[i]
    BY <2>1, <2>3 DEF Grown
  <2> QED
    BY <2>1, <2>4, <2>5 DEF History
<1>8. ASSUME NEW c \in Connections, Connect(c) \/ Disconnect(c) PROVE History'
  BY <1>3, <1>8 DEF Connect, Disconnect
<1>9. CASE Crash \/ UNCHANGED vars
  BY <1>3, <1>9 DEF Crash, vars
<1> QED
  BY <1>4, <1>5, <1>6, <1>7, <1>8, <1>9 DEF Next, Handle

(* A thread keeps the list it has made until it has written it, and the list it
   was made from stays in the history. *)
LEMMA DerivedStep == TypeOK /\ History /\ LockHeld /\ Derived /\ [Next]_vars => Derived'
<1> SUFFICES ASSUME TypeOK, History, LockHeld, Derived, [Next]_vars,
                    NEW u \in Threads, pc'[u] \in {"open", "dump"}
             PROVE  \E i \in DOMAIN From(u)' :
                       /\ ~Rejected(Parsed(From(u)'[i]), job'[u])
                       /\ got'[u] = Edited(Parsed(From(u)'[i]), job'[u])
  BY DEF Derived, From
<1>1. /\ pc \in [Threads -> {"idle", "read", "open", "dump"}]
      /\ job \in [Threads -> Jobs \cup {None}]
      /\ got \in [Threads -> Seq(ApiRules)]
      /\ versions \in Seq(Seq(Anything)) /\ drafts \in Seq(Seq(Anything))
  BY DEF TypeOK, Anything
<1>2. \A t \in Threads : got[t] \in Seq(Anything)
  BY ListTypes
<1> DEFINE GoesOn == /\ pc[u] \in {"open", "dump"} /\ job'[u] = job[u] /\ got'[u] = got[u]
                     /\ Keeps(versions, versions') /\ Keeps(drafts, drafts')
           Goal == \E i \in DOMAIN From(u)' :
                       /\ ~Rejected(Parsed(From(u)'[i]), job'[u])
                       /\ got'[u] = Edited(Parsed(From(u)'[i]), job'[u])
<1>3. ASSUME GoesOn PROVE Goal
  <2>1. PICK i \in DOMAIN From(u) :
          /\ ~Rejected(Parsed(From(u)[i]), job[u])
          /\ got[u] = Edited(Parsed(From(u)[i]), job[u])
    BY <1>3 DEF Derived
  <2>2. i \in DOMAIN From(u)' /\ From(u)'[i] = From(u)[i]
    BY <1>3, <2>1 DEF From, Keeps
  <2> QED
    BY <1>3, <2>1, <2>2
<1>4. ASSUME NEW t \in Threads, Begin(t) \/ ReadFails(t) \/ Reject(t) PROVE Goal
  <2>1. u # t
    BY <1>1, <1>4 DEF Begin, ReadFails, Reject, Answer, Go
  <2>2. GoesOn
    BY <1>1, <1>4, <2>1 DEF Begin, ReadFails, Reject, Answer, Go, Keeps
  <2> QED
    BY <1>3, <2>2
<1>5. ASSUME NEW t \in Threads, Edit(t) PROVE Goal
  <2>1. CASE u = t
    <3>1. PICK i \in DOMAIN From(u) : Source(u) = From(u)[i]
      BY <1>5, <2>1, SourceParts DEF Edit
    <3>2. /\ ~Rejected(Parsed(Source(u)), job[u])
          /\ got'[u] = Edited(Parsed(Source(u)), job[u])
      BY <1>1, <1>5, <2>1 DEF Edit
    <3>3. job'[u] = job[u] /\ From(u)' = From(u)
      BY <1>5 DEF Edit, From
    <3>4. From(u)' = From(u)
      BY <1>5, <3>3 DEF Edit, From
    <3> QED
      BY <3>1, <3>2, <3>3, <3>4
  <2>2. CASE u # t
    <3>1. GoesOn
      BY <1>1, <1>5, <2>2 DEF Edit, Go, Keeps
    <3> QED
      BY <1>3, <3>1
  <2> QED
    BY <2>1, <2>2
<1>6. ASSUME NEW t \in Threads, OpenRules(t) \/ OpenProposed(t) PROVE Goal
  <2>1. pc[u] \in {"open", "dump"}
    BY <1>1, <1>6 DEF OpenRules, OpenProposed, Go
  <2>2. GoesOn
    BY <1>6, <2>1 DEF OpenRules, OpenProposed, Keeps
  <2> QED
    BY <1>3, <2>2
<1>7. ASSUME NEW t \in Threads, DumpRules(t) \/ DumpProposed(t) PROVE Goal
  <2>1. u # t
    BY <1>1, <1>7 DEF DumpRules, DumpProposed, Answer, Go
  <2>2. pc[u] \in {"open", "dump"} /\ job'[u] = job[u] /\ got'[u] = got[u]
    BY <1>1, <1>7, <2>1 DEF DumpRules, DumpProposed, Answer, Go
  <2>3. Keeps(versions, versions')
    <3>1. versions' = versions \/ versions' = Append(versions, got[t])
      BY <1>7 DEF DumpRules, DumpProposed
    <3>2. Grown(versions, Append(versions, got[t]), got[t])
      BY <1>1, <1>2, <1>7, HistoryGrows
    <3>3. Keeps(versions, Append(versions, got[t]))
      BY <3>2 DEF Grown
    <3>4. Keeps(versions, versions)
      BY DEF Keeps
    <3> QED
      BY <3>1, <3>3, <3>4
  <2>4. Keeps(drafts, drafts')
    <3>1. drafts' = drafts \/ drafts' = Append(drafts, got[t])
      BY <1>7 DEF DumpRules, DumpProposed
    <3>2. Grown(drafts, Append(drafts, got[t]), got[t])
      BY <1>1, <1>2, <1>7, HistoryGrows
    <3>3. Keeps(drafts, Append(drafts, got[t]))
      BY <3>2 DEF Grown
    <3>4. Keeps(drafts, drafts)
      BY DEF Keeps
    <3> QED
      BY <3>1, <3>3, <3>4
  <2> QED
    BY <1>3, <2>2, <2>3, <2>4
<1>8. CASE (\E c \in Connections : Connect(c) \/ Disconnect(c)) \/ UNCHANGED vars
  <2>1. UNCHANGED <<pc, job, got, versions, drafts>>
    BY <1>8 DEF Connect, Disconnect, vars
  <2>2. GoesOn
    BY <2>1 DEF Keeps
  <2> QED
    BY <1>3, <2>2
<1>9. CASE Crash
  BY <1>9 DEF Crash
<1> QED
  BY <1>4, <1>5, <1>6, <1>7, <1>8, <1>9 DEF Next, Handle

-----------------------------------------------------------------------------
(***************************************************************************)
(* What clients and connections see.                                       *)
(***************************************************************************)
(* The read of a handler that takes the lock fails only on a file that a crash
   has cut off. *)
LEMMA AnsweredStep ==
    TypeOK /\ History /\ LockHeld /\ LockedRequestsSucceed /\ [Next]_vars =>
        LockedRequestsSucceed'
<1> SUFFICES ASSUME TypeOK, History, LockHeld, LockedRequestsSucceed, [Next]_vars,
                    ~crashed', NEW u \in Threads, reply'[u] = "failed", job'[u] # None
             PROVE  ~ReadsRules(job'[u])
  BY DEF LockedRequestsSucceed
<1>1. /\ reply \in [Threads -> {"none", "ok", "rejected", "failed"}]
      /\ job \in [Threads -> Jobs \cup {None}]
  BY DEF TypeOK
<1>2. ASSUME reply'[u] = reply[u], job'[u] = job[u], ~crashed PROVE ~ReadsRules(job'[u])
  BY <1>2 DEF LockedRequestsSucceed
<1>3. CASE \E t \in Threads : Begin(t)
  <2>1. PICK t \in Threads : Begin(t)
    BY <1>3
  <2>2. u # t
    BY <1>1, <2>1 DEF Begin
  <2>3. ~crashed
    BY <2>1 DEF Begin, proxy
  <2> QED
    BY <1>1, <1>2, <2>1, <2>2, <2>3 DEF Begin
<1>4. CASE \E t \in Threads : ReadFails(t)
  <2>1. PICK t \in Threads : ReadFails(t)
    BY <1>4
  <2>2. ~crashed
    BY <2>1 DEF ReadFails, proxy
  <2>3. job' = job /\ (u # t => reply'[u] = reply[u])
    BY <1>1, <2>1 DEF ReadFails, Answer
  <2>4. ASSUME u = t, ReadsRules(job[u]) PROVE FALSE
    <3>1. lock = None /\ ~Parses(rulesFile)
      BY <2>1, <2>4 DEF ReadFails, MayRead, Source
    <3>2. rulesFile # Empty
      BY <2>2, <3>1 DEF LockHeld
    <3>3. PICK i \in DOMAIN versions : rulesFile = versions[i]
      BY <3>2 DEF History
    <3> QED
      BY <3>1, <3>3, ListTypes, ParsedParts
  <2> QED
    BY <1>2, <2>2, <2>3, <2>4
<1>5. CASE \E t \in Threads : Reject(t) \/ DumpRules(t) \/ DumpProposed(t)
  <2>1. PICK t \in Threads : Reject(t) \/ DumpRules(t) \/ DumpProposed(t)
    BY <1>5
  <2>2. ~crashed
    BY <2>1 DEF Reject, DumpRules, DumpProposed, proxy
  <2>3. u # t
    BY <1>1, <2>1 DEF Reject, DumpRules, DumpProposed, Answer
  <2> QED
    BY <1>1, <1>2, <2>1, <2>2, <2>3 DEF Reject, DumpRules, DumpProposed, Answer
<1>6. CASE \/ \E t \in Threads : Edit(t) \/ OpenRules(t) \/ OpenProposed(t)
           \/ \E c \in Connections : Connect(c) \/ Disconnect(c)
           \/ UNCHANGED vars
  <2>1. ~crashed
    BY <1>6 DEF Edit, OpenRules, OpenProposed, Connect, Disconnect, vars, proxy
  <2> QED
    BY <1>2, <1>6, <2>1 DEF Edit, OpenRules, OpenProposed, Connect, Disconnect, vars
<1>7. CASE Crash
  BY <1>7 DEF Crash
<1> QED
  BY <1>3, <1>4, <1>5, <1>6, <1>7 DEF Next, Handle

\* EngineIsSomeVersion over the places of the history.
EngineLoaded ==
    \A c \in Connections :
        conn[c] = "open" => \E i \in DOMAIN versions : engine[c] = LoadRules(versions[i])

(* The proxy reads the file without the lock, but half a list does not parse. *)
LEMMA EngineStep == TypeOK /\ History /\ EngineLoaded /\ [Next]_vars => EngineLoaded'
<1> SUFFICES ASSUME TypeOK, History, EngineLoaded, [Next]_vars,
                    NEW c \in Connections, conn'[c] = "open"
             PROVE  \E i \in DOMAIN versions' : engine'[c] = LoadRules(versions'[i])
  BY DEF EngineLoaded
<1>1. /\ conn \in [Connections -> {"closed", "open", "refused"}]
      /\ DOMAIN engine = Connections
      /\ versions \in Seq(Seq(Anything))
      /\ \A t \in Threads : got[t] \in Seq(Anything)
  BY ListTypes DEF TypeOK, Anything
<1>2. ASSUME conn[c] = "open", engine'[c] = engine[c], Keeps(versions, versions')
      PROVE  \E i \in DOMAIN versions' : engine'[c] = LoadRules(versions'[i])
  <2>1. PICK i \in DOMAIN versions : engine[c] = LoadRules(versions[i])
    BY <1>2 DEF EngineLoaded
  <2>2. i \in DOMAIN versions' /\ versions'[i] = versions[i]
    BY <1>2 DEF Keeps
  <2> QED
    BY <1>2, <2>1, <2>2
<1>3. CASE \E t \in Threads : Begin(t) \/ Handle(t)
  <2>1. PICK t \in Threads : Begin(t) \/ Handle(t)
    BY <1>3
  <2>2. UNCHANGED <<conn, engine>> /\ (versions' = versions \/ versions' = Append(versions, got[t]))
    BY <2>1 DEF Begin, Handle, ReadFails, Reject, Edit, OpenRules, DumpRules, OpenProposed,
                DumpProposed, proxy
  <2>3. Grown(versions, Append(versions, got[t]), got[t])
    BY <1>1, HistoryGrows
  <2>4. Keeps(versions, Append(versions, got[t])) /\ Keeps(versions, versions)
    BY <2>3 DEF Grown, Keeps
  <2>5. Keeps(versions, versions')
    BY <2>2, <2>4
  <2> QED
    BY <1>2, <2>2, <2>5
<1>4. CASE \E d \in Connections : Connect(d)
  <2>1. PICK d \in Connections : Connect(d)
    BY <1>4
  <2>2. versions' = versions
    BY <2>1 DEF Connect
  <2>3. CASE c = d
    <3>1. Readable(rulesFile) /\ engine'[c] = LoadRules(rulesFile)
      BY <1>1, <2>1, <2>3 DEF Connect
    <3>2. PICK i \in DOMAIN versions : rulesFile = versions[i]
      BY <3>1 DEF History, Readable
    <3> QED
      BY <2>2, <3>1, <3>2
  <2>4. CASE c # d
    <3>1. conn'[c] = conn[c] /\ engine'[c] = engine[c]
      BY <1>1, <2>1, <2>4 DEF Connect
    <3> QED
      BY <1>2, <2>2, <3>1 DEF Keeps
  <2> QED
    BY <2>3, <2>4
<1>5. CASE \E d \in Connections : Disconnect(d)
  <2>1. PICK d \in Connections : Disconnect(d)
    BY <1>5
  <2>2. c # d /\ versions' = versions /\ conn'[c] = conn[c] /\ engine'[c] = engine[c]
    BY <1>1, <2>1 DEF Disconnect
  <2> QED
    BY <1>2, <2>2 DEF Keeps
<1>6. CASE Crash
  BY <1>6 DEF Crash
<1>7. CASE UNCHANGED vars
  BY <1>2, <1>7 DEF vars, Keeps
<1> QED
  BY <1>3, <1>4, <1>5, <1>6, <1>7 DEF Next

-----------------------------------------------------------------------------
(***************************************************************************)
(* The theorems.                                                           *)
(***************************************************************************)
Inv == TypeOK /\ History /\ LockHeld /\ Derived /\ LockedRequestsSucceed /\ EngineLoaded

(* Nothing is being served when the service starts. *)
LEMMA InvInit == Init => Inv
<1> SUFFICES ASSUME Init PROVE Inv
  OBVIOUS
<1>1. TypeOK
  BY InitType
<1>2. History
  <2>1. /\ versions = <<StartFile>> /\ rulesFile = StartFile
        /\ drafts = <<StartProposed>> /\ proposedFile = StartProposed
    BY DEF Init
  <2>2. Unique(StartFile) /\ Unique(StartProposed)
    BY FilesAssumption
  <2>3. \A x : DOMAIN <<x>> = {1} /\ <<x>>[1] = x
    OBVIOUS
  <2> QED
    BY <2>1, <2>2, <2>3 DEF History
<1>3. LockHeld
  <2>1. rulesFile # Empty
    BY FilesAssumption DEF Init, Parses, Readable
  <2>2. \A t \in Threads : lock # t /\ pc[t] = "idle"
    BY StoreAssumption DEF Init
  <2> QED
    BY <2>1, <2>2 DEF LockHeld
<1>4. Derived /\ LockedRequestsSucceed /\ EngineLoaded
  BY DEF Init, Derived, LockedRequestsSucceed, EngineLoaded
<1> QED
  BY <1>1, <1>2, <1>3, <1>4 DEF Inv

(* Every step keeps it. *)
LEMMA InvStep == Inv /\ [Next]_vars => Inv'
BY TypeStep, HistoryStep, LockStep, DerivedStep, AnsweredStep, EngineStep DEF Inv

(* The inductive invariant holds of every behaviour. *)
LEMMA Invariance == Spec => []Inv
BY InvInit, InvStep, PTL DEF Spec

(* The files, the locks, the requests and the lists of every thread and connection
   have their types: no handler leaves a list that is not one of rules. *)
THEOREM TypeCorrect == Spec => []TypeOK
<1>1. Inv => TypeOK
  BY DEF Inv
<1> QED
  BY <1>1, Invariance, PTL

(* No file that can be read has two rules of one id, though add_rule checks the id
   under one hold of the lock and writes under another. *)
THEOREM IdsStayUnique == Spec => []UniqueIds
<1>1. Inv => UniqueIds
  BY DEF Inv, History, UniqueIds, Readable
<1> QED
  BY <1>1, Invariance, PTL

(* Until the process dies, no handler of the rules in force is answered with 500:
   it never meets a file between open and the end of json.dump. *)
THEOREM LockedReadsParse == Spec => []LockedRequestsSucceed
<1>1. Inv => LockedRequestsSucceed
  BY DEF Inv
<1> QED
  BY <1>1, Invariance, PTL

(* A connection runs under what load_rules keeps of one complete list the file
   held, although the proxy reads it without the lock. *)
THEOREM ConnectionsLoadWholeLists == Spec => []EngineIsSomeVersion
<1>1. Inv => EngineIsSomeVersion
  BY DEF Inv, EngineLoaded, EngineIsSomeVersion, ToSet
<1> QED
  BY <1>1, Invariance, PTL

-----------------------------------------------------------------------------
(***************************************************************************)
(* The refinement of the table of indivisible requests.                    *)
(***************************************************************************)
\* The history of the abstract table.
ParsedAll(h) == [i \in DOMAIN h |-> Parsed(h[i])]

(* The abstract history of a history of one list. *)
LEMMA ParsedFirst == \A x : ParsedAll(<<x>>) = <<Parsed(x)>>
<1> SUFFICES ASSUME NEW x PROVE ParsedAll(<<x>>) = <<Parsed(x)>>
  OBVIOUS
<1>1. ParsedAll(<<x>>) = [i \in {1} |-> Parsed(x)]
  BY DEF ParsedAll
<1>2. <<Parsed(x)>> = [i \in {1} |-> Parsed(x)]
  OBVIOUS
<1> QED
  BY <1>1, <1>2

(* A list of rules goes into it as it is. *)
LEMMA ParsedGrows ==
    ASSUME NEW h \in Seq(Seq(Anything)), NEW x \in Seq(ApiRules)
    PROVE  ParsedAll(Append(h, x)) = Append(ParsedAll(h), x)
<1> DEFINE w == Append(h, x)
           n == Len(h)
           p == ParsedAll(h)
<1>1. x \in Seq(Anything) /\ Parsed(x) = x
  BY ParsedTwice DEF Anything
<1>2. /\ n \in Nat /\ DOMAIN h = 1..n /\ DOMAIN w = 1..(n + 1)
      /\ \A i \in 1..n : w[i] = h[i]
      /\ w[n + 1] = x
  BY <1>1, LenProperties, AppendProperties
<1>3. \A i \in 1..n : Parsed(h[i]) \in Seq(ApiRules)
  BY <1>2, ElementOfSeq, ParsedParts
<1>4. p \in [1..n -> Seq(ApiRules)] /\ \A i \in 1..n : p[i] = Parsed(h[i])
  BY <1>2, <1>3 DEF ParsedAll
<1> HIDE DEF w, n, p
<1>5. p \in Seq(Seq(ApiRules)) /\ DOMAIN p = 1..n
  BY <1>2, <1>4, SeqDef
<1>6. Len(p) = n
  BY <1>2, <1>5, LenProperties
<1> DEFINE v == Append(p, x)
<1>7. /\ v \in Seq(Seq(ApiRules)) /\ DOMAIN v = 1..(n + 1)
      /\ \A i \in 1..n : v[i] = p[i]
      /\ v[n + 1] = x
  BY <1>2, <1>5, <1>6, LenProperties, AppendProperties
<1> HIDE DEF v
<1>8. v = [i \in 1..(n + 1) |-> v[i]]
  <2>1. v = [i \in DOMAIN v |-> v[i]]
    BY <1>7, LenProperties
  <2> QED
    BY <1>7, <2>1
<1>9. ParsedAll(w) = [i \in 1..(n + 1) |-> Parsed(w[i])]
  BY <1>2 DEF ParsedAll
<1>10. ASSUME NEW i \in 1..(n + 1) PROVE Parsed(w[i]) = v[i]
  <2>1. CASE i \in 1..n
    BY <1>2, <1>4, <1>7, <2>1
  <2>2. CASE i = n + 1
    BY <1>1, <1>2, <1>7, <2>2
  <2> QED
    BY <1>2, <2>1, <2>2
<1>11. ParsedAll(w) = v
  BY <1>8, <1>9, <1>10
<1> QED
  BY <1>11 DEF w, v, p

(* The table deletes a rule as the API does. *)
LEMMA SameDeletion ==
    /\ \A rules, id : Table!Without(rules, id) = Without(rules, id)
    /\ \A rules : Table!Ids(rules) = Ids(rules)
BY DEF Table!Without, Table!Selected, Table!Position, Table!Ids, Table!Cardinality,
       Without, Selected, Position, Ids, Cardinality

(* A list written to the rules in force is one request of the table. *)
LEMMA RulesWritten ==
    ASSUME TypeOK, LockHeld, Derived, NEW t \in Threads, DumpRules(t)
    PROVE  Table!Next
<1>1. /\ pc[t] = "dump" /\ WritesRules(job[t]) /\ versions' = Append(versions, got[t])
      /\ drafts' = drafts
  BY DEF DumpRules
<1>2. /\ versions \in Seq(Seq(Anything)) /\ got[t] \in Seq(ApiRules)
  BY DEF TypeOK, Anything
<1>3. ParsedAll(versions') = Append(ParsedAll(versions), got[t])
  BY <1>1, <1>2, ParsedGrows
<1>4. PICK i \in DOMAIN From(t) :
        /\ ~Rejected(Parsed(From(t)[i]), job[t])
        /\ got[t] = Edited(Parsed(From(t)[i]), job[t])
  BY <1>1 DEF Derived
<1>5. job[t] \in Jobs
  BY <1>1 DEF LockHeld
<1>6. DOMAIN ParsedAll(From(t)) = DOMAIN From(t) /\ ParsedAll(From(t))[i] = Parsed(From(t)[i])
  BY <1>4 DEF ParsedAll
<1>7. ParsedAll(drafts') = ParsedAll(drafts)
  BY <1>1
<1>8. CASE job[t].op = "add"
  <2>1. From(t) = versions
    BY <1>8 DEF From, ReadsRules
  <2>2. job[t].rule \in Posted /\ job[t].rule.id \notin Ids(Parsed(From(t)[i]))
    BY <1>4, <1>5, <1>8 DEF Jobs, Rejected
  <2>3. got[t] = Append(Parsed(From(t)[i]), job[t].rule)
    BY <1>4, <1>8 DEF Edited
  <2>4. got[t] \in Table!Added(ParsedAll(versions)[i])
    BY <1>6, <2>1, <2>2, <2>3, SameDeletion DEF Table!Added
  <2>5. Table!Add
    BY <1>3, <1>4, <1>6, <1>7, <2>1, <2>4 DEF Table!Add, ParsedAll
  <2> QED
    BY <2>5 DEF Table!Next
<1>9. CASE job[t].op = "delete"
  <2>1. From(t) = versions
    BY <1>9 DEF From, ReadsRules
  <2>2. job[t].rule.id \in Ids(Parsed(From(t)[i]))
    BY <1>4, <1>9 DEF Rejected
  <2>3. got[t] = Without(Parsed(From(t)[i]), job[t].rule.id)
    BY <1>4, <1>9 DEF Edited
  <2>4. got[t] \in Table!Removed(ParsedAll(versions)[i])
    BY <1>6, <2>1, <2>2, <2>3, SameDeletion DEF Table!Removed
  <2>5. Table!Delete
    BY <1>3, <1>4, <1>6, <1>7, <2>1, <2>4 DEF Table!Delete, ParsedAll
  <2> QED
    BY <2>5 DEF Table!Next
<1>10. CASE job[t].op = "promote"
  <2>1. From(t) = drafts
    BY <1>10 DEF From, ReadsRules
  <2>2. got[t] = ParsedAll(drafts)[i]
    BY <1>4, <1>6, <1>10, <2>1 DEF Edited
  <2>3. Table!Promote
    BY <1>3, <1>4, <1>6, <1>7, <2>1, <2>2 DEF Table!Promote, ParsedAll
  <2> QED
    BY <2>3 DEF Table!Next
<1> QED
  BY <1>1, <1>8, <1>9, <1>10 DEF WritesRules

(* A list written to the proposals is a proposal to the table. *)
LEMMA ProposalsWritten ==
    ASSUME TypeOK, LockHeld, Derived, NEW t \in Threads, DumpProposed(t)
    PROVE  Table!Next
<1>1. /\ pc[t] = "dump" /\ ~WritesRules(job[t]) /\ drafts' = Append(drafts, got[t])
      /\ versions' = versions
  BY DEF DumpProposed
<1>2. /\ drafts \in Seq(Seq(Anything)) /\ got[t] \in Seq(ApiRules)
  BY DEF TypeOK, Anything
<1>3. ParsedAll(drafts') = Append(ParsedAll(drafts), got[t])
  BY <1>1, <1>2, ParsedGrows
<1>4. PICK i \in DOMAIN From(t) :
        /\ ~Rejected(Parsed(From(t)[i]), job[t])
        /\ got[t] = Edited(Parsed(From(t)[i]), job[t])
  BY <1>1 DEF Derived
<1>5. job[t] \in Jobs
  BY <1>1 DEF LockHeld
<1>6. job[t].op = "propose" /\ job[t].rule \in Posted
  BY <1>1, <1>5 DEF Jobs, WritesRules
<1>7. From(t) = drafts
  BY <1>6 DEF From, ReadsRules
<1>8. i \in DOMAIN ParsedAll(drafts) /\ ParsedAll(drafts)[i] = Parsed(From(t)[i])
  BY <1>4, <1>7 DEF ParsedAll
<1>9. ParsedAll(versions') = ParsedAll(versions)
  BY <1>1
<1>10. job[t].rule.id \notin Ids(Parsed(From(t)[i]))
  BY <1>4, <1>6 DEF Rejected
<1>11. got[t] = Append(Parsed(From(t)[i]), job[t].rule)
  BY <1>4, <1>6 DEF Edited
<1>12. got[t] \in Table!Added(ParsedAll(drafts)[i])
  BY <1>6, <1>8, <1>10, <1>11, SameDeletion DEF Table!Added
<1>13. Table!Propose
  BY <1>3, <1>8, <1>9, <1>12 DEF Table!Propose, ParsedAll
<1> QED
  BY <1>13 DEF Table!Next

(* Whatever the threads, the connections and crashes do, the lists written are those of a table
   of indivisible requests: each is one request applied to one list its file had. *)
THEOREM HandlersImplementTable == Spec => ImplementsTable
<1>1. Init => Table!Init
  <2> SUFFICES ASSUME Init PROVE Table!Init
    OBVIOUS
  <2>1. versions = <<StartFile>> /\ drafts = <<StartProposed>>
    BY DEF Init
  <2>2. ParsedAll(versions) = <<Parsed(StartFile)>> /\ ParsedAll(drafts) = <<Parsed(StartProposed)>>
    BY <2>1, ParsedFirst
  <2> QED
    BY <2>2 DEF Table!Init, ParsedAll
<1>2. Inv /\ [Next]_vars => [Table!Next]_(Table!vars)
  <2> SUFFICES ASSUME Inv, [Next]_vars PROVE [Table!Next]_(Table!vars)
    OBVIOUS
  <2>1. ASSUME UNCHANGED <<versions, drafts>> PROVE UNCHANGED Table!vars
    BY <2>1 DEF Table!vars
  <2>2. ASSUME NEW t \in Threads, Begin(t) PROVE UNCHANGED Table!vars
    BY <2>1, <2>2 DEF Begin
  <2>3. ASSUME NEW t \in Threads, Handle(t) PROVE [Table!Next]_(Table!vars)
    <3>1. CASE ReadFails(t) \/ Reject(t) \/ Edit(t) \/ OpenRules(t) \/ OpenProposed(t)
      BY <2>1, <3>1 DEF ReadFails, Reject, Edit, OpenRules, OpenProposed
    <3>2. CASE DumpRules(t)
      BY <3>2, RulesWritten DEF Inv
    <3>3. CASE DumpProposed(t)
      BY <3>3, ProposalsWritten DEF Inv
    <3> QED
      BY <2>3, <3>1, <3>2, <3>3 DEF Handle
  <2>4. ASSUME NEW c \in Connections, Connect(c) \/ Disconnect(c) PROVE UNCHANGED Table!vars
    BY <2>1, <2>4 DEF Connect, Disconnect
  <2>5. CASE Crash \/ UNCHANGED vars
    BY <2>1, <2>5 DEF Crash, vars
  <2> QED
    BY <2>2, <2>3, <2>4, <2>5 DEF Next
<1> QED
  BY <1>1, <1>2, Invariance, PTL DEF Spec, Table!Spec, ImplementsTable
=============================================================================
