----------------------------- MODULE RulesStore -----------------------------
(***************************************************************************)
(* The rules files and everybody who uses them: the handlers of the rules  *)
(* API (src/api.py), which FastAPI runs in the threads of a pool, and the  *)
(* proxy, which reads the rules in force once per connection               *)
(* (load_rules, called by _pipe).                                          *)
(*                                                                         *)
(* A file that is open for writing is empty until it is closed; two        *)
(* writers of one file overwrite each other and may leave the longer       *)
(* text's end behind the shorter one.  Neither content parses.  A file     *)
(* that does not exist reads as the empty list and is modelled as it.      *)
(***************************************************************************)
EXTENDS PolicyEngine, SequencesExt

CONSTANTS
    Threads,        \* threads that run API handlers
    Connections,    \* connections clients open through the proxy
    Posted,         \* rules clients post, with every field of the API's Rule
    StartFile,      \* objects of RULES_PATH when the service starts
    StartProposed,  \* objects of PROPOSED_RULES_PATH when the service starts
    Empty,          \* content of a file that was opened for writing
    Mixed,          \* content left by two writers at once
    MaxRequests     \* bound: requests the clients make

-----------------------------------------------------------------------------
(***************************************************************************)
(* The API's Rule.  It has two fields more than the rules of the engine,   *)
(* and model_dump writes all of them.                                      *)
(***************************************************************************)
Defaults  == [reason |-> "", confidence |-> 1, enabled |-> TRUE,
              apply_in_envs |-> None, min_hits_to_enforce |-> 0]
ApiFields == RequiredFields \cup DOMAIN Defaults

Accepted(o) ==
    RequiredFields \subseteq DOMAIN o /\ o.target \in Targets /\ o.action \in Actions

Model(o) == [f \in ApiFields |-> IF f \in DOMAIN o THEN o[f] ELSE Defaults[f]]

Readable(file) == file \notin {Empty, Mixed}

\* One object that the model does not accept fails the whole read.
Parses(file) == Readable(file) /\ \A i \in DOMAIN file : Accepted(file[i])

\* Mutant: the objects as they are in the file.
RawObjects(file) == file

Parsed(file) == [i \in DOMAIN file |-> Model(file[i])]

Ids(rules) == {rules[i].id : i \in DOMAIN rules}

Unique(rules) == \A i, j \in DOMAIN rules : rules[i].id = rules[j].id => i = j

Objects  == ToSet(StartFile) \cup ToSet(StartProposed) \cup Posted
ApiRules == {Model(o) : o \in Objects}
Contents == Seq(Objects \cup ApiRules) \cup {Empty, Mixed}

ASSUME FilesAssumption ==
    /\ \A r \in Posted : Accepted(r) /\ Model(r) = r
    /\ StartFile \in Seq(Objects) /\ StartProposed \in Seq(Objects)
    /\ \A f \in {StartFile, StartProposed} : Parses(f) /\ Unique(f)
    /\ Empty \notin Seq(Objects \cup ApiRules) /\ Mixed \notin Seq(Objects \cup ApiRules)
ASSUME StoreAssumption ==
    None \notin Threads /\ MaxRequests \in Nat

-----------------------------------------------------------------------------
(***************************************************************************)
(* Requests.                                                               *)
(***************************************************************************)
Jobs == [op : {"add", "propose"}, rule : Posted]
          \cup [op : {"delete"}, rule : [id : Ids(StartFile) \cup {r.id : r \in Posted}]]
          \cup [op : {"promote"}, rule : {None}]

ReadsRules(j)  == j.op \in {"add", "delete"}
WritesRules(j) == j.op \in {"add", "delete", "promote"}

\* Mutant: proposals are not looked at for their id.
RejectedUnlessProposal(rules, j) ==
    \/ j.op = "add"    /\ j.rule.id \in Ids(rules)
    \/ j.op = "delete" /\ j.rule.id \notin Ids(rules)

\* Answered with 409 or 404.
Rejected(rules, j) ==
    \/ j.op \in {"add", "propose"} /\ j.rule.id \in Ids(rules)
    \/ j.op = "delete"             /\ j.rule.id \notin Ids(rules)

Without(rules, id) == Selected(rules, {i \in DOMAIN rules : rules[i].id # id})

\* Mutant: a new rule goes in front of the others.
EditedInFront(rules, j) ==
    CASE j.op = "delete"  -> Without(rules, j.rule.id)
      [] j.op = "promote" -> rules
      [] OTHER            -> <<j.rule>> \o rules

Edited(rules, j) ==
    CASE j.op = "delete"  -> Without(rules, j.rule.id)
      [] j.op = "promote" -> rules
      [] OTHER            -> Append(rules, j.rule)

-----------------------------------------------------------------------------
VARIABLES
    rulesFile,      \* RULES_PATH
    proposedFile,   \* PROPOSED_RULES_PATH
    lock,           \* _lock: the thread that holds it across a step, or None
    pc,             \* per thread: "idle", "read", "open" or "dump"
    job,            \* per thread: the request it serves
    got,            \* per thread: rules, new_rules or proposed
    reply,          \* per thread: how its last request was answered
    requests,       \* requests made so far
    conn,           \* per connection: "closed", "open" or "refused"
    engine,         \* per connection: the rules of its PolicyEngine
    crashed,        \* history: the process has died
    versions,       \* history: the complete contents RULES_PATH had, in order
    drafts          \* history: those written to PROPOSED_RULES_PATH

vars == <<rulesFile, proposedFile, lock, pc, job, got, reply, requests, conn,
          engine, crashed, versions, drafts>>
proxy == <<conn, engine, crashed>>

TypeOK ==
    /\ rulesFile \in Contents /\ proposedFile \in Contents
    /\ lock \in Threads \cup {None}
    /\ pc \in [Threads -> {"idle", "read", "open", "dump"}]
    /\ job \in [Threads -> Jobs \cup {None}]
    /\ got \in [Threads -> Seq(ApiRules)]
    /\ reply \in [Threads -> {"none", "ok", "rejected", "failed"}]
    /\ requests \in 0..MaxRequests
    /\ conn \in [Connections -> {"closed", "open", "refused"}]
    /\ engine \in [Connections -> Seq(Objects \cup ApiRules)]
    /\ crashed \in BOOLEAN
    /\ versions \in Seq(Seq(Objects \cup ApiRules))
    /\ drafts \in Seq(Seq(Objects \cup ApiRules))

Init ==
    /\ rulesFile = StartFile /\ proposedFile = StartProposed
    /\ lock = None
    /\ pc = [t \in Threads |-> "idle"] /\ job = [t \in Threads |-> None]
    /\ got = [t \in Threads |-> <<>>] /\ reply = [t \in Threads |-> "none"]
    /\ requests = 0
    /\ conn = [c \in Connections |-> "closed"]
    /\ engine = [c \in Connections |-> <<>>]
    /\ crashed = FALSE /\ versions = <<StartFile>> /\ drafts = <<StartProposed>>

-----------------------------------------------------------------------------
(***************************************************************************)
(* The handlers add_rule, delete_rule, add_rule_proposed, rules_promote.   *)
(* The lock is held inside _read_rules and _write_rules, not between them, *)
(* and not at all for the proposed file.                                   *)
(***************************************************************************)
Go(t, where) == pc' = [pc EXCEPT ![t] = where]

Begin(t) ==
    /\ pc[t] = "idle" /\ requests < MaxRequests
    /\ requests' = requests + 1
    /\ \E j \in Jobs :
          /\ job'   = [job EXCEPT ![t] = j]
          /\ reply' = [reply EXCEPT ![t] = "none"]
    /\ Go(t, "read")
    /\ UNCHANGED <<rulesFile, proposedFile, lock, got, proxy, versions, drafts>>

Source(t) == IF ReadsRules(job[t]) THEN rulesFile ELSE proposedFile

\* Mutant: the rules are read without the lock.
MayReadAlways(t) == pc[t] = "read"

MayRead(t) == pc[t] = "read" /\ (ReadsRules(job[t]) => lock = None)

Answer(t, how) ==
    /\ reply' = [reply EXCEPT ![t] = how]
    /\ got' = [got EXCEPT ![t] = <<>>]
    /\ Go(t, "idle")

\* The exception of the JSON parser or of the model: 500.
ReadFails(t) ==
    /\ MayRead(t) /\ ~Parses(Source(t))
    /\ Answer(t, "failed")
    /\ UNCHANGED <<rulesFile, proposedFile, lock, job, requests, proxy, versions,
                   drafts>>

Reject(t) ==
    /\ MayRead(t) /\ Parses(Source(t))
    /\ Rejected(Parsed(Source(t)), job[t])
    /\ Answer(t, "rejected")
    /\ UNCHANGED <<rulesFile, proposedFile, lock, job, requests, proxy, versions,
                   drafts>>

Edit(t) ==
    /\ MayRead(t) /\ Parses(Source(t))
    /\ ~Rejected(Parsed(Source(t)), job[t])
    /\ got' = [got EXCEPT ![t] = Edited(Parsed(Source(t)), job[t])]
    /\ Go(t, "open")
    /\ UNCHANGED <<rulesFile, proposedFile, lock, job, reply, requests, proxy,
                   versions, drafts>>

\* open(RULES_PATH, "w") under the lock.
OpenRules(t) ==
    /\ pc[t] = "open" /\ WritesRules(job[t])
    /\ lock = None
    /\ lock' = t
    /\ rulesFile' = Empty
    /\ Go(t, "dump")
    /\ UNCHANGED <<proposedFile, job, got, reply, requests, proxy, versions, drafts>>

\* Mutant: the lock is not given back.
DumpRulesLocked(t) ==
    /\ pc[t] = "dump" /\ WritesRules(job[t])
    /\ rulesFile' = got[t]
    /\ versions'  = Append(versions, got[t])
    /\ Answer(t, "ok")
    /\ UNCHANGED <<proposedFile, lock, job, requests, proxy, drafts>>

\* json.dump, the end of both with statements, the answer.
DumpRules(t) ==
    /\ pc[t] = "dump" /\ WritesRules(job[t])
    /\ rulesFile' = got[t]
    /\ lock' = None
    /\ versions'  = Append(versions, got[t])
    /\ Answer(t, "ok")
    /\ UNCHANGED <<proposedFile, job, requests, proxy, drafts>>

OpenProposed(t) ==
    /\ pc[t] = "open" /\ ~WritesRules(job[t])
    /\ proposedFile' = Empty
    /\ Go(t, "dump")
    /\ UNCHANGED <<rulesFile, lock, job, got, reply, requests, proxy, versions, drafts>>

\* Written over what another thread wrote since this one opened the file.
DumpProposed(t) ==
    /\ pc[t] = "dump" /\ ~WritesRules(job[t])
    /\ proposedFile' \in {got[t]} \cup (IF proposedFile \in {Empty, got[t]} THEN {} ELSE {Mixed})
    /\ drafts' = Append(drafts, got[t])
    /\ Answer(t, "ok")
    /\ UNCHANGED <<rulesFile, lock, job, requests, proxy, versions>>

Handle(t) ==
    \/ ReadFails(t) \/ Reject(t) \/ Edit(t)
    \/ OpenRules(t) \/ DumpRules(t) \/ OpenProposed(t) \/ DumpProposed(t)

-----------------------------------------------------------------------------
(***************************************************************************)
(* The proxy.  load_rules takes no lock; a file that is not JSON ends the  *)
(* pipe, and with it the connection.                                       *)
(***************************************************************************)
\* Mutant: a file that does not parse counts as no rules.
ConnectWithout(c) ==
    /\ conn[c] = "closed"
    /\ conn'   = [conn EXCEPT ![c] = "open"]
    /\ engine' = [engine EXCEPT ![c] =
                     IF Readable(rulesFile) THEN LoadRules(rulesFile) ELSE <<>>]
    /\ UNCHANGED <<rulesFile, proposedFile, lock, pc, job, got, reply, requests,
                   crashed, versions, drafts>>

Connect(c) ==
    /\ conn[c] = "closed"
    /\ IF Readable(rulesFile)
       THEN /\ conn'   = [conn EXCEPT ![c] = "open"]
            /\ engine' = [engine EXCEPT ![c] = LoadRules(rulesFile)]
       ELSE /\ conn' = [conn EXCEPT ![c] = "refused"]
            /\ UNCHANGED engine
    /\ UNCHANGED <<rulesFile, proposedFile, lock, pc, job, got, reply, requests,
                   crashed, versions, drafts>>

Disconnect(c) ==
    /\ conn[c] # "closed"
    /\ conn'   = [conn EXCEPT ![c] = "closed"]
    /\ engine' = [engine EXCEPT ![c] = <<>>]
    /\ UNCHANGED <<rulesFile, proposedFile, lock, pc, job, got, reply, requests,
                   crashed, versions, drafts>>

\* The process dies and starts again: what was open for writing stays empty.
Crash ==
    /\ crashed' = TRUE
    /\ lock' = None
    /\ pc' = [t \in Threads |-> "idle"]
    /\ job' = [t \in Threads |-> None]
    /\ got' = [t \in Threads |-> <<>>]
    /\ reply' = [t \in Threads |-> "none"]
    /\ conn' = [c \in Connections |-> "closed"]
    /\ engine' = [c \in Connections |-> <<>>]
    /\ UNCHANGED <<rulesFile, proposedFile, requests, versions, drafts>>

Next ==
    \/ \E t \in Threads : Begin(t) \/ Handle(t)
    \/ \E c \in Connections : Connect(c) \/ Disconnect(c)
    \/ Crash

\* A handler that has begun is run to its end.  The lock is not fair, but a
\* thread can be passed over only by as many requests as the clients make.
Spec == Init /\ [][Next]_vars /\ \A t \in Threads : WF_vars(Handle(t))

-----------------------------------------------------------------------------
(***************************************************************************)
(* Properties.                                                             *)
(***************************************************************************)
(* The id is checked and the file is written under two holds of the lock, or
   under none; still no file ever has two rules of one id, because each writer
   writes the whole list it has checked. *)
UniqueIds ==
    \A f \in {rulesFile, proposedFile} : Readable(f) => Unique(f)

(* As long as the process has not died, a handler of the rules in force never meets a file
   half written: none of them is answered with a 500. *)
LockedRequestsSucceed ==
    ~crashed => \A t \in Threads :
        reply[t] = "failed" /\ job[t] # None => ~ReadsRules(job[t])

(* No connection runs under half a list of rules: the rules of an open
   connection are those of one complete content of the file. *)
EngineIsSomeVersion ==
    \A c \in Connections :
        conn[c] = "open" => \E v \in ToSet(versions) : engine[c] = LoadRules(v)

(* A request that has begun is answered, however the threads meet at the lock. *)
EveryRequestEnds == \A t \in Threads : pc[t] # "idle" ~> pc[t] = "idle"

(* Every rule of the file is one the proxy enforces. *)
FileIsEnforced == Readable(rulesFile) => Len(LoadRules(rulesFile)) = Len(rulesFile)

(* An open connection enforces no rule that has been removed or disabled. *)
RollbackIsImmediate ==
    Readable(rulesFile) => \A c \in Connections :
        \A r \in ToSet(engine[c]) :
            Enabled(r) => \E s \in ToSet(rulesFile) : s.id = r.id /\ Enabled(s)

-----------------------------------------------------------------------------
(***************************************************************************)
(* What concurrent handlers leave of two tables with indivisible requests. *)
(***************************************************************************)
Table == INSTANCE RuleTable WITH
    Rule      <- Posted,
    Start     <- Parsed(StartFile),
    Proposal  <- Parsed(StartProposed),
    tables    <- [i \in DOMAIN versions |-> Parsed(versions[i])],
    proposals <- [i \in DOMAIN drafts |-> Parsed(drafts[i])]

(* Whatever the threads do, each list written is one request applied to one list
   that was in its file before: never to a half of one or a mixture of two. *)
ImplementsTable == Table!Spec
=============================================================================
