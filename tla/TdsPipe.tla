------------------------------ MODULE TdsPipe -------------------------------
(***************************************************************************)
(* The client-to-server half of a proxied connection with the TDS parser   *)
(* on: the coroutine _pipe of src/proxy/tds_proxy.py (direction "c2s",     *)
(* ENABLE_TDS_PARSER=true).  It reads the client's byte stream in pieces   *)
(* of any size, cuts it into TDS packets, gathers the packets of an SQL    *)
(* batch or a procedure call until the one marked end-of-message, asks the *)
(* policy engine, and writes what is left of the message upstream.         *)
(*                                                                         *)
(* Data.  The stream is a sequence of cells: a cell is a packet header or  *)
(* one symbol of a payload.  A symbol stands for a keyword (Insert for all *)
(* of an INSERT up to VALUES), for the value of a column as it is written  *)
(* (ColumnOf) or for any other text; lengths count cells and the 16-bit    *)
(* length field of a header wraps at LenMod.                               *)
(*                                                                         *)
(* The inner loop of _pipe awaits nothing and only this coroutine touches  *)
(* its buffers, so taking it one packet at a time adds no interleaving     *)
(* that the code does not have; the client's sends do interleave.          *)
(***************************************************************************)
EXTENDS PolicyEngine, FiniteSets, SequencesExt

CONSTANTS
    Symbols,        \* payload symbols
    Insert, Update, \* the two statement keywords the column mapping knows
    Where,          \* what has to come behind the assignments of an UPDATE
    Table,          \* the table the statements write to
    ColumnOf,       \* the column a symbol is a value of, or None
    Suggest,        \* suggest_normalizations: the normalized value, or None
    Requote,        \* a value as reconstruct_insert and its like write it again
    Fit,            \* the normalized value padded to the old length, or None
    Undecodable,    \* symbols that are not valid UTF-16LE
    Garbled,        \* what such text becomes when it is decoded as latin-1
    RulesFile,      \* the objects of the rules file when the pipe starts
    Enforcing,      \* ENFORCEMENT_MODE = "enforce"
    Inplace,        \* RPC_AUTOCORRECT_INPLACE
    Repack,         \* RPC_REPACK_BUILDER
    Messages,       \* what clients may send: [typ, reset, parts], one part a packet
    MaxMessages,    \* bound: messages one client sends
    ReadMax,        \* bound: cells one read returns
    LenMod,         \* 2^16, in cells
    MaxRewrite,     \* MAX_REWRITE_BYTES, in cells
    StoreMayFail    \* metrics and decision files may raise on a write

-----------------------------------------------------------------------------
Types  == {"batch", "rpc", "other"}

\* The rest of a header: the first packet of a message, with RESETCONNECTION among its
\* status bits or not, or a later one, whose packet number says so.
Marks  == {"first", "reset", "later"}
Header == [typ : Types, eom : BOOLEAN, mark : Marks, len : Nat]
Cell   == Symbols \cup Header

Rules   == LoadRules(RulesFile)
RuleIds == {Rules[i].id : i \in DOMAIN Rules}

\* Names under which decisions are logged and counted.
Entries == (Actions \cup {"rpc_autocorrect_inplace"}) \X (RuleIds \cup {None})

\* The bytes of a message as its client frames it.
MarkOf(m, i) == IF i > 1 THEN "later" ELSE IF m.reset THEN "reset" ELSE "first"
Packet(m, i) ==
    <<[typ |-> m.typ, eom |-> i = Len(m.parts), mark |-> MarkOf(m, i),
       len |-> 1 + Len(m.parts[i])]>> \o m.parts[i]
Wire(m) == FlattenSeq([i \in DOMAIN m.parts |-> Packet(m, i)])

ASSUME SuggestionsAssumption ==
    /\ Garbled \in Symbols
    /\ Suggest \in [Symbols -> Symbols \cup {None}]
    /\ Requote \in [Symbols -> Symbols]
    /\ Fit     \in [Symbols -> Symbols \cup {None}]
    /\ \A s \in Symbols : s # None /\ s \notin Header
ASSUME RulesAssumption == RulesFile \in Seq(ToSet(RulesFile))
ASSUME NoneAssumption == \A s \in Symbols : [tab |-> None, col |-> ColumnOf[s]] # None
ASSUME WireAssumption ==
    \A m \in Messages :
        /\ m.typ \in Types /\ m.reset \in BOOLEAN
        /\ m.parts \in Seq(Seq(Symbols)) /\ m.parts # <<>>
ASSUME BoundsAssumption ==
    /\ MaxMessages \in Nat /\ ReadMax \in Nat \ {0}
    /\ LenMod \in Nat \ {0} /\ MaxRewrite \in Nat
ASSUME SwitchAssumption == {Enforcing, Inplace, Repack, StoreMayFail} \subseteq BOOLEAN

-----------------------------------------------------------------------------
(***************************************************************************)
(* What is decided about a message.                                        *)
(***************************************************************************)
\* extract_sqlbatch_text: latin-1 reads each of the two bytes of a symbol as
\* a character of its own, and the result is sent on as UTF-16LE.
Text(payload) ==
    IF \E i \in DOMAIN payload : payload[i] \in Undecodable
    THEN [i \in 1..(2 * Len(payload)) |-> Garbled]
    ELSE payload

Column(c) == IF c \in Symbols THEN ColumnOf[c] ELSE None

StatementDecision(text) == Decide(Rules, Statement(text))
ColumnDecision(text, i) == Decide(Rules, ColumnValue(text, Table, Column(text[i])))
ParamDecision(c)        == Decide(Rules, Parameter(Column(c)))

\* The values in the groups behind an INSERT's VALUES, of the INSERT or not.
Grouped(text) ==
    {i \in DOMAIN text :
        /\ Column(text[i]) # None
        /\ \E k \in DOMAIN text : k < i /\ text[k] = Insert /\ \A j \in k..i : text[j] # Update}

\* Values that nothing parts are one group.
Group(i, places) == {j \in places : i..j \cup j..i \subseteq places}

\* Every group has a value for each column, and so is taken for a row.
AllRows(text) ==
    LET places == Grouped(text)
    IN  \A i, j \in places : Cardinality(Group(i, places)) = Cardinality(Group(j, places))

FirstGroup(text) ==
    LET places == Grouped(text)
    IN  {i \in places : \A j \in places : j <= i => j..i \subseteq places}

\* The values an UPDATE assigns, if it has a WHERE.
Assigned(text) ==
    {i \in DOMAIN text :
        /\ Column(text[i]) # None
        /\ \E u, w \in DOMAIN text :
              /\ u < i /\ i < w /\ text[u] = Update /\ text[w] = Where
              /\ \A k \in DOMAIN text : k < u => text[k] # Update
              /\ \A k \in u..i : text[k] # Where}

IsInsert(text) == \E i \in DOMAIN text : text[i] = Insert

\* Positions of the values the regular expressions find.
Values(text) ==
    CASE IsInsert(text) /\ AllRows(text)  -> Grouped(text)
      [] IsInsert(text) /\ ~AllRows(text) -> FirstGroup(text)
      [] OTHER                            -> Assigned(text)
Params(payload) == {i \in DOMAIN payload : Column(payload[i]) # None}

\* Values an autocorrect rule selects and the normalizer changes.
Correctable(text) ==
    {i \in Values(text) : /\ ColumnDecision(text, i).action = "autocorrect"
                          /\ Suggest[text[i]] \notin {None, text[i]}}

\* Parameters rewritten in place, a suggestion equal to the value included.
Fittable(payload) ==
    {i \in Params(payload) : /\ ParamDecision(payload[i]).action = "autocorrect"
                             /\ Fit[payload[i]] # None}

\* Mutant: every value gives way to its suggestion, if it has one or not.
ReencodedUnchecked(text) ==
    [i \in 1..Len(text) |-> IF i \in Values(text) THEN Suggest[text[i]] ELSE text[i]]

\* Every value is written again, the others of the statement like those corrected.
Reencoded(text) ==
    LET values    == Values(text)
        corrected == Correctable(text)
    IN  [i \in 1..Len(text) |->
            CASE i \in corrected          -> Requote[Suggest[text[i]]]
              [] i \in values \ corrected -> Requote[text[i]]
              [] OTHER                    -> text[i]]

\* The values and the text in front of them.
UpToValues(text) ==
    LET values == Values(text)
    IN  values \cup {i \in DOMAIN text : \A v \in values : i < v}

\* Mutant: nothing is kept behind the values, whatever the statement.
KeptAlways(text) == UpToValues(text)

\* reconstruct_multirow_insert keeps the text in front of the rows and the rows,
\* reconstruct_insert and reconstruct_update what is around the values.
Kept(text) == IF IsInsert(text) /\ AllRows(text) THEN UpToValues(text) ELSE 1..Len(text)

Rewrite(text) == Selected(Reencoded(text), Kept(text))

Corrected(text) ==
    IF Enforcing /\ Correctable(text) # {} THEN Rewrite(text) ELSE text

\* Each symbol is one value, so replacing its first occurrence replaces the
\* parameter itself.
FitInPlace(payload) ==
    [i \in 1..Len(payload) |->
        IF i \in Fittable(payload) THEN Fit[payload[i]] ELSE payload[i]]

Blocked(text)    == StatementDecision(text).action = "block"
RpcBlocked(body) == \E i \in Params(body) : ParamDecision(body[i]).action = "block"

-----------------------------------------------------------------------------
VARIABLES
    sent,       \* messages the client has sent
    stream,     \* their bytes
    shut,       \* the client has closed its side
    rd,         \* cells of the stream read so far
    pc,         \* "read", "parse", "raw" or "closed"
    data,       \* data: what the last read returned
    cbuf,       \* counter["_c2s_buf"]
    rest,       \* buf[i:]: what the parse loop has not consumed
    out,        \* out_passthrough, as the pieces it was put together from
    up,         \* pieces written upstream
    sqlChunks,  \* counter["_sql_chunks"], joined
    rpcChunks,  \* counter["_rpc_chunks"], joined
    metrics,    \* the metrics file: plain counters
    ruleHits,   \* the metrics file: rule:<id>:<action> counters
    audit,      \* the decision log: entries per action and rule
    handled     \* history: messages seen to their end

vars == <<sent, stream, shut, rd, pc, data, cbuf, rest, out, up, sqlChunks,
          rpcChunks, metrics, ruleHits, audit, handled>>
client == <<sent, stream, shut>>
stores == <<metrics, ruleHits, audit>>

Counters == {"blocks", "gated_by_threshold", "rpc_seen", "rpc_blocked",
             "rewrite_skipped_size", "rewrite_skipped_budget"}

\* A piece of output: the packet or bytes written, how they came about, and
\* (history) the payload of the message that was decided on.
Piece == [origin : {"rebuilt", "passed", "raw"}, typ : Types,
          cells : Seq(Cell), src : Seq(Cell)]

TypeOK ==
    /\ sent \in Seq(Messages) /\ stream \in Seq(Cell) /\ shut \in BOOLEAN
    /\ rd \in 0..Len(stream)
    /\ pc \in {"read", "parse", "raw", "closed"}
    /\ data \in Seq(Cell) /\ cbuf \in Seq(Cell) /\ rest \in Seq(Cell)
    /\ out \in Seq(Piece) /\ up \in Seq(Piece)
    /\ sqlChunks \in Seq(Cell) /\ rpcChunks \in Seq(Cell)
    /\ metrics \in [Counters -> Nat]
    /\ ruleHits \in [Entries -> Nat] /\ audit \in [Entries -> Nat]
    /\ handled \in Nat

Init ==
    /\ sent = <<>> /\ stream = <<>> /\ shut = FALSE
    /\ rd = 0 /\ pc = "read" /\ data = <<>>
    /\ cbuf = <<>> /\ rest = <<>> /\ out = <<>> /\ up = <<>>
    /\ sqlChunks = <<>> /\ rpcChunks = <<>>
    /\ metrics = [c \in Counters |-> 0]
    /\ ruleHits = [e \in Entries |-> 0] /\ audit = [e \in Entries |-> 0]
    /\ handled = 0

-----------------------------------------------------------------------------
(***************************************************************************)
(* The client.                                                             *)
(***************************************************************************)
ClientSend ==
    /\ ~shut /\ Len(sent) < MaxMessages
    /\ \E m \in Messages : /\ sent'   = Append(sent, m)
                           /\ stream' = stream \o Wire(m)
    /\ UNCHANGED <<shut, rd, pc, data, cbuf, rest, out, up, sqlChunks, rpcChunks,
                   metrics, ruleHits, audit, handled>>

ClientClose ==
    /\ ~shut
    /\ shut' = TRUE
    /\ UNCHANGED <<sent, stream, rd, pc, data, cbuf, rest, out, up, sqlChunks,
                   rpcChunks, metrics, ruleHits, audit, handled>>

(***************************************************************************)
(* reader.read(65536): any amount of what has arrived, appended to what the *)
(* last iteration left over.                                               *)
(***************************************************************************)
ReadData ==
    /\ pc = "read" /\ rd < Len(stream)
    /\ \E k \in 1..ReadMax :
          /\ rd + k <= Len(stream)
          /\ rd'   = rd + k
          /\ data' = SubSeq(stream, rd + 1, rd + k)
    /\ rest' = cbuf \o data'
    /\ out'  = <<>>
    /\ pc'   = "parse"
    /\ UNCHANGED <<sent, stream, shut, cbuf, up, sqlChunks, rpcChunks, metrics,
                   ruleHits, audit, handled>>

\* At end of file what is left in the buffers is given up with the connection.
Eof ==
    /\ pc = "read" /\ shut /\ rd = Len(stream)
    /\ pc' = "closed"
    /\ UNCHANGED <<sent, stream, shut, rd, data, cbuf, rest, out, up, sqlChunks,
                   rpcChunks, metrics, ruleHits, audit, handled>>

-----------------------------------------------------------------------------
(***************************************************************************)
(* The parse loop: one packet.  Where a header is expected the loop takes  *)
(* the bytes as a header whatever they are; bytes of a payload may read as *)
(* any header.                                                             *)
(***************************************************************************)
AnyHeader   == [typ : Types, eom : BOOLEAN, mark : Marks, len : 1..(LenMod - 1)]
HeaderAt(c) == IF c \in Symbols THEN AnyHeader ELSE {c}

\* Mutant: a packet must be followed by another byte.
CompleteTooLate == IF rest = <<>> THEN {}
                   ELSE {h \in HeaderAt(Head(rest)) : h.len < Len(rest)}

\* The headers of the packets that may be complete at the front of rest.
Complete == IF rest = <<>> THEN {}
            ELSE {h \in HeaderAt(Head(rest)) : h.len <= Len(rest)}

Loop(h, typ) == pc = "parse" /\ h \in Complete /\ h.typ = typ

Body(h) == SubSeq(rest, 2, h.len)

\* The payload of the message this packet ends, from the first chunk on.
Gathered(chunks, h) == chunks \o Body(h)

Advance(h) == /\ rest' = SubSeq(rest, h.len + 1, Len(rest))
              /\ UNCHANGED <<sent, stream, shut, rd, pc, data, cbuf, up>>

\* Mutant: the packet does not end its message.
RebuiltOpen(typ, new, src) ==
    [origin |-> "rebuilt", typ |-> typ, src |-> src,
     cells  |-> <<[typ |-> typ, eom |-> FALSE, mark |-> "first",
                  len |-> (1 + Len(new)) % LenMod]>> \o new]

\* A packet of its own: the end-of-message bit and no other, packet 1 of window 0, and
\* a fresh length field.  Of the client's header only the spid is kept.
Rebuilt(typ, new, src) ==
    [origin |-> "rebuilt", typ |-> typ, src |-> src,
     cells  |-> <<[typ |-> typ, eom |-> TRUE, mark |-> "first",
                  len |-> (1 + Len(new)) % LenMod]>> \o new]

\* buf[i:i+length], as it stands.
Passed(h, src) ==
    [origin |-> "passed", typ |-> h.typ, src |-> src, cells |-> SubSeq(rest, 1, h.len)]

Count(c) == metrics' = [metrics EXCEPT ![c] = @ + 1]

\* Adds to a table of counters one for each i of S, under the entry E[i].
Tally(table, S, E) ==
    [e \in Entries |-> table[e] + Cardinality({i \in S : E[i] = e})]

\* An exception inside the loop: the locals are gone, the leftover bytes of
\* the iteration before are still in the counter.
Raise ==
    /\ StoreMayFail
    /\ pc' = "raw" /\ out' = <<>> /\ rest' = <<>>
    /\ UNCHANGED <<sent, stream, shut, rd, data, cbuf, up, handled>>

-----------------------------------------------------------------------------
(***************************************************************************)
(* SQL batches.  Entry 0 of a batch is the decision on the whole text,     *)
(* entry i the correction of its i-th symbol, logged in this order; the    *)
(* log is written before the counter of the rule.                          *)
(***************************************************************************)
BatchEntry(text, i) ==
    IF i = 0
    THEN <<StatementDecision(text).action, StatementDecision(text).rule>>
    ELSE <<"autocorrect", ColumnDecision(text, i).rule>>

\* Mutant: the counter is raised before the log is written.
LogBatchLate(text, logged, counted) ==
    LET E == [i \in 0..Len(text) |-> BatchEntry(text, i)]
    IN  /\ audit'    = Tally(audit, counted, E)
        /\ ruleHits' = Tally(ruleHits, {i \in logged : E[i][2] # None}, E)

LogBatch(text, logged, counted) ==
    LET E == [i \in 0..Len(text) |-> BatchEntry(text, i)]
    IN  /\ audit'    = Tally(audit, logged, E)
        /\ ruleHits' = Tally(ruleHits, {i \in counted : E[i][2] # None}, E)

Hits(id) == ruleHits[<<"block", id>>] + ruleHits[<<"autocorrect", id>>]
              + ruleHits[<<"rpc_autocorrect_inplace", id>>]

\* The decision at hand has been counted when the threshold is looked at.
Gated(text) ==
    LET id == StatementDecision(text).rule
        n  == MinHits(GetRule(Rules, id))
    IN  n > 0 /\ Hits(id) + 1 < n

Enforced(text) == Enforcing /\ Blocked(text)

Corrections(text) == IF Enforced(text) THEN {} ELSE Correctable(text)

BatchPart(h) ==
    /\ Loop(h, "batch") /\ ~h.eom
    /\ sqlChunks' = sqlChunks \o Body(h)
    /\ Advance(h)
    /\ UNCHANGED <<out, rpcChunks, stores, handled>>

\* Mutant: only the packet at hand is looked at.
LastPacketText(h) == Text(Body(h))

\* The text of the batch that ends with this packet.
BatchText(h) == Text(Gathered(sqlChunks, h))

\* Mutant: the chunks are not reset.
BatchEndKeepsChunks(h) == Loop(h, "batch") /\ h.eom /\ UNCHANGED <<sqlChunks, rpcChunks>>

BatchEnd(h) ==
    /\ Loop(h, "batch") /\ h.eom
    /\ sqlChunks' = <<>>
    /\ UNCHANGED rpcChunks

\* A batch without text is neither decided nor forwarded.
EmptyBatch(h) ==
    /\ BatchEnd(h) /\ BatchText(h) = <<>>
    /\ Advance(h)
    /\ handled' = handled + 1
    /\ UNCHANGED <<out, stores>>

BlockBatch(h) ==
    LET text == BatchText(h) IN
    /\ BatchEnd(h) /\ text # <<>>
    /\ Enforced(text) /\ ~Gated(text)
    /\ LogBatch(text, {0}, {0})
    /\ Count("blocks")
    /\ Advance(h)
    /\ handled' = handled + 1
    /\ UNCHANGED out

ForwardBatch(h) ==
    LET text == BatchText(h) IN
    /\ BatchEnd(h) /\ text # <<>>
    /\ Enforced(text) => Gated(text)
    /\ LogBatch(text, {0} \cup Corrections(text), {0} \cup Corrections(text))
    /\ IF Enforced(text)
       THEN /\ Count("gated_by_threshold")
            /\ out' = Append(out, Rebuilt("batch", text, Gathered(sqlChunks, h)))
       ELSE /\ out' = Append(out, Rebuilt("batch", Corrected(text), Gathered(sqlChunks, h)))
            /\ UNCHANGED metrics
    /\ Advance(h)
    /\ handled' = handled + 1

\* One of the writes fails: the log entry of p, the counter of its rule, or
\* (p behind the text) the counter of the block.
BatchFails(h) ==
    LET text    == BatchText(h)
        entries == {0} \cup Corrections(text)
        last    == IF Enforced(text) THEN {Len(text) + 1} ELSE {}
    IN  /\ BatchEnd(h) /\ text # <<>>
        /\ \E p \in entries \cup last, logged \in BOOLEAN :
              /\ logged => p \in entries /\ BatchEntry(text, p)[2] # None
              /\ LogBatch(text, {i \in entries : i < p \/ (logged /\ i = p)},
                                {i \in entries : i < p})
        /\ Raise
        /\ UNCHANGED metrics

-----------------------------------------------------------------------------
(***************************************************************************)
(* Procedure calls.  Every parameter's decision is logged, but under no    *)
(* rule counter; a rewritten parameter is logged and counted.              *)
(***************************************************************************)
\* Mutant: only what was rewritten is logged.
LogRpcChanges(body, looked, fixed, counted) ==
    LET F == [i \in DOMAIN body |->
                 <<"rpc_autocorrect_inplace", ParamDecision(body[i]).rule>>]
    IN  /\ audit'    = Tally(audit, fixed, F)
        /\ ruleHits' = Tally(ruleHits, counted, F)

LogRpc(body, looked, fixed, counted) ==
    LET d == [i \in DOMAIN body |-> ParamDecision(body[i])]
        D == [i \in DOMAIN body |-> <<d[i].action, d[i].rule>>]
        F == [i \in DOMAIN body |-> <<"rpc_autocorrect_inplace", d[i].rule>>]
    IN  /\ audit'    = Tally(Tally(audit, looked, D), fixed, F)
        /\ ruleHits' = Tally(ruleHits, counted, F)

RpcPart(h) ==
    /\ Loop(h, "rpc") /\ ~h.eom
    /\ rpcChunks' = rpcChunks \o Body(h)
    /\ Advance(h)
    /\ UNCHANGED <<out, sqlChunks, stores, handled>>

\* The payload of the call that ends with this packet.
RpcBody(h) == Gathered(rpcChunks, h)

RpcEnd(h) ==
    /\ Loop(h, "rpc") /\ h.eom
    /\ rpcChunks' = <<>>
    /\ UNCHANGED sqlChunks

RpcDropped(body)   == Enforcing /\ RpcBlocked(body)
RpcRewritten(body) == Enforcing /\ Inplace /\ ~RpcBlocked(body) /\ Fittable(body) # {}

BlockRpc(h) ==
    LET body == RpcBody(h) IN
    /\ RpcEnd(h) /\ RpcDropped(body)
    /\ LogRpc(body, Params(body), {}, {})
    /\ metrics' = [metrics EXCEPT !["rpc_seen"] = @ + 1, !["rpc_blocked"] = @ + 1]
    /\ Advance(h)
    /\ handled' = handled + 1
    /\ UNCHANGED out

\* The builder is given the parameters as they were before the rewrite, and
\* when it fails the rewritten payload stands.
RewriteRpc(h) ==
    LET body == RpcBody(h) IN
    /\ RpcEnd(h) /\ RpcRewritten(body)
    /\ LogRpc(body, Params(body), Fittable(body), Fittable(body))
    /\ Count("rpc_seen")
    /\ \E new \in {FitInPlace(body)} \cup (IF Repack THEN {body} ELSE {}) :
          out' = Append(out, Rebuilt("rpc", new, Gathered(rpcChunks, h)))
    /\ Advance(h)
    /\ handled' = handled + 1

\* What is passed on is the packet at hand, the last one of the call.
PassRpc(h) ==
    LET body == RpcBody(h) IN
    /\ RpcEnd(h) /\ ~RpcDropped(body) /\ ~RpcRewritten(body)
    /\ LogRpc(body, Params(body), {}, {})
    /\ Count("rpc_seen")
    /\ out' = Append(out, Passed(h, Gathered(rpcChunks, h)))
    /\ Advance(h)
    /\ handled' = handled + 1

\* inc("rpc_seen") fails: the chunks are not yet reset.
RpcNotSeen(h) ==
    /\ Loop(h, "rpc") /\ h.eom
    /\ rpcChunks' = RpcBody(h)
    /\ Raise
    /\ UNCHANGED <<sqlChunks, stores>>

\* A later write fails: the log entry of a parameter, the counter of the
\* block, or the log entry or a counter of a rewrite.
RpcFails(h) ==
    LET body   == RpcBody(h)
        params == Params(body)
        fixes  == IF RpcRewritten(body) THEN Fittable(body) ELSE {}
    IN  /\ RpcEnd(h)
        /\ \/ \E p \in params :
                 LogRpc(body, {i \in params : i < p}, {}, {})
           \/ /\ RpcDropped(body)
              /\ LogRpc(body, params, {}, {})
           \/ \E p \in fixes, logged \in BOOLEAN :
                 LogRpc(body, params, {i \in fixes : i < p \/ (logged /\ i = p)},
                                      {i \in fixes : i < p})
        /\ Count("rpc_seen")
        /\ Raise

-----------------------------------------------------------------------------
(***************************************************************************)
(* Any other packet, and the end of an iteration.                          *)
(***************************************************************************)
PassOther(h) ==
    /\ Loop(h, "other")
    /\ out' = Append(out, Passed(h, <<>>))
    /\ Advance(h)
    /\ handled' = handled + (IF h.eom THEN 1 ELSE 0)
    /\ UNCHANGED <<sqlChunks, rpcChunks, stores>>

OutLen == FoldSeq(LAMBDA p, n : n + Len(p.cells), 0, out)

\* Mutant: the leftover is added to that of the iteration before.
ParseDoneAdds ==
    /\ pc = "parse"
    /\ rest # <<>> => \E h \in HeaderAt(Head(rest)) : h \notin Complete
    /\ cbuf' = cbuf \o rest /\ rest' = <<>> /\ out' = <<>>
    /\ UNCHANGED <<sent, stream, shut, rd, sqlChunks, rpcChunks, ruleHits, audit,
                   handled>>

\* Mutant: the leftover of the iteration before is kept.
ParseDoneStale ==
    /\ pc = "parse"
    /\ rest # <<>> => \E h \in HeaderAt(Head(rest)) : h \notin Complete
    /\ cbuf' = cbuf /\ rest' = <<>> /\ out' = <<>>
    /\ UNCHANGED <<sent, stream, shut, rd, sqlChunks, rpcChunks, ruleHits, audit,
                   handled>>

\* No complete packet is left: the leftover goes back to the counter.
ParseDone ==
    /\ pc = "parse"
    /\ rest # <<>> => \E h \in HeaderAt(Head(rest)) : h \notin Complete
    /\ cbuf' = rest /\ rest' = <<>> /\ out' = <<>>
    /\ UNCHANGED <<sent, stream, shut, rd, sqlChunks, rpcChunks, ruleHits, audit,
                   handled>>

WriteOut ==
    /\ ParseDone
    /\ OutLen <= MaxRewrite
    /\ up' = up \o out
    /\ pc' = "read" /\ data' = <<>>
    /\ UNCHANGED metrics

\* Too much output: none of it is written.
SkipWrite ==
    /\ ParseDone
    /\ OutLen > MaxRewrite
    /\ Count("rewrite_skipped_size")
    /\ pc' = "read" /\ data' = <<>>
    /\ UNCHANGED up

SkipFails ==
    /\ StoreMayFail
    /\ ParseDone
    /\ OutLen > MaxRewrite
    /\ pc' = "raw"
    /\ UNCHANGED <<up, data, metrics>>

\* After an exception the bytes of the last read are written as they came; the
\* time budget only counts.
RawForward ==
    /\ pc = "raw"
    /\ \/ UNCHANGED metrics
       \/ Count("rewrite_skipped_budget")
    /\ up' = Append(up, [origin |-> "raw", typ |-> "other", cells |-> data,
                         src |-> <<>>])
    /\ pc' = "read" /\ data' = <<>>
    /\ UNCHANGED <<sent, stream, shut, rd, cbuf, rest, out, sqlChunks, rpcChunks,
                   ruleHits, audit, handled>>

\* Counting the overrun fails outside the inner handler: the pipe ends.
RawFails ==
    /\ pc = "raw"
    /\ pc' = "closed"
    /\ UNCHANGED <<sent, stream, shut, rd, data, cbuf, rest, out, up, sqlChunks,
                   rpcChunks, metrics, ruleHits, audit, handled>>

-----------------------------------------------------------------------------
ParsePacket(h) ==
    \/ BatchPart(h) \/ EmptyBatch(h) \/ BlockBatch(h) \/ ForwardBatch(h)
    \/ BatchFails(h)
    \/ RpcPart(h) \/ BlockRpc(h) \/ RewriteRpc(h) \/ PassRpc(h)
    \/ RpcNotSeen(h) \/ RpcFails(h)
    \/ PassOther(h)

Pipe ==
    \/ ReadData \/ Eof
    \/ \E h \in Complete : ParsePacket(h)
    \/ WriteOut \/ SkipWrite \/ SkipFails
    \/ RawForward \/ RawFails

Closed == pc = "closed" /\ UNCHANGED vars

Next == ClientSend \/ ClientClose \/ Pipe \/ Closed

\* The event loop resumes the coroutine whenever its read or drain is ready;
\* nothing makes a client send or close.
Spec == Init /\ [][Next]_vars /\ WF_vars(Pipe)

-----------------------------------------------------------------------------
(***************************************************************************)
(* Properties.                                                             *)
(***************************************************************************)
\* The last n cells read.
LastRead(n) == SubSeq(stream, rd - n + 1, rd)

(* Reading in pieces, keeping the leftover in the counter and slicing it off
   again repeats and reorders nothing: what the loop has yet to parse is always
   the most recent part of the client's stream, without a gap. *)
NothingLostInBuffer ==
    ~StoreMayFail =>
        /\ pc = "parse" => Len(rest) <= rd /\ rest = LastRead(Len(rest))
        /\ pc # "parse" => Len(cbuf) <= rd /\ cbuf = LastRead(Len(cbuf))

(* The loop never takes payload for a header, however the stream is split. *)
HeadersAligned ==
    ~StoreMayFail =>
        /\ pc = "parse" /\ rest # <<>> => Head(rest) \notin Symbols
        /\ pc = "read"  /\ cbuf # <<>> => Head(cbuf) \notin Symbols

\* The engine's rule for this text blocks, and no threshold holds it back.
MustBlock(text) ==
    /\ Enforced(text)
    /\ MinHits(GetRule(Rules, StatementDecision(text).rule)) = 0

\* The rules in force here whose pattern occurs in the text, and those about a parameter.
PatternRules(text) ==
    {i \in DOMAIN Rules : /\ Enabled(Rules[i]) /\ InEnvironment(Rules[i])
                          /\ Rules[i].target = "pattern" /\ Occurs(Rules[i].selector, text)}
ParamRules(name) ==
    {i \in DOMAIN Rules : /\ Enabled(Rules[i]) /\ InEnvironment(Rules[i])
                          /\ Rules[i].target = "column"
                          /\ Rules[i].selector.tab = None /\ Rules[i].selector.col = name}

\* The first of these rules blocks.
FirstBlocks(those) == \E i \in those : Rules[i].action = "block" /\ \A j \in those : i <= j

(* In enforce mode no batch packet the proxy makes comes from a whole message whose
   text the first pattern rule to occur in it blocks, and no packet of a call it makes
   or passes on from a call with a parameter whose first rule blocks, in whichever
   packet the words or the parameter came.  Nothing is said here of rules about the
   columns and tables of a statement (NoBlockedValueForwarded does), nor of the raw
   bytes after a failure, nor of a rule with a threshold, which is never loaded. *)
NoBlockedForwarded ==
    Enforcing =>
        \A p \in ToSet(up) \cup ToSet(out) :
            /\ p.typ = "batch" => ~FirstBlocks(PatternRules(Text(p.src)))
            /\ p.typ = "rpc" =>
                   \A i \in Params(p.src) : ~FirstBlocks(ParamRules(Column(p.src[i])))

(* docs/ENFORCEMENT.md: for each candidate value the rules are evaluated in order, and
   block rejects operations with forbidden values.  In enforce mode no batch packet the
   proxy makes has a value for which the engine's first rule, whether about its column,
   its table or a pattern, blocks. *)
NoBlockedValueForwarded ==
    Enforcing =>
        \A p \in ToSet(up) \cup ToSet(out) : p.typ = "batch" =>
            \A i \in Values(Text(p.src)) : ColumnDecision(Text(p.src), i).action # "block"

(* A rule is never credited with a hit that the decision log does not show:
   the log is written first, wherever a write fails. *)
HitsAudited == \A e \in Entries : ruleHits[e] <= audit[e]

\* The entries of the decision log that say "block", numbered under each rule.
BlockEntries == UNION {{e} \X (1..audit[e]) : e \in {e \in Entries : e[1] = "block"}}

(* Every message the proxy drops because of a rule is in the decision log, and
   this still holds when a write fails after it and the message is met again. *)
DropsAudited == metrics["blocks"] + metrics["rpc_blocked"] <= Cardinality(BlockEntries)

(* A statement is rewritten in its values alone, and only if an autocorrect rule is about
   one of them; then each value stands where it stood, written again as it was or, under
   such a rule, as its suggestion.  What is dropped comes behind the first value of an
   INSERT and is no value.  (What writing a value again makes of it is another matter:
   Requote is not the identity.) *)
OnlyValuesRewritten ==
    \A p \in ToSet(up) : p.typ = "batch" =>
        LET text   == Text(p.src)
            new    == Tail(p.cells)
            values == Values(text)
            ruled  == {i \in values : ColumnDecision(text, i).action = "autocorrect"}
            behind == {i \in DOMAIN text \ values : IsInsert(text) /\ \E v \in values : v < i}
        IN  new # text =>
                /\ Enforcing /\ ruled # {}
                /\ \E kept \in {DOMAIN text, DOMAIN text \ behind} :
                      /\ Len(new) = Cardinality(kept)
                      /\ \A i \in kept :
                            LET now == new[Position(kept, i)]
                            IN  \/ i \notin values /\ now = text[i]
                                \/ i \in values    /\ now = Requote[text[i]]
                                \/ i \in ruled     /\ now = Requote[Suggest[text[i]]]

(* Every message sent is decided, and what it became is written: the pipe does
   not sit on a complete message. *)
EverythingWritten ==
    \A n \in 1..MaxMessages :
        Len(sent) >= n ~> pc = "closed" \/ (handled >= n /\ out = <<>>)
=============================================================================
