------------------------------ MODULE TdsGate ------------------------------
(***************************************************************************)
(* The pipe as a gate for messages: what the policy may make of each of    *)
(* them, and that reads, packets and buffers change nothing about it.      *)
(***************************************************************************)
EXTENDS TdsPipe

\* A packet without its header.
Carrying(typ, body) == [typ |-> typ, body |-> body]

\* A threshold may hold a block back, and the batch goes out as it was sent.
BatchOutcomes(text) ==
    CASE text = <<>> \/ MustBlock(text) -> {<<>>}
      [] text # <<>> /\ ~Enforced(text) -> {<<Carrying("batch", Corrected(text))>>}
      [] OTHER                          -> {<<>>, <<Carrying("batch", text)>>}

\* Of a call that is not rewritten the last packet is passed on.
CallOutcomes(body, last) ==
    CASE RpcDropped(body)   -> {<<>>}
      [] RpcRewritten(body) -> {<<Carrying("rpc", new)>> :
                                   new \in {FitInPlace(body)} \cup (IF Repack THEN {body} ELSE {})}
      [] OTHER              -> {<<Carrying("rpc", last)>>}

Outcomes(m) ==
    CASE m.typ = "batch" -> BatchOutcomes(Text(FlattenSeq(m.parts)))
      [] m.typ = "rpc"   -> CallOutcomes(FlattenSeq(m.parts), m.parts[Len(m.parts)])
      [] m.typ = "other" -> {[i \in DOMAIN m.parts |-> Carrying("other", m.parts[i])]}

\* A piece that ends its message.
EndsOne(p) == Head(p.cells).eom
Carried(p) == Carrying(p.typ, Tail(p.cells))

\* How many of the pieces belong to messages that were decided to their end: of
\* a message that is passed on packet by packet more may be to come.
Decided(pieces) ==
    Cardinality({i \in DOMAIN pieces : \E j \in DOMAIN pieces : i <= j /\ EndsOne(pieces[j])})

Delivered(pieces) == [i \in 1..Decided(pieces) |-> Carried(pieces[i])]

Gate == INSTANCE MessageGate WITH
    Message   <- Messages,
    Outcomes  <- Outcomes,
    delivered <- Delivered(up \o out)

(* Packets, reads and buffers put aside, the pipe decides the messages one at a
   time, each once, as a whole and in the order they were sent. *)
ImplementsGate == Gate!Safety
=============================================================================
