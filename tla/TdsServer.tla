----------------------------- MODULE TdsServer -----------------------------
(***************************************************************************)
(* The upstream server as the proxy's output meets it: it cuts the bytes   *)
(* into packets by their length fields and joins the payloads up to the    *)
(* packet marked end-of-message.  The server is no part of the repository; *)
(* the framing is the one src/tds/parser.py reads.                         *)
(***************************************************************************)
EXTENDS TdsGate

\* A message as the server knows it: it may be told to reset the connection first.
Message(typ, reset, body) == [typ |-> typ, reset |-> reset, body |-> body]

\* The server between two cells: the messages it has, what it has of the one that is
\* not complete, the header it read last, what is missing of that packet, and whether
\* it met something that is no header where one had to be.
Receiver == [msgs : Seq([typ : Types, reset : BOOLEAN, body : Seq(Cell)]),
             body : Seq(Cell), reset : BOOLEAN, head : Header, left : Nat, lost : BOOLEAN]

Connected == [msgs |-> <<>>, body |-> <<>>, reset |-> FALSE, left |-> 0, lost |-> FALSE,
              head |-> [typ |-> "other", eom |-> TRUE, mark |-> "first", len |-> 1]]

\* Of the packet of header h n cells are missing, and b of its message is there.
Within(s, h, b, n) ==
    [msgs |-> s.msgs, body |-> b, reset |-> s.reset \/ h.mark = "reset", head |-> h,
     left |-> n, lost |-> FALSE]

\* With the last cell of its last packet the message is there.
Checked(s) ==
    IF s.left = 0 /\ s.head.eom
    THEN [msgs |-> Append(s.msgs, Message(s.head.typ, s.reset, s.body)), body |-> <<>>,
          reset |-> FALSE, head |-> s.head, left |-> 0, lost |-> FALSE]
    ELSE s

Takes(s, c) ==
    CASE s.lost -> s
      [] ~s.lost /\ s.left > 0 ->
            Checked(Within(s, s.head, Append(s.body, c), s.left - 1))
      [] ~s.lost /\ s.left = 0 ->
            IF c \in Symbols \/ c.len = 0
            THEN [s EXCEPT !.lost = TRUE]
            ELSE Checked(Within(s, c, s.body, c.len - 1))

Receive(bytes) ==
    LET after[n \in 0..Len(bytes)] ==
            IF n = 0 THEN Connected ELSE Takes(after[n - 1], bytes[n])
    IN  after[Len(bytes)]

Bytes(pieces) == FlattenSeq([i \in DOMAIN pieces |-> pieces[i].cells])

\* What is left of a message: the packet made of a batch has lost the status bits.
Arriving(m) == Message(m.typ, m.reset /\ m.typ # "batch", FlattenSeq(m.parts))
Due         == [i \in DOMAIN sent |-> Arriving(sent[i])]

\* A message that the loop, with nothing enforced, hands on whole: a batch has text
\* that can be read and that one packet can hold, a call has a single packet.
HandedOn(m) ==
    LET text == FlattenSeq(m.parts) IN
    /\ m.typ = "batch" => /\ text # <<>>
                          /\ \A i \in DOMAIN text : text[i] \notin Undecodable
                          /\ 1 + Len(text) < LenMod
    /\ m.typ = "rpc"   => Len(m.parts) = 1

(* Dry run: with nothing enforced the server gets every message the client sent, up to
   the point the proxy has reached, each once, in order and with the type and payload it
   was sent with.  The request to reset the connection before it arrives as well, except
   with a batch, which has lost it: batches do not pass unchanged. *)
Transparent == Receive(Bytes(up \o out)).msgs = SubSeq(Due, 1, handled)
=============================================================================
