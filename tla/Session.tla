------------------------------ MODULE Session ------------------------------
(***************************************************************************)
(* One client's connection through the proxy: handle_client and the two    *)
(* pipes it starts (src/proxy/tds_proxy.py), without the TDS parser.  With *)
(* Sniff the client's pipe looks at the text of each read before it passes *)
(* it on; without it both pipes are raw, as those of src/proxy/tds_tls.py  *)
(* are, whose client never half-closes (TLS cannot).                       *)
(*                                                                         *)
(* A pipe is named by the peer it reads from: pipe "client" is c2s.  It    *)
(* writes to the socket of the other peer.  Bytes are symbols; a read      *)
(* takes any number of those that wait.  What the peers and the sockets do *)
(* is external, modelled from asyncio's streams as the code uses them.     *)
(***************************************************************************)
EXTENDS PolicyEngine, SequencesExt

CONSTANTS
    Sniff,          \* ENABLE_SQL_TEXT_SNIFF, with ENABLE_TDS_PARSER unset
    Enforcing,      \* ENFORCEMENT_MODE = "enforce"
    RulesFile,      \* content of RULES_PATH
    Keywords,       \* symbols of the words that make a read look like SQL
    Data,           \* per peer: the symbols it sends
    StoreMayFail,   \* the counters' file may be out of reach
    MaxSent,        \* bound: per peer, the symbols it sends
    HighWater,      \* symbols a socket holds before drain waits
    ReadMax         \* symbols of the longest read

Peers == {"client", "server"}
Other(p) == IF p = "client" THEN "server" ELSE "client"

ASSUME SessionAssumption ==
    /\ {Sniff, Enforcing, StoreMayFail} \subseteq BOOLEAN
    /\ MaxSent \in [Peers -> Nat] /\ HighWater \in Nat /\ ReadMax \in Nat \ {0}
    /\ DOMAIN Data = Peers /\ \A p \in Peers : None \notin Data[p]

-----------------------------------------------------------------------------
VARIABLES
    peer,       \* per peer: "open", "eof" (sends no more), "gone" (takes no more)
    sent,       \* per peer: what it has sent
    got,        \* per peer: what it has received
    inbox,      \* per peer: what it sent and the proxy has not read
    outbuf,     \* per peer: written to its socket, not received yet
    sock,       \* per peer: the proxy's end of its connection, "open" or "closed"
    pc,         \* per pipe: "none", "read", "drain", "close" or "ended"
    cancel,     \* per pipe: CancelledError "no", "asked" for or "thrown"
    handler,    \* handle_client: "connect", "wait", "c2s", "s2c" or "ended"
    loaded,     \* load_rules did not raise
    stopping,   \* the event loop is ending and cancels every task
    refused     \* history: symbols sent before the read a rule refused, or None

net  == <<peer, sent, got>>
vars == <<net, inbox, outbuf, sock, pc, cancel, handler, stopping, loaded, refused>>

TypeOK ==
    /\ peer \in [Peers -> {"open", "eof", "gone"}]
    /\ \A f \in {sent, got, inbox, outbuf} : DOMAIN f = Peers
    /\ \A p \in Peers :
          /\ sent[p] \in Seq(Data[p]) /\ inbox[p] \in Seq(Data[p])
          /\ got[p] \in Seq(Data[Other(p)]) /\ outbuf[p] \in Seq(Data[Other(p)])
    /\ sock \in [Peers -> {"open", "closed"}]
    /\ pc \in [Peers -> {"none", "read", "drain", "close", "ended"}]
    /\ cancel \in [Peers -> {"no", "asked", "thrown"}]
    /\ handler \in {"connect", "wait", "c2s", "s2c", "ended"}
    /\ loaded \in BOOLEAN /\ stopping \in BOOLEAN
    /\ refused \in Nat \cup {None}

Init ==
    /\ peer = [p \in Peers |-> "open"]
    /\ sent = [p \in Peers |-> <<>>] /\ got = [p \in Peers |-> <<>>]
    /\ inbox = [p \in Peers |-> <<>>] /\ outbuf = [p \in Peers |-> <<>>]
    /\ sock = [p \in Peers |-> "open"]
    /\ pc = [p \in Peers |-> "none"] /\ cancel = [p \in Peers |-> "no"]
    /\ handler = "connect" /\ loaded = TRUE /\ stopping = FALSE /\ refused = None

-----------------------------------------------------------------------------
(***************************************************************************)
(* The peers.                                                              *)
(***************************************************************************)
Reached(p) == p = "client" \/ handler # "connect"

Send(p) ==
    /\ Reached(p) /\ peer[p] = "open" /\ Len(sent[p]) < MaxSent[p]
    /\ \E s \in Data[p] :
          /\ sent'  = [sent EXCEPT ![p] = Append(@, s)]
          /\ inbox' = [inbox EXCEPT ![p] = IF sock[p] = "open" THEN Append(@, s) ELSE @]
    /\ UNCHANGED <<peer, got, outbuf, sock, pc, cancel, handler, stopping, loaded, refused>>

\* shutdown(SHUT_WR): the peer still receives.
HalfClose(p) ==
    /\ Reached(p) /\ peer[p] = "open"
    /\ peer' = [peer EXCEPT ![p] = "eof"]
    /\ UNCHANGED <<sent, got, inbox, outbuf, sock, pc, cancel, handler, stopping, loaded, refused>>

\* close, reset or death; what was on the way to it is lost.
Leave(p) ==
    /\ Reached(p) /\ peer[p] # "gone"
    /\ peer'   = [peer EXCEPT ![p] = "gone"]
    /\ outbuf' = [outbuf EXCEPT ![p] = <<>>]
    /\ UNCHANGED <<sent, got, inbox, sock, pc, cancel, handler, stopping, loaded, refused>>

\* A closed socket still delivers what was written to it.
Receive(p) ==
    /\ outbuf[p] # <<>>
    /\ got'    = [got EXCEPT ![p] = Append(@, Head(outbuf[p]))]
    /\ outbuf' = [outbuf EXCEPT ![p] = Tail(@)]
    /\ UNCHANGED <<peer, sent, inbox, sock, pc, cancel, handler, stopping, loaded, refused>>

-----------------------------------------------------------------------------
(***************************************************************************)
(* The pipes.  A task that was cancelled takes no step but the exception.  *)
(***************************************************************************)
At(p, where) == pc[p] = where /\ cancel[p] = "no"
Go(p, where) == pc' = [pc EXCEPT ![p] = where]

Rules == LoadRules(RulesFile)

LooksLikeSql(text) == \E i \in DOMAIN text : text[i] \in Keywords

Blocked(text) ==
    /\ Sniff /\ LooksLikeSql(text)
    /\ Decide(Rules, Statement(text)).action = "block"

\* Mutant: drain does not wait.
DrainedAtOnce(p) == At(p, "drain")

\* await writer.drain() returns; at once unless the buffer is over its mark.
Drained(p) == At(p, "drain") /\ Len(outbuf[Other(p)]) <= HighWater

\* Mutant: the writer is not closed.
CloseNothing(p, box) == Go(p, "close") /\ inbox' = box /\ UNCHANGED sock

\* The finally clause.  writer.close() ends the whole connection with the other
\* peer: of what waits to be read from it, box, only what asyncio's stream has
\* taken in already is left to the other pipe.
Close(p, box) ==
    /\ Go(p, "close")
    /\ sock' = [sock EXCEPT ![Other(p)] = "closed"]
    /\ \E n \in 0..Len(box[Other(p)]) :
          inbox' = [box EXCEPT ![Other(p)] = SubSeq(@, 1, n)]

Taken(p, n) == SubSeq(inbox[p], 1, n)

\* Mutant: the last symbol read is met again.
RestOverlaps(p, n) == [inbox EXCEPT ![p] = SubSeq(@, n, Len(@))]

Rest(p, n) == [inbox EXCEPT ![p] = SubSeq(@, n + 1, Len(@))]

\* Mutant: each pipe is given the writer of its own connection.
SinkOwn(p) == p

Sink(p) == Other(p)

\* reader.read with data, the look at it, writer.write.
Relay(p) ==
    /\ At(p, "read")
    /\ \E n \in 1..ReadMax :
          /\ n <= Len(inbox[p])
          /\ p = "client" /\ Enforcing /\ Blocked(Taken(p, n)) => StoreMayFail
          /\ inbox'  = Rest(p, n)
          /\ outbuf' = IF peer[Sink(p)] = "gone" THEN outbuf
                       ELSE [outbuf EXCEPT ![Sink(p)] = @ \o Taken(p, n)]
    /\ Go(p, "drain")
    /\ UNCHANGED <<net, sock, cancel, handler, stopping, loaded, refused>>

\* Mutant: the read is dropped and the loop goes on.
RefuseOnly ==
    /\ At("client", "read") /\ Enforcing
    /\ \E n \in 1..ReadMax :
          /\ n <= Len(inbox["client"]) /\ Blocked(Taken("client", n))
          /\ refused' = Len(sent["client"]) - Len(inbox["client"])
          /\ inbox' = Rest("client", n)
    /\ UNCHANGED <<net, outbuf, sock, pc, cancel, handler, stopping, loaded>>

\* A blocked read leaves the loop and is not written.
Refuse ==
    /\ At("client", "read") /\ Enforcing
    /\ \E n \in 1..ReadMax :
          /\ n <= Len(inbox["client"]) /\ Blocked(Taken("client", n))
          /\ refused' = Len(sent["client"]) - Len(inbox["client"])
          /\ Close("client", Rest("client", n))
    /\ UNCHANGED <<net, outbuf, cancel, handler, stopping, loaded>>

ReadOn(p) ==
    /\ Drained(p)
    /\ Go(p, "read")
    /\ UNCHANGED <<net, inbox, outbuf, sock, cancel, handler, stopping, loaded, refused>>

Flushed(p) == outbuf[p] = <<>> \/ peer[p] = "gone"

\* Mutant: the end is seen before the data in front of it.
EofEarly(p) ==
    /\ At(p, "read")
    /\ peer[p] # "open" \/ (sock[p] = "closed" /\ Flushed(p))
    /\ Close(p, inbox)
    /\ UNCHANGED <<net, outbuf, cancel, handler, stopping, loaded, refused>>

\* The stream ends when its peer has closed, or its socket was closed by the
\* other pipe and all that was written to it is gone.
Eof(p) ==
    /\ At(p, "read") /\ inbox[p] = <<>>
    /\ peer[p] # "open" \/ (sock[p] = "closed" /\ Flushed(p))
    /\ Close(p, inbox)
    /\ UNCHANGED <<net, outbuf, cancel, handler, stopping, loaded, refused>>

\* The exception of a read or a drain on a connection that is lost.
Fails(p) ==
    /\ \/ At(p, "read") /\ peer[p] = "gone"
       \/ At(p, "drain") /\ peer[Other(p)] = "gone"
    /\ Close(p, inbox)
    /\ UNCHANGED <<net, outbuf, cancel, handler, stopping, loaded, refused>>

\* CancelledError at the read or the drain: the finally clause runs.
Cancelled(p) ==
    /\ pc[p] \in {"read", "drain"} /\ cancel[p] = "asked"
    /\ cancel' = [cancel EXCEPT ![p] = "thrown"]
    /\ Close(p, inbox)
    /\ UNCHANGED <<net, outbuf, handler, stopping, loaded, refused>>

\* await writer.wait_closed() returns, or is cancelled.
Ended(p) ==
    /\ pc[p] = "close" /\ (Flushed(Other(p)) \/ cancel[p] = "asked")
    /\ Go(p, "ended")
    /\ cancel' = [cancel EXCEPT ![p] = IF @ = "asked" THEN "thrown" ELSE @]
    /\ UNCHANGED <<net, inbox, outbuf, sock, handler, stopping, loaded, refused>>

Pipe(p) ==
    \/ Relay(p) \/ ReadOn(p) \/ Eof(p) \/ Fails(p) \/ Cancelled(p) \/ Ended(p)
    \/ p = "client" /\ Refuse

-----------------------------------------------------------------------------
(***************************************************************************)
(* handle_client.  Both tasks have run to their first await before anything*)
(* can cancel them, so their start is part of the connection's.            *)
(***************************************************************************)
Connected ==
    /\ handler = "connect" /\ ~stopping
    /\ handler' = "wait"
    /\ \/ pc' = [p \in Peers |-> "read"] /\ UNCHANGED <<sock, loaded>>
       \/ /\ Sniff      \* load_rules raises: c2s goes straight to its end
          /\ loaded' = FALSE
          /\ pc'   = [p \in Peers |-> IF p = "client" THEN "close" ELSE "read"]
          /\ sock' = [sock EXCEPT !["server"] = "closed"]
    /\ UNCHANGED <<net, inbox, outbuf, cancel, stopping, refused>>

\* open_connection raises: the client is disconnected.
ConnectFails ==
    /\ handler = "connect"
    /\ handler' = "ended"
    /\ sock' = [p \in Peers |-> "closed"]
    /\ inbox' = [p \in Peers |-> <<>>]
    /\ UNCHANGED <<net, outbuf, pc, cancel, stopping, loaded, refused>>

Ask(p) ==
    cancel' = [cancel EXCEPT ![p] = IF pc[p] # "ended" /\ @ = "no" THEN "asked" ELSE @]

\* asyncio.wait returns; c2s is cancelled, unless it is the one that ended.
FirstEnds ==
    /\ handler = "wait" /\ \E p \in Peers : pc[p] = "ended"
    /\ handler' = "c2s"
    /\ Ask("client")
    /\ UNCHANGED <<net, inbox, outbuf, sock, pc, stopping, loaded, refused>>

\* Mutant: the cancelled pipe is not waited for.
C2sNotAwaited ==
    /\ handler = "c2s"
    /\ handler' = "ended"
    /\ UNCHANGED <<net, inbox, outbuf, sock, pc, cancel, stopping, loaded, refused>>

\* await c2s: its CancelledError is not an Exception and leaves the handler.
C2sAwaited ==
    /\ handler = "c2s" /\ pc["client"] = "ended"
    /\ IF cancel["client"] = "thrown"
       THEN handler' = "ended" /\ UNCHANGED cancel
       ELSE handler' = "s2c" /\ Ask("server")
    /\ UNCHANGED <<net, inbox, outbuf, sock, pc, stopping, loaded, refused>>

S2cAwaited ==
    /\ handler = "s2c" /\ pc["server"] = "ended"
    /\ handler' = "ended"
    /\ UNCHANGED <<net, inbox, outbuf, sock, pc, cancel, stopping, loaded, refused>>

Handler == Connected \/ ConnectFails \/ FirstEnds \/ C2sAwaited \/ S2cAwaited

\* asyncio.run ends: all tasks are cancelled, the handler at once.
Shutdown ==
    /\ ~stopping /\ handler \notin {"connect", "ended"}
    /\ stopping' = TRUE /\ handler' = "ended"
    /\ cancel' = [p \in Peers |-> IF pc[p] = "ended" THEN cancel[p] ELSE "asked"]
    /\ UNCHANGED <<net, inbox, outbuf, sock, pc, loaded, refused>>

Over == handler = "ended" /\ \A p \in Peers : pc[p] \in {"none", "ended"}

\* Nothing is left to do.
Done == Over /\ UNCHANGED vars

Next ==
    \/ \E p \in Peers : Send(p) \/ HalfClose(p) \/ Leave(p) \/ Receive(p) \/ Pipe(p)
    \/ Handler \/ Shutdown \/ Done

\* The event loop runs every task that can go on.  A peer that is there takes
\* what it is sent; without that a pipe may wait in drain or wait_closed for
\* ever, for the code has no timeout there.
Spec ==
    /\ Init /\ [][Next]_vars
    /\ WF_vars(Handler)
    /\ \A p \in Peers : WF_vars(Pipe(p)) /\ WF_vars(Receive(p))

-----------------------------------------------------------------------------
(***************************************************************************)
(* Properties.                                                             *)
(***************************************************************************)
Written(p) == got[Other(p)] \o outbuf[Other(p)]

(* What a peer gets is a first part of what the other one sent, in order and
   once, and while both are connected nothing is missing between the two: the
   awaits of the pipes, their exceptions and cancellations lose no byte. *)
Relayed ==
    \A p \in Peers :
        /\ peer[Other(p)] # "gone" => IsPrefix(Written(p), sent[p])
        /\ sock = [q \in Peers |-> "open"] /\ peer[Other(p)] # "gone" =>
              Written(p) \o inbox[p] = sent[p]

(* handle_client never returns over a pipe that still runs, although the
   CancelledError of the first one skips the rest of its loop. *)
NoOrphans == handler = "ended" /\ ~stopping => Over /\ sock = [p \in Peers |-> "closed"]

(* Once a read was refused, nothing from that read on reaches the server, not
   even what the client sends after it. *)
BlockEndsSession == refused # None => Len(Written("client")) <= refused

(* A peer that reads slowly holds the other one back: what the proxy keeps for
   it is bounded by the mark and one read. *)
Backpressure == \A p \in Peers : Len(outbuf[p]) <= HighWater + ReadMax

(* When a peer has sent its last byte, the other one gets all of them, unless
   that one ends the connection first or a rule, a broken rules file or the end
   of the process does. *)
DataArrives ==
    \A p \in Peers :
        handler = "wait" /\ peer[p] = "eof" ~>
            \/ got[Other(p)] = sent[p]
            \/ peer[p] = "gone" \/ peer[Other(p)] # "open"
            \/ stopping \/ refused # None \/ ~loaded

(* When either peer closes, both connections are closed and both tasks end,
   wherever they were waiting. *)
SessionEnds == (\E p \in Peers : peer[p] # "open") ~> Over /\ sock = [p \in Peers |-> "closed"]
=============================================================================
