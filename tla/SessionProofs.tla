--------------------------- MODULE SessionProofs ---------------------------
(***************************************************************************)
(* Proofs about Session, for every policy, every length of the streams and *)
(* every size of the buffers.                                              *)
(***************************************************************************)
EXTENDS Session, SequenceTheorems, TLAPS

-----------------------------------------------------------------------------
(***************************************************************************)
(* The inductive invariant.                                                *)
(***************************************************************************)
Busy(p) == pc[p] \in {"none", "read", "drain"}

\* What was sent is s; of it g was received and o is on the way; b is not read yet.
Moved(g, o) == Len(g) + Len(o)

Placed(s, g, o) ==
    /\ Moved(g, o) <= Len(s)
    /\ \A i \in 1..Len(g) : g[i] = s[i]
    /\ \A i \in 1..Len(o) : o[i] = s[Len(g) + i]

Fits(s, g, o, b) == Moved(g, o) + Len(b) <= Len(s)

Ahead(s, g, o, b) == \A i \in 1..Len(b) : b[i] = s[Moved(g, o) + i]

Complete(s, g, o, b) == Moved(g, o) + Len(b) = Len(s)

\* Symbol by symbol: what peer p sent is found again in what the other one has
\* got, then in what is on the way to it, then in what the proxy has not read.
Flow(p) ==
    /\ Placed(sent[p], got[Other(p)], outbuf[Other(p)])
    /\ Busy(p) => Fits(sent[p], got[Other(p)], outbuf[Other(p)], inbox[p])
    /\ Busy(p) /\ peer[Other(p)] # "gone" =>
          Ahead(sent[p], got[Other(p)], outbuf[Other(p)], inbox[p])
    /\ Busy(p) /\ sock[p] = "open" /\ peer[Other(p)] # "gone" =>
          Complete(sent[p], got[Other(p)], outbuf[Other(p)], inbox[p])

\* Nothing is on the way to a peer that left; a pipe past its loop has closed
\* its writer.
Ends(p) ==
    /\ peer[p] = "gone" => outbuf[p] = <<>>
    /\ pc[p] \in {"close", "ended"} => sock[Other(p)] = "closed"

InOrder == \A p \in Peers : Flow(p) /\ Ends(p)

Shut ==
    refused # None =>
        ~Busy("client") /\ Moved(got["server"], outbuf["server"]) <= refused

Held ==
    \A p \in Peers :
        /\ Len(outbuf[Other(p)]) <= HighWater + ReadMax
        /\ pc[p] \in {"none", "read"} => Len(outbuf[Other(p)]) <= HighWater

Control ==
    /\ handler = "connect" => \A p \in Peers : pc[p] = "none"
    /\ stopping \/ handler \notin {"connect", "wait"} \/ \A p \in Peers : cancel[p] = "no"
    /\ stopping \/ handler # "c2s" \/ cancel["client"] = "no" \/ pc["server"] = "ended"
    /\ stopping \/ handler # "s2c" \/ pc["client"] = "ended"
    /\ \/ stopping \/ handler # "ended"
       \/ \A p \in Peers : pc[p] = "ended"
       \/ \A p \in Peers : pc[p] = "none" /\ sock[p] = "closed"

Inv == TypeOK /\ InOrder /\ Shut /\ Held /\ Control

-----------------------------------------------------------------------------
(* The two peers are each other's other. *)
LEMMA OtherPeer ==
    /\ "client" \in Peers /\ "server" \in Peers
    /\ \A p \in Peers : Other(p) \in Peers /\ Other(p) # p /\ Other(Other(p)) = p
    /\ \A p, q \in Peers : q = p \/ q = Other(p)
BY DEF Peers, Other

(* The streams, one by one. *)
LEMMA Streams ==
    ASSUME TypeOK, NEW p \in Peers
    PROVE  /\ sent[p] \in Seq(Data[p]) /\ inbox[p] \in Seq(Data[p])
           /\ got[Other(p)] \in Seq(Data[p]) /\ outbuf[Other(p)] \in Seq(Data[p])
           /\ outbuf[p] \in Seq(Data[Other(p)]) /\ got[p] \in Seq(Data[Other(p)])
           /\ inbox[Other(p)] \in Seq(Data[Other(p)])
           /\ sent[Other(p)] \in Seq(Data[Other(p)])
BY OtherPeer DEF TypeOK

(* Part of a sequence. *)
LEMMA PartOfSeq ==
    ASSUME NEW S, NEW s \in Seq(S), NEW m \in 1..(Len(s) + 1), NEW n \in 0..Len(s),
           m <= n + 1
    PROVE  /\ SubSeq(s, m, n) \in Seq(S)
           /\ Len(SubSeq(s, m, n)) = n - m + 1
           /\ \A i \in 1..(n - m + 1) : SubSeq(s, m, n)[i] = s[m + i - 1]
OBVIOUS

(* Only the entry of one peer is changed. *)
LEMMA OneChanged ==
    ASSUME NEW f, DOMAIN f = Peers, NEW p \in Peers, NEW v
    PROVE  /\ DOMAIN [f EXCEPT ![p] = v] = Peers
           /\ [f EXCEPT ![p] = v][p] = v
           /\ [f EXCEPT ![p] = v][Other(p)] = f[Other(p)]
           /\ \A q \in Peers : q # p => [f EXCEPT ![p] = v][q] = f[q]
BY OtherPeer

(* What was read is at most what was sent. *)
LEMMA FitsLeaves ==
    ASSUME NEW S, NEW s \in Seq(S), NEW g \in Seq(S), NEW o \in Seq(S), NEW b \in Seq(S),
           Fits(s, g, o, b)
    PROVE  Len(s) - Len(b) \in Nat /\ Moved(g, o) <= Len(s) - Len(b)
BY LenProperties DEF Fits, Moved

(* What the end of a pipe does: its writer's connection is closed, and the
   other pipe is left a first part of what waited for it. *)
LEMMA CloseParts ==
    ASSUME TypeOK, NEW p \in Peers, NEW box, DOMAIN box = Peers,
           \A r \in Peers : box[r] \in Seq(Data[r]),
           Close(p, box)
    PROVE  /\ pc'[p] = "close" /\ pc'[Other(p)] = pc[Other(p)]
           /\ sock'[p] = sock[p] /\ sock'[Other(p)] = "closed"
           /\ inbox'[p] = box[p]
           /\ \E n \in 0..Len(box[Other(p)]) : inbox'[Other(p)] = SubSeq(box[Other(p)], 1, n)
           /\ pc' \in [Peers -> {"none", "read", "drain", "close", "ended"}]
           /\ sock' \in [Peers -> {"open", "closed"}]
           /\ DOMAIN inbox' = Peers /\ \A r \in Peers : inbox'[r] \in Seq(Data[r])
<1>1. /\ Other(p) \in Peers /\ Other(p) # p
      /\ pc \in [Peers -> {"none", "read", "drain", "close", "ended"}]
      /\ sock \in [Peers -> {"open", "closed"}]
  BY OtherPeer DEF TypeOK
<1>2. /\ pc' = [pc EXCEPT ![p] = "close"]
      /\ sock' = [sock EXCEPT ![Other(p)] = "closed"]
  BY DEF Close, Go
<1>3. PICK n \in 0..Len(box[Other(p)]) :
        inbox' = [box EXCEPT ![Other(p)] = SubSeq(box[Other(p)], 1, n)]
  BY DEF Close
<1>4. box[Other(p)] \in Seq(Data[Other(p)])
  BY <1>1
<1>5. SubSeq(box[Other(p)], 1, n) \in Seq(Data[Other(p)])
  <2> DEFINE t == box[Other(p)]
  <2>1. 1 \in 1..(Len(t) + 1) /\ n \in 0..Len(t) /\ 1 <= n + 1
    BY <1>4
  <2> HIDE DEF t
  <2>2. SubSeq(t, 1, n) \in Seq(Data[Other(p)])
    BY <1>4, <2>1, PartOfSeq DEF t
  <2> QED
    BY <2>2 DEF t
<1>6. /\ inbox'[Other(p)] = SubSeq(box[Other(p)], 1, n) /\ inbox'[p] = box[p]
      /\ DOMAIN inbox' = Peers
      /\ \A r \in Peers : r # Other(p) => inbox'[r] = box[r]
  BY <1>1, <1>3
<1>7. \A r \in Peers : inbox'[r] \in Seq(Data[r])
  BY <1>5, <1>6
<1> QED
  BY <1>1, <1>2, <1>6, <1>7

(* What is left after a read of n symbols. *)
LEMMA RestParts ==
    ASSUME TypeOK, NEW p \in Peers, NEW n \in 1..Len(inbox[p])
    PROVE  /\ DOMAIN Rest(p, n) = Peers /\ \A r \in Peers : Rest(p, n)[r] \in Seq(Data[r])
           /\ Rest(p, n)[Other(p)] = inbox[Other(p)]
           /\ Len(Rest(p, n)[p]) = Len(inbox[p]) - n
           /\ \A i \in 1..(Len(inbox[p]) - n) : Rest(p, n)[p][i] = inbox[p][n + i]
           /\ Taken(p, n) \in Seq(Data[p]) /\ Len(Taken(p, n)) = n
           /\ \A i \in 1..n : Taken(p, n)[i] = inbox[p][i]
<1> DEFINE s == inbox[p]
           rest == SubSeq(s, n + 1, Len(s))
<1>1. /\ DOMAIN inbox = Peers /\ \A r \in Peers : inbox[r] \in Seq(Data[r])
      /\ s \in Seq(Data[p]) /\ Len(s) \in Nat
      /\ Other(p) # p /\ Other(p) \in Peers
  BY OtherPeer, Streams DEF TypeOK
<1>2. /\ n + 1 \in 1..(Len(s) + 1) /\ Len(s) \in 0..Len(s) /\ n + 1 <= Len(s) + 1
      /\ 1 \in 1..(Len(s) + 1) /\ n \in 0..Len(s) /\ 1 <= n + 1
  BY <1>1
<1>3. /\ rest \in Seq(Data[p]) /\ Len(rest) = Len(s) - (n + 1) + 1
      /\ \A i \in 1..(Len(s) - (n + 1) + 1) : rest[i] = s[(n + 1) + i - 1]
  BY <1>1, <1>2, PartOfSeq, ZenonT(60)
<1>4. /\ Taken(p, n) \in Seq(Data[p]) /\ Len(Taken(p, n)) = n
      /\ \A i \in 1..n : Taken(p, n)[i] = s[i]
  <2>1. n - 1 + 1 = n /\ \A i \in 1..n : 1 + i - 1 = i
    OBVIOUS
  <2>2. /\ SubSeq(s, 1, n) \in Seq(Data[p]) /\ Len(SubSeq(s, 1, n)) = n - 1 + 1
        /\ \A i \in 1..(n - 1 + 1) : SubSeq(s, 1, n)[i] = s[1 + i - 1]
    BY <1>1, <1>2, PartOfSeq, ZenonT(60)
  <2> QED
    BY <2>1, <2>2 DEF Taken
<1> HIDE DEF rest
<1>5. Rest(p, n) = [inbox EXCEPT ![p] = rest]
  BY DEF Rest, rest
<1>6. /\ DOMAIN Rest(p, n) = Peers /\ Rest(p, n)[Other(p)] = inbox[Other(p)]
      /\ Rest(p, n)[p] = rest
      /\ \A r \in Peers : r # p => Rest(p, n)[r] = inbox[r]
  BY <1>1, <1>5
<1>7. \A r \in Peers : Rest(p, n)[r] \in Seq(Data[r])
  BY <1>1, <1>3, <1>6
<1>8. \A i \in 1..(Len(inbox[p]) - n) : Rest(p, n)[p][i] = inbox[p][n + i]
  BY <1>1, <1>3, <1>6
<1> QED
  BY <1>1, <1>3, <1>4, <1>6, <1>7, <1>8

-----------------------------------------------------------------------------
(***************************************************************************)
(* Type correctness.                                                       *)
(***************************************************************************)
(* The steps that close a writer: an end, an error, a cancellation, a refusal. *)
ClosesAt(p) ==
    \/ /\ Close(p, inbox)
       /\ cancel' \in {cancel, [cancel EXCEPT ![p] = "thrown"]}
       /\ UNCHANGED <<net, outbuf, handler, stopping, loaded, refused>>
    \/ p = "client" /\ Refuse

(* A pipe reads and writes, goes on, ends, or closes its writer. *)
LEMMA PipeSteps ==
    ASSUME NEW p \in Peers, Pipe(p)
    PROVE  Relay(p) \/ ReadOn(p) \/ Ended(p) \/ (ClosesAt(p) /\ Busy(p))
<1>1. Eof(p) \/ Fails(p) \/ Cancelled(p) => ClosesAt(p) /\ Busy(p)
  BY DEF Eof, Fails, Cancelled, ClosesAt, At, Busy
<1>2. p = "client" /\ Refuse => ClosesAt(p) /\ Busy(p)
  BY DEF Refuse, ClosesAt, At, Busy
<1> QED
  BY <1>1, <1>2 DEF Pipe

(* A refused read: what was read is dropped and the position of it kept. *)
LEMMA RefuseParts ==
    ASSUME TypeOK, Refuse
    PROVE  \E n \in 1..Len(inbox["client"]) :
              /\ refused' = Len(sent["client"]) - Len(inbox["client"])
              /\ Close("client", Rest("client", n))
              /\ UNCHANGED <<net, outbuf, cancel, handler, stopping, loaded>>
<1>1. inbox["client"] \in Seq(Data["client"])
  BY OtherPeer, Streams
<1>2. PICK n \in 1..ReadMax :
        /\ n <= Len(inbox["client"])
        /\ refused' = Len(sent["client"]) - Len(inbox["client"])
        /\ Close("client", Rest("client", n))
  BY DEF Refuse
<1>3. n \in 1..Len(inbox["client"])
  BY <1>1, <1>2, SessionAssumption, LenProperties
<1> QED
  BY <1>2, <1>3 DEF Refuse

(* What a closing step leaves of the streams and the states of both pipes. *)
LEMMA ClosesParts ==
    ASSUME TypeOK, NEW p \in Peers, ClosesAt(p)
    PROVE  /\ pc'[p] = "close" /\ pc'[Other(p)] = pc[Other(p)]
           /\ sock'[p] = sock[p] /\ sock'[Other(p)] = "closed"
           /\ \E n \in 0..Len(inbox[Other(p)]) :
                 inbox'[Other(p)] = SubSeq(inbox[Other(p)], 1, n)
           /\ pc' \in [Peers -> {"none", "read", "drain", "close", "ended"}]
           /\ sock' \in [Peers -> {"open", "closed"}]
           /\ DOMAIN inbox' = Peers /\ \A r \in Peers : inbox'[r] \in Seq(Data[r])
           /\ cancel' \in [Peers -> {"no", "asked", "thrown"}]
           /\ UNCHANGED <<net, outbuf, handler, stopping, loaded>>
<1>1. DOMAIN inbox = Peers /\ \A r \in Peers : inbox[r] \in Seq(Data[r])
  BY DEF TypeOK
<1>2. CASE Close(p, inbox)
           /\ cancel' \in {cancel, [cancel EXCEPT ![p] = "thrown"]}
           /\ UNCHANGED <<net, outbuf, handler, stopping, loaded, refused>>
  <2>1. cancel' \in [Peers -> {"no", "asked", "thrown"}]
    BY <1>2 DEF TypeOK
  <2> QED
    BY <1>1, <1>2, <2>1, CloseParts
<1>3. CASE p = "client" /\ Refuse
  <2>1. PICK n \in 1..Len(inbox[p]) :
          Close(p, Rest(p, n)) /\ UNCHANGED <<net, outbuf, cancel, handler, stopping, loaded>>
    BY <1>3, RefuseParts
  <2>2. /\ DOMAIN Rest(p, n) = Peers /\ \A r \in Peers : Rest(p, n)[r] \in Seq(Data[r])
        /\ Rest(p, n)[Other(p)] = inbox[Other(p)]
    BY RestParts
  <2>3. cancel' \in [Peers -> {"no", "asked", "thrown"}]
    BY <2>1 DEF TypeOK
  <2> QED
    BY <2>1, <2>2, <2>3, CloseParts
<1> QED
  BY <1>2, <1>3 DEF ClosesAt

(* The connection is accepted with empty streams. *)
LEMMA InitType == Init => TypeOK
<1> SUFFICES ASSUME Init PROVE TypeOK
  OBVIOUS
<1>1. \A S : <<>> \in Seq(S)
  BY EmptySeq
<1>2. \A f \in {sent, got, inbox, outbuf} :
        DOMAIN f = Peers /\ \A p \in Peers : f[p] = <<>>
  BY DEF Init
<1>3. \A p \in Peers :
        /\ sent[p] \in Seq(Data[p]) /\ inbox[p] \in Seq(Data[p])
        /\ got[p] \in Seq(Data[Other(p)]) /\ outbuf[p] \in Seq(Data[Other(p)])
  BY <1>1, <1>2
<1> QED
  BY <1>2, <1>3 DEF Init, TypeOK

\* The streams of TypeOK, apart from the rest.
StreamsOK ==
    /\ \A f \in {sent, got, inbox, outbuf} : DOMAIN f = Peers
    /\ \A p \in Peers :
          /\ sent[p] \in Seq(Data[p]) /\ inbox[p] \in Seq(Data[p])
          /\ got[p] \in Seq(Data[Other(p)]) /\ outbuf[p] \in Seq(Data[Other(p)])

(* Every step keeps the streams sequences of what their peer may send. *)
LEMMA StreamsStep == TypeOK /\ [Next]_vars => StreamsOK'
<1> SUFFICES ASSUME TypeOK, [Next]_vars PROVE StreamsOK'
  OBVIOUS
<1>1. StreamsOK
  BY DEF TypeOK, StreamsOK
<1>2. ASSUME UNCHANGED <<sent, got, inbox, outbuf>> PROVE StreamsOK'
  BY <1>1, <1>2 DEF StreamsOK
<1>3. ASSUME NEW p \in Peers, Send(p) PROVE StreamsOK'
  <2>1. PICK s \in Data[p] :
          /\ sent' = [sent EXCEPT ![p] = Append(@, s)]
          /\ inbox' = [inbox EXCEPT ![p] = IF sock[p] = "open" THEN Append(@, s) ELSE @]
    BY <1>3 DEF Send
  <2>2. Append(sent[p], s) \in Seq(Data[p]) /\ Append(inbox[p], s) \in Seq(Data[p])
    BY <1>1, AppendProperties DEF StreamsOK
  <2>3. \A r \in Peers : sent'[r] \in Seq(Data[r]) /\ inbox'[r] \in Seq(Data[r])
    BY <1>1, <2>1, <2>2 DEF StreamsOK
  <2>4. DOMAIN sent' = Peers /\ DOMAIN inbox' = Peers
    BY <1>1, <2>1 DEF StreamsOK
  <2> QED
    BY <1>1, <1>3, <2>3, <2>4 DEF StreamsOK, Send
<1>4. ASSUME NEW p \in Peers, Leave(p) PROVE StreamsOK'
  <2>1. \A r \in Peers : outbuf'[r] \in Seq(Data[Other(r)])
    BY <1>1, <1>4, EmptySeq DEF StreamsOK, Leave
  <2>2. DOMAIN outbuf' = Peers
    BY <1>1, <1>4 DEF StreamsOK, Leave
  <2> QED
    BY <1>1, <1>4, <2>1, <2>2 DEF StreamsOK, Leave
<1>5. ASSUME NEW p \in Peers, Receive(p) PROVE StreamsOK'
  <2>1. outbuf[p] \in Seq(Data[Other(p)]) /\ got[p] \in Seq(Data[Other(p)]) /\ outbuf[p] # <<>>
    BY <1>1, <1>5 DEF StreamsOK, Receive
  <2>2. /\ Append(got[p], Head(outbuf[p])) \in Seq(Data[Other(p)])
        /\ Tail(outbuf[p]) \in Seq(Data[Other(p)])
    BY <2>1, HeadTailProperties, AppendProperties
  <2>3. \A r \in Peers : got'[r] \in Seq(Data[Other(r)]) /\ outbuf'[r] \in Seq(Data[Other(r)])
    BY <1>1, <1>5, <2>2 DEF StreamsOK, Receive
  <2>4. DOMAIN got' = Peers /\ DOMAIN outbuf' = Peers
    BY <1>1, <1>5 DEF StreamsOK, Receive
  <2> QED
    BY <1>1, <1>5, <2>3, <2>4 DEF StreamsOK, Receive
<1>6. ASSUME NEW p \in Peers, Relay(p) PROVE StreamsOK'
  <2>1. PICK n \in 1..ReadMax :
          /\ n <= Len(inbox[p])
          /\ inbox' = Rest(p, n)
          /\ outbuf' = IF peer[Sink(p)] = "gone" THEN outbuf
                       ELSE [outbuf EXCEPT ![Sink(p)] = @ \o Taken(p, n)]
    BY <1>6 DEF Relay
  <2>2. n \in 1..Len(inbox[p]) /\ outbuf[Other(p)] \in Seq(Data[p])
    BY <2>1, Streams, LenProperties, SessionAssumption
  <2>3. /\ DOMAIN inbox' = Peers /\ \A r \in Peers : inbox'[r] \in Seq(Data[r])
        /\ outbuf[Other(p)] \o Taken(p, n) \in Seq(Data[p])
    BY <2>1, <2>2, RestParts, ConcatProperties
  <2>4. DOMAIN outbuf' = Peers /\ \A r \in Peers : outbuf'[r] \in Seq(Data[Other(r)])
    BY <1>1, <2>1, <2>3, OtherPeer DEF StreamsOK, Sink
  <2> QED
    BY <1>1, <1>6, <2>3, <2>4 DEF StreamsOK, Relay, net
<1>7. ASSUME NEW p \in Peers, ClosesAt(p) PROVE StreamsOK'
  BY <1>1, <1>7, ClosesParts DEF StreamsOK, net
<1>8. ASSUME NEW p \in Peers, Pipe(p) PROVE StreamsOK'
  BY <1>2, <1>6, <1>7, <1>8, PipeSteps DEF ReadOn, Ended, net
<1>9. ASSUME ConnectFails PROVE StreamsOK'
  <2>1. DOMAIN inbox' = Peers /\ \A r \in Peers : inbox'[r] \in Seq(Data[r])
    BY <1>9, EmptySeq DEF ConnectFails
  <2> QED
    BY <1>1, <1>9, <2>1 DEF StreamsOK, ConnectFails, net
<1>10. ASSUME Handler \/ Shutdown \/ Done PROVE StreamsOK'
  BY <1>2, <1>9, <1>10
     DEF Handler, Connected, FirstEnds, C2sAwaited, S2cAwaited, Shutdown, Done, vars, net
<1>11. ASSUME NEW p \in Peers, HalfClose(p) PROVE StreamsOK'
  BY <1>2, <1>11 DEF HalfClose
<1>12. CASE UNCHANGED vars
  BY <1>2, <1>12 DEF vars, net
<1> QED
  BY <1>3, <1>4, <1>5, <1>8, <1>10, <1>11, <1>12 DEF Next

\* The rest of TypeOK.
StatesOK ==
    /\ peer \in [Peers -> {"open", "eof", "gone"}]
    /\ sock \in [Peers -> {"open", "closed"}]
    /\ pc \in [Peers -> {"none", "read", "drain", "close", "ended"}]
    /\ cancel \in [Peers -> {"no", "asked", "thrown"}]
    /\ handler \in {"connect", "wait", "c2s", "s2c", "ended"}
    /\ loaded \in BOOLEAN
    /\ stopping \in BOOLEAN
    /\ refused \in Nat \cup {None}

(* Every step keeps the states; the position of a refused read is a number
   because a pipe has never read more than its peer sent. *)
LEMMA StatesStep == TypeOK /\ InOrder /\ [Next]_vars => StatesOK'
<1> SUFFICES ASSUME TypeOK, InOrder, [Next]_vars PROVE StatesOK'
  OBVIOUS
<1>1. StatesOK
  BY DEF TypeOK, StatesOK
<1>2. ASSUME NEW p \in Peers, Send(p) \/ HalfClose(p) \/ Leave(p) \/ Receive(p)
      PROVE StatesOK'
  BY <1>1, <1>2 DEF StatesOK, Send, HalfClose, Leave, Receive
<1>3. ASSUME NEW p \in Peers, Relay(p) \/ ReadOn(p) \/ Ended(p) PROVE StatesOK'
  BY <1>1, <1>3 DEF StatesOK, Relay, ReadOn, Ended, Go, net
<1>4. ASSUME NEW p \in Peers, ClosesAt(p), Busy(p) PROVE StatesOK'
  <2>1. refused' \in Nat \cup {None}
    <3>1. CASE refused' = refused
      BY <1>1, <3>1 DEF StatesOK
    <3>2. CASE p = "client" /\ Refuse
      <4>1. refused' = Len(sent[p]) - Len(inbox[p])
        BY <3>2, RefuseParts
      <4>2. Fits(sent[p], got[Other(p)], outbuf[Other(p)], inbox[p])
        BY <1>4 DEF InOrder, Flow
      <4>3. Len(sent[p]) - Len(inbox[p]) \in Nat
        BY <4>2, Streams, FitsLeaves
      <4> QED
        BY <4>1, <4>3
    <3> QED
      BY <1>4, <3>1, <3>2 DEF ClosesAt
  <2> QED
    BY <1>1, <1>4, <2>1, ClosesParts DEF StatesOK, net
<1>5. ASSUME NEW p \in Peers, Pipe(p) PROVE StatesOK'
  BY <1>3, <1>4, <1>5, PipeSteps
<1>6. ASSUME Connected PROVE StatesOK'
  <2>1. /\ pc' \in [Peers -> {"none", "read", "drain", "close", "ended"}]
        /\ sock' \in [Peers -> {"open", "closed"}]
    BY <1>1, <1>6 DEF StatesOK, Connected
  <2>2. loaded' = loaded \/ loaded' = FALSE
    BY <1>6 DEF Connected
  <2>3. loaded' \in BOOLEAN
    BY <1>1, <2>2 DEF StatesOK
  <2> QED
    BY <1>1, <1>6, <2>1, <2>3 DEF StatesOK, Connected, net
<1>7. ASSUME ConnectFails \/ FirstEnds \/ C2sAwaited \/ S2cAwaited PROVE StatesOK'
  BY <1>1, <1>7 DEF StatesOK, ConnectFails, FirstEnds, C2sAwaited, S2cAwaited, Ask, net
<1>8. ASSUME Shutdown PROVE StatesOK'
  BY <1>1, <1>8 DEF StatesOK, Shutdown, net
<1>9. CASE Done \/ UNCHANGED vars
  BY <1>1, <1>9 DEF StatesOK, Done, vars, net
<1> QED
  BY <1>2, <1>5, <1>6, <1>7, <1>8, <1>9 DEF Next, Handler

(* The two parts of TypeOK together. *)
LEMMA TypeStep == TypeOK /\ InOrder /\ [Next]_vars => TypeOK'
<1>1. StreamsOK' /\ StatesOK' => TypeOK'
  BY DEF StreamsOK, StatesOK, TypeOK
<1> QED
  BY <1>1, StreamsStep, StatesStep

-----------------------------------------------------------------------------
(***************************************************************************)
(* No symbol is lost, met twice or out of its place.                       *)
(***************************************************************************)
(* The accepted connection: nothing was sent yet. *)
LEMMA InitOrder == Init => InOrder
<1> SUFFICES ASSUME Init, NEW p \in Peers PROVE Flow(p) /\ Ends(p)
  BY DEF InOrder
<1>1. /\ sent[p] = <<>> /\ inbox[p] = <<>> /\ got[Other(p)] = <<>>
      /\ outbuf[Other(p)] = <<>> /\ outbuf[p] = <<>> /\ pc[p] = "none"
  BY OtherPeer DEF Init
<1>2. Len(<<>>) = 0
  OBVIOUS
<1> QED
  BY <1>1, <1>2 DEF Flow, Ends, Placed, Fits, Ahead, Complete, Moved

(* Pure facts about the four parts of a stream: one more symbol is sent, ... *)
LEMMA SendFlow ==
    ASSUME NEW S, NEW s \in Seq(S), NEW g \in Seq(S), NEW o \in Seq(S), NEW b \in Seq(S),
           NEW e \in S
    PROVE  /\ Placed(s, g, o) => Placed(Append(s, e), g, o)
           /\ Fits(s, g, o, b) => /\ Fits(Append(s, e), g, o, Append(b, e))
                                  /\ Fits(Append(s, e), g, o, b)
           /\ Fits(s, g, o, b) /\ Ahead(s, g, o, b) => Ahead(Append(s, e), g, o, b)
           /\ Complete(s, g, o, b) /\ Ahead(s, g, o, b) =>
                 Ahead(Append(s, e), g, o, Append(b, e))
           /\ Complete(s, g, o, b) => Complete(Append(s, e), g, o, Append(b, e))
<1> DEFINE t == Append(s, e)
           c == Append(b, e)
<1>1. /\ Len(s) \in Nat /\ Len(g) \in Nat /\ Len(o) \in Nat /\ Len(b) \in Nat
      /\ Len(t) = Len(s) + 1 /\ Len(c) = Len(b) + 1
      /\ \A i \in 1..Len(s) : t[i] = s[i]
      /\ \A i \in 1..Len(b) : c[i] = b[i]
      /\ t[Len(s) + 1] = e /\ c[Len(b) + 1] = e
  BY AppendProperties
<1> HIDE DEF t, c
<1>2. Moved(g, o) \in Nat /\ Moved(g, o) = Len(g) + Len(o)
  BY <1>1 DEF Moved
<1>3. ASSUME Placed(s, g, o) PROVE Placed(t, g, o)
  <2>1. Moved(g, o) <= Len(t)
    BY <1>1, <1>2, <1>3 DEF Placed
  <2>2. \A i \in 1..Len(g) : i \in 1..Len(s) /\ g[i] = s[i]
    BY <1>1, <1>2, <1>3 DEF Placed
  <2>3. \A i \in 1..Len(o) : Len(g) + i \in 1..Len(s) /\ o[i] = s[Len(g) + i]
    BY <1>1, <1>2, <1>3 DEF Placed
  <2> QED
    BY <1>1, <2>1, <2>2, <2>3 DEF Placed
<1>4. Fits(s, g, o, b) => Fits(t, g, o, c) /\ Fits(t, g, o, b)
  BY <1>1, <1>2 DEF Fits
<1>5. ASSUME Fits(s, g, o, b), Ahead(s, g, o, b), NEW i \in 1..Len(b)
      PROVE  b[i] = t[Moved(g, o) + i]
  <2>1. Moved(g, o) + i \in 1..Len(s)
    BY <1>1, <1>2, <1>5 DEF Fits
  <2> QED
    BY <1>1, <1>5, <2>1 DEF Ahead
<1>6. ASSUME Complete(s, g, o, b), Ahead(s, g, o, b), NEW i \in 1..Len(c)
      PROVE  c[i] = t[Moved(g, o) + i]
  <2>1. Moved(g, o) + Len(b) = Len(s)
    BY <1>6 DEF Complete
  <2>2. CASE i \in 1..Len(b)
    <3>1. Moved(g, o) + i \in 1..Len(s)
      BY <1>1, <1>2, <2>1, <2>2
    <3> QED
      BY <1>1, <1>6, <2>2, <3>1 DEF Ahead
  <2>3. CASE i = Len(b) + 1
    <3>1. Moved(g, o) + i = Len(s) + 1
      <4>1. \A m, n, k \in Nat : m + n = k => m + (n + 1) = k + 1
        OBVIOUS
      <4> QED
        BY <1>1, <1>2, <2>1, <2>3, <4>1
    <3> QED
      BY <1>1, <2>3, <3>1
  <2> QED
    BY <1>1, <1>6, <2>2, <2>3
<1>7. Complete(s, g, o, b) => Complete(t, g, o, c)
  BY <1>1, <1>2 DEF Complete
<1> QED
  BY <1>3, <1>4, <1>5, <1>6, <1>7 DEF Ahead, t, c

(* ... one is received, ... *)
LEMMA ReceiveFlow ==
    ASSUME NEW S, NEW s \in Seq(S), NEW g \in Seq(S), NEW o \in Seq(S), NEW b \in Seq(S),
           o # <<>>, Placed(s, g, o)
    PROVE  /\ Moved(Append(g, Head(o)), Tail(o)) = Moved(g, o)
           /\ Placed(s, Append(g, Head(o)), Tail(o))
<1> DEFINE h == Append(g, Head(o))
           t == Tail(o)
<1>1. /\ Len(s) \in Nat /\ Len(g) \in Nat /\ Len(o) \in Nat \ {0}
      /\ Len(h) = Len(g) + 1 /\ Len(t) = Len(o) - 1
      /\ \A i \in 1..Len(g) : h[i] = g[i]
      /\ h[Len(g) + 1] = o[1]
      /\ \A i \in 1..(Len(o) - 1) : t[i] = o[i + 1]
  BY AppendProperties, HeadTailProperties, EmptySeq
<1> HIDE DEF h, t
<1>2. Moved(h, t) = Moved(g, o)
  BY <1>1 DEF Moved
<1>3. \A i \in 1..Len(h) : h[i] = s[i]
  <2>1. o[1] = s[Len(g) + 1]
    BY <1>1 DEF Placed
  <2> QED
    BY <1>1, <2>1 DEF Placed
<1>4. \A i \in 1..Len(t) : t[i] = s[Len(h) + i]
  <2> SUFFICES ASSUME NEW i \in 1..Len(t) PROVE t[i] = s[Len(h) + i]
    OBVIOUS
  <2>1. i + 1 \in 1..Len(o) /\ t[i] = o[i + 1]
    BY <1>1
  <2>2. o[i + 1] = s[Len(g) + (i + 1)]
    BY <2>1 DEF Placed
  <2> QED
    BY <1>1, <2>1, <2>2
<1> QED
  BY <1>2, <1>3, <1>4 DEF Placed, h, t

\* Of b, t are the first n and r are the rest.
Splits(b, n, t, r) ==
    /\ Len(t) = n /\ \A i \in 1..n : t[i] = b[i]
    /\ Len(r) = Len(b) - n /\ \A i \in 1..(Len(b) - n) : r[i] = b[n + i]

(* ... n are read and written, ... *)
LEMMA RelayFlow ==
    ASSUME NEW S, NEW s \in Seq(S), NEW g \in Seq(S), NEW o \in Seq(S), NEW b \in Seq(S),
           NEW n \in 1..Len(b), NEW t \in Seq(S), NEW r \in Seq(S),
           Splits(b, n, t, r),
           Placed(s, g, o), Fits(s, g, o, b), Ahead(s, g, o, b)
    PROVE  /\ Placed(s, g, o \o t) /\ Fits(s, g, o \o t, r) /\ Ahead(s, g, o \o t, r)
           /\ Complete(s, g, o, b) => Complete(s, g, o \o t, r)
<1> DEFINE w == o \o t
<1>0. /\ Len(t) = n /\ \A i \in 1..n : t[i] = b[i]
      /\ Len(r) = Len(b) - n /\ \A i \in 1..(Len(b) - n) : r[i] = b[n + i]
  BY DEF Splits
<1>1. /\ Len(s) \in Nat /\ Len(g) \in Nat /\ Len(o) \in Nat /\ Len(b) \in Nat
      /\ Len(w) = Len(o) + n
      /\ \A i \in 1..(Len(o) + n) : w[i] = IF i <= Len(o) THEN o[i] ELSE t[i - Len(o)]
  BY <1>0, LenProperties, ConcatProperties
<1> HIDE DEF w
<1>2. Moved(g, w) = Moved(g, o) + n /\ Moved(g, o) = Len(g) + Len(o)
  BY <1>1 DEF Moved
<1>3. Fits(s, g, w, r) /\ (Complete(s, g, o, b) => Complete(s, g, w, r)) /\ Moved(g, w) <= Len(s)
  <2>1. Moved(g, o) + Len(b) <= Len(s) /\ Len(r) = Len(b) - n /\ Moved(g, o) \in Nat
    BY <1>0, <1>1, <1>2 DEF Fits
  <2>2. Moved(g, w) + Len(r) = Moved(g, o) + Len(b) /\ Moved(g, w) <= Len(s)
    BY <1>0, <1>1, <1>2, <2>1
  <2> QED
    BY <2>1, <2>2 DEF Fits, Complete
<1>4. ASSUME NEW i \in 1..Len(w) PROVE w[i] = s[Len(g) + i]
  <2>1. CASE i <= Len(o)
    <3>1. i \in 1..Len(o) /\ w[i] = o[i]
      BY <1>0, <1>1, <1>4, <2>1
    <3> QED
      BY <3>1 DEF Placed
  <2>2. CASE ~(i <= Len(o))
    <3>1. /\ i - Len(o) \in 1..n /\ i - Len(o) \in 1..Len(b)
          /\ Len(g) + Len(o) + (i - Len(o)) = Len(g) + i
      BY <1>0, <1>1, <1>4, <2>2
    <3>2. w[i] = b[i - Len(o)]
      BY <1>0, <1>1, <1>4, <2>2, <3>1
    <3>3. b[i - Len(o)] = s[Len(g) + Len(o) + (i - Len(o))]
      BY <1>2, <3>1 DEF Ahead
    <3> QED
      BY <3>1, <3>2, <3>3
  <2> QED
    BY <2>1, <2>2
<1>5. ASSUME NEW i \in 1..Len(r) PROVE r[i] = s[Moved(g, w) + i]
  <2>1. /\ i \in 1..(Len(b) - n) /\ n + i \in 1..Len(b)
        /\ Moved(g, o) + (n + i) = Moved(g, w) + i
    BY <1>0, <1>1, <1>2, <1>5
  <2>2. b[n + i] = s[Moved(g, o) + (n + i)]
    BY <2>1 DEF Ahead
  <2> QED
    BY <1>0, <2>1, <2>2
<1> QED
  BY <1>3, <1>4, <1>5 DEF Placed, Ahead, w

(* ... or only a first part of what waits is left. *)
LEMMA PrefixFlow ==
    ASSUME NEW S, NEW s \in Seq(S), NEW g \in Seq(S), NEW o \in Seq(S), NEW b \in Seq(S),
           NEW n \in 0..Len(b)
    PROVE  /\ Fits(s, g, o, b) => Fits(s, g, o, SubSeq(b, 1, n))
           /\ Ahead(s, g, o, b) => Ahead(s, g, o, SubSeq(b, 1, n))
<1>1. /\ Len(b) \in Nat /\ Len(s) \in Nat /\ Moved(g, o) \in Nat
      /\ 1 \in 1..(Len(b) + 1) /\ 1 <= n + 1 /\ n - 1 + 1 = n
      /\ \A i \in 1..n : 1 + i - 1 = i
  BY LenProperties DEF Moved
<1> DEFINE c == SubSeq(b, 1, n)
<1>2. Len(c) = n - 1 + 1 /\ \A i \in 1..(n - 1 + 1) : c[i] = b[1 + i - 1]
  BY <1>1, PartOfSeq
<1>3. Len(c) = n /\ \A i \in 1..n : c[i] = b[i]
  BY <1>1, <1>2
<1> HIDE DEF c
<1> QED
  <2>1. Fits(s, g, o, b) => Fits(s, g, o, c)
    BY <1>1, <1>3 DEF Fits
  <2>2. Ahead(s, g, o, b) => Ahead(s, g, o, c)
    <3> SUFFICES ASSUME Ahead(s, g, o, b), NEW i \in 1..Len(c)
                 PROVE  c[i] = s[Moved(g, o) + i]
      BY DEF Ahead
    <3>1. i \in 1..Len(b) /\ c[i] = b[i]
      BY <1>1, <1>3
    <3> QED
      BY <3>1 DEF Ahead
  <2> QED
    BY <2>1, <2>2 DEF c

(* ... or what was on the way is lost: the receiver has left. *)
LEMMA LostFlow ==
    ASSUME NEW S, NEW s \in Seq(S), NEW g \in Seq(S), NEW o \in Seq(S), NEW b \in Seq(S),
           Placed(s, g, o)
    PROVE  /\ Placed(s, g, <<>>)
           /\ Fits(s, g, o, b) => Fits(s, g, <<>>, b)
<1>1. /\ Len(s) \in Nat /\ Len(g) \in Nat /\ Len(o) \in Nat /\ Len(b) \in Nat /\ Len(<<>>) = 0
  BY LenProperties
<1>2. Moved(g, <<>>) = Len(g) /\ Moved(g, o) = Len(g) + Len(o)
  BY <1>1 DEF Moved
<1>3. Placed(s, g, <<>>)
  BY <1>1, <1>2 DEF Placed
<1> QED
  BY <1>1, <1>2, <1>3 DEF Fits

(* A step that leaves what peer p sent and what went on to the other one, and of
   what waits to be read at least a first part, all of it while p's socket is
   open. *)
LEMMA FlowKept ==
    ASSUME TypeOK, InOrder, NEW p \in Peers,
           sent'[p] = sent[p], got'[Other(p)] = got[Other(p)],
           outbuf'[Other(p)] = outbuf[Other(p)],
           peer'[Other(p)] # "gone" => peer[Other(p)] # "gone",
           Busy(p)' => Busy(p) /\ \E n \in 0..Len(inbox[p]) : inbox'[p] = SubSeq(inbox[p], 1, n),
           Busy(p)' /\ sock'[p] = "open" => sock[p] = "open" /\ inbox'[p] = inbox[p]
    PROVE  Flow(p)'
<1> DEFINE s == sent[p]
           g == got[Other(p)]
           o == outbuf[Other(p)]
           b == inbox[p]
<1>1. Flow(p)
  BY DEF InOrder
<1>2. s \in Seq(Data[p]) /\ g \in Seq(Data[p]) /\ o \in Seq(Data[p]) /\ b \in Seq(Data[p])
  BY Streams
<1>3. Placed(s, g, o)
  BY <1>1 DEF Flow
<1>4. ASSUME Busy(p)' PROVE Fits(s, g, o, inbox'[p])
  BY <1>1, <1>2, <1>4, PrefixFlow DEF Flow
<1>5. ASSUME Busy(p)', peer'[Other(p)] # "gone" PROVE Ahead(s, g, o, inbox'[p])
  BY <1>1, <1>2, <1>5, PrefixFlow DEF Flow
<1>6. ASSUME Busy(p)', sock'[p] = "open", peer'[Other(p)] # "gone"
      PROVE  Complete(s, g, o, inbox'[p])
  BY <1>1, <1>6 DEF Flow
<1> QED
  BY <1>3, <1>4, <1>5, <1>6 DEF Flow

(* A sequence is a first part of itself. *)
LEMMA WholeSeq ==
    ASSUME TypeOK, NEW p \in Peers
    PROVE  \E n \in 0..Len(inbox[p]) : inbox[p] = SubSeq(inbox[p], 1, n)
<1>1. inbox[p] \in Seq(Data[p]) /\ Len(inbox[p]) \in Nat
  BY Streams, LenProperties
<1>2. inbox[p] = SubSeq(inbox[p], 1, Len(inbox[p])) /\ Len(inbox[p]) \in 0..Len(inbox[p])
  BY <1>1, SubSeqFull
<1> QED
  BY <1>2

(* The peers' own steps. *)
LEMMA PeerOrder ==
    ASSUME TypeOK, InOrder, NEW p \in Peers, NEW r \in Peers,
           Send(r) \/ HalfClose(r) \/ Leave(r) \/ Receive(r)
    PROVE  Flow(p)' /\ Ends(p)'
<1> DEFINE s == sent[p]
           g == got[Other(p)]
           o == outbuf[Other(p)]
           b == inbox[p]
<1>1. Flow(p) /\ Ends(p)
  BY DEF InOrder
<1>2. s \in Seq(Data[p]) /\ g \in Seq(Data[p]) /\ o \in Seq(Data[p]) /\ b \in Seq(Data[p])
  BY Streams
<1>3. r = p \/ (r = Other(p) /\ r # p)
  BY OtherPeer
<1>4. Other(p) \in Peers /\ Other(p) # p
  BY OtherPeer
<1>5. /\ DOMAIN sent = Peers /\ DOMAIN inbox = Peers /\ DOMAIN got = Peers
      /\ DOMAIN outbuf = Peers /\ DOMAIN peer = Peers
  BY DEF TypeOK
<1>6. Placed(s, g, o)
  BY <1>1 DEF Flow
<1>7. CASE Send(r)
  <2>1. PICK e \in Data[r] :
          /\ sent' = [sent EXCEPT ![r] = Append(@, e)]
          /\ inbox' = [inbox EXCEPT ![r] = IF sock[r] = "open" THEN Append(@, e) ELSE @]
    BY <1>7 DEF Send
  <2>2. UNCHANGED <<peer, got, outbuf, sock, pc>>
    BY <1>7 DEF Send
  <2>3. Ends(p)'
    BY <1>1, <2>2 DEF Ends
  <2>4. CASE r = p
    <3>1. /\ sent'[p] = Append(s, e)
          /\ sock[p] = "open" => inbox'[p] = Append(b, e)
          /\ sock[p] # "open" => inbox'[p] = b
      BY <1>5, <2>1, <2>4
    <3>2. Placed(sent'[p], g, o)
      BY <1>2, <1>6, <2>4, <3>1, SendFlow
    <3>3. Busy(p) => Fits(sent'[p], g, o, inbox'[p])
      BY <1>1, <1>2, <2>4, <3>1, SendFlow, ZenonT(60) DEF Flow
    <3>4. Busy(p) /\ peer[Other(p)] # "gone" => Ahead(sent'[p], g, o, inbox'[p])
      BY <1>1, <1>2, <2>4, <3>1, SendFlow, ZenonT(60) DEF Flow
    <3>5. Busy(p) /\ sock[p] = "open" /\ peer[Other(p)] # "gone" =>
            Complete(sent'[p], g, o, inbox'[p])
      BY <1>1, <1>2, <2>4, <3>1, SendFlow, ZenonT(60) DEF Flow
    <3> QED
      BY <2>2, <2>3, <3>2, <3>3, <3>4, <3>5 DEF Flow, Busy
  <2>5. CASE r = Other(p)
    <3>1. sent'[p] = s /\ inbox'[p] = b
      BY <1>4, <1>5, <2>1, <2>5
    <3> QED
      BY <2>2, <2>3, <3>1, FlowKept, WholeSeq DEF Busy
  <2> QED
    BY <1>3, <2>4, <2>5
<1>8. CASE HalfClose(r)
  <2>1. \A q \in Peers : peer'[q] = "gone" <=> peer[q] = "gone"
    BY <1>5, <1>8 DEF HalfClose
  <2>2. UNCHANGED <<sent, got, inbox, outbuf, sock, pc>>
    BY <1>8 DEF HalfClose
  <2> QED
    BY <1>1, <1>4, <2>1, <2>2, FlowKept, WholeSeq DEF Busy, Ends
<1>9. CASE Leave(r)
  <2>1. /\ peer'[r] = "gone" /\ outbuf'[r] = <<>>
        /\ \A q \in Peers : q # r => peer'[q] = peer[q] /\ outbuf'[q] = outbuf[q]
        /\ UNCHANGED <<sent, got, inbox, sock, pc>>
    BY <1>5, <1>9 DEF Leave
  <2>2. Ends(p)'
    BY <1>1, <2>1 DEF Ends
  <2>3. CASE r = p
    BY <1>4, <2>1, <2>2, <2>3, FlowKept, WholeSeq DEF Busy
  <2>4. CASE r = Other(p)
    <3>1. Placed(s, g, <<>>) /\ (Fits(s, g, o, b) => Fits(s, g, <<>>, b))
      BY <1>2, <1>6, LostFlow
    <3> QED
      BY <1>1, <2>1, <2>2, <2>4, <3>1 DEF Flow, Busy
  <2> QED
    BY <1>3, <2>3, <2>4
<1>10. CASE Receive(r)
  <2>1. /\ outbuf[r] # <<>>
        /\ got'[r] = Append(got[r], Head(outbuf[r])) /\ outbuf'[r] = Tail(outbuf[r])
        /\ \A q \in Peers : q # r => got'[q] = got[q] /\ outbuf'[q] = outbuf[q]
        /\ UNCHANGED <<peer, sent, inbox, sock, pc>>
    BY <1>5, <1>10 DEF Receive
  <2>2. Ends(p)'
    BY <1>1, <2>1 DEF Ends
  <2>3. CASE r = p
    BY <1>4, <2>1, <2>2, <2>3, FlowKept, WholeSeq DEF Busy
  <2>4. CASE r = Other(p)
    <3>1. /\ Placed(s, Append(g, Head(o)), Tail(o))
          /\ Moved(Append(g, Head(o)), Tail(o)) = Moved(g, o)
      BY <1>2, <1>6, <2>1, <2>4, ReceiveFlow
    <3> QED
      BY <1>1, <2>1, <2>2, <2>4, <3>1 DEF Flow, Busy, Fits, Ahead, Complete
  <2> QED
    BY <1>3, <2>3, <2>4
<1> QED
  BY <1>7, <1>8, <1>9, <1>10

(* The pipes' steps. *)
LEMMA PipeOrder ==
    ASSUME TypeOK, InOrder, NEW p \in Peers, NEW r \in Peers, Pipe(r)
    PROVE  Flow(p)' /\ Ends(p)'
<1> DEFINE s == sent[p]
           g == got[Other(p)]
           o == outbuf[Other(p)]
           b == inbox[p]
<1>1. Flow(p) /\ Ends(p)
  BY DEF InOrder
<1>2. s \in Seq(Data[p]) /\ g \in Seq(Data[p]) /\ o \in Seq(Data[p]) /\ b \in Seq(Data[p])
  BY Streams
<1>3. /\ r = p \/ (r = Other(p) /\ p = Other(r) /\ r # p)
      /\ Other(p) \in Peers /\ Other(p) # p
  BY OtherPeer
<1>4. /\ DOMAIN outbuf = Peers /\ DOMAIN inbox = Peers
      /\ pc \in [Peers -> {"none", "read", "drain", "close", "ended"}]
  BY DEF TypeOK
<1>5. Placed(s, g, o)
  BY <1>1 DEF Flow
<1>6. CASE Relay(r)
  <2>1. PICK n \in 1..ReadMax :
          /\ n <= Len(inbox[r])
          /\ inbox' = Rest(r, n)
          /\ outbuf' = IF peer[Other(r)] = "gone" THEN outbuf
                       ELSE [outbuf EXCEPT ![Other(r)] = @ \o Taken(r, n)]
    BY <1>6 DEF Relay, Sink
  <2>2. n \in 1..Len(inbox[r])
    BY <2>1, Streams, LenProperties, SessionAssumption
  <2>3. /\ UNCHANGED <<peer, sent, got, sock>>
        /\ pc[r] = "read" /\ pc' = [pc EXCEPT ![r] = "drain"]
    BY <1>6 DEF Relay, At, Go, net
  <2>4. CASE r = p
    <3>1. /\ Len(Rest(p, n)[p]) = Len(b) - n
          /\ \A i \in 1..(Len(b) - n) : Rest(p, n)[p][i] = b[n + i]
          /\ Rest(p, n)[p] \in Seq(Data[p])
          /\ Taken(p, n) \in Seq(Data[p]) /\ Len(Taken(p, n)) = n
          /\ \A i \in 1..n : Taken(p, n)[i] = b[i]
      BY <2>2, <2>4, RestParts
    <3>2. Busy(p) /\ Fits(s, g, o, b) /\ Busy(p)'
      BY <1>1, <1>4, <2>3, <2>4 DEF Flow, Busy
    <3>3. outbuf'[p] = outbuf[p] /\ pc'[p] = "drain"
      BY <1>3, <1>4, <2>1, <2>3, <2>4
    <3>4. Ends(p)'
      BY <1>1, <2>3, <3>3 DEF Ends
    <3>5. CASE peer[Other(p)] = "gone"
      <4>1. outbuf' = outbuf
        BY <2>1, <2>4, <3>5
      <4>2. Fits(s, g, o, inbox'[p])
        <5> DEFINE c == inbox'[p]
        <5>1. Len(c) = Len(b) - n /\ Len(b) \in Nat /\ Len(s) \in Nat /\ n \in Nat
              /\ Moved(g, o) \in Nat
          <6>1. /\ Len(b) \in Nat /\ Len(s) \in Nat /\ n \in Nat
                /\ Len(g) \in Nat /\ Len(o) \in Nat
            BY <1>2, <2>2, LenProperties
          <6>2. \A x, y \in Nat : x + y \in Nat
            OBVIOUS
          <6> QED
            BY <2>1, <2>4, <3>1, <6>1, <6>2 DEF Moved
        <5> HIDE DEF c
        <5> QED
          BY <3>2, <5>1 DEF Fits, c
      <4> QED
        BY <1>5, <2>3, <3>4, <3>5, <4>1, <4>2 DEF Flow
    <3>6. CASE peer[Other(p)] # "gone"
      <4>1. outbuf'[Other(p)] = o \o Taken(p, n) /\ inbox'[p] = Rest(p, n)[p]
        BY <1>3, <1>4, <2>1, <2>4, <3>6
      <4>2. Ahead(s, g, o, b) /\ (sock[p] = "open" => Complete(s, g, o, b))
        BY <1>1, <3>2, <3>6 DEF Flow
      <4>3. /\ Placed(s, g, o \o Taken(p, n))
            /\ Fits(s, g, o \o Taken(p, n), inbox'[p])
            /\ Ahead(s, g, o \o Taken(p, n), inbox'[p])
            /\ Complete(s, g, o, b) => Complete(s, g, o \o Taken(p, n), inbox'[p])
        <5> DEFINE t == Taken(p, n)
                   c == Rest(p, n)[p]
        <5>1. /\ n \in 1..Len(b) /\ t \in Seq(Data[p]) /\ c \in Seq(Data[p])
              /\ Splits(b, n, t, c)
          BY <2>2, <2>4, <3>1 DEF Splits
        <5>2. Fits(s, g, o, b) /\ Ahead(s, g, o, b) /\ inbox'[p] = c
          BY <3>2, <4>1, <4>2
        <5> HIDE DEF t, c, s, g, o, b
        <5>3. /\ Placed(s, g, o \o t) /\ Fits(s, g, o \o t, c) /\ Ahead(s, g, o \o t, c)
              /\ Complete(s, g, o, b) => Complete(s, g, o \o t, c)
          BY <1>2, <1>5, <5>1, <5>2, RelayFlow
        <5> QED
          BY <5>2, <5>3 DEF t
      <4> QED
        BY <2>3, <3>4, <4>1, <4>2, <4>3 DEF Flow
    <3> QED
      BY <3>5, <3>6
  <2>5. CASE r = Other(p)
    <3>1. Other(r) = p /\ r # p
      BY <1>3, <2>5
    <3>2. Rest(r, n)[p] = b
      BY <2>2, <3>1, RestParts
    <3>3. /\ inbox'[p] = b /\ outbuf'[Other(p)] = o /\ pc'[p] = pc[p]
          /\ peer[p] = "gone" => outbuf'[p] = outbuf[p]
      BY <1>3, <1>4, <2>1, <2>3, <2>5, <3>1, <3>2
    <3> QED
      BY <1>1, <2>3, <3>3, FlowKept, WholeSeq DEF Busy, Ends
  <2> QED
    BY <1>3, <2>4, <2>5
<1>7. CASE ReadOn(r) \/ Ended(r)
  <2>1. /\ UNCHANGED <<net, inbox, outbuf, sock>>
        /\ \/ pc[r] = "drain" /\ pc' = [pc EXCEPT ![r] = "read"]
           \/ pc[r] = "close" /\ pc' = [pc EXCEPT ![r] = "ended"]
    BY <1>7 DEF ReadOn, Ended, Drained, At, Go
  <2>2. /\ pc'[p] \in {"none", "read", "drain"} => pc[p] \in {"none", "read", "drain"}
        /\ pc'[p] \in {"close", "ended"} => pc[p] \in {"close", "ended"}
    BY <1>4, <2>1
  <2> QED
    BY <1>1, <2>1, <2>2, FlowKept, WholeSeq DEF Busy, Ends, net
<1>8. CASE ClosesAt(r)
  <2>1. /\ pc'[r] = "close" /\ pc'[Other(r)] = pc[Other(r)]
        /\ sock'[r] = sock[r] /\ sock'[Other(r)] = "closed"
        /\ \E n \in 0..Len(inbox[Other(r)]) : inbox'[Other(r)] = SubSeq(inbox[Other(r)], 1, n)
        /\ UNCHANGED <<net, outbuf>>
    BY <1>8, ClosesParts
  <2>2. CASE r = p
    <3>1. ~Busy(p)'
      BY <2>1, <2>2 DEF Busy
    <3> QED
      BY <1>1, <2>1, <2>2, <3>1, FlowKept DEF Ends, net
  <2>3. CASE r = Other(p)
    <3>1. p = Other(r)
      BY <1>3, <2>3
    <3> QED
      BY <1>1, <2>1, <2>3, <3>1, FlowKept DEF Ends, Busy, net
  <2> QED
    BY <1>3, <2>2, <2>3
<1> QED
  BY <1>6, <1>7, <1>8, PipeSteps

(* The steps of handle_client and of the end of the process. *)
LEMMA HandlerOrder ==
    ASSUME TypeOK, InOrder, NEW p \in Peers,
           Handler \/ Shutdown \/ Done \/ UNCHANGED vars,
           handler = "connect" => \A r \in Peers : pc[r] = "none"
    PROVE  Flow(p)' /\ Ends(p)'
<1>1. Ends(p) /\ Other(p) \in Peers /\ Other(p) # p
  BY OtherPeer DEF InOrder
<1>2. /\ sock \in [Peers -> {"open", "closed"}]
      /\ pc \in [Peers -> {"none", "read", "drain", "close", "ended"}]
  BY DEF TypeOK
<1>3. CASE Connected
  <2>1. /\ UNCHANGED <<net, inbox, outbuf>>
        /\ pc[p] = "none"
        /\ \/ pc'[p] = "read"
           \/ p = "client" /\ pc'[p] = "close" /\ sock'["server"] = "closed"
        /\ sock'[p] = sock[p] \/ sock'[p] = "closed"
    <3>1. UNCHANGED <<net, inbox, outbuf>> /\ pc[p] = "none"
      BY <1>3 DEF Connected
    <3>2. sock'[p] = sock[p] \/ sock'[p] = "closed"
      BY <1>2, <1>3 DEF Connected
    <3>3. CASE pc' = [q \in Peers |-> "read"]
      BY <3>1, <3>2, <3>3
    <3>4. CASE /\ pc' = [q \in Peers |-> IF q = "client" THEN "close" ELSE "read"]
               /\ sock' = [sock EXCEPT !["server"] = "closed"]
      BY <1>2, <3>1, <3>2, <3>4, OtherPeer
    <3> QED
      BY <1>3, <3>3, <3>4 DEF Connected
  <2>2. p = "client" => Other(p) = "server"
    BY DEF Other
  <2> QED
    BY <1>1, <2>1, <2>2, FlowKept, WholeSeq DEF Busy, Ends, net
<1>4. CASE ConnectFails
  <2>1. /\ UNCHANGED <<net, outbuf, pc>> /\ inbox'[p] = <<>>
        /\ sock'[p] = "closed" /\ sock'[Other(p)] = "closed"
    BY <1>1, <1>4 DEF ConnectFails
  <2>2. \E n \in 0..Len(inbox[p]) : inbox'[p] = SubSeq(inbox[p], 1, n)
    <3>1. inbox[p] \in Seq(Data[p]) /\ Len(inbox[p]) \in Nat
      BY Streams, LenProperties
    <3>2. SubSeq(inbox[p], 1, 0) = <<>>
      BY <3>1, SubSeqEmpty
    <3> QED
      BY <2>1, <3>1, <3>2
  <2> QED
    BY <1>1, <2>1, <2>2, FlowKept DEF Busy, Ends, net
<1>5. ASSUME UNCHANGED <<net, inbox, outbuf, sock, pc>> PROVE Flow(p)' /\ Ends(p)'
  BY <1>1, <1>5, FlowKept, WholeSeq DEF Busy, Ends, net
<1> QED
  BY <1>3, <1>4, <1>5
     DEF Handler, FirstEnds, C2sAwaited, S2cAwaited, Shutdown, Done, vars, net

(* The streams stay in order, by whatever step. *)
LEMMA OrderStep == TypeOK /\ InOrder /\ Control /\ [Next]_vars => InOrder'
<1> SUFFICES ASSUME TypeOK, InOrder, Control, [Next]_vars, NEW p \in Peers
             PROVE  Flow(p)' /\ Ends(p)'
  BY DEF InOrder
<1>1. handler = "connect" => \A r \in Peers : pc[r] = "none"
  BY DEF Control
<1>2. \/ \E r \in Peers : Send(r) \/ HalfClose(r) \/ Leave(r) \/ Receive(r)
      \/ \E r \in Peers : Pipe(r)
      \/ Handler \/ Shutdown \/ Done \/ UNCHANGED vars
  BY DEF Next
<1> QED
  BY <1>1, <1>2, PeerOrder, PipeOrder, HandlerOrder

-----------------------------------------------------------------------------
(***************************************************************************)
(* The order in which the tasks end.                                       *)
(***************************************************************************)
(* A step of a pipe: it leaves a state it was in, and is thrown out only if it
   was asked to go. *)
LEMMA PipeMoves ==
    ASSUME TypeOK, NEW r \in Peers, Pipe(r)
    PROVE  /\ pc[r] \notin {"none", "ended"}
           /\ pc'[Other(r)] = pc[Other(r)] /\ cancel'[Other(r)] = cancel[Other(r)]
           /\ cancel'[r] = cancel[r] \/ cancel[r] # "no"
           /\ UNCHANGED <<handler, stopping>>
<1>1. /\ pc \in [Peers -> {"none", "read", "drain", "close", "ended"}]
      /\ cancel \in [Peers -> {"no", "asked", "thrown"}]
      /\ Other(r) \in Peers /\ Other(r) # r
  BY OtherPeer DEF TypeOK
<1>2. CASE Relay(r)
  BY <1>1, <1>2 DEF Relay, At, Go
<1>3. CASE ReadOn(r)
  BY <1>1, <1>3 DEF ReadOn, Drained, At, Go
<1>4. CASE Eof(r)
  BY <1>1, <1>4 DEF Eof, At, Close, Go
<1>5. CASE Fails(r)
  BY <1>1, <1>5 DEF Fails, At, Close, Go
<1>6. CASE Cancelled(r)
  BY <1>1, <1>6 DEF Cancelled, Close, Go
<1>7. CASE Ended(r)
  BY <1>1, <1>7 DEF Ended, Go
<1>8. CASE r = "client" /\ Refuse
  BY <1>1, <1>8 DEF Refuse, At, Close, Go
<1> QED
  BY <1>2, <1>3, <1>4, <1>5, <1>6, <1>7, <1>8 DEF Pipe

(* The handler waits for both pipes, unless it is cancelled itself. *)
LEMMA ControlStep == TypeOK /\ Control /\ [Next]_vars => Control'
<1> SUFFICES ASSUME TypeOK, Control, [Next]_vars PROVE Control'
  OBVIOUS
<1>1. /\ pc \in [Peers -> {"none", "read", "drain", "close", "ended"}]
      /\ cancel \in [Peers -> {"no", "asked", "thrown"}]
      /\ sock \in [Peers -> {"open", "closed"}]
      /\ "client" \in Peers /\ "server" \in Peers
  BY OtherPeer DEF TypeOK
<1>2. \A r \in Peers : r = "client" \/ r = "server"
  BY DEF Peers
<1>3. ASSUME NEW r \in Peers, Send(r) \/ HalfClose(r) \/ Leave(r) \/ Receive(r)
      PROVE  Control'
  BY <1>3 DEF Send, HalfClose, Leave, Receive, Control
<1>4. ASSUME NEW r \in Peers, Pipe(r) PROVE Control'
  <2>1. /\ pc[r] \notin {"none", "ended"}
        /\ \A q \in Peers : q # r => pc'[q] = pc[q] /\ cancel'[q] = cancel[q]
        /\ cancel'[r] = cancel[r] \/ cancel[r] # "no"
        /\ handler' = handler
    BY <1>4, PipeMoves, OtherPeer
  <2>2. stopping' = stopping
    BY <1>4, PipeMoves
  <2>3. handler # "connect" /\ (stopping \/ handler # "ended")
    BY <2>1 DEF Control
  <2>4. stopping \/ handler # "wait" \/ \A q \in Peers : cancel'[q] = "no"
    <3> SUFFICES ASSUME ~stopping, handler = "wait", NEW q \in Peers PROVE cancel'[q] = "no"
      OBVIOUS
    <3>1. cancel[q] = "no" /\ cancel[r] = "no"
      BY DEF Control
    <3> QED
      BY <2>1, <3>1
  <2>5. stopping \/ handler # "c2s" \/ cancel'["client"] = "no" \/ pc'["server"] = "ended"
    BY <1>1, <1>2, <2>1 DEF Control
  <2>6. stopping \/ handler # "s2c" \/ pc'["client"] = "ended"
    BY <1>1, <1>2, <2>1 DEF Control
  <2> QED
    BY <2>1, <2>2, <2>3, <2>4, <2>5, <2>6 DEF Control
<1>5. CASE Connected
  <2>1. handler = "connect" /\ handler' = "wait" /\ cancel' = cancel
    BY <1>5 DEF Connected
  <2>2. stopping' = stopping
    BY <1>5 DEF Connected
  <2> QED
    BY <2>1, <2>2 DEF Control
<1>6. CASE ConnectFails
  <2>1. /\ handler = "connect" /\ handler' = "ended" /\ pc' = pc
        /\ \A q \in Peers : sock'[q] = "closed"
    BY <1>6 DEF ConnectFails
  <2>2. \A q \in Peers : pc'[q] = "none"
    BY <2>1 DEF Control
  <2> QED
    BY <2>1, <2>2 DEF Control
<1>7. CASE FirstEnds
  <2>1. /\ handler = "wait" /\ handler' = "c2s" /\ pc' = pc
        /\ pc["client"] = "ended" \/ pc["server"] = "ended"
        /\ cancel'["client"] = IF pc["client"] # "ended" /\ cancel["client"] = "no"
                               THEN "asked" ELSE cancel["client"]
    BY <1>1, <1>2, <1>7 DEF FirstEnds, Ask
  <2>2. stopping' = stopping
    BY <1>7 DEF FirstEnds
  <2>3. stopping \/ cancel["client"] = "no"
    BY <1>1, <2>1 DEF Control
  <2> QED
    BY <2>1, <2>2, <2>3 DEF Control
<1>8. CASE C2sAwaited
  <2>1. /\ handler = "c2s" /\ pc["client"] = "ended" /\ pc' = pc
        /\ handler' = IF cancel["client"] = "thrown" THEN "ended" ELSE "s2c"
    BY <1>8 DEF C2sAwaited
  <2>2. stopping' = stopping
    BY <1>8 DEF C2sAwaited
  <2>3. stopping \/ cancel["client"] = "no" \/ pc["server"] = "ended"
    BY <2>1 DEF Control
  <2>4. CASE cancel["client"] = "thrown"
    BY <1>2, <2>1, <2>2, <2>3, <2>4 DEF Control
  <2>5. CASE cancel["client"] # "thrown"
    BY <2>1, <2>2, <2>5 DEF Control
  <2> QED
    BY <2>4, <2>5
<1>9. CASE S2cAwaited
  <2>1. handler = "s2c" /\ pc["server"] = "ended" /\ pc' = pc /\ handler' = "ended"
    BY <1>9 DEF S2cAwaited
  <2>2. stopping' = stopping
    BY <1>9 DEF S2cAwaited
  <2>3. stopping \/ pc["client"] = "ended"
    BY <2>1 DEF Control
  <2> QED
    BY <1>2, <2>1, <2>2, <2>3 DEF Control
<1>10. CASE Shutdown
  <2>1. handler' = "ended"
    BY <1>10 DEF Shutdown
  <2>2. stopping'
    BY <1>10 DEF Shutdown
  <2> QED
    BY <2>1, <2>2 DEF Control
<1>11. CASE Done \/ UNCHANGED vars
  BY <1>11 DEF Done, vars, net, Control
<1> QED
  BY <1>3, <1>4, <1>5, <1>6, <1>7, <1>8, <1>9, <1>10, <1>11 DEF Next, Handler

-----------------------------------------------------------------------------
(***************************************************************************)
(* A refusal and the bound on what is held.                                *)
(***************************************************************************)
(* Once a read was refused the client's pipe is past its loop and writes no more. *)
LEMMA ShutStep == TypeOK /\ InOrder /\ Control /\ Shut /\ [Next]_vars => Shut'
<1> SUFFICES ASSUME TypeOK, InOrder, Control, Shut, [Next]_vars PROVE Shut'
  OBVIOUS
<1> DEFINE g == got["server"]
           o == outbuf["server"]
<1>1. /\ "client" \in Peers /\ "server" \in Peers
      /\ Other("client") = "server" /\ Other("server") = "client"
      /\ \A r \in Peers : r = "client" \/ r = "server"
  BY DEF Peers, Other
<1>2. /\ pc \in [Peers -> {"none", "read", "drain", "close", "ended"}]
      /\ DOMAIN outbuf = Peers /\ DOMAIN got = Peers /\ refused \in Nat \cup {None}
  BY DEF TypeOK
<1>3. /\ g \in Seq(Data["client"]) /\ o \in Seq(Data["client"])
      /\ sent["client"] \in Seq(Data["client"]) /\ inbox["client"] \in Seq(Data["client"])
      /\ Flow("client")
  BY <1>1, Streams DEF InOrder
<1>4. ASSUME refused' = refused, ~Busy("client") => ~Busy("client")', got' = got, outbuf' = outbuf
      PROVE  Shut'
  BY <1>4 DEF Shut
<1>5. ASSUME NEW r \in Peers, Send(r) \/ HalfClose(r) PROVE Shut'
  BY <1>4, <1>5 DEF Send, HalfClose, Busy
<1>6. ASSUME NEW r \in Peers, Leave(r) PROVE Shut'
  <2>1. UNCHANGED <<refused, pc, got>>
    BY <1>6 DEF Leave
  <2>2. outbuf'["server"] \in {o, <<>>}
    BY <1>1, <1>2, <1>6 DEF Leave
  <2>3. Moved(g, <<>>) <= Moved(g, o) /\ Moved(g, <<>>) \in Nat /\ Moved(g, o) \in Nat
    <3>1. Len(g) \in Nat /\ Len(o) \in Nat /\ Len(<<>>) = 0
      BY <1>3, LenProperties
    <3> HIDE DEF g, o
    <3> QED
      BY <3>1 DEF Moved
  <2>4. refused # None => Moved(g, <<>>) <= refused
    BY <1>2, <2>3 DEF Shut
  <2> QED
    BY <2>1, <2>2, <2>4 DEF Shut, Busy
<1>7. ASSUME NEW r \in Peers, Receive(r) PROVE Shut'
  <2>1. UNCHANGED <<refused, pc>>
    BY <1>7 DEF Receive
  <2>2. Moved(got'["server"], outbuf'["server"]) = Moved(g, o)
    <3>1. CASE r = "client"
      BY <1>1, <1>2, <1>7, <3>1 DEF Receive
    <3>2. CASE r = "server"
      <4>1. /\ o # <<>> /\ got'["server"] = Append(g, Head(o))
            /\ outbuf'["server"] = Tail(o)
        BY <1>1, <1>2, <1>7, <3>2 DEF Receive
      <4>2. Placed(sent["client"], g, o)
        BY <1>1, <1>3 DEF Flow
      <4> QED
        BY <1>3, <4>1, <4>2, ReceiveFlow
    <3> QED
      BY <1>1, <3>1, <3>2
  <2> QED
    BY <2>1, <2>2 DEF Shut, Busy
<1>8. ASSUME NEW r \in Peers, Relay(r) PROVE Shut'
  <2>1. refused' = refused
    BY <1>8 DEF Relay
  <2>2. CASE r = "client"
    <3>1. Busy("client")
      BY <1>8, <2>2 DEF Relay, At, Busy
    <3> QED
      BY <2>1, <3>1 DEF Shut
  <2>3. CASE r = "server"
    <3>1. outbuf'["server"] = o /\ got' = got /\ pc'["client"] = pc["client"]
      BY <1>1, <1>2, <1>8, <2>3 DEF Relay, Go, Sink, net
    <3> QED
      BY <2>1, <3>1 DEF Shut, Busy
  <2> QED
    BY <1>1, <2>2, <2>3
<1>9. ASSUME NEW r \in Peers, ReadOn(r) \/ Ended(r) PROVE Shut'
  <2>1. /\ UNCHANGED <<refused, got, outbuf>>
        /\ \/ pc[r] = "drain" /\ pc' = [pc EXCEPT ![r] = "read"]
           \/ pc[r] = "close" /\ pc' = [pc EXCEPT ![r] = "ended"]
    BY <1>9 DEF ReadOn, Ended, Drained, At, Go, net
  <2>2. ~Busy("client") => ~Busy("client")'
    BY <1>1, <1>2, <2>1 DEF Busy
  <2> QED
    BY <1>4, <2>1, <2>2
<1>10. ASSUME NEW r \in Peers, ClosesAt(r) PROVE Shut'
  <2>1. /\ UNCHANGED <<got, outbuf>>
        /\ pc'[r] = "close" /\ pc'[Other(r)] = pc[Other(r)]
    BY <1>10, ClosesParts DEF net
  <2>2. CASE refused' = refused
    <3>1. pc'["client"] \in {pc["client"], "close"}
      BY <1>1, <2>1
    <3>2. ~Busy("client") => ~Busy("client")'
      BY <3>1 DEF Busy
    <3> QED
      BY <1>4, <2>1, <2>2, <3>2
  <2>3. CASE r = "client" /\ Refuse
    <3>1. refused' = Len(sent["client"]) - Len(inbox["client"])
      BY <2>3, RefuseParts
    <3>2. Fits(sent["client"], g, o, inbox["client"])
      <4>1. Busy("client")
        BY <2>3 DEF Refuse, At, Busy
      <4> QED
        BY <1>1, <1>3, <4>1 DEF Flow
    <3>3. Moved(g, o) <= refused'
      BY <1>3, <3>1, <3>2, FitsLeaves
    <3>4. ~Busy("client")'
      BY <2>1, <2>3 DEF Busy
    <3> QED
      BY <2>1, <3>3, <3>4 DEF Shut
  <2> QED
    BY <1>10, <2>2, <2>3 DEF ClosesAt
<1>11. ASSUME Handler \/ Shutdown \/ Done \/ UNCHANGED vars PROVE Shut'
  <2>1. UNCHANGED <<got, outbuf, refused>>
    BY <1>11
       DEF Handler, Connected, ConnectFails, FirstEnds, C2sAwaited, S2cAwaited, Shutdown,
           Done, vars, net
  <2>2. pc' = pc \/ (handler = "connect" /\ Connected)
    BY <1>11
       DEF Handler, Connected, ConnectFails, FirstEnds, C2sAwaited, S2cAwaited, Shutdown,
           Done, vars, net
  <2>3. CASE pc' = pc
    BY <1>4, <2>1, <2>3 DEF Busy
  <2>4. CASE Connected
    <3>1. Busy("client")
      BY <1>1, <2>4 DEF Control, Connected, Busy
    <3> QED
      BY <2>1, <3>1 DEF Shut
  <2> QED
    BY <2>2, <2>3, <2>4
<1>12. ASSUME NEW r \in Peers, Pipe(r) PROVE Shut'
  BY <1>8, <1>9, <1>10, <1>12, PipeSteps
<1> QED
  BY <1>5, <1>6, <1>7, <1>11, <1>12 DEF Next

(* Facts about numbers and lengths. *)
LEMMA Bounds ==
    /\ \A a, b, c \in Nat : a <= b /\ b <= c => a <= c
    /\ \A a, b, c, d \in Nat : a <= b /\ c <= d => a + c <= b + d
    /\ \A a, b \in Nat : a + b \in Nat /\ a <= a + b
OBVIOUS

(* What is shorter is within the same bounds. *)
LEMMA ShorterWithin ==
    ASSUME NEW m \in Nat, NEW l \in Nat, m <= l, l <= HighWater + ReadMax
    PROVE  m <= HighWater + ReadMax /\ (l <= HighWater => m <= HighWater)
BY SessionAssumption

(* A symbol less is no more. *)
LEMMA TailIsShorter ==
    ASSUME NEW S, NEW o \in Seq(S), o # <<>>
    PROVE  Len(Tail(o)) \in Nat /\ Len(Tail(o)) <= Len(o)
BY HeadTailProperties, LenProperties, EmptySeq

(* A pipe reads only when what it wrote before is below the mark. *)
LEMMA HeldStep == TypeOK /\ Control /\ Held /\ [Next]_vars => Held'
<1> SUFFICES ASSUME TypeOK, Control, Held, [Next]_vars, NEW p \in Peers
             PROVE  /\ Len(outbuf'[Other(p)]) <= HighWater + ReadMax
                    /\ pc'[p] \in {"none", "read"} => Len(outbuf'[Other(p)]) <= HighWater
  BY DEF Held
<1> DEFINE q == Other(p)
           o == outbuf[q]
<1>1. /\ HighWater \in Nat /\ ReadMax \in Nat /\ ReadMax > 0
      /\ o \in Seq(Data[p]) /\ Len(o) \in Nat
      /\ Len(o) <= HighWater + ReadMax
      /\ pc[p] \in {"none", "read"} => Len(o) <= HighWater
  BY SessionAssumption, Streams, LenProperties DEF Held
<1>2. /\ pc \in [Peers -> {"none", "read", "drain", "close", "ended"}]
      /\ DOMAIN outbuf = Peers /\ q \in Peers /\ q # p
      /\ \A r \in Peers : r = p \/ (r = q /\ Other(r) = p)
  BY OtherPeer DEF TypeOK
<1> HIDE DEF q
<1>3. ASSUME outbuf'[q] = o, pc'[p] \in {"none", "read"} => pc[p] \in {"none", "read"}
      PROVE  /\ Len(outbuf'[q]) <= HighWater + ReadMax
             /\ pc'[p] \in {"none", "read"} => Len(outbuf'[q]) <= HighWater
  BY <1>1, <1>3
<1>4. ASSUME Len(outbuf'[q]) \in Nat, Len(outbuf'[q]) <= Len(o), pc' = pc
      PROVE  /\ Len(outbuf'[q]) <= HighWater + ReadMax
             /\ pc'[p] \in {"none", "read"} => Len(outbuf'[q]) <= HighWater
  BY <1>1, <1>4, ShorterWithin
<1>5. CASE \E r \in Peers : Send(r) \/ HalfClose(r)
  BY <1>3, <1>5 DEF Send, HalfClose, q
<1>6. CASE \E r \in Peers : Leave(r)
  <2>1. outbuf'[q] \in {o, <<>>} /\ pc' = pc
    BY <1>2, <1>6 DEF Leave
  <2>2. Len(<<>>) = 0
    OBVIOUS
  <2>3. Len(outbuf'[q]) \in Nat /\ Len(outbuf'[q]) <= Len(o)
    BY <1>1, <2>1, <2>2
  <2> QED
    BY <1>4, <2>1, <2>3 DEF q
<1>7. CASE \E r \in Peers : Receive(r)
  <2>1. pc' = pc /\ (outbuf'[q] = o \/ (o # <<>> /\ outbuf'[q] = Tail(o)))
    BY <1>2, <1>7 DEF Receive
  <2>2. o # <<>> => Len(Tail(o)) \in Nat /\ Len(Tail(o)) <= Len(o)
    BY <1>1, TailIsShorter
  <2>3. CASE outbuf'[q] = o
    BY <1>3, <2>1, <2>3 DEF q
  <2>4. CASE o # <<>> /\ outbuf'[q] = Tail(o)
    BY <1>4, <2>1, <2>2, <2>4 DEF q
  <2> QED
    BY <2>1, <2>3, <2>4
<1>8. CASE \E r \in Peers : Relay(r)
  <2>1. PICK r \in Peers : Relay(r)
    BY <1>8
  <2>2. PICK n \in 1..ReadMax :
          /\ n <= Len(inbox[r])
          /\ outbuf' = IF peer[Other(r)] = "gone" THEN outbuf
                       ELSE [outbuf EXCEPT ![Other(r)] = @ \o Taken(r, n)]
    BY <2>1 DEF Relay, Sink
  <2>3. pc[r] = "read" /\ pc' = [pc EXCEPT ![r] = "drain"]
    BY <2>1 DEF Relay, At, Go
  <2>4. CASE r = p
    <3>1. outbuf'[q] = o \/ outbuf'[q] = o \o Taken(p, n)
      BY <1>2, <2>2, <2>4 DEF q
    <3>2. n \in 1..Len(inbox[p])
      BY <2>2, <2>4, Streams, LenProperties, SessionAssumption
    <3>3. Taken(p, n) \in Seq(Data[p]) /\ Len(Taken(p, n)) = n
      BY <3>2, RestParts
    <3>4. Len(o \o Taken(p, n)) = Len(o) + n
      BY <1>1, <3>3, ConcatProperties
    <3>5. Len(o) <= HighWater /\ pc'[p] = "drain"
      BY <1>1, <1>2, <2>3, <2>4
    <3>6. /\ n \in Nat /\ n <= ReadMax /\ HighWater + ReadMax \in Nat
      BY <1>1, <2>2
    <3>7. Len(o) + n <= HighWater + ReadMax
      BY <1>1, <3>5, <3>6, Bounds
    <3> QED
      BY <1>1, <3>1, <3>4, <3>5, <3>7 DEF q
  <2>5. CASE r = q /\ Other(r) = p
    BY <1>2, <1>3, <2>2, <2>3, <2>5 DEF q
  <2> QED
    BY <1>2, <2>4, <2>5
<1>9. CASE \E r \in Peers : ReadOn(r)
  <2>1. PICK r \in Peers : ReadOn(r)
    BY <1>9
  <2>2. outbuf' = outbuf /\ pc' = [pc EXCEPT ![r] = "read"] /\ Len(outbuf[Other(r)]) <= HighWater
    BY <2>1 DEF ReadOn, Drained, Go
  <2>3. CASE r = p
    BY <1>1, <2>2, <2>3 DEF q
  <2>4. CASE r = q /\ Other(r) = p
    BY <1>2, <1>3, <2>2, <2>4 DEF q
  <2> QED
    BY <1>2, <2>1, <2>3, <2>4
<1>10. CASE \E r \in Peers : Ended(r)
  BY <1>2, <1>3, <1>10 DEF Ended, Go, q
<1>11. CASE \E r \in Peers : ClosesAt(r)
  <2>1. PICK r \in Peers : ClosesAt(r)
    BY <1>11
  <2>2. outbuf' = outbuf /\ pc'[r] = "close" /\ pc'[Other(r)] = pc[Other(r)]
    BY <2>1, ClosesParts
  <2>3. pc'[p] = "close" \/ pc'[p] = pc[p]
    BY <1>2, <2>2
  <2> QED
    BY <1>3, <2>2, <2>3 DEF q
<1>12. CASE Handler \/ Shutdown \/ Done \/ UNCHANGED vars
  <2>1. outbuf' = outbuf
    BY <1>12
       DEF Handler, Connected, ConnectFails, FirstEnds, C2sAwaited, S2cAwaited, Shutdown,
           Done, vars, net
  <2>2. pc' = pc \/ handler = "connect"
    BY <1>12
       DEF Handler, Connected, ConnectFails, FirstEnds, C2sAwaited, S2cAwaited, Shutdown,
           Done, vars, net
  <2>3. handler = "connect" => pc[p] = "none"
    BY DEF Control
  <2> QED
    BY <1>3, <2>1, <2>2, <2>3 DEF q
<1>13. CASE \E r \in Peers : Pipe(r)
  BY <1>8, <1>9, <1>10, <1>11, <1>13, PipeSteps DEF q
<1> QED
  BY <1>5, <1>6, <1>7, <1>12, <1>13 DEF Next, q

-----------------------------------------------------------------------------
(***************************************************************************)
(* The theorems.                                                           *)
(***************************************************************************)
(* The accepted connection. *)
LEMMA InvInit == Init => Inv
<1> SUFFICES ASSUME Init PROVE Inv
  OBVIOUS
<1>1. Shut
  BY DEF Init, Shut
<1>2. Held
  <2>1. \A p \in Peers : Len(outbuf[Other(p)]) = 0
    <3>1. Len(<<>>) = 0
      OBVIOUS
    <3> QED
      BY <3>1, OtherPeer DEF Init
  <2>2. 0 <= HighWater /\ 0 <= HighWater + ReadMax
    BY SessionAssumption
  <2> QED
    BY <2>1, <2>2 DEF Held
<1>3. Control
  BY DEF Init, Control
<1> QED
  BY <1>1, <1>2, <1>3, InitType, InitOrder DEF Inv

(* Every step. *)
LEMMA InvStep == Inv /\ [Next]_vars => Inv'
BY TypeStep, OrderStep, ControlStep, ShutStep, HeldStep DEF Inv

(* The inductive invariant holds throughout. *)
LEMMA Invariance == Spec => []Inv
BY InvInit, InvStep, PTL DEF Spec

(* The streams, the tasks' states and the position of a refused read are always
   what TypeOK says, however long the streams are. *)
THEOREM TypeCorrect == Spec => []TypeOK
BY Invariance, PTL DEF Inv

(* A first part of a sequence, symbol by symbol. *)
LEMMA PlacedIsPrefix ==
    ASSUME NEW S, NEW s \in Seq(S), NEW g \in Seq(S), NEW o \in Seq(S), NEW b \in Seq(S),
           Placed(s, g, o)
    PROVE  /\ IsPrefix(g \o o, s)
           /\ Ahead(s, g, o, b) /\ Complete(s, g, o, b) => (g \o o) \o b = s
<1> DEFINE w == g \o o
           v == w \o b
           n == Len(w)
           x == SubSeq(w, 1, n)
           y == SubSeq(s, 1, n)
<1>1. /\ Len(g) \in Nat /\ Len(o) \in Nat /\ Len(b) \in Nat /\ Len(s) \in Nat
      /\ w \in Seq(S) /\ n = Len(g) + Len(o)
      /\ \A i \in 1..(Len(g) + Len(o)) : w[i] = IF i <= Len(g) THEN g[i] ELSE o[i - Len(g)]
  BY LenProperties, ConcatProperties
<1> HIDE DEF w, x, y
<1>2. /\ v \in Seq(S) /\ Len(v) = n + Len(b)
      /\ \A i \in 1..(n + Len(b)) : v[i] = IF i <= n THEN w[i] ELSE b[i - n]
  <2>1. w \in Seq(S)
    BY <1>1
  <2> QED
    BY <2>1, ConcatProperties
<1> HIDE DEF v, n
<1>3. n \in Nat /\ n = Moved(g, o)
  BY <1>1 DEF Moved
<1>4. n <= Len(s)
  BY <1>3 DEF Placed
<1>5. ASSUME NEW i \in 1..n PROVE w[i] = s[i]
  <2>1. CASE i <= Len(g)
    <3>1. i \in 1..Len(g)
      BY <1>1, <1>3, <2>1
    <3> QED
      BY <1>1, <1>5, <2>1, <3>1 DEF Placed
  <2>2. CASE ~(i <= Len(g))
    <3>1. i - Len(g) \in 1..Len(o) /\ Len(g) + (i - Len(g)) = i
      BY <1>1, <1>3, <1>5, <2>2
    <3>2. o[i - Len(g)] = s[Len(g) + (i - Len(g))]
      BY <3>1 DEF Placed
    <3> QED
      BY <1>1, <1>5, <2>2, <3>1, <3>2
  <2> QED
    BY <2>1, <2>2
<1>6. IsPrefix(w, s)
  <2>1. /\ 1 \in 1..(Len(s) + 1) /\ 1 \in 1..(Len(w) + 1) /\ n \in 0..Len(s)
        /\ n \in 0..Len(w) /\ 1 <= n + 1 /\ n - 1 + 1 = n
        /\ \A i \in 1..n : 1 + i - 1 = i
    BY <1>1, <1>3, <1>4 DEF n
  <2>2. /\ y \in Seq(S) /\ Len(y) = n - 1 + 1 /\ \A i \in 1..(n - 1 + 1) : y[i] = s[1 + i - 1]
    BY <1>1, <2>1, PartOfSeq DEF y
  <2>3. /\ x \in Seq(S) /\ Len(x) = n - 1 + 1 /\ \A i \in 1..(n - 1 + 1) : x[i] = w[1 + i - 1]
    BY <1>1, <2>1, PartOfSeq DEF x
  <2>4. Len(x) = Len(y) /\ \A i \in 1..Len(x) : x[i] = y[i]
    <3>1. Len(x) = n /\ Len(y) = n
      BY <2>1, <2>2, <2>3
    <3>2. \A i \in 1..n : x[i] = w[i] /\ y[i] = s[i]
      BY <2>1, <2>2, <2>3
    <3> QED
      BY <1>5, <3>1, <3>2
  <2>5. x = y
    BY <2>2, <2>3, <2>4, SeqEqual
  <2> QED
    BY <1>4, <2>5 DEF IsPrefix, x, y, n
<1>7. ASSUME Ahead(s, g, o, b), Complete(s, g, o, b) PROVE v = s
  <2>1. Len(v) = Len(s)
    BY <1>2, <1>3, <1>7 DEF Complete
  <2>2. ASSUME NEW i \in 1..Len(v) PROVE v[i] = s[i]
    <3>1. CASE i <= n
      <4>1. i \in 1..n
        BY <1>1, <1>2, <1>3, <3>1
      <4> QED
        BY <1>1, <1>2, <1>5, <2>2, <3>1, <4>1
    <3>2. CASE ~(i <= n)
      <4>1. i - n \in 1..Len(b) /\ n + (i - n) = i
        BY <1>1, <1>2, <1>3, <3>2
      <4>2. b[i - n] = s[n + (i - n)]
        BY <1>3, <1>7, <4>1 DEF Ahead
      <4> QED
        BY <1>2, <2>2, <3>2, <4>1, <4>2
    <3> QED
      BY <3>1, <3>2
  <2> QED
    BY <1>2, <2>1, <2>2, SeqEqual
<1> QED
  BY <1>6, <1>7 DEF v, w

(* Neither a read, an end, an exception nor a cancellation of either pipe loses,
   repeats or reorders what a peer sent, whatever the other pipe does meanwhile. *)
THEOREM StreamsAreRelayed == Spec => []Relayed
<1>1. ASSUME Inv, NEW p \in Peers
      PROVE  /\ peer[Other(p)] # "gone" => IsPrefix(Written(p), sent[p])
             /\ sock = [q \in Peers |-> "open"] /\ peer[Other(p)] # "gone" =>
                   Written(p) \o inbox[p] = sent[p]
  <2>1. TypeOK /\ Flow(p) /\ Ends(p) /\ Other(p) \in Peers
    BY <1>1, OtherPeer DEF Inv, InOrder
  <2>2. /\ sent[p] \in Seq(Data[p]) /\ inbox[p] \in Seq(Data[p])
        /\ got[Other(p)] \in Seq(Data[p]) /\ outbuf[Other(p)] \in Seq(Data[p])
    BY <2>1, Streams
  <2>3. Placed(sent[p], got[Other(p)], outbuf[Other(p)])
    BY <2>1 DEF Flow
  <2>4. IsPrefix(Written(p), sent[p])
    BY <2>2, <2>3, PlacedIsPrefix DEF Written
  <2>5. ASSUME sock = [q \in Peers |-> "open"], peer[Other(p)] # "gone"
        PROVE  Written(p) \o inbox[p] = sent[p]
    <3>1. sock[p] = "open" /\ sock[Other(p)] = "open"
      BY <2>1, <2>5
    <3>2. Busy(p)
      BY <2>1, <3>1 DEF TypeOK, Ends, Busy
    <3>3. /\ Ahead(sent[p], got[Other(p)], outbuf[Other(p)], inbox[p])
          /\ Complete(sent[p], got[Other(p)], outbuf[Other(p)], inbox[p])
      BY <2>1, <2>5, <3>1, <3>2 DEF Flow
    <3> QED
      BY <2>2, <2>3, <3>3, PlacedIsPrefix DEF Written
  <2> QED
    BY <2>4, <2>5
<1>2. Inv => Relayed
  BY <1>1 DEF Relayed
<1> QED
  BY <1>2, Invariance, PTL

(* handle_client returns only when both pipes have ended and both connections
   are closed, unless the process is ending. *)
THEOREM HandlerLeavesNoOrphans == Spec => []NoOrphans
<1>1. Inv => NoOrphans
  <2> SUFFICES ASSUME Inv, handler = "ended", ~stopping
               PROVE  Over /\ sock = [p \in Peers |-> "closed"]
    BY DEF NoOrphans
  <2>1. TypeOK /\ InOrder /\ Control
    BY DEF Inv
  <2>2. sock \in [Peers -> {"open", "closed"}]
    BY <2>1 DEF TypeOK
  <2>3. \/ \A p \in Peers : pc[p] = "ended"
        \/ \A p \in Peers : pc[p] = "none" /\ sock[p] = "closed"
    BY <2>1 DEF Control
  <2>4. \A p \in Peers : sock[p] = "closed"
    <3> SUFFICES ASSUME NEW p \in Peers, pc[Other(p)] = "ended" PROVE sock[p] = "closed"
      BY <2>3, OtherPeer
    <3>1. Ends(Other(p)) /\ Other(Other(p)) = p
      BY <2>1, OtherPeer DEF InOrder
    <3> QED
      BY <3>1 DEF Ends
  <2>5. sock = [p \in Peers |-> "closed"]
    BY <2>2, <2>4
  <2> QED
    BY <2>3, <2>5 DEF Over
<1> QED
  BY <1>1, Invariance, PTL

(* From the read that a rule refused on, nothing the client sent reaches the
   server's socket, whatever the client goes on to send. *)
THEOREM BlockIsFinal == Spec => []BlockEndsSession
<1>1. Inv => BlockEndsSession
  <2> SUFFICES ASSUME Inv, refused # None PROVE Len(Written("client")) <= refused
    BY DEF BlockEndsSession
  <2>1. /\ Other("client") = "server" /\ "client" \in Peers
        /\ Moved(got["server"], outbuf["server"]) <= refused
    BY DEF Inv, Shut, Other, Peers
  <2>2. /\ got["server"] \in Seq(Data["client"]) /\ outbuf["server"] \in Seq(Data["client"])
    BY <2>1, Streams DEF Inv
  <2>3. Len(Written("client")) = Moved(got["server"], outbuf["server"])
    BY <2>1, <2>2, ConcatProperties DEF Written, Moved
  <2> QED
    BY <2>1, <2>3
<1> QED
  BY <1>1, Invariance, PTL

(* The proxy never holds more for a peer than the mark and one read. *)
THEOREM BuffersAreBounded == Spec => []Backpressure
<1>1. Inv => Backpressure
  BY OtherPeer DEF Inv, Held, Backpressure
<1> QED
  BY <1>1, Invariance, PTL
=============================================================================
