--------------------------- MODULE TdsGateProofs ---------------------------
(***************************************************************************)
(* The pipe implements the gate for messages, for every vocabulary, rules  *)
(* file, message set and bound, as long as its stores work and no output   *)
(* of an iteration is too long to be written.  In a dry run it then hands  *)
(* the server the payloads the client sent, and all but what a batch       *)
(* loses of the headers.                                                   *)
(***************************************************************************)
EXTENDS TdsServer, TdsPipeProofs

-----------------------------------------------------------------------------
(***************************************************************************)
(* Messages and their bytes.                                               *)
(***************************************************************************)
HeaderOf(m, i) ==
    [typ |-> m.typ, eom |-> i = Len(m.parts), mark |-> MarkOf(m, i), len |-> 1 + Len(m.parts[i])]

Packets(m) == [i \in DOMAIN m.parts |-> Packet(m, i)]
Wires      == [i \in DOMAIN sent |-> Wire(sent[i])]

\* The first n lists of ss, joined.
Upto(ss, n) == FlattenSeq(SubSeq(ss, 1, n))

(* A message has a type and at least one packet, each a list of cells. *)
LEMMA MessageType ==
    ASSUME NEW m \in Messages
    PROVE  /\ m.typ \in Types /\ m.parts \in Seq(Seq(Cell))
           /\ Len(m.parts) \in Nat \ {0} /\ DOMAIN m.parts = 1..Len(m.parts)
<1>1. m.typ \in Types /\ m.parts \in Seq(Seq(Symbols)) /\ m.parts # <<>>
  BY WireAssumption
<1>2. Symbols \subseteq Cell /\ Seq(Symbols) \subseteq Seq(Cell)
  BY SeqMonotonic DEF Cell
<1>3. m.parts \in Seq(Seq(Cell))
  BY <1>1, <1>2
<1>4. Len(m.parts) \in Nat \ {0} /\ DOMAIN m.parts = 1..Len(m.parts)
  BY <1>1, LenProperties, EmptySeq
<1> QED
  BY <1>1, <1>3, <1>4

(* A packet is its header and the part that follows it. *)
LEMMA PacketIs ==
    ASSUME NEW m \in Messages, NEW i \in 1..Len(m.parts)
    PROVE  /\ HeaderOf(m, i) \in Header /\ HeaderOf(m, i) \in Cell
           /\ HeaderOf(m, i) \notin Symbols
           /\ m.parts[i] \in Seq(Cell)
           /\ Packet(m, i) \in Seq(Cell)
           /\ Len(Packet(m, i)) = HeaderOf(m, i).len
           /\ HeaderOf(m, i).len = 1 + Len(m.parts[i])
           /\ Packet(m, i)[1] = HeaderOf(m, i)
           /\ Head(Packet(m, i)) = HeaderOf(m, i)
           /\ Tail(Packet(m, i)) = m.parts[i]
           /\ \A j \in 1..Len(m.parts[i]) : Packet(m, i)[j + 1] = m.parts[i][j]
<1> DEFINE h == HeaderOf(m, i)
           part == m.parts[i]
<1>1. m.typ \in Types /\ part \in Seq(Cell)
  BY MessageType, ElementOfSeq
<1>2. Packet(m, i) = <<h>> \o part /\ h.len = 1 + Len(part)
  BY DEF Packet, HeaderOf
<1> HIDE DEF part
<1>3. Len(part) \in Nat
  BY <1>1, LenProperties
<1>4. h \in Header
  <2>1. 1 + Len(part) \in Nat
    BY <1>3
  <2>2. h = [typ |-> m.typ, eom |-> i = Len(m.parts), mark |-> MarkOf(m, i), len |-> 1 + Len(part)]
    BY DEF HeaderOf, part
  <2>3. (i = Len(m.parts)) \in BOOLEAN /\ MarkOf(m, i) \in Marks
    BY DEF MarkOf, Marks
  <2> QED
    BY <1>1, <2>1, <2>2, <2>3 DEF Header
<1> HIDE DEF h
<1>5. h \in Cell /\ h \notin Symbols
  BY <1>4, SuggestionsAssumption DEF Cell
<1>6. /\ <<h>> \o part \in Seq(Cell) /\ Len(<<h>> \o part) = 1 + Len(part)
      /\ Head(<<h>> \o part) = h /\ Tail(<<h>> \o part) = part
      /\ (<<h>> \o part)[1] = h
      /\ \A j \in 1..Len(part) : (<<h>> \o part)[j + 1] = part[j]
  BY <1>1, <1>5, InFront
<1> QED
  BY <1>1, <1>2, <1>4, <1>5, <1>6 DEF h, part

(* The bytes of a message are its packets joined. *)
LEMMA PacketsType ==
    ASSUME NEW m \in Messages
    PROVE  /\ Packets(m) \in Seq(Seq(Cell)) /\ Len(Packets(m)) = Len(m.parts)
           /\ \A i \in 1..Len(m.parts) : Packets(m)[i] = Packet(m, i)
           /\ Wire(m) = FlattenSeq(Packets(m)) /\ Wire(m) \in Seq(Cell)
<1>1. Len(m.parts) \in Nat /\ DOMAIN m.parts = 1..Len(m.parts)
  BY MessageType
<1>2. \A i \in 1..Len(m.parts) : Packet(m, i) \in Seq(Cell)
  BY PacketIs
<1>3. Packets(m) = [i \in 1..Len(m.parts) |-> Packet(m, i)]
  BY <1>1 DEF Packets
<1>4. Packets(m) \in Seq(Seq(Cell)) /\ Len(Packets(m)) = Len(m.parts)
  BY <1>1, <1>2, <1>3, SeqDef
<1>5. Wire(m) = FlattenSeq(Packets(m))
  BY DEF Wire, Packets
<1> QED
  BY <1>3, <1>4, <1>5, FlattenType

(* The client's bytes, message by message. *)
LEMMA WiresType ==
    ASSUME TypeOK
    PROVE  /\ Len(sent) \in Nat /\ \A i \in 1..Len(sent) : sent[i] \in Messages
           /\ Wires \in Seq(Seq(Cell)) /\ Len(Wires) = Len(sent)
           /\ \A i \in 1..Len(sent) : Wires[i] = Wire(sent[i])
<1>1. /\ Len(sent) \in Nat /\ DOMAIN sent = 1..Len(sent)
      /\ \A i \in 1..Len(sent) : sent[i] \in Messages
  BY LenProperties, ElementOfSeq DEF TypeOK
<1>2. \A i \in 1..Len(sent) : Wire(sent[i]) \in Seq(Cell)
  BY <1>1, PacketsType
<1>3. Wires = [i \in 1..Len(sent) |-> Wire(sent[i])]
  BY <1>1 DEF Wires
<1> QED
  BY <1>1, <1>2, <1>3, SeqDef

-----------------------------------------------------------------------------
(***************************************************************************)
(* Where the loop stands.                                                  *)
(***************************************************************************)
Buffer    == IF pc = "parse" THEN rest ELSE cbuf
Undecided == handled < Len(sent)
Current   == sent[handled + 1]

\* The cells in front of packet k + 1 of the message that is being decided.
Place(k) ==
    Len(Upto(Wires, handled)) + IF Undecided THEN Len(Upto(Packets(Current), k)) ELSE 0

\* The chunks a message leaves of its first k packets.
Taken(typ, k) ==
    IF Undecided /\ Current.typ = typ THEN Upto(Current.parts, k) ELSE <<>>

\* The loop has taken the messages decided so far and k packets of the next one.
Standing(k) ==
    /\ handled \in 0..Len(sent)
    /\ k \in Nat /\ IF Undecided THEN k < Len(Current.parts) ELSE k = 0
    /\ Len(Buffer) <= rd /\ rd - Len(Buffer) = Place(k)
    /\ sqlChunks = Taken("batch", k) /\ rpcChunks = Taken("rpc", k)

StreamIs == stream = FlattenSeq(Wires)

(* Packet k + 1 of the message at hand, in the stream. *)
LEMMA PacketInStream ==
    ASSUME TypeOK, StreamIs, NEW k \in Nat, Standing(k), Undecided
    PROVE  /\ Current \in Messages /\ k + 1 \in 1..Len(Current.parts)
           /\ Place(k) \in Nat
           /\ Place(k) + Len(Packet(Current, k + 1)) <= Len(stream)
           /\ \A i \in 1..Len(Packet(Current, k + 1)) :
                 stream[Place(k) + i] = Packet(Current, k + 1)[i]
<1> DEFINE m == Current
           w == Packet(m, k + 1)
           ws == Wires
           ps == Packets(m)
           a == Upto(ws, handled)
           b == Upto(ps, k)
           n == Place(k)
           j == handled + 1
<1>1. /\ Len(sent) \in Nat /\ handled \in Nat /\ j \in 1..Len(sent)
      /\ handled \in 0..Len(sent) /\ j = handled + 1
  BY WiresType DEF Standing, Undecided
<1>2. m \in Messages /\ m = sent[j]
  BY <1>1, WiresType DEF Current
<1>3. /\ Len(m.parts) \in Nat \ {0} /\ k < Len(m.parts) /\ k + 1 \in 1..Len(m.parts)
      /\ k \in 0..Len(m.parts)
  <2>1. Len(m.parts) \in Nat \ {0}
    BY <1>2, MessageType
  <2>2. k < Len(m.parts)
    BY DEF Standing
  <2> QED
    BY <2>1, <2>2
<1>4. ws \in Seq(Seq(Cell)) /\ Len(ws) = Len(sent) /\ ws[j] = Wire(m)
  BY <1>1, <1>2, WiresType
<1>5. /\ ps \in Seq(Seq(Cell)) /\ Len(ps) = Len(m.parts) /\ ps[k + 1] = w
      /\ Wire(m) = FlattenSeq(ps) /\ w \in Seq(Cell)
  BY <1>2, <1>3, PacketsType, PacketIs
<1>6. n = Len(a) + Len(b)
  BY DEF Place, Upto
<1> HIDE DEF m, w, ws, ps, a, b, n
<1>7. a \in Seq(Cell) /\ \E d \in Seq(Cell) : FlattenSeq(ws) = (a \o Wire(m)) \o d
  <2>0. handled \in 0..Len(ws) /\ handled < Len(ws)
    BY <1>1, <1>4
  <2>1. /\ a \in Seq(Cell) /\ Upto(ws, handled + 1) = a \o ws[handled + 1]
    BY <1>4, <2>0, FlattenSplit DEF a, Upto
  <2>2. j \in 0..Len(ws)
    BY <1>1, <1>4
  <2> HIDE DEF j
  <2>3. \E d \in Seq(Cell) : FlattenSeq(ws) = Upto(ws, j) \o d
    BY <1>4, <2>2, FlattenSplit DEF Upto
  <2> QED
    BY <1>1, <1>4, <2>1, <2>3
<1>8. PICK d \in Seq(Cell) : FlattenSeq(ws) = (a \o Wire(m)) \o d
  BY <1>7
<1>9. b \in Seq(Cell) /\ \E c \in Seq(Cell) : FlattenSeq(ps) = (b \o w) \o c
  <2> DEFINE l == k + 1
  <2>1. b \in Seq(Cell) /\ Upto(ps, l) = b \o w
    BY <1>3, <1>5, FlattenSplit DEF b, Upto
  <2>2. l \in 0..Len(ps)
    BY <1>3, <1>5
  <2> HIDE DEF l
  <2>3. \E c \in Seq(Cell) : FlattenSeq(ps) = Upto(ps, l) \o c
    BY <1>5, <2>2, FlattenSplit DEF Upto
  <2> QED
    BY <2>1, <2>3
<1>10. PICK c \in Seq(Cell) : FlattenSeq(ps) = (b \o w) \o c
  BY <1>9
<1>11. stream = (a \o ((b \o w) \o c)) \o d
  <2>1. stream = FlattenSeq(ws)
    BY DEF StreamIs, ws
  <2> QED
    BY <1>5, <1>8, <1>10, <2>1, Zenon
<1>12. n + Len(w) <= Len(stream) /\ \A i \in 1..Len(w) : stream[n + i] = w[i]
  <2>1. /\ a \in Seq(Cell) /\ b \in Seq(Cell) /\ w \in Seq(Cell)
        /\ c \in Seq(Cell) /\ d \in Seq(Cell)
    BY <1>5, <1>7, <1>9
  <2>2. StandsAt(w, stream, n)
    BY <1>6, <1>11, <2>1, WithinJoined, Zenon
  <2> QED
    BY <2>2 DEF StandsAt
<1>13. n \in Nat
  BY <1>6, <1>7, <1>9, LenProperties
<1> QED
  BY <1>2, <1>3, <1>12, <1>13 DEF m, w, n

(* What the loop takes for a packet is the next packet of the message at hand. *)
LEMMA TakesPacket ==
    ASSUME TypeOK, NothingLostInBuffer, ~StoreMayFail, StreamIs, pc = "parse",
           NEW k \in Nat, Standing(k), NEW h \in Complete
    PROVE  /\ Undecided /\ Current \in Messages /\ k + 1 \in 1..Len(Current.parts)
           /\ h = HeaderOf(Current, k + 1)
           /\ Body(h) = Current.parts[k + 1]
           /\ SubSeq(rest, 1, h.len) = Packet(Current, k + 1)
<1> DEFINE q == Place(k)
           l == Len(rest)
<1>1. /\ rest \in Seq(Cell) /\ rest # <<>> /\ l \in Nat \ {0} /\ stream \in Seq(Cell)
      /\ Len(stream) \in Nat /\ rd \in 0..Len(stream)
  BY LenProperties, EmptySeq DEF Complete, TypeOK
<1>2. l <= rd /\ rd - l = q /\ rest = SubSeq(stream, rd - l + 1, rd)
  BY DEF NothingLostInBuffer, LastRead, Standing, Buffer
<1>3. h \in HeaderAt(Head(rest)) /\ h.len <= l
  BY DEF Complete
<1> HIDE DEF l, q
<1>4. \A i \in 1..l : rest[i] = stream[q + i]
  <2>1. \A i \in (rd - l + 1)..rd : stream[i] \in Cell
    BY <1>1, <1>2, ElementOfSeq
  <2> DEFINE first == rd - l + 1
  <2>2. first \in Int /\ rd \in Int /\ rd - first + 1 = l /\ \A i \in 1..l : first + i - 1 = q + i
    BY <1>1, <1>2
  <2>3. rest = SubSeq(stream, first, rd)
    BY <1>2
  <2>4. \A i \in first..rd : stream[i] \in Cell
    BY <2>1
  <2> HIDE DEF first
  <2>5. \A i \in 1..l : SubSeq(stream, first, rd)[i] = stream[first + i - 1]
    BY <2>2, <2>4, SubSeqProperties
  <2> QED
    BY <2>2, <2>3, <2>5
<1>5. Undecided
  <2> SUFFICES ASSUME ~Undecided PROVE FALSE
    OBVIOUS
  <2>1. handled = Len(sent) /\ q = Len(Upto(Wires, handled))
    BY WiresType DEF Undecided, Standing, Place, q
  <2>2. Upto(Wires, Len(Wires)) = FlattenSeq(Wires) /\ Len(Wires) = Len(sent)
    BY WiresType, FirstOnes DEF Upto
  <2>3. q = Len(stream)
    BY <2>1, <2>2 DEF StreamIs
  <2> QED
    BY <1>1, <1>2, <2>3
<1> DEFINE m == Current
           w == Packet(m, k + 1)
           part == m.parts[k + 1]
           hd == HeaderOf(m, k + 1)
<1>6. /\ m \in Messages /\ k + 1 \in 1..Len(m.parts)
      /\ q \in Nat /\ q + Len(w) <= Len(stream)
      /\ \A i \in 1..Len(w) : stream[q + i] = w[i]
  BY <1>5, PacketInStream DEF q
<1>7. /\ hd \notin Symbols /\ w \in Seq(Cell) /\ part \in Seq(Cell) /\ w[1] = hd
      /\ Len(w) = hd.len /\ hd.len = 1 + Len(part) /\ \A i \in 1..Len(part) : w[i + 1] = part[i]
  <2> DEFINE j == k + 1
  <2>1. j \in 1..Len(m.parts)
    BY <1>6
  <2> HIDE DEF j, m
  <2> QED
    BY <1>6, <2>1, PacketIs DEF j
<1> HIDE DEF m, w, part, hd
<1> DEFINE n == Len(part)
<1>8. n \in Nat /\ Len(w) = 1 + n /\ hd.len = 1 + n
  BY <1>7, LenProperties
<1> HIDE DEF n
<1>a. \A i \in 1..(1 + n) : stream[q + i] = w[i]
  BY <1>6, <1>8
<1>9. rest[1] = hd
  <2>1. 1 \in 1..(1 + n) /\ 1 \in 1..l
    BY <1>1, <1>8
  <2> QED
    BY <1>4, <1>7, <1>a, <2>1
<1>10. h = hd
  <2>1. Head(rest) = hd
    BY <1>1, <1>9
  <2> QED
    BY <1>3, <1>7, <2>1 DEF HeaderAt
<1>11. n \in Nat /\ Len(w) = 1 + n /\ h.len = 1 + n /\ 1 + n <= l
  BY <1>3, <1>8, <1>10
<1>12. \A i \in 1..(1 + n) : rest[i] = w[i]
  <2>1. \A i \in 1..(1 + n) : i \in 1..l
    BY <1>1, <1>11
  <2> QED
    BY <1>4, <1>a, <2>1
<1>13. \A i \in 1..n : rest[1 + i] = part[i]
  <2>1. ASSUME NEW i \in 1..n PROVE rest[1 + i] = part[i]
    <3>1. 1 + i = i + 1 /\ 1 + i \in 1..(1 + n)
      BY <1>11
    <3> QED
      BY <1>7, <1>12, <3>1 DEF n
  <2> QED
    BY <2>1
<1>14. SubSeq(rest, 1, h.len) = w
  <2>1. SubSeq(rest, 0 + 1, 0 + Len(w)) = w
    <3>1. 0 \in Nat /\ 0 + Len(w) <= Len(rest) /\ \A i \in 1..Len(w) : rest[0 + i] = w[i]
      BY <1>11, <1>12 DEF l
    <3> QED
      BY <1>1, <1>7, <3>1, PartIs
  <2>2. 0 + 1 = 1 /\ 0 + Len(w) = h.len
    BY <1>11
  <2> QED
    BY <2>1, <2>2
<1>15. Body(h) = part
  <2>1. SubSeq(rest, 1 + 1, 1 + Len(part)) = part
    <3>1. 1 \in Nat /\ 1 + Len(part) <= Len(rest) /\ \A i \in 1..Len(part) : rest[1 + i] = part[i]
      BY <1>11, <1>13 DEF l, n
    <3> QED
      BY <1>1, <1>7, <3>1, PartIs
  <2>2. 1 + 1 = 2 /\ 1 + Len(part) = h.len
    BY <1>11 DEF n
  <2> QED
    BY <2>1, <2>2 DEF Body
<1> QED
  BY <1>5, <1>6, <1>10, <1>14, <1>15 DEF m, w, part, hd

(* One list more of the first ones. *)
LEMMA UptoNext ==
    ASSUME NEW ss \in Seq(Seq(Cell)), NEW n \in Nat, NEW j, j = n + 1, j \in 1..Len(ss)
    PROVE  /\ Upto(ss, n) \in Seq(Cell) /\ ss[j] \in Seq(Cell)
           /\ Upto(ss, j) = Upto(ss, n) \o ss[j]
           /\ Len(Upto(ss, n)) \in Nat
           /\ Len(Upto(ss, j)) = Len(Upto(ss, n)) + Len(ss[j])
<1>1. n \in 0..Len(ss) /\ n < Len(ss) /\ ss[j] \in Seq(Cell)
  BY LenProperties, ElementOfSeq
<1>2. Upto(ss, n) \in Seq(Cell) /\ Upto(ss, j) = Upto(ss, n) \o ss[j]
  BY <1>1, FlattenSplit DEF Upto
<1> QED
  BY <1>1, <1>2, ConcatProperties, LenProperties

(* Behind the packet the loop stands where the next one begins. *)
LEMMA PacketTaken ==
    ASSUME TypeOK, NothingLostInBuffer, ~StoreMayFail, StreamIs, pc = "parse",
           NEW k \in Nat, Standing(k), NEW h \in Complete, Advance(h)
    PROVE  /\ Len(rest') <= rd
           /\ rd - Len(rest')
                = Len(Upto(Wires, handled)) + Len(Upto(Packets(Current), k + 1))
<1> DEFINE j == k + 1
           m == Current
           w == Packet(m, j)
           l == Len(rest)
           n == h.len
<1>1. /\ m \in Messages /\ j \in 1..Len(m.parts) /\ j = k + 1 /\ Undecided
      /\ SubSeq(rest, 1, h.len) = w /\ h = HeaderOf(m, j)
  BY TakesPacket
<1>2. /\ rest \in Seq(Cell) /\ l \in Nat /\ rd \in Nat /\ n \in Nat /\ n <= l
      /\ rest' = SubSeq(rest, n + 1, l)
  BY CompleteType, LenProperties DEF Advance, TypeOK, Header
<1>3. l <= rd /\ rd - l = Place(k)
  BY DEF Standing, Buffer
<1>4. Place(k) = Len(Upto(Wires, handled)) + Len(Upto(Packets(m), k))
  BY <1>1 DEF Place
<1> HIDE DEF j, m, w, l, n
<1>5. Len(w) = n
  BY <1>1, PacketIs DEF n, w
<1>6. Len(rest') = l - n
  <2>1. \A i \in (n + 1)..l : rest[i] \in Cell
    BY <1>2, ElementOfSeq DEF l
  <2> QED
    BY <1>2, <2>1, SubSeqProperties
<1>7. /\ Len(Upto(Packets(m), k)) \in Nat
      /\ Len(Upto(Packets(m), j)) = Len(Upto(Packets(m), k)) + n
  <2> DEFINE ps == Packets(m)
  <2>1. ps \in Seq(Seq(Cell)) /\ j \in 1..Len(ps) /\ ps[j] = w
    BY <1>1, PacketsType DEF w
  <2> HIDE DEF ps
  <2>2. /\ Len(Upto(ps, k)) \in Nat
        /\ Len(Upto(ps, j)) = Len(Upto(ps, k)) + Len(ps[j])
    BY <1>1, <2>1, UptoNext
  <2> QED
    BY <1>5, <2>1, <2>2 DEF ps
<1>8. Len(Upto(Wires, handled)) \in Nat
  <2>1. handled \in 0..Len(Wires) /\ Wires \in Seq(Seq(Cell))
    BY WiresType DEF Standing
  <2> QED
    BY <2>1, FlattenSplit, LenProperties DEF Upto
<1>9. rd - Len(rest') = Place(k) + n /\ Len(rest') <= rd
  BY <1>2, <1>3, <1>6
<1> DEFINE x == Len(Upto(Wires, handled))
           y == Len(Upto(Packets(m), k))
<1>10. rd - Len(rest') = x + (y + n)
  BY <1>2, <1>4, <1>7, <1>8, <1>9
<1>11. rd - Len(rest') = x + Len(Upto(Packets(m), j))
  BY <1>7, <1>10
<1> QED
  BY <1>9, <1>11 DEF j, m

(* The chunks and the packet at hand are the first packets' parts. *)
LEMMA ChunksAre ==
    ASSUME TypeOK, NothingLostInBuffer, ~StoreMayFail, StreamIs, pc = "parse",
           NEW k \in Nat, Standing(k), NEW h \in Complete
    PROVE  /\ h.typ = Current.typ /\ h.eom = (k + 1 = Len(Current.parts))
           /\ h.typ = "batch" => Gathered(sqlChunks, h) = Upto(Current.parts, k + 1)
           /\ h.typ = "rpc" => Gathered(rpcChunks, h) = Upto(Current.parts, k + 1)
           /\ h.typ # "batch" => sqlChunks = <<>>
           /\ h.typ # "rpc" => rpcChunks = <<>>
<1> DEFINE j == k + 1
           m == Current
<1>1. /\ m \in Messages /\ j \in 1..Len(m.parts) /\ j = k + 1 /\ Undecided
      /\ h = HeaderOf(m, j) /\ Body(h) = m.parts[j]
  BY TakesPacket
<1>2. /\ sqlChunks = IF m.typ = "batch" THEN Upto(m.parts, k) ELSE <<>>
      /\ rpcChunks = IF m.typ = "rpc" THEN Upto(m.parts, k) ELSE <<>>
  BY <1>1 DEF Standing, Taken
<1> HIDE DEF j, m
<1>3. h.typ = m.typ /\ h.eom = (j = Len(m.parts))
  BY <1>1 DEF HeaderOf
<1>4. Upto(m.parts, j) = Upto(m.parts, k) \o Body(h)
  <2> DEFINE parts == m.parts
  <2>1. parts \in Seq(Seq(Cell)) /\ j \in 1..Len(parts) /\ parts[j] = Body(h)
    BY <1>1, MessageType
  <2> HIDE DEF parts
  <2>2. Upto(parts, j) = Upto(parts, k) \o parts[j]
    BY <1>1, <2>1, UptoNext
  <2> QED
    BY <2>1, <2>2 DEF parts
<1>5. /\ h.typ = "batch" => Gathered(sqlChunks, h) = Upto(m.parts, j)
      /\ h.typ = "rpc" => Gathered(rpcChunks, h) = Upto(m.parts, j)
      /\ h.typ # "batch" => sqlChunks = <<>>
      /\ h.typ # "rpc" => rpcChunks = <<>>
  BY <1>2, <1>3, <1>4 DEF Gathered
<1> QED
  BY <1>3, <1>5 DEF j, m

(* No list of lists, joined. *)
LEMMA UptoNone ==
    ASSUME NEW S, NEW ss \in Seq(S)
    PROVE  Upto(ss, 0) = <<>> /\ Len(Upto(ss, 0)) = 0
<1>1. SubSeq(ss, 1, 0) = <<>>
  BY FirstOnes
<1> QED
  BY <1>1, EmptySeq DEF Upto, FlattenSeq

(* What depends on the client's messages only. *)
LEMMA SameMessages ==
    ASSUME UNCHANGED sent
    PROVE  /\ Wires' = Wires
           /\ handled' = handled => Current' = Current /\ (Undecided' <=> Undecided)
BY DEF Wires, Current, Undecided

(* A packet that does not end its message takes the loop one place on. *)
LEMMA PartTaken ==
    ASSUME TypeOK, NothingLostInBuffer, ~StoreMayFail, StreamIs, pc = "parse",
           NEW k \in Nat, Standing(k), NEW h \in Complete, Advance(h),
           ~h.eom, UNCHANGED handled,
           sqlChunks' = IF h.typ = "batch" THEN Gathered(sqlChunks, h) ELSE sqlChunks,
           rpcChunks' = IF h.typ = "rpc" THEN Gathered(rpcChunks, h) ELSE rpcChunks
    PROVE  /\ StreamIs' /\ Standing(k + 1)'
           /\ \A typ : Taken(typ, k + 1)'
                          = IF Current.typ = typ THEN Upto(Current.parts, k + 1) ELSE <<>>
<1> DEFINE j == k + 1
<1>1. /\ Current \in Messages /\ j \in 1..Len(Current.parts) /\ Undecided
      /\ j \in Nat /\ Len(Current.parts) \in Nat
  BY TakesPacket, MessageType
<1>2. /\ h.typ = Current.typ /\ j # Len(Current.parts)
      /\ h.typ = "batch" => sqlChunks' = Upto(Current.parts, j)
      /\ h.typ = "rpc" => rpcChunks' = Upto(Current.parts, j)
      /\ h.typ # "batch" => sqlChunks' = <<>>
      /\ h.typ # "rpc" => rpcChunks' = <<>>
  BY ChunksAre
<1>3. /\ Len(rest') <= rd
      /\ rd - Len(rest') = Len(Upto(Wires, handled)) + Len(Upto(Packets(Current), j))
  BY PacketTaken
<1> HIDE DEF j
<1>4. /\ UNCHANGED <<sent, stream, rd, handled>> /\ pc' = "parse"
      /\ Wires' = Wires /\ Current' = Current /\ Undecided'
  BY <1>1, SameMessages DEF Advance
<1>5. Len(Buffer') <= rd' /\ rd' - Len(Buffer') = Place(j)'
  BY <1>3, <1>4 DEF Buffer, Place
<1>a. \A typ : Taken(typ, j)' = IF Current.typ = typ THEN Upto(Current.parts, j) ELSE <<>>
  BY <1>4 DEF Taken
<1>6. sqlChunks' = Taken("batch", j)' /\ rpcChunks' = Taken("rpc", j)'
  BY <1>2, <1>a
<1>7. j < Len(Current.parts) /\ handled \in 0..Len(sent)
  BY <1>1, <1>2 DEF Standing
<1>8. Standing(j)'
  BY <1>1, <1>4, <1>5, <1>6, <1>7 DEF Standing
<1>9. StreamIs'
  BY <1>4 DEF StreamIs
<1> QED
  BY <1>8, <1>9, <1>a DEF j

(* A packet that ends its message takes the loop to the next message. *)
LEMMA MessageTaken ==
    ASSUME TypeOK, NothingLostInBuffer, ~StoreMayFail, StreamIs, pc = "parse",
           NEW k \in Nat, Standing(k), NEW h \in Complete, Advance(h),
           h.eom, handled' = handled + 1,
           sqlChunks' = IF h.typ = "batch" THEN <<>> ELSE sqlChunks,
           rpcChunks' = IF h.typ = "rpc" THEN <<>> ELSE rpcChunks
    PROVE  StreamIs' /\ Standing(0)' /\ \A typ : Taken(typ, 0)' = <<>>
<1> DEFINE j == k + 1
           m == Current
           n == handled + 1
<1>1. m \in Messages /\ j = Len(m.parts) /\ Undecided /\ h.typ = m.typ
  BY TakesPacket, ChunksAre
<1>2. sqlChunks' = <<>> /\ rpcChunks' = <<>>
  BY ChunksAre
<1>3. /\ Len(rest') <= rd
      /\ rd - Len(rest') = Len(Upto(Wires, handled)) + Len(Upto(Packets(m), j))
  BY PacketTaken
<1>4. /\ n = handled + 1 /\ n \in 1..Len(sent) /\ handled \in Nat /\ m = sent[n]
      /\ Len(sent) \in Nat
  BY <1>1, WiresType DEF Standing, Undecided, Current
<1> HIDE DEF j, m, n
<1>5. Upto(Packets(m), j) = Wire(m)
  <2> DEFINE ps == Packets(m)
  <2>1. ps \in Seq(Seq(Cell)) /\ j = Len(ps) /\ Wire(m) = FlattenSeq(ps)
    BY <1>1, PacketsType
  <2> HIDE DEF ps
  <2>2. Upto(ps, j) = FlattenSeq(ps)
    BY <2>1, FirstOnes DEF Upto
  <2> QED
    BY <2>1, <2>2 DEF ps
<1>6. Len(Upto(Wires, n)) = Len(Upto(Wires, handled)) + Len(Wire(m))
  <2> DEFINE ws == Wires
  <2>1. ws \in Seq(Seq(Cell)) /\ n \in 1..Len(ws) /\ ws[n] = Wire(m)
    BY <1>4, WiresType
  <2> HIDE DEF ws
  <2>2. Len(Upto(ws, n)) = Len(Upto(ws, handled)) + Len(ws[n])
    BY <1>4, <2>1, UptoNext
  <2> QED
    BY <2>1, <2>2 DEF ws
<1>7. rd - Len(rest') = Len(Upto(Wires, n))
  BY <1>3, <1>5, <1>6
<1>8. UNCHANGED <<sent, stream, rd>> /\ pc' = "parse" /\ handled' = n /\ Wires' = Wires
  BY SameMessages DEF Advance, n
<1>9. ASSUME Undecided'
      PROVE  /\ Current' \in Messages /\ 0 < Len(Current'.parts)
             /\ Len(Upto(Packets(Current'), 0)) = 0 /\ Upto(Current'.parts, 0) = <<>>
  <2> DEFINE c == sent[n + 1]
  <2>1. n < Len(sent) /\ Current' = c
    BY <1>8, <1>9 DEF Undecided, Current
  <2>2. c \in Messages
    <3>1. n + 1 \in 1..Len(sent)
      BY <1>4, <2>1
    <3> QED
      BY <3>1, WiresType
  <2> HIDE DEF c
  <2>3. /\ 0 < Len(c.parts) /\ c.parts \in Seq(Seq(Cell)) /\ Packets(c) \in Seq(Seq(Cell))
    BY <2>2, MessageType, PacketsType
  <2>4. Len(Upto(Packets(c), 0)) = 0
    BY <2>3, UptoNone
  <2>5. Upto(c.parts, 0) = <<>>
    <3> DEFINE parts == c.parts
    <3>1. parts \in Seq(Seq(Cell))
      BY <2>3
    <3> HIDE DEF parts
    <3>2. Upto(parts, 0) = <<>>
      BY <3>1, UptoNone
    <3> QED
      BY <3>2 DEF parts
  <2> QED
    BY <2>1, <2>2, <2>3, <2>4, <2>5
<1>10. Len(Upto(Wires, n)) \in Nat
  <2>1. n \in 0..Len(Wires) /\ Wires \in Seq(Seq(Cell))
    BY <1>4, WiresType
  <2> QED
    BY <2>1, FlattenSplit, LenProperties DEF Upto
<1>11. Place(0)' = Len(Upto(Wires, n))
  <2> DEFINE x == Len(Upto(Wires, n))
             y == Len(Upto(Packets(Current'), 0))
  <2>1. Place(0)' = x + IF Undecided' THEN y ELSE 0
    BY <1>8 DEF Place
  <2>2. (Undecided' => y = 0) /\ x \in Nat
    BY <1>9, <1>10
  <2> HIDE DEF x, y
  <2>3. Place(0)' = x
    BY <2>1, <2>2
  <2> QED
    BY <2>3 DEF x
<1>12. Len(Buffer') <= rd' /\ rd' - Len(Buffer') = Place(0)'
  BY <1>3, <1>7, <1>8, <1>11 DEF Buffer
<1>a. \A typ : Taken(typ, 0)' = <<>>
  BY <1>9 DEF Taken
<1>13. sqlChunks' = Taken("batch", 0)' /\ rpcChunks' = Taken("rpc", 0)'
  BY <1>2, <1>a
<1>14. Standing(0)'
  BY <1>4, <1>8, <1>9, <1>12, <1>13 DEF Standing
<1>15. StreamIs'
  BY <1>8 DEF StreamIs
<1> QED
  BY <1>14, <1>15, <1>a

-----------------------------------------------------------------------------
(***************************************************************************)
(* What has been delivered.                                                *)
(***************************************************************************)
\* Of the pieces, the first d are all that belong to decided messages.
Settled(pieces, d) ==
    /\ d \in 0..Len(pieces)
    /\ d # 0 => EndsOne(pieces[d])
    /\ \A i \in 1..Len(pieces) : d < i => ~EndsOne(pieces[i])

(* Then as many are counted. *)
LEMMA DeliveredIs ==
    ASSUME NEW P \in Seq(Piece), NEW d, Settled(P, d)
    PROVE  Delivered(P) = [i \in 1..d |-> Carried(P[i])]
<1>1. Len(P) \in Nat /\ DOMAIN P = 1..Len(P) /\ d \in Nat /\ d <= Len(P)
  BY LenProperties DEF Settled
<1> DEFINE D == {i \in DOMAIN P : \E j \in DOMAIN P : i <= j /\ EndsOne(P[j])}
<1>2. D = 1..d
  <2>1. ASSUME NEW i \in D PROVE i \in 1..d
    <3>1. PICK j \in 1..Len(P) : i <= j /\ EndsOne(P[j])
      BY <1>1
    <3>2. j <= d /\ i \in 1..Len(P)
      BY <1>1, <3>1 DEF Settled
    <3> QED
      BY <1>1, <3>1, <3>2
  <2>2. ASSUME NEW i \in 1..d PROVE i \in D
    <3>1. d # 0 /\ d \in 1..Len(P) /\ i \in 1..Len(P) /\ i <= d
      BY <1>1
    <3> QED
      BY <1>1, <3>1 DEF Settled
  <2> HIDE DEF D
  <2> QED
    BY <2>1, <2>2
<1>3. Cardinality(1..d) = d
  BY <1>1, FS_Interval
<1>4. Decided(P) = d
  BY <1>2, <1>3 DEF Decided
<1> QED
  BY <1>4 DEF Delivered

(* The messages decided later are delivered behind the earlier ones. *)
LEMMA DeliveredMore ==
    ASSUME NEW P \in Seq(Piece), NEW d, Settled(P, d),
           NEW Q \in Seq(Piece), NEW e, Settled(Q, e), d <= e,
           \A i \in 1..d : Q[i] = P[i],
           NEW W, NEW w \in Seq(W), Len(w) = e - d,
           \A i \in 1..(e - d) : w[i] = Carried(Q[d + i])
    PROVE  Delivered(Q) = Delivered(P) \o w
<1>1. d \in Nat /\ e \in Nat /\ e - d \in Nat
  BY LenProperties DEF Settled
<1> DEFINE S == {Carried(Q[i]) : i \in 1..e} \cup W
           a == [i \in 1..d |-> Carried(P[i])]
           b == [i \in 1..e |-> Carried(Q[i])]
<1>2. Delivered(P) = a /\ Delivered(Q) = b
  BY DeliveredIs
<1>3. a \in Seq(S) /\ Len(a) = d /\ \A i \in 1..d : a[i] = Carried(Q[i])
  <2>1. \A i \in 1..d : a[i] = Carried(Q[i]) /\ i \in 1..e
    BY <1>1
  <2>2. \A i \in 1..d : a[i] \in S
    BY <2>1
  <2>3. a = [i \in 1..d |-> a[i]]
    OBVIOUS
  <2> HIDE DEF a, S
  <2>4. a \in [1..d -> S]
    BY <2>2, <2>3
  <2>5. a \in Seq(S)
    BY <1>1, <2>4, SeqDef
  <2>6. Len(a) = d
    BY <1>1, <2>3, <2>5, LenProperties
  <2> QED
    BY <2>1, <2>5, <2>6
<1>4. b \in Seq(S) /\ Len(b) = e /\ \A i \in 1..e : b[i] = Carried(Q[i])
  <2>1. \A i \in 1..e : b[i] = Carried(Q[i]) /\ b[i] \in S
    OBVIOUS
  <2>3. b = [i \in 1..e |-> b[i]]
    OBVIOUS
  <2> HIDE DEF b, S
  <2>4. b \in [1..e -> S]
    BY <2>1, <2>3
  <2>5. b \in Seq(S)
    BY <1>1, <2>4, SeqDef
  <2>6. Len(b) = e
    BY <1>1, <2>3, <2>5, LenProperties
  <2> QED
    BY <2>1, <2>5, <2>6
<1>5. w \in Seq(S)
  BY SeqMonotonic
<1> HIDE DEF a, b, S
<1> DEFINE n == e - d
<1>6. n \in Nat /\ Len(w) = n /\ d + n = e
  BY <1>1
<1>7. /\ a \o w \in Seq(S) /\ Len(a \o w) = d + n
      /\ \A i \in 1..d : (a \o w)[i] = a[i]
      /\ \A i \in 1..n : (a \o w)[d + i] = w[i]
  <2> HIDE DEF n
  <2> QED
    BY <1>3, <1>5, <1>6, JoinedTwo, SMTT(20)
<1>8. ASSUME NEW i \in 1..e PROVE (a \o w)[i] = b[i]
  <2>1. CASE i <= d
    <3>1. i \in 1..d
      BY <1>1, <2>1
    <3>2. (a \o w)[i] = a[i]
      BY <1>7, <3>1
    <3> QED
      BY <1>3, <1>4, <3>1, <3>2
  <2>2. CASE ~(i <= d)
    <3> DEFINE j == i - d
    <3>1. j \in 1..n /\ d + j = i
      BY <1>1, <2>2
    <3> HIDE DEF j
    <3>2. (a \o w)[d + j] = w[j] /\ w[j] = Carried(Q[d + j])
      BY <1>7, <3>1
    <3> QED
      BY <1>4, <3>1, <3>2
  <2> QED
    BY <2>1, <2>2
<1>9. a \o w = b
  BY <1>4, <1>6, <1>7, <1>8, SeqEqual
<1> QED
  BY <1>2, <1>9

-----------------------------------------------------------------------------
(***************************************************************************)
(* The inductive invariant.                                                *)
(***************************************************************************)
Pieces == up \o out

\* Packets passed on of a message that is not decided to its end.
Trailing(k) == IF Undecided /\ Current.typ = "other" THEN k ELSE 0

Given(k) ==
    LET d == Len(Pieces) - Trailing(k)
    IN  /\ Settled(Pieces, d)
        /\ \A i \in 1..Trailing(k) :
              Carried(Pieces[d + i]) = Carrying("other", Current.parts[i])

GateInv ==
    /\ StreamIs
    /\ pc # "parse" => out = <<>>
    /\ \E k \in Nat : Standing(k) /\ Given(k)

\* What holds in every state considered here.
Sound == TypeOK /\ BufferInv /\ NothingLostInBuffer /\ ~StoreMayFail

(* One piece more. *)
LEMMA PiecesAppended ==
    ASSUME TypeOK
    PROVE  /\ Pieces \in Seq(Piece) /\ Len(Pieces) \in Nat
           /\ \A p \in Piece : UNCHANGED up /\ out' = Append(out, p) =>
                 /\ Pieces' = Append(Pieces, p)
                 /\ Pieces' \in Seq(Piece) /\ Len(Pieces') = Len(Pieces) + 1
                 /\ \A i \in 1..Len(Pieces) : Pieces'[i] = Pieces[i]
                 /\ Pieces'[Len(Pieces) + 1] = p
<1> DEFINE P == up \o out
<1>1. up \in Seq(Piece) /\ out \in Seq(Piece) /\ P \in Seq(Piece) /\ Len(P) \in Nat
  BY ConcatProperties, LenProperties DEF TypeOK
<1>2. ASSUME NEW p \in Piece, UNCHANGED up, out' = Append(out, p)
      PROVE  Pieces' = Append(P, p)
  <2>1. <<p>> \in Seq(Piece) /\ Append(out, p) = out \o <<p>>
    BY <1>1, AppendIsConcat
  <2>2. up \o (out \o <<p>>) = P \o <<p>>
    BY <1>1, <2>1, ConcatAssociative
  <2>3. P \o <<p>> = Append(P, p)
    BY <1>1, AppendIsConcat
  <2>4. Pieces' = up \o Append(out, p)
    BY <1>2 DEF Pieces
  <2> QED
    BY <2>1, <2>2, <2>3, <2>4, Zenon
<1>3. Pieces = P
  BY DEF Pieces
<1> HIDE DEF P
<1>4. ASSUME NEW p \in Piece, UNCHANGED up, out' = Append(out, p)
      PROVE  /\ Pieces' = Append(P, p)
             /\ Pieces' \in Seq(Piece) /\ Len(Pieces') = Len(P) + 1
             /\ \A i \in 1..Len(P) : Pieces'[i] = P[i]
             /\ Pieces'[Len(P) + 1] = p
  <2>1. Pieces' = Append(P, p)
    BY <1>2, <1>4
  <2> QED
    BY <1>1, <2>1, AppendProperties
<1> QED
  BY <1>1, <1>3, <1>4

(* A step that takes no message to its end and gives no piece away. *)
LEMMA Aside ==
    ASSUME StreamIs', pc' # "parse" => out' = <<>>, Pieces' = Pieces,
           UNCHANGED <<sent, handled>>,
           NEW k \in Nat, Given(k), NEW j \in Nat, Standing(j)', Trailing(j)' = Trailing(k)
    PROVE  GateInv' /\ UNCHANGED Gate!vars
<1>1. Current' = Current
  BY SameMessages
<1>2. Given(j)'
  BY <1>1 DEF Given, Settled
<1>3. Delivered(up \o out)' = Delivered(up \o out)
  BY DEF Pieces
<1> QED
  BY <1>2, <1>3 DEF GateInv, Gate!vars

(* A step that takes a message to its end and delivers w of it. *)
LEMMA Ends ==
    ASSUME Sound, TypeOK', StreamIs, pc = "parse", NEW k \in Nat, Standing(k), Given(k),
           NEW h \in Complete, Advance(h), h.eom, handled' = handled + 1,
           sqlChunks' = IF h.typ = "batch" THEN <<>> ELSE sqlChunks,
           rpcChunks' = IF h.typ = "rpc" THEN <<>> ELSE rpcChunks,
           NEW W, NEW w \in Seq(W), w \in Outcomes(Current),
           NEW d, d = Len(Pieces) - Trailing(k),
           Settled(Pieces, Len(Pieces))', d <= Len(Pieces'),
           \A i \in 1..d : Pieces'[i] = Pieces[i],
           Len(w) = Len(Pieces') - d,
           \A i \in 1..(Len(Pieces') - d) : w[i] = Carried(Pieces'[d + i])
    PROVE  GateInv' /\ Gate!Decide
<1>1. Pieces \in Seq(Piece) /\ Pieces' \in Seq(Piece) /\ Settled(Pieces, d)
  <2>1. Pieces \in Seq(Piece)
    BY PiecesAppended DEF Sound
  <2>2. up' \in Seq(Piece) /\ out' \in Seq(Piece) /\ Pieces' = up' \o out'
    BY DEF TypeOK, Pieces
  <2>3. Pieces' \in Seq(Piece)
    BY <2>2, ConcatProperties
  <2>4. Settled(Pieces, d)
    BY DEF Given
  <2> QED
    BY <2>1, <2>3, <2>4
<1>2. StreamIs' /\ Standing(0)' /\ Undecided
  BY MessageTaken, TakesPacket DEF Sound
<1>3. Given(0)'
  <2>1. Trailing(0)' = 0
    BY DEF Trailing
  <2>2. (Len(Pieces) - 0)' = Len(Pieces)'
    BY <1>1, LenProperties
  <2> QED
    BY <2>1, <2>2 DEF Given
<1>4. GateInv'
  BY <1>2, <1>3 DEF GateInv, Advance
<1>5. Delivered(Pieces') = Delivered(Pieces) \o w
  <2> DEFINE P == Pieces
             Q == Pieces'
             e == Len(Pieces')
  <2>1. /\ P \in Seq(Piece) /\ Settled(P, d) /\ Q \in Seq(Piece) /\ Settled(Q, e)
        /\ d <= e /\ \A i \in 1..d : Q[i] = P[i]
        /\ Len(w) = e - d /\ \A i \in 1..(e - d) : w[i] = Carried(Q[d + i])
        /\ w \in Seq(W)
    BY <1>1
  <2> HIDE DEF P, Q, e
  <2>2. Delivered(Q) = Delivered(P) \o w
    BY ONLY <2>1, DeliveredMore
  <2> QED
    BY <2>2 DEF P, Q
<1>6. Delivered(up \o out)' = Delivered(up \o out) \o w
  BY <1>5 DEF Pieces
<1>7. sent' = sent
  BY DEF Advance
<1>8. handled < Len(sent) /\ w \in Outcomes(sent[handled + 1])
  BY <1>2 DEF Undecided, Current
<1> QED
  BY <1>4, <1>6, <1>7, <1>8 DEF Gate!Decide

(* A batch or a call that ends with nothing written, or with one packet. *)
LEMMA EndsWith ==
    ASSUME Sound, TypeOK', StreamIs, pc = "parse", NEW k \in Nat, Standing(k), Given(k),
           NEW h \in Complete, Advance(h), h.eom, handled' = handled + 1, h.typ # "other",
           sqlChunks' = IF h.typ = "batch" THEN <<>> ELSE sqlChunks,
           rpcChunks' = IF h.typ = "rpc" THEN <<>> ELSE rpcChunks,
           \/ out' = out /\ <<>> \in Outcomes(Current)
           \/ \E p \in Piece : /\ out' = Append(out, p) /\ EndsOne(p)
                               /\ <<Carried(p)>> \in Outcomes(Current)
    PROVE  GateInv' /\ Gate!Decide
<1> DEFINE n == Len(Pieces)
<1>1. n \in Nat /\ n = Len(Pieces) /\ Trailing(k) = 0 /\ up' = up
  BY PiecesAppended, ChunksAre DEF Sound, Trailing, Advance
<1>2. n = Len(Pieces) - Trailing(k)
  BY <1>1
<1>3. Settled(Pieces, n)
  BY <1>2 DEF Given
<1>4. CASE out' = out /\ <<>> \in Outcomes(Current)
  <2>1. Pieces' = Pieces
    BY <1>1, <1>4 DEF Pieces
  <2>2. <<>> \in Seq({}) /\ Len(<<>>) = 0
    BY EmptySeq
  <2>3. Settled(Pieces, Len(Pieces))'
    BY <1>1, <1>3, <2>1 DEF Settled
  <2>4. n <= Len(Pieces') /\ Len(<<>>) = Len(Pieces') - n /\ 1..(Len(Pieces') - n) = {}
    BY <1>1, <2>1, <2>2
  <2> DEFINE w == <<>>
             W == {}
  <2>5. /\ w \in Seq(W) /\ w \in Outcomes(Current) /\ Len(w) = Len(Pieces') - n
        /\ \A i \in 1..(Len(Pieces') - n) : w[i] = Carried(Pieces'[n + i])
        /\ \A i \in 1..n : Pieces'[i] = Pieces[i]
    BY <1>4, <2>1, <2>2, <2>4
  <2> HIDE DEF n, w, W
  <2> QED
    BY <1>2, <2>3, <2>4, <2>5, Ends
<1>5. CASE \E p \in Piece : /\ out' = Append(out, p) /\ EndsOne(p)
                            /\ <<Carried(p)>> \in Outcomes(Current)
  <2>1. PICK p \in Piece : /\ out' = Append(out, p) /\ EndsOne(p)
                           /\ <<Carried(p)>> \in Outcomes(Current)
    BY <1>5
  <2>2. /\ Len(Pieces') = n + 1 /\ \A i \in 1..n : Pieces'[i] = Pieces[i]
        /\ Pieces'[n + 1] = p
    BY <1>1, <2>1, PiecesAppended DEF Sound
  <2> DEFINE w == <<Carried(p)>>
             W == {Carried(p)}
             e == Len(Pieces')
  <2>3. w \in Seq(W) /\ Len(w) = 1 /\ w[1] = Carried(p)
    OBVIOUS
  <2>4. e = n + 1 /\ n <= e /\ e - n = 1 /\ e \in Nat
    BY <1>1, <2>2
  <2>5. /\ w \in Outcomes(Current) /\ Len(w) = e - n
        /\ \A i \in 1..(e - n) : w[i] = Carried(Pieces'[n + i])
    BY <2>1, <2>2, <2>3, <2>4
  <2>6. Settled(Pieces, Len(Pieces))'
    <3>1. Settled(Pieces', e)
      <4>1. EndsOne(Pieces'[e]) /\ e \in 0..e
        BY <2>1, <2>2, <2>4
      <4>2. \A i \in 1..e : ~(e < i)
        BY <2>4
      <4> QED
        BY <4>1, <4>2 DEF Settled
    <3> QED
      BY <3>1 DEF Settled
  <2> HIDE DEF n, w, W
  <2> QED
    BY <1>2, <2>2, <2>3, <2>4, <2>5, <2>6, Ends
<1> QED
  BY <1>4, <1>5

(* A batch or a call of which more is to come. *)
LEMMA Continues ==
    ASSUME Sound, StreamIs, pc = "parse", NEW k \in Nat, Standing(k), Given(k),
           NEW h \in Complete, Advance(h), ~h.eom, h.typ # "other",
           UNCHANGED <<out, handled>>,
           sqlChunks' = IF h.typ = "batch" THEN Gathered(sqlChunks, h) ELSE sqlChunks,
           rpcChunks' = IF h.typ = "rpc" THEN Gathered(rpcChunks, h) ELSE rpcChunks
    PROVE  GateInv' /\ UNCHANGED Gate!vars
<1> DEFINE j == k + 1
<1>1. StreamIs' /\ Standing(j)' /\ j \in Nat
  BY PartTaken DEF Sound
<1>2. Current.typ # "other"
  BY ChunksAre DEF Sound
<1>3. /\ Pieces' = Pieces /\ UNCHANGED <<sent, handled>> /\ pc' = "parse"
      /\ Current' = Current
  BY SameMessages DEF Pieces, Advance
<1>4. Trailing(j)' = Trailing(k)
  BY <1>2, <1>3 DEF Trailing
<1> HIDE DEF j
<1> QED
  BY <1>1, <1>3, <1>4, Aside

(* What a message made anew carries. *)
LEMMA RebuiltIs ==
    ASSUME NEW typ \in Types, NEW new \in Seq(Cell), NEW src
    PROVE  /\ EndsOne(Rebuilt(typ, new, src))
           /\ Carried(Rebuilt(typ, new, src)) = Carrying(typ, new)
<1> DEFINE n == (1 + Len(new)) % LenMod
           h == [typ |-> typ, eom |-> TRUE, mark |-> "first", len |-> n]
           p == Rebuilt(typ, new, src)
<1>1. n \in Nat
  BY LenProperties, BoundsAssumption
<1>2. p.typ = typ /\ p.cells = <<h>> \o new
  BY DEF Rebuilt
<1> HIDE DEF n, p
<1>3. h \in Cell /\ h.eom = TRUE
  BY <1>1 DEF Cell, Header, Marks
<1> HIDE DEF h
<1>4. Head(<<h>> \o new) = h /\ Tail(<<h>> \o new) = new
  BY <1>3, InFront
<1>5. EndsOne(p) /\ Carried(p) = Carrying(typ, new)
  BY <1>2, <1>3, <1>4 DEF EndsOne, Carried
<1> QED
  BY <1>5 DEF p

(* What a packet passed on carries. *)
LEMMA PassedIs ==
    ASSUME Sound, StreamIs, pc = "parse", NEW k \in Nat, Standing(k),
           NEW h \in Complete, NEW src
    PROVE  /\ EndsOne(Passed(h, src)) <=> h.eom
           /\ Carried(Passed(h, src)) = Carrying(h.typ, Current.parts[k + 1])
<1> DEFINE j == k + 1
           m == Current
           p == Passed(h, src)
<1>1. /\ m \in Messages /\ j \in 1..Len(m.parts) /\ h = HeaderOf(m, j)
      /\ SubSeq(rest, 1, h.len) = Packet(m, j)
  BY TakesPacket DEF Sound
<1>2. p.typ = h.typ /\ p.cells = Packet(m, j)
  BY <1>1 DEF Passed
<1> HIDE DEF j, m, p
<1>3. Head(Packet(m, j)) = h /\ Tail(Packet(m, j)) = m.parts[j]
  BY <1>1, PacketIs
<1>4. (EndsOne(p) <=> h.eom) /\ Carried(p) = Carrying(h.typ, m.parts[j])
  BY <1>2, <1>3 DEF EndsOne, Carried
<1> QED
  BY <1>4 DEF p, m, j

(* The loop does with a batch what the policy may make of it. *)
LEMMA BatchSteps ==
    ASSUME Sound, TypeOK', StreamIs, pc = "parse", NEW k \in Nat, Standing(k), Given(k),
           NEW h \in Complete,
           BatchPart(h) \/ EmptyBatch(h) \/ BlockBatch(h) \/ ForwardBatch(h)
    PROVE  GateInv' /\ (Gate!Decide \/ UNCHANGED Gate!vars)
<1>0. h.typ = "batch" /\ Current.typ = "batch" /\ Advance(h)
  BY ChunksAre DEF Sound, BatchPart, EmptyBatch, BlockBatch, ForwardBatch, BatchEnd, Loop
<1>1. CASE BatchPart(h)
  <2>1. /\ ~h.eom /\ UNCHANGED <<out, handled, rpcChunks>>
        /\ sqlChunks' = Gathered(sqlChunks, h)
    BY <1>1 DEF BatchPart, Gathered
  <2> QED
    BY <1>0, <2>1, Continues
<1>2. CASE EmptyBatch(h) \/ BlockBatch(h) \/ ForwardBatch(h)
  <2> DEFINE all == Gathered(sqlChunks, h)
             text == Text(all)
  <2>1. /\ h.eom /\ handled' = handled + 1 /\ sqlChunks' = <<>> /\ rpcChunks' = rpcChunks
        /\ text = BatchText(h)
    BY <1>2 DEF EmptyBatch, BlockBatch, ForwardBatch, BatchEnd, BatchText
  <2>2. all \in Seq(Cell) /\ all = FlattenSeq(Current.parts)
    <3> DEFINE parts == Current.parts
    <3>1. parts \in Seq(Seq(Cell)) /\ all = Upto(parts, Len(parts))
      BY <1>0, <2>1, TakesPacket, ChunksAre, MessageType DEF Sound
    <3> HIDE DEF parts, all
    <3>2. Upto(parts, Len(parts)) = FlattenSeq(parts) /\ FlattenSeq(parts) \in Seq(Cell)
      BY <3>1, FirstOnes, FlattenType DEF Upto
    <3> QED
      BY <3>1, <3>2 DEF parts
  <2>3. Outcomes(Current) = BatchOutcomes(text)
    BY <1>0, <2>2 DEF Outcomes
  <2>4. text \in Seq(Cell) /\ Corrected(text) \in Seq(Cell) /\ "batch" \in Types
    BY <2>2, TextType, CorrectedType DEF Types
  <2>5. TypeOK
    BY DEF Sound
  <2> HIDE DEF all, text
  <2>6. CASE EmptyBatch(h)
    <3>1. out' = out /\ text = <<>>
      BY <2>1, <2>6 DEF EmptyBatch
    <3>2. <<>> \in Outcomes(Current)
      BY <2>3, <3>1 DEF BatchOutcomes
    <3> QED
      BY <1>0, <2>1, <3>1, <3>2, EndsWith
  <2>7. CASE BlockBatch(h)
    <3>1. out' = out /\ text # <<>> /\ Enforced(text)
      BY <2>1, <2>7 DEF BlockBatch
    <3>2. <<>> \in Outcomes(Current)
      BY <2>3, <3>1 DEF BatchOutcomes
    <3> QED
      BY <1>0, <2>1, <3>1, <3>2, EndsWith
  <2>8. CASE ForwardBatch(h)
    <3> DEFINE new == IF Enforced(text) THEN text ELSE Corrected(text)
               p == Rebuilt("batch", new, all)
    <3>1. text # <<>> /\ (Enforced(text) => Gated(text)) /\ out' = Append(out, p)
      BY <2>1, <2>8 DEF ForwardBatch, all
    <3>2. new \in Seq(Cell)
      BY <2>4
    <3>3. <<Carrying("batch", new)>> \in Outcomes(Current)
      <4>1. ~MustBlock(text)
        <5>1. CASE Enforced(text)
          <6> DEFINE n == MinHits(GetRule(Rules, StatementDecision(text).rule))
          <6>1. n > 0
            BY <3>1, <5>1 DEF Gated
          <6>2. n # 0
            BY <6>1
          <6> QED
            BY <6>2 DEF MustBlock
        <5>2. CASE ~Enforced(text)
          BY <5>2 DEF MustBlock
        <5> QED
          BY <5>1, <5>2
      <4> QED
        BY <2>3, <3>1, <4>1 DEF BatchOutcomes
    <3> HIDE DEF new
    <3>4. p \in Piece
      BY <2>2, <2>4, <3>2, RebuiltType
    <3>5. EndsOne(p) /\ Carried(p) = Carrying("batch", new)
      BY <2>4, <3>2, RebuiltIs
    <3> HIDE DEF p
    <3> QED
      BY <1>0, <2>1, <3>1, <3>3, <3>4, <3>5, EndsWith
  <2> QED
    BY <1>2, <2>6, <2>7, <2>8
<1> QED
  BY <1>1, <1>2

(* The loop does with a call what the policy may make of it. *)
LEMMA RpcSteps ==
    ASSUME Sound, TypeOK', StreamIs, pc = "parse", NEW k \in Nat, Standing(k), Given(k),
           NEW h \in Complete,
           RpcPart(h) \/ BlockRpc(h) \/ RewriteRpc(h) \/ PassRpc(h)
    PROVE  GateInv' /\ (Gate!Decide \/ UNCHANGED Gate!vars)
<1>0. h.typ = "rpc" /\ Current.typ = "rpc" /\ Advance(h)
  BY ChunksAre DEF Sound, RpcPart, BlockRpc, RewriteRpc, PassRpc, RpcEnd, Loop
<1>1. CASE RpcPart(h)
  <2>1. /\ ~h.eom /\ UNCHANGED <<out, handled, sqlChunks>>
        /\ rpcChunks' = Gathered(rpcChunks, h)
    BY <1>1 DEF RpcPart, Gathered
  <2> QED
    BY <1>0, <2>1, Continues
<1>2. CASE BlockRpc(h) \/ RewriteRpc(h) \/ PassRpc(h)
  <2> DEFINE body == Gathered(rpcChunks, h)
             last == Current.parts[Len(Current.parts)]
  <2>1. /\ h.eom /\ handled' = handled + 1 /\ rpcChunks' = <<>> /\ sqlChunks' = sqlChunks
        /\ body = RpcBody(h)
    BY <1>2 DEF BlockRpc, RewriteRpc, PassRpc, RpcEnd, RpcBody
  <2>2. body \in Seq(Cell) /\ body = FlattenSeq(Current.parts)
    <3> DEFINE parts == Current.parts
    <3>1. parts \in Seq(Seq(Cell)) /\ body = Upto(parts, Len(parts))
      BY <1>0, <2>1, TakesPacket, ChunksAre, MessageType DEF Sound
    <3> HIDE DEF parts, body
    <3>2. Upto(parts, Len(parts)) = FlattenSeq(parts) /\ FlattenSeq(parts) \in Seq(Cell)
      BY <3>1, FirstOnes, FlattenType DEF Upto
    <3> QED
      BY <3>1, <3>2 DEF parts
  <2>3. Outcomes(Current) = CallOutcomes(body, last)
    BY <1>0, <2>2 DEF Outcomes
  <2>4. FitInPlace(body) \in Seq(Cell) /\ "rpc" \in Types
    BY <2>2, FitInPlaceType DEF Types
  <2>5. TypeOK
    BY DEF Sound
  <2>6. last = Current.parts[k + 1]
    BY <2>1, ChunksAre DEF Sound
  <2> HIDE DEF body, last
  <2>7. CASE BlockRpc(h)
    <3>1. out' = out /\ RpcDropped(body)
      BY <2>1, <2>7 DEF BlockRpc
    <3>2. <<>> \in Outcomes(Current)
      BY <2>3, <3>1 DEF CallOutcomes, RpcDropped, RpcRewritten
    <3> QED
      BY <1>0, <2>1, <3>1, <3>2, EndsWith
  <2>8. CASE RewriteRpc(h)
    <3>1. PICK new \in {FitInPlace(body)} \cup (IF Repack THEN {body} ELSE {}) :
             out' = Append(out, Rebuilt("rpc", new, body))
      BY <2>1, <2>8 DEF RewriteRpc, body
    <3> DEFINE p == Rebuilt("rpc", new, body)
    <3>2. new \in Seq(Cell) /\ RpcRewritten(body) /\ ~RpcDropped(body)
      BY <2>1, <2>2, <2>4, <2>8 DEF RewriteRpc, RpcRewritten, RpcDropped
    <3>3. <<Carrying("rpc", new)>> \in Outcomes(Current)
      BY <2>3, <3>2 DEF CallOutcomes
    <3>4. p \in Piece
      BY <2>2, <2>4, <3>2, RebuiltType
    <3>5. EndsOne(p) /\ Carried(p) = Carrying("rpc", new)
      BY <2>4, <3>2, RebuiltIs
    <3>6. out' = Append(out, p)
      BY <3>1
    <3> HIDE DEF p
    <3> QED
      BY <1>0, <2>1, <3>3, <3>4, <3>5, <3>6, EndsWith
  <2>9. CASE PassRpc(h)
    <3> DEFINE p == Passed(h, body)
    <3>1. ~RpcDropped(body) /\ ~RpcRewritten(body) /\ out' = Append(out, p)
      BY <2>1, <2>9 DEF PassRpc, body
    <3>2. <<Carrying("rpc", last)>> \in Outcomes(Current)
      BY <2>3, <3>1 DEF CallOutcomes
    <3>3. p \in Piece
      BY <2>2, <2>5, PassedType
    <3>4. EndsOne(p) /\ Carried(p) = Carrying("rpc", last)
      BY <1>0, <2>1, <2>6, PassedIs
    <3> HIDE DEF p
    <3> QED
      BY <1>0, <2>1, <3>1, <3>2, <3>3, <3>4, EndsWith
  <2> QED
    BY <1>2, <2>7, <2>8, <2>9
<1> QED
  BY <1>1, <1>2

(* Of any other message every packet is passed on, and with the last one it is
   decided. *)
LEMMA OtherSteps ==
    ASSUME Sound, TypeOK', StreamIs, pc = "parse", NEW k \in Nat, Standing(k), Given(k),
           NEW h \in Complete, PassOther(h)
    PROVE  GateInv' /\ (Gate!Decide \/ UNCHANGED Gate!vars)
<1> DEFINE p == Passed(h, <<>>)
           P == Pieces
           Q == Pieces'
           n == Len(Pieces)
           d == n - k
           m == Current
           j == k + 1
<1>0. /\ h.typ = "other" /\ m.typ = "other" /\ Advance(h) /\ out' = Append(out, p)
      /\ handled' = handled + (IF h.eom THEN 1 ELSE 0)
      /\ UNCHANGED <<up, sqlChunks, rpcChunks>> /\ pc' = "parse" /\ UNCHANGED sent
  BY ChunksAre DEF Sound, PassOther, Loop, Advance
<1>1. /\ m \in Messages /\ j \in 1..Len(m.parts) /\ j = k + 1 /\ Undecided
      /\ Len(m.parts) \in Nat /\ handled \in Nat
  BY TakesPacket, MessageType, WiresType DEF Sound, Standing
<1>2. Trailing(k) = k
  BY <1>0, <1>1 DEF Trailing
<1>3. /\ Settled(P, d)
      /\ \A i \in 1..k : Carried(P[d + i]) = Carrying("other", m.parts[i])
  BY <1>2 DEF Given
<1>4. /\ P \in Seq(Piece) /\ n \in Nat /\ p \in Piece
      /\ Q \in Seq(Piece) /\ Len(Q) = n + 1 /\ \A i \in 1..n : Q[i] = P[i]
      /\ Q[n + 1] = p
  <2>1. TypeOK /\ <<>> \in Seq(Cell)
    BY EmptySeq DEF Sound
  <2>2. p \in Piece
    BY <2>1, PassedType
  <2> HIDE DEF p
  <2> QED
    BY <1>0, <2>1, <2>2, PiecesAppended
<1>5. /\ EndsOne(p) <=> h.eom
      /\ Carried(p) = Carrying("other", m.parts[j])
  <2>1. /\ EndsOne(p) <=> h.eom
        /\ Carried(p) = Carrying(h.typ, m.parts[j])
    BY <1>0, PassedIs, Zenon DEF PassOther, Loop
  <2> QED
    BY <1>0, <2>1
<1>6. d \in Nat /\ d <= n /\ n = d + k /\ n + 1 = d + j /\ d = n - Trailing(k)
  <2>1. d \in 0..Len(P)
    BY <1>3, Zenon DEF Settled
  <2>2. d \in 0..n /\ n \in Nat /\ k \in Nat /\ j = k + 1 /\ d = n - k
    BY <2>1, <1>4
  <2>3. d = n - Trailing(k)
    BY <1>2
  <2> HIDE DEF n, d, j
  <2> QED
    BY <2>2, <2>3
<1> HIDE DEF p, P, Q, n, d, m, j
<1>7. \A i \in 1..j : Carried(Q[d + i]) = Carrying("other", m.parts[i])
  <2>1. ASSUME NEW i \in 1..j PROVE Carried(Q[d + i]) = Carrying("other", m.parts[i])
    <3>1. CASE i = j
      BY <1>4, <1>5, <1>6, <3>1
    <3>2. CASE i # j
      <4>1. i \in 1..k /\ d + i \in 1..n
        BY <1>1, <1>6, <3>2
      <4> QED
        BY <1>3, <1>4, <4>1
    <3> QED
      BY <3>1, <3>2
  <2> QED
    BY <2>1
<1>8. \A i \in 1..d : Q[i] = P[i]
  <2>1. \A i \in 1..d : i \in 1..n
    BY <1>4, <1>6
  <2> QED
    BY <1>4, <2>1
<1>9. CASE ~h.eom
  <2>1. handled' = handled
    BY <1>0, <1>1, <1>9
  <2>2. StreamIs' /\ Standing(j)' /\ j \in Nat
    <3>1. /\ sqlChunks' = IF h.typ = "batch" THEN Gathered(sqlChunks, h) ELSE sqlChunks
          /\ rpcChunks' = IF h.typ = "rpc" THEN Gathered(rpcChunks, h) ELSE rpcChunks
      BY <1>0
    <3> QED
      BY <1>0, <1>9, <2>1, <3>1, PartTaken DEF Sound, j
  <2>3. Current' = m /\ Trailing(j)' = j
    BY <1>0, <1>1, <2>1, SameMessages DEF Trailing, m
  <2>4. Settled(Q, d)
    <3>1. d \in 0..Len(Q)
      BY <1>4, <1>6
    <3>2. d # 0 => EndsOne(Q[d])
      <4> SUFFICES ASSUME d # 0 PROVE EndsOne(Q[d])
        OBVIOUS
      <4>1. d \in 1..d
        BY <1>6
      <4> QED
        BY <1>3, <1>8, <4>1 DEF Settled
    <3>3. ASSUME NEW i \in 1..Len(Q), d < i PROVE ~EndsOne(Q[i])
      <4>1. CASE i = n + 1
        BY <1>4, <1>5, <1>9, <4>1
      <4>2. CASE i # n + 1
        <5>1. i \in 1..n
          BY <1>4, <4>2
        <5>2. i \in 1..Len(P) /\ Q[i] = P[i]
          BY <1>4, <5>1 DEF n, P
        <5> QED
          BY <1>3, <3>3, <5>2 DEF Settled
      <4> QED
        BY <4>1, <4>2
    <3> QED
      BY <3>1, <3>2, <3>3 DEF Settled
  <2>5. Given(j)'
    <3>1. Len(Q) - j = d
      BY <1>1, <1>4, <1>6
    <3>2. (Len(Pieces) - Trailing(j))' = d
      BY <2>3, <3>1 DEF Q
    <3>3. Settled(Pieces', d) <=> Settled(Q, d)
      BY DEF Q
    <3> QED
      BY <1>7, <2>3, <2>4, <3>2 DEF Given, Q, Settled
  <2>6. Delivered(Q) = Delivered(P)
    <3>1. /\ Delivered(P) = [i \in 1..d |-> Carried(P[i])]
          /\ Delivered(Q) = [i \in 1..d |-> Carried(Q[i])]
      BY <1>3, <1>4, <2>4, DeliveredIs
    <3> QED
      BY <1>8, <3>1
  <2>7. Delivered(up \o out)' = Delivered(up \o out)
    BY <2>6 DEF P, Q, Pieces
  <2>8. UNCHANGED Gate!vars
    BY <1>0, <2>1, <2>7 DEF Gate!vars
  <2> QED
    BY <1>0, <2>2, <2>5, <2>8 DEF GateInv
<1>10. CASE h.eom
  <2> DEFINE w == [i \in DOMAIN m.parts |-> Carrying("other", m.parts[i])]
             W == {Carrying("other", m.parts[i]) : i \in DOMAIN m.parts}
  <2>1. handled' = handled + 1 /\ j = Len(m.parts) /\ DOMAIN m.parts = 1..j /\ j \in Nat
    BY <1>0, <1>1, <1>10, ChunksAre, MessageType DEF Sound, j, m
  <2>2. w \in Seq(W) /\ Len(w) = j /\ \A i \in 1..j : w[i] = Carrying("other", m.parts[i])
    <3>1. w \in [1..j -> W] /\ w = [i \in 1..j |-> Carrying("other", m.parts[i])]
      BY <2>1
    <3>2. w \in Seq(W)
      BY <2>1, <3>1, SeqDef
    <3>3. Len(w) = j
      BY <2>1, <3>1, <3>2, LenProperties
    <3> QED
      BY <3>1, <3>2, <3>3
  <2>3. w \in Outcomes(Current)
    BY <1>0 DEF Outcomes, m
  <2> HIDE DEF w, W
  <2> DEFINE e == Len(Q)
  <2>4. e \in Nat /\ d <= e /\ e - d = j
    BY <1>1, <1>4, <1>6
  <2>5. Settled(Q, e)
    <3>1. e \in 0..e /\ \A i \in 1..e : ~(e < i)
      BY <2>4
    <3>2. EndsOne(Q[e])
      BY <1>4, <1>5, <1>10
    <3> QED
      BY <3>1, <3>2 DEF Settled
  <2>6. Settled(Pieces, Len(Pieces))'
    BY <2>5 DEF Q, Settled
  <2>7. \A i \in 1..j : w[i] = Carried(Q[d + i])
    BY <1>7, <2>2
  <2>8. /\ d = Len(Pieces) - Trailing(k) /\ d <= Len(Pieces')
        /\ \A i \in 1..d : Pieces'[i] = Pieces[i]
        /\ Len(w) = Len(Pieces') - d
        /\ \A i \in 1..(Len(Pieces') - d) : w[i] = Carried(Pieces'[d + i])
    BY <1>6, <1>8, <2>2, <2>4, <2>7 DEF n, P, Q
  <2>9. /\ sqlChunks' = IF h.typ = "batch" THEN <<>> ELSE sqlChunks
        /\ rpcChunks' = IF h.typ = "rpc" THEN <<>> ELSE rpcChunks
    BY <1>0
  <2> QED
    BY <1>0, <1>10, <2>1, <2>2, <2>3, <2>6, <2>8, <2>9, Ends
<1> QED
  BY <1>9, <1>10

-----------------------------------------------------------------------------
(***************************************************************************)
(* Steps that decide nothing.                                              *)
(***************************************************************************)
(* Where the loop stands does not change when the client sends one more. *)
LEMMA StandingWhenSending ==
    ASSUME TypeOK, NEW m \in Messages, sent' = Append(sent, m),
           UNCHANGED <<rd, pc, cbuf, rest, sqlChunks, rpcChunks, handled>>,
           NEW k \in Nat, Standing(k)
    PROVE  /\ Standing(k)' /\ Trailing(k)' = Trailing(k)
           /\ \A typ : Taken(typ, k)' = Taken(typ, k)
           /\ Undecided => Current' = Current
           /\ Wires' = Append(Wires, Wire(m))
<1> DEFINE n == Len(sent)
           j == handled + 1
           ws == Wires
<1>1. /\ n \in Nat /\ sent \in Seq(Messages) /\ handled \in 0..n
      /\ Len(sent') = n + 1 /\ sent'[n + 1] = m
      /\ \A i \in 1..n : sent'[i] = sent[i]
      /\ sent' \in Seq(Messages)
  <2>1. n \in Nat /\ sent \in Seq(Messages) /\ handled \in 0..n
    BY WiresType DEF TypeOK, Standing
  <2> QED
    BY <2>1, AppendProperties
<1>2. Undecided'
  BY <1>1 DEF Undecided
<1>3. /\ ws \in Seq(Seq(Cell)) /\ Len(ws) = n /\ \A i \in 1..n : ws[i] = Wire(sent[i])
  BY WiresType
<1>4. Wire(m) \in Seq(Cell)
  BY PacketsType
<1>5. Wires' = Append(ws, Wire(m))
  <2> DEFINE more == Append(ws, Wire(m))
             wire == [i \in 1..(n + 1) |-> Wire(sent'[i])]
  <2>1. DOMAIN sent' = 1..(n + 1)
    BY <1>1, LenProperties
  <2>2. Wires' = wire
    BY <2>1 DEF Wires
  <2> HIDE DEF ws
  <2>3. /\ more \in Seq(Seq(Cell)) /\ Len(more) = n + 1 /\ more[n + 1] = Wire(m)
        /\ \A i \in 1..n : more[i] = ws[i]
    BY <1>3, <1>4, AppendProperties
  <2> HIDE DEF more, n
  <2>4. \A i \in 1..(n + 1) : wire[i] = more[i]
    <3> SUFFICES ASSUME NEW i \in 1..(n + 1) PROVE wire[i] = more[i]
      OBVIOUS
    <3>1. CASE i = n + 1
      BY <1>1, <2>3, <3>1 DEF n
    <3>2. CASE i # n + 1
      <4>1. i \in 1..n
        BY <1>1, <3>2
      <4> QED
        BY <1>1, <1>3, <2>3, <4>1
    <3> QED
      BY <3>1, <3>2
  <2>5. DOMAIN more = 1..(n + 1)
    BY <2>3, LenProperties
  <2>6. more = [i \in 1..(n + 1) |-> more[i]]
    BY <2>3, <2>5
  <2> QED
    BY <2>2, <2>4, <2>6 DEF more
<1>6. Upto(Wires', handled) = Upto(Wires, handled)
  <2>1. handled \in 0..Len(ws)
    BY <1>1, <1>3
  <2> HIDE DEF ws
  <2>2. SubSeq(Append(ws, Wire(m)), 1, handled) = SubSeq(ws, 1, handled)
    BY <1>3, <1>4, <2>1, FirstOnes
  <2> QED
    BY <1>5, <2>2 DEF Upto, ws
<1>7. CASE Undecided
  <2>1. j \in 1..n
    BY <1>1, <1>7 DEF Undecided
  <2>2. Current' = Current
    BY <1>1, <2>1 DEF Current
  <2>3. Place(k)' = Place(k)
    BY <1>2, <1>6, <1>7, <2>2 DEF Place
  <2>4. \A typ : Taken(typ, k)' = Taken(typ, k)
    BY <1>2, <1>7, <2>2 DEF Taken
  <2>5. handled \in 0..Len(sent') /\ k < Len(Current.parts)
    BY <1>1, <1>7 DEF Standing
  <2>6. /\ Len(Buffer) <= rd /\ rd - Len(Buffer) = Place(k) /\ Buffer' = Buffer
        /\ sqlChunks = Taken("batch", k) /\ rpcChunks = Taken("rpc", k)
    BY DEF Standing, Buffer
  <2>7. Standing(k)'
    BY <1>2, <2>2, <2>3, <2>4, <2>5, <2>6 DEF Standing
  <2>8. Trailing(k)' = Trailing(k)
    BY <1>2, <1>7, <2>2 DEF Trailing
  <2> QED
    BY <1>5, <2>2, <2>4, <2>7, <2>8
<1>8. CASE ~Undecided
  <2>1. handled = n /\ k = 0
    BY <1>1, <1>8 DEF Undecided, Standing
  <2>2. Current' = m
    BY <1>1, <2>1 DEF Current
  <2>3. /\ m.parts \in Seq(Seq(Cell)) /\ Packets(m) \in Seq(Seq(Cell))
        /\ Len(m.parts) \in Nat \ {0}
    BY MessageType, PacketsType
  <2>4. Len(Upto(Packets(m), 0)) = 0 /\ Upto(m.parts, 0) = <<>>
    <3> DEFINE parts == m.parts
               packets == Packets(m)
    <3>1. parts \in Seq(Seq(Cell)) /\ packets \in Seq(Seq(Cell))
      BY <2>3
    <3> HIDE DEF parts, packets
    <3>2. Len(Upto(packets, 0)) = 0 /\ Upto(parts, 0) = <<>>
      BY <3>1, UptoNone
    <3> QED
      BY <3>2 DEF parts, packets
  <2>5. Len(Upto(Wires, handled)) \in Nat
    <3>1. handled \in 0..Len(ws)
      BY <1>1, <1>3
    <3> HIDE DEF ws
    <3>2. Upto(ws, handled) \in Seq(Cell)
      BY <1>3, <3>1, FlattenSplit DEF Upto
    <3> QED
      BY <3>2, LenProperties DEF ws
  <2>6. Place(k)' = Place(k)
    <3> DEFINE x == Len(Upto(Wires, handled))
               y == Len(Upto(Packets(m), 0))
    <3>1. Place(k) = x + 0 /\ Place(k)' = x + y
      BY <1>2, <1>6, <1>8, <2>1, <2>2 DEF Place
    <3> QED
      BY <2>4, <3>1
  <2>7. \A typ : Taken(typ, k)' = Taken(typ, k)
    BY <1>8, <2>1, <2>2, <2>4 DEF Taken
  <2>8. handled \in 0..Len(sent') /\ k < Len(m.parts)
    BY <1>1, <2>1, <2>3
  <2>9. /\ Len(Buffer) <= rd /\ rd - Len(Buffer) = Place(k) /\ Buffer' = Buffer
        /\ sqlChunks = Taken("batch", k) /\ rpcChunks = Taken("rpc", k)
    BY DEF Standing, Buffer
  <2>10. Standing(k)'
    BY <1>2, <2>2, <2>6, <2>7, <2>8, <2>9 DEF Standing
  <2>11. Trailing(k)' = Trailing(k)
    BY <2>1 DEF Trailing
  <2> QED
    BY <1>5, <1>8, <2>7, <2>10, <2>11
<1> QED
  BY <1>7, <1>8

(* The bytes of a message more. *)
LEMMA StreamGrows ==
    ASSUME TypeOK, StreamIs, NEW m \in Messages, stream' = stream \o Wire(m),
           Wires' = Append(Wires, Wire(m))
    PROVE  StreamIs'
<1>1. Wires \in Seq(Seq(Cell)) /\ Wire(m) \in Seq(Cell)
  BY WiresType, PacketsType
<1>2. FlattenSeq(Append(Wires, Wire(m))) = FlattenSeq(Wires) \o Wire(m)
  <2> DEFINE ws == Wires
  <2>1. ws \in Seq(Seq(Cell))
    BY <1>1
  <2> HIDE DEF ws
  <2>2. FlattenSeq(Append(ws, Wire(m))) = FlattenSeq(ws) \o Wire(m)
    BY <1>1, <2>1, FlattenAppend
  <2> QED
    BY <2>2 DEF ws
<1> QED
  BY <1>2 DEF StreamIs

(* What the client sends is sent to the gate, and nothing else happens there. *)
LEMMA SendStep ==
    ASSUME Sound, GateInv, ClientSend
    PROVE  GateInv' /\ Gate!Send
<1>1. PICK m \in Messages : sent' = Append(sent, m) /\ stream' = stream \o Wire(m)
  BY DEF ClientSend
<1>2. PICK k \in Nat : Standing(k) /\ Given(k)
  BY DEF GateInv
<1>3. UNCHANGED <<rd, pc, cbuf, rest, out, up, sqlChunks, rpcChunks, handled>>
  BY DEF ClientSend
<1>4. /\ Standing(k)' /\ Trailing(k)' = Trailing(k)
      /\ Undecided => Current' = Current
      /\ Wires' = Append(Wires, Wire(m))
  BY <1>1, <1>2, <1>3, StandingWhenSending DEF Sound
<1>5. StreamIs'
  BY <1>1, <1>4, StreamGrows DEF Sound, GateInv
<1>6. Pieces' = Pieces
  BY <1>3 DEF Pieces
<1>7. Given(k)'
  <2>1. Trailing(k) # 0 => Current' = Current
    BY <1>4 DEF Trailing
  <2>2. ASSUME NEW i \in 1..Trailing(k)
        PROVE  Current'.parts[i] = Current.parts[i]
    <3>1. Trailing(k) # 0
      BY <1>2 DEF Trailing
    <3> QED
      BY <2>1, <3>1
  <2> QED
    BY <1>2, <1>4, <1>6, <2>2 DEF Given, Settled
<1>8. GateInv'
  BY <1>2, <1>3, <1>4, <1>5, <1>7 DEF GateInv
<1>9. Gate!Send
  <2>1. Delivered(up \o out)' = Delivered(up \o out)
    BY <1>3
  <2> QED
    BY <1>1, <1>3, <2>1 DEF Gate!Send
<1> QED
  BY <1>8, <1>9

(* Where the loop stands depends on what is behind the buffer only. *)
LEMMA StandingKept ==
    ASSUME NEW k \in Nat, Standing(k), UNCHANGED <<sent, handled, sqlChunks, rpcChunks>>,
           Len(Buffer') <= rd', rd' - Len(Buffer') = rd - Len(Buffer)
    PROVE  /\ Standing(k)' /\ Trailing(k)' = Trailing(k)
           /\ \A typ : Taken(typ, k)' = Taken(typ, k)
<1>1. Wires' = Wires /\ Current' = Current /\ (Undecided' <=> Undecided)
  BY SameMessages
<1>2. Place(k)' = Place(k) /\ Trailing(k)' = Trailing(k)
  BY <1>1 DEF Place, Trailing
<1>3. \A typ : Taken(typ, k)' = Taken(typ, k)
  BY <1>1 DEF Taken
<1> QED
  BY <1>1, <1>2, <1>3 DEF Standing

(* Reading, writing, and the end of the connection leave the loop where it is. *)
LEMMA StandingAside ==
    ASSUME Sound, TypeOK', StreamIs, pc # "parse" => out = <<>>,
           ReadData \/ WriteOut \/ Eof \/ ClientClose \/ UNCHANGED vars,
           NEW k \in Nat, Standing(k)
    PROVE  /\ UNCHANGED <<sent, handled>> /\ StreamIs'
           /\ Pieces' = Pieces /\ (pc' # "parse" => out' = <<>>)
           /\ Standing(k)' /\ Trailing(k)' = Trailing(k)
           /\ \A typ : Taken(typ, k)' = Taken(typ, k)
<1>1. /\ UNCHANGED <<sent, stream, handled, sqlChunks, rpcChunks>>
      /\ StreamIs'
  <2>1. UNCHANGED <<sent, stream, handled, sqlChunks, rpcChunks>>
    BY DEF ReadData, WriteOut, ParseDone, Eof, ClientClose, vars
  <2> QED
    BY <2>1, SameMessages DEF StreamIs
<1>2. /\ Pieces' = Pieces /\ (pc' # "parse" => out' = <<>>)
      /\ Len(Buffer') <= rd' /\ rd' - Len(Buffer') = rd - Len(Buffer)
  <2>0. /\ cbuf \in Seq(Cell) /\ rest \in Seq(Cell) /\ rd \in Nat
        /\ up \in Seq(Piece) /\ out \in Seq(Piece)
        /\ Len(cbuf) \in Nat /\ Len(rest) \in Nat
    BY LenProperties DEF Sound, TypeOK
  <2>1. CASE ReadData
    <3>1. PICK n \in 1..ReadMax :
             /\ rd + n <= Len(stream) /\ rd' = rd + n
             /\ data' = SubSeq(stream, rd + 1, rd + n)
      BY <2>1 DEF ReadData
    <3>2. n \in Nat /\ n # 0
      BY <3>1, BoundsAssumption
    <3>3. Len(data') = n
      <4> DEFINE first == rd + 1
                 lst == rd + n
      <4>1. /\ stream \in Seq(Cell) /\ Len(stream) \in Nat
            /\ first \in 1..Len(stream) /\ lst \in 1..Len(stream)
            /\ lst - first + 1 = n /\ first <= lst
        BY <2>0, <3>1, <3>2, LenProperties DEF Sound, TypeOK
      <4>2. \A i \in first..lst : stream[i] \in Cell
        <5>1. \A i \in first..lst : i \in 1..Len(stream)
          BY <4>1
        <5> QED
          BY <4>1, <5>1, ElementOfSeq
      <4> HIDE DEF first, lst
      <4>3. Len(SubSeq(stream, first, lst)) = n
        BY <4>1, <4>2, SubSeqProperties
      <4> QED
        BY <3>1, <4>3 DEF first, lst
    <3>4. data' \in Seq(Cell) /\ rest' = cbuf \o data' /\ pc' = "parse" /\ pc = "read"
      BY <2>1 DEF ReadData, TypeOK
    <3>5. Len(rest') = Len(cbuf) + n
      BY <2>0, <3>3, <3>4, ConcatProperties
    <3>6. Len(cbuf) <= rd /\ Buffer = cbuf /\ Buffer' = rest'
      BY <3>4 DEF Standing, Buffer
    <3>7. out = <<>> /\ out' = <<>> /\ up' = up
      BY <2>1 DEF ReadData
    <3> QED
      BY <2>0, <3>1, <3>2, <3>4, <3>5, <3>6, <3>7 DEF Pieces
  <2>2. CASE WriteOut
    <3>1. /\ up' = up \o out /\ out' = <<>> /\ cbuf' = rest /\ pc = "parse"
          /\ pc' = "read" /\ rd' = rd
      BY <2>2 DEF WriteOut, ParseDone
    <3>2. (up \o out) \o <<>> = up \o out
      <4>1. up \o out \in Seq(Piece)
        BY <2>0, ConcatProperties
      <4> QED
        BY <4>1, ConcatEmptySeq
    <3>3. Buffer = rest /\ Buffer' = rest /\ Len(rest) <= rd
      BY <3>1 DEF Buffer, Standing
    <3> QED
      BY <3>1, <3>2, <3>3 DEF Pieces
  <2>3. CASE Eof \/ ClientClose \/ UNCHANGED vars
    <3>1. /\ UNCHANGED <<up, out, rd, cbuf, rest>>
          /\ pc' = pc \/ (pc = "read" /\ pc' = "closed")
      BY <2>3 DEF Eof, ClientClose, vars
    <3>2. Buffer' = Buffer /\ Len(Buffer) <= rd
      BY <3>1 DEF Buffer, Standing
    <3>3. pc' # "parse" => pc # "parse"
      BY <3>1
    <3> QED
      BY <3>1, <3>2, <3>3 DEF Pieces
  <2> QED
    BY <2>1, <2>2, <2>3
<1> QED
  BY <1>1, <1>2, StandingKept

(* They decide nothing. *)
LEMMA PlainSteps ==
    ASSUME Sound, TypeOK', GateInv,
           ReadData \/ WriteOut \/ Eof \/ ClientClose \/ UNCHANGED vars
    PROVE  GateInv' /\ UNCHANGED Gate!vars
<1>1. PICK k \in Nat : Standing(k) /\ Given(k)
  BY DEF GateInv
<1> QED
  BY <1>1, StandingAside, Aside DEF GateInv

-----------------------------------------------------------------------------
(***************************************************************************)
(* The refinement.                                                         *)
(***************************************************************************)
(* The loop with one packet does what the gate may do, or nothing it sees. *)
LEMMA ParseImplementsGate ==
    ASSUME Sound, TypeOK', GateInv, NEW h \in Complete, ParsePacket(h)
    PROVE  GateInv' /\ (Gate!Decide \/ UNCHANGED Gate!vars)
<1>1. PICK k \in Nat : Standing(k) /\ Given(k)
  BY DEF GateInv
<1>2. StreamIs
  BY DEF GateInv
<1>3. pc = "parse"
  BY DEF ParsePacket, BatchPart, EmptyBatch, BlockBatch, ForwardBatch, BatchFails, BatchEnd,
         RpcPart, BlockRpc, RewriteRpc, PassRpc, RpcNotSeen, RpcFails, RpcEnd, PassOther, Loop
<1>4. ~BatchFails(h) /\ ~RpcNotSeen(h) /\ ~RpcFails(h)
  BY DEF Sound, BatchFails, RpcNotSeen, RpcFails, Raise
<1>5. CASE BatchPart(h) \/ EmptyBatch(h) \/ BlockBatch(h) \/ ForwardBatch(h)
  BY <1>1, <1>2, <1>3, <1>5, BatchSteps
<1>6. CASE RpcPart(h) \/ BlockRpc(h) \/ RewriteRpc(h) \/ PassRpc(h)
  BY <1>1, <1>2, <1>3, <1>6, RpcSteps
<1>7. CASE PassOther(h)
  BY <1>1, <1>2, <1>3, <1>7, OtherSteps
<1> QED
  BY <1>4, <1>5, <1>6, <1>7 DEF ParsePacket

(* Every step is one of the gate, or nothing it sees. *)
LEMMA StepImplementsGate ==
    ASSUME Sound, TypeOK', ~(OutLen > MaxRewrite), GateInv, [Next]_vars
    PROVE  GateInv' /\ [Gate!Next]_(Gate!vars)
<1>1. CASE ClientSend
  BY <1>1, SendStep DEF Gate!Next
<1>2. CASE \E h \in Complete : ParsePacket(h)
  BY <1>2, ParseImplementsGate DEF Gate!Next
<1>3. CASE ReadData \/ WriteOut \/ Eof \/ ClientClose \/ UNCHANGED vars
  BY <1>3, PlainSteps
<1>4. ~SkipWrite /\ ~SkipFails
  BY DEF SkipWrite, SkipFails
<1>5. ~RawForward /\ ~RawFails
  BY DEF Sound, BufferInv, RawForward, RawFails
<1> QED
  BY <1>1, <1>2, <1>3, <1>4, <1>5 DEF Next, Pipe, Closed

(* The pipe starts as an empty gate does. *)
LEMMA InitImplementsGate == Init => GateInv /\ Gate!Init
<1> SUFFICES ASSUME Init PROVE GateInv /\ Gate!Init
  OBVIOUS
<1>1. /\ sent = <<>> /\ stream = <<>> /\ handled = 0 /\ up = <<>> /\ out = <<>>
      /\ pc = "read" /\ cbuf = <<>> /\ rd = 0 /\ sqlChunks = <<>> /\ rpcChunks = <<>>
      /\ Len(<<>>) = 0 /\ DOMAIN <<>> = 1..0
  BY EmptySeq DEF Init
<1>2. Wires = <<>> /\ FlattenSeq(<<>>) = <<>> /\ <<>> \in Seq(Seq(Cell))
  BY <1>1, EmptySeq DEF Wires, FlattenSeq
<1>3. StreamIs
  BY <1>1, <1>2 DEF StreamIs
<1>4. ~Undecided
  BY <1>1 DEF Undecided
<1>5. Standing(0)
  <2>1. Place(0) = 0
    <3>1. Place(0) = Len(Upto(<<>>, 0)) + 0
      BY <1>1, <1>2, <1>4 DEF Place
    <3>2. Len(Upto(<<>>, 0)) = 0
      BY <1>2, UptoNone
    <3> QED
      BY <3>1, <3>2
  <2>2. Taken("batch", 0) = <<>> /\ Taken("rpc", 0) = <<>>
    BY <1>4 DEF Taken
  <2>3. Buffer = <<>>
    BY <1>1 DEF Buffer
  <2> QED
    BY <1>1, <1>4, <2>1, <2>2, <2>3 DEF Standing
<1>6. Pieces = <<>> /\ <<>> \in Seq(Piece)
  BY <1>1, ConcatEmptySeq, EmptySeq DEF Pieces
<1>7. Settled(<<>>, 0)
  BY <1>1 DEF Settled
<1>8. Given(0)
  BY <1>1, <1>4, <1>6, <1>7 DEF Given, Trailing
<1>9. Delivered(<<>>) = <<>>
  <2>1. Delivered(<<>>) = [i \in 1..0 |-> Carried(<<>>[i])]
    BY <1>6, <1>7, DeliveredIs
  <2> QED
    BY <2>1
<1>10. Gate!Init
  BY <1>1, <1>6, <1>9 DEF Gate!Init, Pieces
<1> QED
  BY <1>1, <1>3, <1>5, <1>8, <1>10 DEF GateInv

(* While the stores work and no output is dropped for its length, what the pipe
   does is what the gate may do: it decides the messages one at a time, each once,
   as a whole and in the order they were sent, however they are split into packets
   and the packets into reads. *)
THEOREM PipeImplementsGate ==
    ASSUME ~StoreMayFail
    PROVE  Spec /\ [](~(OutLen > MaxRewrite)) => ImplementsGate
<1>1. TypeOK /\ BufferInv /\ NothingLostInBuffer => Sound
  BY DEF Sound
<1>2. Sound /\ TypeOK' /\ ~(OutLen > MaxRewrite) /\ GateInv /\ [Next]_vars
        => GateInv' /\ [Gate!Next]_(Gate!vars)
  BY StepImplementsGate
<1>3. Init => GateInv /\ Gate!Init
  BY InitImplementsGate
<1> QED
  BY <1>1, <1>2, <1>3, TypeCorrect, BufferInvariance, BufferIsExact, PTL
  DEF Spec, ImplementsGate, Gate!Safety

-----------------------------------------------------------------------------
(***************************************************************************)
(* What the server makes of the bytes.                                     *)
(***************************************************************************)
(* An element behind two lists joined. *)
LEMMA JoinedAppend ==
    ASSUME NEW S, NEW a \in Seq(S), NEW b \in Seq(S), NEW c \in S
    PROVE  /\ a \o b \in Seq(S) /\ Append(b, c) \in Seq(S)
           /\ a \o Append(b, c) = Append(a \o b, c)
<1> DEFINE e == <<c>>
<1>1. e \in Seq(S)
  OBVIOUS
<1>2. a \o b \in Seq(S) /\ Append(b, c) \in Seq(S)
  BY ConcatProperties, AppendProperties
<1>3. Append(a \o b, c) = (a \o b) \o e /\ Append(b, c) = b \o e
  BY <1>2, AppendIsConcat
<1> HIDE DEF e
<1>4. (a \o b) \o e = a \o (b \o e)
  BY <1>1, ConcatAssociative
<1> QED
  BY <1>2, <1>3, <1>4, Zenon

(* The server reads one cell after the other. *)
LEMMA ReceiveIs ==
    ASSUME NEW bytes \in Seq(Cell)
    PROVE  \E f : /\ f = [i \in 0..Len(bytes) |->
                             IF i = 0 THEN Connected ELSE Takes(f[i - 1], bytes[i])]
                  /\ Receive(bytes) = f[Len(bytes)]
<1> DEFINE n == Len(bytes)
           Reads(f, k) == f = [i \in 0..k |-> IF i = 0 THEN Connected
                                              ELSE Takes(f[i - 1], bytes[i])]
           after == CHOOSE f : Reads(f, n)
           G == {k \in 1..(n + 1) : \E f : Reads(f, k - 1)}
<1>0. n \in Nat
  BY LenProperties
<1>1. 1 \in G
  <2>1. Reads([i \in {0} |-> Connected], 0)
    OBVIOUS
  <2>2. 1 - 1 = 0 /\ 1 \in 1..(n + 1)
    BY <1>0
  <2> HIDE DEF Reads, n
  <2> QED
    BY <2>1, <2>2
<1>2. ASSUME NEW j \in 1..(n + 1), j + 1 \in 1..(n + 1), j \in G PROVE j + 1 \in G
  <2> DEFINE k == j - 1
  <2>1. PICK f : Reads(f, k)
    BY <1>2
  <2>2. k \in Nat /\ j = k + 1 /\ (j + 1) - 1 = k + 1 /\ k + 1 # 0
    BY <1>0
  <2> HIDE DEF k, n
  <2> DEFINE g == [i \in 0..(k + 1) |-> IF i = k + 1 THEN Takes(f[k], bytes[i]) ELSE f[i]]
  <2>3. ASSUME NEW i \in 0..(k + 1)
        PROVE  g[i] = IF i = 0 THEN Connected ELSE Takes(g[i - 1], bytes[i])
    <3>1. CASE i = k + 1
      <4>1. i - 1 = k /\ k \in 0..(k + 1) /\ k # k + 1
        BY <2>2, <3>1
      <4> QED
        BY <2>2, <3>1, <4>1
    <3>2. CASE i \in 0..k /\ i # 0
      <4>1. i - 1 \in 0..(k + 1) /\ i - 1 # k + 1 /\ i # k + 1
        BY <2>2, <3>2
      <4>2. g[i] = f[i] /\ g[i - 1] = f[i - 1]
        BY <4>1
      <4>3. f[i] = Takes(f[i - 1], bytes[i])
        BY <2>1, <3>2
      <4> HIDE DEF g
      <4> QED
        BY <3>2, <4>2, <4>3
    <3>3. CASE i = 0
      <4>1. f[0] = Connected
        BY <2>1, <2>2
      <4> QED
        BY <2>2, <3>3, <4>1
    <3> QED
      BY <2>2, <3>1, <3>2, <3>3
  <2>4. g = [i \in 0..(k + 1) |-> g[i]]
    OBVIOUS
  <2> HIDE DEF g
  <2>5. Reads(g, k + 1)
    BY <2>3, <2>4
  <2> HIDE DEF Reads
  <2> QED
    BY <1>2, <2>2, <2>5
<1> HIDE DEF G
<1>3. 1..(n + 1) \subseteq G
  <2> DEFINE l == n + 1
  <2>1. l \in Nat
    BY <1>0
  <2> HIDE DEF n, l
  <2>2. 1 \in G /\ \A j \in 1..l : j + 1 \in 1..l /\ j \in G => j + 1 \in G
    BY <1>1, <1>2 DEF l
  <2>3. 1..l \subseteq G
    BY <2>1, <2>2, AllUpTo
  <2> QED
    BY <2>3 DEF l
<1>4. \E f : Reads(f, n)
  <2>1. n + 1 \in G /\ (n + 1) - 1 = n
    BY <1>0, <1>3
  <2> HIDE DEF Reads
  <2> QED
    BY <2>1 DEF G
<1>5. Reads(after, n)
  BY <1>4
<1>6. Receive(bytes) = after[n]
  BY DEF Receive
<1> HIDE DEF after
<1> QED
  BY <1>5, <1>6

(* Nothing read, and one cell more. *)
LEMMA ReceiveNext ==
    /\ Receive(<<>>) = Connected
    /\ \A bytes \in Seq(Cell), c \in Cell :
          Receive(Append(bytes, c)) = Takes(Receive(bytes), c)
<1>1. Receive(<<>>) = Connected
  <2>1. <<>> \in Seq(Cell) /\ Len(<<>>) = 0 /\ 0 \in 0..0
    BY EmptySeq
  <2>2. PICK f : /\ f = [i \in 0..0 |-> IF i = 0 THEN Connected
                                        ELSE Takes(f[i - 1], <<>>[i])]
                 /\ Receive(<<>>) = f[0]
    BY <2>1, ReceiveIs
  <2> QED
    BY <2>2
<1>2. ASSUME NEW bytes \in Seq(Cell), NEW c \in Cell
      PROVE  Receive(Append(bytes, c)) = Takes(Receive(bytes), c)
  <2> DEFINE n == Len(bytes)
             l == n + 1
             more == Append(bytes, c)
  <2>1. /\ n \in Nat /\ more \in Seq(Cell) /\ Len(more) = l /\ more[l] = c
        /\ \A i \in 1..n : more[i] = bytes[i]
    BY LenProperties, AppendProperties
  <2>2. PICK f : /\ f = [i \in 0..n |-> IF i = 0 THEN Connected
                                        ELSE Takes(f[i - 1], bytes[i])]
                 /\ Receive(bytes) = f[n]
    BY ReceiveIs
  <2>a. l \in Nat /\ l # 0 /\ l - 1 = n /\ l \in 0..l
    BY <2>1
  <2> HIDE DEF more, l
  <2>3. PICK g : /\ g = [i \in 0..l |-> IF i = 0 THEN Connected
                                        ELSE Takes(g[i - 1], more[i])]
                 /\ Receive(more) = g[l]
    BY <2>1, ReceiveIs
  <2> DEFINE G == {j \in 1..l : f[j - 1] = g[j - 1]}
  <2>4. 1 \in G
    <3>1. f[0] = Connected /\ g[0] = Connected
      BY <2>1, <2>2, <2>3, <2>a
    <3>2. 1 - 1 = 0 /\ 1 \in 1..l
      BY <2>1 DEF l
    <3> QED
      BY <3>1, <3>2
  <2>5. ASSUME NEW j \in 1..l, j + 1 \in 1..l, j \in G PROVE j + 1 \in G
    <3>1. /\ j \in 1..n /\ j \in 0..n /\ j \in 0..l /\ j # 0 /\ (j + 1) - 1 = j
      BY <2>1, <2>5 DEF l
    <3>2. f[j] = Takes(f[j - 1], bytes[j])
      BY <2>2, <3>1
    <3>3. g[j] = Takes(g[j - 1], more[j])
      BY <2>3, <3>1
    <3>4. f[j] = g[j]
      BY <2>1, <2>5, <3>1, <3>2, <3>3
    <3> QED
      BY <2>5, <3>1, <3>4
  <2> HIDE DEF G
  <2>6. 1..l \subseteq G
    BY <2>4, <2>5, <2>a, AllUpTo
  <2>7. f[n] = g[n]
    <3>1. l \in G
      BY <2>6, <2>a
    <3> QED
      BY <2>a, <3>1 DEF G
  <2>8. g[l] = Takes(g[l - 1], more[l])
    BY <2>3, <2>a
  <2> QED
    BY <2>1, <2>2, <2>3, <2>7, <2>8, <2>a DEF more
<1> QED
  BY <1>1, <1>2

\* The server in a packet of header h: to what it had gathered b is added, and n
\* cells are not there.
Midway(s, h, b, n) == Within(s, h, s.body \o b, n)

\* It is told, with this packet or an earlier one of the message, to reset.
Restarts(s, h) == s.reset \/ h.mark = "reset"

\* The server where a packet may begin.
Ready(s) == s \in Receiver /\ s.left = 0 /\ ~s.lost

(* A server that is ready takes a header. *)
LEMMA TakesHeader ==
    ASSUME NEW s, Ready(s), NEW h \in Header, h \notin Symbols, h.len # 0
    PROVE  Takes(s, h) = Checked(Midway(s, h, <<>>, h.len - 1))
<1>1. s.body \in Seq(Cell) /\ s.left = 0 /\ s.lost = FALSE
  BY DEF Ready, Receiver
<1>2. s.body \o <<>> = s.body
  BY <1>1, ConcatEmptySeq
<1>3. Takes(s, h) = Checked(Within(s, h, s.body, h.len - 1))
  BY <1>1 DEF Takes
<1> QED
  BY <1>2, <1>3 DEF Midway

(* In a packet the server takes the next cell. *)
LEMMA TakesCell ==
    ASSUME NEW s, Ready(s), NEW h, NEW b \in Seq(Cell), NEW n \in Nat, n # 0, NEW c \in Cell
    PROVE  /\ Checked(Midway(s, h, b, n)) = Midway(s, h, b, n)
           /\ Takes(Midway(s, h, b, n), c)
                 = Checked(Midway(s, h, Append(b, c), n - 1))
<1> DEFINE a == s.body
           t == Within(s, h, a \o b, n)
           q == s.reset \/ h.mark = "reset"
           S == Cell
<1>1. a \in Seq(S) /\ b \in Seq(S) /\ c \in S
  BY DEF Ready, Receiver
<1> HIDE DEF a, S
<1>2. /\ t.left = n /\ t.lost = FALSE /\ t.body = a \o b
      /\ t.msgs = s.msgs /\ t.head = h /\ t.reset = q
      /\ n > 0 /\ ~(n = 0)
  BY DEF Within
<1>3. a \o Append(b, c) = Append(a \o b, c)
  BY <1>1, JoinedAppend
<1> HIDE DEF t
<1>4. Takes(t, c) = Checked(Within(t, t.head, Append(t.body, c), t.left - 1))
  BY <1>2 DEF Takes
<1>5. Within(t, t.head, Append(t.body, c), t.left - 1)
        = Within(s, h, a \o Append(b, c), n - 1)
  <2>1. (t.reset \/ t.head.mark = "reset") = q
    BY <1>2
  <2> HIDE DEF q
  <2>2. Within(s, h, a \o Append(b, c), n - 1)
          = [msgs |-> s.msgs, body |-> a \o Append(b, c), reset |-> q, head |-> h,
             left |-> n - 1, lost |-> FALSE]
    BY DEF Within, q
  <2> QED
    BY <1>2, <1>3, <2>1, <2>2 DEF Within
<1>6. Checked(t) = t
  BY <1>2 DEF Checked
<1> QED
  BY <1>4, <1>5, <1>6 DEF t, a, Midway

(* A packet read to its end: the message it ends is there, or more of one. *)
LEMMA PacketReceived ==
    ASSUME NEW bytes \in Seq(Cell), NEW s, s = Receive(bytes), Ready(s),
           NEW h \in Header, h \notin Symbols, NEW w \in Seq(Cell), h.len = 1 + Len(w)
    PROVE  /\ bytes \o (<<h>> \o w) \in Seq(Cell)
           /\ Receive(bytes \o (<<h>> \o w)) = Checked(Midway(s, h, w, 0))
<1> DEFINE n == Len(w)
           First(j) == SubSeq(w, 1, j)
           Read(j) == (bytes \o <<h>>) \o First(j)
           G == {k \in 1..(n + 1) :
                    Receive(Read(k - 1)) = Checked(Midway(s, h, First(k - 1), n - (k - 1)))}
<1>0. n \in Nat /\ h.len = 1 + n /\ h.len # 0 /\ h.len - 1 = n /\ n - 0 = n /\ n - n = 0
      /\ h \in Cell
  BY LenProperties DEF Cell
<1>1. /\ First(0) = <<>> /\ First(n) = w
      /\ \A j \in 0..n : First(j) \in Seq(Cell)
      /\ \A j \in 0..(n - 1) : w[j + 1] \in Cell /\ First(j + 1) = Append(First(j), w[j + 1])
  BY FirstOnes
<1>2. <<h>> \in Seq(Cell) /\ bytes \o <<h>> \in Seq(Cell) /\ bytes \o <<h>> = Append(bytes, h)
  BY <1>0, ConcatProperties, AppendIsConcat
<1> HIDE DEF First, n
<1>3. \A j \in 0..(n - 1) : Read(j + 1) = Append(Read(j), w[j + 1]) /\ Read(j) \in Seq(Cell)
  <2> SUFFICES ASSUME NEW j \in 0..(n - 1)
               PROVE  Read(j + 1) = Append(Read(j), w[j + 1]) /\ Read(j) \in Seq(Cell)
    OBVIOUS
  <2> DEFINE a == bytes \o <<h>>
             b == First(j)
             c == w[j + 1]
             S == Cell
  <2>1. j \in 0..n
    BY <1>0
  <2>2. a \in Seq(S) /\ b \in Seq(S) /\ c \in S /\ First(j + 1) = Append(b, c)
    BY <1>1, <1>2, <2>1
  <2>3. Read(j) = a \o b /\ Read(j + 1) = a \o Append(b, c)
    BY <2>2
  <2> HIDE DEF a, b, c, S
  <2>4. a \o Append(b, c) = Append(a \o b, c) /\ a \o b \in Seq(S)
    BY <2>2, JoinedAppend
  <2> HIDE DEF Read
  <2>5. Read(j + 1) = Append(Read(j), c) /\ Read(j) \in Seq(Cell)
    BY <2>3, <2>4, Zenon DEF S
  <2> QED
    BY <2>5 DEF c, S
<1>4. 1 \in G
  <2>1. Read(0) = Append(bytes, h)
    BY <1>1, <1>2, ConcatEmptySeq
  <2>2. Receive(Append(bytes, h)) = Takes(s, h)
    BY <1>0, ReceiveNext
  <2>3. Takes(s, h) = Checked(Midway(s, h, <<>>, n))
    BY <1>0, TakesHeader
  <2>4. 1 \in 1..(n + 1) /\ 1 - 1 = 0
    BY <1>0
  <2> HIDE DEF Read
  <2> QED
    BY <1>0, <1>1, <2>1, <2>2, <2>3, <2>4
<1>5. ASSUME NEW k \in 1..(n + 1), k + 1 \in 1..(n + 1), k \in G PROVE k + 1 \in G
  <2> DEFINE j == k - 1
             m == n - j
             c == w[j + 1]
             t == Midway(s, h, First(j), m)
  <2>1. /\ j \in 0..(n - 1) /\ j \in 0..n /\ m \in Nat /\ m # 0 /\ k = j + 1
        /\ (k + 1) - 1 = j + 1 /\ n - (j + 1) = m - 1
    BY <1>0, <1>5
  <2>2. Receive(Read(j)) = Checked(t)
    BY <1>5
  <2>3. c \in Cell /\ First(j) \in Seq(Cell) /\ First(j + 1) = Append(First(j), c)
    BY <1>1, <2>1
  <2>4. Read(j + 1) = Append(Read(j), c) /\ Read(j) \in Seq(Cell)
    BY <1>3, <2>1
  <2> HIDE DEF j, m, Read, c
  <2>5. Checked(t) = t /\ Takes(t, c) = Checked(Midway(s, h, First(j + 1), m - 1))
    <3> DEFINE b == First(j)
               d == First(j + 1)
    <3>1. b \in Seq(Cell) /\ d = Append(b, c)
      BY <2>3
    <3> HIDE DEF b, d
    <3>2. /\ Checked(Midway(s, h, b, m)) = Midway(s, h, b, m)
          /\ Takes(Midway(s, h, b, m), c) = Checked(Midway(s, h, Append(b, c), m - 1))
      BY <2>1, <2>3, <3>1, TakesCell
    <3> QED
      BY <3>1, <3>2, Zenon DEF b, d, t
  <2>6. Receive(Read(j + 1)) = Takes(Receive(Read(j)), c)
    BY <2>3, <2>4, ReceiveNext
  <2> HIDE DEF t
  <2>7. Receive(Read(j + 1)) = Checked(Midway(s, h, First(j + 1), n - (j + 1)))
    BY <2>1, <2>2, <2>5, <2>6
  <2> QED
    BY <1>5, <2>1, <2>7
<1> HIDE DEF G
<1>6. n + 1 \in G
  <2> DEFINE l == n + 1
  <2>1. l \in Nat /\ l \in 1..l
    BY <1>0
  <2> HIDE DEF l
  <2>2. 1 \in G /\ \A k \in 1..l : k + 1 \in 1..l /\ k \in G => k + 1 \in G
    BY <1>4, <1>5 DEF l
  <2>3. l \in G
    BY <2>1, <2>2, AllUpTo
  <2> QED
    BY <2>3 DEF l
<1>7. Receive(Read(n)) = Checked(Midway(s, h, First(n), 0))
  <2>1. (n + 1) - 1 = n
    BY <1>0
  <2> HIDE DEF Read
  <2> QED
    BY <1>0, <1>6, <2>1 DEF G
<1>8. Read(n) = bytes \o (<<h>> \o w) /\ Read(n) \in Seq(Cell)
  <2>1. (bytes \o <<h>>) \o w = bytes \o (<<h>> \o w)
    BY <1>2, ConcatAssociative
  <2>2. (bytes \o <<h>>) \o w \in Seq(Cell)
    BY <1>2, ConcatProperties
  <2> QED
    BY <1>1, <2>1, <2>2
<1> HIDE DEF Read
<1> QED
  BY <1>1, <1>7, <1>8

\* From s to r the server has read a packet: it is ready again, and has one message
\* more if the packet ends one.
Got(s, r, h, w) ==
    /\ Ready(r)
    /\ h.eom => /\ r.msgs = Append(s.msgs, Message(h.typ, Restarts(s, h), s.body \o w))
                /\ r.body = <<>> /\ r.reset = FALSE
    /\ ~h.eom => r.msgs = s.msgs /\ r.body = s.body \o w /\ r.reset = Restarts(s, h)

(* It has read the packet with its last cell. *)
LEMMA CheckedIs ==
    ASSUME NEW s, Ready(s), NEW h \in Header, NEW w \in Seq(Cell),
           NEW r, r = Checked(Midway(s, h, w, 0))
    PROVE  Got(s, r, h, w)
<1> DEFINE M == [typ : Types, reset : BOOLEAN, body : Seq(Cell)]
           all == s.body \o w
           t == Within(s, h, all, 0)
           q == Restarts(s, h)
           m == Message(h.typ, q, all)
<1>0. q \in BOOLEAN
  BY DEF Restarts
<1>1. /\ s.msgs \in Seq(M) /\ s.body \in Seq(Cell) /\ all \in Seq(Cell) /\ <<>> \in Seq(Cell)
      /\ h.typ \in Types /\ h.eom \in BOOLEAN
  <2>1. s.msgs \in Seq(M) /\ s.body \in Seq(Cell) /\ h.typ \in Types /\ h.eom \in BOOLEAN
    BY DEF Ready, Receiver, Header
  <2>2. all \in Seq(Cell)
    BY <2>1, ConcatProperties
  <2> QED
    BY <2>1, <2>2, EmptySeq
<1> HIDE DEF q
<1>2. m \in M
  BY <1>0, <1>1 DEF Message
<1>a. ASSUME NEW x \in Seq(M), NEW y \in Seq(Cell), NEW z \in BOOLEAN
      PROVE  [msgs |-> x, body |-> y, reset |-> z, head |-> h, left |-> 0, lost |-> FALSE]
                \in Receiver
  <2> DEFINE X == Seq(M)
             Y == Seq(Cell)
  <2>1. Receiver = [msgs : X, body : Y, reset : BOOLEAN, head : Header, left : Nat, lost : BOOLEAN]
    BY DEF Receiver
  <2>2. x \in X /\ y \in Y
    OBVIOUS
  <2> HIDE DEF X, Y
  <2> QED
    BY <2>1, <2>2
<1> HIDE DEF M, all, m
<1>3. Append(s.msgs, m) \in Seq(M)
  BY <1>1, <1>2, AppendProperties
<1>4. /\ t = [msgs |-> s.msgs, body |-> all, reset |-> q, head |-> h, left |-> 0, lost |-> FALSE]
      /\ t.msgs = s.msgs /\ t.body = all /\ t.reset = q /\ t.head = h /\ t.left = 0
  BY DEF Within, q, Restarts
<1>5. r = Checked(t)
  BY DEF Midway, all
<1> HIDE DEF t
<1>6. Checked(t) = IF h.eom
                   THEN [msgs |-> Append(s.msgs, m), body |-> <<>>, reset |-> FALSE,
                         head |-> h, left |-> 0, lost |-> FALSE]
                   ELSE t
  BY <1>4 DEF Checked, m
<1>9. CASE h.eom
  <2>1. r = [msgs |-> Append(s.msgs, m), body |-> <<>>, reset |-> FALSE, head |-> h,
             left |-> 0, lost |-> FALSE]
    BY <1>5, <1>6, <1>9
  <2>2. r \in Receiver
    BY <1>1, <1>3, <1>a, <2>1, Zenon
  <2> QED
    BY <1>9, <2>1, <2>2 DEF Got, Ready, m, all, q
<1>10. CASE ~h.eom
  <2>1. r = t
    BY <1>5, <1>6, <1>10
  <2>2. r \in Receiver
    BY <1>0, <1>1, <1>4, <1>a, <2>1, Zenon
  <2> QED
    BY <1>4, <1>10, <2>1, <2>2 DEF Got, Ready, all, q
<1> QED
  BY <1>9, <1>10

(* The bytes of the pieces, one piece more. *)
LEMMA BytesAppended ==
    ASSUME NEW P \in Seq(Piece), NEW p \in Piece
    PROVE  /\ Bytes(P) \in Seq(Cell)
           /\ Bytes(Append(P, p)) = Bytes(P) \o p.cells
<1> DEFINE n == Len(P)
           Q == Append(P, p)
           cells == [i \in DOMAIN P |-> P[i].cells]
           more == [i \in DOMAIN Q |-> Q[i].cells]
           S == Seq(Cell)
<1>1. /\ n \in Nat /\ DOMAIN P = 1..n /\ \A i \in 1..n : P[i] \in Piece
      /\ Q \in Seq(Piece) /\ Len(Q) = n + 1 /\ DOMAIN Q = 1..(n + 1) /\ Q[n + 1] = p
      /\ \A i \in 1..n : Q[i] = P[i]
  <2>1. n \in Nat /\ DOMAIN P = 1..n /\ \A i \in 1..n : P[i] \in Piece
    BY LenProperties, ElementOfSeq
  <2>2. /\ Q \in Seq(Piece) /\ Len(Q) = n + 1 /\ Q[n + 1] = p
        /\ \A i \in 1..n : Q[i] = P[i]
    BY AppendProperties
  <2>3. DOMAIN Q = 1..(n + 1)
    BY <2>2, LenProperties
  <2> QED
    BY <2>1, <2>2, <2>3
<1>2. p.cells \in S /\ \A i \in 1..n : P[i].cells \in S
  BY <1>1 DEF Piece
<1> HIDE DEF n, Q, S
<1>3. cells \in Seq(S) /\ Len(cells) = n /\ \A i \in 1..n : cells[i] = P[i].cells
  <2>1. cells = [i \in 1..n |-> P[i].cells]
    BY <1>1
  <2> HIDE DEF cells
  <2>2. cells \in [1..n -> S]
    BY <1>2, <2>1
  <2>3. cells \in Seq(S)
    BY <1>1, <2>2, SeqDef
  <2>4. Len(cells) = n
    BY <1>1, <2>1, <2>3, LenProperties
  <2> QED
    BY <2>1, <2>3, <2>4
<1>4. more = Append(cells, p.cells)
  <2> DEFINE last == Append(cells, p.cells)
  <2>1. more = [i \in 1..(n + 1) |-> Q[i].cells]
    BY <1>1
  <2> HIDE DEF cells, more
  <2>2. /\ last \in Seq(S) /\ Len(last) = n + 1 /\ last[n + 1] = p.cells
        /\ \A i \in 1..n : last[i] = cells[i]
    BY <1>2, <1>3, AppendProperties
  <2> HIDE DEF last
  <2>3. \A i \in 1..(n + 1) : more[i] = last[i]
    <3> SUFFICES ASSUME NEW i \in 1..(n + 1) PROVE more[i] = last[i]
      OBVIOUS
    <3>1. CASE i = n + 1
      BY <1>1, <2>1, <2>2, <3>1
    <3>2. CASE i # n + 1
      <4>1. i \in 1..n
        BY <1>1, <3>2
      <4> QED
        BY <1>1, <1>3, <2>1, <2>2, <4>1
    <3> QED
      BY <3>1, <3>2
  <2>4. DOMAIN last = 1..(n + 1)
    BY <2>2, LenProperties
  <2>5. last = [i \in 1..(n + 1) |-> last[i]]
    BY <2>2, <2>4
  <2> QED
    BY <2>1, <2>3, <2>5 DEF last
<1>5. Bytes(P) = FlattenSeq(cells) /\ Bytes(Q) = FlattenSeq(more)
  BY DEF Bytes
<1> HIDE DEF cells, more
<1>6. FlattenSeq(cells) \in Seq(Cell)
  BY <1>3, FlattenType DEF S
<1>7. FlattenSeq(Append(cells, p.cells)) = FlattenSeq(cells) \o p.cells
  BY <1>2, <1>3, FlattenAppend DEF S
<1> QED
  BY <1>4, <1>5, <1>6, <1>7 DEF Q

-----------------------------------------------------------------------------
(***************************************************************************)
(* What the server has, and where the loop stands.                         *)
(***************************************************************************)
\* The packets passed on of the message at hand tell the server to reset.
Told(k) == Trailing(k) # 0 /\ Current.reset

\* The server has the messages decided so far, and of the next one the packets
\* that were passed on.
Served(k) ==
    LET s == Receive(Bytes(Pieces))
    IN  /\ Ready(s) /\ s.msgs = SubSeq(Due, 1, handled) /\ s.body = Taken("other", k)
        /\ s.reset <=> Told(k)

ServerInv ==
    /\ StreamIs
    /\ pc # "parse" => out = <<>>
    /\ \E k \in Nat : Standing(k) /\ Served(k)

\* Nothing is enforced, and no message is one the loop does not hand on whole.
DryRun == ~Enforcing /\ \A m \in Messages : HandedOn(m)

Arrivals == {Arriving(m) : m \in Messages}

(* The messages sent, as the server knows them. *)
LEMMA DueType ==
    ASSUME TypeOK
    PROVE  /\ Due \in Seq(Arrivals) /\ Len(Due) = Len(sent) /\ Len(sent) \in Nat
           /\ \A i \in 1..Len(sent) : Due[i] = Arriving(sent[i])
<1>1. /\ Len(sent) \in Nat /\ DOMAIN sent = 1..Len(sent)
      /\ \A i \in 1..Len(sent) : sent[i] \in Messages
  BY LenProperties, ElementOfSeq DEF TypeOK
<1>2. Due = [i \in 1..Len(sent) |-> Arriving(sent[i])]
  BY <1>1 DEF Due
<1>3. \A i \in 1..Len(sent) : Arriving(sent[i]) \in Arrivals
  BY <1>1 DEF Arrivals
<1> QED
  BY <1>1, <1>2, <1>3, SeqDef

(* One message more is sent: of the messages decided so far the server has what it
   had. *)
LEMMA DueMore ==
    ASSUME TypeOK, NEW m \in Messages, sent' = Append(sent, m), handled' = handled,
           handled \in 0..Len(sent)
    PROVE  SubSeq(Due', 1, handled') = SubSeq(Due, 1, handled)
<1> DEFINE n == Len(sent)
           s == Due
           v == Arriving(m)
           more == Append(s, v)
           new == [i \in 1..(n + 1) |-> Arriving(sent'[i])]
<1>1. /\ n \in Nat /\ s \in Seq(Arrivals) /\ Len(s) = n /\ v \in Arrivals
      /\ \A i \in 1..n : s[i] = Arriving(sent[i])
  BY DueType DEF Arrivals
<1>2. /\ sent' \in Seq(Messages) /\ Len(sent') = n + 1 /\ sent'[n + 1] = m
      /\ \A i \in 1..n : sent'[i] = sent[i]
  BY AppendProperties DEF TypeOK
<1>3. Due' = new
  <2>1. DOMAIN sent' = 1..(n + 1)
    BY <1>2, LenProperties
  <2> QED
    BY <2>1 DEF Due
<1> HIDE DEF s
<1>4. new = more
  <2>1. /\ more \in Seq(Arrivals) /\ Len(more) = n + 1 /\ more[n + 1] = v
        /\ \A i \in 1..n : more[i] = s[i]
    BY <1>1, AppendProperties
  <2> HIDE DEF more, n
  <2>2. \A i \in 1..(n + 1) : new[i] = more[i]
    <3> SUFFICES ASSUME NEW i \in 1..(n + 1) PROVE new[i] = more[i]
      OBVIOUS
    <3>1. CASE i = n + 1
      BY <1>2, <2>1, <3>1
    <3>2. CASE i # n + 1
      <4>1. i \in 1..n
        BY <1>1, <3>2
      <4> QED
        BY <1>1, <1>2, <2>1, <4>1
    <3> QED
      BY <3>1, <3>2
  <2>3. DOMAIN more = 1..(n + 1)
    BY <2>1, LenProperties
  <2>4. more = [i \in 1..(n + 1) |-> more[i]]
    BY <2>1, <2>3
  <2> QED
    BY <2>2, <2>4
<1>5. handled \in 0..Len(s)
  BY <1>1
<1> HIDE DEF new, v
<1>6. SubSeq(Append(s, v), 1, handled) = SubSeq(s, 1, handled)
  BY <1>1, <1>5, FirstOnes
<1> QED
  BY <1>3, <1>4, <1>6 DEF s

(* Nothing is written, and nothing decided. *)
LEMMA ServedKept ==
    ASSUME NEW k, NEW j, Served(k), Pieces' = Pieces, UNCHANGED <<sent, handled>>,
           Taken("other", j)' = Taken("other", k), Told(j)' <=> Told(k)
    PROVE  Served(j)'
<1>1. Due' = Due
  BY DEF Due
<1>2. Receive(Bytes(Pieces))' = Receive(Bytes(Pieces))
  <2>1. Receive(Bytes(Pieces')) = Receive(Bytes(Pieces))
    OBVIOUS
  <2> QED
    BY <2>1 DEF Receive, Bytes, Takes, Checked, Within, Connected
<1> QED
  BY <1>1, <1>2 DEF Served

(* A packet more is written, of header g and payload w. *)
LEMMA PieceReceived ==
    ASSUME Sound, TypeOK', NEW k, Served(k), NEW p \in Piece, UNCHANGED up, out' = Append(out, p),
           NEW g \in Header, g \notin Symbols, NEW w \in Seq(Cell), g.len = 1 + Len(w),
           p.cells = <<g>> \o w,
           NEW s, s = Receive(Bytes(Pieces)), NEW r, r = Receive(Bytes(Pieces'))
    PROVE  Got(s, r, g, w)
<1>1. Pieces \in Seq(Piece) /\ Pieces' = Append(Pieces, p)
  BY PiecesAppended DEF Sound
<1>2. Ready(s)
  BY DEF Served
<1> DEFINE P == Pieces
           b == Bytes(P)
<1>3. b \in Seq(Cell) /\ Bytes(Append(P, p)) = b \o p.cells
  <2>1. P \in Seq(Piece)
    BY <1>1
  <2> HIDE DEF P
  <2> QED
    BY <2>1, BytesAppended
<1>4. Bytes(Pieces') = b \o (<<g>> \o w)
  BY <1>1, <1>3
<1>5. s = Receive(b)
  OBVIOUS
<1> HIDE DEF b
<1>6. Receive(b \o (<<g>> \o w)) = Checked(Midway(s, g, w, 0))
  BY <1>2, <1>3, <1>5, PacketReceived
<1>7. r = Checked(Midway(s, g, w, 0))
  BY <1>4, <1>6
<1> QED
  BY <1>2, <1>7, CheckedIs, Zenon

(* The packet that ends a message, written, gives the server the message. *)
LEMMA ServedEnd ==
    ASSUME Sound, TypeOK', StreamIs, pc = "parse", NEW k \in Nat, Standing(k), Served(k),
           NEW h \in Complete, Advance(h), h.eom, handled' = handled + 1,
           sqlChunks' = IF h.typ = "batch" THEN <<>> ELSE sqlChunks,
           rpcChunks' = IF h.typ = "rpc" THEN <<>> ELSE rpcChunks,
           NEW p \in Piece, out' = Append(out, p),
           NEW g \in Header, g \notin Symbols, NEW w \in Seq(Cell), g.len = 1 + Len(w),
           p.cells = <<g>> \o w, g.eom,
           Message(g.typ, Told(k) \/ g.mark = "reset", Taken("other", k) \o w)
             = Arriving(Current)
    PROVE  ServerInv'
<1> DEFINE s == Receive(Bytes(Pieces))
           r == Receive(Bytes(Pieces'))
           n == handled
           v == Arriving(Current)
<1>1. StreamIs' /\ Standing(0)' /\ Taken("other", 0)' = <<>> /\ Undecided
  BY MessageTaken, TakesPacket DEF Sound
<1>2. pc' = "parse" /\ UNCHANGED <<sent, up>>
  BY DEF Advance
<1>3. s.msgs = SubSeq(Due, 1, n) /\ s.body = Taken("other", k)
      /\ Restarts(s, g) = (Told(k) \/ g.mark = "reset")
  BY DEF Served, Restarts
<1> HIDE DEF s, r
<1>4. /\ Ready(r) /\ r.body = <<>> /\ r.reset = FALSE
      /\ r.msgs = Append(s.msgs, Message(g.typ, Restarts(s, g), s.body \o w))
  <2>1. Got(s, r, g, w)
    BY <1>2, PieceReceived, Zenon DEF s, r
  <2> QED
    BY <2>1 DEF Got
<1>5. r.msgs = Append(SubSeq(Due, 1, n), v)
  BY <1>3, <1>4
<1>6. /\ Due \in Seq(Arrivals) /\ Len(Due) = Len(sent) /\ Len(sent) \in Nat
      /\ n \in 0..(Len(Due) - 1) /\ Due[n + 1] = v
  <2>1. /\ Due \in Seq(Arrivals) /\ Len(Due) = Len(sent) /\ Len(sent) \in Nat
        /\ \A i \in 1..Len(sent) : Due[i] = Arriving(sent[i])
    BY DueType DEF Sound
  <2>2. n \in 0..Len(sent) /\ n < Len(sent)
    BY <1>1 DEF Standing, Undecided
  <2>3. n \in 0..(Len(sent) - 1) /\ n + 1 \in 1..Len(sent)
    BY <2>1, <2>2
  <2> QED
    BY <2>1, <2>3 DEF Current
<1>7. SubSeq(Due, 1, n + 1) = Append(SubSeq(Due, 1, n), v)
  <2> DEFINE z == Due
  <2>1. z \in Seq(Arrivals) /\ n \in 0..(Len(z) - 1) /\ z[n + 1] = v
    BY <1>6
  <2> HIDE DEF z, v
  <2>2. SubSeq(z, 1, n + 1) = Append(SubSeq(z, 1, n), z[n + 1])
    BY <2>1, FirstOnes
  <2> QED
    BY <2>1, <2>2 DEF z
<1>8. Due' = Due
  BY <1>2 DEF Due
<1>9. Served(0)'
  <2>1. ~Told(0)'
    BY DEF Told, Trailing
  <2> QED
    BY <1>1, <1>4, <1>5, <1>7, <1>8, <2>1 DEF Served, r
<1> QED
  BY <1>1, <1>2, <1>9 DEF ServerInv

(* A packet that ends no message, written, gives the server a part of one. *)
LEMMA ServedPart ==
    ASSUME Sound, TypeOK', StreamIs, pc = "parse", NEW k \in Nat, Standing(k), Served(k),
           NEW h \in Complete, PassOther(h), ~h.eom
    PROVE  ServerInv'
<1> DEFINE p == Passed(h, <<>>)
           j == k + 1
           m == Current
           w == m.parts[j]
           s == Receive(Bytes(Pieces))
           r == Receive(Bytes(Pieces'))
<1>1. /\ h.typ = "other" /\ Advance(h) /\ out' = Append(out, p) /\ handled' = handled
      /\ UNCHANGED <<sqlChunks, rpcChunks>> /\ pc' = "parse" /\ UNCHANGED <<sent, up>>
  <2>1. handled' = handled + 0 /\ handled \in Nat
    BY DEF PassOther, Sound, TypeOK
  <2> QED
    BY <2>1 DEF PassOther, Loop, Advance
<1>2. /\ m \in Messages /\ j \in 1..Len(m.parts) /\ h = HeaderOf(m, j) /\ m.typ = "other"
      /\ Undecided /\ SubSeq(rest, 1, h.len) = Packet(m, j) /\ j \in Nat /\ j = k + 1
  BY <1>1, TakesPacket, ChunksAre DEF Sound
<1>3. /\ StreamIs' /\ Standing(j)'
      /\ Taken("other", j)' = Upto(m.parts, j)
  BY <1>1, <1>2, PartTaken DEF Sound
<1>4. p \in Piece /\ p.cells = Packet(m, j)
  BY <1>2, EmptySeq, PassedType DEF Passed, Sound
<1> HIDE DEF p, j, m
<1>5. h \in Header /\ h \notin Symbols /\ w \in Seq(Cell) /\ h.len = 1 + Len(w)
  BY <1>2, PacketIs
<1>6. p.cells = <<h>> \o w
  BY <1>2, <1>4 DEF Packet, HeaderOf
<1>7. s.msgs = SubSeq(Due, 1, handled) /\ s.body = Upto(m.parts, k) /\ (s.reset <=> Told(k))
  BY <1>2 DEF Served, Taken, m
<1> HIDE DEF s, r, w
<1>8. Got(s, r, h, w)
  BY <1>1, <1>4, <1>5, <1>6, PieceReceived, Zenon DEF s, r
<1>9. Upto(m.parts, j) = Upto(m.parts, k) \o w
  <2> DEFINE parts == m.parts
  <2>1. parts \in Seq(Seq(Cell)) /\ j \in 1..Len(parts) /\ parts[j] = w
    BY <1>2, MessageType DEF w
  <2> HIDE DEF parts
  <2>2. Upto(parts, j) = Upto(parts, k) \o parts[j]
    BY <1>2, <2>1, UptoNext
  <2> QED
    BY <2>1, <2>2 DEF parts
<1>10. Ready(r) /\ r.msgs = SubSeq(Due, 1, handled) /\ r.body = Taken("other", j)'
  BY <1>3, <1>7, <1>8, <1>9 DEF Got
<1>12. r.reset <=> Told(j)'
  <2>1. Undecided' /\ m = Current' /\ j # 0
    BY <1>1, <1>2, SameMessages DEF m
  <2>2. Told(j)' <=> m.reset
    BY <1>2, <2>1 DEF Told, Trailing
  <2>3. r.reset = Restarts(s, h)
    BY <1>8 DEF Got
  <2>4. h.mark = "reset" <=> k = 0 /\ m.reset
    BY <1>2 DEF HeaderOf, MarkOf
  <2>5. Told(k) <=> k # 0 /\ m.reset
    BY <1>2 DEF Told, Trailing, m
  <2> QED
    BY <1>7, <2>2, <2>3, <2>4, <2>5 DEF Restarts
<1>11. Served(j)'
  <2>1. Due' = Due
    BY <1>1 DEF Due
  <2> QED
    BY <1>1, <1>10, <1>12, <2>1 DEF Served, r
<1> QED
  BY <1>1, <1>2, <1>3, <1>11 DEF ServerInv

(* The text of a batch, or the payload of a call, that is handed on whole. *)
LEMMA WholeIs ==
    ASSUME Sound, StreamIs, pc = "parse", NEW k \in Nat, Standing(k),
           NEW h \in Complete, h.eom
    PROVE  /\ Current \in Messages
           /\ h.typ = "batch" => Gathered(sqlChunks, h) = FlattenSeq(Current.parts)
           /\ h.typ = "other" => Taken("other", k) \o Current.parts[k + 1]
                                   = FlattenSeq(Current.parts)
           /\ h.typ = "rpc" /\ Len(Current.parts) = 1 =>
                 k + 1 = 1 /\ Current.parts[k + 1] = FlattenSeq(Current.parts)
<1> DEFINE m == Current
           j == k + 1
           parts == m.parts
<1>1. /\ m \in Messages /\ j \in 1..Len(parts) /\ Undecided /\ j = Len(parts)
      /\ h.typ = m.typ /\ j = k + 1
      /\ h.typ = "batch" => Gathered(sqlChunks, h) = Upto(parts, j)
  BY TakesPacket, ChunksAre DEF Sound
<1>2. Taken("other", k) = IF m.typ = "other" THEN Upto(parts, k) ELSE <<>>
  BY <1>1 DEF Taken
<1>3. parts \in Seq(Seq(Cell))
  BY <1>1, MessageType
<1> HIDE DEF m, j, parts
<1>4. Upto(parts, j) = FlattenSeq(parts)
  BY <1>1, <1>3, FirstOnes DEF Upto
<1>5. Upto(parts, j) = Upto(parts, k) \o parts[j] /\ parts[j] \in Seq(Cell)
  <2>0. parts \in Seq(Seq(Cell)) /\ k \in Nat /\ j = k + 1 /\ j \in 1..Len(parts)
    BY <1>1, <1>3
  <2>1. Upto(parts, j) = Upto(parts, k) \o parts[j]
    BY ONLY <2>0, UptoNext
  <2>2. parts[j] \in Seq(Cell)
    BY <1>1, <1>3, ElementOfSeq
  <2> QED
    BY <2>1, <2>2
<1>6. Len(parts) = 1 => j = 1 /\ parts[j] = FlattenSeq(parts)
  <2> SUFFICES ASSUME Len(parts) = 1 PROVE j = 1 /\ parts[j] = FlattenSeq(parts)
    OBVIOUS
  <2>1. j = 1 /\ k = 0
    BY <1>1
  <2>2. Upto(parts, 0) = <<>>
    BY <1>3, UptoNone
  <2>3. <<>> \o parts[j] = parts[j]
    BY <1>5, ConcatEmptySeq
  <2> QED
    BY <1>4, <1>5, <2>1, <2>2, <2>3
<1> QED
  BY <1>1, <1>2, <1>4, <1>5, <1>6 DEF m, j, parts

(* Taking a packet in a dry run. *)
LEMMA ServerParse ==
    ASSUME Sound, TypeOK', DryRun, ServerInv, NEW h \in Complete, ParsePacket(h)
    PROVE  ServerInv'
<1>1. PICK k \in Nat : Standing(k) /\ Served(k)
  BY DEF ServerInv
<1>2. StreamIs
  BY DEF ServerInv
<1>3. pc = "parse"
  BY DEF ParsePacket, BatchPart, EmptyBatch, BlockBatch, ForwardBatch, BatchFails, BatchEnd,
         RpcPart, BlockRpc, RewriteRpc, PassRpc, RpcNotSeen, RpcFails, RpcEnd, PassOther, Loop
<1>4. ~BatchFails(h) /\ ~RpcNotSeen(h) /\ ~RpcFails(h)
  BY DEF Sound, BatchFails, RpcNotSeen, RpcFails, Raise
<1> DEFINE m == Current
           j == k + 1
           part == m.parts[j]
<1>5. /\ m \in Messages /\ h.typ = m.typ /\ Undecided /\ HandedOn(m) /\ h = HeaderOf(m, j)
      /\ j \in 1..Len(m.parts) /\ SubSeq(rest, 1, h.len) = Packet(m, j)
      /\ h.eom <=> (j = Len(m.parts))
  BY <1>1, <1>2, <1>3, TakesPacket, ChunksAre DEF Sound, DryRun
<1> HIDE DEF m, j
<1>6. h \in Header /\ h \notin Symbols /\ part \in Seq(Cell) /\ h.len = 1 + Len(part)
  BY <1>5, PacketIs
<1>a. Packet(m, j) = <<h>> \o part
  BY <1>5 DEF Packet, HeaderOf
<1>b. Arriving(m) = Message(m.typ, m.reset /\ m.typ # "batch", FlattenSeq(m.parts))
  BY DEF Arriving
<1>c. /\ m.typ # "other" => ~Told(k)
      /\ m.typ = "other" => (Told(k) <=> k # 0 /\ m.reset)
      /\ h.mark = "reset" <=> k = 0 /\ m.reset
  BY <1>5 DEF Told, Trailing, m, HeaderOf, MarkOf, j
<1>7. CASE BatchPart(h) \/ RpcPart(h)
  <2>1. /\ ~h.eom /\ UNCHANGED <<out, handled, up, sent>> /\ Advance(h) /\ h.typ # "other"
        /\ sqlChunks' = IF h.typ = "batch" THEN Gathered(sqlChunks, h) ELSE sqlChunks
        /\ rpcChunks' = IF h.typ = "rpc" THEN Gathered(rpcChunks, h) ELSE rpcChunks
        /\ pc' = "parse"
    BY <1>7 DEF BatchPart, RpcPart, Loop, Advance, Gathered
  <2>2. /\ StreamIs' /\ Standing(j)' /\ j \in Nat
        /\ Taken("other", j)' = <<>>
    BY <1>1, <1>2, <1>3, <1>5, <2>1, PartTaken DEF Sound, m, j
  <2>3. Taken("other", k) = <<>> /\ Pieces' = Pieces
    BY <1>5, <2>1 DEF Taken, Pieces, m
  <2>5. ~Told(k) /\ ~Told(j)'
    <3>1. Current'.typ # "other"
      BY <1>5, <2>1, SameMessages DEF m
    <3> QED
      BY <1>5, <1>c, <2>1, <3>1 DEF Told, Trailing
  <2>4. Served(j)'
    BY <1>1, <2>1, <2>2, <2>3, <2>5, ServedKept
  <2> QED
    BY <2>1, <2>2, <2>4 DEF ServerInv
<1>8. CASE EmptyBatch(h) \/ BlockBatch(h) \/ ForwardBatch(h)
  <2> DEFINE text == FlattenSeq(m.parts)
  <2>1. /\ h.eom /\ h.typ = "batch" /\ Advance(h) /\ handled' = handled + 1
        /\ sqlChunks' = <<>> /\ rpcChunks' = rpcChunks
    BY <1>8 DEF EmptyBatch, BlockBatch, ForwardBatch, BatchEnd, Loop
  <2>2. /\ Gathered(sqlChunks, h) = text /\ text # <<>> /\ text \in Seq(Cell)
        /\ \A i \in DOMAIN text : text[i] \notin Undecodable
        /\ 1 + Len(text) < LenMod
    <3>1. Gathered(sqlChunks, h) = text
      BY <1>1, <1>2, <1>3, <2>1, WholeIs DEF m
    <3>2. text \in Seq(Cell)
      BY <1>5, MessageType, FlattenType
    <3> QED
      BY <1>5, <2>1, <3>1, <3>2 DEF HandedOn
  <2> HIDE DEF text
  <2>3. BatchText(h) = text /\ ~Enforced(text) /\ Corrected(text) = text
    BY <2>2 DEF BatchText, Text, Enforced, Corrected, DryRun
  <2> DEFINE n == Len(text)
             g == [typ |-> "batch", eom |-> TRUE, mark |-> "first", len |-> 1 + n]
             p == Rebuilt("batch", text, text)
  <2>4. out' = Append(out, p)
    BY <1>8, <2>2, <2>3 DEF EmptyBatch, BlockBatch, ForwardBatch
  <2>5. /\ p \in Piece
        /\ p.cells = <<[typ |-> "batch", eom |-> TRUE, mark |-> "first",
                        len |-> (1 + n) % LenMod]>> \o text
    <3>1. "batch" \in Types
      BY DEF Types
    <3>2. p \in Piece
      BY <2>2, <3>1, RebuiltType
    <3> QED
      BY <3>2 DEF Rebuilt
  <2>6. n \in Nat /\ (1 + n) % LenMod = 1 + n
    <3>1. n \in Nat
      BY <2>2, LenProperties
    <3>2. LenMod \in Nat \ {0} /\ 1 + n < LenMod
      BY <2>2, BoundsAssumption
    <3> HIDE DEF n
    <3> QED
      BY <3>1, <3>2
  <2>7. g \in Header /\ g.typ = "batch" /\ g.eom /\ g.mark = "first" /\ g.len = 1 + Len(text)
    <3>1. 1 + n \in Nat
      BY <2>6
    <3> QED
      BY <3>1 DEF Header, Types, Marks
  <2>8. g \notin Symbols
    BY <2>7, SuggestionsAssumption
  <2>9. p.cells = <<g>> \o text
    BY <2>5, <2>6
  <2> HIDE DEF p, g
  <2>10. Message(g.typ, Told(k) \/ g.mark = "reset", Taken("other", k) \o text) = Arriving(m)
    <3>1. Taken("other", k) = <<>>
      BY <1>5, <2>1 DEF Taken, m
    <3>2. <<>> \o text = text
      BY <2>2, ConcatEmptySeq
    <3> QED
      <4>1. m.typ = "batch" /\ g.typ = "batch"
        BY <1>5, <2>1, <2>7
      <4>2. (Told(k) \/ g.mark = "reset") = (m.reset /\ m.typ # "batch")
        BY <1>c, <2>7, <4>1
      <4> QED
        BY <1>b, <3>1, <3>2, <4>1, <4>2 DEF text
  <2> QED
    BY <1>1, <1>2, <1>3, <2>1, <2>2, <2>4, <2>5, <2>7, <2>8, <2>9, <2>10, ServedEnd DEF m
<1>9. CASE BlockRpc(h) \/ RewriteRpc(h) \/ PassRpc(h)
  <2>1. /\ h.eom /\ h.typ = "rpc" /\ Advance(h) /\ handled' = handled + 1
        /\ rpcChunks' = <<>> /\ sqlChunks' = sqlChunks
    BY <1>9 DEF BlockRpc, RewriteRpc, PassRpc, RpcEnd, Loop
  <2> DEFINE p == Passed(h, Gathered(rpcChunks, h))
  <2>2. out' = Append(out, p)
    BY <1>9 DEF BlockRpc, RewriteRpc, PassRpc, RpcDropped, RpcRewritten, DryRun
  <2>3. p \in Piece
    <3>1. Gathered(rpcChunks, h) \in Seq(Cell)
      BY CompleteType, ConcatProperties DEF Gathered, Sound, TypeOK
    <3> QED
      BY <3>1, PassedType DEF Sound
  <2>4. p.cells = <<h>> \o part
    BY <1>5, <1>a DEF Passed
  <2> HIDE DEF p
  <2>5. Message(h.typ, Told(k) \/ h.mark = "reset", Taken("other", k) \o part) = Arriving(m)
    <3>1. Taken("other", k) = <<>>
      BY <1>5, <2>1 DEF Taken, m
    <3>2. <<>> \o part = part
      BY <1>6, ConcatEmptySeq
    <3>3. part = FlattenSeq(m.parts)
      BY <1>1, <1>2, <1>3, <1>5, <2>1, WholeIs DEF m, j, HandedOn
    <3> QED
      <4>1. m.typ = "rpc" /\ h.typ = "rpc" /\ k = 0
        BY <1>1, <1>2, <1>3, <1>5, <2>1, WholeIs DEF m, j, HandedOn
      <4>2. (Told(k) \/ h.mark = "reset") = (m.reset /\ m.typ # "batch")
        BY <1>5, <1>c, <4>1
      <4> QED
        BY <1>b, <3>1, <3>2, <3>3, <4>1, <4>2
  <2> HIDE DEF part
  <2> QED
    BY <1>1, <1>2, <1>3, <1>6, <2>1, <2>2, <2>3, <2>4, <2>5, ServedEnd DEF m
<1>10. CASE PassOther(h) /\ h.eom
  <2>1. /\ h.typ = "other" /\ Advance(h) /\ handled' = handled + 1
        /\ UNCHANGED <<sqlChunks, rpcChunks>>
    BY <1>10 DEF PassOther, Loop
  <2> DEFINE p == Passed(h, <<>>)
  <2>2. out' = Append(out, p)
    BY <1>10 DEF PassOther
  <2>3. p \in Piece
    BY EmptySeq, PassedType DEF Sound
  <2>4. p.cells = <<h>> \o part
    BY <1>5, <1>a DEF Passed
  <2> HIDE DEF p
  <2>5. Message(h.typ, Told(k) \/ h.mark = "reset", Taken("other", k) \o part) = Arriving(m)
    <3>1. Taken("other", k) \o part = FlattenSeq(m.parts)
      BY <1>1, <1>2, <1>3, <1>10, <2>1, WholeIs DEF m, j
    <3> QED
      <4>1. m.typ = "other" /\ h.typ = "other"
        BY <1>5, <2>1
      <4>2. (Told(k) \/ h.mark = "reset") = (m.reset /\ m.typ # "batch")
        BY <1>5, <1>c, <4>1
      <4> QED
        BY <1>b, <3>1, <4>1, <4>2
  <2> HIDE DEF part
  <2> QED
    BY <1>1, <1>2, <1>3, <1>6, <1>10, <2>1, <2>2, <2>3, <2>4, <2>5, ServedEnd DEF m
<1>11. CASE PassOther(h) /\ ~h.eom
  BY <1>1, <1>2, <1>3, <1>11, ServedPart
<1> QED
  BY <1>4, <1>7, <1>8, <1>9, <1>10, <1>11 DEF ParsePacket

(* In a dry run no step breaks the invariant. *)
LEMMA ServerStep ==
    ASSUME Sound, TypeOK', DryRun, ~(OutLen > MaxRewrite), ServerInv, [Next]_vars
    PROVE  ServerInv'
<1>1. PICK k \in Nat : Standing(k) /\ Served(k)
  BY DEF ServerInv
<1>2. CASE ClientSend
  <2>1. PICK m \in Messages : sent' = Append(sent, m) /\ stream' = stream \o Wire(m)
    BY <1>2 DEF ClientSend
  <2>2. UNCHANGED <<rd, pc, cbuf, rest, out, up, sqlChunks, rpcChunks, handled>>
    BY <1>2 DEF ClientSend
  <2>3. /\ Standing(k)' /\ Taken("other", k)' = Taken("other", k)
        /\ Wires' = Append(Wires, Wire(m))
    BY <1>1, <2>1, <2>2, StandingWhenSending DEF Sound
  <2>4. StreamIs'
    BY <2>1, <2>3, StreamGrows DEF Sound, ServerInv
  <2>5. SubSeq(Due', 1, handled') = SubSeq(Due, 1, handled)
    BY <1>1, <2>1, <2>2, DueMore DEF Sound, Standing
  <2>6. Pieces' = Pieces
    BY <2>2 DEF Pieces
  <2>7. Served(k)'
    <3>1. Told(k)' <=> Told(k)
      BY <1>1, <2>1, <2>2, StandingWhenSending DEF Sound, Told, Trailing
    <3>2. Receive(Bytes(Pieces))' = Receive(Bytes(Pieces'))
      BY DEF Receive, Bytes, Takes, Checked, Within, Connected
    <3> QED
      BY <1>1, <2>3, <2>5, <2>6, <3>1, <3>2 DEF Served
  <2> QED
    BY <2>2, <2>3, <2>4, <2>7 DEF ServerInv
<1>3. CASE \E h \in Complete : ParsePacket(h)
  BY <1>3, ServerParse
<1>4. CASE ReadData \/ WriteOut \/ Eof \/ ClientClose \/ UNCHANGED vars
  <2>1. /\ UNCHANGED <<sent, handled>> /\ StreamIs'
        /\ Pieces' = Pieces /\ (pc' # "parse" => out' = <<>>)
        /\ Standing(k)' /\ Taken("other", k)' = Taken("other", k)
    BY <1>1, <1>4, StandingAside DEF ServerInv
  <2>3. Told(k)' <=> Told(k)
    BY <2>1, <1>1, <1>4, StandingAside, SameMessages DEF ServerInv, Told
  <2>2. Served(k)'
    BY <1>1, <2>1, <2>3, ServedKept
  <2> QED
    BY <2>1, <2>2 DEF ServerInv
<1>5. ~SkipWrite /\ ~SkipFails
  BY DEF SkipWrite, SkipFails
<1>6. ~RawForward /\ ~RawFails
  BY DEF Sound, BufferInv, RawForward, RawFails
<1> QED
  BY <1>2, <1>3, <1>4, <1>5, <1>6 DEF Next, Pipe, Closed

(* At the start the server has nothing. *)
LEMMA InitServer == Init => ServerInv
<1> SUFFICES ASSUME Init PROVE ServerInv
  OBVIOUS
<1>1. GateInv
  BY InitImplementsGate
<1>2. PICK k \in Nat : Standing(k)
  BY <1>1 DEF GateInv
<1>3. sent = <<>> /\ up = <<>> /\ out = <<>> /\ handled = 0 /\ DOMAIN <<>> = 1..0
  BY EmptySeq DEF Init
<1>4. Pieces = <<>>
  BY <1>3, ConcatEmptySeq, EmptySeq DEF Pieces
<1>5. Bytes(<<>>) = <<>>
  <2>1. [i \in DOMAIN <<>> |-> <<>>[i].cells] = <<>>
    BY <1>3
  <2>2. FlattenSeq(<<>>) = <<>>
    BY EmptySeq DEF FlattenSeq
  <2> QED
    BY <2>1, <2>2 DEF Bytes
<1>6. Receive(Bytes(Pieces)) = Connected
  BY <1>4, <1>5, ReceiveNext
<1>7. /\ Ready(Connected) /\ Connected.msgs = <<>> /\ Connected.body = <<>>
      /\ Connected.reset = FALSE
  <2> DEFINE M == Seq([typ : Types, reset : BOOLEAN, body : Seq(Cell)])
             C == Seq(Cell)
             h == [typ |-> "other", eom |-> TRUE, mark |-> "first", len |-> 1]
  <2>1. Receiver = [msgs : M, body : C, reset : BOOLEAN, head : Header, left : Nat, lost : BOOLEAN]
    BY DEF Receiver
  <2>2. <<>> \in M /\ <<>> \in C /\ h \in Header
    BY EmptySeq DEF Header, Types, Marks
  <2>3. Connected = [msgs |-> <<>>, body |-> <<>>, reset |-> FALSE, left |-> 0, lost |-> FALSE,
                     head |-> h]
    BY DEF Connected
  <2> HIDE DEF M, C, h
  <2>4. Connected \in Receiver
    BY <2>1, <2>2, <2>3
  <2> QED
    BY <2>3, <2>4 DEF Ready
<1>8. SubSeq(Due, 1, 0) = <<>>
  <2>1. Due = <<>> /\ <<>> \in Seq(Arrivals)
    BY <1>3, EmptySeq DEF Due
  <2> QED
    BY <2>1, FirstOnes
<1>9. Taken("other", k) = <<>>
  BY <1>3, EmptySeq DEF Taken, Undecided
<1>11. ~Told(k)
  BY <1>3, EmptySeq DEF Told, Trailing, Undecided
<1>10. Served(k)
  BY <1>3, <1>6, <1>7, <1>8, <1>9, <1>11 DEF Served
<1> QED
  BY <1>1, <1>2, <1>3, <1>10 DEF GateInv, ServerInv

(* In a dry run - nothing enforced, the stores working, no output dropped for its
   length - the server gets the messages the client sent and nothing else, each with
   the type and payload it was sent with and in that order, however they were split
   into packets and the packets into reads, and with every request to reset the
   connection but those that came with a batch; that calls come in one packet and
   batches can be read and fit one packet is all it takes. *)
THEOREM DryRunIsTransparent ==
    ASSUME ~StoreMayFail, DryRun
    PROVE  Spec /\ [](~(OutLen > MaxRewrite)) => []Transparent
<1>1. TypeOK /\ BufferInv /\ NothingLostInBuffer => Sound
  BY DEF Sound
<1>2. Sound /\ TypeOK' /\ ~(OutLen > MaxRewrite) /\ ServerInv /\ [Next]_vars => ServerInv'
  BY ServerStep
<1>3. Init => ServerInv
  BY InitServer
<1>4. ServerInv => Transparent
  BY DEF ServerInv, Served, Transparent, Pieces
<1> QED
  BY <1>1, <1>2, <1>3, <1>4, TypeCorrect, BufferInvariance, BufferIsExact, PTL DEF Spec
=============================================================================
