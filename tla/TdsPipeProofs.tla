--------------------------- MODULE TdsPipeProofs ---------------------------
(***************************************************************************)
(* Theorems about the client-to-server pipe, for every vocabulary, rules   *)
(* file, message set and bound.                                            *)
(***************************************************************************)
EXTENDS TdsPipe, ListTheorems

-----------------------------------------------------------------------------
(***************************************************************************)
(* Framing.                                                                *)
(***************************************************************************)
\* The byte after a packet, if there is one, is the header of the next.
Framed == {w \in Seq(Cell) :
    /\ w # <<>> => w[1] \notin Symbols
    /\ \A i \in DOMAIN w : w[i] \notin Symbols =>
          /\ w[i].len \in Nat \ {0}
          /\ i + w[i].len <= Len(w) + 1
          /\ i + w[i].len <= Len(w) => w[i + w[i].len] \notin Symbols}

(* A client's packet is framed. *)
LEMMA PacketIsFramed ==
    ASSUME NEW m \in Messages, NEW i \in DOMAIN m.parts
    PROVE  Packet(m, i) \in Framed
<1> DEFINE part == m.parts[i]
           n == Len(part)
           h == [typ |-> m.typ, eom |-> i = Len(m.parts), mark |-> MarkOf(m, i),
                 len |-> 1 + n]
           w == Packet(m, i)
<1>1. part \in Seq(Symbols) /\ m.typ \in Types /\ MarkOf(m, i) \in Marks
  BY WireAssumption, ElementOfSeq, LenProperties DEF MarkOf, Marks
<1>2. n \in Nat /\ \A k \in 1..n : part[k] \in Symbols
  BY <1>1, LenProperties, ElementOfSeq
<1>3. h \in Header /\ h \notin Symbols /\ h.len = n + 1
  <2>1. h \in Header /\ h.len = n + 1
    BY <1>1, <1>2 DEF Header
  <2>2. \A s \in Symbols : s \notin Header
    BY SuggestionsAssumption
  <2> HIDE DEF h
  <2> QED
    BY <2>1, <2>2
<1>4. w = <<h>> \o part
  BY DEF Packet
<1> HIDE DEF w, h, n, part
<1>5. <<h>> \in Seq(Cell) /\ part \in Seq(Cell) /\ Len(<<h>>) = 1 /\ <<h>>[1] = h
  BY <1>1, <1>3 DEF Cell
<1>6. /\ w \in Seq(Cell) /\ Len(w) = n + 1 /\ DOMAIN w = 1..(n + 1)
      /\ w[1] = h
      /\ \A k \in 2..(n + 1) : w[k] = part[k - 1]
  BY <1>2, <1>4, <1>5, ConcatProperties, LenProperties DEF n
<1>7. \A k \in 2..(n + 1) : w[k] \in Symbols
  BY <1>2, <1>6
<1>8. ASSUME NEW k \in DOMAIN w, w[k] \notin Symbols
      PROVE  /\ w[k].len \in Nat \ {0}
             /\ k + w[k].len = Len(w) + 1
  <2>1. k = 1
    BY <1>2, <1>6, <1>7, <1>8
  <2> QED
    BY <1>2, <1>3, <1>6, <2>1
<1>9. \A k \in DOMAIN w : w[k] \notin Symbols =>
          /\ w[k].len \in Nat \ {0}
          /\ k + w[k].len <= Len(w) + 1
          /\ ~(k + w[k].len <= Len(w))
  BY <1>2, <1>6, <1>8
<1> QED
  BY <1>3, <1>6, <1>9 DEF Framed, w

(* One framed stream after another is a framed stream. *)
LEMMA FramedConcat == \A a, b \in Framed : a \o b \in Framed
<1> SUFFICES ASSUME NEW a \in Framed, NEW b \in Framed PROVE a \o b \in Framed
  OBVIOUS
<1> DEFINE w == a \o b
           n == Len(a)
           k == Len(b)
<1>1. /\ a \in Seq(Cell) /\ b \in Seq(Cell)
      /\ n \in Nat /\ k \in Nat /\ DOMAIN a = 1..n /\ DOMAIN b = 1..k
  BY LenProperties DEF Framed
<1>2. /\ w \in Seq(Cell) /\ Len(w) = n + k /\ DOMAIN w = 1..(n + k)
      /\ \A i \in 1..n : w[i] = a[i]
      /\ \A i \in (n + 1)..(n + k) : w[i] = b[i - n]
  BY <1>1, ConcatProperties, LenProperties
<1>3. /\ n # 0 => a[1] \notin Symbols
      /\ k # 0 => b[1] \notin Symbols
  BY <1>1, EmptySeq DEF Framed
<1>4. /\ \A i \in 1..n : a[i] \notin Symbols =>
            /\ a[i].len \in Nat \ {0} /\ i + a[i].len <= n + 1
            /\ i + a[i].len <= n => a[i + a[i].len] \notin Symbols
      /\ \A i \in 1..k : b[i] \notin Symbols =>
            /\ b[i].len \in Nat \ {0} /\ i + b[i].len <= k + 1
            /\ i + b[i].len <= k => b[i + b[i].len] \notin Symbols
  BY <1>1 DEF Framed
<1> HIDE DEF w, n, k
<1>5. n + 1 <= n + k => w[n + 1] \notin Symbols
  BY <1>1, <1>2, <1>3
<1>6. w # <<>> => w[1] \notin Symbols
  <2>1. CASE n # 0
    BY <1>1, <1>2, <1>3, <2>1
  <2>2. CASE n = 0 /\ k # 0
    BY <1>1, <1>2, <1>5, <2>2
  <2>3. CASE n = 0 /\ k = 0
    BY <1>2, <2>3, EmptySeq
  <2> QED
    BY <2>1, <2>2, <2>3
<1>7. ASSUME NEW i \in 1..(n + k), w[i] \notin Symbols
      PROVE  /\ w[i].len \in Nat \ {0}
             /\ i + w[i].len <= n + k + 1
             /\ i + w[i].len <= n + k => w[i + w[i].len] \notin Symbols
  <2>1. CASE i \in 1..n
    <3> DEFINE l == a[i].len
    <3>1. w[i] = a[i] /\ l \in Nat \ {0} /\ i + l <= n + 1
          /\ (i + l <= n => a[i + l] \notin Symbols)
      BY <1>2, <1>4, <1>7, <2>1
    <3> HIDE DEF l
    <3>2. i + l <= n => w[i + l] \notin Symbols
      BY <1>1, <1>2, <2>1, <3>1
    <3>3. i + l = n + 1 /\ i + l <= n + k => w[i + l] \notin Symbols
      BY <1>5
    <3>4. /\ i + l <= n + k + 1
          /\ i + l <= n + k => w[i + l] \notin Symbols
      BY <1>1, <2>1, <3>1, <3>2, <3>3
    <3> QED
      BY <3>1, <3>4 DEF l
  <2>2. CASE i \in (n + 1)..(n + k)
    <3> DEFINE j == i - n
               l == b[j].len
    <3>1. j \in 1..k /\ i = n + j /\ w[i] = b[j]
      BY <1>1, <1>2, <2>2
    <3> HIDE DEF j
    <3>2. l \in Nat \ {0} /\ j + l <= k + 1 /\ (j + l <= k => b[j + l] \notin Symbols)
      BY <1>4, <1>7, <3>1
    <3> HIDE DEF l
    <3>3. i + l <= n + k => w[i + l] = b[j + l] /\ j + l <= k
      <4>1. ASSUME i + l <= n + k
            PROVE  i + l \in (n + 1)..(n + k) /\ (i + l) - n = j + l /\ j + l <= k
        BY <1>1, <3>1, <3>2, <4>1
      <4> QED
        BY <1>2, <4>1
    <3>4. i + l <= n + k + 1
      BY <1>1, <3>1, <3>2
    <3> QED
      BY <3>1, <3>2, <3>3, <3>4 DEF l
  <2> QED
    BY <1>1, <2>1, <2>2
<1> QED
  BY <1>2, <1>6, <1>7 DEF Framed, w

(* So is what a client sends for a message. *)
LEMMA WireIsFramed == \A m \in Messages : Wire(m) \in Framed
<1> SUFFICES ASSUME NEW m \in Messages PROVE Wire(m) \in Framed
  OBVIOUS
<1> DEFINE packets == [i \in DOMAIN m.parts |-> Packet(m, i)]
<1>1. DOMAIN m.parts = 1..Len(m.parts) /\ Len(m.parts) \in Nat
  BY WireAssumption, LenProperties
<1>2. packets \in [1..Len(m.parts) -> Framed]
  BY <1>1, PacketIsFramed
<1>3. packets \in Seq(Framed)
  BY <1>1, <1>2, SeqDef
<1>4. <<>> \in Framed
  BY EmptySeq DEF Framed
<1>5. FlattenSeq(packets) \in Framed
  <2> HIDE DEF packets
  <2> QED
    BY <1>3, <1>4, FramedConcat, FlattenKeeps
<1> QED
  BY <1>5 DEF Wire

-----------------------------------------------------------------------------
(***************************************************************************)
(* What the decision operators return.                                     *)
(***************************************************************************)

(* Decoding a payload yields text, in latin-1 as in UTF-16LE. *)
LEMMA TextType ==
    ASSUME NEW payload \in Seq(Cell)
    PROVE  Text(payload) \in Seq(Cell)
<1>1. Len(payload) \in Nat
  BY LenProperties
<1>2. Garbled \in Cell
  BY SuggestionsAssumption DEF Cell
<1>3. [i \in 1..(2 * Len(payload)) |-> Garbled] \in Seq(Cell)
  BY <1>1, <1>2
<1> QED
  BY <1>3 DEF Text

(* Whatever the statement, its values are symbols that stand for a column's. *)
LEMMA ValuesAreSymbols ==
    ASSUME NEW text \in Seq(Cell)
    PROVE  \A i \in Values(text) : i \in 1..Len(text) /\ text[i] \in Symbols
<1>1. /\ Grouped(text) \subseteq {i \in DOMAIN text : Column(text[i]) # None}
      /\ Assigned(text) \subseteq {i \in DOMAIN text : Column(text[i]) # None}
  BY DEF Grouped, Assigned
<1>2. FirstGroup(text) \subseteq Grouped(text)
  BY DEF FirstGroup
<1>3. Values(text) \in {Grouped(text), FirstGroup(text), Assigned(text)}
  <2>1. CASE IsInsert(text) /\ AllRows(text)
    BY <2>1 DEF Values
  <2>2. CASE IsInsert(text) /\ ~AllRows(text)
    BY <2>2 DEF Values
  <2>3. CASE ~IsInsert(text)
    BY <2>3 DEF Values
  <2> QED
    BY <2>1, <2>2, <2>3
<1>4. \A i \in Values(text) : i \in DOMAIN text /\ Column(text[i]) # None
  BY <1>1, <1>2, <1>3
<1>5. \A c : Column(c) # None => c \in Symbols
  BY DEF Column
<1> QED
  BY <1>4, <1>5, LenProperties

(* A value the normalizer changes has a suggestion. *)
LEMMA CorrectableHasSuggestion ==
    ASSUME NEW text \in Seq(Cell), NEW i \in Correctable(text)
    PROVE  /\ i \in Values(text) /\ i \in 1..Len(text)
           /\ Suggest[text[i]] \in Symbols
<1>1. i \in Values(text) /\ Suggest[text[i]] # None
  BY DEF Correctable
<1> QED
  BY <1>1, ValuesAreSymbols, SuggestionsAssumption

(* Every value is written again, as it was or as its suggestion, and nothing else. *)
LEMMA ReencodedIs ==
    ASSUME NEW text \in Seq(Cell)
    PROVE  /\ Reencoded(text) \in Seq(Cell) /\ Len(Reencoded(text)) = Len(text)
           /\ \A i \in 1..Len(text) :
                 Reencoded(text)[i] =
                     IF i \in Correctable(text) THEN Requote[Suggest[text[i]]]
                     ELSE IF i \in Values(text) THEN Requote[text[i]] ELSE text[i]
<1> DEFINE values    == Values(text)
           corrected == Correctable(text)
           new == [i \in 1..Len(text) |->
                     CASE i \in corrected          -> Requote[Suggest[text[i]]]
                       [] i \in values \ corrected -> Requote[text[i]]
                       [] OTHER                    -> text[i]]
<1>1. Len(text) \in Nat /\ \A i \in 1..Len(text) : text[i] \in Cell
  BY LenProperties, ElementOfSeq
<1>2. /\ \A i \in corrected : i \in values /\ Requote[Suggest[text[i]]] \in Cell
      /\ \A i \in values : Requote[text[i]] \in Cell
  BY CorrectableHasSuggestion, ValuesAreSymbols, SuggestionsAssumption DEF Cell
<1>3. Reencoded(text) = new
  BY DEF Reencoded
<1> HIDE DEF values, corrected
<1>4. ASSUME NEW i \in 1..Len(text)
      PROVE  /\ new[i] = IF i \in corrected THEN Requote[Suggest[text[i]]]
                         ELSE IF i \in values THEN Requote[text[i]] ELSE text[i]
             /\ new[i] \in Cell
  <2>1. CASE i \in corrected
    BY <1>2, <2>1
  <2>2. CASE i \notin corrected /\ i \in values
    BY <1>2, <2>2
  <2>3. CASE i \notin corrected /\ i \notin values
    BY <1>1, <2>3
  <2> QED
    BY <2>1, <2>2, <2>3
<1>5. DOMAIN new = 1..Len(text)
  OBVIOUS
<1> HIDE DEF new
<1>6. new \in Seq(Cell) /\ Len(new) = Len(text)
  <2>1. new = [i \in 1..Len(text) |-> new[i]]
    BY <1>3, <1>5 DEF new
  <2> QED
    BY <1>1, <1>4, <2>1
<1> QED
  BY <1>3, <1>4, <1>6 DEF values, corrected

(* Rewriting a statement yields text. *)
LEMMA CorrectedType ==
    ASSUME NEW text \in Seq(Cell)
    PROVE  Corrected(text) \in Seq(Cell)
<1> DEFINE new == Reencoded(text)
<1>1. new \in Seq(Cell) /\ Len(new) = Len(text)
  BY ReencodedIs
<1>2. Kept(text) \in SUBSET DOMAIN new
  <2>1. UpToValues(text) \subseteq 1..Len(text)
    BY ValuesAreSymbols, LenProperties DEF UpToValues
  <2> QED
    BY <1>1, <2>1, LenProperties DEF Kept
<1> HIDE DEF new
<1>3. Selected(new, Kept(text)) \in Seq(Cell)
  BY <1>1, <1>2, SelectedParts
<1>4. Rewrite(text) \in Seq(Cell)
  BY <1>3 DEF Rewrite, new
<1> QED
  BY <1>4 DEF Corrected

(* So does fitting parameters in place. *)
LEMMA FitInPlaceType ==
    ASSUME NEW body \in Seq(Cell)
    PROVE  FitInPlace(body) \in Seq(Cell)
<1>1. Len(body) \in Nat /\ \A i \in 1..Len(body) : body[i] \in Cell
  BY LenProperties, ElementOfSeq
<1>2. \A i \in Fittable(body) : body[i] \in Symbols /\ Fit[body[i]] # None
  BY DEF Fittable, Params, Column
<1>3. \A i \in Fittable(body) : Fit[body[i]] \in Cell
  BY <1>2, SuggestionsAssumption DEF Cell
<1> QED
  BY <1>1, <1>3 DEF FitInPlace

-----------------------------------------------------------------------------
(***************************************************************************)
(* What the loop takes from rest and puts into out.                        *)
(***************************************************************************)

(* A complete packet splits rest into the packet and the remainder. *)
LEMMA CompleteType ==
    ASSUME TypeOK, NEW h \in Complete
    PROVE  /\ h \in Header /\ h.len <= Len(rest)
           /\ Body(h) \in Seq(Cell)
           /\ SubSeq(rest, 1, h.len) \in Seq(Cell)
           /\ SubSeq(rest, h.len + 1, Len(rest)) \in Seq(Cell)
<1>1. rest \in Seq(Cell) /\ rest # <<>>
  BY DEF TypeOK, Complete
<1>2. Head(rest) \in Cell /\ Len(rest) \in Nat /\ \A i \in 1..Len(rest) : rest[i] \in Cell
  BY <1>1, HeadTailProperties, LenProperties, ElementOfSeq
<1>3. h \in HeaderAt(Head(rest)) /\ h.len <= Len(rest)
  BY DEF Complete
<1>4. h \in Header
  <2>1. CASE Head(rest) \in Symbols
    BY <2>1, <1>3, BoundsAssumption DEF HeaderAt, AnyHeader, Header, Marks
  <2>2. CASE Head(rest) \notin Symbols
    BY <2>2, <1>2, <1>3 DEF HeaderAt, Cell
  <2> QED
    BY <2>1, <2>2
<1>5. h.len \in Nat
  BY <1>4 DEF Header
<1>6. Body(h) \in Seq(Cell)
  BY <1>2, <1>3, <1>5, SubSeqProperties DEF Body
<1>7. SubSeq(rest, 1, h.len) \in Seq(Cell)
  BY <1>2, <1>3, <1>5, SubSeqProperties
<1>8. SubSeq(rest, h.len + 1, Len(rest)) \in Seq(Cell)
  BY <1>2, <1>3, <1>5, SubSeqProperties
<1> QED
  BY <1>3, <1>4, <1>6, <1>7, <1>8

(* A packet the pipe makes is a piece of output; its length field is a number. *)
LEMMA RebuiltType ==
    ASSUME NEW typ \in Types, NEW new \in Seq(Cell), NEW src \in Seq(Cell)
    PROVE  Rebuilt(typ, new, src) \in Piece
<1> DEFINE h == [typ |-> typ, eom |-> TRUE, mark |-> "first", len |-> (1 + Len(new)) % LenMod]
<1>1. (1 + Len(new)) % LenMod \in Nat
  BY LenProperties, BoundsAssumption
<1>2. h \in Cell
  BY <1>1 DEF Header, Cell, Marks
<1>3. <<h>> \o new \in Seq(Cell)
  BY <1>2, ConcatProperties
<1> QED
  BY <1>3 DEF Rebuilt, Piece

(* So is a packet it passes on. *)
LEMMA PassedType ==
    ASSUME TypeOK, NEW h \in Complete, NEW src \in Seq(Cell)
    PROVE  Passed(h, src) \in Piece
BY CompleteType DEF Passed, Piece, Header

-----------------------------------------------------------------------------
(***************************************************************************)
(* Counting.                                                               *)
(***************************************************************************)
(* Counting events leaves a table of counters a table of counters. *)
LEMMA TallyType ==
    ASSUME NEW table \in [Entries -> Nat], NEW S, IsFiniteSet(S), NEW E
    PROVE  Tally(table, S, E) \in [Entries -> Nat]
<1>1. \A e \in Entries : Cardinality({i \in S : E[i] = e}) \in Nat
  BY FS_Subset, FS_CardinalityType
<1> QED
  BY <1>1 DEF Tally

(* Counting fewer events on top of a smaller table keeps it smaller. *)
LEMMA TallyMonotone ==
    ASSUME NEW t1 \in [Entries -> Nat], NEW t2 \in [Entries -> Nat],
           NEW S1, NEW S2, S1 \subseteq S2, IsFiniteSet(S2), NEW E,
           \A e \in Entries : t1[e] <= t2[e]
    PROVE  \A e \in Entries : Tally(t1, S1, E)[e] <= Tally(t2, S2, E)[e]
<1> SUFFICES ASSUME NEW e \in Entries
             PROVE  Tally(t1, S1, E)[e] <= Tally(t2, S2, E)[e]
  OBVIOUS
<1> DEFINE A == {i \in S1 : E[i] = e}
           B == {i \in S2 : E[i] = e}
<1>1. IsFiniteSet(B) /\ A \subseteq B
  BY FS_Subset
<1>2. Cardinality(A) \in Nat /\ Cardinality(B) \in Nat /\ Cardinality(A) <= Cardinality(B)
  BY <1>1, FS_Subset, FS_CardinalityType
<1>3. t1[e] + Cardinality(A) <= t2[e] + Cardinality(B)
  BY <1>2
<1> QED
  BY <1>3 DEF Tally

(* Positions of a text are finitely many. *)
LEMMA PositionsFinite ==
    ASSUME NEW text \in Seq(Cell)
    PROVE  /\ IsFiniteSet({0} \cup Corrections(text))
           /\ IsFiniteSet(Params(text))
           /\ IsFiniteSet(Fittable(text))
<1>1. Len(text) \in Nat /\ DOMAIN text = 1..Len(text)
  BY LenProperties
<1>2. Correctable(text) \subseteq 0..Len(text)
  BY <1>1, CorrectableHasSuggestion
<1>3. {0} \cup Corrections(text) \subseteq 0..Len(text)
  BY <1>1, <1>2 DEF Corrections
<1>4. Params(text) \subseteq 0..Len(text) /\ Fittable(text) \subseteq 0..Len(text)
  BY <1>1 DEF Fittable, Params
<1>5. IsFiniteSet(0..Len(text))
  BY <1>1, FS_Interval
<1> QED
  BY <1>3, <1>4, <1>5, FS_Subset

(* Logging a batch keeps the types of the log and of the rule counters. *)
LEMMA LogBatchType ==
    ASSUME TypeOK, NEW text, NEW logged, NEW counted, IsFiniteSet(logged),
           counted \subseteq logged, LogBatch(text, logged, counted)
    PROVE  ruleHits' \in [Entries -> Nat] /\ audit' \in [Entries -> Nat]
<1> DEFINE E == [i \in 0..Len(text) |-> BatchEntry(text, i)]
           S == {i \in counted : E[i][2] # None}
<1> HIDE DEF E
<1>1. IsFiniteSet(S)
  BY FS_Subset
<1>2. audit' = Tally(audit, logged, E) /\ ruleHits' = Tally(ruleHits, S, E)
  BY DEF LogBatch, E
<1> QED
  BY <1>1, <1>2, TallyType DEF TypeOK

(* So does logging a call. *)
LEMMA LogRpcType ==
    ASSUME TypeOK, NEW body, NEW looked, NEW fixed, NEW counted,
           IsFiniteSet(looked), IsFiniteSet(fixed), counted \subseteq fixed,
           LogRpc(body, looked, fixed, counted)
    PROVE  ruleHits' \in [Entries -> Nat] /\ audit' \in [Entries -> Nat]
<1> DEFINE d == [i \in DOMAIN body |-> ParamDecision(body[i])]
           D == [i \in DOMAIN body |-> <<d[i].action, d[i].rule>>]
           F == [i \in DOMAIN body |-> <<"rpc_autocorrect_inplace", d[i].rule>>]
<1> HIDE DEF D, F
<1>1. /\ audit' = Tally(Tally(audit, looked, D), fixed, F)
      /\ ruleHits' = Tally(ruleHits, counted, F)
  BY DEF LogRpc, D, F
<1>2. IsFiniteSet(counted)
  BY FS_Subset
<1>3. Tally(audit, looked, D) \in [Entries -> Nat]
  BY TallyType DEF TypeOK
<1> QED
  BY <1>1, <1>2, <1>3, TallyType DEF TypeOK

-----------------------------------------------------------------------------
(***************************************************************************)
(* The type invariant.                                                     *)
(***************************************************************************)
(* The pipe starts well typed. *)
LEMMA InitTypeOK == Init => TypeOK
<1> SUFFICES ASSUME Init PROVE TypeOK
  OBVIOUS
<1>1. rd \in 0..Len(stream)
  BY EmptySeq DEF Init
<1>2. /\ metrics \in [Counters -> Nat]
      /\ ruleHits \in [Entries -> Nat] /\ audit \in [Entries -> Nat]
  BY DEF Init
<1> QED
  BY <1>1, <1>2, EmptySeq DEF Init, TypeOK

(* What every step of the loop over one packet has in common. *)
LEMMA AdvanceType ==
    ASSUME TypeOK, NEW h \in Complete, Advance(h)
    PROVE  /\ rest' \in Seq(Cell)
           /\ UNCHANGED <<sent, stream, shut, rd, pc, data, cbuf, up>>
BY CompleteType DEF Advance

(* Counting one thing keeps the table of counters. *)
LEMMA CountType ==
    ASSUME NEW m \in [Counters -> Nat], NEW c
    PROVE  [m EXCEPT ![c] = @ + 1] \in [Counters -> Nat]
<1> DEFINE n == [m EXCEPT ![c] = @ + 1]
<1>1. n = [d \in Counters |-> IF d = c THEN m[d] + 1 ELSE m[d]]
  OBVIOUS
<1>2. \A d \in Counters : m[d] \in Nat
  OBVIOUS
<1> HIDE DEF n
<1>3. \A d \in Counters : (IF d = c THEN m[d] + 1 ELSE m[d]) \in Nat
  BY <1>2
<1> QED
  BY <1>1, <1>3

(* The steps on SQL batches keep the types. *)
LEMMA BatchTypeOK ==
    ASSUME TypeOK, NEW h \in Complete,
           \/ BatchPart(h) \/ EmptyBatch(h) \/ BlockBatch(h) \/ ForwardBatch(h)
           \/ BatchFails(h)
    PROVE  TypeOK'
<1> DEFINE text  == BatchText(h)
           whole == Gathered(sqlChunks, h)
<1>1. sqlChunks \o Body(h) \in Seq(Cell) /\ whole \in Seq(Cell)
  BY CompleteType, ConcatProperties DEF TypeOK, Gathered
<1>2. text \in Seq(Cell) /\ Corrected(text) \in Seq(Cell)
  BY <1>1, TextType, CorrectedType DEF BatchText
<1>3. IsFiniteSet({0} \cup Corrections(text)) /\ IsFiniteSet({0})
  BY <1>2, PositionsFinite, FS_Singleton
<1> HIDE DEF text, whole
<1>4. CASE BatchPart(h)
  BY <1>4, <1>1, AdvanceType DEF BatchPart, stores, TypeOK
<1>5. CASE EmptyBatch(h)
  BY <1>5, AdvanceType DEF EmptyBatch, BatchEnd, stores, TypeOK
<1>6. CASE BlockBatch(h)
  <2>1. LogBatch(text, {0}, {0}) /\ Count("blocks")
    BY <1>6 DEF BlockBatch, text
  <2>2. ruleHits' \in [Entries -> Nat] /\ audit' \in [Entries -> Nat]
    BY <2>1, <1>3, LogBatchType
  <2>3. metrics' \in [Counters -> Nat]
    BY <2>1, CountType DEF Count, TypeOK
  <2>4. /\ Advance(h) /\ handled' = handled + 1 /\ UNCHANGED out
        /\ sqlChunks' = <<>> /\ UNCHANGED rpcChunks
    BY <1>6 DEF BlockBatch, BatchEnd
  <2>5. rest' \in Seq(Cell) /\ UNCHANGED <<sent, stream, shut, rd, pc, data, cbuf, up>>
    BY <2>4, AdvanceType
  <2> QED
    BY <2>2, <2>3, <2>4, <2>5 DEF TypeOK
<1>7. CASE ForwardBatch(h)
  <2>1. /\ LogBatch(text, {0} \cup Corrections(text), {0} \cup Corrections(text))
        /\ \/ /\ Count("gated_by_threshold")
              /\ out' = Append(out, Rebuilt("batch", text, whole))
           \/ /\ UNCHANGED metrics
              /\ out' = Append(out, Rebuilt("batch", Corrected(text), whole))
        /\ Advance(h) /\ handled' = handled + 1
        /\ sqlChunks' = <<>> /\ UNCHANGED rpcChunks
    BY <1>7 DEF ForwardBatch, BatchEnd, text, whole
  <2>2. ruleHits' \in [Entries -> Nat] /\ audit' \in [Entries -> Nat]
    BY <2>1, <1>3, LogBatchType
  <2>3. metrics' \in [Counters -> Nat]
    BY <2>1, CountType DEF Count, TypeOK
  <2>4. /\ Rebuilt("batch", text, whole) \in Piece
        /\ Rebuilt("batch", Corrected(text), whole) \in Piece
    BY <1>1, <1>2, RebuiltType DEF Types
  <2>5. PICK new \in Piece : out' = Append(out, new)
    BY <2>1, <2>4
  <2>6. out' \in Seq(Piece)
    BY <2>5, AppendProperties DEF TypeOK
  <2>7. rest' \in Seq(Cell) /\ UNCHANGED <<sent, stream, shut, rd, pc, data, cbuf, up>>
    BY <2>1, AdvanceType
  <2>8. handled' \in Nat /\ sqlChunks' \in Seq(Cell) /\ rpcChunks' \in Seq(Cell)
    BY <2>1, EmptySeq DEF TypeOK
  <2> QED
    BY <2>2, <2>3, <2>6, <2>7, <2>8 DEF TypeOK
<1>8. CASE BatchFails(h)
  <2> DEFINE entries == {0} \cup Corrections(text)
  <2>1. PICK p, logged : LogBatch(text, {i \in entries : i < p \/ (logged /\ i = p)},
                                        {i \in entries : i < p})
    BY <1>8 DEF BatchFails, text
  <2>2. IsFiniteSet({i \in entries : i < p \/ (logged /\ i = p)})
    BY <1>3, FS_Subset
  <2>3. ruleHits' \in [Entries -> Nat] /\ audit' \in [Entries -> Nat]
    BY <2>1, <2>2, LogBatchType
  <2> QED
    BY <1>8, <2>3 DEF BatchFails, BatchEnd, Raise, TypeOK
<1> QED
  BY <1>4, <1>5, <1>6, <1>7, <1>8

(* Counting a call and its block keeps the table of counters. *)
LEMMA TwoCountersType ==
    ASSUME NEW m \in [Counters -> Nat]
    PROVE  [m EXCEPT !["rpc_seen"] = @ + 1, !["rpc_blocked"] = @ + 1] \in [Counters -> Nat]
BY DEF Counters

(* The steps on procedure calls keep the types. *)
LEMMA RpcTypeOK ==
    ASSUME TypeOK, NEW h \in Complete,
           \/ RpcPart(h) \/ BlockRpc(h) \/ RewriteRpc(h) \/ PassRpc(h)
           \/ RpcNotSeen(h) \/ RpcFails(h)
    PROVE  TypeOK'
<1> DEFINE body == RpcBody(h)
<1>1. body \in Seq(Cell)
  BY CompleteType, ConcatProperties DEF TypeOK, RpcBody, Gathered
<1>2. FitInPlace(body) \in Seq(Cell)
  BY <1>1, FitInPlaceType
<1>3. /\ IsFiniteSet(Params(body)) /\ IsFiniteSet(Fittable(body))
      /\ IsFiniteSet({})
  BY <1>1, PositionsFinite, FS_EmptySet
<1> HIDE DEF body
<1>4. CASE RpcPart(h)
  BY <1>4, <1>1, AdvanceType DEF RpcPart, RpcBody, Gathered, stores, TypeOK, body
<1>5. CASE BlockRpc(h)
  <2>1. /\ LogRpc(body, Params(body), {}, {})
        /\ Advance(h) /\ handled' = handled + 1 /\ UNCHANGED out
        /\ rpcChunks' = <<>> /\ UNCHANGED sqlChunks
    BY <1>5 DEF BlockRpc, RpcEnd, body
  <2>2. ruleHits' \in [Entries -> Nat] /\ audit' \in [Entries -> Nat]
    BY <2>1, <1>3, LogRpcType
  <2>3. metrics' \in [Counters -> Nat]
    BY <1>5, TwoCountersType DEF BlockRpc, TypeOK
  <2>4. rest' \in Seq(Cell) /\ UNCHANGED <<sent, stream, shut, rd, pc, data, cbuf, up>>
    BY <2>1, AdvanceType
  <2> QED
    BY <2>1, <2>2, <2>3, <2>4 DEF TypeOK
<1>6. CASE RewriteRpc(h)
  <2>1. /\ LogRpc(body, Params(body), Fittable(body), Fittable(body))
        /\ Count("rpc_seen") /\ Advance(h) /\ handled' = handled + 1
        /\ rpcChunks' = <<>> /\ UNCHANGED sqlChunks
    BY <1>6 DEF RewriteRpc, RpcEnd, body
  <2>2. ruleHits' \in [Entries -> Nat] /\ audit' \in [Entries -> Nat]
    BY <2>1, <1>3, LogRpcType
  <2>3. metrics' \in [Counters -> Nat]
    BY <2>1, CountType DEF Count, TypeOK
  <2>4. PICK new \in {FitInPlace(body), body} : out' = Append(out, Rebuilt("rpc", new, body))
    BY <1>6 DEF RewriteRpc, RpcBody, body
  <2>5. Rebuilt("rpc", new, body) \in Piece
    BY <1>1, <1>2, <2>4, RebuiltType DEF Types
  <2>6. out' \in Seq(Piece)
    BY <2>4, <2>5, AppendProperties DEF TypeOK
  <2>7. rest' \in Seq(Cell) /\ UNCHANGED <<sent, stream, shut, rd, pc, data, cbuf, up>>
    BY <2>1, AdvanceType
  <2>8. handled' \in Nat /\ sqlChunks' \in Seq(Cell) /\ rpcChunks' \in Seq(Cell)
    BY <2>1, EmptySeq DEF TypeOK
  <2> QED
    BY <2>2, <2>3, <2>6, <2>7, <2>8 DEF TypeOK
<1>7. CASE PassRpc(h)
  <2>1. LogRpc(body, Params(body), {}, {})
    BY <1>7 DEF PassRpc, body
  <2>2. ruleHits' \in [Entries -> Nat] /\ audit' \in [Entries -> Nat]
    BY <2>1, <1>3, LogRpcType
  <2>3. metrics' \in [Counters -> Nat]
    BY <1>7, CountType DEF PassRpc, Count, TypeOK
  <2>4. out' \in Seq(Piece)
    BY <1>7, <1>1, PassedType, AppendProperties DEF PassRpc, RpcBody, TypeOK, body
  <2>5. Advance(h) /\ handled' = handled + 1 /\ rpcChunks' = <<>> /\ UNCHANGED sqlChunks
    BY <1>7 DEF PassRpc, RpcEnd
  <2>6. rest' \in Seq(Cell) /\ UNCHANGED <<sent, stream, shut, rd, pc, data, cbuf, up>>
    BY <2>5, AdvanceType
  <2> QED
    BY <2>2, <2>3, <2>4, <2>5, <2>6, EmptySeq DEF TypeOK
<1>8. CASE RpcNotSeen(h)
  BY <1>8, <1>1 DEF RpcNotSeen, Raise, stores, TypeOK, body
<1>9. CASE RpcFails(h)
  <2> DEFINE fixes == IF RpcRewritten(body) THEN Fittable(body) ELSE {}
  <2>1. \E looked, fixed, counted :
           /\ looked \subseteq Params(body) /\ fixed \subseteq Fittable(body)
           /\ counted \subseteq fixed
           /\ LogRpc(body, looked, fixed, counted)
    <3>1. CASE \E p \in Params(body) : LogRpc(body, {i \in Params(body) : i < p}, {}, {})
      BY <3>1
    <3>2. CASE LogRpc(body, Params(body), {}, {})
      BY <3>2
    <3>3. CASE \E p \in fixes, logged \in BOOLEAN :
                 LogRpc(body, Params(body), {i \in fixes : i < p \/ (logged /\ i = p)},
                                            {i \in fixes : i < p})
      <4>1. PICK p, logged :
                 LogRpc(body, Params(body), {i \in fixes : i < p \/ (logged /\ i = p)},
                                            {i \in fixes : i < p})
        BY <3>3
      <4>2. fixes \subseteq Fittable(body)
        OBVIOUS
      <4> HIDE DEF fixes
      <4> QED
        BY <4>1, <4>2
    <3> QED
      BY <1>9, <3>1, <3>2, <3>3 DEF RpcFails, body
  <2>2. ruleHits' \in [Entries -> Nat] /\ audit' \in [Entries -> Nat]
    BY <2>1, <1>3, FS_Subset, LogRpcType
  <2>3. metrics' \in [Counters -> Nat]
    BY <1>9, CountType DEF RpcFails, Count, TypeOK
  <2> QED
    BY <1>9, <2>2, <2>3 DEF RpcFails, RpcEnd, Raise, TypeOK
<1> QED
  BY <1>4, <1>5, <1>6, <1>7, <1>8, <1>9

(* Every step keeps the types. *)
LEMMA NextTypeOK == TypeOK /\ [Next]_vars => TypeOK'
<1> SUFFICES ASSUME TypeOK, [Next]_vars PROVE TypeOK'
  OBVIOUS
<1>1. CASE ClientSend
  <2>1. PICK m \in Messages : sent' = Append(sent, m) /\ stream' = stream \o Wire(m)
    BY <1>1 DEF ClientSend
  <2>2. Wire(m) \in Seq(Cell)
    BY WireIsFramed DEF Framed
  <2>3. /\ stream' \in Seq(Cell) /\ Len(stream') = Len(stream) + Len(Wire(m))
        /\ Len(Wire(m)) \in Nat
    BY <2>1, <2>2, ConcatProperties, LenProperties DEF TypeOK
  <2>4. rd' \in 0..Len(stream')
    BY <1>1, <2>3, LenProperties DEF ClientSend, TypeOK
  <2>5. sent' \in Seq(Messages)
    BY <2>1, AppendProperties DEF TypeOK
  <2> QED
    BY <1>1, <2>3, <2>4, <2>5 DEF ClientSend, TypeOK
<1>2. CASE ClientClose
  BY <1>2 DEF ClientClose, TypeOK
<1>3. CASE ReadData
  <2>1. PICK k \in 1..ReadMax : /\ rd + k <= Len(stream) /\ rd' = rd + k
                                /\ data' = SubSeq(stream, rd + 1, rd + k)
    BY <1>3 DEF ReadData
  <2>2. k \in Nat /\ rd \in Nat /\ Len(stream) \in Nat
    <3>1. k \in Nat /\ ReadMax \in Nat
      BY BoundsAssumption
    <3>2. stream \in Seq(Cell) /\ rd \in 0..Len(stream)
      BY DEF TypeOK
    <3>3. Len(stream) \in Nat
      BY <3>2, LenProperties
    <3> QED
      BY <3>1, <3>2, <3>3
  <2>3. \A i \in (rd + 1)..(rd + k) : stream[i] \in Cell
    BY <2>1, <2>2, ElementOfSeq DEF TypeOK
  <2>4. data' \in Seq(Cell)
    BY <2>1, <2>2, <2>3, SubSeqProperties
  <2>5. rest' \in Seq(Cell)
    BY <1>3, <2>4, ConcatProperties DEF ReadData, TypeOK
  <2>6. rd' \in 0..Len(stream)
    BY <2>1, <2>2
  <2>7. /\ pc' = "parse" /\ out' = <<>>
        /\ UNCHANGED <<sent, stream, shut, cbuf, up, sqlChunks, rpcChunks, metrics,
                       ruleHits, audit, handled>>
    BY <1>3 DEF ReadData
  <2>8. out' \in Seq(Piece)
    BY <2>7, EmptySeq
  <2> QED
    BY <2>4, <2>5, <2>6, <2>7, <2>8 DEF TypeOK
<1>4. CASE Eof
  BY <1>4 DEF Eof, TypeOK
<1>5. CASE \E h \in Complete : ParsePacket(h)
  <2>1. PICK h \in Complete : ParsePacket(h)
    BY <1>5
  <2>2. CASE PassOther(h)
    <3>1. out' \in Seq(Piece)
      BY <2>2, EmptySeq, PassedType, AppendProperties DEF PassOther, TypeOK
    <3>2. rest' \in Seq(Cell) /\ UNCHANGED <<sent, stream, shut, rd, pc, data, cbuf, up>>
      BY <2>2, AdvanceType DEF PassOther
    <3>3. UNCHANGED <<sqlChunks, rpcChunks, metrics, ruleHits, audit>>
      BY <2>2 DEF PassOther, stores
    <3>4. handled' \in Nat
      <4>1. handled' = handled + 1 \/ handled' = handled + 0
        BY <2>2 DEF PassOther
      <4> QED
        BY <4>1 DEF TypeOK
    <3> QED
      BY <3>1, <3>2, <3>3, <3>4 DEF TypeOK
  <2> QED
    BY <2>1, <2>2, BatchTypeOK, RpcTypeOK DEF ParsePacket
<1>6. CASE WriteOut
  <2>1. up' \in Seq(Piece)
    BY <1>6, ConcatProperties DEF WriteOut, TypeOK
  <2> QED
    BY <1>6, <2>1 DEF WriteOut, ParseDone, TypeOK
<1>7. CASE SkipWrite
  <2>1. metrics' \in [Counters -> Nat]
    BY <1>7, CountType DEF SkipWrite, Count, TypeOK
  <2> QED
    BY <1>7, <2>1 DEF SkipWrite, ParseDone, TypeOK
<1>8. CASE SkipFails
  BY <1>8 DEF SkipFails, ParseDone, TypeOK
<1>9. CASE RawForward
  <2>1. [origin |-> "raw", typ |-> "other", cells |-> data, src |-> <<>>] \in Piece
    BY DEF Piece, Types, TypeOK
  <2>2. up' \in Seq(Piece)
    BY <1>9, <2>1, AppendProperties DEF RawForward, TypeOK
  <2>3. metrics' \in [Counters -> Nat]
    <3>1. metrics' = metrics \/ \E c : Count(c)
      BY <1>9 DEF RawForward
    <3>2. metrics \in [Counters -> Nat]
      BY DEF TypeOK
    <3> QED
      BY <3>1, <3>2, CountType DEF Count
  <2> QED
    BY <1>9, <2>2, <2>3 DEF RawForward, TypeOK
<1>10. CASE RawFails
  BY <1>10 DEF RawFails, TypeOK
<1>11. CASE UNCHANGED vars
  BY <1>11 DEF vars, TypeOK
<1> QED
  BY <1>1, <1>2, <1>3, <1>4, <1>5, <1>6, <1>7, <1>8, <1>9, <1>10, <1>11
  DEF Next, Pipe, Closed

(* The buffers of the pipe hold packets and payload, its output pieces, its
   counters numbers, whatever the client sends and whatever fails. *)
THEOREM TypeCorrect == Spec => []TypeOK
BY InitTypeOK, NextTypeOK, PTL DEF Spec

-----------------------------------------------------------------------------
(***************************************************************************)
(* The gate.                                                               *)
(***************************************************************************)
(* Appending a piece adds it to the set of pieces. *)
LEMMA PiecesOfAppend ==
    ASSUME NEW s \in Seq(Piece), NEW e \in Piece
    PROVE  ToSet(Append(s, e)) = ToSet(s) \cup {e}
<1>1. Len(s) \in Nat /\ DOMAIN s = 1..Len(s)
  BY LenProperties
<1>2. /\ DOMAIN Append(s, e) = 1..(Len(s) + 1)
      /\ \A i \in 1..Len(s) : Append(s, e)[i] = s[i]
      /\ Append(s, e)[Len(s) + 1] = e
  BY AppendProperties, LenProperties
<1> QED
  BY <1>1, <1>2 DEF ToSet

(* Writing out unites the two sets of pieces. *)
LEMMA PiecesOfConcat ==
    ASSUME NEW s \in Seq(Piece), NEW t \in Seq(Piece)
    PROVE  ToSet(s \o t) = ToSet(s) \cup ToSet(t)
<1>1. /\ Len(s) \in Nat /\ DOMAIN s = 1..Len(s)
      /\ Len(t) \in Nat /\ DOMAIN t = 1..Len(t)
  BY LenProperties
<1>2. /\ DOMAIN (s \o t) = 1..(Len(s) + Len(t))
      /\ \A i \in 1..(Len(s) + Len(t)) :
            (s \o t)[i] = IF i <= Len(s) THEN s[i] ELSE t[i - Len(s)]
  BY ConcatProperties, LenProperties
<1>3. \A i \in 1..Len(t) : (s \o t)[Len(s) + i] = t[i]
  BY <1>1, <1>2
<1>4. ToSet(s \o t) \subseteq ToSet(s) \cup ToSet(t)
  BY <1>1, <1>2 DEF ToSet
<1>5. ToSet(s) \subseteq ToSet(s \o t)
  BY <1>1, <1>2 DEF ToSet
<1>6. ToSet(t) \subseteq ToSet(s \o t)
  <2> SUFFICES ASSUME NEW i \in 1..Len(t) PROVE t[i] \in ToSet(s \o t)
    BY <1>1 DEF ToSet
  <2>1. Len(s) + i \in DOMAIN (s \o t) /\ (s \o t)[Len(s) + i] = t[i]
    BY <1>1, <1>2, <1>3
  <2> QED
    BY <2>1 DEF ToSet
<1> QED
  BY <1>4, <1>5, <1>6

(* A rules file has finitely many rules in force, one at each of the places 1..n. *)
LEMMA RulesAreFinite ==
    /\ \E n \in Nat : DOMAIN Rules = 1..n
    /\ IsFiniteSet(RuleIds)
<1>1. Rules \in Seq(ToSet(RulesFile))
  BY RulesAssumption, SelectedParts DEF Rules, LoadRules
<1>2. Len(Rules) \in Nat /\ DOMAIN Rules = 1..Len(Rules)
  BY <1>1, LenProperties
<1> DEFINE name == [i \in DOMAIN Rules |-> Rules[i].id]
<1>3. name \in Surjection(DOMAIN Rules, RuleIds)
  BY DEF RuleIds, Surjection
<1>4. IsFiniteSet(DOMAIN Rules)
  BY <1>2, FS_Interval
<1>5. IsFiniteSet(RuleIds)
  BY <1>3, <1>4, FS_Surjection
<1> QED
  BY <1>2, <1>5

(* A rule that is loaded has no threshold: load_rules skips the objects with one. *)
LEMMA NoThresholds == \A i \in DOMAIN Rules : MinHits(GetRule(Rules, Rules[i].id)) = 0
<1> SUFFICES ASSUME NEW i \in DOMAIN Rules PROVE MinHits(GetRule(Rules, Rules[i].id)) = 0
  OBVIOUS
<1> DEFINE loadable == {j \in DOMAIN RulesFile : Loadable(RulesFile[j])}
           same == {j \in DOMAIN Rules : Rules[j].id = Rules[i].id}
           last == CHOOSE j \in same : \A k \in same : k <= j
<1>1. \A j \in DOMAIN Rules : Loadable(Rules[j])
  <2>1. RulesFile \in Seq(ToSet(RulesFile)) /\ loadable \in SUBSET DOMAIN RulesFile
    BY RulesAssumption
  <2>2. Rules = Selected(RulesFile, loadable)
    BY DEF Rules, LoadRules
  <2>3. \A j \in loadable : Loadable(RulesFile[j])
    OBVIOUS
  <2> HIDE DEF loadable
  <2> DEFINE kept == Selected(RulesFile, loadable)
  <2>4. \E place \in [DOMAIN kept -> loadable] :
            \A j \in DOMAIN kept : kept[j] = RulesFile[place[j]]
    BY <2>1, SelectedParts
  <2> HIDE DEF kept
  <2>5. \A j \in DOMAIN kept : Loadable(kept[j])
    BY <2>3, <2>4
  <2> QED
    BY <2>2, <2>5 DEF kept
<1>2. PICK n \in Nat : DOMAIN Rules = 1..n
  BY RulesAreFinite
<1>3. \E j \in same : \A k \in same : k <= j
  <2> DEFINE below == {n - j : j \in same}
  <2>1. below \subseteq Nat /\ n - i \in below
    BY <1>2
  <2>2. PICK b \in below : \A c \in below : b <= c
    <3> HIDE DEF below
    <3> QED
      BY <2>1, LeastNumber
  <2>3. PICK j \in same : b = n - j
    BY <2>2
  <2>4. ASSUME NEW k \in same PROVE k <= j
    <3>1. n - k \in below /\ k \in Nat /\ j \in Nat
      BY <1>2
    <3>2. n - j <= n - k
      BY <2>2, <2>3, <3>1
    <3> QED
      BY <1>2, <3>1, <3>2
  <2> QED
    BY <2>4
<1>4. last \in DOMAIN Rules
  <2>1. same \subseteq DOMAIN Rules
    OBVIOUS
  <2> HIDE DEF same
  <2> QED
    BY <1>3, <2>1
<1>5. GetRule(Rules, Rules[i].id) = Rules[last]
  BY DEF GetRule
<1> HIDE DEF last
<1> QED
  BY <1>1, <1>4, <1>5 DEF Loadable, RuleFields, RequiredFields, MinHits

(* The engine blocks an event when the first of the rules that match it does. *)
LEMMA FirstRuleDecides ==
    ASSUME NEW ev, FirstBlocks({i \in DOMAIN Rules : Applies(Rules[i], ev)})
    PROVE  /\ Decide(Rules, ev).action = "block"
           /\ \E i \in DOMAIN Rules : Decide(Rules, ev).rule = Rules[i].id
<1> DEFINE hits  == {i \in DOMAIN Rules : Applies(Rules[i], ev)}
           first == CHOOSE i \in hits : \A j \in hits : i <= j
<1>1. PICK i \in hits : Rules[i].action = "block" /\ \A j \in hits : i <= j
  BY DEF FirstBlocks
<1>2. hits \subseteq DOMAIN Rules /\ hits \subseteq Nat
  BY RulesAreFinite
<1>3. Decide(Rules, ev) = [action |-> Rules[first].action, rule |-> Rules[first].id]
  BY <1>1 DEF Decide
<1>4. first = i
  <2> HIDE DEF hits
  <2>1. first \in hits /\ \A j \in hits : first <= j
    BY <1>1
  <2>2. first <= i /\ i <= first /\ first \in Nat /\ i \in Nat
    BY <1>1, <1>2, <2>1
  <2> HIDE DEF first
  <2> QED
    BY <2>2
<1> HIDE DEF first
<1> QED
  BY <1>1, <1>2, <1>3, <1>4

\* In enforce mode a pattern rule blocks the text, or a rule a parameter of the call.
PatternBlocks(text)   == Enforcing /\ FirstBlocks(PatternRules(text))
ParameterBlocks(body) ==
    Enforcing /\ \E i \in Params(body) : FirstBlocks(ParamRules(Column(body[i])))

(* A text that a pattern rule blocks is a text the engine blocks, at the first hit. *)
LEMMA PatternIsMet ==
    ASSUME NEW text, text # <<>>, PatternBlocks(text)
    PROVE  Enforced(text) /\ ~Gated(text)
<1> DEFINE ev == Statement(text)
<1>1. \A r : Matches(r, ev) <=> r.target = "pattern" /\ Occurs(r.selector, text)
  BY DEF Statement, Matches
<1>2. PatternRules(text) = {i \in DOMAIN Rules : Applies(Rules[i], ev)}
  <2> HIDE DEF ev
  <2> QED
    BY <1>1 DEF PatternRules, Applies
<1>3. FirstBlocks({i \in DOMAIN Rules : Applies(Rules[i], ev)})
  BY <1>2 DEF PatternBlocks
<1>4. /\ StatementDecision(text).action = "block"
      /\ \E i \in DOMAIN Rules : StatementDecision(text).rule = Rules[i].id
  BY <1>3, FirstRuleDecides DEF StatementDecision
<1>5. MinHits(GetRule(Rules, StatementDecision(text).rule)) = 0
  BY <1>4, NoThresholds
<1> QED
  BY <1>4, <1>5 DEF PatternBlocks, Enforced, Blocked, Gated

(* A call with a parameter that a rule blocks is a call the engine blocks. *)
LEMMA ParameterIsMet ==
    ASSUME NEW body, ParameterBlocks(body)
    PROVE  RpcDropped(body)
<1>1. PICK i \in Params(body) : FirstBlocks(ParamRules(Column(body[i])))
  BY DEF ParameterBlocks
<1> DEFINE name == Column(body[i])
           ev   == Parameter(name)
           col  == [tab |-> None, col |-> name]
<1>2. name # None
  BY DEF Params
<1>3. col # None
  BY <1>2, NoneAssumption DEF Column
<1> HIDE DEF name
<1>4. \A r : Matches(r, ev) <=> /\ r.target = "column" /\ r.selector.tab = None
                               /\ r.selector.col = name
  <2>1. ev.table = None /\ ev.text = <<>> /\ ev.column = col
    BY DEF Parameter
  <2>2. \A x : ColumnMatches(x, col) => x.tab = None
    BY DEF ColumnMatches
  <2>3. \A x : ColumnMatches(x, col) <=> x.tab = None /\ x.col = name
    BY <2>2 DEF ColumnMatches
  <2> HIDE DEF ev, col
  <2> QED
    BY <1>3, <2>1, <2>3 DEF Matches
<1>5. ParamRules(name) = {j \in DOMAIN Rules : Applies(Rules[j], ev)}
  <2> HIDE DEF ev
  <2> QED
    BY <1>4 DEF ParamRules, Applies
<1>6. ParamDecision(body[i]).action = "block"
  <2>1. FirstBlocks({j \in DOMAIN Rules : Applies(Rules[j], ev)})
    BY <1>1, <1>5 DEF name
  <2> QED
    BY <2>1, FirstRuleDecides DEF ParamDecision, name
<1> QED
  BY <1>6 DEF ParameterBlocks, RpcDropped, RpcBlocked

\* The condition NoBlockedForwarded puts on one piece of output.
Clean(p) == /\ p.typ = "batch" => ~PatternBlocks(Text(p.src))
            /\ p.typ = "rpc"   => ~ParameterBlocks(p.src)

(* A step that leaves what is written alone and adds at most one piece, one that
   no rule blocks, keeps the gate. *)
LEMMA GateKeptByOnePiece ==
    ASSUME TypeOK, NoBlockedForwarded, UNCHANGED up,
           out' = out \/ out' = <<>>
             \/ \E p \in Piece : Clean(p) /\ out' = Append(out, p)
    PROVE  NoBlockedForwarded'
<1>1. \A p \in ToSet(up) \cup ToSet(out) : Clean(p)
  BY DEF NoBlockedForwarded, Clean, PatternBlocks, ParameterBlocks
<1>2. ToSet(<<>>) = {}
  BY DEF ToSet
<1>3. \A p \in ToSet(out') : Clean(p)
  <2>1. CASE out' = out \/ out' = <<>>
    BY <2>1, <1>1, <1>2
  <2>2. CASE \E p \in Piece : Clean(p) /\ out' = Append(out, p)
    <3>1. PICK p \in Piece : Clean(p) /\ out' = Append(out, p)
      BY <2>2
    <3>2. ToSet(out') = ToSet(out) \cup {p}
      BY <3>1, PiecesOfAppend DEF TypeOK
    <3> HIDE DEF Clean
    <3> QED
      BY <1>1, <3>1, <3>2
  <2> QED
    BY <2>1, <2>2
<1>4. \A p \in ToSet(up') \cup ToSet(out') : Clean(p)
  BY <1>1, <1>3
<1> HIDE DEF Clean
<1>5. \A p : Clean(p) => /\ p.typ = "batch" => ~PatternBlocks(Text(p.src))
                         /\ p.typ = "rpc"   => ~ParameterBlocks(p.src)
  BY DEF Clean
<1>6. NoBlockedForwarded' <=> \A p \in ToSet(up') \cup ToSet(out') :
                                  /\ p.typ = "batch" => ~PatternBlocks(Text(p.src))
                                  /\ p.typ = "rpc"   => ~ParameterBlocks(p.src)
  BY DEF NoBlockedForwarded, PatternBlocks, ParameterBlocks
<1> QED
  BY <1>4, <1>5, <1>6

(* No step on a packet puts a blocked message into the output. *)
LEMMA ParseKeepsGate ==
    ASSUME TypeOK, NoBlockedForwarded, NEW h \in Complete, ParsePacket(h)
    PROVE  NoBlockedForwarded'
<1> DEFINE whole == Gathered(sqlChunks, h)
           text  == BatchText(h)
           body  == RpcBody(h)
<1>0. whole \in Seq(Cell) /\ Gathered(rpcChunks, h) \in Seq(Cell)
  BY CompleteType, ConcatProperties DEF Gathered, TypeOK
<1>1. text = Text(whole) /\ text \in Seq(Cell) /\ Corrected(text) \in Seq(Cell)
  BY <1>0, TextType, CorrectedType DEF BatchText
<1>2. body \in Seq(Cell) /\ FitInPlace(body) \in Seq(Cell)
  BY <1>0, FitInPlaceType DEF RpcBody
<1> HIDE DEF whole, text, body
<1>3. CASE ForwardBatch(h)
  <2>1. /\ Enforced(text) => Gated(text)
        /\ text # <<>>
        /\ \/ out' = Append(out, Rebuilt("batch", text, whole))
           \/ out' = Append(out, Rebuilt("batch", Corrected(text), whole))
        /\ UNCHANGED up
    BY <1>3 DEF ForwardBatch, Advance, text, whole
  <2>2. ~PatternBlocks(text)
    BY <2>1, PatternIsMet
  <2>3. \A new \in Seq(Cell) :
           Rebuilt("batch", new, whole) \in Piece /\ Clean(Rebuilt("batch", new, whole))
    BY <1>0, <1>1, <2>2, RebuiltType DEF Types, Rebuilt, Clean
  <2> QED
    BY <1>1, <2>1, <2>3, GateKeptByOnePiece
<1>4. CASE RewriteRpc(h)
  <2>1. /\ RpcRewritten(body) /\ UNCHANGED up
        /\ \E new \in {FitInPlace(body), body} :
              out' = Append(out, Rebuilt("rpc", new, body))
    BY <1>4 DEF RewriteRpc, Advance, RpcBody, body
  <2>2. ~ParameterBlocks(body)
    BY <2>1, ParameterIsMet DEF RpcRewritten, RpcDropped
  <2>3. \A new \in Seq(Cell) :
           Rebuilt("rpc", new, body) \in Piece /\ Clean(Rebuilt("rpc", new, body))
    BY <1>2, <2>2, RebuiltType DEF Types, Rebuilt, Clean
  <2> QED
    BY <1>2, <2>1, <2>3, GateKeptByOnePiece
<1>5. CASE PassRpc(h)
  <2>1. /\ h.typ = "rpc" /\ ~RpcDropped(body) /\ UNCHANGED up
        /\ out' = Append(out, Passed(h, body))
    BY <1>5 DEF PassRpc, RpcEnd, Loop, Advance, RpcBody, body
  <2>2. Passed(h, body) \in Piece /\ Clean(Passed(h, body))
    BY <1>2, <2>1, ParameterIsMet, PassedType DEF Passed, Clean
  <2> QED
    BY <2>1, <2>2, GateKeptByOnePiece
<1>6. CASE PassOther(h)
  <2>1. /\ h.typ = "other" /\ UNCHANGED up
        /\ out' = Append(out, Passed(h, <<>>))
    BY <1>6 DEF PassOther, Loop, Advance
  <2>2. Passed(h, <<>>) \in Piece /\ Clean(Passed(h, <<>>))
    BY <2>1, EmptySeq, PassedType DEF Passed, Clean
  <2> QED
    BY <2>1, <2>2, GateKeptByOnePiece
<1>7. CASE BatchPart(h) \/ EmptyBatch(h) \/ BlockBatch(h) \/ RpcPart(h) \/ BlockRpc(h)
  <2>1. UNCHANGED <<up, out>>
    BY <1>7 DEF BatchPart, EmptyBatch, BlockBatch, RpcPart, BlockRpc, Advance
  <2> QED
    BY <2>1, GateKeptByOnePiece
<1>8. CASE BatchFails(h) \/ RpcNotSeen(h) \/ RpcFails(h)
  <2>1. UNCHANGED up /\ out' = <<>>
    BY <1>8 DEF BatchFails, RpcNotSeen, RpcFails, Raise
  <2> QED
    BY <2>1, GateKeptByOnePiece
<1> QED
  BY <1>3, <1>4, <1>5, <1>6, <1>7, <1>8 DEF ParsePacket

(* No step at all does. *)
LEMMA NextKeepsGate == TypeOK /\ NoBlockedForwarded /\ [Next]_vars => NoBlockedForwarded'
<1> SUFFICES ASSUME TypeOK, NoBlockedForwarded, [Next]_vars PROVE NoBlockedForwarded'
  OBVIOUS
<1>1. CASE \E h \in Complete : ParsePacket(h)
  BY <1>1, ParseKeepsGate
<1>2. CASE WriteOut
  <2>1. up' = up \o out /\ out' = <<>>
    BY <1>2 DEF WriteOut, ParseDone
  <2>2. ToSet(up') \cup ToSet(out') \subseteq ToSet(up) \cup ToSet(out)
    BY <2>1, PiecesOfConcat DEF TypeOK, ToSet
  <2> QED
    BY <2>2 DEF NoBlockedForwarded
<1>3. CASE RawForward
  <2> DEFINE p == [origin |-> "raw", typ |-> "other", cells |-> data, src |-> <<>>]
  <2>1. p \in Piece
    BY DEF Piece, Types, TypeOK
  <2>2. up' = Append(up, p) /\ out' = out
    BY <1>3 DEF RawForward
  <2>3. ToSet(up') \cup ToSet(out') = ToSet(up) \cup ToSet(out) \cup {p}
    BY <2>1, <2>2, PiecesOfAppend DEF TypeOK
  <2>4. p.typ = "other"
    OBVIOUS
  <2> QED
    BY <2>3, <2>4 DEF NoBlockedForwarded
<1>4. CASE SkipWrite \/ SkipFails
  <2>1. UNCHANGED up /\ out' = <<>>
    BY <1>4 DEF SkipWrite, SkipFails, ParseDone
  <2> QED
    BY <2>1, GateKeptByOnePiece
<1>5. CASE ReadData
  <2>1. UNCHANGED up /\ out' = <<>>
    BY <1>5 DEF ReadData
  <2> QED
    BY <2>1, GateKeptByOnePiece
<1>6. CASE ClientSend \/ ClientClose \/ Eof \/ RawFails \/ UNCHANGED vars
  <2>1. UNCHANGED <<up, out>>
    BY <1>6 DEF ClientSend, ClientClose, Eof, RawFails, vars
  <2> QED
    BY <2>1, GateKeptByOnePiece
<1> QED
  BY <1>1, <1>2, <1>3, <1>4, <1>5, <1>6 DEF Next, Pipe, Closed

(* In enforce mode no batch the proxy frames has a text that a pattern rule blocks and
   no call it frames or passes on a parameter that a rule blocks, however the message
   was split into packets and reads and whichever writes to its stores fail. *)
THEOREM GateIsSafe == Spec => []NoBlockedForwarded
<1>1. Init => NoBlockedForwarded
  BY DEF Init, NoBlockedForwarded, ToSet
<1> QED
  BY <1>1, TypeCorrect, NextKeepsGate, PTL DEF Spec

-----------------------------------------------------------------------------
(***************************************************************************)
(* The decision log and the rule counters.                                 *)
(***************************************************************************)
(* Counting never lowers a counter. *)
LEMMA TallyGrows ==
    ASSUME NEW table \in [Entries -> Nat], NEW S, IsFiniteSet(S), NEW E
    PROVE  \A e \in Entries : table[e] <= Tally(table, S, E)[e]
<1> SUFFICES ASSUME NEW e \in Entries PROVE table[e] <= Tally(table, S, E)[e]
  OBVIOUS
<1>1. Cardinality({i \in S : E[i] = e}) \in Nat
  BY FS_Subset, FS_CardinalityType
<1>2. table[e] <= table[e] + Cardinality({i \in S : E[i] = e})
  BY <1>1
<1> QED
  BY <1>2 DEF Tally

(* A batch whose counted decisions are among the logged ones keeps the counters
   below the log. *)
LEMMA LogBatchAudited ==
    ASSUME TypeOK, HitsAudited, NEW text, NEW logged, NEW counted,
           IsFiniteSet(logged), counted \subseteq logged,
           LogBatch(text, logged, counted)
    PROVE  HitsAudited'
<1> DEFINE E == [i \in 0..Len(text) |-> BatchEntry(text, i)]
           S == {i \in counted : E[i][2] # None}
<1> HIDE DEF E
<1>1. audit' = Tally(audit, logged, E) /\ ruleHits' = Tally(ruleHits, S, E)
  BY DEF LogBatch, E
<1>2. S \subseteq logged
  OBVIOUS
<1>3. /\ ruleHits \in [Entries -> Nat] /\ audit \in [Entries -> Nat]
      /\ \A e \in Entries : ruleHits[e] <= audit[e]
  BY DEF TypeOK, HitsAudited
<1> HIDE DEF S
<1>4. \A e \in Entries : Tally(ruleHits, S, E)[e] <= Tally(audit, logged, E)[e]
  BY <1>2, <1>3, TallyMonotone
<1> QED
  BY <1>1, <1>4 DEF HitsAudited

(* So does a call. *)
LEMMA LogRpcAudited ==
    ASSUME TypeOK, HitsAudited, NEW body, NEW looked, NEW fixed, NEW counted,
           IsFiniteSet(looked), IsFiniteSet(fixed), counted \subseteq fixed,
           LogRpc(body, looked, fixed, counted)
    PROVE  HitsAudited'
<1> DEFINE d == [i \in DOMAIN body |-> ParamDecision(body[i])]
           D == [i \in DOMAIN body |-> <<d[i].action, d[i].rule>>]
           F == [i \in DOMAIN body |-> <<"rpc_autocorrect_inplace", d[i].rule>>]
           seen == Tally(audit, looked, D)
<1> HIDE DEF D, F
<1>1. audit' = Tally(seen, fixed, F) /\ ruleHits' = Tally(ruleHits, counted, F)
  BY DEF LogRpc, D, F
<1>2. /\ ruleHits \in [Entries -> Nat] /\ audit \in [Entries -> Nat]
      /\ \A e \in Entries : ruleHits[e] <= audit[e]
  BY DEF TypeOK, HitsAudited
<1>3. seen \in [Entries -> Nat] /\ \A e \in Entries : audit[e] <= seen[e]
  BY <1>2, TallyType, TallyGrows
<1> HIDE DEF seen
<1>4. \A e \in Entries : ruleHits[e] <= seen[e]
  BY <1>2, <1>3
<1>5. \A e \in Entries : Tally(ruleHits, counted, F)[e] <= Tally(seen, fixed, F)[e]
  BY <1>2, <1>3, <1>4, TallyMonotone
<1> QED
  BY <1>1, <1>5 DEF HitsAudited

(* No step on a packet lets a counter get ahead of the log. *)
LEMMA ParseKeepsAudit ==
    ASSUME TypeOK, HitsAudited, NEW h \in Complete, ParsePacket(h)
    PROVE  HitsAudited'
<1> DEFINE text == BatchText(h)
           body == RpcBody(h)
<1>1. text \in Seq(Cell) /\ body \in Seq(Cell)
  BY CompleteType, ConcatProperties, TextType DEF BatchText, RpcBody, Gathered, TypeOK
<1>2. /\ IsFiniteSet({0} \cup Corrections(text)) /\ IsFiniteSet({0})
      /\ IsFiniteSet(Params(body)) /\ IsFiniteSet(Fittable(body)) /\ IsFiniteSet({})
  BY <1>1, PositionsFinite, FS_Singleton, FS_EmptySet
<1> HIDE DEF text, body
<1>3. CASE BlockBatch(h)
  BY <1>2, <1>3, LogBatchAudited DEF BlockBatch, text
<1>4. CASE ForwardBatch(h)
  BY <1>2, <1>4, LogBatchAudited DEF ForwardBatch, text
<1>5. CASE BatchFails(h)
  <2> DEFINE entries == {0} \cup Corrections(text)
  <2>1. PICK p, logged : LogBatch(text, {i \in entries : i < p \/ (logged /\ i = p)},
                                        {i \in entries : i < p})
    BY <1>5 DEF BatchFails, text
  <2>2. /\ IsFiniteSet({i \in entries : i < p \/ (logged /\ i = p)})
        /\ {i \in entries : i < p} \subseteq {i \in entries : i < p \/ (logged /\ i = p)}
    BY <1>2, FS_Subset
  <2> QED
    BY <2>1, <2>2, LogBatchAudited
<1>6. CASE BlockRpc(h)
  BY <1>2, <1>6, LogRpcAudited DEF BlockRpc, body
<1>7. CASE RewriteRpc(h)
  BY <1>2, <1>7, LogRpcAudited DEF RewriteRpc, body
<1>8. CASE PassRpc(h)
  BY <1>2, <1>8, LogRpcAudited DEF PassRpc, body
<1>9. CASE RpcFails(h)
  <2> DEFINE fixes == IF RpcRewritten(body) THEN Fittable(body) ELSE {}
  <2>1. IsFiniteSet(fixes)
    BY <1>2
  <2>2. CASE \E p \in Params(body) : LogRpc(body, {i \in Params(body) : i < p}, {}, {})
    <3>1. PICK p \in Params(body) : LogRpc(body, {i \in Params(body) : i < p}, {}, {})
      BY <2>2
    <3>2. IsFiniteSet({i \in Params(body) : i < p})
      BY <1>2, FS_Subset
    <3> QED
      BY <1>2, <3>1, <3>2, LogRpcAudited
  <2>3. CASE LogRpc(body, Params(body), {}, {})
    BY <1>2, <2>3, LogRpcAudited
  <2>4. CASE \E p \in fixes, logged \in BOOLEAN :
               LogRpc(body, Params(body), {i \in fixes : i < p \/ (logged /\ i = p)},
                                          {i \in fixes : i < p})
    <3> HIDE DEF fixes
    <3>1. PICK p, logged :
               LogRpc(body, Params(body), {i \in fixes : i < p \/ (logged /\ i = p)},
                                          {i \in fixes : i < p})
      BY <2>4
    <3>2. /\ IsFiniteSet({i \in fixes : i < p \/ (logged /\ i = p)})
          /\ {i \in fixes : i < p} \subseteq {i \in fixes : i < p \/ (logged /\ i = p)}
      BY <2>1, FS_Subset
    <3> QED
      BY <1>2, <3>1, <3>2, LogRpcAudited
  <2> QED
    BY <1>9, <2>2, <2>3, <2>4 DEF RpcFails, body
<1>10. CASE BatchPart(h) \/ EmptyBatch(h) \/ RpcPart(h) \/ RpcNotSeen(h) \/ PassOther(h)
  <2>1. UNCHANGED <<ruleHits, audit>>
    BY <1>10 DEF BatchPart, EmptyBatch, RpcPart, RpcNotSeen, PassOther, stores
  <2> QED
    BY <2>1 DEF HitsAudited
<1> QED
  BY <1>3, <1>4, <1>5, <1>6, <1>7, <1>8, <1>9, <1>10 DEF ParsePacket

(* The hits credited to a rule never exceed its entries in the decision log,
   also when a write fails between the two. *)
THEOREM HitsAreAudited == Spec => []HitsAudited
<1>1. Init => HitsAudited
  BY DEF Init, HitsAudited
<1>2. TypeOK /\ HitsAudited /\ [Next]_vars => HitsAudited'
  <2> SUFFICES ASSUME TypeOK, HitsAudited, [Next]_vars PROVE HitsAudited'
    OBVIOUS
  <2>1. CASE \E h \in Complete : ParsePacket(h)
    BY <2>1, ParseKeepsAudit
  <2>2. CASE ~\E h \in Complete : ParsePacket(h)
    <3>1. UNCHANGED <<ruleHits, audit>>
      BY <2>2 DEF Next, Pipe, Closed, ClientSend, ClientClose, ReadData, Eof, WriteOut,
                  SkipWrite, SkipFails, ParseDone, RawForward, RawFails, vars
    <3> QED
      BY <3>1 DEF HitsAudited
  <2> QED
    BY <2>1, <2>2
<1> QED
  BY <1>1, <1>2, TypeCorrect, PTL DEF Spec

-----------------------------------------------------------------------------
(***************************************************************************)
(* The buffers.  Stated for the properties that hold while no store fails: *)
(* after an exception the leftover in the counter is older than the bytes  *)
(* last read.                                                              *)
(***************************************************************************)
\* buf is the end of what has been read.
IsRecent(buf) == \E k \in 0..rd : buf = SubSeq(stream, rd - k + 1, rd)

\* Inductive: without failing stores the raw state is never entered.
BufferInv ==
    ~StoreMayFail => /\ pc # "raw"
                     /\ pc = "parse" => IsRecent(rest)
                     /\ pc # "parse" => IsRecent(cbuf)

(* Whatever the client appends, the end of what has been read stays the same. *)
LEMMA RecentWhenSending ==
    ASSUME NEW s \in Seq(Cell), NEW w \in Seq(Cell), NEW n \in 0..Len(s),
           NEW k \in 0..n
    PROVE  SubSeq(s \o w, n - k + 1, n) = SubSeq(s, n - k + 1, n)
<1>1. Len(s) \in Nat
  BY LenProperties
<1>2. CASE k = 0
  BY <1>1, <1>2, SubSeqEmpty
<1>3. CASE k # 0
  <2>1. n - k + 1 \in 1..Len(s) /\ n \in 1..Len(s)
    BY <1>1, <1>3
  <2> QED
    BY <2>1, SubSeqOfConcat1
<1> QED
  BY <1>2, <1>3

(* Slicing a packet off the front of the end leaves a shorter end. *)
LEMMA RecentWhenSlicing ==
    ASSUME NEW s \in Seq(Cell), NEW n \in 0..Len(s), NEW k \in 0..n, NEW l \in 0..k
    PROVE  /\ Len(SubSeq(s, n - k + 1, n)) = k
           /\ SubSeq(SubSeq(s, n - k + 1, n), l + 1, k) = SubSeq(s, n - (k - l) + 1, n)
           /\ Len(SubSeq(s, n - (k - l) + 1, n)) = k - l
<1>1. Len(s) \in Nat /\ \A i \in 1..Len(s) : s[i] \in Cell
  BY LenProperties, ElementOfSeq
<1>2. \A m \in 0..n : Len(SubSeq(s, n - m + 1, n)) = m
  <2> SUFFICES ASSUME NEW m \in 0..n PROVE Len(SubSeq(s, n - m + 1, n)) = m
    OBVIOUS
  <2>1. \A i \in (n - m + 1)..n : s[i] \in Cell
    BY <1>1
  <2> QED
    BY <1>1, <2>1, SubSeqProperties, SMTT(20)
<1>3. SubSeq(SubSeq(s, n - k + 1, n), l + 1, k) = SubSeq(s, n - (k - l) + 1, n)
  <2>1. CASE l = k
    <3>1. SubSeq(SubSeq(s, n - k + 1, n), l + 1, k) = <<>>
      BY <1>1, <2>1, SubSeqEmpty
    <3>2. SubSeq(s, n - (k - l) + 1, n) = <<>>
      BY <1>1, <2>1, SubSeqEmpty
    <3> QED
      BY <3>1, <3>2
  <2>2. CASE l < k
    <3>1. /\ n - k + 1 \in 1..Len(s) /\ n \in 1..Len(s)
          /\ l + 1 \in 1..(n - (n - k + 1) + 1) /\ k \in 1..(n - (n - k + 1) + 1)
      BY <1>1, <2>2
    <3>2. SubSeq(SubSeq(s, n - k + 1, n), l + 1, k)
            = SubSeq(s, (n - k + 1) + (l + 1) - 1, (n - k + 1) + k - 1)
      BY <3>1, SubSeqOfSubSeq
    <3>3. (n - k + 1) + (l + 1) - 1 = n - (k - l) + 1 /\ (n - k + 1) + k - 1 = n
      BY <1>1
    <3> QED
      BY <3>2, <3>3
  <2> QED
    BY <1>1, <2>1, <2>2
<1> QED
  BY <1>2, <1>3

(* What is read next continues the end. *)
LEMMA RecentWhenReading ==
    ASSUME NEW s \in Seq(Cell), NEW n \in 0..Len(s), NEW k \in 0..n,
           NEW m \in Nat \ {0}, n + m <= Len(s)
    PROVE  SubSeq(s, n - k + 1, n) \o SubSeq(s, n + 1, n + m)
             = SubSeq(s, (n + m) - (k + m) + 1, n + m)
<1>1. Len(s) \in Nat
  BY LenProperties
<1>2. /\ n - k + 1 \in 1..(Len(s) + 1) /\ n \in (n - k + 1 - 1)..Len(s)
      /\ n + m \in n..Len(s)
  BY <1>1
<1>3. SubSeq(s, n - k + 1, n) \o SubSeq(s, n + 1, n + m) = SubSeq(s, n - k + 1, n + m)
  BY <1>2, ConcatAdjacentSubSeq
<1>4. (n + m) - (k + m) + 1 = n - k + 1
  OBVIOUS
<1> QED
  BY <1>3, <1>4

(* Every step keeps the buffers the most recent part of the stream. *)
LEMMA NextKeepsBuffer == TypeOK /\ BufferInv /\ [Next]_vars => BufferInv'
<1> SUFFICES ASSUME TypeOK, BufferInv, [Next]_vars, ~StoreMayFail PROVE BufferInv'
  BY DEF BufferInv
<1>1. /\ stream \in Seq(Cell) /\ rd \in 0..Len(stream) /\ Len(stream) \in Nat
      /\ cbuf \in Seq(Cell) /\ rest \in Seq(Cell)
      /\ Len(cbuf) \in Nat /\ Len(rest) \in Nat
  BY LenProperties DEF TypeOK
<1>2. CASE ClientSend
  <2>1. PICK m \in Messages : stream' = stream \o Wire(m)
    BY <1>2 DEF ClientSend
  <2>2. Wire(m) \in Seq(Cell)
    BY WireIsFramed DEF Framed
  <2>3. UNCHANGED <<rd, pc, rest, cbuf>>
    BY <1>2 DEF ClientSend
  <2>4. \A k \in 0..rd : SubSeq(stream', rd - k + 1, rd) = SubSeq(stream, rd - k + 1, rd)
    BY <1>1, <2>1, <2>2, RecentWhenSending
  <2>5. /\ IsRecent(rest) => IsRecent(rest)'
        /\ IsRecent(cbuf) => IsRecent(cbuf)'
    BY <2>3, <2>4 DEF IsRecent
  <2> QED
    BY <2>3, <2>5 DEF BufferInv
<1>3. CASE ReadData
  <2>1. PICK k \in 1..ReadMax : /\ rd + k <= Len(stream) /\ rd' = rd + k
                                /\ data' = SubSeq(stream, rd + 1, rd + k)
    BY <1>3 DEF ReadData
  <2>2. k \in Nat \ {0}
    BY BoundsAssumption
  <2>3. IsRecent(cbuf)
    BY <1>3 DEF ReadData, BufferInv
  <2>4. PICK n \in 0..rd : cbuf = SubSeq(stream, rd - n + 1, rd)
    BY <2>3 DEF IsRecent
  <2>5. /\ rest' = cbuf \o SubSeq(stream, rd + 1, rd + k)
        /\ pc' = "parse" /\ stream' = stream
    BY <1>3, <2>1 DEF ReadData
  <2>6. rest' = SubSeq(stream, (rd + k) - (n + k) + 1, rd + k)
    BY <1>1, <2>1, <2>2, <2>4, <2>5, RecentWhenReading
  <2>7. n + k \in 0..(rd + k)
    BY <1>1, <2>2
  <2>8. IsRecent(rest)'
    BY <2>1, <2>5, <2>6, <2>7 DEF IsRecent
  <2> QED
    BY <2>5, <2>8 DEF BufferInv
<1>4. CASE \E h \in Complete : ParsePacket(h)
  <2>1. PICK h \in Complete : ParsePacket(h)
    BY <1>4
  <2>2. Advance(h)
    BY <2>1 DEF ParsePacket, BatchPart, EmptyBatch, BlockBatch, ForwardBatch, BatchFails,
                RpcPart, BlockRpc, RewriteRpc, PassRpc, RpcNotSeen, RpcFails, PassOther,
                Raise
  <2>3. pc = "parse" /\ IsRecent(rest)
    <3>1. pc = "parse"
      BY <2>1 DEF ParsePacket, BatchPart, EmptyBatch, BlockBatch, ForwardBatch, BatchFails,
                  BatchEnd, RpcPart, BlockRpc, RewriteRpc, PassRpc, RpcNotSeen, RpcFails,
                  RpcEnd, PassOther, Loop
    <3> QED
      BY <3>1 DEF BufferInv
  <2>4. h.len \in Nat /\ h.len <= Len(rest)
    BY CompleteType DEF Header
  <2>5. /\ rest' = SubSeq(rest, h.len + 1, Len(rest))
        /\ UNCHANGED <<stream, rd, pc>>
    BY <2>2 DEF Advance
  <2>6. PICK k \in 0..rd : rest = SubSeq(stream, rd - k + 1, rd)
    BY <2>3 DEF IsRecent
  <2>7. Len(rest) = k
    <3>1. 0 \in 0..k
      BY <1>1
    <3> QED
      BY <1>1, <2>6, <3>1, RecentWhenSlicing
  <2>8. h.len \in 0..k /\ k - h.len \in 0..rd
    BY <1>1, <2>4, <2>7
  <2>9. rest' = SubSeq(stream, rd - (k - h.len) + 1, rd)
    <3> DEFINE l == h.len
    <3>1. rest' = SubSeq(rest, l + 1, k)
      BY <2>5, <2>7
    <3>2. rest' = SubSeq(SubSeq(stream, rd - k + 1, rd), l + 1, k)
      BY <3>1, <2>6, Zenon
    <3>3. l \in 0..k
      BY <2>8
    <3> HIDE DEF l
    <3>4. SubSeq(SubSeq(stream, rd - k + 1, rd), l + 1, k) = SubSeq(stream, rd - (k - l) + 1, rd)
      BY <1>1, <3>3, RecentWhenSlicing
    <3>5. rest' = SubSeq(stream, rd - (k - l) + 1, rd)
      BY <3>2, <3>4, Zenon
    <3> QED
      BY <3>5 DEF l
  <2>10. IsRecent(rest)'
    BY <2>5, <2>8, <2>9 DEF IsRecent
  <2> QED
    BY <2>3, <2>5, <2>10 DEF BufferInv
<1>5. CASE WriteOut \/ SkipWrite
  <2>1. /\ pc = "parse" /\ cbuf' = rest /\ pc' = "read"
        /\ UNCHANGED <<stream, rd>>
    BY <1>5 DEF WriteOut, SkipWrite, ParseDone
  <2> QED
    BY <2>1 DEF BufferInv, IsRecent
<1>6. CASE SkipFails \/ RawForward \/ RawFails
  BY <1>6 DEF SkipFails, RawForward, RawFails, BufferInv
<1>7. CASE Eof
  BY <1>7 DEF Eof, BufferInv, IsRecent
<1>8. CASE ClientClose \/ UNCHANGED vars
  <2>1. UNCHANGED <<stream, rd, pc, rest, cbuf>>
    BY <1>8 DEF ClientClose, vars
  <2> QED
    BY <2>1 DEF BufferInv, IsRecent
<1> QED
  BY <1>2, <1>3, <1>4, <1>5, <1>6, <1>7, <1>8 DEF Next, Pipe, Closed

(* The buffers are empty when the pipe starts, and every step keeps them. *)
LEMMA BufferInvariance == Spec => []BufferInv
<1>1. Init => BufferInv
  <2> SUFFICES ASSUME Init PROVE BufferInv
    OBVIOUS
  <2>1. SubSeq(stream, rd - 0 + 1, rd) = <<>> /\ 0 \in 0..rd
    BY SubSeqEmpty DEF Init
  <2> QED
    BY <2>1 DEF Init, BufferInv, IsRecent
<1> QED
  BY <1>1, TypeCorrect, NextKeepsBuffer, PTL DEF Spec

(* While the stores work, the bytes the loop has yet to parse are exactly the
   most recent bytes of the client's stream. *)
THEOREM BufferIsExact == Spec => []NothingLostInBuffer
<1>1. TypeOK /\ BufferInv => NothingLostInBuffer
  <2> SUFFICES ASSUME TypeOK, BufferInv, ~StoreMayFail PROVE NothingLostInBuffer
    BY DEF NothingLostInBuffer
  <2>1. \A k \in 0..rd : Len(SubSeq(stream, rd - k + 1, rd)) = k
    <3> SUFFICES ASSUME NEW k \in 0..rd PROVE Len(SubSeq(stream, rd - k + 1, rd)) = k
      OBVIOUS
    <3>1. 0 \in 0..k /\ stream \in Seq(Cell) /\ rd \in 0..Len(stream)
      BY DEF TypeOK
    <3> QED
      BY <3>1, RecentWhenSlicing
  <2>2. \A buf : IsRecent(buf) => Len(buf) <= rd /\ buf = LastRead(Len(buf))
    <3> SUFFICES ASSUME NEW buf, NEW k \in 0..rd, buf = SubSeq(stream, rd - k + 1, rd)
                 PROVE  Len(buf) <= rd /\ buf = LastRead(Len(buf))
      BY DEF IsRecent
    <3>1. Len(buf) = k
      BY <2>1
    <3>2. k <= rd
      BY DEF TypeOK
    <3> QED
      BY <3>1, <3>2, Zenon DEF LastRead
  <2> QED
    BY <2>2 DEF BufferInv, NothingLostInBuffer
<1> QED
  BY <1>1, TypeCorrect, BufferInvariance, PTL

-----------------------------------------------------------------------------
(***************************************************************************)
(* The packet boundaries.  Stated over the place in the stream where the   *)
(* loop expects the next header.                                           *)
(***************************************************************************)
\* The client sends a header at place i, or has not sent it yet.
Boundary(i) == i <= Len(stream) => stream[i] \notin Symbols

AlignedInv ==
    ~StoreMayFail => /\ stream \in Framed
                     /\ pc = "parse" => Boundary(rd - Len(rest) + 1)
                     /\ pc # "parse" => Boundary(rd - Len(cbuf) + 1)

(* The packet the loop takes is the one its client framed, so the loop stands at a
   header again when it has consumed it. *)
LEMMA AlignedParse ==
    ASSUME TypeOK, BufferInv, NothingLostInBuffer, AlignedInv, ~StoreMayFail,
           NEW h \in Complete, ParsePacket(h)
    PROVE  AlignedInv'
<1> DEFINE p == rd - Len(rest) + 1
<1>1. /\ stream \in Seq(Cell) /\ DOMAIN stream = 1..Len(stream) /\ Len(stream) \in Nat
      /\ rest \in Seq(Cell) /\ Len(rest) \in Nat /\ rd \in 0..Len(stream)
  BY LenProperties DEF TypeOK
<1>2. pc = "parse" /\ Advance(h)
  BY DEF ParsePacket, BatchPart, EmptyBatch, BlockBatch, ForwardBatch, BatchFails,
         BatchEnd, RpcPart, BlockRpc, RewriteRpc, PassRpc, RpcNotSeen, RpcFails,
         RpcEnd, PassOther, Loop, Raise
<1>3. /\ rest' = SubSeq(rest, h.len + 1, Len(rest))
      /\ UNCHANGED <<stream, rd, pc>>
  BY <1>2 DEF Advance
<1>4. /\ rest # <<>> /\ h \in HeaderAt(Head(rest))
      /\ h.len \in Nat /\ h.len <= Len(rest)
  BY CompleteType DEF Complete, Header
<1>5. Len(rest) # 0 /\ Len(rest) <= rd /\ rest = LastRead(Len(rest))
  BY <1>1, <1>2, <1>4, EmptySeq DEF NothingLostInBuffer
<1>6. p \in DOMAIN stream /\ Head(rest) = stream[p]
  <2>1. p \in 1..Len(stream) /\ p \in 1..rd
    BY <1>1, <1>5
  <2>2. \A i \in p..rd : stream[i] \in Cell
    BY <1>1, <2>1, ElementOfSeq
  <2>3. SubSeq(stream, p, rd)[1] = stream[p]
    BY <1>1, <2>1, <2>2, SubSeqProperties
  <2>4. Head(rest) = rest[1]
    BY <1>1, <1>4
  <2>5. rest[1] = stream[p]
    BY <1>5, <2>3 DEF LastRead
  <2> QED
    BY <1>1, <2>1, <2>4, <2>5
<1>7. stream[p] \notin Symbols /\ h = stream[p]
  BY <1>1, <1>2, <1>4, <1>6 DEF AlignedInv, Boundary, HeaderAt
<1>8. /\ p + h.len <= Len(stream) + 1
      /\ p + h.len <= Len(stream) => stream[p + h.len] \notin Symbols
  BY <1>6, <1>7 DEF AlignedInv, Framed
<1>9. Len(rest') = Len(rest) - h.len
  <2> DEFINE l == h.len
             n == Len(rest)
  <2>1. l \in 0..n /\ n \in Nat /\ rest' = SubSeq(rest, l + 1, n)
    BY <1>1, <1>3, <1>4
  <2>2. \A i \in (l + 1)..n : rest[i] \in Cell
    BY <1>1, <2>1, ElementOfSeq
  <2> HIDE DEF l
  <2>3. Len(SubSeq(rest, l + 1, n)) = n - l
    BY <1>1, <2>1, <2>2, SubSeqProperties
  <2> QED
    BY <2>1, <2>3 DEF l
<1>10. rd - Len(rest') + 1 = p + h.len
  BY <1>1, <1>4, <1>9
<1>11. Boundary(rd - Len(rest) + 1)'
  BY <1>3, <1>8, <1>10 DEF Boundary
<1> QED
  BY <1>2, <1>3, <1>11 DEF AlignedInv

(* Every step leaves the loop at a header of the client's. *)
LEMMA NextKeepsAligned ==
    TypeOK /\ BufferInv /\ NothingLostInBuffer /\ AlignedInv /\ [Next]_vars => AlignedInv'
<1> SUFFICES ASSUME TypeOK, BufferInv, NothingLostInBuffer, AlignedInv, [Next]_vars,
                    ~StoreMayFail
             PROVE  AlignedInv'
  BY DEF AlignedInv
<1>1. /\ stream \in Seq(Cell) /\ DOMAIN stream = 1..Len(stream) /\ Len(stream) \in Nat
      /\ cbuf \in Seq(Cell) /\ Len(cbuf) \in Nat
      /\ rest \in Seq(Cell) /\ Len(rest) \in Nat /\ rd \in 0..Len(stream)
  BY LenProperties DEF TypeOK
<1>2. CASE ClientSend
  <2>1. PICK m \in Messages : stream' = stream \o Wire(m)
    BY <1>2 DEF ClientSend
  <2>2. UNCHANGED <<rd, pc, rest, cbuf>>
    BY <1>2 DEF ClientSend
  <2>3. Wire(m) \in Framed /\ Wire(m) \in Seq(Cell) /\ Len(Wire(m)) \in Nat
    BY WireIsFramed, LenProperties DEF Framed
  <2>4. stream' \in Framed
    BY <2>1, <2>3, FramedConcat DEF AlignedInv
  <2>5. /\ Len(stream') = Len(stream) + Len(Wire(m))
        /\ \A i \in 1..Len(stream) : stream'[i] = stream[i]
        /\ Len(Wire(m)) # 0 => stream'[Len(stream) + 1] = Wire(m)[1]
    BY <1>1, <2>1, <2>3, ConcatProperties
  <2>6. Len(Wire(m)) # 0 => Wire(m)[1] \notin Symbols
    BY <2>3, EmptySeq DEF Framed
  <2>7. ASSUME NEW i \in 1..(Len(stream) + 1), Boundary(i) PROVE Boundary(i)'
    <3>1. CASE i <= Len(stream)
      BY <1>1, <2>5, <2>7, <3>1 DEF Boundary
    <3>2. CASE i = Len(stream) + 1
      BY <1>1, <2>3, <2>5, <2>6, <3>2 DEF Boundary
    <3> QED
      BY <1>1, <3>1, <3>2
  <2>8. /\ pc = "parse" => rd - Len(rest) + 1 \in 1..(Len(stream) + 1)
        /\ pc # "parse" => rd - Len(cbuf) + 1 \in 1..(Len(stream) + 1)
    BY <1>1 DEF NothingLostInBuffer
  <2>9. /\ pc' = "parse" => Boundary(rd - Len(rest) + 1)'
        /\ pc' # "parse" => Boundary(rd - Len(cbuf) + 1)'
    BY <2>2, <2>7, <2>8 DEF AlignedInv
  <2> QED
    BY <2>4, <2>9 DEF AlignedInv
<1>3. CASE ReadData
  <2>1. PICK k \in 1..ReadMax : /\ rd + k <= Len(stream) /\ rd' = rd + k
                                /\ data' = SubSeq(stream, rd + 1, rd + k)
    BY <1>3 DEF ReadData
  <2>2. k \in Nat \ {0}
    BY BoundsAssumption
  <2>3. /\ pc = "read" /\ pc' = "parse" /\ stream' = stream /\ rest' = cbuf \o data'
    BY <1>3 DEF ReadData
  <2>4. data' \in Seq(Cell) /\ Len(data') = k
    <3>1. \A i \in (rd + 1)..(rd + k) : stream[i] \in Cell
      BY <1>1, <2>1, <2>2, ElementOfSeq
    <3> QED
      BY <1>1, <2>1, <2>2, <3>1, SubSeqProperties
  <2>5. Len(rest') = Len(cbuf) + k
    BY <1>1, <2>3, <2>4, ConcatProperties
  <2>6. rd' - Len(rest') + 1 = rd - Len(cbuf) + 1
    BY <1>1, <2>1, <2>2, <2>5
  <2> QED
    BY <2>3, <2>6 DEF AlignedInv, Boundary
<1>4. CASE \E h \in Complete : ParsePacket(h)
  BY <1>4, AlignedParse
<1>5. CASE WriteOut \/ SkipWrite
  <2>1. /\ pc = "parse" /\ cbuf' = rest /\ pc' = "read"
        /\ UNCHANGED <<stream, rd>>
    BY <1>5 DEF WriteOut, SkipWrite, ParseDone
  <2> QED
    BY <2>1 DEF AlignedInv, Boundary
<1>6. CASE SkipFails \/ RawForward \/ RawFails
  BY <1>6 DEF SkipFails, RawForward, RawFails, BufferInv
<1>7. CASE Eof \/ ClientClose \/ UNCHANGED vars
  <2>1. /\ UNCHANGED <<stream, rd, rest, cbuf>>
        /\ pc = "parse" <=> pc' = "parse"
    BY <1>7 DEF Eof, ClientClose, vars
  <2> QED
    BY <2>1 DEF AlignedInv, Boundary
<1> QED
  BY <1>2, <1>3, <1>4, <1>5, <1>6, <1>7 DEF Next, Pipe, Closed

(* However the reads cut the stream, the loop never takes a byte of a payload for
   a header while the stores work. *)
THEOREM LoopStaysAligned == Spec => []HeadersAligned
<1>1. Init => AlignedInv
  <2> SUFFICES ASSUME Init PROVE AlignedInv
    OBVIOUS
  <2>1. stream = <<>> /\ Len(stream) = 0 /\ <<>> \in Framed
    BY EmptySeq DEF Init, Framed
  <2>2. rd - Len(cbuf) + 1 = 1 /\ pc # "parse"
    BY EmptySeq DEF Init
  <2> QED
    BY <2>1, <2>2 DEF AlignedInv, Boundary
<1>2. TypeOK /\ NothingLostInBuffer /\ AlignedInv => HeadersAligned
  <2> SUFFICES ASSUME TypeOK, NothingLostInBuffer, AlignedInv, ~StoreMayFail
               PROVE  HeadersAligned
    BY DEF HeadersAligned
  <2>1. ASSUME NEW buf \in Seq(Cell), buf # <<>>, Len(buf) <= rd, buf = LastRead(Len(buf)),
               Boundary(rd - Len(buf) + 1)
        PROVE  Head(buf) \notin Symbols
    <3> DEFINE p == rd - Len(buf) + 1
    <3>1. /\ stream \in Seq(Cell) /\ Len(stream) \in Nat /\ rd \in 0..Len(stream)
          /\ Len(buf) \in Nat /\ Len(buf) # 0
      BY <2>1, LenProperties, EmptySeq DEF TypeOK
    <3>2. p \in 1..Len(stream) /\ p \in 1..rd
      BY <2>1, <3>1
    <3>3. \A i \in p..rd : stream[i] \in Cell
      BY <3>1, <3>2, ElementOfSeq
    <3>4. SubSeq(stream, p, rd)[1] = stream[p]
      BY <3>1, <3>2, <3>3, SubSeqProperties
    <3>5. Head(buf) = stream[p]
      <4>1. Head(buf) = buf[1]
        BY <2>1, <3>1
      <4>2. buf = SubSeq(stream, p, rd)
        BY <2>1, Zenon DEF LastRead
      <4> QED
        BY <3>4, <4>1, <4>2, Zenon
    <3> QED
      BY <2>1, <3>1, <3>2, <3>5 DEF Boundary
  <2> QED
    BY <2>1 DEF HeadersAligned, NothingLostInBuffer, AlignedInv, TypeOK
<1>3. Spec => []BufferInv
  BY BufferInvariance
<1> QED
  BY <1>1, <1>2, <1>3, TypeCorrect, BufferIsExact, NextKeepsAligned, PTL DEF Spec

-----------------------------------------------------------------------------
(***************************************************************************)
(* Dropped messages and the decision log.                                  *)
(***************************************************************************)
BlockNames == {e \in Entries : e[1] = "block"}

\* The log entries of a table that say "block", numbered.
Made(table) == UNION {{e} \X (1..table[e]) : e \in BlockNames}

(* Only a rule blocks, and the decision names it. *)
LEMMA BlockingRule ==
    ASSUME NEW ev, Decide(Rules, ev).action = "block"
    PROVE  <<"block", Decide(Rules, ev).rule>> \in BlockNames
<1> DEFINE hits  == {i \in DOMAIN Rules : Applies(Rules[i], ev)}
           first == CHOOSE i \in hits : \A j \in hits : i <= j
<1>1. CASE hits = {}
  BY <1>1 DEF Decide
<1>2. CASE hits # {}
  <2>1. hits \subseteq Nat
    BY RulesAreFinite
  <2>2. \E i \in hits : \A j \in hits : i <= j
    <3> HIDE DEF hits
    <3> QED
      BY <1>2, <2>1, LeastNumber
  <2>3. first \in DOMAIN Rules
    BY <2>2
  <2>4. Decide(Rules, ev) = [action |-> Rules[first].action, rule |-> Rules[first].id]
    BY <1>2 DEF Decide
  <2> HIDE DEF first
  <2>5. Decide(Rules, ev).rule \in RuleIds
    BY <2>3, <2>4 DEF RuleIds
  <2> QED
    BY <2>5 DEF BlockNames, Entries, Actions
<1> QED
  BY <1>1, <1>2

(* When no counter of the log falls, neither does the number of its "block"
   entries; when one of these counters rises, so does their number. *)
LEMMA MadeGrows ==
    ASSUME NEW a \in [Entries -> Nat], NEW b \in [Entries -> Nat],
           \A e \in Entries : a[e] <= b[e]
    PROVE  /\ Cardinality(Made(a)) \in Nat /\ Cardinality(Made(b)) \in Nat
           /\ Cardinality(Made(a)) <= Cardinality(Made(b))
           /\ (\E e \in BlockNames : a[e] < b[e]) =>
                 Cardinality(Made(a)) < Cardinality(Made(b))
<1>1. BlockNames \subseteq Entries
  BY DEF BlockNames
<1>2. IsFiniteSet(BlockNames)
  <2>1. IsFiniteSet({"block"} \X (RuleIds \cup {None}))
    BY RulesAreFinite, FS_AddElement, FS_Singleton, FS_Product
  <2>2. BlockNames \subseteq {"block"} \X (RuleIds \cup {None})
    BY DEF BlockNames, Entries
  <2> QED
    BY <2>1, <2>2, FS_Subset
<1>3. ASSUME NEW t \in [Entries -> Nat] PROVE IsFiniteSet(Made(t))
  <2> DEFINE rows == {{e} \X (1..t[e]) : e \in BlockNames}
             row  == [e \in BlockNames |-> {e} \X (1..t[e])]
  <2>1. row \in Surjection(BlockNames, rows)
    BY DEF Surjection
  <2>2. IsFiniteSet(rows)
    <3> HIDE DEF row, rows
    <3> QED
      BY <1>2, <2>1, FS_Surjection
  <2>3. ASSUME NEW e \in BlockNames PROVE IsFiniteSet({e} \X (1..t[e]))
    <3>1. t[e] \in Nat
      BY <1>1
    <3> DEFINE n == t[e]
    <3>2. IsFiniteSet(1..n) /\ IsFiniteSet({e})
      <4> HIDE DEF n
      <4>1. 1 \in Int /\ n \in Int
        BY <3>1 DEF n
      <4> QED
        BY <4>1, FS_Interval, FS_Singleton
    <3> QED
      BY <3>2, FS_Product
  <2>4. IsFiniteSet(UNION rows)
    <3>1. \A T \in rows : IsFiniteSet(T)
      BY <2>3
    <3> HIDE DEF rows
    <3> QED
      BY <2>2, <3>1, FS_UNION
  <2> QED
    BY <2>4 DEF Made
<1>4. Made(a) \in SUBSET Made(b)
  <2> SUFFICES ASSUME NEW e \in BlockNames, NEW n \in 1..a[e] PROVE n \in 1..b[e]
    BY DEF Made
  <2>1. a[e] \in Nat /\ b[e] \in Nat /\ a[e] <= b[e]
    BY <1>1
  <2> QED
    BY <2>1
<1>5. ASSUME NEW e \in BlockNames, a[e] < b[e] PROVE Made(a) # Made(b)
  <2>1. a[e] \in Nat /\ b[e] \in Nat
    BY <1>1
  <2>2. b[e] \in 1..b[e] /\ b[e] \notin 1..a[e]
    BY <1>5, <2>1
  <2>3. <<e, b[e]>> \in Made(b)
    BY <2>2 DEF Made
  <2>4. <<e, b[e]>> \notin Made(a)
    BY <2>2 DEF Made
  <2> QED
    BY <2>3, <2>4
<1>6. /\ Cardinality(Made(a)) \in Nat /\ Cardinality(Made(b)) \in Nat
      /\ Cardinality(Made(a)) <= Cardinality(Made(b))
      /\ Cardinality(Made(a)) = Cardinality(Made(b)) => Made(a) = Made(b)
  <2>1. IsFiniteSet(Made(a)) /\ IsFiniteSet(Made(b))
    BY <1>3
  <2> QED
    BY <1>4, <2>1, FS_Subset, FS_CardinalityType
<1> QED
  BY <1>5, <1>6

(* Logging an entry once or more raises its counter. *)
LEMMA TallyRaises ==
    ASSUME NEW table \in [Entries -> Nat], NEW S, IsFiniteSet(S), NEW E,
           NEW e \in Entries, NEW i \in S, E[i] = e
    PROVE  table[e] < Tally(table, S, E)[e]
<1> DEFINE same == {j \in S : E[j] = e}
<1>1. IsFiniteSet(same) /\ i \in same
  BY FS_Subset
<1>2. Cardinality(same) \in Nat /\ Cardinality(same) # 0
  BY <1>1, FS_CardinalityType, FS_EmptySet
<1>3. table[e] < table[e] + Cardinality(same)
  BY <1>2
<1> QED
  BY <1>3 DEF Tally

\* Dropped messages.
Dropped == metrics["blocks"] + metrics["rpc_blocked"]

(* A batch that is dropped is logged as blocked. *)
LEMMA BlockBatchLogged ==
    ASSUME TypeOK, NEW h \in Complete, BlockBatch(h)
    PROVE  /\ Dropped' = Dropped + 1
           /\ \A e \in Entries : audit[e] <= audit'[e]
           /\ \E e \in BlockNames : audit[e] < audit'[e]
<1> DEFINE text == BatchText(h)
           E == [i \in 0..Len(text) |-> BatchEntry(text, i)]
           e == <<"block", StatementDecision(text).rule>>
<1>1. StatementDecision(text).action = "block" /\ LogBatch(text, {0}, {0}) /\ Count("blocks")
  BY DEF BlockBatch, Enforced, Blocked
<1>2. e \in BlockNames
  BY <1>1, BlockingRule DEF StatementDecision
<1>3. audit' = Tally(audit, {0}, E)
  BY <1>1 DEF LogBatch
<1>4. Len(text) \in Nat
  BY CompleteType, ConcatProperties, TextType, LenProperties
     DEF BatchText, Gathered, TypeOK
<1>5. E[0] = e
  BY <1>1, <1>4 DEF BatchEntry
<1>6. audit \in [Entries -> Nat] /\ metrics \in [Counters -> Nat]
  BY DEF TypeOK
<1>7. IsFiniteSet({0}) /\ e \in Entries
  BY <1>2, FS_Singleton DEF BlockNames
<1> HIDE DEF E, e, text
<1>8. audit[e] < audit'[e] /\ \A f \in Entries : audit[f] <= audit'[f]
  BY <1>3, <1>5, <1>6, <1>7, TallyRaises, TallyGrows
<1>9. Dropped' = Dropped + 1
  BY <1>1, <1>6 DEF Count, Dropped, Counters
<1> QED
  BY <1>2, <1>8, <1>9

(* So is a call. *)
LEMMA BlockRpcLogged ==
    ASSUME TypeOK, NEW h \in Complete, BlockRpc(h)
    PROVE  /\ Dropped' = Dropped + 1
           /\ \A e \in Entries : audit[e] <= audit'[e]
           /\ \E e \in BlockNames : audit[e] < audit'[e]
<1> DEFINE body == RpcBody(h)
           d == [i \in DOMAIN body |-> ParamDecision(body[i])]
           D == [i \in DOMAIN body |-> <<d[i].action, d[i].rule>>]
           F == [i \in DOMAIN body |-> <<"rpc_autocorrect_inplace", d[i].rule>>]
           seen == Tally(audit, Params(body), D)
<1>1. PICK i \in Params(body) : ParamDecision(body[i]).action = "block"
  BY DEF BlockRpc, RpcDropped, RpcBlocked
<1> DEFINE e == <<"block", ParamDecision(body[i]).rule>>
<1>2. e \in BlockNames
  BY <1>1, BlockingRule DEF ParamDecision
<1>3. audit' = Tally(seen, {}, F)
  BY DEF BlockRpc, LogRpc
<1>4. body \in Seq(Cell)
  BY CompleteType, ConcatProperties DEF RpcBody, Gathered, TypeOK
<1>5. IsFiniteSet(Params(body)) /\ IsFiniteSet({})
  BY <1>4, PositionsFinite, FS_EmptySet
<1>6. D[i] = e
  BY <1>1 DEF Params
<1>7. audit \in [Entries -> Nat] /\ metrics \in [Counters -> Nat] /\ e \in Entries
  BY <1>2 DEF TypeOK, BlockNames
<1> HIDE DEF body, d, D, F, e
<1>8. /\ seen \in [Entries -> Nat] /\ audit[e] < seen[e]
      /\ \A f \in Entries : audit[f] <= seen[f]
  BY <1>1, <1>5, <1>6, <1>7, TallyRaises, TallyGrows, TallyType
<1> HIDE DEF seen
<1>9. audit' \in [Entries -> Nat] /\ \A f \in Entries : seen[f] <= audit'[f]
  BY <1>3, <1>5, <1>8, TallyGrows, TallyType
<1>10. \A f \in Entries : audit[f] <= audit'[f]
  BY <1>7, <1>8, <1>9
<1>11. audit[e] < audit'[e]
  BY <1>7, <1>8, <1>9
<1>12. Dropped' = Dropped + 1
  BY <1>7 DEF BlockRpc, Dropped, Counters
<1> QED
  BY <1>2, <1>10, <1>11, <1>12

\* The log has lost nothing.
LogGrew == \A e \in Entries : audit[e] <= audit'[e]

(* Logging a batch loses nothing. *)
LEMMA LogBatchGrows ==
    ASSUME TypeOK, NEW text, NEW logged, NEW counted, IsFiniteSet(logged),
           LogBatch(text, logged, counted)
    PROVE  LogGrew
<1> DEFINE E == [i \in 0..Len(text) |-> BatchEntry(text, i)]
<1>1. audit' = Tally(audit, logged, E) /\ audit \in [Entries -> Nat]
  BY DEF LogBatch, TypeOK
<1> HIDE DEF E
<1> QED
  BY <1>1, TallyGrows DEF LogGrew

(* Logging a call loses nothing. *)
LEMMA LogRpcGrows ==
    ASSUME TypeOK, NEW body, NEW looked, NEW fixed, NEW counted,
           IsFiniteSet(looked), IsFiniteSet(fixed), LogRpc(body, looked, fixed, counted)
    PROVE  LogGrew
<1> DEFINE d == [i \in DOMAIN body |-> ParamDecision(body[i])]
           D == [i \in DOMAIN body |-> <<d[i].action, d[i].rule>>]
           F == [i \in DOMAIN body |-> <<"rpc_autocorrect_inplace", d[i].rule>>]
           seen == Tally(audit, looked, D)
<1> HIDE DEF D, F
<1>1. audit' = Tally(seen, fixed, F) /\ audit \in [Entries -> Nat]
  BY DEF LogRpc, D, F, TypeOK
<1>2. seen \in [Entries -> Nat] /\ \A e \in Entries : audit[e] <= seen[e]
  BY <1>1, TallyType, TallyGrows
<1> HIDE DEF seen
<1>3. \A e \in Entries : seen[e] <= audit'[e]
  BY <1>1, <1>2, TallyGrows
<1>4. audit' \in [Entries -> Nat]
  BY <1>1, <1>2, TallyType
<1> QED
  BY <1>1, <1>2, <1>3, <1>4 DEF LogGrew

(* No step on a packet loses a log entry, and only a drop counts as one. *)
LEMMA ParseLogs ==
    ASSUME TypeOK, NEW h \in Complete, ParsePacket(h)
    PROVE  /\ LogGrew
           /\ BlockBatch(h) \/ BlockRpc(h) \/ Dropped' = Dropped
<1> DEFINE text == BatchText(h)
           body == RpcBody(h)
<1>1. text \in Seq(Cell) /\ body \in Seq(Cell)
  BY CompleteType, ConcatProperties, TextType DEF BatchText, RpcBody, Gathered, TypeOK
<1>2. /\ IsFiniteSet({0} \cup Corrections(text)) /\ IsFiniteSet({0})
      /\ IsFiniteSet(Params(body)) /\ IsFiniteSet(Fittable(body)) /\ IsFiniteSet({})
  BY <1>1, PositionsFinite, FS_Singleton, FS_EmptySet
<1>3. metrics \in [Counters -> Nat] /\ audit \in [Entries -> Nat]
  BY DEF TypeOK
<1>4. \A c \in {"gated_by_threshold", "rpc_seen"} : Count(c) => Dropped' = Dropped
  BY <1>3 DEF Count, Dropped, Counters
<1>5. UNCHANGED metrics => Dropped' = Dropped
  BY DEF Dropped
<1>6. UNCHANGED audit => LogGrew
  BY <1>3 DEF LogGrew
<1> HIDE DEF text, body
<1>7. CASE BlockBatch(h)
  BY <1>2, <1>7, LogBatchGrows DEF BlockBatch, text
<1>8. CASE ForwardBatch(h)
  <2>1. Dropped' = Dropped
    BY <1>4, <1>5, <1>8 DEF ForwardBatch
  <2>2. LogBatch(text, {0} \cup Corrections(text), {0} \cup Corrections(text))
    BY <1>8 DEF ForwardBatch, text
  <2> QED
    BY <1>2, <2>1, <2>2, LogBatchGrows
<1>9. CASE BatchFails(h)
  <2> DEFINE entries == {0} \cup Corrections(text)
  <2>1. PICK p, logged : LogBatch(text, {i \in entries : i < p \/ (logged /\ i = p)},
                                        {i \in entries : i < p})
    BY <1>9 DEF BatchFails, text
  <2>2. IsFiniteSet({i \in entries : i < p \/ (logged /\ i = p)})
    BY <1>2, FS_Subset
  <2>3. LogGrew
    BY <2>1, <2>2, LogBatchGrows
  <2> QED
    BY <1>5, <1>9, <2>3 DEF BatchFails
<1>10. CASE BlockRpc(h)
  BY <1>2, <1>10, LogRpcGrows DEF BlockRpc, body
<1>11. CASE RewriteRpc(h)
  <2>1. LogRpc(body, Params(body), Fittable(body), Fittable(body)) /\ Count("rpc_seen")
    BY <1>11 DEF RewriteRpc, body
  <2> QED
    BY <1>2, <1>4, <2>1, LogRpcGrows
<1>12. CASE PassRpc(h)
  <2>1. LogRpc(body, Params(body), {}, {}) /\ Count("rpc_seen")
    BY <1>12 DEF PassRpc, body
  <2> QED
    BY <1>2, <1>4, <2>1, LogRpcGrows
<1>13. CASE RpcFails(h)
  <2> DEFINE fixes == IF RpcRewritten(body) THEN Fittable(body) ELSE {}
  <2>1. IsFiniteSet(fixes)
    BY <1>2
  <2>2. CASE \E p \in Params(body) : LogRpc(body, {i \in Params(body) : i < p}, {}, {})
    <3>1. PICK p \in Params(body) : LogRpc(body, {i \in Params(body) : i < p}, {}, {})
      BY <2>2
    <3>2. IsFiniteSet({i \in Params(body) : i < p})
      BY <1>2, FS_Subset
    <3> QED
      BY <1>2, <1>4, <1>13, <3>1, <3>2, LogRpcGrows DEF RpcFails
  <2>3. CASE LogRpc(body, Params(body), {}, {})
    BY <1>2, <1>4, <1>13, <2>3, LogRpcGrows DEF RpcFails
  <2>4. CASE \E p \in fixes, logged \in BOOLEAN :
               LogRpc(body, Params(body), {i \in fixes : i < p \/ (logged /\ i = p)},
                                          {i \in fixes : i < p})
    <3> HIDE DEF fixes
    <3>1. PICK p, logged :
               LogRpc(body, Params(body), {i \in fixes : i < p \/ (logged /\ i = p)},
                                          {i \in fixes : i < p})
      BY <2>4
    <3>2. IsFiniteSet({i \in fixes : i < p \/ (logged /\ i = p)})
      BY <2>1, FS_Subset
    <3>3. LogGrew
      BY <1>2, <3>1, <3>2, LogRpcGrows
    <3> QED
      BY <1>4, <1>13, <3>3 DEF RpcFails
  <2> QED
    BY <1>13, <2>2, <2>3, <2>4 DEF RpcFails, body
<1>14. CASE BatchPart(h) \/ EmptyBatch(h) \/ RpcPart(h) \/ RpcNotSeen(h) \/ PassOther(h)
  BY <1>5, <1>6, <1>14 DEF BatchPart, EmptyBatch, RpcPart, RpcNotSeen, PassOther, stores
<1> QED
  BY <1>7, <1>8, <1>9, <1>10, <1>11, <1>12, <1>13, <1>14 DEF ParsePacket

(* Every message dropped because of a rule is in the decision log, whichever write
   fails afterwards: the entries that say "block" are at least as many. *)
THEOREM DropsAreAudited == Spec => []DropsAudited
<1>1. BlockEntries = Made(audit) /\ (BlockEntries)' = Made(audit')
  BY DEF BlockEntries, Made, BlockNames
<1>2. Init => DropsAudited
  <2> SUFFICES ASSUME Init PROVE DropsAudited
    OBVIOUS
  <2>1. metrics["blocks"] + metrics["rpc_blocked"] = 0
    BY DEF Init, Counters
  <2>2. Cardinality(BlockEntries) \in Nat
    BY <1>1, MadeGrows DEF Init
  <2> QED
    BY <2>1, <2>2 DEF DropsAudited
<1>3. TypeOK /\ TypeOK' /\ DropsAudited /\ [Next]_vars => DropsAudited'
  <2> SUFFICES ASSUME TypeOK, TypeOK', DropsAudited, [Next]_vars PROVE DropsAudited'
    OBVIOUS
  <2>1. /\ audit \in [Entries -> Nat] /\ audit' \in [Entries -> Nat]
        /\ Dropped \in Nat
    <3>1. audit \in [Entries -> Nat] /\ metrics \in [Counters -> Nat]
      BY DEF TypeOK
    <3>2. audit' \in [Entries -> Nat]
      BY DEF TypeOK
    <3>3. Dropped \in Nat
      BY <3>1 DEF Dropped, Counters
    <3> QED
      BY <3>1, <3>2, <3>3
  <2>2. Dropped <= Cardinality(Made(audit))
    BY <1>1 DEF DropsAudited, Dropped
  <2>3. DropsAudited' <=> Dropped' <= Cardinality(Made(audit'))
    BY <1>1 DEF DropsAudited, Dropped
  <2>4. LogGrew => /\ Cardinality(Made(audit)) \in Nat /\ Cardinality(Made(audit')) \in Nat
                   /\ Cardinality(Made(audit)) <= Cardinality(Made(audit'))
                   /\ (\E e \in BlockNames : audit[e] < audit'[e]) =>
                         Cardinality(Made(audit)) < Cardinality(Made(audit'))
    BY <2>1, MadeGrows DEF LogGrew
  <2>5. ASSUME LogGrew, Dropped' = Dropped PROVE DropsAudited'
    BY <2>1, <2>2, <2>3, <2>4, <2>5
  <2>6. ASSUME NEW h \in Complete, ParsePacket(h) PROVE DropsAudited'
    <3>1. CASE BlockBatch(h) \/ BlockRpc(h)
      <4>1. /\ Dropped' = Dropped + 1 /\ LogGrew
            /\ \E e \in BlockNames : audit[e] < audit'[e]
        BY <3>1, BlockBatchLogged, BlockRpcLogged DEF LogGrew
      <4> QED
        BY <2>1, <2>2, <2>3, <2>4, <4>1
    <3>2. CASE ~(BlockBatch(h) \/ BlockRpc(h))
      BY <2>5, <2>6, <3>2, ParseLogs
    <3> QED
      BY <3>1, <3>2
  <2>7. CASE ~\E h \in Complete : ParsePacket(h)
    <3>1. UNCHANGED audit
      BY <2>7 DEF Next, Pipe, Closed, ClientSend, ClientClose, ReadData, Eof, WriteOut,
                  SkipWrite, SkipFails, ParseDone, RawForward, RawFails, vars
    <3>2. UNCHANGED metrics \/ Count("rewrite_skipped_size") \/ Count("rewrite_skipped_budget")
      BY <2>7 DEF Next, Pipe, Closed, ClientSend, ClientClose, ReadData, Eof, WriteOut,
                  SkipWrite, SkipFails, ParseDone, RawForward, RawFails, vars
    <3>3. Dropped' = Dropped
      BY <3>2 DEF Count, Dropped, TypeOK, Counters
    <3>4. LogGrew
      BY <2>1, <3>1 DEF LogGrew
    <3> QED
      BY <2>5, <3>3, <3>4
  <2> QED
    BY <2>6, <2>7
<1> QED
  BY <1>2, <1>3, TypeCorrect, PTL DEF Spec

-----------------------------------------------------------------------------
(***************************************************************************)
(* What a rewrite changes.                                                 *)
(***************************************************************************)
\* The condition OnlyValuesRewritten puts on the payload new made of a text.
Ruled(text)  == {i \in Values(text) : ColumnDecision(text, i).action = "autocorrect"}
Behind(text) == {i \in DOMAIN text \ Values(text) : IsInsert(text) /\ \E v \in Values(text) : v < i}

Stands(text, kept, new) ==
    /\ Len(new) = Cardinality(kept)
    /\ \A i \in kept :
          LET now == new[Position(kept, i)]
          IN  \/ i \notin Values(text) /\ now = text[i]
              \/ i \in Values(text)    /\ now = Requote[text[i]]
              \/ i \in Ruled(text)     /\ now = Requote[Suggest[text[i]]]

KeepsText(text, new) ==
    new # text =>
        /\ Enforcing /\ Ruled(text) # {}
        /\ \E kept \in {DOMAIN text, DOMAIN text \ Behind(text)} : Stands(text, kept, new)

(* What the rewriting of a statement keeps of it is all of it, or all but what stands
   behind the values of an INSERT. *)
LEMMA KeptIs ==
    ASSUME NEW text \in Seq(Cell)
    PROVE  Kept(text) \in {DOMAIN text, DOMAIN text \ Behind(text)}
<1>1. Len(text) \in Nat /\ DOMAIN text = 1..Len(text)
  BY LenProperties
<1>2. \A i \in Values(text) : i \in 1..Len(text)
  BY ValuesAreSymbols
<1>3. CASE IsInsert(text) /\ AllRows(text)
  <2> DEFINE values == Values(text)
  <2>1. Kept(text) = values \cup {i \in DOMAIN text : \A v \in values : i < v}
    BY <1>3 DEF Kept, UpToValues
  <2>2. Behind(text) = {i \in DOMAIN text \ values : \E v \in values : v < i}
    BY <1>3 DEF Behind
  <2>3. \A i \in DOMAIN text \ values : (\A v \in values : i < v) <=> ~\E v \in values : v < i
    <3> SUFFICES ASSUME NEW i \in DOMAIN text \ values, NEW v \in values
                 PROVE  i < v <=> ~(v < i)
      OBVIOUS
    <3>1. i \in Nat /\ v \in Nat /\ i # v
      BY <1>1, <1>2
    <3> QED
      BY <3>1
  <2>4. values \subseteq DOMAIN text
    BY <1>1, <1>2
  <2>5. \A i \in values : ~\A v \in values : i < v
    BY <1>1, <1>2
  <2> HIDE DEF values
  <2> QED
    BY <2>1, <2>2, <2>3, <2>4, <2>5
<1>4. CASE ~(IsInsert(text) /\ AllRows(text))
  BY <1>1, <1>4 DEF Kept
<1> QED
  BY <1>3, <1>4

(* Whatever the rules, a correction changes a text only as OnlyValuesRewritten says. *)
LEMMA CorrectedKeepsText ==
    ASSUME NEW text \in Seq(Cell)
    PROVE  KeepsText(text, Corrected(text)) /\ KeepsText(text, text)
<1> DEFINE new  == Reencoded(text)
           kept == Kept(text)
<1>1. SUFFICES ASSUME Enforcing, Correctable(text) # {}, Corrected(text) = Rewrite(text)
               PROVE  KeepsText(text, Rewrite(text))
  BY DEF Corrected, KeepsText
<1>2. Correctable(text) \subseteq Ruled(text)
  BY DEF Correctable, Ruled
<1>3. /\ new \in Seq(Cell) /\ DOMAIN new = DOMAIN text
      /\ \A i \in DOMAIN text :
            new[i] = IF i \in Correctable(text) THEN Requote[Suggest[text[i]]]
                     ELSE IF i \in Values(text) THEN Requote[text[i]] ELSE text[i]
  BY ReencodedIs, LenProperties
<1>4. kept \in {DOMAIN text, DOMAIN text \ Behind(text)}
  BY KeptIs
<1>5. kept \in SUBSET DOMAIN new
  BY <1>3, <1>4
<1> HIDE DEF new, kept
<1>6. /\ Len(Selected(new, kept)) = Cardinality(kept)
      /\ \A i \in kept : Selected(new, kept)[Position(kept, i)] = new[i]
  BY <1>3, <1>5, SelectedAt
<1>7. Stands(text, kept, Selected(new, kept))
  BY <1>2, <1>3, <1>5, <1>6 DEF Stands
<1>8. Rewrite(text) = Selected(new, kept)
  BY DEF Rewrite, new, kept
<1> QED
  BY <1>1, <1>2, <1>4, <1>7, <1>8 DEF KeepsText

\* The condition on one piece of output.
Faithful(p) == p.typ = "batch" => KeepsText(Text(p.src), Tail(p.cells))

\* It holds of what is written and of what is about to be.
FaithfulInv == \A p \in ToSet(up) \cup ToSet(out) : Faithful(p)

(* A step that adds at most one piece, a faithful one, keeps the invariant. *)
LEMMA FaithfulByOnePiece ==
    ASSUME TypeOK, FaithfulInv, UNCHANGED up,
           out' = out \/ out' = <<>>
             \/ \E p \in Piece : Faithful(p) /\ out' = Append(out, p)
    PROVE  FaithfulInv'
<1>1. ToSet(<<>>) = {}
  BY DEF ToSet
<1>2. \A p \in ToSet(up) \cup ToSet(out) : Faithful(p)
  BY DEF FaithfulInv
<1>3. \A p \in ToSet(up') \cup ToSet(out') : Faithful(p)
  <2>1. CASE out' = out \/ out' = <<>>
    BY <1>1, <1>2, <2>1
  <2>2. CASE \E p \in Piece : Faithful(p) /\ out' = Append(out, p)
    <3>1. PICK p \in Piece : Faithful(p) /\ out' = Append(out, p)
      BY <2>2
    <3>2. ToSet(out') = ToSet(out) \cup {p}
      BY <3>1, PiecesOfAppend DEF TypeOK
    <3> HIDE DEF Faithful
    <3> QED
      BY <1>2, <3>1, <3>2
  <2> QED
    BY <2>1, <2>2
<1> QED
  BY <1>3 DEF FaithfulInv

(* What a rebuilt packet carries is the payload it is made for. *)
LEMMA RebuiltPayload ==
    ASSUME NEW typ, NEW new \in Seq(Cell), NEW src
    PROVE  Tail(Rebuilt(typ, new, src).cells) = new
<1> DEFINE h == [typ |-> typ, eom |-> TRUE, mark |-> "first", len |-> (1 + Len(new)) % LenMod]
<1>1. Rebuilt(typ, new, src).cells = <<h>> \o new
  BY DEF Rebuilt
<1> HIDE DEF h
<1> DEFINE S == Cell \cup {h}
           s == <<h>> \o new
           t == Tail(s)
<1>2. new \in Seq(S) /\ <<h>> \in Seq(S) /\ Len(<<h>>) = 1
  BY SeqMonotonic
<1> HIDE DEF S
<1>3. /\ s \in Seq(S)
      /\ Len(s) = 1 + Len(new)
      /\ \A i \in 1 .. 1 + Len(new) : i > 1 => s[i] = new[i - 1]
  BY <1>2, ConcatProperties
<1> HIDE DEF s
<1>4. s # <<>> /\ Len(new) \in Nat
  BY <1>2, <1>3, EmptySeq, LenProperties
<1>5. t \in Seq(S) /\ Len(t) = Len(s) - 1 /\ \A i \in 1 .. Len(s) - 1 : t[i] = s[i + 1]
  BY <1>3, <1>4, HeadTailProperties
<1> HIDE DEF t
<1>6. Len(t) = Len(new) /\ \A i \in 1 .. Len(t) : t[i] = new[i]
  BY <1>3, <1>4, <1>5
<1>7. t = new
  BY <1>2, <1>5, <1>6, SeqEqual
<1> QED
  BY <1>1, <1>7 DEF s, t

(* Every batch the proxy writes is the text of the batch the client sent, or that text
   with its values written again: in enforce mode, with an autocorrect rule about one of
   them, a suggestion only where such a rule stands, and with nothing gone but what
   stood behind the values of an INSERT. *)
THEOREM OnlyValuesAreRewritten == Spec => []OnlyValuesRewritten
<1>1. Init => FaithfulInv
  BY DEF Init, FaithfulInv, ToSet
<1>2. TypeOK /\ FaithfulInv /\ [Next]_vars => FaithfulInv'
  <2> SUFFICES ASSUME TypeOK, FaithfulInv, [Next]_vars PROVE FaithfulInv'
    OBVIOUS
  <2>1. ASSUME NEW h \in Complete, ForwardBatch(h) PROVE FaithfulInv'
    <3> DEFINE whole == Gathered(sqlChunks, h)
               text  == Text(whole)
    <3>1. whole \in Seq(Cell) /\ text \in Seq(Cell) /\ Corrected(text) \in Seq(Cell)
      BY CompleteType, ConcatProperties, TextType, CorrectedType DEF Gathered, TypeOK
    <3>2. UNCHANGED up /\ \E new \in {text, Corrected(text)} :
              out' = Append(out, Rebuilt("batch", new, whole))
      BY <2>1 DEF ForwardBatch, BatchText, Advance
    <3> HIDE DEF whole
    <3>3. \A new \in {text, Corrected(text)} :
             Rebuilt("batch", new, whole) \in Piece /\ Faithful(Rebuilt("batch", new, whole))
      <4> SUFFICES ASSUME NEW new \in {text, Corrected(text)}
                   PROVE  Rebuilt("batch", new, whole) \in Piece
                          /\ Faithful(Rebuilt("batch", new, whole))
        OBVIOUS
      <4>1. new \in Seq(Cell) /\ KeepsText(text, new)
        BY <3>1, CorrectedKeepsText
      <4>2. Tail(Rebuilt("batch", new, whole).cells) = new
        BY <4>1, RebuiltPayload
      <4>3. Rebuilt("batch", new, whole).src = whole
        BY DEF Rebuilt
      <4> QED
        BY <3>1, <4>1, <4>2, <4>3, RebuiltType DEF Types, Faithful
    <3> HIDE DEF text
    <3> QED
      BY <3>2, <3>3, FaithfulByOnePiece
  <2>2. ASSUME NEW h \in Complete, ParsePacket(h), ~ForwardBatch(h) PROVE FaithfulInv'
    <3>1. UNCHANGED up
      BY <2>2 DEF ParsePacket, BatchPart, EmptyBatch, BlockBatch, BatchFails, RpcPart, BlockRpc,
                  RewriteRpc, PassRpc, RpcNotSeen, RpcFails, PassOther, Advance, Raise
    <3>2. CASE RewriteRpc(h)
      <4> DEFINE body == RpcBody(h)
      <4>1. body \in Seq(Cell) /\ FitInPlace(body) \in Seq(Cell)
        BY CompleteType, ConcatProperties, FitInPlaceType DEF RpcBody, Gathered, TypeOK
      <4>2. \E new \in {FitInPlace(body), body} : out' = Append(out, Rebuilt("rpc", new, body))
        BY <3>2 DEF RewriteRpc, RpcBody
      <4> HIDE DEF body
      <4>3. \A new \in Seq(Cell) :
               Rebuilt("rpc", new, body) \in Piece /\ Faithful(Rebuilt("rpc", new, body))
        BY <4>1, RebuiltType DEF Types, Rebuilt, Faithful
      <4> QED
        BY <3>1, <4>1, <4>2, <4>3, FaithfulByOnePiece
    <3>3. CASE PassRpc(h) \/ PassOther(h)
      <4>1. PICK src \in Seq(Cell) : out' = Append(out, Passed(h, src))
        BY <3>3, EmptySeq, CompleteType, ConcatProperties
           DEF PassRpc, PassOther, Gathered, TypeOK
      <4>2. h.typ # "batch"
        BY <3>3 DEF PassRpc, RpcEnd, PassOther, Loop
      <4>3. Passed(h, src) \in Piece /\ Faithful(Passed(h, src))
        BY <4>1, <4>2, PassedType DEF Passed, Faithful
      <4> QED
        BY <3>1, <4>1, <4>3, FaithfulByOnePiece
    <3>4. CASE ~(RewriteRpc(h) \/ PassRpc(h) \/ PassOther(h))
      <4>1. out' = out \/ out' = <<>>
        BY <2>2, <3>4 DEF ParsePacket, BatchPart, EmptyBatch, BlockBatch, BatchFails, RpcPart,
                          BlockRpc, RpcNotSeen, RpcFails, Raise
      <4> QED
        BY <3>1, <4>1, FaithfulByOnePiece
    <3> QED
      BY <3>2, <3>3, <3>4
  <2>3. CASE WriteOut
    <3>1. up' = up \o out /\ out' = <<>>
      BY <2>3 DEF WriteOut, ParseDone
    <3>2. ToSet(up') \cup ToSet(out') \subseteq ToSet(up) \cup ToSet(out)
      BY <3>1, PiecesOfConcat DEF TypeOK, ToSet
    <3> QED
      BY <3>2 DEF FaithfulInv, Faithful
  <2>4. CASE RawForward
    <3> DEFINE p == [origin |-> "raw", typ |-> "other", cells |-> data, src |-> <<>>]
    <3>1. p \in Piece
      BY DEF Piece, Types, TypeOK
    <3>2. up' = Append(up, p) /\ out' = out
      BY <2>4 DEF RawForward
    <3>3. ToSet(up') \cup ToSet(out') = ToSet(up) \cup ToSet(out) \cup {p}
      BY <3>1, <3>2, PiecesOfAppend DEF TypeOK
    <3>4. p.typ = "other"
      OBVIOUS
    <3> QED
      BY <3>3, <3>4 DEF FaithfulInv, Faithful
  <2>5. CASE SkipWrite \/ SkipFails \/ ReadData
    <3>1. UNCHANGED up /\ out' = <<>>
      BY <2>5 DEF SkipWrite, SkipFails, ParseDone, ReadData
    <3> QED
      BY <3>1, FaithfulByOnePiece
  <2>6. CASE ClientSend \/ ClientClose \/ Eof \/ RawFails \/ UNCHANGED vars
    <3>1. UNCHANGED <<up, out>>
      BY <2>6 DEF ClientSend, ClientClose, Eof, RawFails, vars
    <3> QED
      BY <3>1, FaithfulByOnePiece
  <2> QED
    BY <2>1, <2>2, <2>3, <2>4, <2>5, <2>6 DEF Next, Pipe, Closed
<1>3. FaithfulInv => OnlyValuesRewritten
  BY DEF FaithfulInv, Faithful, KeepsText, Stands, Ruled, Behind, OnlyValuesRewritten
<1> QED
  BY <1>1, <1>2, <1>3, TypeCorrect, PTL DEF Spec
=============================================================================
