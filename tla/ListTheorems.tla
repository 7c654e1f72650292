---------------------------- MODULE ListTheorems ----------------------------
(***************************************************************************)
(* Facts about lists that the proofs of several components need: what a    *)
(* selection keeps of a list, and what joining a list of lists preserves.  *)
(* Induction is over sets of numbers, by the least one that is missing.    *)
(***************************************************************************)
EXTENDS Selections, SequencesExt, WellFoundedInduction,
        FiniteSetTheorems, SequenceTheorems, TLAPS

-----------------------------------------------------------------------------
(***************************************************************************)
(* Selections.                                                             *)
(***************************************************************************)
(* The positions among n places are the numbers 1..n, one of each. *)
LEMMA EveryPosition ==
    ASSUME NEW n \in Nat, NEW I \in SUBSET (1..n)
    PROVE  /\ IsFiniteSet(I) /\ Cardinality(I) \in Nat
           /\ \A k \in 1..Cardinality(I) : \E i \in I : Position(I, i) = k
           /\ \A i \in I : Position(I, i) \in 1..Cardinality(I)
           /\ \A i, j \in I : Position(I, i) = Position(I, j) => i = j
<1> DEFINE size == Cardinality(I)
           upto(i) == {j \in I : j <= i}
           rank == [i \in I |-> Position(I, i)]
<1>1. IsFiniteSet(1..n)
  BY FS_Interval
<1>2. IsFiniteSet(I) /\ size \in Nat
  BY <1>1, FS_Subset, FS_CardinalityType
<1>3. ASSUME NEW i \in I
      PROVE  /\ IsFiniteSet(upto(i)) /\ Position(I, i) = Cardinality(upto(i))
             /\ Position(I, i) \in 1..size
  <2>1. upto(i) \in SUBSET I
    OBVIOUS
  <2>2. IsFiniteSet(upto(i)) /\ Cardinality(upto(i)) <= size
    BY <1>2, <2>1, FS_Subset
  <2>3. i \in upto(i)
    BY <1>3
  <2>4. Cardinality(upto(i)) \in Nat /\ Cardinality(upto(i)) # 0
    BY <2>2, <2>3, FS_CardinalityType, FS_EmptySet
  <2>5. Position(I, i) = Cardinality(upto(i))
    BY DEF Position
  <2> HIDE DEF upto, size
  <2> QED
    BY <1>2, <2>2, <2>4, <2>5
<1>4. ASSUME NEW i \in I, NEW j \in I, i < j PROVE Position(I, i) # Position(I, j)
  <2>1. upto(i) \in SUBSET upto(j)
    <3> SUFFICES ASSUME NEW k \in I, k <= i PROVE k <= j
      OBVIOUS
    <3>1. i \in Nat /\ j \in Nat /\ k \in Nat
      OBVIOUS
    <3> QED
      BY <1>4, <3>1
  <2>2. j \in upto(j) /\ j \notin upto(i)
    BY <1>4
  <2>3. upto(i) # upto(j)
    BY <2>2
  <2>4. Cardinality(upto(j)) # Cardinality(upto(i))
    BY <1>3, <2>1, <2>3, FS_Subset
  <2> QED
    BY <1>3, <2>4
<1>5. ASSUME NEW i \in I, NEW j \in I, i # j PROVE Position(I, i) # Position(I, j)
  <2>1. i < j \/ j < i
    BY <1>5
  <2> QED
    BY <1>4, <2>1
<1>6. rank \in Injection(I, 1..size)
  <2>1. rank \in [I -> 1..size]
    BY <1>3
  <2>2. \A i, j \in I : rank[i] = rank[j] => i = j
    BY <1>5
  <2> HIDE DEF rank
  <2> QED
    BY <2>1, <2>2 DEF Injection, IsInjective
<1>7. IsFiniteSet(1..size) /\ Cardinality(1..size) = size
  BY <1>2, FS_Interval
<1>8. rank \in Surjection(I, 1..size)
  BY <1>6, <1>7, FS_Injection
<1>9. \A k \in 1..size : \E i \in I : rank[i] = k
  BY <1>8 DEF Surjection
<1> QED
  BY <1>2, <1>3, <1>5, <1>9

(* The element of each selected place stands at the number of that place. *)
LEMMA SelectedAt ==
    ASSUME NEW S, NEW s \in Seq(S), NEW I \in SUBSET DOMAIN s
    PROVE  /\ Len(Selected(s, I)) = Cardinality(I)
           /\ \A i \in I : Selected(s, I)[Position(I, i)] = s[i]
<1> DEFINE size == Cardinality(I)
           at(k) == CHOOSE i \in I : Position(I, i) = k
<1>1. Len(s) \in Nat /\ DOMAIN s = 1..Len(s)
  BY LenProperties
<1>2. /\ size \in Nat
      /\ \A i \in I : Position(I, i) \in 1..size
      /\ \A i, j \in I : Position(I, i) = Position(I, j) => i = j
  BY <1>1, EveryPosition
<1>3. Selected(s, I) = [k \in 1..size |-> s[at(k)]]
  BY DEF Selected
<1>4. ASSUME NEW i \in I PROVE Selected(s, I)[Position(I, i)] = s[i]
  <2>1. at(Position(I, i)) = i
    BY <1>2
  <2>2. Selected(s, I)[Position(I, i)] = s[at(Position(I, i))]
    <3> HIDE DEF at
    <3> QED
      BY <1>2, <1>3
  <2> QED
    BY <2>1, <2>2
<1>5. Len(Selected(s, I)) = size
  <2> HIDE DEF size, at
  <2> QED
    BY <1>2, <1>3
<1> QED
  BY <1>4, <1>5

(* A selection is a list of some of the elements, each place once. *)
LEMMA SelectedParts ==
    ASSUME NEW S, NEW s \in Seq(S), NEW I \in SUBSET DOMAIN s
    PROVE  /\ Selected(s, I) \in Seq(S)
           /\ \E place \in [DOMAIN Selected(s, I) -> I] :
                 /\ \A k \in DOMAIN Selected(s, I) : Selected(s, I)[k] = s[place[k]]
                 /\ \A k, l \in DOMAIN Selected(s, I) : place[k] = place[l] => k = l
<1> DEFINE size == Cardinality(I)
           place == [k \in 1..size |-> CHOOSE i \in I : Position(I, i) = k]
<1>1. Len(s) \in Nat /\ DOMAIN s = 1..Len(s) /\ I \in SUBSET (1..Len(s))
  BY LenProperties
<1>2. size \in Nat /\ \A k \in 1..size : \E i \in I : Position(I, i) = k
  BY <1>1, EveryPosition
<1>3. \A k \in 1..size : place[k] \in I /\ Position(I, place[k]) = k
  BY <1>2
<1>4. place \in [1..size -> I]
  BY <1>3
<1>5. Selected(s, I) = [k \in 1..size |-> s[place[k]]]
  BY DEF Selected
<1> HIDE DEF place, size
<1>6. \A k \in 1..size : s[place[k]] \in S
  BY <1>1, <1>3, ElementOfSeq
<1>7. Selected(s, I) \in [1..size -> S] /\ DOMAIN Selected(s, I) = 1..size
  BY <1>5, <1>6
<1>8. Selected(s, I) \in Seq(S)
  BY <1>2, <1>7, SeqDef
<1>9. \A k \in 1..size : Selected(s, I)[k] = s[place[k]]
  BY <1>5
<1>10. \A k, l \in 1..size : place[k] = place[l] => k = l
  BY <1>3
<1>11. place \in [DOMAIN Selected(s, I) -> I]
  BY <1>4, <1>7
<1> QED
  BY <1>7, <1>8, <1>9, <1>10, <1>11

-----------------------------------------------------------------------------
(***************************************************************************)
(* Joining.                                                                *)
(***************************************************************************)
(* A set of numbers has a least one. *)
LEMMA LeastNumber ==
    ASSUME NEW S, S \subseteq Nat, S # {}
    PROVE  \E k \in S : \A m \in S : k <= m
<1> DEFINE less == OpToRel(<, Nat)
<1>1. \A y, x \in Nat : <<y, x>> \in less <=> y < x
  BY DEF OpToRel
<1>2. IsWellFoundedOn(less, Nat)
  BY NatLessThanWellFounded, Zenon
<1> HIDE DEF less
<1>3. PICK k \in S : \A m \in S : <<m, k>> \notin less
  BY <1>2, WFMin
<1>4. \A m \in S : ~(m < k)
  BY <1>1, <1>3
<1>5. \A x, y \in Nat : ~(x < y) => y <= x
  OBVIOUS
<1> QED
  BY <1>4, <1>5

(* A set of numbers that has 1, and the next one of each, has all up to n. *)
LEMMA AllUpTo ==
    ASSUME NEW n \in Nat, NEW G, 1 \in G,
           \A k \in 1..n : k + 1 \in 1..n /\ k \in G => k + 1 \in G
    PROVE  1..n \subseteq G
<1> DEFINE missing == {k \in Nat : k \in 1..n /\ k \notin G}
<1> SUFFICES ASSUME missing # {} PROVE FALSE
  OBVIOUS
<1>0. missing \subseteq Nat /\ missing # {}
  OBVIOUS
<1>1. PICK k \in missing : \A m \in missing : k <= m
  <2> HIDE DEF missing
  <2> QED
    BY <1>0, LeastNumber
<1>2. k \in 1..n /\ k \notin G /\ k # 1
  BY <1>1
<1>3. k - 1 \in 1..n /\ (k - 1) + 1 = k
  BY <1>2
<1>4. k - 1 \in G
  BY <1>1, <1>3
<1> QED
  BY <1>2, <1>3, <1>4

(* Joining is done one list at a time, from the first on. *)
LEMMA FlattenIs ==
    ASSUME NEW ss, NEW n \in Nat \ {0}, Len(ss) = n
    PROVE  \E f : /\ f = [i \in 1..n |-> IF i = 1 THEN ss[i] ELSE f[i - 1] \o ss[i]]
                  /\ FlattenSeq(ss) = f[n]
<1> DEFINE Joins(f, k) == f = [i \in 1..k |-> IF i = 1 THEN ss[i] ELSE f[i - 1] \o ss[i]]
           flatten == CHOOSE f : Joins(f, n)
           G == {k \in 1..n : \E f : Joins(f, k)}
<1>1. 1 \in G
  <2>1. Joins([i \in 1..1 |-> ss[1]], 1)
    OBVIOUS
  <2> HIDE DEF Joins
  <2> QED
    BY <2>1
<1>2. ASSUME NEW k \in 1..n, k + 1 \in 1..n, k \in G PROVE k + 1 \in G
  <2>1. PICK f : Joins(f, k)
    BY <1>2
  <2> DEFINE g == [i \in 1..(k + 1) |-> IF i = k + 1 THEN f[k] \o ss[i] ELSE f[i]]
  <2>2. k \in Nat /\ k # 0 /\ k + 1 # 1
    OBVIOUS
  <2>3. ASSUME NEW i \in 1..(k + 1)
        PROVE  g[i] = IF i = 1 THEN ss[i] ELSE g[i - 1] \o ss[i]
    <3>1. CASE i = k + 1
      <4>1. i - 1 = k /\ k \in 1..(k + 1) /\ k # k + 1
        BY <2>2, <3>1
      <4> QED
        BY <2>2, <3>1, <4>1
    <3>2. CASE i \in 1..k /\ i # 1
      <4>1. i - 1 \in 1..(k + 1) /\ i - 1 # k + 1 /\ i # k + 1
        BY <2>2, <3>2
      <4>2. g[i] = f[i] /\ g[i - 1] = f[i - 1]
        BY <4>1
      <4>3. f[i] = f[i - 1] \o ss[i]
        BY <2>1, <3>2
      <4> HIDE DEF g
      <4> QED
        BY <3>2, <4>2, <4>3
    <3>3. CASE i = 1
      <4>1. f[1] = ss[1]
        BY <2>1, <2>2
      <4> QED
        BY <2>2, <3>3, <4>1
    <3> QED
      BY <2>2, <3>1, <3>2, <3>3
  <2>4. g = [i \in 1..(k + 1) |-> g[i]]
    OBVIOUS
  <2> HIDE DEF g
  <2>5. Joins(g, k + 1)
    BY <2>3, <2>4
  <2> QED
    BY <1>2, <2>5
<1> HIDE DEF G
<1>3. 1..n \subseteq G
  BY <1>1, <1>2, AllUpTo
<1>4. \E f : Joins(f, n)
  <2>1. n \in G
    BY <1>3
  <2> HIDE DEF Joins
  <2> QED
    BY <2>1 DEF G
<1>5. Joins(flatten, n)
  BY <1>4
<1>6. FlattenSeq(ss) = flatten[n]
  BY DEF FlattenSeq
<1> HIDE DEF flatten
<1> QED
  BY <1>5, <1>6

(* What holds of every list of a list, of the empty one and of two joined, holds
   of all of them joined.  The condition is given as the set of lists that have it. *)
LEMMA FlattenKeeps ==
    ASSUME NEW P, NEW ss \in Seq(P), <<>> \in P, \A a, b \in P : a \o b \in P
    PROVE  FlattenSeq(ss) \in P
<1> DEFINE n == Len(ss)
<1>1. n \in Nat /\ \A i \in 1..n : ss[i] \in P
  BY LenProperties, ElementOfSeq
<1>2. CASE n = 0
  <2>1. ss = <<>>
    BY <1>2, EmptySeq
  <2> QED
    BY <1>2, <2>1 DEF FlattenSeq
<1>3. CASE n # 0
  <2>1. PICK f : /\ f = [i \in 1..n |-> IF i = 1 THEN ss[i] ELSE f[i - 1] \o ss[i]]
                 /\ FlattenSeq(ss) = f[n]
    BY <1>1, <1>3, FlattenIs
  <2> DEFINE G == {k \in 1..n : f[k] \in P}
  <2>2. 1 \in G
    BY <1>1, <1>3, <2>1
  <2>3. ASSUME NEW k \in 1..n, k + 1 \in 1..n, k \in G PROVE k + 1 \in G
    <3>1. k + 1 # 1 /\ (k + 1) - 1 = k
      BY <1>1
    <3>2. f[k + 1] = f[k] \o ss[k + 1]
      BY <2>1, <2>3, <3>1
    <3> QED
      BY <1>1, <2>3, <3>2
  <2> HIDE DEF G
  <2>4. 1..n \subseteq G
    BY <1>1, <2>2, <2>3, AllUpTo
  <2>5. n \in G
    BY <1>1, <1>3, <2>4
  <2> QED
    BY <2>1, <2>5 DEF G
<1> QED
  BY <1>2, <1>3

(* Lists of elements of a set, joined, are such a list. *)
LEMMA FlattenType ==
    ASSUME NEW S, NEW ss \in Seq(Seq(S))
    PROVE  FlattenSeq(ss) \in Seq(S)
<1>1. \A a, b \in Seq(S) : a \o b \in Seq(S)
  BY ConcatProperties
<1> QED
  BY <1>1, EmptySeq, FlattenKeeps

(* One list more is joined behind the others. *)
LEMMA FlattenAppend ==
    ASSUME NEW S, NEW ss \in Seq(Seq(S)), NEW x \in Seq(S)
    PROVE  FlattenSeq(Append(ss, x)) = FlattenSeq(ss) \o x
<1> DEFINE n == Len(ss)
           more == Append(ss, x)
<1>1. /\ n \in Nat /\ Len(more) = n + 1 /\ more[n + 1] = x
      /\ \A i \in 1..n : more[i] = ss[i]
  BY LenProperties, AppendProperties
<1> HIDE DEF more
<1>2. PICK g : /\ g = [i \in 1..(n + 1) |-> IF i = 1 THEN more[i] ELSE g[i - 1] \o more[i]]
               /\ FlattenSeq(more) = g[n + 1]
  <2> DEFINE l == n + 1
  <2>1. l \in Nat \ {0} /\ Len(more) = l
    BY <1>1
  <2> HIDE DEF l
  <2>2. \E g : /\ g = [i \in 1..l |-> IF i = 1 THEN more[i] ELSE g[i - 1] \o more[i]]
               /\ FlattenSeq(more) = g[l]
    BY <2>1, FlattenIs
  <2> QED
    BY <2>2 DEF l
<1>3. CASE n = 0
  <2>1. ss = <<>> /\ FlattenSeq(<<>>) = <<>>
    BY <1>3, EmptySeq DEF FlattenSeq
  <2>2. g[1] = x
    BY <1>1, <1>2, <1>3
  <2>3. <<>> \o x = x
    BY ConcatEmptySeq
  <2>4. FlattenSeq(more) = x
    BY <1>2, <1>3, <2>2
  <2> QED
    BY <2>1, <2>3, <2>4 DEF more
<1>4. CASE n # 0
  <2>1. PICK f : /\ f = [i \in 1..n |-> IF i = 1 THEN ss[i] ELSE f[i - 1] \o ss[i]]
                 /\ FlattenSeq(ss) = f[n]
    BY <1>1, <1>4, FlattenIs, ZenonT(60)
  <2> DEFINE G == {k \in 1..n : f[k] = g[k]}
  <2>2. 1 \in G
    <3>1. f[1] = ss[1] /\ g[1] = more[1] /\ more[1] = ss[1]
      BY <1>1, <1>2, <1>4, <2>1
    <3> QED
      BY <1>1, <1>4, <3>1
  <2>3. ASSUME NEW k \in 1..n, k + 1 \in 1..n, k \in G PROVE k + 1 \in G
    <3>1. k + 1 # 1 /\ (k + 1) - 1 = k /\ k + 1 \in 1..(n + 1)
      BY <1>1
    <3>2. f[k + 1] = f[k] \o ss[k + 1] /\ g[k + 1] = g[k] \o more[k + 1]
      BY <1>2, <2>1, <2>3, <3>1
    <3> QED
      BY <1>1, <2>3, <3>2
  <2> HIDE DEF G
  <2>4. 1..n \subseteq G
    BY <1>1, <2>2, <2>3, AllUpTo
  <2>5. f[n] = g[n]
    BY <1>1, <1>4, <2>4, SMTT(20) DEF G
  <2>6. g[n + 1] = g[n] \o more[n + 1]
    <3>1. n + 1 # 1 /\ (n + 1) - 1 = n /\ n + 1 \in 1..(n + 1)
      BY <1>1, <1>4
    <3> QED
      BY <1>2, <3>1
  <2> QED
    BY <1>1, <1>2, <2>1, <2>5, <2>6 DEF more
<1> QED
  BY <1>3, <1>4

(* The first lists, one more of them. *)
LEMMA FirstOnes ==
    ASSUME NEW S, NEW s \in Seq(S)
    PROVE  /\ SubSeq(s, 1, 0) = <<>> /\ SubSeq(s, 1, Len(s)) = s
           /\ \A n \in 0..Len(s) : SubSeq(s, 1, n) \in Seq(S) /\ Len(SubSeq(s, 1, n)) = n
           /\ \A n \in 0..(Len(s) - 1) :
                 s[n + 1] \in S /\ SubSeq(s, 1, n + 1) = Append(SubSeq(s, 1, n), s[n + 1])
           /\ \A n \in 0..Len(s), x \in S : SubSeq(Append(s, x), 1, n) = SubSeq(s, 1, n)
<1>1. Len(s) \in Nat /\ \A i \in 1..Len(s) : s[i] \in S
  BY LenProperties, ElementOfSeq
<1>2. SubSeq(s, 1, 0) = <<>> /\ SubSeq(s, 1, Len(s)) = s
  BY SubSeqEmpty, SubSeqFull
<1>3. ASSUME NEW n \in 0..Len(s)
      PROVE  /\ SubSeq(s, 1, n) \in Seq(S) /\ Len(SubSeq(s, 1, n)) = n
             /\ \A i \in 1..n : SubSeq(s, 1, n)[i] = s[i]
  BY <1>1, SubSeqProperties
<1>4. ASSUME NEW n \in 0..(Len(s) - 1)
      PROVE  s[n + 1] \in S /\ SubSeq(s, 1, n + 1) = Append(SubSeq(s, 1, n), s[n + 1])
  <2> DEFINE a == SubSeq(s, 1, n + 1)
             b == SubSeq(s, 1, n)
  <2>1. n \in 0..Len(s) /\ n + 1 \in 0..Len(s) /\ n + 1 \in 1..Len(s)
    BY <1>1
  <2>2. /\ a \in Seq(S) /\ Len(a) = n + 1 /\ \A i \in 1..(n + 1) : a[i] = s[i]
        /\ b \in Seq(S) /\ Len(b) = n /\ \A i \in 1..n : b[i] = s[i]
    BY <1>3, <2>1
  <2>3. s[n + 1] \in S
    BY <1>1, <2>1
  <2> HIDE DEF a, b
  <2>4. /\ Append(b, s[n + 1]) \in Seq(S) /\ Len(Append(b, s[n + 1])) = n + 1
        /\ \A i \in 1..(n + 1) : Append(b, s[n + 1])[i] = s[i]
    BY <2>1, <2>2, <2>3, AppendProperties
  <2>5. a = Append(b, s[n + 1])
    BY <2>2, <2>4, SeqEqual
  <2> QED
    BY <2>3, <2>5 DEF a, b
<1>5. ASSUME NEW n \in 0..Len(s), NEW x \in S
      PROVE  SubSeq(Append(s, x), 1, n) = SubSeq(s, 1, n)
  <2>1. /\ Append(s, x) \in Seq(S) /\ \A i \in 1..n : Append(s, x)[i] = s[i] /\ s[i] \in S
    BY <1>1, AppendProperties
  <2>2. /\ SubSeq(Append(s, x), 1, n) \in Seq(S) /\ Len(SubSeq(Append(s, x), 1, n)) = n
        /\ \A i \in 1..n : SubSeq(Append(s, x), 1, n)[i] = s[i]
    BY <1>1, <2>1, SubSeqProperties
  <2> QED
    BY <1>3, <2>2, SeqEqual
<1> QED
  BY <1>1, <1>2, <1>3, <1>4, <1>5

(* Joining the first lists of a list yields a first part of all of them joined. *)
LEMMA FlattenSplit ==
    ASSUME NEW S, NEW ss \in Seq(Seq(S)), NEW n \in 0..Len(ss)
    PROVE  /\ FlattenSeq(SubSeq(ss, 1, n)) \in Seq(S)
           /\ n < Len(ss) => FlattenSeq(SubSeq(ss, 1, n + 1))
                                = FlattenSeq(SubSeq(ss, 1, n)) \o ss[n + 1]
           /\ \E t \in Seq(S) : FlattenSeq(ss) = FlattenSeq(SubSeq(ss, 1, n)) \o t
<1> DEFINE First(k) == FlattenSeq(SubSeq(ss, 1, k))
<1>1. Len(ss) \in Nat
  BY LenProperties
<1>2. \A k \in 0..Len(ss) : First(k) \in Seq(S)
  BY FirstOnes, FlattenType
<1>3. ASSUME NEW k \in 0..Len(ss), k < Len(ss)
      PROVE  ss[k + 1] \in Seq(S) /\ First(k + 1) = First(k) \o ss[k + 1]
  <2>1. k \in 0..(Len(ss) - 1)
    BY <1>1, <1>3
  <2>2. /\ SubSeq(ss, 1, k + 1) = Append(SubSeq(ss, 1, k), ss[k + 1])
        /\ SubSeq(ss, 1, k) \in Seq(Seq(S)) /\ ss[k + 1] \in Seq(S)
    BY <2>1, FirstOnes
  <2> QED
    BY <2>2, FlattenAppend
<1>4. First(Len(ss)) = FlattenSeq(ss)
  BY FirstOnes
<1> HIDE DEF First
<1> DEFINE G == {j \in 1..(Len(ss) - n + 1) : \E t \in Seq(S) : First(n + j - 1) = First(n) \o t}
<1>5. 1 \in G
  <2>1. First(n) = First(n) \o <<>> /\ <<>> \in Seq(S)
    BY <1>2, ConcatEmptySeq, EmptySeq
  <2>2. n + 1 - 1 = n /\ 1 \in 1..(Len(ss) - n + 1)
    BY <1>1
  <2> QED
    BY <2>1, <2>2
<1>6. ASSUME NEW j \in 1..(Len(ss) - n + 1), j + 1 \in 1..(Len(ss) - n + 1), j \in G
      PROVE  j + 1 \in G
  <2>1. PICK t \in Seq(S) : First(n + j - 1) = First(n) \o t
    BY <1>6
  <2> DEFINE k == n + j - 1
  <2>2. k \in 0..Len(ss) /\ k < Len(ss) /\ n + (j + 1) - 1 = k + 1
    BY <1>1, <1>6
  <2> HIDE DEF k
  <2>3. ss[k + 1] \in Seq(S) /\ First(k + 1) = First(k) \o ss[k + 1]
    BY <1>3, <2>2
  <2> DEFINE x == ss[k + 1]
  <2>4. x \in Seq(S) /\ First(n) \in Seq(S) /\ First(k) = First(n) \o t /\ First(k + 1) = First(k) \o x
    BY <1>2, <2>1, <2>3 DEF k
  <2> HIDE DEF x
  <2>5. First(k + 1) = First(n) \o (t \o x) /\ t \o x \in Seq(S)
    <3>1. (First(n) \o t) \o x = First(n) \o (t \o x)
      BY <2>4, ConcatAssociative, SMTT(20)
    <3>2. t \o x \in Seq(S)
      BY <2>4, ConcatProperties
    <3> QED
      BY <2>4, <3>1, <3>2, Zenon
  <2>6. \E r \in Seq(S) : First(n + (j + 1) - 1) = First(n) \o r
    BY <2>2, <2>5
  <2> QED
    BY <1>6, <2>6
<1> HIDE DEF G
<1>7. 1..(Len(ss) - n + 1) \subseteq G
  <2>1. Len(ss) - n + 1 \in Nat
    BY <1>1
  <2> QED
    BY <1>5, <1>6, <2>1, AllUpTo
<1>8. \E t \in Seq(S) : First(Len(ss)) = First(n) \o t
  <2> DEFINE j == Len(ss) - n + 1
  <2>1. j \in 1..j /\ n + j - 1 = Len(ss)
    BY <1>1
  <2>2. j \in G
    BY <1>7, <2>1
  <2> HIDE DEF j
  <2> QED
    BY <2>1, <2>2 DEF G
<1> QED
  BY <1>2, <1>3, <1>4, <1>8 DEF First

-----------------------------------------------------------------------------
(***************************************************************************)
(* Parts of lists.                                                         *)
(***************************************************************************)
(* An element in front of a list. *)
LEMMA InFront ==
    ASSUME NEW S, NEW h \in S, NEW s \in Seq(S)
    PROVE  /\ <<h>> \o s \in Seq(S) /\ Len(<<h>> \o s) = 1 + Len(s)
           /\ Head(<<h>> \o s) = h /\ Tail(<<h>> \o s) = s
           /\ (<<h>> \o s)[1] = h
           /\ \A i \in 1..Len(s) : (<<h>> \o s)[i + 1] = s[i]
<1> DEFINE w == <<h>> \o s
           t == Tail(w)
<1>1. Len(s) \in Nat /\ <<h>> \in Seq(S) /\ Len(<<h>>) = 1
  BY LenProperties
<1>2. /\ w \in Seq(S) /\ Len(w) = 1 + Len(s) /\ w[1] = h
      /\ \A i \in 1..(1 + Len(s)) : i > 1 => w[i] = s[i - 1]
  BY <1>1, ConcatProperties
<1> HIDE DEF w
<1>3. w # <<>> /\ \A i \in 1..Len(s) : w[i + 1] = s[i]
  <2>1. w # <<>>
    BY <1>1, <1>2, EmptySeq
  <2>2. ASSUME NEW i \in 1..Len(s) PROVE w[i + 1] = s[i]
    <3>1. i + 1 \in 1..(1 + Len(s)) /\ i + 1 > 1 /\ (i + 1) - 1 = i
      BY <1>1
    <3> QED
      BY <1>2, <3>1
  <2> QED
    BY <2>1, <2>2
<1>4. t \in Seq(S) /\ Len(t) = Len(w) - 1 /\ \A i \in 1..(Len(w) - 1) : t[i] = w[i + 1]
  BY <1>2, <1>3, HeadTailProperties
<1> HIDE DEF t
<1>5. Len(t) = Len(s) /\ \A i \in 1..Len(t) : t[i] = s[i]
  BY <1>1, <1>2, <1>3, <1>4
<1>6. t = s
  BY <1>4, <1>5, SeqEqual
<1>7. Head(w) = h
  BY <1>2, <1>3
<1> QED
  BY <1>2, <1>3, <1>6, <1>7 DEF w, t

(* Two lists joined, place by place. *)
LEMMA JoinedTwo ==
    ASSUME NEW S, NEW a \in Seq(S), NEW b \in Seq(S),
           NEW la, NEW lb, la = Len(a), lb = Len(b)
    PROVE  /\ la \in Nat /\ lb \in Nat
           /\ a \o b \in Seq(S) /\ Len(a \o b) = la + lb
           /\ \A i \in 1..la : (a \o b)[i] = a[i]
           /\ \A i \in 1..lb : (a \o b)[la + i] = b[i]
<1>1. la \in Nat /\ lb \in Nat
  BY LenProperties
<1>2. /\ a \o b \in Seq(S) /\ Len(a \o b) = la + lb
      /\ \A i \in 1..(la + lb) : (a \o b)[i] = IF i <= la THEN a[i] ELSE b[i - la]
  BY ConcatProperties
<1>3. \A i \in 1..la : i \in 1..(la + lb) /\ i <= la
  BY <1>1
<1>4. \A i \in 1..lb : la + i \in 1..(la + lb) /\ ~(la + i <= la) /\ (la + i) - la = i
  BY <1>1
<1> QED
  BY <1>1, <1>2, <1>3, <1>4

\* In s, w stands behind the first n elements.
StandsAt(w, s, n) ==
    /\ n + Len(w) <= Len(s)
    /\ \A i \in 1..Len(w) : s[n + i] = w[i]

(* Where a list stands in one it was joined into. *)
LEMMA WithinJoined ==
    ASSUME NEW S, NEW a \in Seq(S), NEW b \in Seq(S), NEW w \in Seq(S),
           NEW c \in Seq(S), NEW d \in Seq(S),
           NEW n, n = Len(a) + Len(b), NEW s, s = (a \o ((b \o w) \o c)) \o d
    PROVE  StandsAt(w, s, n)
<1> DEFINE bw == b \o w
           bwc == bw \o c
           abwc == a \o bwc
           la == Len(a)
           lb == Len(b)
           lw == Len(w)
           lc == Len(c)
           ld == Len(d)
<1>0. /\ la = Len(a) /\ lb = Len(b) /\ lw = Len(w) /\ lc = Len(c) /\ ld = Len(d)
      /\ n = la + lb
  OBVIOUS
<1>1. la \in Nat /\ lb \in Nat /\ lw \in Nat /\ lc \in Nat /\ ld \in Nat
  BY LenProperties
<1> HIDE DEF la, lb, lw, lc, ld
<1> DEFINE lbw == lb + lw
           lbwc == lbw + lc
           labwc == la + lbwc
<1>2. /\ bw \in Seq(S) /\ Len(bw) = lbw
      /\ \A i \in 1..lw : bw[lb + i] = w[i]
  BY <1>0, JoinedTwo
<1>a. lbw \in Nat /\ lbwc \in Nat
  BY <1>1
<1> HIDE DEF bw, lbw
<1>3. /\ bwc \in Seq(S) /\ Len(bwc) = lbwc
      /\ \A i \in 1..lbw : bwc[i] = bw[i]
  BY <1>0, <1>2, JoinedTwo
<1> HIDE DEF bwc, lbwc
<1>4. /\ abwc \in Seq(S) /\ Len(abwc) = labwc
      /\ \A i \in 1..lbwc : abwc[la + i] = bwc[i]
  BY <1>0, <1>3, JoinedTwo
<1>b. labwc \in Nat
  BY <1>1, <1>a
<1> HIDE DEF abwc, labwc
<1>5. /\ Len(s) = labwc + ld
      /\ \A i \in 1..labwc : s[i] = abwc[i]
  <2>1. s = abwc \o d
    BY DEF abwc, bwc, bw
  <2> QED
    BY <1>0, <1>4, <2>1, JoinedTwo
<1>6. ASSUME NEW i \in 1..lw PROVE s[n + i] = w[i]
  <2>1. /\ n + i \in 1..labwc /\ n + i = la + (lb + i)
        /\ lb + i \in 1..lbwc /\ lb + i \in 1..lbw
    BY <1>0, <1>1 DEF lbw, lbwc, labwc
  <2>2. s[n + i] = abwc[la + (lb + i)]
    BY <1>5, <2>1
  <2>3. abwc[la + (lb + i)] = bwc[lb + i]
    BY <1>4, <2>1
  <2> QED
    BY <1>2, <1>3, <2>1, <2>2, <2>3
<1>7. n + lw <= Len(s)
  BY <1>0, <1>1, <1>5 DEF lbw, lbwc, labwc
<1> QED
  BY <1>0, <1>6, <1>7 DEF StandsAt

(* A list is found again where its elements are. *)
LEMMA PartIs ==
    ASSUME NEW S, NEW s \in Seq(S), NEW w \in Seq(S), NEW p \in Nat, p + Len(w) <= Len(s),
           \A i \in 1..Len(w) : s[p + i] = w[i]
    PROVE  SubSeq(s, p + 1, p + Len(w)) = w
<1>1. Len(s) \in Nat /\ Len(w) \in Nat /\ \A i \in 1..Len(s) : s[i] \in S
  BY LenProperties, ElementOfSeq
<1> DEFINE part == SubSeq(s, p + 1, p + Len(w))
<1>2. /\ part \in Seq(S)
      /\ Len(part) = IF p + 1 <= p + Len(w) THEN (p + Len(w)) - (p + 1) + 1 ELSE 0
      /\ \A i \in 1..((p + Len(w)) - (p + 1) + 1) : part[i] = s[(p + 1) + i - 1]
  BY <1>1, SubSeqProperties
<1> HIDE DEF part
<1>3. Len(part) = Len(w) /\ \A i \in 1..Len(part) : part[i] = w[i]
  <2>1. Len(part) = Len(w)
    BY <1>1, <1>2
  <2>2. ASSUME NEW i \in 1..Len(w) PROVE part[i] = w[i]
    <3>1. i \in 1..((p + Len(w)) - (p + 1) + 1) /\ (p + 1) + i - 1 = p + i
      BY <1>1
    <3>2. part[i] = s[p + i]
      BY <1>2, <3>1
    <3> QED
      BY <3>2
  <2> QED
    BY <2>1, <2>2
<1>4. part = w
  BY <1>2, <1>3, SeqEqual
<1> QED
  BY <1>4 DEF part
=============================================================================
