--------------------------- MODULE SequenceFacts ---------------------------
(***************************************************************************)
(* Facts about the operators on sequences that RrdTool, Network and        *)
(* FilterChain are built from, and about loops.                            *)
(***************************************************************************)
EXTENDS Integers, Sequences, FiniteSets, SequencesExt,
        SequenceTheorems, FiniteSetTheorems, WellFoundedInduction, TLAPS

\* A non-empty set of numbers has a least one.
LEMMA LeastExists ==
  ASSUME NEW S \in SUBSET Nat, S # {}
  PROVE  \E s \in S : \A t \in S : s <= t
<1>. DEFINE Less == OpToRel(<, Nat)
<1>1. IsWellFoundedOn(Less, Nat)
  BY NatLessThanWellFounded
<1>2. PICK s \in S : \A t \in S : ~(<<t, s>> \in Less)
  <2>. HIDE DEF Less
  <2>. QED BY <1>1, WFMin
<1>3. ASSUME NEW t \in S PROVE ~(t < s)
  <2>. SUFFICES ASSUME t < s PROVE FALSE
    OBVIOUS
  <2>1. <<t, s>> \in {p \in Nat \X Nat : p[1] < p[2]}
    OBVIOUS
  <2>. QED BY <2>1, <1>2 DEF OpToRel
<1>. QED BY <1>3

\* Appending keeps what a queue contains and adds the new element.
LEMMA ContainsAppend ==
  ASSUME NEW S, NEW q \in Seq(S), NEW e \in S
  PROVE  \A x : Contains(Append(q, e), x) <=> Contains(q, x) \/ x = e
  BY AppendProperties DEF Contains

\* A concatenation contains what its halves contain.
LEMMA ContainsConcat ==
  ASSUME NEW S, NEW q \in Seq(S), NEW r \in Seq(S)
  PROVE  \A x : Contains(q \o r, x) <=> Contains(q, x) \/ Contains(r, x)
<1>. TAKE x
<1>1. /\ Len(q) \in Nat /\ Len(r) \in Nat /\ Len(q \o r) = Len(q) + Len(r)
      /\ \A i \in 1..Len(q) + Len(r) :
           (q \o r)[i] = IF i <= Len(q) THEN q[i] ELSE r[i - Len(q)]
  BY ConcatProperties
<1>2. Contains(q \o r, x) => Contains(q, x) \/ Contains(r, x)
  BY <1>1 DEF Contains
<1>3. Contains(q, x) => Contains(q \o r, x)
  BY <1>1 DEF Contains
<1>4. ASSUME Contains(r, x) PROVE Contains(q \o r, x)
  <2>1. PICK i \in 1..Len(r) : r[i] = x
    BY <1>4 DEF Contains
  <2>2. i + Len(q) \in 1..Len(q) + Len(r) /\ ~(i + Len(q) <= Len(q)) /\ (i + Len(q)) - Len(q) = i
    BY <1>1
  <2>. QED BY <1>1, <2>1, <2>2 DEF Contains
<1>. QED BY <1>2, <1>3, <1>4

\* Taking the head off loses nothing else.
LEMMA ContainsTail ==
  ASSUME NEW S, NEW q \in Seq(S), q # <<>>
  PROVE  /\ Head(q) \in S /\ Tail(q) \in Seq(S)
         /\ \A x : Contains(q, x) => x = Head(q) \/ Contains(Tail(q), x)
<1>1. /\ Head(q) \in S /\ Tail(q) \in Seq(S)
      /\ Len(Tail(q)) = Len(q) - 1
      /\ \A i \in 1..Len(Tail(q)) : Tail(q)[i] = q[i + 1]
  BY HeadTailProperties
<1>2. ASSUME NEW x, Contains(q, x), x # Head(q) PROVE Contains(Tail(q), x)
  <2>1. PICK i \in 1..Len(q) : q[i] = x
    BY <1>2 DEF Contains
  <2>2. i # 1
    BY <1>2, <2>1
  <2>3. i - 1 \in 1..Len(Tail(q)) /\ (i - 1) + 1 = i
    BY <1>1, <2>2
  <2>. QED BY <1>1, <2>1, <2>3 DEF Contains
<1>. QED BY <1>1, <1>2

\* RemoveFirst removes nothing but the element it is asked to remove.
LEMMA ContainsRemoveFirst ==
  ASSUME NEW S, NEW q \in Seq(S), NEW e \in S
  PROVE  /\ RemoveFirst(q, e) \in Seq(S)
         /\ \A x : Contains(q, x) /\ x # e => Contains(RemoveFirst(q, e), x)
<1>1. CASE ~\E i \in 1..Len(q) : q[i] = e
  BY <1>1 DEF RemoveFirst
<1>2. CASE \E i \in 1..Len(q) : q[i] = e
  <2>. DEFINE I == {i \in 1..Len(q) : q[i] = e}
              k == Min(I)
              front == SubSeq(q, 1, k - 1)
              back == SubSeq(q, k + 1, Len(q))
  <2>1. k \in 1..Len(q) /\ q[k] = e
    <3>1. I \in SUBSET Nat /\ I # {}
      BY <1>2
    <3>2. \E s \in I : \A t \in I : s <= t
      <4>. HIDE DEF I
      <4>. QED BY <3>1, LeastExists
    <3>. QED BY <3>2 DEF Min
  <2>2. RemoveFirst(q, e) = front \o back
    BY <1>2 DEF RemoveFirst, RemoveAt, SelectInSeq
  <2>. HIDE DEF k
  <2>3. /\ front \in Seq(S) /\ Len(front) = k - 1
        /\ \A i \in 1..k - 1 : front[i] = q[i]
    <3>1. \A i \in 1..k - 1 : q[i] \in S
      BY <2>1, ElementOfSeq
    <3>2. /\ SubSeq(q, 1, k - 1) \in Seq(S)
          /\ Len(SubSeq(q, 1, k - 1)) = IF 1 <= k - 1 THEN k - 1 - 1 + 1 ELSE 0
          /\ \A i \in 1..k - 1 - 1 + 1 : SubSeq(q, 1, k - 1)[i] = q[1 + i - 1]
      BY <2>1, <3>1, SubSeqProperties, SMTT(30)
    <3>. QED BY <2>1, <3>2
  <2>4. /\ back \in Seq(S) /\ Len(back) = Len(q) - k
        /\ \A i \in 1..Len(q) - k : back[i] = q[k + i]
    <3>1. \A i \in k + 1..Len(q) : q[i] \in S
      BY <2>1, ElementOfSeq
    <3>2. /\ SubSeq(q, k + 1, Len(q)) \in Seq(S)
          /\ Len(SubSeq(q, k + 1, Len(q))) =
               IF k + 1 <= Len(q) THEN Len(q) - (k + 1) + 1 ELSE 0
          /\ \A i \in 1..Len(q) - (k + 1) + 1 :
               SubSeq(q, k + 1, Len(q))[i] = q[(k + 1) + i - 1]
      BY <2>1, <3>1, SubSeqProperties, SMTT(30)
    <3>. QED BY <2>1, <3>2
  <2>5. ASSUME NEW x, Contains(q, x), x # e PROVE Contains(front, x) \/ Contains(back, x)
    <3>1. PICK i \in 1..Len(q) : q[i] = x
      BY <2>5 DEF Contains
    <3>2. CASE i < k
      BY <2>1, <2>3, <3>1, <3>2 DEF Contains
    <3>3. CASE i > k
      <4>1. i - k \in 1..Len(q) - k /\ k + (i - k) = i
        BY <2>1, <3>3
      <4>. QED BY <2>4, <3>1, <4>1 DEF Contains
    <3>. QED BY <2>1, <2>5, <3>1, <3>2, <3>3
  <2>. HIDE DEF front, back
  <2>. QED BY <2>2, <2>3, <2>4, <2>5, ConcatProperties, ContainsConcat
<1>. QED BY <1>1, <1>2

\* The elements of a finite set in some order are all there.
LEMMA ContainsSetToSeqs ==
  ASSUME NEW S, IsFiniteSet(S), NEW s \in SetToSeqs(S)
  PROVE  /\ s \in Seq(S)
         /\ \A x \in S : Contains(s, x)
         /\ S = {} => s = <<>>
<1>. DEFINE D == 1..Cardinality(S)
<1>1. Cardinality(S) \in Nat
  BY FS_CardinalityType
<1>2. s \in [D -> S] /\ \A i, j \in D : i # j => s[i] # s[j]
  BY DEF SetToSeqs
<1>3. s \in Seq(S) /\ Len(s) = Cardinality(S)
  BY <1>1, <1>2
<1>4. s \in Injection(D, S)
  BY <1>2 DEF Injection, IsInjective
<1>5. IsFiniteSet(D) /\ Cardinality(D) = Cardinality(S)
  BY <1>1, FS_Interval
<1>6. s \in Surjection(D, S)
  <2>. HIDE DEF D
  <2>. QED BY <1>4, <1>5, FS_Injection
<1>7. \A x \in S : Contains(s, x)
  BY <1>3, <1>6 DEF Surjection, Contains
<1>8. S = {} => s = <<>>
  BY <1>3, EmptySeq, FS_EmptySet
<1>. QED BY <1>3, <1>7, <1>8

\* A sequence with a first element.
LEMMA ConsFacts ==
  ASSUME NEW S, NEW e \in S, NEW s \in Seq(S)
  PROVE  /\ <<e>> \o s \in Seq(S) /\ <<e>> \o s # <<>>
         /\ Head(<<e>> \o s) = e /\ Tail(<<e>> \o s) = s
<1>1. <<e>> \in Seq(S) /\ Len(<<e>>) = 1
  OBVIOUS
<1>. DEFINE q == <<e>> \o s
<1>2. /\ q \in Seq(S) /\ Len(q) = 1 + Len(s)
      /\ \A i \in 1..1 + Len(s) : q[i] = IF i <= 1 THEN e ELSE s[i - 1]
  BY <1>1, ConcatProperties
<1>. HIDE DEF q
<1>3. q # <<>> /\ q[1] = e
  BY <1>2
<1>4. /\ Tail(q) \in Seq(S) /\ Len(Tail(q)) = Len(s)
      /\ \A i \in 1..Len(s) : Tail(q)[i] = q[i + 1]
  BY <1>2, <1>3, HeadTailProperties
<1>5. \A i \in 1..Len(s) : q[i + 1] = s[i]
  BY <1>2
<1>6. Tail(q) = s
  BY <1>4, <1>5, SeqEqual
<1>7. Head(q) = e
  BY <1>2, <1>3
<1>. QED BY <1>2, <1>3, <1>6, <1>7 DEF q

\* What is left of a sequence, and something after it.
LEMMA SuffixFacts ==
  ASSUME NEW S, NEW s \in Seq(S), NEW rest \in Seq(S), NEW i \in 1..Len(s)
  PROVE  /\ SubSeq(s, i, Len(s)) \o rest = <<s[i]>> \o (SubSeq(s, i + 1, Len(s)) \o rest)
         /\ SubSeq(s, i + 1, Len(s)) \o rest \in Seq(S)
<1>1. SubSeq(s, i, Len(s)) = <<s[i]>> \o SubSeq(s, i + 1, Len(s)) /\ s[i] \in S
  BY SubSeqRecursiveFirst, ElementOfSeq
<1>2. SubSeq(s, i + 1, Len(s)) \in Seq(S)
  <2>1. \A j \in i + 1..Len(s) : s[j] \in S
    BY ElementOfSeq
  <2>2. i + 1 \in Int /\ Len(s) \in Int
    BY LenProperties
  <2>. QED BY ONLY <2>1, <2>2, SubSeqProperties
<1>3. ASSUME NEW a \in Seq(S), NEW b \in Seq(S) PROVE (a \o b) \o rest = a \o (b \o rest)
  BY ConcatAssociative, SMTT(30)
<1>4. <<s[i]>> \in Seq(S)
  BY <1>1
<1>5. (<<s[i]>> \o SubSeq(s, i + 1, Len(s))) \o rest
        = <<s[i]>> \o (SubSeq(s, i + 1, Len(s)) \o rest)
  BY <1>2, <1>3, <1>4
<1>. QED BY <1>1, <1>2, <1>5, ConcatProperties

-----------------------------------------------------------------------------
(* Loops over a sequence are written as recursive functions.  One exists    *)
(* whenever each step of the loop leads from a state to a state.            *)

\* g lists the states that n steps lead through, from base on.
LoopRun(g, S, n, base, step) ==
  /\ g \in [0..n -> S]
  /\ g[0] = base
  /\ \A i \in 1..n : g[i] = step[i][g[i - 1]]

\* The states a loop goes through exist.
LEMMA LoopExists ==
  ASSUME NEW S, NEW n \in Nat, NEW base \in S, NEW step \in [1..n -> [S -> S]]
  PROVE  \E g : LoopRun(g, S, n, base, step)
<1>. DEFINE Run(g, k) == /\ g \in [0..k -> S]
                         /\ g[0] = base
                         /\ \A i \in 1..k : g[i] = step[i][g[i - 1]]
            Bad == {k \in 0..n : ~\E g : Run(g, k)}
<1>1. ASSUME Bad # {} PROVE FALSE
  <2>1. Bad \in SUBSET Nat
    OBVIOUS
  <2>2. PICK k \in Bad : \A j \in Bad : k <= j
    <3>. HIDE DEF Bad
    <3>. QED BY <1>1, <2>1, LeastExists
  <2>3. CASE k = 0
    <3>1. Run([i \in 0..0 |-> base], 0)
      OBVIOUS
    <3>. QED BY <2>2, <2>3, <3>1
  <2>4. CASE k # 0
    <3>1. k \in 1..n /\ k - 1 \in 0..n /\ k - 1 \notin Bad
      BY <2>2, <2>4
    <3>2. PICK g : Run(g, k - 1)
      BY <3>1
    <3>. DEFINE h == [i \in 0..k |-> IF i = k THEN step[k][g[k - 1]] ELSE g[i]]
    <3>3. g \in [0..k - 1 -> S] /\ g[k - 1] \in S /\ step[k][g[k - 1]] \in S
      BY <3>1, <3>2
    <3>4. h \in [0..k -> S] /\ h[0] = base
      <4>1. ASSUME NEW i \in 0..k PROVE h[i] \in S
        BY <3>1, <3>3, <4>1
      <4>. QED BY <3>1, <3>2, <4>1
    <3>5. ASSUME NEW i \in 1..k PROVE h[i] = step[i][h[i - 1]]
      <4>1. CASE i = k
        <5>1. h[k - 1] = g[k - 1] /\ h[k] = step[k][g[k - 1]]
          BY <3>1
        <5>. QED BY <4>1, <5>1
      <4>2. CASE i # k
        <5>1. i \in 1..k - 1 /\ h[i] = g[i] /\ h[i - 1] = g[i - 1]
          BY <3>1, <3>5, <4>2
        <5>. QED BY <3>2, <5>1
      <4>. QED BY <4>1, <4>2
    <3>6. Run(h, k)
      BY <3>4, <3>5
    <3>. QED BY <2>2, <3>6
  <2>. QED BY <2>3, <2>4
<1>2. n \notin Bad
  <2>. HIDE DEF Bad
  <2>. QED BY <1>1
<1>3. n \in 0..n
  OBVIOUS
<1>. QED BY <1>2, <1>3 DEF LoopRun

\* Induction over the steps of a loop, for a set of numbers.
LEMMA LoopInduction ==
  ASSUME NEW n \in Nat, NEW G, 0 \in G,
         \A i \in 1..n : i - 1 \in G => i \in G
  PROVE  \A i \in 0..n : i \in G
<1>. DEFINE Bad == {i \in 0..n : i \notin G}
<1>1. ASSUME Bad # {} PROVE FALSE
  <2>1. Bad \in SUBSET Nat
    OBVIOUS
  <2>2. PICK k \in Bad : \A j \in Bad : k <= j
    <3>. HIDE DEF Bad
    <3>. QED BY <1>1, <2>1, LeastExists
  <2>3. k \in 1..n /\ k - 1 \in 0..n /\ k - 1 \notin Bad
    BY <2>2
  <2>. QED BY <2>2, <2>3
<1>. QED BY <1>1

\* Two runs of a loop over sequences that agree on the first n elements agree
\* up to there.
LEMMA LoopUnique ==
  ASSUME NEW n \in Nat, NEW g, NEW h, g[0] = h[0],
         \A i \in 1..n : g[i - 1] = h[i - 1] => g[i] = h[i]
  PROVE  \A i \in 0..n : g[i] = h[i]
<1>. DEFINE G == {i \in 0..n : g[i] = h[i]}
<1>1. 0 \in G
  OBVIOUS
<1>2. \A i \in 1..n : i - 1 \in G => i \in G
  OBVIOUS
<1>3. \A i \in 0..n : i \in G
  <2>. HIDE DEF G
  <2>. QED BY <1>1, <1>2, LoopInduction
<1>. QED BY <1>3

\* The function that FlattenSeq defines.
FlattenRun(seqs, g) ==
  g = [i \in 1..Len(seqs) |-> IF i = 1 THEN seqs[i] ELSE g[i - 1] \o seqs[i]]

\* h lists the concatenations of the first 0, 1, ... of some sequences.
ConcatRun(h, S, seqs) ==
  /\ h \in [0..Len(seqs) -> Seq(S)]
  /\ h[0] = <<>>
  /\ \A i \in 1..Len(seqs) : h[i] = h[i - 1] \o seqs[i]

\* FlattenSeq is a loop that starts with the empty sequence and concatenates.
LEMMA FlattenLoop ==
  ASSUME NEW S, NEW seqs \in Seq(Seq(S))
  PROVE  \E h : ConcatRun(h, S, seqs) /\ FlattenSeq(seqs) = h[Len(seqs)]
<1>. DEFINE n == Len(seqs)
            T == Seq(S)
            step == [i \in 1..n |-> [x \in T |-> x \o seqs[i]]]
<1>1. n \in Nat /\ \A i \in 1..n : seqs[i] \in T
  BY ElementOfSeq
<1>2. step \in [1..n -> [T -> T]]
  <2>1. ASSUME NEW i \in 1..n, NEW x \in T PROVE x \o seqs[i] \in T
    BY <1>1, ConcatProperties
  <2>. QED BY <2>1
<1>3. PICK h : /\ h \in [0..n -> T]
               /\ h[0] = <<>>
               /\ \A i \in 1..n : h[i] = step[i][h[i - 1]]
  <2>1. <<>> \in T
    OBVIOUS
  <2>. HIDE DEF step, n, T
  <2>2. \E h : LoopRun(h, T, n, <<>>, step)
    BY <1>1, <1>2, <2>1, LoopExists
  <2>. QED BY <2>2 DEF LoopRun
<1>4. ASSUME NEW i \in 1..n PROVE h[i - 1] \in T /\ h[i] = h[i - 1] \o seqs[i]
  <2>1. i - 1 \in 0..n
    BY <1>1
  <2>2. h[i - 1] \in T
    BY <1>3, <2>1
  <2>3. h[i] = step[i][h[i - 1]]
    BY <1>3
  <2>. QED BY <2>2, <2>3
<1>5. CASE n = 0
  <2>1. FlattenSeq(seqs) = <<>>
    BY <1>5, EmptySeq DEF FlattenSeq
  <2>. QED BY <1>3, <1>4, <1>5, <2>1 DEF ConcatRun
<1>6. CASE n # 0
  <2>0. 1 \in 1..n /\ n \in 1..n
    BY <1>1, <1>6
  <2>1. h[1] = seqs[1]
    <3>1. h[1] = h[0] \o seqs[1]
      <4>1. 1 - 1 = 0
        OBVIOUS
      <4>. QED BY <1>4, <2>0, <4>1
    <3>. QED BY <1>1, <1>3, <2>0, <3>1, ConcatEmptySeq
  <2>. DEFINE g == [i \in 1..n |-> h[i]]
  <2>2. FlattenRun(seqs, g)
    <3>1. ASSUME NEW i \in 1..n
          PROVE g[i] = IF i = 1 THEN seqs[i] ELSE g[i - 1] \o seqs[i]
      <4>1. CASE i = 1
        BY <2>1, <4>1
      <4>2. CASE i # 1
        <5>1. i - 1 \in 1..n
          BY <1>1, <4>2
        <5>. QED BY <1>4, <4>2, <5>1
      <4>. QED BY <4>1, <4>2
    <3>. QED BY <3>1 DEF FlattenRun
  <2>3. FlattenSeq(seqs) = (CHOOSE r : FlattenRun(seqs, r))[n]
    BY <1>6 DEF FlattenSeq, FlattenRun
  <2>4. ASSUME NEW r, FlattenRun(seqs, r) PROVE \A i \in 1..n : r[i] = h[i]
    <3>. DEFINE r0 == [i \in 0..n |-> IF i = 0 THEN <<>> ELSE r[i]]
    <3>1. ASSUME NEW i \in 1..n
          PROVE r[i] = IF i = 1 THEN seqs[1] ELSE r[i - 1] \o seqs[i]
      BY <2>4 DEF FlattenRun
    <3>2. r0[0] = h[0]
      BY <1>1, <1>3
    <3>3. ASSUME NEW i \in 1..n, r0[i - 1] = h[i - 1] PROVE r0[i] = h[i]
      <4>1. r0[i] = r[i] /\ (i # 1 => r0[i - 1] = r[i - 1])
        BY <1>1
      <4>2. h[i] = h[i - 1] \o seqs[i]
        BY <1>4
      <4>3. r[i] = IF i = 1 THEN seqs[1] ELSE r[i - 1] \o seqs[i]
        BY <3>1
      <4>. HIDE DEF r0, g, step, T, n
      <4>4. CASE i = 1
        BY <2>1, <4>1, <4>3, <4>4
      <4>5. CASE i # 1
        BY <3>3, <4>1, <4>2, <4>3, <4>5
      <4>. QED BY <4>4, <4>5
    <3>4. \A i \in 0..n : r0[i] = h[i]
      <4>. DEFINE G == {i \in 0..n : r0[i] = h[i]}
      <4>. HIDE DEF r0, n, g, step, T
      <4>1. 0 \in G
        BY <1>1, <3>2
      <4>2. \A i \in 1..n : i - 1 \in G => i \in G
        BY <1>1, <3>3
      <4>3. n \in Nat
        BY <1>1
      <4>. HIDE DEF G
      <4>4. \A i \in 0..n : i \in G
        BY <4>1, <4>2, <4>3, LoopInduction
      <4>. QED BY <4>4 DEF G
    <3>5. \A i \in 1..n : i \in 0..n /\ r0[i] = r[i]
      <4>. HIDE DEF g, step, T
      <4>. QED BY <1>1
    <3>. HIDE DEF r0, g, step, T, n
    <3>. QED BY <3>4, <3>5
  <2>5. FlattenSeq(seqs) = h[n]
    <3>. DEFINE r == CHOOSE r : FlattenRun(seqs, r)
    <3>1. FlattenRun(seqs, r)
      BY <2>2
    <3>. HIDE DEF r
    <3>. QED BY <2>0, <2>3, <2>4, <3>1 DEF r
  <2>. QED BY <1>3, <1>4, <2>5 DEF ConcatRun
<1>. QED BY <1>5, <1>6

\* One more sequence at the end comes at the end of the result.
LEMMA FlattenAppend ==
  ASSUME NEW S, NEW seqs \in Seq(Seq(S)), NEW x \in Seq(S)
  PROVE  /\ FlattenSeq(seqs) \in Seq(S)
         /\ FlattenSeq(Append(seqs, x)) = FlattenSeq(seqs) \o x
<1>. DEFINE n == Len(seqs)
            more == Append(seqs, x)
<1>1. /\ n \in Nat /\ more \in Seq(Seq(S)) /\ Len(more) = n + 1
      /\ \A i \in 1..n : more[i] = seqs[i]
      /\ more[n + 1] = x
  BY AppendProperties
<1>2. PICK g : ConcatRun(g, S, seqs) /\ FlattenSeq(seqs) = g[n]
  BY FlattenLoop
<1>. HIDE DEF more
<1>3. PICK h : ConcatRun(h, S, more) /\ FlattenSeq(more) = h[Len(more)]
  BY <1>1, FlattenLoop
<1>. HIDE DEF n
<1>4. ASSUME NEW i \in 1..n, g[i - 1] = h[i - 1] PROVE g[i] = h[i]
  <2>1. i \in 1..Len(more) /\ more[i] = seqs[i]
    BY <1>1
  <2>2. g[i] = g[i - 1] \o seqs[i]
    BY <1>2 DEF ConcatRun, n
  <2>3. h[i] = h[i - 1] \o more[i]
    BY <1>3, <2>1 DEF ConcatRun
  <2>. QED BY <1>4, <2>1, <2>2, <2>3
<1>5. \A i \in 0..n : g[i] = h[i]
  <2>1. g[0] = h[0]
    BY <1>2, <1>3 DEF ConcatRun
  <2>2. \A i \in 1..n : g[i - 1] = h[i - 1] => g[i] = h[i]
    BY <1>4
  <2>3. n \in Nat
    BY <1>1
  <2>. DEFINE G == {i \in 0..n : g[i] = h[i]}
  <2>4. 0 \in G /\ \A i \in 1..n : i - 1 \in G => i \in G
    BY <2>1, <2>2, <2>3
  <2>. HIDE DEF G
  <2>5. \A i \in 0..n : i \in G
    BY <2>3, <2>4, LoopInduction
  <2>. QED BY <2>5 DEF G
<1>6. n \in 0..n /\ n + 1 \in 1..Len(more) /\ (n + 1) - 1 = n
  BY <1>1
<1>7. g[n] \in Seq(S)
  BY <1>2, <1>6 DEF ConcatRun, n
<1>8. h[n + 1] = h[(n + 1) - 1] \o more[n + 1]
  BY <1>3, <1>6 DEF ConcatRun
<1>9. FlattenSeq(more) = h[n] \o x /\ g[n] = h[n]
  BY <1>1, <1>3, <1>5, <1>6, <1>8
<1>. QED BY <1>2, <1>7, <1>9 DEF more

\* g lists the states between s and e, of which only the last may be in E.
LoopTo(g, S, E, step, n, s, e) ==
  /\ g \in [0..n -> S]
  /\ g[0] = s /\ g[n] = e
  /\ \A i \in 1..n : g[i - 1] \notin E /\ g[i] = step[g[i - 1]]

\* A loop that goes on until its state is in E is a function of its first state,
\* whether it ends or not.
LEMMA WhileExists ==
  ASSUME NEW S, NEW E \in SUBSET S, NEW step \in [S -> S]
  PROVE  \E f : f = [s \in S |-> IF s \in E THEN s ELSE f[step[s]]]
<1>. DEFINE Ends(s) == {e \in E : \E n \in Nat : \E g : LoopTo(g, S, E, step, n, s, e)}
            f == [s \in S |-> CHOOSE e : e \in Ends(s)]
<1>1. ASSUME NEW s \in E PROVE Ends(s) = {s}
  <2>1. s \in Ends(s)
    <3>1. LoopTo([i \in 0..0 |-> s], S, E, step, 0, s, s)
      BY DEF LoopTo
    <3>. QED BY <3>1
  <2>2. ASSUME NEW e \in Ends(s) PROVE e = s
    <3>1. PICK n \in Nat : \E g : LoopTo(g, S, E, step, n, s, e)
      BY <2>2
    <3>2. PICK g : LoopTo(g, S, E, step, n, s, e)
      BY <3>1
    <3>3. n = 0
      <4>1. ASSUME n # 0 PROVE FALSE
        <5>1. 1 \in 1..n /\ 1 - 1 = 0
          BY <4>1
        <5>. QED BY <3>2, <5>1 DEF LoopTo
      <4>. QED BY <4>1
    <3>. QED BY <3>2, <3>3 DEF LoopTo
  <2>. HIDE DEF Ends
  <2>. QED BY <2>1, <2>2
<1>2. ASSUME NEW s \in S \ E PROVE Ends(s) = Ends(step[s])
  <2>1. ASSUME NEW e \in Ends(s) PROVE e \in Ends(step[s])
    <3>1. PICK n \in Nat : \E g : LoopTo(g, S, E, step, n, s, e)
      BY <2>1
    <3>2. PICK g : LoopTo(g, S, E, step, n, s, e)
      BY <3>1
    <3>3. n # 0
      BY <3>2 DEF LoopTo
    <3>. DEFINE h == [i \in 0..n - 1 |-> g[i + 1]]
    <3>4. n - 1 \in Nat /\ 1 \in 1..n /\ 1 - 1 = 0 /\ (n - 1) + 1 = n
      BY <3>3
    <3>5. h \in [0..n - 1 -> S] /\ h[0] = step[s] /\ h[n - 1] = e
      BY <3>2, <3>4 DEF LoopTo
    <3>6. ASSUME NEW i \in 1..n - 1 PROVE h[i - 1] \notin E /\ h[i] = step[h[i - 1]]
      <4>1. i + 1 \in 1..n /\ (i + 1) - 1 = i /\ i - 1 \in 0..n - 1 /\ i \in 0..n - 1
            /\ (i - 1) + 1 = i
        BY <3>4
      <4>2. h[i - 1] = g[i] /\ h[i] = g[i + 1]
        BY <4>1
      <4>3. g[i] \notin E /\ g[i + 1] = step[g[i]]
        BY <3>2, <4>1 DEF LoopTo
      <4>. QED BY <4>2, <4>3
    <3>7. LoopTo(h, S, E, step, n - 1, step[s], e)
      <4>. HIDE DEF h
      <4>. QED BY <3>5, <3>6 DEF LoopTo
    <3>8. e \in E
      BY <2>1
    <3>. QED BY <3>4, <3>7, <3>8
  <2>2. ASSUME NEW e \in Ends(step[s]) PROVE e \in Ends(s)
    <3>1. PICK n \in Nat : \E g : LoopTo(g, S, E, step, n, step[s], e)
      BY <2>2
    <3>2. PICK g : LoopTo(g, S, E, step, n, step[s], e)
      BY <3>1
    <3>. DEFINE h == [i \in 0..n + 1 |-> IF i = 0 THEN s ELSE g[i - 1]]
    <3>3. n + 1 \in Nat /\ n + 1 # 0 /\ (n + 1) - 1 = n /\ n + 1 \in 0..n + 1 /\ 0 \in 0..n + 1
      OBVIOUS
    <3>4. h \in [0..n + 1 -> S] /\ h[0] = s /\ h[n + 1] = e
      <4>1. ASSUME NEW i \in 0..n + 1 PROVE h[i] \in S
        <5>1. CASE i = 0
          BY <5>1
        <5>2. CASE i # 0
          <6>1. i - 1 \in 0..n
            BY <5>2
          <6>. QED BY <3>2, <5>2, <6>1 DEF LoopTo
        <5>. QED BY <5>1, <5>2
      <4>2. h[0] = s /\ h[n + 1] = e
        BY <3>2, <3>3 DEF LoopTo
      <4>. QED BY <4>1, <4>2
    <3>5. ASSUME NEW i \in 1..n + 1 PROVE h[i - 1] \notin E /\ h[i] = step[h[i - 1]]
      <4>1. CASE i = 1
        <5>1. h[1 - 1] = s /\ h[1] = g[0]
          <6>1. 1 - 1 = 0 /\ 1 \in 0..n + 1
            OBVIOUS
          <6>. QED BY <3>3, <6>1
        <5>. QED BY <3>2, <4>1, <5>1 DEF LoopTo
      <4>2. CASE i # 1
        <5>1. i - 1 \in 1..n /\ i - 1 \in 0..n + 1 /\ i - 1 # 0 /\ i \in 0..n + 1 /\ i # 0
          BY <4>2
        <5>2. h[i - 1] = g[(i - 1) - 1] /\ h[i] = g[i - 1]
          BY <5>1
        <5>3. g[(i - 1) - 1] \notin E /\ g[i - 1] = step[g[(i - 1) - 1]]
          BY <3>2, <5>1 DEF LoopTo
        <5>. QED BY <5>2, <5>3
      <4>. QED BY <4>1, <4>2
    <3>6. LoopTo(h, S, E, step, n + 1, s, e)
      <4>. HIDE DEF h
      <4>. QED BY <3>4, <3>5 DEF LoopTo
    <3>7. e \in E
      BY <2>2
    <3>. QED BY <3>3, <3>6, <3>7
  <2>. HIDE DEF Ends
  <2>. QED BY <2>1, <2>2
<1>. HIDE DEF Ends
<1>3. ASSUME NEW s \in S PROVE f[s] = IF s \in E THEN s ELSE f[step[s]]
  <2>1. CASE s \in E
    BY <1>1, <2>1
  <2>2. CASE s \notin E
    BY <1>2, <2>2
  <2>. QED BY <2>1, <2>2
<1>4. f = [s \in S |-> IF s \in E THEN s ELSE f[step[s]]]
  <2>1. f = [s \in S |-> f[s]]
    OBVIOUS
  <2>. HIDE DEF f
  <2>. QED BY <1>3, <2>1
<1>. HIDE DEF f
<1>. QED BY <1>4
=============================================================================
