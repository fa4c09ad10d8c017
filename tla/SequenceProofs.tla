--------------------------- MODULE SequenceProofs ---------------------------
(***************************************************************************)
(* Facts about sequences of any length that the library's theorems leave   *)
(* out: what inserting, removing and cutting out elements returns.         *)
(***************************************************************************)
EXTENDS Integers, Sequences, SequencesExt, SequenceTheorems,
        WellFoundedInduction, TLAPS

\* A non-empty set of naturals has a least element.
LEMMA LeastNatural ==
  ASSUME NEW T, T \subseteq Nat, T # {}
  PROVE  \E x \in T : \A y \in T : x <= y
<1>1. \E x \in T : \A y \in T : ~ (<<y, x>> \in OpToRel(<, Nat))
  BY NatLessThanWellFounded, WFMin
<1>2. \A x, y \in Nat : <<y, x>> \in OpToRel(<, Nat) <=> y < x
  BY Zenon DEF OpToRel
<1>3. \E x \in T : \A y \in T : ~(y < x)
  BY <1>1, <1>2
<1>. QED
  BY <1>3

\* What InsertAt of the community modules returns.
LEMMA InsertAtProperties ==
  ASSUME NEW S, NEW q \in Seq(S), NEW e \in S, NEW p \in 1..Len(q)+1
  PROVE  /\ InsertAt(q, p, e) \in Seq(S)
         /\ Len(InsertAt(q, p, e)) = Len(q) + 1
         /\ \A i \in 1..Len(q)+1 :
              InsertAt(q, p, e)[i] = IF i < p THEN q[i]
                                     ELSE IF i = p THEN e ELSE q[i-1]
<1>. DEFINE a == SubSeq(q, 1, p-1)
            b == SubSeq(q, p, Len(q))
            c == a \o <<e>>
<1>0. Len(q) \in Nat /\ \A i \in 1..Len(q) : q[i] \in S
  BY LenProperties, ElementOfSeq
<1>1. /\ a \in Seq(S)
      /\ Len(a) = p - 1
      /\ \A i \in 1..p-1 : a[i] = q[i]
  BY <1>0, SubSeqProperties
<1>2. /\ b \in Seq(S)
      /\ Len(b) = Len(q) - p + 1
      /\ \A i \in 1..Len(q)-p+1 : b[i] = q[p+i-1]
  BY <1>0, SubSeqProperties
<1>3. <<e>> \in Seq(S) /\ Len(<<e>>) = 1 /\ <<e>>[1] = e
  OBVIOUS
<1>. HIDE DEF a, b
<1>4. /\ c \in Seq(S)
      /\ Len(c) = p
      /\ \A i \in 1..p : c[i] = IF i <= p-1 THEN a[i] ELSE <<e>>[i-(p-1)]
  BY <1>0, <1>1, <1>3, ConcatProperties
<1>. HIDE DEF c
<1>5. /\ c \o b \in Seq(S)
      /\ Len(c \o b) = Len(q) + 1
      /\ \A i \in 1..Len(q)+1 : (c \o b)[i] = IF i <= p THEN c[i] ELSE b[i-p]
  BY <1>0, <1>2, <1>4, ConcatProperties
<1>6. InsertAt(q, p, e) = c \o b
  BY DEF InsertAt, a, b, c
<1>7. ASSUME NEW i \in 1..Len(q)+1
      PROVE  (c \o b)[i] = IF i < p THEN q[i] ELSE IF i = p THEN e ELSE q[i-1]
  <2>1. CASE i < p
    BY <2>1, <1>0, <1>1, <1>4, <1>5
  <2>2. CASE i = p
    BY <2>2, <1>0, <1>3, <1>4, <1>5
  <2>3. CASE i > p
    BY <2>3, <1>0, <1>2, <1>5
  <2>4. i < p \/ i = p \/ i > p
    BY <1>0
  <2>. QED
    BY <2>1, <2>2, <2>3, <2>4
<1>. QED
  BY <1>5, <1>6, <1>7

\* What RemoveAt of the community modules returns.
LEMMA RemoveAtProperties ==
  ASSUME NEW S, NEW q \in Seq(S), NEW p \in 1..Len(q)
  PROVE  /\ RemoveAt(q, p) \in Seq(S)
         /\ Len(RemoveAt(q, p)) = Len(q) - 1
         /\ \A i \in 1..Len(q)-1 :
              RemoveAt(q, p)[i] = IF i < p THEN q[i] ELSE q[i+1]
<1>. DEFINE a == SubSeq(q, 1, p-1)
            b == SubSeq(q, p+1, Len(q))
<1>0. Len(q) \in Nat /\ \A i \in 1..Len(q) : q[i] \in S
  BY LenProperties, ElementOfSeq
<1>1. /\ a \in Seq(S)
      /\ Len(a) = p - 1
      /\ \A i \in 1..p-1 : a[i] = q[i]
  BY <1>0, SubSeqProperties
<1>2. /\ b \in Seq(S)
      /\ Len(b) = Len(q) - p
      /\ \A i \in 1..Len(q)-p : b[i] = q[p+i]
  BY <1>0, SubSeqProperties
<1>. HIDE DEF a, b
<1>3. /\ a \o b \in Seq(S)
      /\ Len(a \o b) = Len(q) - 1
      /\ \A i \in 1..Len(q)-1 : (a \o b)[i] = IF i <= p-1 THEN a[i]
                                              ELSE b[i-(p-1)]
  BY <1>0, <1>1, <1>2, ConcatProperties
<1>4. RemoveAt(q, p) = a \o b
  BY DEF RemoveAt, a, b
<1>5. ASSUME NEW i \in 1..Len(q)-1
      PROVE  (a \o b)[i] = IF i < p THEN q[i] ELSE q[i+1]
  <2>1. CASE i < p
    BY <2>1, <1>0, <1>1, <1>3
  <2>2. CASE ~(i < p)
    BY <2>2, <1>0, <1>2, <1>3
  <2>. QED
    BY <2>1, <2>2
<1>. QED
  BY <1>3, <1>4, <1>5

\* What is left of a sequence when its elements from p to before r are cut out.
LEMMA CutProperties ==
  ASSUME NEW S, NEW q \in Seq(S), NEW p \in 1..Len(q)+1,
         NEW r \in 1..Len(q)+1, p <= r
  PROVE  LET c == SubSeq(q, 1, p-1) \o SubSeq(q, r, Len(q))
         IN  /\ c \in Seq(S)
             /\ Len(c) = Len(q) - (r - p)
             /\ \A i \in 1..Len(q)-(r-p) :
                  c[i] = IF i < p THEN q[i] ELSE q[i+(r-p)]
<1>. DEFINE a == SubSeq(q, 1, p-1)
            b == SubSeq(q, r, Len(q))
<1>0. Len(q) \in Nat /\ \A i \in 1..Len(q) : q[i] \in S
  BY LenProperties, ElementOfSeq
<1>1. /\ a \in Seq(S)
      /\ Len(a) = p - 1
      /\ \A i \in 1..p-1 : a[i] = q[i]
  BY <1>0, SubSeqProperties
<1>2. /\ b \in Seq(S)
      /\ Len(b) = Len(q) - r + 1
      /\ \A i \in 1..Len(q)-r+1 : b[i] = q[r+i-1]
  BY <1>0, SubSeqProperties
<1>. HIDE DEF a, b
<1>3. /\ a \o b \in Seq(S)
      /\ Len(a \o b) = Len(a) + Len(b)
      /\ \A i \in 1..Len(a)+Len(b) : (a \o b)[i] = IF i <= Len(a) THEN a[i]
                                                  ELSE b[i-Len(a)]
  BY <1>1, <1>2, ConcatProperties
<1>a. Len(a) + Len(b) = Len(q) - (r - p)
  BY <1>0, <1>1, <1>2
<1>4. ASSUME NEW i \in 1..Len(q)-(r-p)
      PROVE  (a \o b)[i] = IF i < p THEN q[i] ELSE q[i+(r-p)]
  <2>1. CASE i < p
    BY <2>1, <1>a, <1>0, <1>1, <1>3
  <2>2. CASE ~(i < p)
    <3>1. i-(p-1) \in 1..Len(q)-r+1 /\ r+(i-(p-1))-1 = i+(r-p)
      BY <2>2, <1>0
    <3>2. (a \o b)[i] = b[i-(p-1)]
      BY <2>2, <1>a, <1>0, <1>1, <1>3
    <3>. QED
      BY <3>1, <3>2, <2>2, <1>2
  <2>. QED
    BY <2>1, <2>2
<1>. QED
  BY <1>3, <1>a, <1>4 DEF a, b

\* A sequence without its last element.
LEMMA FrontType ==
  ASSUME NEW S, NEW q \in Seq(S), q # <<>>
  PROVE  /\ Front(q) \in Seq(S)
         /\ Len(Front(q)) = Len(q) - 1
         /\ \A i \in 1..Len(Front(q)) : Front(q)[i] = q[i]
<1>1. Len(q) \in Nat \ {0}
  BY EmptySeq
<1>2. PICK n \in Nat : n = Len(q) - 1
  BY <1>1
<1>3. \A i \in 1..n : q[i] \in S
  BY <1>1, <1>2, ElementOfSeq
<1>4. Len(SubSeq(q, 1, n)) = n /\ SubSeq(q, 1, n) \in Seq(S)
  BY <1>3, SubSeqProperties
<1>5. \A i \in 1..n : SubSeq(q, 1, n)[i] = q[i]
  BY <1>3, SubSeqProperties
<1>6. Front(q) = SubSeq(q, 1, n)
  BY <1>2 DEF Front
<1>. QED
  BY <1>2, <1>4, <1>5, <1>6

-----------------------------------------------------------------------------
(* The elements of a sequence *)

LEMMA ToSetByIndex ==
  ASSUME NEW S, NEW q \in Seq(S)
  PROVE  ToSet(q) = {q[i] : i \in 1..Len(q)} /\ ToSet(q) \subseteq S
<1>1. DOMAIN q = 1..Len(q) /\ \A i \in 1..Len(q) : q[i] \in S
  BY ElementOfSeq
<1>. QED
  BY <1>1 DEF ToSet

LEMMA ToSetAppend ==
  ASSUME NEW S, NEW q \in Seq(S), NEW e \in S
  PROVE  ToSet(Append(q, e)) = ToSet(q) \cup {e}
<1>1. Len(q) \in Nat /\ Append(q, e) \in Seq(S)
  BY LenProperties, AppendProperties
<1>2. /\ Len(Append(q, e)) = Len(q) + 1
      /\ \A i \in 1..Len(q) : Append(q, e)[i] = q[i]
      /\ Append(q, e)[Len(q) + 1] = e
  BY <1>1, AppendProperties
<1>3. 1..Len(q)+1 = 1..Len(q) \cup {Len(q)+1}
  BY <1>1
<1>. DEFINE r == Append(q, e)
<1>4. ToSet(q) = {q[i] : i \in 1..Len(q)} /\ ToSet(r) = {r[i] : i \in 1..Len(r)}
  BY <1>1, ToSetByIndex
<1>. HIDE DEF r
<1>5. {r[i] : i \in 1..Len(r)} = {q[i] : i \in 1..Len(q)} \cup {e}
  BY <1>2, <1>3 DEF r
<1>. QED
  BY <1>4, <1>5 DEF r

LEMMA ToSetTail ==
  ASSUME NEW S, NEW q \in Seq(S), q # <<>>
  PROVE  /\ ToSet(q) = ToSet(Tail(q)) \cup {Head(q)}
         /\ Tail(q) \in Seq(S) /\ Head(q) \in S
<1>. DEFINE r == Tail(q)
<1>1. Len(q) \in Nat \ {0} /\ Head(q) = q[1] /\ Head(q) \in S
  BY EmptySeq
<1>2. /\ r \in Seq(S)
      /\ Len(r) = Len(q) - 1
      /\ \A i \in 1..Len(r) : r[i] = q[i+1]
  BY HeadTailProperties
<1>. HIDE DEF r
<1>3. \A i \in 1..Len(q) : i = 1 \/ (i-1 \in 1..Len(r) /\ q[i] = r[i-1])
  BY <1>1, <1>2
<1>4. \A i \in 1..Len(r) : i+1 \in 1..Len(q) /\ r[i] = q[i+1]
  BY <1>1, <1>2
<1>5. {q[i] : i \in 1..Len(q)} = {r[i] : i \in 1..Len(r)} \cup {q[1]}
  BY <1>1, <1>3, <1>4
<1>. QED
  BY <1>1, <1>2, <1>5, ToSetByIndex DEF r

LEMMA ToSetFront ==
  ASSUME NEW S, NEW q \in Seq(S), q # <<>>
  PROVE  ToSet(Front(q)) \subseteq ToSet(q)
<1>. DEFINE r == Front(q)
<1>1. Len(q) \in Nat \ {0}
  BY EmptySeq
<1>2. /\ r \in Seq(S)
      /\ Len(r) = Len(q) - 1
      /\ \A i \in 1..Len(r) : r[i] = q[i]
  BY FrontType
<1>. HIDE DEF r
<1>3. \A i \in 1..Len(r) : i \in 1..Len(q)
  BY <1>1, <1>2
<1>. QED
  BY <1>2, <1>3, ToSetByIndex DEF r

\* What FlattenSeq of the community modules returns.
LEMMA FlattenProperties ==
  ASSUME NEW S, NEW seqs \in Seq(Seq(S))
  PROVE  FlattenSeq(seqs) \in Seq(S)
<1>1. CASE Len(seqs) = 0
  BY <1>1, EmptySeq DEF FlattenSeq
<1>2. CASE Len(seqs) # 0
  <2>. DEFINE n == Len(seqs)
              Flat(g, k) == [i \in 1..k |-> IF i = 1 THEN seqs[i] ELSE g[i-1] \o seqs[i]]
  <2>1. n \in Nat \ {0} /\ \A i \in 1..n : seqs[i] \in Seq(S)
    BY <1>2
  <2>. HIDE DEF n
  <2>2. \A k \in 1..n : \E g : g = Flat(g, k)
    <3>. DEFINE Solved(k) == \E g : g = Flat(g, k)
                T == {k \in 1..n : ~Solved(k)}
    <3>1. SUFFICES ASSUME T # {} PROVE FALSE
      BY Zenon
    <3>. HIDE DEF Solved
    <3>2. PICK k \in T : \A j \in T : k <= j
      <4>1. T \subseteq Nat
        BY <2>1
      <4>. HIDE DEF T
      <4>. QED
        BY <4>1, <3>1, LeastNatural
    <3>3. CASE k = 1
      <4>. DEFINE g == [i \in 1..1 |-> seqs[i]]
      <4>1. g = Flat(g, 1)
        OBVIOUS
      <4>2. Solved(1)
        BY <4>1, Zenon DEF Solved
      <4>. QED
        BY <3>2, <3>3, <4>2
    <3>4. CASE k # 1
      <4>1. k - 1 \in 1..n /\ k - 1 \notin T
        BY <2>1, <3>2, <3>4
      <4>2. PICK h : h = Flat(h, k-1)
        <5>1. Solved(k-1)
          BY <4>1
        <5>. QED
          BY <5>1, Zenon DEF Solved
      <4>. DEFINE g == [i \in 1..k |-> IF i = k THEN h[k-1] \o seqs[k] ELSE h[i]]
      <4>3. \A i \in 1..k : g[i] = IF i = 1 THEN seqs[i] ELSE g[i-1] \o seqs[i]
        <5>. TAKE i \in 1..k
        <5>1. CASE i = k
          <6>1. k \in 1..k /\ k - 1 \in 1..k /\ k - 1 # k
            BY <4>1
          <6>2. g[k] = h[k-1] \o seqs[k] /\ g[k-1] = h[k-1]
            BY <6>1
          <6>. HIDE DEF g
          <6>. QED
            BY <5>1, <6>2, <3>4
        <5>2. CASE i # k
          <6>1. i \in 1..k-1 /\ (i # 1 => i - 1 \in 1..k-1 /\ i - 1 # k)
            BY <5>2, <4>1
          <6>2. h[i] = IF i = 1 THEN seqs[i] ELSE h[i-1] \o seqs[i]
            BY <6>1, <4>2
          <6>3. g[i] = h[i] /\ (i # 1 => g[i-1] = h[i-1])
            BY <5>2, <6>1
          <6>. HIDE DEF g
          <6>. QED
            BY <6>2, <6>3
        <5>. QED
          BY <5>1, <5>2
      <4>4. g = Flat(g, k)
        BY <4>3
      <4>5. Solved(k)
        BY <4>4, Zenon DEF Solved
      <4>. QED
        BY <4>5, <3>2
    <3>. QED
      BY <3>3, <3>4
  <2>3. ASSUME NEW g, g = Flat(g, n)
        PROVE  g[n] \in Seq(S)
    <3>. DEFINE T == {k \in 1..n : g[k] \notin Seq(S)}
    <3>1. SUFFICES ASSUME T # {} PROVE FALSE
      BY <2>1
    <3>2. PICK k \in T : \A j \in T : k <= j
      <4>1. T \subseteq Nat
        BY <2>1
      <4>. HIDE DEF T
      <4>. QED
        BY <4>1, <3>1, LeastNatural
    <3>3. g[k] = IF k = 1 THEN seqs[k] ELSE g[k-1] \o seqs[k]
      BY <2>3, <3>2
    <3>4. CASE k = 1
      BY <3>2, <3>3, <3>4, <2>1
    <3>5. CASE k # 1
      <4>1. k - 1 \in 1..n /\ k - 1 \notin T
        BY <2>1, <3>2, <3>5
      <4>2. g[k-1] \in Seq(S) /\ seqs[k] \in Seq(S)
        BY <4>1, <3>2, <2>1
      <4>3. g[k-1] \o seqs[k] \in Seq(S)
        BY <4>2, ConcatProperties
      <4>. QED
        BY <3>2, <3>3, <3>5, <4>3
    <3>. QED
      BY <3>4, <3>5
  <2>4. FlattenSeq(seqs) = (CHOOSE g : g = Flat(g, n))[n]
    BY <1>2 DEF FlattenSeq, n
  <2>5. n \in 1..n
    BY <2>1
  <2>. HIDE DEF Flat
  <2>6. (CHOOSE g : g = Flat(g, n)) = Flat((CHOOSE g : g = Flat(g, n)), n)
    BY <2>2, <2>5, Zenon
  <2>. QED
    BY <2>3, <2>4, <2>6, Zenon
<1>. QED
  BY <1>1, <1>2
=============================================================================
