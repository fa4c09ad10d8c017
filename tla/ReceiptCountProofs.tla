------------------------- MODULE ReceiptCountProofs -------------------------
(***************************************************************************)
(* Theorems about counting receipts: exactly for which messages the        *)
(* comparator is an order, and that for those every secondary answers the  *)
(* first drop_after receipts of each message and no other, for any number  *)
(* of messages and whatever the shape of the trees.                        *)
(***************************************************************************)
EXTENDS ReceiptCount, SequenceProofs

\* The comparator is a strict total order on the messages.
StrictOrder ==
  /\ \A a \in Messages : ~MsgLess(a, a)
  /\ \A a, b \in Messages : a # b => MsgLess(a, b) \/ MsgLess(b, a)
  /\ \A a, b, c \in Messages : MsgLess(a, b) /\ MsgLess(b, c) => MsgLess(a, c)

-----------------------------------------------------------------------------
(* The comparator *)

LEMMA Fields ==
  ASSUME NEW m \in Messages
  PROVE  /\ m.action \in Nat /\ m.port \in Nat
         /\ m.key.srcIp \in Nat /\ m.key.srcPort \in Nat
         /\ m.key.dstIp \in Nat /\ m.key.dstPort \in Nat
         /\ m.key.srcIp < AnyIp /\ m.key.dstIp < AnyIp
         /\ \/ /\ m.key.srcPort = AnyPort /\ m.key.dstPort = AnyPort
               /\ m.key.protocol = 1
            \/ /\ m.key.srcPort < AnyPort /\ m.key.dstPort < AnyPort
               /\ m.key.protocol = 6
<1>1. m \in [key : Entry, action : 0..255, port : 0..AnyPort]
  BY ReceiptAssumption
<1>2. m.key \in Entry
  BY <1>1
<1>. QED
  BY <1>1, <1>2, ReceiptAssumption DEF Entry, OfIcmp, OfTcp

\* Of two different messages of one flow, action or port differ.
LEMMA SameFields ==
  ASSUME NEW a \in Messages, NEW b \in Messages,
         a.key.srcIp = b.key.srcIp, a.key.srcPort = b.key.srcPort,
         a.key.dstIp = b.key.dstIp, a.key.dstPort = b.key.dstPort
  PROVE  a.key = b.key /\ (a # b => a.action # b.action \/ a.port # b.port)
<1>1. /\ a \in [key : Entry, action : 0..255, port : 0..AnyPort]
      /\ b \in [key : Entry, action : 0..255, port : 0..AnyPort]
      /\ a.key \in Entry /\ b.key \in Entry
  BY ReceiptAssumption
<1>2. a.key.protocol = b.key.protocol
  BY Fields
<1>3. a.key = b.key
  BY <1>1, <1>2 DEF Entry
<1>4. a.action = b.action /\ a.port = b.port => a = b
  BY <1>1, <1>3
<1>. QED
  BY <1>3, <1>4

\* The fields decide one after the other, and at last action and port.
Lex(a, b) ==
  \/ a.key.srcIp < b.key.srcIp
  \/ a.key.srcIp = b.key.srcIp /\ a.key.srcPort < b.key.srcPort
  \/ /\ a.key.srcIp = b.key.srcIp /\ a.key.srcPort = b.key.srcPort
     /\ a.key.dstIp < b.key.dstIp
  \/ /\ a.key.srcIp = b.key.srcIp /\ a.key.srcPort = b.key.srcPort
     /\ a.key.dstIp = b.key.dstIp /\ a.key.dstPort < b.key.dstPort
  \/ /\ a.key.srcIp = b.key.srcIp /\ a.key.srcPort = b.key.srcPort
     /\ a.key.dstIp = b.key.dstIp /\ a.key.dstPort = b.key.dstPort
     /\ a.action <= b.action /\ a.port <= b.port
     /\ a.action < b.action \/ a.port < b.port

\* On messages that are kept apart the comparator is that order.
LEMMA MsgLessIsLex ==
  ASSUME Separate(Messages), NEW a \in Messages, NEW b \in Messages
  PROVE  MsgLess(a, b) <=> Lex(a, b)
<1>1. /\ MixesWell(a, b) /\ MixesWell(b, a)
      /\ NotOpposed(a, b) /\ NotOpposed(b, a)
  BY DEF Separate
<1>2. CASE OfIcmp(a.key) /\ OfTcp(b.key)
  BY <1>1, <1>2, Fields, ReceiptAssumption DEF MsgLess, Lex, MixesWell, OfIcmp, OfTcp
<1>3. CASE ~(OfIcmp(a.key) /\ OfTcp(b.key))
  <2>1. \/ a.key.srcPort < AnyPort /\ a.key.dstPort < AnyPort
        \/ b.key.srcPort = AnyPort /\ b.key.dstPort = AnyPort
    BY <1>3, Fields, ReceiptAssumption DEF OfIcmp, OfTcp
  <2>2. CASE /\ a.key.srcIp = b.key.srcIp /\ a.key.srcPort = b.key.srcPort
             /\ a.key.dstIp = b.key.dstIp /\ a.key.dstPort = b.key.dstPort
    <3>1. a.key = b.key
      BY <2>2, SameFields
    <3>. QED
      BY <1>1, <2>2, <3>1, Fields, ReceiptAssumption DEF MsgLess, Lex, NotOpposed
  <2>3. CASE ~(/\ a.key.srcIp = b.key.srcIp /\ a.key.srcPort = b.key.srcPort
               /\ a.key.dstIp = b.key.dstIp /\ a.key.dstPort = b.key.dstPort)
    BY <2>1, <2>3, Fields, ReceiptAssumption DEF MsgLess, Lex
  <2>. QED
    BY <2>2, <2>3
<1>. QED
  BY <1>2, <1>3

LEMMA LexOrder ==
  ASSUME Separate(Messages)
  PROVE  /\ \A a \in Messages : ~Lex(a, a)
         /\ \A a, b \in Messages : a # b => Lex(a, b) \/ Lex(b, a)
         /\ \A a, b, c \in Messages : Lex(a, b) /\ Lex(b, c) => Lex(a, c)
<1>1. \A a \in Messages : ~Lex(a, a)
  BY Fields, ReceiptAssumption DEF Lex
<1>2. ASSUME NEW a \in Messages, NEW b \in Messages, a # b
      PROVE  Lex(a, b) \/ Lex(b, a)
  <2>1. CASE /\ a.key.srcIp = b.key.srcIp /\ a.key.srcPort = b.key.srcPort
             /\ a.key.dstIp = b.key.dstIp /\ a.key.dstPort = b.key.dstPort
    <3>1. a.key = b.key /\ (a.action # b.action \/ a.port # b.port)
      BY <1>2, <2>1, SameFields
    <3>2. NotOpposed(a, b) /\ NotOpposed(b, a)
      BY DEF Separate
    <3>. QED
      BY <2>1, <3>1, <3>2, Fields, ReceiptAssumption DEF Lex, NotOpposed
  <2>2. CASE ~(/\ a.key.srcIp = b.key.srcIp /\ a.key.srcPort = b.key.srcPort
               /\ a.key.dstIp = b.key.dstIp /\ a.key.dstPort = b.key.dstPort)
    BY <2>2, Fields, ReceiptAssumption DEF Lex
  <2>. QED
    BY <2>1, <2>2
<1>3. ASSUME NEW a \in Messages, NEW b \in Messages, NEW c \in Messages,
             Lex(a, b), Lex(b, c)
      PROVE  Lex(a, c)
  BY <1>3, Fields, ReceiptAssumption DEF Lex
<1>. QED
  BY <1>1, <1>2, <1>3

\* THEOREM: octane_control::operator< is a strict total order, as std::map
\* requires (network.cpp:483-516), exactly on messages that are Separate: of
\* an ICMP and a TCP message of one source the ICMP one has the greater
\* destination, or the same one and no smaller action and port, and no two
\* messages of one flow are opposed in action and port.  Of any other pair each
\* message is less than the other.
THEOREM OrderExactly == StrictOrder <=> Separate(Messages)
<1>1. ASSUME StrictOrder, NEW a \in Messages, NEW b \in Messages
      PROVE  MixesWell(a, b) /\ NotOpposed(a, b)
  <2>1. ~(MsgLess(a, b) /\ MsgLess(b, a))
    BY <1>1 DEF StrictOrder
  <2>2. MixesWell(a, b)
    BY <2>1, Fields, ReceiptAssumption DEF MsgLess, MixesWell, OfIcmp, OfTcp
  <2>3. NotOpposed(a, b)
    BY <2>1, Fields, ReceiptAssumption DEF MsgLess, NotOpposed
  <2>. QED
    BY <2>2, <2>3
<1>2. ASSUME Separate(Messages) PROVE StrictOrder
  BY <1>2, MsgLessIsLex, LexOrder DEF StrictOrder
<1>. QED
  BY <1>1, <1>2 DEF Separate

-----------------------------------------------------------------------------
(* Searching *)

CountNode == [msg : Messages, n : Nat]
DropNode == [msg : Messages]

\* The nodes are of S and sorted by their messages.
IsTree(t, S) ==
  /\ t \in Seq(S)
  /\ \A i, j \in 1..Len(t) : i < j => MsgLess(t[i].msg, t[j].msg)

HasMsg(t, m) == \E i \in 1..Len(t) : t[i].msg = m

LEMMA NodesOfTree ==
  ASSUME NEW S, \A x \in S : x.msg \in Messages, NEW t, t \in Seq(S)
  PROVE  /\ Len(t) \in Nat
         /\ \A i \in 1..Len(t) : t[i] \in S /\ t[i].msg \in Messages
<1>1. Len(t) \in Nat /\ \A i \in 1..Len(t) : t[i] \in S
  BY LenProperties, ElementOfSeq
<1>. QED
  BY <1>1

\* In a sorted tree it can only end at the place of its message.
LEMMA SearchSplits ==
  ASSUME StrictOrder, NEW S, \A x \in S : x.msg \in Messages,
         NEW t, IsTree(t, S), NEW m \in Messages, NEW p \in LowerBounds(t, m)
  PROVE  /\ p \in 1..Len(t)+1
         /\ \A i \in 1..Len(t) : i < p => MsgLess(t[i].msg, m)
         /\ \A i \in 1..Len(t) : i > p => MsgLess(m, t[i].msg)
         /\ Hit(t, m, p) => p \in 1..Len(t) /\ t[p].msg = m
         /\ ~Hit(t, m, p) => \A i \in 1..Len(t) : i >= p => MsgLess(m, t[i].msg)
<1>0. /\ Len(t) \in Nat
      /\ \A i \in 1..Len(t) : t[i].msg \in Messages
      /\ \A i, j \in 1..Len(t) : i < j => MsgLess(t[i].msg, t[j].msg)
  BY NodesOfTree DEF IsTree
<1>1. /\ p \in 1..Len(t)+1
      /\ p > 1 => MsgLess(t[p-1].msg, m)
      /\ p <= Len(t) => ~MsgLess(t[p].msg, m)
  BY DEF LowerBounds
<1>2. ASSUME NEW i \in 1..Len(t), i < p
      PROVE  MsgLess(t[i].msg, m)
  <2>1. p-1 \in 1..Len(t) /\ MsgLess(t[p-1].msg, m)
    BY <1>0, <1>1, <1>2
  <2>2. CASE i = p-1
    BY <2>1, <2>2
  <2>3. CASE i < p-1
    <3>1. MsgLess(t[i].msg, t[p-1].msg)
      BY <1>0, <2>1, <2>3
    <3>. QED
      BY <1>0, <2>1, <3>1 DEF StrictOrder
  <2>. QED
    BY <1>0, <1>1, <1>2, <2>2, <2>3
<1>3. ASSUME p <= Len(t)
      PROVE  p \in 1..Len(t) /\ (t[p].msg = m \/ MsgLess(m, t[p].msg))
  BY <1>0, <1>1, <1>3 DEF StrictOrder
<1>4. Hit(t, m, p) => p \in 1..Len(t) /\ t[p].msg = m
  BY <1>0, <1>1, <1>3 DEF Hit
<1>5. ASSUME NEW i \in 1..Len(t), i > p
      PROVE  MsgLess(m, t[i].msg)
  <2>1. p \in 1..Len(t) /\ MsgLess(t[p].msg, t[i].msg)
    BY <1>0, <1>1, <1>5
  <2>. QED
    BY <1>0, <1>3, <2>1 DEF StrictOrder
<1>6. ASSUME ~Hit(t, m, p), NEW i \in 1..Len(t), i >= p
      PROVE  MsgLess(m, t[i].msg)
  <2>1. CASE i = p
    BY <1>0, <1>6, <2>1 DEF Hit
  <2>2. CASE i > p
    BY <1>5, <2>2
  <2>. QED
    BY <1>0, <1>1, <1>6, <2>1, <2>2
<1>. QED
  BY <1>1, <1>2, <1>4, <1>5, <1>6

\* It hits the node of its message, if there is one, and no other; and no other
\* node has that message.
LEMMA SearchIsExact ==
  ASSUME StrictOrder, NEW S, \A x \in S : x.msg \in Messages,
         NEW t, IsTree(t, S), NEW m \in Messages, NEW p \in LowerBounds(t, m)
  PROVE  /\ Hit(t, m, p) <=> HasMsg(t, m)
         /\ Hit(t, m, p) => p \in 1..Len(t) /\ t[p].msg = m
         /\ \A i \in 1..Len(t) : t[i].msg = m => i = p
<1>0. Len(t) \in Nat /\ \A i \in 1..Len(t) : t[i].msg \in Messages
  BY NodesOfTree DEF IsTree
<1>1. ~MsgLess(m, m)
  BY DEF StrictOrder
<1>2. /\ p \in 1..Len(t)+1
      /\ \A i \in 1..Len(t) : i < p => MsgLess(t[i].msg, m)
      /\ \A i \in 1..Len(t) : i > p => MsgLess(m, t[i].msg)
      /\ Hit(t, m, p) => p \in 1..Len(t) /\ t[p].msg = m
  BY SearchSplits
<1>3. ASSUME NEW i \in 1..Len(t), t[i].msg = m
      PROVE  i = p /\ Hit(t, m, p)
  <2>1. i = p
    BY <1>0, <1>1, <1>2, <1>3
  <2>. QED
    BY <1>0, <1>1, <1>3, <2>1 DEF Hit
<1>. QED
  BY <1>2, <1>3 DEF HasMsg

-----------------------------------------------------------------------------
(* Inserting and erasing *)

\* Tree u has the nodes of t and x.
Entered(u, t, x, S) ==
  /\ IsTree(u, S)
  /\ \E j \in 1..Len(u) : u[j] = x
  /\ \A i \in 1..Len(t) : \E j \in 1..Len(u) : u[j] = t[i]
  /\ \A j \in 1..Len(u) : u[j] = x \/ \E i \in 1..Len(t) : u[j] = t[i]

\* Tree c has the nodes of t but that of m.
Erased(c, t, m, S) ==
  /\ IsTree(c, S)
  /\ \A i \in 1..Len(t) : t[i].msg # m => \E j \in 1..Len(c) : c[j] = t[i]
  /\ \A j \in 1..Len(c) : c[j].msg # m /\ \E i \in 1..Len(t) : c[j] = t[i]

\* A node whose search has missed is entered, and nothing else happens.
LEMMA InsertNode ==
  ASSUME StrictOrder, NEW S, \A x \in S : x.msg \in Messages,
         NEW t, IsTree(t, S), NEW x \in S, NEW p \in LowerBounds(t, x.msg),
         ~Hit(t, x.msg, p), NEW u \in Insertions(t, p, x)
  PROVE  Entered(u, t, x, S)
<1>. DEFINE m == x.msg
<1>0. /\ t \in Seq(S) /\ Len(t) \in Nat /\ m \in Messages
      /\ \A i \in 1..Len(t) : t[i].msg \in Messages
      /\ \A i, j \in 1..Len(t) : i < j => MsgLess(t[i].msg, t[j].msg)
  BY NodesOfTree DEF IsTree
<1>1. /\ p \in 1..Len(t)+1
      /\ \A i \in 1..Len(t) : i < p => MsgLess(t[i].msg, m)
      /\ \A i \in 1..Len(t) : i >= p => MsgLess(m, t[i].msg)
  BY <1>0, SearchSplits
<1>2. u = InsertAt(t, p, x)
  <2>1. ASSUME p > 1 PROVE ~MsgLess(m, t[p-1].msg)
    <3>1. p-1 \in 1..Len(t) /\ MsgLess(t[p-1].msg, m)
      BY <1>0, <1>1, <2>1
    <3>. QED
      BY <1>0, <3>1 DEF StrictOrder
  <2>. QED
    BY <2>1 DEF Insertions
<1>3. /\ u \in Seq(S) /\ Len(u) = Len(t) + 1
      /\ \A i \in 1..Len(t)+1 :
           u[i] = IF i < p THEN t[i] ELSE IF i = p THEN x ELSE t[i-1]
  <2>. HIDE DEF m
  <2>1. t \in Seq(S) /\ x \in S /\ p \in 1..Len(t)+1
    BY <1>0, <1>1
  <2>. QED
    BY <1>2, <2>1, InsertAtProperties
<1>a. Len(t) \in Nat /\ p \in 1..Len(t)+1 /\ Len(u) = Len(t) + 1
  BY <1>0, <1>1, <1>3
<1>4. ASSUME NEW i \in 1..Len(t)+1, NEW j \in 1..Len(t)+1, i < j
      PROVE  MsgLess(u[i].msg, u[j].msg)
  <2>1. CASE j < p
    <3>1. i \in 1..Len(t) /\ j \in 1..Len(t) /\ i < p
      BY <1>a, <1>4, <2>1
    <3>2. u[i] = t[i] /\ u[j] = t[j]
      BY <1>3, <2>1, <3>1
    <3>. QED
      BY <1>0, <1>4, <3>1, <3>2
  <2>2. CASE j = p
    <3>1. i \in 1..Len(t) /\ i < p /\ ~(j < p)
      BY <1>a, <1>4, <2>2
    <3>2. u[i] = t[i] /\ u[j] = x
      BY <1>3, <2>2, <3>1
    <3>. QED
      BY <1>1, <3>1, <3>2
  <2>3. CASE i = p
    <3>1. j-1 \in 1..Len(t) /\ j-1 >= p /\ ~(i < p) /\ ~(j < p) /\ j # p
      BY <1>a, <1>4, <2>3
    <3>2. u[j] = t[j-1] /\ u[i] = x
      BY <1>3, <2>3, <3>1
    <3>. QED
      BY <1>1, <3>1, <3>2
  <2>4. CASE i < p /\ j > p
    <3>1. /\ i \in 1..Len(t) /\ j-1 \in 1..Len(t) /\ i < j-1
          /\ ~(j < p) /\ j # p
      BY <1>a, <1>4, <2>4
    <3>2. u[i] = t[i] /\ u[j] = t[j-1]
      BY <1>3, <2>4, <3>1
    <3>. QED
      BY <1>0, <3>1, <3>2
  <2>5. CASE i > p
    <3>1. /\ i-1 \in 1..Len(t) /\ j-1 \in 1..Len(t) /\ i-1 < j-1
          /\ ~(i < p) /\ i # p /\ ~(j < p) /\ j # p
      BY <1>a, <1>4, <2>5
    <3>2. u[i] = t[i-1] /\ u[j] = t[j-1]
      BY <1>3, <3>1
    <3>. QED
      BY <1>0, <3>1, <3>2
  <2>. QED
    BY <1>a, <1>4, <2>1, <2>2, <2>3, <2>4, <2>5
<1>5. ASSUME NEW i \in 1..Len(t)
      PROVE  \E j \in 1..Len(u) : u[j] = t[i]
  <2>1. CASE i < p
    <3>1. i \in 1..Len(u) /\ i \in 1..Len(t)+1
      BY <1>a
    <3>. QED
      BY <1>3, <2>1, <3>1
  <2>2. CASE ~(i < p)
    <3>1. /\ i+1 \in 1..Len(u) /\ i+1 \in 1..Len(t)+1
          /\ ~(i+1 < p) /\ i+1 # p /\ (i+1)-1 = i
      BY <1>a, <2>2
    <3>2. u[i+1] = t[(i+1)-1]
      BY <1>3, <3>1
    <3>. QED
      BY <3>1, <3>2
  <2>. QED
    BY <2>1, <2>2
<1>6. ASSUME NEW j \in 1..Len(u)
      PROVE  u[j] = x \/ \E i \in 1..Len(t) : u[j] = t[i]
  <2>1. CASE j > p
    <3>1. j \in 1..Len(t)+1 /\ j-1 \in 1..Len(t) /\ ~(j < p) /\ j # p
      BY <1>a, <2>1
    <3>. QED
      BY <1>3, <3>1
  <2>2. CASE j = p
    BY <1>a, <1>3, <2>2
  <2>3. CASE j < p
    <3>1. j \in 1..Len(t)+1 /\ j \in 1..Len(t)
      BY <1>a, <2>3
    <3>. QED
      BY <1>3, <2>3, <3>1
  <2>. QED
    BY <1>a, <2>1, <2>2, <2>3
<1>. QED
  BY <1>0, <1>1, <1>3, <1>4, <1>5, <1>6 DEF IsTree, Entered

\* c is the n sorted nodes of t without the one at q.
Cut(c, t, n, q) ==
  /\ n \in Nat /\ q \in 1..n
  /\ \A i \in 1..n-1 : c[i] = IF i < q THEN t[i] ELSE t[i+1]
  /\ \A i, j \in 1..n : i < j => MsgLess(t[i].msg, t[j].msg)

\* Every other node stays, none comes in, and c is sorted.
CutKept(c, t, n, q) ==
  /\ \A i \in 1..n : i # q => \E j \in 1..n-1 : c[j] = t[i]
  /\ \A j \in 1..n-1 : \E i \in 1..n : c[j] = t[i] /\ i # q
  /\ \A i, j \in 1..n-1 : i < j => MsgLess(c[i].msg, c[j].msg)

\* A node cut out of a sorted sequence leaves the others as they were.
LEMMA CutKeeps ==
  ASSUME NEW c, NEW t, NEW n, NEW q, Cut(c, t, n, q)
  PROVE  CutKept(c, t, n, q)
<1>. USE DEF Cut
<1>1. ASSUME NEW i \in 1..n, i # q
      PROVE  \E j \in 1..n-1 : c[j] = t[i]
  <2>1. CASE i < q
    <3>1. i \in 1..n-1
      BY <2>1
    <3>. QED
      BY <2>1, <3>1
  <2>2. CASE i > q
    <3>1. i-1 \in 1..n-1 /\ ~(i-1 < q) /\ (i-1)+1 = i
      BY <2>2
    <3>2. c[i-1] = t[(i-1)+1]
      BY <3>1
    <3>. QED
      BY <3>1, <3>2
  <2>3. i < q \/ i > q
    BY <1>1
  <2>. QED
    BY <2>1, <2>2, <2>3
<1>2. ASSUME NEW j \in 1..n-1
      PROVE  \E i \in 1..n : c[j] = t[i] /\ i # q
  <2>1. CASE j < q
    <3>1. j \in 1..n /\ j # q
      BY <2>1
    <3>. QED
      BY <2>1, <3>1
  <2>2. CASE ~(j < q)
    <3>1. j+1 \in 1..n /\ j+1 # q
      BY <2>2
    <3>. QED
      BY <2>2, <3>1
  <2>. QED
    BY <2>1, <2>2
<1>3. ASSUME NEW i \in 1..n-1, NEW j \in 1..n-1, i < j
      PROVE  MsgLess(c[i].msg, c[j].msg)
  <2>1. CASE j < q
    <3>1. i < q /\ i \in 1..n /\ j \in 1..n
      BY <1>3, <2>1
    <3>2. c[i] = t[i] /\ c[j] = t[j]
      BY <2>1, <3>1
    <3>. QED
      BY <1>3, <3>1, <3>2
  <2>2. CASE i < q /\ ~(j < q)
    <3>1. i \in 1..n /\ j+1 \in 1..n /\ i < j+1
      BY <1>3, <2>2
    <3>2. c[i] = t[i] /\ c[j] = t[j+1]
      BY <2>2, <3>1
    <3>. QED
      BY <3>1, <3>2
  <2>3. CASE ~(i < q)
    <3>1. /\ ~(j < q)
          /\ i+1 \in 1..n /\ j+1 \in 1..n /\ i+1 < j+1
      BY <1>3, <2>3
    <3>2. c[i] = t[i+1] /\ c[j] = t[j+1]
      BY <2>3, <3>1
    <3>. QED
      BY <3>1, <3>2
  <2>. QED
    BY <2>1, <2>2, <2>3
<1>. QED
  BY <1>1, <1>2, <1>3 DEF CutKept

\* Erasing a message that is there takes away its node and no other.
LEMMA EraseNode ==
  ASSUME StrictOrder, NEW S, \A x \in S : x.msg \in Messages,
         NEW t, IsTree(t, S), NEW m \in Messages,
         NEW q \in LowerBounds(t, m), Hit(t, m, q),
         NEW u \in UpperBounds(t, m), u > q,
         NEW c, c = SubSeq(t, 1, q - 1) \o SubSeq(t, u, Len(t))
  PROVE  Erased(c, t, m, S)
<1>0. /\ t \in Seq(S) /\ Len(t) \in Nat
      /\ \A i \in 1..Len(t) : t[i].msg \in Messages
      /\ \A i, j \in 1..Len(t) : i < j => MsgLess(t[i].msg, t[j].msg)
  BY NodesOfTree DEF IsTree
<1>1. /\ q \in 1..Len(t) /\ t[q].msg = m
      /\ \A i \in 1..Len(t) : i > q => MsgLess(m, t[i].msg)
      /\ \A i \in 1..Len(t) : t[i].msg = m => i = q
  BY SearchSplits, SearchIsExact
<1>2. u \in 1..Len(t)+1 /\ ~MsgLess(m, t[u-1].msg)
  BY <1>0, <1>1 DEF UpperBounds
<1>3. u = q + 1
  <2>1. ~(u - 1 > q)
    BY <1>0, <1>1, <1>2
  <2>. QED
    BY <1>0, <1>1, <1>2, <2>1
<1>4. /\ c \in Seq(S) /\ Len(c) = Len(t) - 1
      /\ \A i \in 1..Len(t)-1 : c[i] = IF i < q THEN t[i] ELSE t[i+1]
  <2>1. q \in 1..Len(t)+1 /\ q+1 \in 1..Len(t)+1 /\ q <= q+1 /\ (q+1) - q = 1
    BY <1>0, <1>1
  <2>2. /\ c \in Seq(S) /\ Len(c) = Len(t) - ((q+1) - q)
        /\ \A i \in 1..Len(t)-((q+1)-q) :
             c[i] = IF i < q THEN t[i] ELSE t[i+((q+1)-q)]
    BY <1>0, <1>3, <2>1, CutProperties
  <2>. QED
    BY <2>1, <2>2
<1>5. /\ \A i \in 1..Len(t) : i # q => \E j \in 1..Len(t)-1 : c[j] = t[i]
      /\ \A j \in 1..Len(t)-1 : \E i \in 1..Len(t) : c[j] = t[i] /\ i # q
      /\ \A i, j \in 1..Len(t)-1 : i < j => MsgLess(c[i].msg, c[j].msg)
  <2>1. Len(t) \in Nat /\ q \in 1..Len(t)
    BY <1>0, <1>1
  <2>2. \A i \in 1..Len(t)-1 : c[i] = IF i < q THEN t[i] ELSE t[i+1]
    BY <1>4
  <2>3. \A i, j \in 1..Len(t) : i < j => MsgLess(t[i].msg, t[j].msg)
    BY <1>0
  <2>4. Cut(c, t, Len(t), q)
    BY <2>1, <2>2, <2>3 DEF Cut
  <2>5. CutKept(c, t, Len(t), q)
    BY <2>4, CutKeeps
  <2>. QED
    BY <2>5 DEF CutKept
<1>6. ASSUME NEW i \in 1..Len(t), t[i].msg # m
      PROVE  \E j \in 1..Len(c) : c[j] = t[i]
  BY <1>1, <1>4, <1>5, <1>6
<1>7. ASSUME NEW j \in 1..Len(c)
      PROVE  c[j].msg # m /\ \E i \in 1..Len(t) : c[j] = t[i]
  <2>1. j \in 1..Len(t)-1
    BY <1>4, <1>7
  <2>2. PICK i \in 1..Len(t) : c[j] = t[i] /\ i # q
    BY <1>5, <2>1
  <2>3. t[i].msg # m
    BY <1>1, <2>2
  <2>. QED
    BY <2>2, <2>3
<1>8. IsTree(c, S)
  BY <1>4, <1>5 DEF IsTree
<1>. QED
  BY <1>6, <1>7, <1>8 DEF Erased

-----------------------------------------------------------------------------
(* Receiving *)

\* A message received fewer than drop_after times has a node in m_MsgCount
\* with the number of its receipts, any other one a node in m_droppedMsg.
Counting ==
  /\ received \in [Messages -> Nat] /\ acked \in [Messages -> Nat]
  /\ IsTree(msgCount, CountNode)
  /\ IsTree(dropped, DropNode)
  /\ \A i \in 1..Len(msgCount) : msgCount[i].n = received[msgCount[i].msg]
  /\ \A m \in Messages :
       HasMsg(msgCount, m) <=> received[m] \in 1..DropAfter-1
  /\ \A m \in Messages : HasMsg(dropped, m) <=> received[m] >= DropAfter
  /\ AckedExactly

LEMMA NodeTypes ==
  /\ \A x \in CountNode : x.msg \in Messages /\ x.n \in Nat
  /\ \A x \in DropNode : x.msg \in Messages
  /\ \A m \in Messages, n \in Nat : [msg |-> m, n |-> n] \in CountNode
  /\ \A m \in Messages : [msg |-> m] \in DropNode
  BY DEF CountNode, DropNode

\* m_MsgCount after counting a receipt of m: its node is found again, with one
\* receipt more, and the other nodes are the same.
LEMMA CountedNode ==
  ASSUME StrictOrder, Counting, NEW m \in Messages, received[m] < DropAfter,
         NEW p \in LowerBounds(msgCount, m), NEW t \in Counted(msgCount, m, p)
  PROVE  /\ IsTree(t, CountNode)
         /\ \E j \in 1..Len(t) : t[j] = [msg |-> m, n |-> received[m] + 1]
         /\ \A i \in 1..Len(msgCount) :
              msgCount[i].msg # m => \E j \in 1..Len(t) : t[j] = msgCount[i]
         /\ \A j \in 1..Len(t) :
              t[j].msg # m => \E i \in 1..Len(msgCount) : t[j] = msgCount[i]
<1>0. /\ IsTree(msgCount, CountNode) /\ msgCount \in Seq(CountNode)
      /\ Len(msgCount) \in Nat
      /\ \A i \in 1..Len(msgCount) :
           /\ msgCount[i] \in CountNode /\ msgCount[i].msg \in Messages
           /\ msgCount[i].n = received[msgCount[i].msg]
      /\ received[m] \in Nat
      /\ HasMsg(msgCount, m) <=> received[m] \in 1..DropAfter-1
  BY NodeTypes, NodesOfTree DEF Counting, IsTree
<1>1. /\ Hit(msgCount, m, p) <=> HasMsg(msgCount, m)
      /\ Hit(msgCount, m, p) => p \in 1..Len(msgCount) /\ msgCount[p].msg = m
      /\ \A i \in 1..Len(msgCount) : msgCount[i].msg = m => i = p
  BY <1>0, NodeTypes, SearchIsExact
<1>2. CASE Hit(msgCount, m, p)
  <2>. DEFINE x == [msg |-> m, n |-> received[m] + 1]
  <2>1. p \in 1..Len(msgCount) /\ msgCount[p].msg = m
    BY <1>1, <1>2
  <2>2. msgCount[p] \in CountNode /\ msgCount[p].n = received[m]
    BY <1>0, <2>1
  <2>3. [msgCount[p] EXCEPT !.n = @ + 1] = x
    BY <2>1, <2>2 DEF CountNode
  <2>4. t = [msgCount EXCEPT ![p] = x]
    BY <1>2, <2>3 DEF Counted
  <2>5. x \in CountNode /\ x.msg = m
    BY <1>0, NodeTypes
  <2>. HIDE DEF x
  <2>6. /\ t \in Seq(CountNode) /\ Len(t) = Len(msgCount)
        /\ \A i \in 1..Len(msgCount) : t[i] = IF i = p THEN x ELSE msgCount[i]
    BY <1>0, <2>1, <2>4, <2>5, ExceptSeq
  <2>7. \A i \in 1..Len(t) : t[i].msg = msgCount[i].msg
    BY <2>1, <2>5, <2>6
  <2>8. IsTree(t, CountNode)
    BY <1>0, <2>6, <2>7 DEF IsTree
  <2>9. \E j \in 1..Len(t) : t[j] = x
    BY <2>1, <2>6
  <2>10. \A i \in 1..Len(msgCount) :
           msgCount[i].msg # m => \E j \in 1..Len(t) : t[j] = msgCount[i]
    BY <2>1, <2>6
  <2>11. \A j \in 1..Len(t) :
           t[j].msg # m => \E i \in 1..Len(msgCount) : t[j] = msgCount[i]
    BY <2>5, <2>6
  <2>. QED
    BY <2>8, <2>9, <2>10, <2>11 DEF x
<1>3. CASE ~Hit(msgCount, m, p)
  <2>. DEFINE x == [msg |-> m, n |-> 1]
  <2>1. received[m] = 0
    BY <1>0, <1>1, <1>3, ReceiptAssumption
  <2>2. x \in CountNode /\ x.msg = m /\ t \in Insertions(msgCount, p, x)
    BY <1>3, NodeTypes DEF Counted
  <2>3. x = [msg |-> m, n |-> received[m] + 1]
    BY <2>1
  <2>. HIDE DEF x
  <2>a. /\ \A y \in CountNode : y.msg \in Messages
        /\ p \in LowerBounds(msgCount, x.msg) /\ ~Hit(msgCount, x.msg, p)
        /\ IsTree(msgCount, CountNode)
        /\ x \in CountNode /\ t \in Insertions(msgCount, p, x)
    BY <1>0, <1>3, <2>2, NodeTypes
  <2>4. Entered(t, msgCount, x, CountNode)
    BY <2>a, InsertNode
  <2>. QED
    BY <2>2, <2>3, <2>4 DEF Entered
<1>. QED
  BY <1>2, <1>3

\* An answered receipt was one of the first drop_after.
LEMMA AnswerCounts ==
  ASSUME StrictOrder, Counting, NEW m \in Messages, Answer(m)
  PROVE  Counting'
<1>0. /\ received \in [Messages -> Nat] /\ acked \in [Messages -> Nat]
      /\ IsTree(msgCount, CountNode) /\ IsTree(dropped, DropNode)
      /\ \A k \in Messages :
           /\ HasMsg(msgCount, k) <=> received[k] \in 1..DropAfter-1
           /\ HasMsg(dropped, k) <=> received[k] >= DropAfter
           /\ acked[k] = IF received[k] < DropAfter THEN received[k] ELSE DropAfter
           /\ received[k] \in Nat
      /\ \A i \in 1..Len(msgCount) : msgCount[i].n = received[msgCount[i].msg]
      /\ DropAfter \in Nat \ {0}
  BY ReceiptAssumption DEF Counting, AckedExactly
<1>1. /\ received' = [received EXCEPT ![m] = @ + 1]
      /\ acked' = [acked EXCEPT ![m] = @ + 1]
  BY DEF Answer
<1>2. PICK d \in LowerBounds(dropped, m), p \in LowerBounds(msgCount, m) :
        /\ ~Hit(dropped, m, d)
        /\ \E t \in Counted(msgCount, m, p) : \E q \in LowerBounds(t, m) :
             /\ Hit(msgCount, m, p) => q = p
             /\ \/ /\ ~Reached(t, m, q)
                   /\ msgCount' \in Compared(t, m, q)
                   /\ UNCHANGED dropped
                \/ /\ Reached(t, m, q)
                   /\ \E u \in UpperBounds(t, m) :
                        /\ u > q
                        /\ msgCount' = SubSeq(t, 1, q - 1) \o SubSeq(t, u, Len(t))
                   /\ dropped' \in Insertions(dropped, d, [msg |-> m])
  BY DEF Answer
<1>t. PICK t \in Counted(msgCount, m, p) : \E q \in LowerBounds(t, m) :
        \/ /\ ~Reached(t, m, q)
           /\ msgCount' \in Compared(t, m, q)
           /\ UNCHANGED dropped
        \/ /\ Reached(t, m, q)
           /\ \E u \in UpperBounds(t, m) :
                /\ u > q
                /\ msgCount' = SubSeq(t, 1, q - 1) \o SubSeq(t, u, Len(t))
           /\ dropped' \in Insertions(dropped, d, [msg |-> m])
  BY <1>2
<1>3. PICK q \in LowerBounds(t, m) :
        \/ /\ ~Reached(t, m, q)
           /\ msgCount' \in Compared(t, m, q)
           /\ UNCHANGED dropped
        \/ /\ Reached(t, m, q)
           /\ \E u \in UpperBounds(t, m) :
                /\ u > q
                /\ msgCount' = SubSeq(t, 1, q - 1) \o SubSeq(t, u, Len(t))
           /\ dropped' \in Insertions(dropped, d, [msg |-> m])
  BY <1>t
<1>4. received[m] < DropAfter
  <2>1. ~HasMsg(dropped, m)
    BY <1>0, <1>2, NodeTypes, SearchIsExact
  <2>. QED
    BY <1>0, <2>1
<1>5. /\ IsTree(t, CountNode)
      /\ \E j \in 1..Len(t) : t[j] = [msg |-> m, n |-> received[m] + 1]
      /\ \A i \in 1..Len(msgCount) :
           msgCount[i].msg # m => \E j \in 1..Len(t) : t[j] = msgCount[i]
      /\ \A j \in 1..Len(t) :
           t[j].msg # m => \E i \in 1..Len(msgCount) : t[j] = msgCount[i]
  BY <1>4, CountedNode
<1>6. Hit(t, m, q) /\ t[q].msg = m /\ t[q].n = received[m] + 1
        /\ \A i \in 1..Len(t) : t[i].msg = m => i = q
  <2>1. PICK j \in 1..Len(t) : t[j] = [msg |-> m, n |-> received[m] + 1]
    BY <1>5
  <2>2. t[j].msg = m /\ t[j].n = received[m] + 1
    BY <2>1
  <2>3. /\ Hit(t, m, q) <=> HasMsg(t, m)
        /\ \A i \in 1..Len(t) : t[i].msg = m => i = q
    BY <1>5, NodeTypes, SearchIsExact
  <2>4. HasMsg(t, m) /\ j = q
    BY <2>2, <2>3 DEF HasMsg
  <2>. QED
    BY <2>2, <2>3, <2>4
<1>7. Reached(t, m, q) <=> received[m] + 1 = DropAfter
  BY <1>6 DEF Reached
<1>8. /\ received' \in [Messages -> Nat] /\ acked' \in [Messages -> Nat]
      /\ received'[m] = received[m] + 1
      /\ \A k \in Messages : k # m => received'[k] = received[k]
  BY <1>0, <1>1
<1>9. AckedExactly'
  <2>1. /\ acked'[m] = acked[m] + 1
        /\ \A k \in Messages : k # m => acked'[k] = acked[k]
    BY <1>0, <1>1
  <2>2. ASSUME NEW k \in Messages
        PROVE  acked'[k] = IF received'[k] < DropAfter THEN received'[k] ELSE DropAfter
    <3>1. /\ acked[k] = IF received[k] < DropAfter THEN received[k] ELSE DropAfter
          /\ received[k] \in Nat /\ DropAfter \in Nat
      BY <1>0
    <3>2. CASE k = m
      BY <1>4, <1>8, <2>1, <3>1, <3>2
    <3>3. CASE k # m
      BY <1>8, <2>1, <3>1, <3>3
    <3>. QED
      BY <3>2, <3>3
  <2>. QED
    BY <2>2 DEF AckedExactly
<1>10. \A k \in Messages \ {m} : HasMsg(t, k) <=> HasMsg(msgCount, k)
  BY <1>5 DEF HasMsg
<1>11. \A j \in 1..Len(t) : t[j].n = received'[t[j].msg]
  <2>1. ASSUME NEW j \in 1..Len(t), t[j].msg # m
        PROVE  t[j].n = received'[t[j].msg]
    <3>1. PICK i \in 1..Len(msgCount) : t[j] = msgCount[i]
      BY <1>5, <2>1
    <3>2. msgCount[i].msg \in Messages
      BY <1>0, NodeTypes, NodesOfTree DEF IsTree
    <3>. QED
      BY <1>0, <1>8, <2>1, <3>1, <3>2
  <2>. QED
    BY <1>6, <1>8, <2>1
<1>12. CASE ~Reached(t, m, q)
  <2>1. msgCount' = t /\ dropped' = dropped
    BY <1>3, <1>6, <1>12 DEF Compared
  <2>2. received[m] + 1 \in 1..DropAfter-1
    BY <1>0, <1>4, <1>7, <1>12
  <2>3. HasMsg(t, m)
    BY <1>5 DEF HasMsg
  <2>4. \A k \in Messages :
          HasMsg(msgCount', k) <=> received'[k] \in 1..DropAfter-1
    BY <1>0, <1>8, <1>10, <2>1, <2>2, <2>3
  <2>5. \A k \in Messages : HasMsg(dropped', k) <=> received'[k] >= DropAfter
    <3>1. ASSUME NEW k \in Messages
          PROVE  HasMsg(dropped, k) <=> received'[k] >= DropAfter
      <4>1. CASE k = m
        <5>1. ~(received[m] >= DropAfter) /\ ~(received'[m] >= DropAfter)
          BY <1>0, <1>4, <1>8, <2>2
        <5>. QED
          BY <1>0, <4>1, <5>1
      <4>2. CASE k # m
        BY <1>0, <1>8, <4>2
      <4>. QED
        BY <4>1, <4>2
    <3>. QED
      BY <2>1, <3>1
  <2>. QED
    BY <1>0, <1>5, <1>8, <1>9, <1>11, <2>1, <2>4, <2>5 DEF Counting, HasMsg
<1>13. CASE Reached(t, m, q)
  <2>. DEFINE x == [msg |-> m]
  <2>1. PICK u \in UpperBounds(t, m) :
          u > q /\ msgCount' = SubSeq(t, 1, q - 1) \o SubSeq(t, u, Len(t))
    BY <1>3, <1>13
  <2>a. Erased(msgCount', t, m, CountNode)
    <3>1. \A y \in CountNode : y.msg \in Messages
      BY NodeTypes
    <3>2. IsTree(t, CountNode) /\ Hit(t, m, q)
      BY <1>5, <1>6
    <3>. QED
      BY <2>1, <3>1, <3>2, EraseNode
  <2>2. /\ IsTree(msgCount', CountNode)
        /\ \A i \in 1..Len(t) :
             t[i].msg # m => \E j \in 1..Len(msgCount') : msgCount'[j] = t[i]
        /\ \A j \in 1..Len(msgCount') :
             msgCount'[j].msg # m /\ \E i \in 1..Len(t) : msgCount'[j] = t[i]
    BY <2>a DEF Erased
  <2>3. dropped' \in Insertions(dropped, d, x) /\ x \in DropNode /\ x.msg = m
    BY <1>3, <1>13, NodeTypes
  <2>. HIDE DEF x
  <2>b. Entered(dropped', dropped, x, DropNode)
    <3>1. /\ \A y \in DropNode : y.msg \in Messages
          /\ d \in LowerBounds(dropped, x.msg) /\ ~Hit(dropped, x.msg, d)
          /\ IsTree(dropped, DropNode)
          /\ x \in DropNode /\ dropped' \in Insertions(dropped, d, x)
      BY <1>0, <1>2, <2>3, NodeTypes
    <3>. QED
      BY <3>1, InsertNode
  <2>4. /\ IsTree(dropped', DropNode)
        /\ \E j \in 1..Len(dropped') : dropped'[j] = x
        /\ \A i \in 1..Len(dropped) :
             \E j \in 1..Len(dropped') : dropped'[j] = dropped[i]
        /\ \A j \in 1..Len(dropped') :
             dropped'[j] = x \/ \E i \in 1..Len(dropped) : dropped'[j] = dropped[i]
    BY <2>b DEF Entered
  <2>5. received'[m] = DropAfter
    BY <1>7, <1>8, <1>13
  <2>6. ~HasMsg(msgCount', m)
    BY <2>2 DEF HasMsg
  <2>7. \A k \in Messages \ {m} : HasMsg(msgCount', k) <=> HasMsg(t, k)
    BY <2>2 DEF HasMsg
  <2>8. \A k \in Messages :
          HasMsg(msgCount', k) <=> received'[k] \in 1..DropAfter-1
    <3>1. ~(received'[m] \in 1..DropAfter-1)
      BY <1>0, <2>5
    <3>2. \A k \in Messages \ {m} :
            HasMsg(msgCount', k) <=> received'[k] \in 1..DropAfter-1
      BY <1>0, <1>8, <1>10, <2>7
    <3>. QED
      BY <2>6, <3>1, <3>2
  <2>9. HasMsg(dropped', m)
    BY <2>3, <2>4 DEF HasMsg
  <2>10. \A k \in Messages \ {m} : HasMsg(dropped', k) <=> HasMsg(dropped, k)
    BY <2>3, <2>4 DEF HasMsg
  <2>11. \A k \in Messages : HasMsg(dropped', k) <=> received'[k] >= DropAfter
    <3>1. received'[m] >= DropAfter
      BY <1>0, <2>5
    <3>2. \A k \in Messages \ {m} :
            HasMsg(dropped', k) <=> received'[k] >= DropAfter
      BY <1>0, <1>8, <2>10
    <3>. QED
      BY <2>9, <3>1, <3>2
  <2>12. \A j \in 1..Len(msgCount') :
           msgCount'[j].n = received'[msgCount'[j].msg]
    BY <1>11, <2>2
  <2>. QED
    BY <1>8, <1>9, <2>2, <2>4, <2>8, <2>11, <2>12 DEF Counting, HasMsg
<1>. QED
  BY <1>12, <1>13

\* An ignored one was not.
LEMMA IgnoreCounts ==
  ASSUME StrictOrder, Counting, NEW m \in Messages, Ignore(m)
  PROVE  Counting'
<1>1. PICK d \in LowerBounds(dropped, m) : Hit(dropped, m, d)
  BY DEF Ignore
<1>2. HasMsg(dropped, m)
  BY <1>1, NodeTypes, SearchIsExact DEF Counting
<1>3. received[m] >= DropAfter /\ received[m] \in Nat /\ DropAfter \in Nat
  BY <1>2, ReceiptAssumption DEF Counting
<1>4. /\ received' \in [Messages -> Nat]
      /\ received'[m] = received[m] + 1
      /\ \A k \in Messages : k # m => received'[k] = received[k]
      /\ UNCHANGED <<msgCount, dropped, acked>>
  BY DEF Ignore, Counting
<1>5. ~HasMsg(msgCount, m)
  BY <1>3 DEF Counting
<1>6. \A i \in 1..Len(msgCount) : msgCount[i].msg # m /\ msgCount[i].msg \in Messages
  BY <1>5, NodeTypes, NodesOfTree DEF HasMsg, Counting, IsTree
<1>7. AckedExactly'
  BY <1>3, <1>4 DEF Counting, AckedExactly
<1>8. \A k \in Messages :
        /\ HasMsg(msgCount, k) <=> received'[k] \in 1..DropAfter-1
        /\ HasMsg(dropped, k) <=> received'[k] >= DropAfter
  BY <1>2, <1>3, <1>4, <1>5 DEF Counting
<1>9. \A i \in 1..Len(msgCount) : msgCount[i].n = received'[msgCount[i].msg]
  BY <1>4, <1>6 DEF Counting
<1>. QED
  BY <1>4, <1>7, <1>8, <1>9 DEF Counting, HasMsg

LEMMA AlwaysCounting == Separate(Messages) => (Spec => []Counting)
<1>. SUFFICES ASSUME Separate(Messages) PROVE Spec => []Counting
  OBVIOUS
<1>1. StrictOrder
  BY OrderExactly
<1>2. Init => Counting
  BY ReceiptAssumption DEF Init, Counting, AckedExactly, IsTree, HasMsg
<1>3. Counting /\ [Next]_vars => Counting'
  <2>1. ASSUME Counting, UNCHANGED vars PROVE Counting'
    BY <2>1 DEF Counting, AckedExactly, HasMsg, vars
  <2>. QED
    BY <1>1, <2>1, AnswerCounts, IgnoreCounts DEF Next
<1>. QED
  BY <1>2, <1>3, PTL DEF Spec

\* THEOREM: of messages the comparator keeps apart a secondary answers the
\* first drop_after receipts of each, and no other, in whatever order the
\* receipts of all of them come (RouterSecond.cpp:273-298).
THEOREM AnswersExactly == Separate(Messages) => (Spec => []AckedExactly)
<1>1. Counting => AckedExactly
  BY DEF Counting
<1>. QED
  BY <1>1, AlwaysCounting, PTL

\* THEOREM: and m_MsgCount stores the number of receipts of each message that
\* has not been received so often yet (cRouter.h:90).
THEOREM CountsAreStored == Separate(Messages) => (Spec => []StoresReceipts)
<1>1. ASSUME Counting PROVE StoresReceipts
  <2>1. SUFFICES ASSUME NEW m \in Messages, received[m] \in 1..DropAfter-1
                 PROVE  \E i \in 1..Len(msgCount) :
                          msgCount[i] = [msg |-> m, n |-> received[m]]
    BY DEF StoresReceipts
  <2>2. PICK i \in 1..Len(msgCount) : msgCount[i].msg = m
    BY <1>1, <2>1 DEF Counting, HasMsg
  <2>3. msgCount[i] \in CountNode /\ msgCount[i].n = received[m]
    BY <1>1, <2>2, NodeTypes, NodesOfTree DEF Counting, IsTree
  <2>. QED
    BY <2>2, <2>3 DEF CountNode
<1>. QED
  BY <1>1, AlwaysCounting, PTL
=============================================================================
