-------------------------- MODULE FlowTableProofs --------------------------
(***************************************************************************)
(* Theorems about the flow table: as long as its entries are of one        *)
(* protocol, or of ICMP and TCP packets that it can tell apart, the        *)
(* comparator is an order, the nodes stay sorted by it, and the table is   *)
(* the function it is meant to be, for any number of entries and whatever  *)
(* the shape of the tree.  Run flow_mixed shows that the condition is      *)
(* needed.                                                                 *)
(***************************************************************************)
EXTENDS FlowTable, SequenceProofs

\* All packets are of one protocol: ICMP, whose entries have wildcards for both
\* ports, or TCP, whose entries have no wildcard.
OneProtocol ==
  \E pr \in 0..AnyPort-1 :
    \/ \A e \in Entries :
         e.protocol = pr /\ e.srcPort = AnyPort /\ e.dstPort = AnyPort
    \/ \A e \in Entries : e.protocol = pr /\ ~HasWildcard(e)

\* All packets are ICMP or TCP (1 and 6), to and from addresses that are no
\* wildcards.
IcmpOrTcp ==
  /\ AnyPort > 6
  /\ \A e \in Entries :
       e.srcIp < AnyIp /\ e.dstIp < AnyIp /\ (OfIcmp(e) \/ OfTcp(e))

\* A host that exchanges ICMP packets with one host and TCP packets with
\* another does so, of the two, with the greater one by ICMP.
PingsGreater ==
  \A h, p \in Entries :
    OfTcp(h) /\ OfIcmp(p) /\ h.srcIp = p.srcIp => h.dstIp < p.dstIp

Apart == OneProtocol \/ (IcmpOrTcp /\ PingsGreater)

\* The comparator is a strict total order on the keys.
Ordered ==
  /\ \A a \in Keys : ~Less(a, a)
  /\ \A a, b \in Keys : a # b => Less(a, b) \/ Less(b, a)
  /\ \A a, b, c \in Keys : Less(a, b) /\ Less(b, c) => Less(a, c)

-----------------------------------------------------------------------------
(* The comparator *)

LEMMA KeyType == \A k \in Keys : k \in Entry
  BY FlowAssumption DEF Keys, DefaultEntry, Entry

\* The fields decide one after the other.
Lex(a, b) ==
  \/ a.srcIp < b.srcIp
  \/ a.srcIp = b.srcIp /\ a.srcPort < b.srcPort
  \/ a.srcIp = b.srcIp /\ a.srcPort = b.srcPort /\ a.dstIp < b.dstIp
  \/ /\ a.srcIp = b.srcIp /\ a.srcPort = b.srcPort /\ a.dstIp = b.dstIp
     /\ a.dstPort < b.dstPort
  \/ /\ a.srcIp = b.srcIp /\ a.srcPort = b.srcPort /\ a.dstIp = b.dstIp
     /\ a.dstPort = b.dstPort /\ a.protocol < b.protocol

LEMMA LexOrder ==
  /\ \A a \in Entry : ~Lex(a, a)
  /\ \A a, b \in Entry : a # b => Lex(a, b) \/ Lex(b, a)
  /\ \A a, b, c \in Entry : Lex(a, b) /\ Lex(b, c) => Lex(a, c)
<1>1. \A a \in Entry : ~Lex(a, a)
  BY FlowAssumption DEF Entry, Lex
<1>2. \A a, b \in Entry : a # b => Lex(a, b) \/ Lex(b, a)
  BY FlowAssumption DEF Entry, Lex
<1>3. \A a, b, c \in Entry : Lex(a, b) /\ Lex(b, c) => Lex(a, c)
  BY FlowAssumption DEF Entry, Lex
<1>. QED
  BY <1>1, <1>2, <1>3

\* With entries of one protocol every comparison is the exact one: the default
\* entry, the only mixture of kinds, is greater than all others either way.
LEMMA OneProtocolIsLex ==
  ASSUME OneProtocol, NEW a \in Keys, NEW b \in Keys
  PROVE  Less(a, b) <=> Lex(a, b)
<1>1. a \in Entry /\ b \in Entry
  BY KeyType
<1>2. PICK pr \in 0..AnyPort-1 :
        \/ \A e \in Entries :
             e.protocol = pr /\ e.srcPort = AnyPort /\ e.dstPort = AnyPort
        \/ \A e \in Entries : e.protocol = pr /\ ~HasWildcard(e)
  BY DEF OneProtocol
<1>3. CASE HasWildcard(a)
  BY <1>1, <1>3, FlowAssumption DEF Less, Lex, Entry
<1>4. CASE ~HasWildcard(a)
  <2>1. a \in Entries /\ a.protocol = pr
    BY <1>2, <1>4 DEF Keys, DefaultEntry, HasWildcard
  <2>2. CASE b = DefaultEntry
    <3>1. ~(a.srcIp = AnyIp) /\ a.srcIp \in 0..AnyIp
      BY <1>1, <1>4 DEF HasWildcard, Entry
    <3>2. Lex(a, b)
      BY <2>2, <3>1, FlowAssumption DEF Lex, DefaultEntry
    <3>3. Less(a, b)
      BY <2>1, <2>2, <1>4, FlowAssumption DEF Less, DefaultEntry
    <3>. QED
      BY <3>2, <3>3
  <2>3. CASE b # DefaultEntry
    <3>1. b \in Entries /\ ~HasWildcard(b)
      BY <1>2, <1>4, <2>1, <2>3 DEF Keys, HasWildcard
    <3>. QED
      BY <1>1, <1>4, <3>1, FlowAssumption DEF Less, Lex, Entry, HasWildcard
  <2>. QED
    BY <2>2, <2>3
<1>. QED
  BY <1>3, <1>4

LEMMA IcmpOrTcpFields ==
  ASSUME IcmpOrTcp, NEW k \in Keys
  PROVE  /\ k.srcIp \in Nat /\ k.srcPort \in Nat
         /\ k.dstIp \in Nat /\ k.dstPort \in Nat
         /\ \/ k = DefaultEntry
            \/ k \in Entries /\ k.srcIp < AnyIp /\ k.dstIp < AnyIp /\ OfIcmp(k)
            \/ k \in Entries /\ k.srcIp < AnyIp /\ k.dstIp < AnyIp /\ OfTcp(k)
  BY KeyType, FlowAssumption DEF IcmpOrTcp, Keys, Entry

\* So it is where a TCP entry comes before every ICMP entry of its source.
LEMMA MixtureIsLex ==
  ASSUME IcmpOrTcp, PingsGreater, NEW a \in Keys, NEW b \in Keys
  PROVE  Less(a, b) <=> Lex(a, b)
<1>. USE IcmpOrTcpFields, FlowAssumption
<1>1. a \in Entry /\ b \in Entry
  BY KeyType
<1>2. CASE HasWildcard(a)
  BY <1>1, <1>2 DEF Less, Lex, Entry
<1>3. CASE ~HasWildcard(a)
  <2>1. a \in Entries /\ OfTcp(a) /\ a.srcIp < AnyIp /\ a.dstIp < AnyIp
    BY <1>3 DEF HasWildcard, DefaultEntry, OfIcmp
  <2>2. CASE b = DefaultEntry
    BY <2>1, <2>2, <1>3 DEF Less, Lex, DefaultEntry, OfTcp, IcmpOrTcp
  <2>3. CASE b \in Entries /\ OfIcmp(b) /\ b.srcIp < AnyIp /\ b.dstIp < AnyIp
    <3>1. a.srcIp = b.srcIp => a.dstIp < b.dstIp
      BY <2>1, <2>3 DEF PingsGreater
    <3>. QED
      BY <2>1, <2>3, <1>3, <3>1 DEF Less, Lex, OfTcp, OfIcmp
  <2>4. CASE b \in Entries /\ OfTcp(b) /\ b.srcIp < AnyIp /\ b.dstIp < AnyIp
    BY <2>1, <2>4, <1>1, <1>3 DEF Less, Lex, OfTcp, Entry
  <2>. QED
    BY <2>2, <2>3, <2>4
<1>. QED
  BY <1>2, <1>3

\* THEOREM: flow_entry::operator< (cRouter.cpp:53-147) is a strict total order on
\* entries of one protocol, and on ICMP and TCP entries of which those of one
\* source have the greater destination by ICMP.
THEOREM ComparatorIsOrder == Apart => Ordered
<1>. SUFFICES ASSUME Apart PROVE Ordered
  OBVIOUS
<1>1. \A a, b \in Keys : Less(a, b) <=> Lex(a, b)
  BY OneProtocolIsLex, MixtureIsLex DEF Apart
<1>. QED
  BY <1>1, KeyType, LexOrder DEF Ordered

\* THEOREM: on other mixtures of ICMP and TCP entries it is none: an ICMP and a
\* TCP entry of one source of which the TCP one's destination is not smaller
\* are the same key to the map (cRouter.cpp:80).
THEOREM OrderNeedsPingsGreater == IcmpOrTcp /\ Ordered => PingsGreater
<1>. SUFFICES ASSUME IcmpOrTcp, Ordered,
                     NEW h \in Entries, NEW p \in Entries,
                     OfTcp(h), OfIcmp(p), h.srcIp = p.srcIp
              PROVE  h.dstIp < p.dstIp
  BY DEF PingsGreater
<1>1. h \in Keys /\ p \in Keys /\ h # p
  BY DEF Keys, OfTcp, OfIcmp
<1>2. Less(h, p) \/ Less(p, h)
  BY <1>1 DEF Ordered
<1>3. ~Less(p, h)
  BY <1>1, IcmpOrTcpFields, FlowAssumption DEF Less, HasWildcard, OfTcp, OfIcmp
<1>4. Less(h, p) => h.dstIp < p.dstIp
  BY <1>1, IcmpOrTcpFields, FlowAssumption DEF Less, HasWildcard, OfTcp, OfIcmp, IcmpOrTcp
<1>. QED
  BY <1>2, <1>3, <1>4

-----------------------------------------------------------------------------
(* Searching *)

\* The nodes are sorted by their keys.
SortedByKey(t) ==
  \A i, j \in 1..Len(t) : i < j => Less(t[i].key, t[j].key)

\* A table as the operations keep it.
IsTable(t) == t \in Seq(Node) /\ SortedByKey(t)

LEMMA NodesOfTable ==
  ASSUME NEW t, t \in Seq(Node)
  PROVE  /\ Len(t) \in Nat
         /\ \A i \in 1..Len(t) :
              t[i] \in Node /\ t[i].key \in Keys /\ t[i].act \in Actions
<1>1. Len(t) \in Nat /\ \A i \in 1..Len(t) : t[i] \in Node
  BY LenProperties, ElementOfSeq
<1>2. \A n \in Node : n.key \in Keys /\ n.act \in Actions
  BY DEF Node
<1>. QED
  BY <1>1, <1>2

\* A search always ends somewhere.
LEMMA SearchEnds ==
  ASSUME NEW t, t \in Seq(Node), NEW k
  PROVE  LowerBounds(t, k) # {}
<1>. DEFINE T == {i \in 1..Len(t)+1 : i <= Len(t) => ~Less(t[i].key, k)}
<1>0. Len(t) \in Nat
  BY NodesOfTable
<1>1. T \subseteq Nat /\ Len(t) + 1 \in T
  BY <1>0
<1>2. PICK p \in T : \A y \in T : p <= y
  <2>. HIDE DEF T
  <2>. QED
    BY <1>1, LeastNatural
<1>3. p \in 1..Len(t)+1 /\ (p <= Len(t) => ~Less(t[p].key, k))
  OBVIOUS
<1>4. p > 1 => Less(t[p-1].key, k)
  BY <1>0, <1>2, <1>3
<1>. QED
  BY <1>3, <1>4 DEF LowerBounds

\* In a sorted table a search can only end at the place of its key: smaller
\* keys are before it, greater ones behind it, and k itself, if present, on it.
LEMMA LowerBoundSplits ==
  ASSUME Ordered, NEW t, IsTable(t), NEW k \in Keys,
         NEW p \in LowerBounds(t, k)
  PROVE  /\ p \in 1..Len(t)+1
         /\ \A i \in 1..Len(t) : i < p => Less(t[i].key, k)
         /\ Hit(t, k, p) => p \in 1..Len(t) /\ t[p].key = k
         /\ \A i \in 1..Len(t) : i > p => Less(k, t[i].key)
         /\ ~Hit(t, k, p) => \A i \in 1..Len(t) : i >= p => Less(k, t[i].key)
<1>0. /\ Len(t) \in Nat
      /\ \A i \in 1..Len(t) : t[i].key \in Keys
      /\ SortedByKey(t)
  BY NodesOfTable DEF IsTable
<1>1. /\ p \in 1..Len(t)+1
      /\ p > 1 => Less(t[p-1].key, k)
      /\ p <= Len(t) => ~Less(t[p].key, k)
  BY DEF LowerBounds
<1>2. ASSUME NEW i \in 1..Len(t), i < p
      PROVE  Less(t[i].key, k)
  <2>1. p-1 \in 1..Len(t) /\ Less(t[p-1].key, k)
    BY <1>0, <1>1, <1>2
  <2>2. CASE i = p-1
    BY <2>1, <2>2
  <2>3. CASE i < p-1
    <3>1. Less(t[i].key, t[p-1].key)
      BY <1>0, <2>1, <2>3 DEF SortedByKey
    <3>. QED
      BY <1>0, <2>1, <3>1 DEF Ordered
  <2>. QED
    BY <1>0, <1>1, <1>2, <2>2, <2>3
<1>3. ASSUME p <= Len(t)
      PROVE  t[p].key = k \/ Less(k, t[p].key)
  BY <1>0, <1>1, <1>3 DEF Ordered
<1>4. Hit(t, k, p) => p \in 1..Len(t) /\ t[p].key = k
  BY <1>0, <1>1, <1>3 DEF Hit
<1>5. ASSUME NEW i \in 1..Len(t), i > p
      PROVE  Less(k, t[i].key)
  <2>1. p \in 1..Len(t) /\ Less(t[p].key, t[i].key)
    BY <1>0, <1>1, <1>5 DEF SortedByKey
  <2>. QED
    BY <1>0, <1>3, <2>1 DEF Ordered
<1>6. ASSUME ~Hit(t, k, p), NEW i \in 1..Len(t), i >= p
      PROVE  Less(k, t[i].key)
  <2>1. CASE i = p
    BY <1>0, <1>6, <2>1 DEF Hit
  <2>2. CASE i > p
    BY <1>5, <2>2
  <2>. QED
    BY <1>0, <1>1, <1>6, <2>1, <2>2
<1>. QED
  BY <1>1, <1>2, <1>4, <1>5, <1>6

\* So a search for a key hits its node, and only that.
LEMMA HitIsExact ==
  ASSUME Ordered, NEW t, IsTable(t), NEW k \in Keys,
         NEW p \in LowerBounds(t, k)
  PROVE  IF \E i \in 1..Len(t) : t[i].key = k
           THEN Hit(t, k, p) /\ t[p].key = k
           ELSE ~Hit(t, k, p)
<1>0. Len(t) \in Nat /\ \A i \in 1..Len(t) : t[i].key \in Keys
  BY NodesOfTable DEF IsTable
<1>1. ASSUME NEW i \in 1..Len(t), t[i].key = k
      PROVE  Hit(t, k, p) /\ t[p].key = k
  <2>1. ~Less(k, t[i].key) /\ ~Less(t[i].key, k)
    BY <1>1 DEF Ordered
  <2>2. i = p
    BY <1>0, <2>1, LowerBoundSplits
  <2>. QED
    BY <1>0, <1>1, <2>1, <2>2 DEF Hit
<1>2. Hit(t, k, p) => \E i \in 1..Len(t) : t[i].key = k
  BY LowerBoundSplits
<1>. QED
  BY <1>1, <1>2

-----------------------------------------------------------------------------
(* The contents of a table *)

\* No key is there twice.
LEMMA KeysUnique ==
  ASSUME Ordered, NEW t, IsTable(t),
         NEW i \in 1..Len(t), NEW j \in 1..Len(t), t[i].key = t[j].key
  PROVE  i = j
<1>0. /\ Len(t) \in Nat
      /\ \A h \in 1..Len(t) : t[h].key \in Keys
      /\ SortedByKey(t)
  BY NodesOfTable DEF IsTable
<1>1. ~Less(t[i].key, t[j].key) /\ ~Less(t[j].key, t[i].key)
  BY <1>0 DEF Ordered
<1>. QED
  BY <1>0, <1>1 DEF SortedByKey

\* So the contents are what the nodes say.
LEMMA ContentsOfTable ==
  ASSUME Ordered, NEW t, IsTable(t)
  PROVE  /\ DOMAIN ContentsOf(t) = {t[i].key : i \in 1..Len(t)}
         /\ \A i \in 1..Len(t) : ContentsOf(t)[t[i].key] = t[i].act
<1>2. ASSUME NEW i \in 1..Len(t)
      PROVE  ContentsOf(t)[t[i].key] = t[i].act
  <2>. DEFINE c == CHOOSE j \in 1..Len(t) : t[j].key = t[i].key
  <2>1. c \in 1..Len(t) /\ t[c].key = t[i].key
    OBVIOUS
  <2>2. c = i
    <3>. HIDE DEF c
    <3>. QED
      BY <2>1, KeysUnique
  <2>3. ContentsOf(t)[t[i].key] = t[c].act
    BY DEF ContentsOf
  <2>. QED
    BY <2>2, <2>3
<1>. QED
  BY <1>2 DEF ContentsOf

\* What the nodes say determines the contents.
LEMMA ContentsAre ==
  ASSUME Ordered, NEW t, IsTable(t), NEW F, F = [x \in DOMAIN F |-> F[x]],
         \A i \in 1..Len(t) : t[i].key \in DOMAIN F /\ F[t[i].key] = t[i].act,
         \A x \in DOMAIN F : \E i \in 1..Len(t) : x = t[i].key
  PROVE  ContentsOf(t) = F
<1>1. DOMAIN ContentsOf(t) = DOMAIN F
  <2>1. DOMAIN ContentsOf(t) = {t[i].key : i \in 1..Len(t)}
    BY ContentsOfTable
  <2>. QED
    BY <2>1, Zenon
<1>2. ASSUME NEW x \in DOMAIN F
      PROVE  ContentsOf(t)[x] = F[x]
  <2>1. PICK i \in 1..Len(t) : x = t[i].key
    OBVIOUS
  <2>2. ContentsOf(t)[t[i].key] = t[i].act
    BY ContentsOfTable
  <2>. QED
    BY <2>1, <2>2
<1>3. ContentsOf(t) = [x \in DOMAIN ContentsOf(t) |-> ContentsOf(t)[x]]
  BY DEF ContentsOf
<1>. QED
  BY <1>1, <1>2, <1>3

\* The nodes of u are those of t, with one for k that says a.
LEMMA ContentsWith ==
  ASSUME Ordered, NEW t, IsTable(t), NEW u, IsTable(u), NEW k, NEW a,
         \A i \in 1..Len(t) : \E j \in 1..Len(u) : u[j].key = t[i].key,
         \E j \in 1..Len(u) : u[j].key = k,
         \A j \in 1..Len(u) :
           \/ u[j].key = k /\ u[j].act = a
           \/ u[j].key # k /\ \E i \in 1..Len(t) : u[j] = t[i]
  PROVE  ContentsOf(u) = Abstract!With(ContentsOf(t), k, a)
<1>. DEFINE F == Abstract!With(ContentsOf(t), k, a)
<1>1. F = [x \in DOMAIN ContentsOf(t) \cup {k} |->
             IF x = k THEN a ELSE ContentsOf(t)[x]]
  BY DEF Abstract!With
<1>. HIDE DEF F
<1>2. /\ DOMAIN ContentsOf(t) = {t[i].key : i \in 1..Len(t)}
      /\ \A i \in 1..Len(t) : ContentsOf(t)[t[i].key] = t[i].act
  BY ContentsOfTable
<1>3. ASSUME NEW j \in 1..Len(u)
      PROVE  u[j].key \in DOMAIN F /\ F[u[j].key] = u[j].act
  <2>1. CASE u[j].key = k /\ u[j].act = a
    BY <1>1, <2>1
  <2>2. CASE u[j].key # k /\ \E i \in 1..Len(t) : u[j] = t[i]
    <3>1. PICK i \in 1..Len(t) : u[j] = t[i]
      BY <2>2
    <3>2. t[i].key \in DOMAIN ContentsOf(t)
      BY <1>2
    <3>. QED
      BY <1>1, <1>2, <2>2, <3>1, <3>2
  <2>. QED
    BY <2>1, <2>2
<1>4. ASSUME NEW x \in DOMAIN F
      PROVE  \E j \in 1..Len(u) : x = u[j].key
  <2>1. x = k \/ \E i \in 1..Len(t) : x = t[i].key
    BY <1>1, <1>2
  <2>. QED
    BY <2>1
<1>5. F = [x \in DOMAIN F |-> F[x]]
  BY <1>1
<1>6. ContentsOf(u) = F
  BY <1>3, <1>4, <1>5, ContentsAre
<1>. QED
  BY <1>6 DEF F

\* m_mTable[k] = a.
LEMMA AssignTable ==
  ASSUME Ordered, NEW t, IsTable(t), NEW k \in Keys, NEW a \in Actions,
         NEW p \in LowerBounds(t, k)
  PROVE  /\ IsTable(Assign(t, k, a, p))
         /\ ContentsOf(Assign(t, k, a, p)) = Abstract!With(ContentsOf(t), k, a)
<1>. DEFINE u == Assign(t, k, a, p)
<1>0. /\ t \in Seq(Node) /\ Len(t) \in Nat
      /\ \A i \in 1..Len(t) :
           t[i] \in Node /\ t[i].key \in Keys /\ t[i].act \in Actions
      /\ SortedByKey(t)
  BY NodesOfTable DEF IsTable
<1>1. /\ p \in 1..Len(t)+1
      /\ \A i \in 1..Len(t) : i < p => Less(t[i].key, k)
      /\ Hit(t, k, p) => p \in 1..Len(t) /\ t[p].key = k
      /\ ~Hit(t, k, p) => \A i \in 1..Len(t) : i >= p => Less(k, t[i].key)
  BY LowerBoundSplits
<1>2. CASE Hit(t, k, p)
  <2>1. p \in 1..Len(t) /\ t[p].key = k
    BY <1>1, <1>2
  <2>2. u = [t EXCEPT ![p].act = a]
    BY <1>2 DEF Assign
  <2>3. [t[p] EXCEPT !.act = a] \in Node /\ [t[p] EXCEPT !.act = a].key = k
          /\ [t[p] EXCEPT !.act = a].act = a
    BY <1>0, <2>1 DEF Node
  <2>4. /\ u \in Seq(Node) /\ Len(u) = Len(t)
        /\ \A i \in 1..Len(t) :
             u[i] = IF i = p THEN [t[p] EXCEPT !.act = a] ELSE t[i]
    BY <1>0, <2>1, <2>2, <2>3, ExceptSeq
  <2>. HIDE DEF u
  <2>5. \A i \in 1..Len(t) : u[i].key = t[i].key
    BY <2>1, <2>3, <2>4
  <2>6. IsTable(u)
    BY <1>0, <2>4, <2>5 DEF IsTable, SortedByKey
  <2>7. \A i \in 1..Len(t) : \E j \in 1..Len(u) : u[j].key = t[i].key
    BY <2>4, <2>5
  <2>8. \E j \in 1..Len(u) : u[j].key = k
    BY <2>1, <2>4, <2>5
  <2>9. ASSUME NEW j \in 1..Len(u)
        PROVE  \/ u[j].key = k /\ u[j].act = a
               \/ u[j].key # k /\ \E i \in 1..Len(t) : u[j] = t[i]
    <3>1. CASE j = p
      BY <2>1, <2>3, <2>4, <3>1
    <3>2. CASE j # p
      <4>1. j \in 1..Len(t) /\ u[j] = t[j]
        BY <2>4, <3>2
      <4>2. t[j].key # k
        BY <2>1, <3>2, <4>1, KeysUnique
      <4>. QED
        BY <4>1, <4>2
    <3>. QED
      BY <3>1, <3>2
  <2>10. ContentsOf(u) = Abstract!With(ContentsOf(t), k, a)
    BY <2>6, <2>7, <2>8, <2>9, ContentsWith
  <2>. QED
    BY <2>6, <2>10 DEF u
<1>3. CASE ~Hit(t, k, p)
  <2>1. u = InsertAt(t, p, [key |-> k, act |-> a])
    BY <1>3 DEF Assign
  <2>2. [key |-> k, act |-> a] \in Node
    BY DEF Node
  <2>3. /\ u \in Seq(Node) /\ Len(u) = Len(t) + 1
        /\ \A i \in 1..Len(t)+1 :
             u[i] = IF i < p THEN t[i]
                    ELSE IF i = p THEN [key |-> k, act |-> a] ELSE t[i-1]
    BY <1>0, <1>1, <2>1, <2>2, InsertAtProperties
  <2>. HIDE DEF u
  <2>4. SortedByKey(u)
    <3>1. SUFFICES ASSUME NEW i \in 1..Len(t)+1, NEW j \in 1..Len(t)+1, i < j
                   PROVE  Less(u[i].key, u[j].key)
      BY <2>3 DEF SortedByKey
    <3>2. CASE j < p
      BY <1>0, <1>1, <2>3, <3>1, <3>2 DEF SortedByKey
    <3>3. CASE j = p
      <4>1. i \in 1..Len(t) /\ u[i] = t[i] /\ u[j].key = k
        BY <1>0, <1>1, <2>3, <3>1, <3>3
      <4>. QED
        BY <1>1, <3>1, <3>3, <4>1
    <3>4. CASE i = p
      <4>1. j-1 \in 1..Len(t) /\ j-1 >= p /\ u[j] = t[j-1] /\ u[i].key = k
        BY <1>0, <1>1, <2>3, <3>1, <3>4
      <4>. QED
        BY <1>1, <1>3, <4>1
    <3>5. CASE i < p /\ j > p
      <4>1. /\ i \in 1..Len(t) /\ j-1 \in 1..Len(t) /\ i < j-1
            /\ u[i] = t[i] /\ u[j] = t[j-1]
        BY <1>0, <1>1, <2>3, <3>1, <3>5
      <4>. QED
        BY <1>0, <4>1 DEF SortedByKey
    <3>6. CASE i > p
      <4>1. /\ i-1 \in 1..Len(t) /\ j-1 \in 1..Len(t) /\ i-1 < j-1
            /\ u[i] = t[i-1] /\ u[j] = t[j-1]
        BY <1>0, <1>1, <2>3, <3>1, <3>6
      <4>. QED
        BY <1>0, <4>1 DEF SortedByKey
    <3>. QED
      BY <1>0, <1>1, <3>1, <3>2, <3>3, <3>4, <3>5, <3>6
  <2>5. IsTable(u)
    BY <2>3, <2>4 DEF IsTable
  <2>6. \A i \in 1..Len(t) : \E j \in 1..Len(u) : u[j] = t[i]
    <3>1. SUFFICES ASSUME NEW i \in 1..Len(t)
                   PROVE  \E j \in 1..Len(u) : u[j] = t[i]
      OBVIOUS
    <3>2. CASE i < p
      BY <1>0, <2>3, <3>2
    <3>3. CASE ~(i < p)
      <4>1. i+1 \in 1..Len(u) /\ u[i+1] = t[i]
        BY <1>0, <1>1, <2>3, <3>3
      <4>. QED
        BY <4>1
    <3>. QED
      BY <3>2, <3>3
  <2>7. \A j \in 1..Len(u) : j # p => \E i \in 1..Len(t) : u[j] = t[i]
    <3>1. SUFFICES ASSUME NEW j \in 1..Len(u), j # p
                   PROVE  \E i \in 1..Len(t) : u[j] = t[i]
      OBVIOUS
    <3>2. CASE j < p
      BY <1>0, <1>1, <2>3, <3>2
    <3>4. CASE j > p
      <4>1. j-1 \in 1..Len(t) /\ u[j] = t[j-1]
        BY <1>0, <1>1, <2>3, <3>4
      <4>. QED
        BY <4>1
    <3>. QED
      BY <1>0, <1>1, <2>3, <3>1, <3>2, <3>4
  <2>8. p \in 1..Len(u) /\ u[p].key = k /\ u[p].act = a
    BY <1>1, <2>3
  <2>9. ASSUME NEW j \in 1..Len(u)
        PROVE  \/ u[j].key = k /\ u[j].act = a
               \/ u[j].key # k /\ \E i \in 1..Len(t) : u[j] = t[i]
    <3>1. CASE j = p
      BY <2>3, <3>1
    <3>2. CASE j # p
      <4>1. \E i \in 1..Len(t) : u[j] = t[i]
        BY <2>7, <3>2
      <4>2. u[j].key # k
        BY <2>8, <3>2, <2>5, KeysUnique
      <4>. QED
        BY <4>1, <4>2
    <3>. QED
      BY <3>1, <3>2
  <2>10. ContentsOf(u) = Abstract!With(ContentsOf(t), k, a)
    BY <2>5, <2>6, <2>8, <2>9, ContentsWith
  <2>. QED
    BY <2>5, <2>10 DEF u
<1>. QED
  BY <1>2, <1>3

\* The upper bound of a key is behind its node.
LEMMA UpperBoundSplits ==
  ASSUME Ordered, NEW t, IsTable(t), NEW k \in Keys,
         NEW q \in UpperBounds(t, k)
  PROVE  /\ q \in 1..Len(t)+1
         /\ \A i \in 1..Len(t) : i < q => ~Less(k, t[i].key)
         /\ \A i \in 1..Len(t) : i >= q => Less(k, t[i].key)
<1>0. /\ Len(t) \in Nat
      /\ \A i \in 1..Len(t) : t[i].key \in Keys
      /\ SortedByKey(t)
  BY NodesOfTable DEF IsTable
<1>1. /\ q \in 1..Len(t)+1
      /\ q > 1 => ~Less(k, t[q-1].key)
      /\ q <= Len(t) => Less(k, t[q].key)
  BY DEF UpperBounds
<1>2. ASSUME NEW i \in 1..Len(t), i < q
      PROVE  ~Less(k, t[i].key)
  <2>1. q-1 \in 1..Len(t) /\ ~Less(k, t[q-1].key)
    BY <1>0, <1>1, <1>2
  <2>2. CASE i = q-1
    BY <2>1, <2>2
  <2>3. CASE i < q-1
    <3>1. Less(t[i].key, t[q-1].key)
      BY <1>0, <2>1, <2>3 DEF SortedByKey
    <3>. QED
      BY <1>0, <2>1, <3>1 DEF Ordered
  <2>. QED
    BY <1>0, <1>1, <1>2, <2>2, <2>3
<1>3. ASSUME NEW i \in 1..Len(t), i >= q
      PROVE  Less(k, t[i].key)
  <2>1. q \in 1..Len(t) /\ Less(k, t[q].key)
    BY <1>0, <1>1, <1>3
  <2>2. CASE i = q
    BY <2>1, <2>2
  <2>3. CASE i > q
    <3>1. Less(t[q].key, t[i].key)
      BY <1>0, <2>1, <2>3 DEF SortedByKey
    <3>. QED
      BY <1>0, <2>1, <3>1 DEF Ordered
  <2>. QED
    BY <1>0, <1>1, <1>3, <2>2, <2>3
<1>. QED
  BY <1>1, <1>2, <1>3

\* map::erase(k): the nodes between the bounds are those of k.
LEMMA RemoveTable ==
  ASSUME Ordered, NEW t, IsTable(t), NEW k \in Keys,
         NEW p \in LowerBounds(t, k), NEW q \in UpperBounds(t, k), p <= q
  PROVE  LET u == SubSeq(t, 1, p - 1) \o SubSeq(t, q, Len(t))
         IN  /\ IsTable(u)
             /\ ContentsOf(u) =
                  Restrict(ContentsOf(t), DOMAIN ContentsOf(t) \ {k})
<1>. DEFINE u == SubSeq(t, 1, p - 1) \o SubSeq(t, q, Len(t))
            G == ContentsOf(t)
            F == Restrict(G, DOMAIN G \ {k})
<1>0. /\ t \in Seq(Node) /\ Len(t) \in Nat
      /\ \A i \in 1..Len(t) : t[i].key \in Keys
      /\ SortedByKey(t)
  BY NodesOfTable DEF IsTable
<1>1. /\ p \in 1..Len(t)+1
      /\ \A i \in 1..Len(t) : i < p => Less(t[i].key, k)
      /\ q \in 1..Len(t)+1
      /\ \A i \in 1..Len(t) : i < q => ~Less(k, t[i].key)
      /\ \A i \in 1..Len(t) : i >= q => Less(k, t[i].key)
  BY LowerBoundSplits, UpperBoundSplits
<1>a. Len(t) \in Nat /\ p \in 1..Len(t)+1 /\ q \in 1..Len(t)+1 /\ p <= q
  BY <1>0, <1>1
<1>2. \A i \in 1..Len(t) : i >= p => ~Less(t[i].key, k)
  <2>1. \A i \in 1..Len(t) : i > p => Less(k, t[i].key)
    BY LowerBoundSplits
  <2>2. p <= Len(t) => ~Less(t[p].key, k)
    BY DEF LowerBounds
  <2>3. \A i \in 1..Len(t) : i > p => ~Less(t[i].key, k)
    BY <1>0, <2>1 DEF Ordered
  <2>. QED
    BY <1>0, <1>1, <2>2, <2>3
<1>3. /\ u \in Seq(Node) /\ Len(u) = Len(t) - (q - p)
      /\ \A i \in 1..Len(t)-(q-p) : u[i] = IF i < p THEN t[i] ELSE t[i+(q-p)]
  BY <1>0, <1>1, CutProperties
<1>4. F = [x \in DOMAIN G \ {k} |-> G[x]]
  BY DEF Restrict
<1>. HIDE DEF u, F, G
<1>b. Len(u) = Len(t) - (q - p)
  BY <1>3
<1>c. ASSUME NEW i \in 1..Len(u), i < p
      PROVE  i \in 1..Len(t) /\ u[i] = t[i]
  <2>1. i \in 1..Len(t) /\ i \in 1..Len(t)-(q-p)
    BY <1>a, <1>b, <1>c
  <2>. QED
    BY <1>3, <1>c, <2>1
<1>d. ASSUME NEW i \in 1..Len(u), ~(i < p)
      PROVE  i+(q-p) \in 1..Len(t) /\ i+(q-p) >= q /\ u[i] = t[i+(q-p)]
  <2>1. /\ i \in 1..Len(t)-(q-p)
        /\ i+(q-p) \in 1..Len(t) /\ i+(q-p) >= q
    BY <1>a, <1>b, <1>d
  <2>. QED
    BY <1>3, <1>d, <2>1
<1>5. SortedByKey(u)
  <2>1. SUFFICES ASSUME NEW i \in 1..Len(u), NEW j \in 1..Len(u), i < j
                 PROVE  Less(u[i].key, u[j].key)
    BY DEF SortedByKey
  <2>2. CASE j < p
    <3>0. i < p
      BY <1>a, <1>b, <2>1, <2>2
    <3>1. /\ i \in 1..Len(t) /\ j \in 1..Len(t)
          /\ u[i] = t[i] /\ u[j] = t[j]
      BY <1>c, <2>2, <3>0
    <3>. QED
      BY <1>0, <2>1, <3>1 DEF SortedByKey
  <2>3. CASE i < p /\ ~(j < p)
    <3>0. i < j+(q-p)
      BY <1>a, <1>b, <2>1
    <3>1. /\ i \in 1..Len(t) /\ j+(q-p) \in 1..Len(t)
          /\ u[i] = t[i] /\ u[j] = t[j+(q-p)]
      BY <1>c, <1>d, <2>3
    <3>. QED
      BY <1>0, <3>0, <3>1 DEF SortedByKey
  <2>4. CASE ~(i < p)
    <3>0. i+(q-p) < j+(q-p) /\ ~(j < p)
      BY <1>a, <1>b, <2>1, <2>4
    <3>1. /\ i+(q-p) \in 1..Len(t) /\ j+(q-p) \in 1..Len(t)
          /\ u[i] = t[i+(q-p)] /\ u[j] = t[j+(q-p)]
      BY <1>d, <2>4, <3>0
    <3>. QED
      BY <1>0, <3>0, <3>1 DEF SortedByKey
  <2>. QED
    BY <2>2, <2>3, <2>4
<1>6. IsTable(u)
  BY <1>3, <1>5 DEF IsTable
<1>7. /\ DOMAIN G = {t[i].key : i \in 1..Len(t)}
      /\ \A i \in 1..Len(t) : G[t[i].key] = t[i].act
  BY ContentsOfTable DEF G
<1>8. ASSUME NEW j \in 1..Len(u)
      PROVE  u[j].key \in DOMAIN F /\ F[u[j].key] = u[j].act
  <2>1. PICK i \in 1..Len(t) : u[j] = t[i] /\ (i < p \/ i >= q)
    <3>1. CASE j < p
      <4>1. j \in 1..Len(t) /\ u[j] = t[j]
        BY <1>c, <3>1
      <4>. QED
        BY <3>1, <4>1
    <3>2. CASE ~(j < p)
      <4>1. j+(q-p) \in 1..Len(t) /\ u[j] = t[j+(q-p)] /\ j+(q-p) >= q
        BY <1>d, <3>2
      <4>. QED
        BY <4>1
    <3>. QED
      BY <3>1, <3>2
  <2>2. t[i].key # k
    BY <1>0, <1>1, <2>1 DEF Ordered
  <2>3. t[i].key \in DOMAIN G
    BY <1>7
  <2>. QED
    BY <1>4, <1>7, <2>1, <2>2, <2>3
<1>9. ASSUME NEW x \in DOMAIN F
      PROVE  \E j \in 1..Len(u) : x = u[j].key
  <2>1. x \in DOMAIN G /\ x # k
    BY <1>4
  <2>2. PICK i \in 1..Len(t) : x = t[i].key
    BY <1>7, <2>1
  <2>3. Less(x, k) \/ Less(k, x)
    BY <1>0, <2>1, <2>2 DEF Ordered
  <2>4. CASE Less(x, k)
    <3>1. i < p
      BY <1>0, <1>1, <1>2, <2>2, <2>4
    <3>2. i \in 1..Len(u)
      BY <1>a, <1>b, <3>1
    <3>3. u[i] = t[i]
      BY <1>c, <3>1, <3>2
    <3>. QED
      BY <2>2, <3>2, <3>3
  <2>5. CASE Less(k, x)
    <3>1. i >= q
      BY <1>0, <1>1, <2>2, <2>5
    <3>2. /\ i-(q-p) \in 1..Len(u) /\ ~(i-(q-p) < p)
          /\ (i-(q-p))+(q-p) = i
      BY <1>a, <1>b, <3>1
    <3>3. u[i-(q-p)] = t[i]
      BY <1>d, <3>2
    <3>. QED
      BY <2>2, <3>2, <3>3
  <2>. QED
    BY <2>3, <2>4, <2>5
<1>10. F = [x \in DOMAIN F |-> F[x]]
  BY <1>4
<1>11. ContentsOf(u) = F
  BY <1>6, <1>8, <1>9, <1>10, ContentsAre
<1>. QED
  BY <1>6, <1>11 DEF u, F, G

-----------------------------------------------------------------------------
(* The operations *)

\* The nodes have their types and stay sorted.
TableInv == IsTable(table)

LEMMA ActionTypes ==
  /\ DefaultAction \in Actions /\ DefaultEntry \in Keys
  /\ \A e \in Entries : e \in Keys /\ ReverseEntry(e) \in Keys
  /\ \A a \in Actions, port \in Ports \cup {AnyPort} :
       ReverseAction(a, port) \in Actions
  BY FlowAssumption DEF Actions, DefaultAction, Keys, ReverseAction

\* Every operation keeps the table sorted, and does to its contents what the
\* operation of the same name does to a function.
LEMMA OneStep ==
  ASSUME Ordered, TableInv, [Next]_vars
  PROVE  TableInv' /\ [Abstract!Next]_(Abstract!vars)
<1>0. IsTable(table)
  BY DEF TableInv
<1>1. CASE DefaultInsert
  <2>1. PICK p \in LowerBounds(table, DefaultEntry) :
          table' = Assign(table, DefaultEntry, DefaultAction, p)
    BY <1>1 DEF DefaultInsert
  <2>2. /\ IsTable(table')
        /\ ContentsOf(table') =
             Abstract!With(ContentsOf(table), DefaultEntry, DefaultAction)
    BY <1>0, <2>1, ActionTypes, AssignTable
  <2>3. Abstract!Default
    BY <1>1, <2>2 DEF DefaultInsert, Abstract!Default, Contents
  <2>. QED
    BY <2>2, <2>3 DEF TableInv, Abstract!Next
<1>2. ASSUME NEW e \in Entries, NEW a \in Actions, Insert(e, a)
      PROVE  TableInv' /\ [Abstract!Next]_(Abstract!vars)
  <2>1. PICK p \in LowerBounds(table, e) : table' = Assign(table, e, a, p)
    BY <1>2 DEF Insert
  <2>2. /\ IsTable(table')
        /\ ContentsOf(table') = Abstract!With(ContentsOf(table), e, a)
    BY <1>0, <2>1, ActionTypes, AssignTable
  <2>3. Abstract!Set(e, a)
    BY <1>2, <2>2 DEF Insert, Abstract!Set, Contents
  <2>. QED
    BY <2>2, <2>3 DEF TableInv, Abstract!Next
<1>3. ASSUME NEW e \in Entries, NEW a \in Actions,
             NEW port \in Ports \cup {AnyPort}, DbInsert(e, a, port)
      PROVE  TableInv' /\ [Abstract!Next]_(Abstract!vars)
  <2>. DEFINE b == ReverseAction(a, port)
  <2>0. e \in Keys /\ ReverseEntry(e) \in Keys /\ b \in Actions
    BY ActionTypes
  <2>. HIDE DEF b
  <2>1. PICK p \in LowerBounds(table, e) :
          \E q \in LowerBounds(Assign(table, e, a, p), ReverseEntry(e)) :
            table' = Assign(Assign(table, e, a, p), ReverseEntry(e), b, q)
    BY <1>3 DEF DbInsert, b
  <2>. DEFINE t == Assign(table, e, a, p)
  <2>2. IsTable(t) /\ ContentsOf(t) = Abstract!With(ContentsOf(table), e, a)
    BY <1>0, <2>0, AssignTable
  <2>3. PICK q \in LowerBounds(t, ReverseEntry(e)) :
          table' = Assign(t, ReverseEntry(e), b, q)
    BY <2>1
  <2>. HIDE DEF t
  <2>4. /\ IsTable(table')
        /\ ContentsOf(table') =
             Abstract!With(ContentsOf(t), ReverseEntry(e), b)
    BY <2>0, <2>2, <2>3, AssignTable
  <2>5. Abstract!SetBoth(e, a, b)
    BY <1>3, <2>2, <2>4 DEF DbInsert, b, Abstract!SetBoth, Contents
  <2>. QED
    BY <2>0, <2>4, <2>5 DEF TableInv, Abstract!Next
<1>4. ASSUME NEW e \in Entries, RemoveEntry(e)
      PROVE  TableInv' /\ [Abstract!Next]_(Abstract!vars)
  <2>1. PICK p \in LowerBounds(table, e), q \in UpperBounds(table, e) :
          /\ p <= q
          /\ table' = SubSeq(table, 1, p - 1) \o SubSeq(table, q, Len(table))
    BY <1>4 DEF RemoveEntry
  <2>2. /\ IsTable(table')
        /\ ContentsOf(table') =
             Restrict(ContentsOf(table), DOMAIN ContentsOf(table) \ {e})
    BY <1>0, <2>1, ActionTypes, RemoveTable
  <2>3. Abstract!Clear(e)
    BY <1>4, <2>2
    DEF RemoveEntry, Abstract!Clear, Abstract!Restrict, Restrict, Contents
  <2>. QED
    BY <2>2, <2>3 DEF TableInv, Abstract!Next
<1>5. CASE UNCHANGED vars
  BY <1>0, <1>5 DEF TableInv, Contents, vars, Abstract!vars
<1>. QED
  BY <1>1, <1>2, <1>3, <1>4, <1>5 DEF Next

LEMMA InitTable == Init => TableInv /\ Abstract!Init
<1>. SUFFICES ASSUME Init PROVE TableInv /\ Abstract!Init
  OBVIOUS
<1>1. table = <<>> /\ call = <<>>
  BY DEF Init
<1>2. TableInv
  BY <1>1 DEF TableInv, IsTable, SortedByKey
<1>3. ContentsOf(table) = [e \in {} |-> DefaultAction]
  <2>1. {table[i].key : i \in 1..Len(table)} = {}
    BY <1>1
  <2>. QED
    BY <2>1 DEF ContentsOf
<1>. QED
  BY <1>1, <1>2, <1>3 DEF Abstract!Init, Contents

\* An assignment keeps the types, also where the search has gone wrong.
LEMMA AssignType ==
  ASSUME NEW t \in Seq(Node), NEW k \in Keys, NEW a \in Actions,
         NEW p \in LowerBounds(t, k)
  PROVE  Assign(t, k, a, p) \in Seq(Node)
<1>0. p \in 1..Len(t)+1 /\ Len(t) \in Nat
  BY NodesOfTable DEF LowerBounds
<1>1. CASE Hit(t, k, p)
  <2>1. p \in 1..Len(t) /\ t[p] \in Node
    BY <1>0, <1>1, NodesOfTable DEF Hit
  <2>2. [t[p] EXCEPT !.act = a] \in Node
    BY <2>1 DEF Node
  <2>3. [t EXCEPT ![p] = [t[p] EXCEPT !.act = a]] \in Seq(Node)
    BY <2>1, <2>2, ExceptSeq
  <2>. QED
    BY <1>1, <2>3 DEF Assign
<1>2. CASE ~Hit(t, k, p)
  <2>1. [key |-> k, act |-> a] \in Node
    BY DEF Node
  <2>. QED
    BY <1>0, <1>2, <2>1, InsertAtProperties DEF Assign
<1>. QED
  BY <1>1, <1>2

LEMMA NextType == TypeOK /\ [Next]_vars => TypeOK'
<1>. SUFFICES ASSUME table \in Seq(Node), call \in Calls, [Next]_vars
              PROVE  table' \in Seq(Node) /\ call' \in Calls
  BY DEF TypeOK
<1>1. CASE DefaultInsert
  BY <1>1, AssignType, ActionTypes DEF DefaultInsert, Calls
<1>2. ASSUME NEW e \in Entries, NEW a \in Actions, Insert(e, a)
      PROVE  table' \in Seq(Node) /\ call' \in Calls
  <2>1. table' \in Seq(Node)
    BY <1>2, AssignType, ActionTypes DEF Insert
  <2>2. call' \in Calls
    BY <1>2 DEF Insert, Calls
  <2>. QED
    BY <2>1, <2>2
<1>3. ASSUME NEW e \in Entries, NEW a \in Actions,
             NEW port \in Ports \cup {AnyPort}, DbInsert(e, a, port)
      PROVE  table' \in Seq(Node) /\ call' \in Calls
  <2>1. PICK p \in LowerBounds(table, e) :
          \E q \in LowerBounds(Assign(table, e, a, p), ReverseEntry(e)) :
            table' = Assign(Assign(table, e, a, p), ReverseEntry(e),
                            ReverseAction(a, port), q)
    BY <1>3 DEF DbInsert
  <2>2. Assign(table, e, a, p) \in Seq(Node)
    BY AssignType, ActionTypes
  <2>3. table' \in Seq(Node)
    BY <2>1, <2>2, AssignType, ActionTypes
  <2>4. call' \in Calls
    BY <1>3, ActionTypes DEF DbInsert, Calls
  <2>. QED
    BY <2>3, <2>4
<1>4. ASSUME NEW e \in Entries, RemoveEntry(e)
      PROVE  table' \in Seq(Node) /\ call' \in Calls
  <2>1. table' \in Seq(Node)
    BY <1>4, CutProperties DEF RemoveEntry, LowerBounds, UpperBounds
  <2>2. call' \in Calls
    BY <1>4 DEF RemoveEntry, Calls
  <2>. QED
    BY <2>1, <2>2
<1>5. CASE UNCHANGED vars
  BY <1>5 DEF vars
<1>. QED
  BY <1>1, <1>2, <1>3, <1>4, <1>5 DEF Next

\* The nodes of the table have their types, with any mixture of entries.
THEOREM TypeCorrect == Spec => []TypeOK
<1>1. Init => TypeOK
  BY DEF Init, TypeOK, Calls
<1>. QED
  BY <1>1, NextType, PTL DEF Spec

\* flowCheck finds an entry exactly if it is in the table, whatever the shape
\* of the tree (cRouter.cpp:181-213, 327-353).
THEOREM LookupsAreExact == Apart => (Spec => []LookupExact)
<1>. SUFFICES ASSUME Apart PROVE Spec => []LookupExact
  OBVIOUS
<1>1. Ordered
  BY ComparatorIsOrder
<1>2. Init => TableInv
  BY InitTable
<1>3. TableInv /\ [Next]_vars => TableInv'
  BY <1>1, OneStep
<1>4. TableInv => LookupExact
  BY <1>1, SearchEnds, HitIsExact DEF TableInv, IsTable, LookupExact
<1>. QED
  BY <1>2, <1>3, <1>4, PTL DEF Spec

\* The table is the function it is meant to be: every operation changes the
\* action of the entries it names and of no other (cRouter.cpp:216-303).
THEOREM TableIsMap == Apart => (Spec => ImplementsFlowMap)
<1>. SUFFICES ASSUME Apart PROVE Spec => ImplementsFlowMap
  OBVIOUS
<1>1. Ordered
  BY ComparatorIsOrder
<1>2. Init => TableInv /\ Abstract!Init
  BY InitTable
<1>3. TableInv /\ [Next]_vars => TableInv' /\ [Abstract!Next]_(Abstract!vars)
  BY <1>1, OneStep
<1>. QED
  BY <1>2, <1>3, PTL DEF Spec, ImplementsFlowMap, Abstract!Spec
=============================================================================
