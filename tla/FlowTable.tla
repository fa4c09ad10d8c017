----------------------------- MODULE FlowTable -----------------------------
(***************************************************************************)
(* The flow table of a router (flow_action and flow_table in               *)
(* src/cRouter.cpp): a std::map ordered by flow_entry::operator<, see      *)
(* FlowOrder.                                                              *)
(*                                                                         *)
(* A std::map is a search tree: here, the sequence of its nodes in order,  *)
(* without the shape of the tree, which depends on the library.  A search  *)
(* may therefore end wherever it can end in a tree of some shape.          *)
(***************************************************************************)
EXTENDS FlowOrder, Sequences, SequencesExt

CONSTANTS
  Entries,  \* the entries of packets and control messages
  Codes,    \* the octane actions in use
  Ports     \* the forward ports in use

Actions == [action : Codes \cup {3}, fwdPort : Ports \cup {AnyPort}]

ASSUME FlowAssumption ==
  /\ AnyIp \in Nat /\ AnyPort \in Nat
  /\ Entries \subseteq Entry
  /\ \A e \in Entries : ReverseEntry(e) \in Entries

DefaultEntry == [srcIp |-> AnyIp, srcPort |-> AnyPort,
                 dstIp |-> AnyIp, dstPort |-> AnyPort, protocol |-> AnyPort]

DefaultActionSwapped == [action |-> AnyPort, fwdPort |-> 3]   \* mutant

\* flow_action's constructor takes the port first.
DefaultAction == [action |-> 3, fwdPort |-> AnyPort]

Keys == Entries \cup {DefaultEntry}

VARIABLES
  table,  \* m_mTable: its nodes in order
  call    \* the last operation and its arguments

vars == <<table, call>>

Node == [key : Keys, act : Actions]

Calls ==
  {<<>>, <<"defaultInsert">>} \cup ({"remove"} \X Entries)
    \cup ({"insert"} \X Entries \X Actions)
    \cup ({"dbInsert"} \X Entries \X Actions \X Actions)

-----------------------------------------------------------------------------
(* The search tree *)

\* A search for k compares it with nodes on its way down and ends between two
\* neighbours, both of which it has met: it went right at the one and left at
\* the other.  Any such place is where the search of some tree ends.
LowerBounds(t, k) ==
  {p \in 1..Len(t)+1 : /\ p > 1 => Less(t[p-1].key, k)
                       /\ p <= Len(t) => ~Less(t[p].key, k)}

UpperBounds(t, k) ==
  {p \in 1..Len(t)+1 : /\ p > 1 => ~Less(k, t[p-1].key)
                       /\ p <= Len(t) => Less(k, t[p].key)}

\* find: the node at the lower bound, unless it is greater than k.
Hit(t, k, p) == p <= Len(t) /\ ~Less(k, t[p].key)

\* m_mTable[k] = a: an existing node keeps its key.
Assign(t, k, a, p) ==
  IF Hit(t, k, p) THEN [t EXCEPT ![p].act = a]
                  ELSE InsertAt(t, p, [key |-> k, act |-> a])

-----------------------------------------------------------------------------
(* The operations that change the table *)

DefaultInsert ==
  /\ call' = <<"defaultInsert">>
  /\ \E p \in LowerBounds(table, DefaultEntry) :
       table' = Assign(table, DefaultEntry, DefaultAction, p)

\* flow_table::insert
Insert(e, a) ==
  /\ call' = <<"insert", e, a>>
  /\ \E p \in LowerBounds(table, e) : table' = Assign(table, e, a, p)

\* The entry, then its reverse with the same action, but for a forward port of
\* its own if one is given (the default argument 65535 stands for none).
ReverseAction(a, port) ==
  IF port # AnyPort THEN [a EXCEPT !.fwdPort = port] ELSE a

DbInsert(e, a, port) ==
  /\ call' = <<"dbInsert", e, a, ReverseAction(a, port)>>
  /\ \E p \in LowerBounds(table, e) :
       LET t == Assign(table, e, a, p)
       IN  \E q \in LowerBounds(t, ReverseEntry(e)) :
             table' = Assign(t, ReverseEntry(e), ReverseAction(a, port), q)

RemoveAfter(e) ==   \* mutant: the end of the range is erased as well
  /\ call' = <<"remove", e>>
  /\ \E p \in LowerBounds(table, e), q \in UpperBounds(table, e) :
       /\ p <= q
       /\ table' = SubSeq(table, 1, p - 1) \o SubSeq(table, q + 1, Len(table))

\* map::erase(key): every node from the lower to the upper bound.
RemoveEntry(e) ==
  /\ call' = <<"remove", e>>
  /\ \E p \in LowerBounds(table, e), q \in UpperBounds(table, e) :
       /\ p <= q
       /\ table' = SubSeq(table, 1, p - 1) \o SubSeq(table, q, Len(table))

Init == table = <<>> /\ call = <<>>

Next ==
  \/ DefaultInsert
  \/ \E e \in Entries :
       \/ RemoveEntry(e)
       \/ \E a \in Actions :
            Insert(e, a) \/ \E port \in Ports \cup {AnyPort} : DbInsert(e, a, port)

Spec == Init /\ [][Next]_vars

-----------------------------------------------------------------------------
(* Properties *)

\* The state is of its types.
TypeOK == table \in Seq(Node) /\ call \in Calls

\* flowCheck and contains, whatever the shape of the tree: the search for an
\* entry ends at a node, its own, exactly if the entry is in the table
\* (cRouter.cpp:327-353).
LookupExact ==
  \A k \in Keys :
    /\ LowerBounds(table, k) # {}
    /\ \A p \in LowerBounds(table, k) :
         IF \E i \in 1..Len(table) : table[i].key = k
           THEN Hit(table, k, p) /\ table[p].key = k
           ELSE ~Hit(table, k, p)

ContentsOf(t) ==
  [k \in {t[i].key : i \in 1..Len(t)} |->
     t[CHOOSE i \in 1..Len(t) : t[i].key = k].act]

Contents == ContentsOf(table)

Abstract == INSTANCE FlowMap WITH
  rules <- Contents, ReverseOf <- ReverseEntry

\* operator[] and erase never reach a wrong node: every operation changes the
\* function from keys to actions exactly where its arguments say
\* (cRouter.cpp:216-303).
ImplementsFlowMap == Abstract!Spec

\* A rule of the table that, with its wildcards, describes the packet k.
Describes(r, k) ==
  /\ r.srcIp \in {k.srcIp, AnyIp} /\ r.srcPort \in {k.srcPort, AnyPort}
  /\ r.dstIp \in {k.dstIp, AnyIp} /\ r.dstPort \in {k.dstPort, AnyPort}
  /\ r.protocol \in {k.protocol, AnyPort}

\* cRouter.cpp:181, flowCheck will "return a string longer than 0 if it
\* exists": a hit is on a rule that describes the packet.
HitExists ==
  \A k \in Entries : \A p \in LowerBounds(table, k) :
    Hit(table, k, p) => \E i \in 1..Len(table) : Describes(table[i].key, k)
=============================================================================
