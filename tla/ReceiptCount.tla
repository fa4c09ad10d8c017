---------------------------- MODULE ReceiptCount ----------------------------
(***************************************************************************)
(* How a secondary router counts the receipts of a control message and     *)
(* falls silent after drop_after of them (secondRouter_s4, _s5 and _s6 in  *)
(* src/RouterSecond.cpp).  m_MsgCount and m_droppedMsg are std::maps under *)
(* octane_control::operator<, see MessageOrder.                            *)
(*                                                                         *)
(* As in FlowTable a map is the sequence of its nodes, its tree may have   *)
(* any shape, and a search may end wherever it can end in some tree.  What *)
(* a receipt does besides, to the flow table and to the sender, is in      *)
(* FlowTable, OctaneControl and Routing.                                   *)
(***************************************************************************)
EXTENDS MessageOrder, Sequences, SequencesExt

CONSTANTS
  Messages,    \* the messages this router is sent, without their numbers
  DropAfter,   \* drop_after of the configuration file
  MaxReceipts  \* bound: receipts of one message

ASSUME ReceiptAssumption ==
  /\ AnyIp \in Nat /\ AnyPort \in Nat
  /\ Messages \subseteq [key : Entry, action : 0..255, port : 0..AnyPort]
  /\ \A m \in Messages :
       /\ m.key.srcIp < AnyIp /\ m.key.dstIp < AnyIp
       /\ OfIcmp(m.key) \/ OfTcp(m.key)
  /\ DropAfter \in Nat \ {0}
  /\ MaxReceipts \in Nat

VARIABLES
  msgCount,  \* m_MsgCount: its nodes in order, a message and a number
  dropped,   \* m_droppedMsg: its nodes in order, a message
  received,  \* history: receipts of each message
  acked      \* history: receipts that were answered

vars == <<msgCount, dropped, received, acked>>

-----------------------------------------------------------------------------
(* The search trees *)

\* Where a search for m may end: behind a node that is smaller, before one
\* that is not.
LowerBounds(t, m) ==
  {p \in 1..Len(t)+1 : /\ p > 1 => MsgLess(t[p-1].msg, m)
                       /\ p <= Len(t) => ~MsgLess(t[p].msg, m)}

UpperBounds(t, m) ==
  {p \in 1..Len(t)+1 : /\ p > 1 => ~MsgLess(m, t[p-1].msg)
                       /\ p <= Len(t) => MsgLess(m, t[p].msg)}

\* find: the node at the lower bound, unless it is greater than m.
Hit(t, m, p) == p <= Len(t) /\ ~MsgLess(m, t[p].msg)

\* What an insertion of node x, whose search ended at p, may return.  It goes
\* to the right of the node before, or if that side is taken to the left of
\* the node behind.  The library compares once more to choose the side, so
\* that where each of two messages is the smaller it goes to the left of the
\* node before, in the place of the only node that may be there.
Insertions(t, p, x) ==
  IF p > 1 /\ MsgLess(x.msg, t[p-1].msg)
    THEN {InsertAt(t, p, x), InsertAt(t, p-1, x)}
           \cup {[t EXCEPT ![i] = x] : i \in {p-2} \cap 1..Len(t)}
    ELSE {InsertAt(t, p, x)}

-----------------------------------------------------------------------------
(* Receipts *)

\* m_MsgCount[m] counted up at p, or set to 1.
Counted(t, m, p) ==
  IF Hit(t, m, p) THEN {[t EXCEPT ![p].n = @ + 1]}
                  ELSE Insertions(t, p, [msg |-> m, n |-> 1])

\* The comparison with drop_after searches again.  If the message is not found
\* operator[] enters it with 0.
Compared(t, m, q) ==
  IF Hit(t, m, q) THEN {t} ELSE Insertions(t, q, [msg |-> m, n |-> 0])

ReachedLate(t, m, q) == Hit(t, m, q) /\ t[q].n > DropAfter   \* mutant

Reached(t, m, q) == Hit(t, m, q) /\ t[q].n = DropAfter

\* A message in m_droppedMsg gets no answer.
Ignore(m) ==
  /\ received[m] < MaxReceipts
  /\ \E d \in LowerBounds(dropped, m) : Hit(dropped, m, d)
  /\ received' = [received EXCEPT ![m] = @ + 1]
  /\ UNCHANGED <<msgCount, dropped, acked>>

\* Any other is counted and answered, and moved to m_droppedMsg when its count
\* reaches drop_after.
Answer(m) ==
  /\ received[m] < MaxReceipts
  /\ received' = [received EXCEPT ![m] = @ + 1]
  /\ acked' = [acked EXCEPT ![m] = @ + 1]
  /\ \E d \in LowerBounds(dropped, m), p \in LowerBounds(msgCount, m) :
       /\ ~Hit(dropped, m, d)
       /\ \E t \in Counted(msgCount, m, p) : \E q \in LowerBounds(t, m) :
            /\ Hit(msgCount, m, p) => q = p
            /\ \/ /\ ~Reached(t, m, q)
                  /\ msgCount' \in Compared(t, m, q)
                  /\ UNCHANGED dropped
               \/ /\ Reached(t, m, q)
                  /\ \E u \in UpperBounds(t, m) :
                       /\ u > q
                       /\ msgCount' = SubSeq(t, 1, q - 1) \o SubSeq(t, u, Len(t))
                  /\ dropped' \in Insertions(dropped, d, [msg |-> m])

Init ==
  /\ msgCount = <<>> /\ dropped = <<>>
  /\ received = [m \in Messages |-> 0]
  /\ acked = [m \in Messages |-> 0]

Next == \E m \in Messages : Ignore(m) \/ Answer(m)

Spec == Init /\ [][Next]_vars

-----------------------------------------------------------------------------
(* Properties *)

\* The first drop_after receipts of a message are answered and no other,
\* whatever the receipts of other messages in between
\* (RouterSecond.cpp:273-298).
AckedExactly ==
  \A m \in Messages :
    acked[m] = IF received[m] < DropAfter THEN received[m] ELSE DropAfter

\* cRouter.h:90 says m_MsgCount is "for secondary router to store the time of
\* receiving the same msg": a message that is still counted has a node with
\* the number of its receipts.
StoresReceipts ==
  \A m \in Messages :
    received[m] \in 1..DropAfter-1 =>
      \E i \in 1..Len(msgCount) : msgCount[i] = [msg |-> m, n |-> received[m]]
=============================================================================
