--------------------------- MODULE MCReceiptCount ---------------------------
(***************************************************************************)
(* An instance of ReceiptCount: messages about flows of a client with      *)
(* address 2, to be forwarded; 9 stands for all ones.                      *)
(***************************************************************************)
EXTENDS ReceiptCount

Forward(e) == [key |-> e, action |-> 1, port |-> 0]

Icmp(s, d) ==
  Forward([srcIp |-> s, srcPort |-> 9, dstIp |-> d, dstPort |-> 9, protocol |-> 1])
Tcp(s, sp, d, dp) ==
  Forward([srcIp |-> s, srcPort |-> sp, dstIp |-> d, dstPort |-> dp, protocol |-> 6])

\* Any field may be the first to differ: TCP flows from one port and from two,
\* to one server and to several, to one port and to two; pings of a server that
\* is browsed as well and of a host with a greater address; a reverse flow.
MessagesApart ==
  {Tcp(2, 4, 3, 7), Tcp(2, 4, 3, 8), Tcp(2, 4, 4, 7), Tcp(2, 5, 3, 7),
   Icmp(2, 4), Icmp(2, 5), Tcp(3, 7, 2, 4)}
=============================================================================
