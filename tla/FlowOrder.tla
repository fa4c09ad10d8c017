----------------------------- MODULE FlowOrder -----------------------------
(***************************************************************************)
(* The entries of flow tables (flow_entry in src/cRouter.cpp) and their    *)
(* comparator, which treats a field that is all ones as a wildcard,        *)
(* sometimes.                                                              *)
(***************************************************************************)
EXTENDS Integers

CONSTANTS
  AnyIp,    \* 0xFFFFFFFF, the largest address
  AnyPort   \* 0xFFFF, the largest port, protocol and forward port

Entry == [srcIp : 0..AnyIp, srcPort : 0..AnyPort,
          dstIp : 0..AnyIp, dstPort : 0..AnyPort, protocol : 0..AnyPort]

\* The entries ipUnpack makes of ICMP and TCP packets (src/network.cpp).
OfIcmp(e) == e.srcPort = AnyPort /\ e.dstPort = AnyPort /\ e.protocol = 1
OfTcp(e) == e.srcPort < AnyPort /\ e.dstPort < AnyPort /\ e.protocol = 6

\* flow_entry::reverse
ReverseEntry(e) == [srcIp |-> e.dstIp, srcPort |-> e.dstPort,
               dstIp |-> e.srcIp, dstPort |-> e.srcPort,
               protocol |-> e.protocol]

HasWildcard(e) ==
  \/ e.srcIp = AnyIp \/ e.srcPort = AnyPort
  \/ e.dstIp = AnyIp \/ e.dstPort = AnyPort

LessNoPort(a, b) ==   \* mutant: the source port is not compared
  IF a.srcIp # b.srcIp THEN a.srcIp < b.srcIp
  ELSE IF a.dstIp # b.dstIp THEN a.dstIp < b.dstIp
  ELSE IF a.dstPort # b.dstPort THEN a.dstPort < b.dstPort
  ELSE a.protocol < b.protocol

\* operator<: the first field that differs decides.  If the LEFT entry has a
\* wildcard every field counts (the second operand of the && at line 80 names
\* the left entry again), otherwise a wildcard differs from nothing.
Less(a, b) ==
  LET Differ(x, y, any) == x # y /\ (HasWildcard(a) \/ (x # any /\ y # any))
  IN  IF Differ(a.srcIp, b.srcIp, AnyIp) THEN a.srcIp < b.srcIp
      ELSE IF Differ(a.srcPort, b.srcPort, AnyPort) THEN a.srcPort < b.srcPort
      ELSE IF Differ(a.dstIp, b.dstIp, AnyIp) THEN a.dstIp < b.dstIp
      ELSE IF Differ(a.dstPort, b.dstPort, AnyPort) THEN a.dstPort < b.dstPort
      ELSE a.protocol < b.protocol
=============================================================================
