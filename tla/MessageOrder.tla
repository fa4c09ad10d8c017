---------------------------- MODULE MessageOrder ----------------------------
(***************************************************************************)
(* The comparator of control messages, octane_control::operator< in        *)
(* src/network.cpp.  It orders the keys of m_MsgCount and m_droppedMsg,    *)
(* the maps in which a secondary router counts the receipts of a rule.     *)
(***************************************************************************)
EXTENDS FlowOrder

MsgLessNoDstPort(a, b) ==   \* mutant: the destination port is not compared
  IF a.key.srcIp # b.key.srcIp THEN a.key.srcIp < b.key.srcIp
  ELSE IF a.key.srcPort # b.key.srcPort THEN a.key.srcPort < b.key.srcPort
  ELSE IF a.key.dstIp # b.key.dstIp THEN a.key.dstIp < b.key.dstIp
  ELSE a.action < b.action \/ a.port < b.port

\* A field counts if it differs and is no wildcard of the LEFT message.  The
\* protocol is not compared, and a smaller port also decides where the action
\* is greater.
MsgLess(a, b) ==
  LET Differ(x, y, any) == x # y /\ x # any
  IN  IF Differ(a.key.srcIp, b.key.srcIp, AnyIp)
        THEN a.key.srcIp < b.key.srcIp
      ELSE IF Differ(a.key.srcPort, b.key.srcPort, AnyPort)
        THEN a.key.srcPort < b.key.srcPort
      ELSE IF Differ(a.key.dstIp, b.key.dstIp, AnyIp)
        THEN a.key.dstIp < b.key.dstIp
      ELSE IF Differ(a.key.dstPort, b.key.dstPort, AnyPort)
        THEN a.key.dstPort < b.key.dstPort
      ELSE a.action < b.action \/ a.port < b.port

-----------------------------------------------------------------------------
(* Messages it keeps apart *)

\* Of an ICMP and a TCP message of one source the TCP one is always the
\* smaller.  The ICMP one is not smaller as well only if the TCP message has
\* the smaller destination, or the same one and no greater action and port.
MixesWell(h, p) ==
  OfTcp(h.key) /\ OfIcmp(p.key) /\ h.key.srcIp = p.key.srcIp =>
    \/ h.key.dstIp < p.key.dstIp
    \/ /\ h.key.dstIp = p.key.dstIp
       /\ h.action <= p.action /\ h.port <= p.port

\* Of two messages of one flow each is the smaller if the one has the smaller
\* action and the other the smaller port.
NotOpposed(a, b) ==
  a.key = b.key => ~(a.action < b.action /\ b.port < a.port)

Separate(M) == \A a, b \in M : MixesWell(a, b) /\ NotOpposed(a, b)
=============================================================================
