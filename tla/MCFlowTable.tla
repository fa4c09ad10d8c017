---------------------------- MODULE MCFlowTable ----------------------------
(***************************************************************************)
(* Instances of FlowTable: a host with address 2 that exchanges packets    *)
(* with hosts 1 and 3.  An ICMP entry has wildcards for its ports          *)
(* (ipUnpack, src/network.cpp:299-300); 9 stands for all ones.             *)
(***************************************************************************)
EXTENDS FlowTable

Icmp(s, d) ==
  [srcIp |-> s, srcPort |-> 9, dstIp |-> d, dstPort |-> 9, protocol |-> 1]
Tcp(s, sp, d, dp) ==
  [srcIp |-> s, srcPort |-> sp, dstIp |-> d, dstPort |-> dp, protocol |-> 6]

BothWays(S) == S \cup {ReverseEntry(e) : e \in S}

\* The host browses 1 and pings 3, or pings the host it browses.
ApartEntries == BothWays({Icmp(2, 3), Tcp(2, 4, 1, 7), Tcp(2, 5, 1, 7)})
MixedEntries == BothWays({Icmp(2, 1), Tcp(2, 4, 1, 7)})
=============================================================================
