----------------------------- MODULE RoutePlans -----------------------------
(***************************************************************************)
(* How the primary routers of stages 6 to 10 decide about a packet from    *)
(* the tunnel (primaryRouter_s6, _s7, _s9 and _s10 in src/RouterPrim.cpp;  *)
(* stage 8 runs _s6): the secondary router it is sent to, and the control  *)
(* messages that precede it when its flow is new.                          *)
(*                                                                         *)
(* A router stands for its UDP port; port 0 in a rule is the raw socket,   *)
(* the way out of the network.                                             *)
(***************************************************************************)
EXTENDS FlowOrder, Sequences

Raw == 0
R1 == 1
R2 == 2
R3 == 3
Primary == 4
Routers == {R1, R2, R3, Primary}

\* octane_action
Forward == 1
Reply == 2

\* What a control message installs (octane_control without its number).
Rule(e, a, p) == [key |-> e, action |-> a, port |-> p]
Request(r, k) == [to |-> r, rule |-> k]

\* packets
IsIcmp(f) == f.protocol = 1
IsTcp(f) == f.protocol = 6
IsWeb(f) == IsTcp(f) /\ f.dstPort \in {80, 443}

\* createOctaneMsg and createReverseOctaneMsg: the flow goes on to port p, its
\* reverse flow to the port named back.
Pair(r, f, p, back) ==
  <<Request(r, Rule(f, Forward, p)),
    Request(r, Rule(ReverseEntry(f), Forward, back))>>

-----------------------------------------------------------------------------
(* ICMP, the same in all stages: the destination is read from a variable     *)
(* that is never assigned, so any decision may come out.  10.5.51.11 goes to *)
(* R1, 10.5.51.12 to R2, both to be answered there; any other packet to R1.  *)

IcmpTargets == {R1, R2}

IcmpPlans(f, r) ==
  {<<Request(r, Rule(f, Reply, AnyPort))>>}
    \cup (IF r = R1 THEN {Pair(R1, f, Raw, Primary)} ELSE {})

-----------------------------------------------------------------------------
(* TCP to port 80 or 443 *)

\* Stages 6 and 8: HTTP leaves through R1, HTTPS through R2.
Web6(f) == IF f.dstPort = 80 THEN R1 ELSE R2

ChainShort(f) ==   \* mutant: the first router lets the packet out
  Pair(R1, f, Raw, Primary) \o Pair(R2, f, Raw, R1)

ChainBack(f) ==   \* mutant: the first router sends answers on to the second
  Pair(R1, f, R2, R2) \o Pair(R2, f, Raw, R1)

\* Stage 7: both go to R1; HTTPS passes through R1 and leaves through R2.
Chain(f) == Pair(R1, f, R2, Primary) \o Pair(R2, f, Raw, R1)

Plan7(f) == IF f.dstPort = 80 THEN Pair(R1, f, Raw, Primary) ELSE Chain(f)

Web9Open(f, auth) ==   \* mutant: nobody needs to authenticate
  Web6(f)

\* Stage 9: HTTP goes to the captive portal behind R3 until somebody has
\* authenticated.
Web9(f, auth) ==
  IF f.dstPort = 443 THEN R2 ELSE IF auth THEN R1 ELSE R3

\* Stage 10: the flows are shared out by their source ports.
Web10(f) == IF f.srcPort % 2 = 0 THEN R2 ELSE R1

\* In all stages but the seventh a new flow leaves where it is sent.
Leave(f, r) == Pair(r, f, Raw, Primary)
=============================================================================
