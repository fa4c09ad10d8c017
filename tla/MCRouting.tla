----------------------------- MODULE MCRouting -----------------------------
(***************************************************************************)
(* Instances of Routing: clients 1 to 3, a web server 9, a host 8, and a   *)
(* host 7 in the local network.                                            *)
(***************************************************************************)
EXTENDS Routing

Icmp(s, d) ==
  [srcIp |-> s, srcPort |-> AnyPort, dstIp |-> d, dstPort |-> AnyPort,
   protocol |-> 1]
Tcp(s, sp, d, dp) ==
  [srcIp |-> s, srcPort |-> sp, dstIp |-> d, dstPort |-> dp, protocol |-> 6]

http == Tcp(1, 1001, 9, 80)
https == Tcp(2, 1002, 9, 443)
http2 == Tcp(2, 1004, 9, 80)
http3 == Tcp(2, 1003, 9, 80)
ping == Icmp(3, 8)
local == Icmp(3, 7)
ssh == Tcp(2, 1005, 9, 22)

Case(s, d, n, l, p, q, flows) ==
  [stage |-> s, dropAfter |-> d, rcvBuf |-> n, lossy |-> l, prompt |-> p,
   maxSeq |-> q, flows |-> flows]

\* Lost, repeated and late datagrams, and a rule dropped after 1 or 2 receipts.
Weather ==
  {Case(2, 1, 2, TRUE, FALSE, 1, {ping, local}),
   Case(3, 1, 2, TRUE, FALSE, 1, {ping, local}),
   Case(6, 2, 2, TRUE, FALSE, 3, {http}),
   Case(6, 1, 2, FALSE, TRUE, 5, {ping, http, https}),
   Case(7, 1, 1, TRUE, FALSE, 5, {https}),
   Case(7, 1, 2, FALSE, FALSE, 5, {https}),
   Case(7, 1, 3, FALSE, TRUE, 5, {https}),
   Case(10, 1, 1, FALSE, TRUE, 5, {http2, http3, ssh})}

\* The portal with one client, with one that needs none, and with two clients.
Portal ==
  {Case(9, 1, 2, FALSE, FALSE, 3, {http}),
   Case(9, 2, 2, TRUE, FALSE, 3, {https}),
   Case(9, 1, 1, FALSE, TRUE, 5, {http, http2})}

All == Weather \cup Portal
Tracking == {Case(9, 1, 1, FALSE, TRUE, 5, {http, http2})}
=============================================================================
