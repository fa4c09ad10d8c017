--------------------------- MODULE MCOctaneControl ---------------------------
(***************************************************************************)
(* Instances of OctaneControl with one secondary, as in stages 4 and 5.    *)
(* A plan is the single message "reply" (or "drop"), or the two messages   *)
(* "forward" and "forward the reverse flow".                               *)
(***************************************************************************)
EXTENDS OctaneControl, TLC

CONSTANTS r1, ping, pong, tcp, reply, fwd, rev, other

To(k) == [to |-> r1, rule |-> k]

\* One flow and its reverse; either may come out of the tunnel first.
PairPlans ==
  (ping :> {<<To(reply)>>, <<To(fwd), To(rev)>>}) @@
  (pong :> {<<To(rev), To(fwd)>>})
PairReverse == (ping :> pong) @@ (pong :> ping)
PairTarget == [f \in {ping, pong} |-> r1]

\* Two flows with a message each: a new flow while another is pending.
SinglePlans == (ping :> {<<To(fwd)>>}) @@ (tcp :> {<<To(other)>>})
SingleReverse == [f \in {ping, tcp} |-> f]
SingleTarget == [f \in {ping, tcp} |-> r1]

\* Two flows, a pair of messages and a single one.
TwoPlans == (ping :> {<<To(fwd), To(rev)>>}) @@ (tcp :> {<<To(other)>>})
TwoReverse == [f \in {ping, tcp} |-> f]
TwoTarget == [f \in {ping, tcp} |-> r1]
=============================================================================
