------------------------------ MODULE TimerSet ------------------------------
(***************************************************************************)
(* What the timer library promises its caller: a set of running timers,    *)
(* each under a handle that is never given out twice, of which only one    *)
(* with the nearest deadline is ever executed.  How the timers are kept is *)
(* left open; module Timers implements this with a sorted list.            *)
(***************************************************************************)
EXTENDS Integers, FiniteSets

CONSTANTS Timeouts, MaxNow, MaxHandle

VARIABLES now, deadline, issued

svars == <<now, deadline, issued>>

Running == DOMAIN deadline

Init ==
  /\ now = 0
  /\ deadline = [h \in {} |-> 0]
  /\ issued = {}

Nearest(h) == \A g \in Running : deadline[h] <= deadline[g]

Start ==
  \E h \in 1..MaxHandle \ issued, t \in Timeouts :
    /\ deadline' = [g \in Running \cup {h} |->
                       IF g = h THEN now + t ELSE deadline[g]]
    /\ issued' = issued \cup {h}
    /\ UNCHANGED now

Cancel ==
  \E h \in Running :
    /\ deadline' = [g \in Running \ {h} |-> deadline[g]]
    /\ UNCHANGED <<now, issued>>

\* The callback keeps its timer running (with the same or another timeout)...
FireAgain ==
  \E h \in Running, t \in Timeouts :
    /\ Nearest(h)
    /\ deadline' = [deadline EXCEPT ![h] = now + t]
    /\ UNCHANGED <<now, issued>>

\* ... or ends it.
FireLast ==
  \E h \in Running :
    /\ Nearest(h)
    /\ deadline' = [g \in Running \ {h} |-> deadline[g]]
    /\ UNCHANGED <<now, issued>>

Elapse == now' \in now+1..MaxNow /\ UNCHANGED <<deadline, issued>>

Next == Start \/ Cancel \/ FireAgain \/ FireLast \/ Elapse

Spec == Init /\ [][Next]_svars
=============================================================================
