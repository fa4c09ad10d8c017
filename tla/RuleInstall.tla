----------------------------- MODULE RuleInstall -----------------------------
(***************************************************************************)
(* What the control protocol promises the primary router: the requests of  *)
(* a new flow stay pending until they are installed at their secondary     *)
(* router, and only then are given up.  Datagrams, sequence numbers,       *)
(* timers and acknowledgements are left out; OctaneControl implements this.*)
(***************************************************************************)
EXTENDS Sequences, SequencesExt

CONSTANTS Flows, Plans, ReverseOf

VARIABLES
  seen,       \* the flows whose requests have been made, with their reverses
  pending,    \* requests the primary still retransmits
  installed   \* requests in force at their secondary

rvars == <<seen, pending, installed>>

Init == seen = {} /\ pending = {} /\ installed = {}

Ask(f) ==
  /\ f \notin seen
  /\ seen' = seen \cup {f, ReverseOf[f]}
  /\ \E p \in Plans[f] : pending' = pending \cup ToSet(p)
  /\ UNCHANGED installed

Install(q) ==
  /\ q \in pending
  /\ installed' = installed \cup {q}
  /\ UNCHANGED <<seen, pending>>

Confirm(q) ==
  /\ q \in pending \cap installed
  /\ pending' = pending \ {q}
  /\ UNCHANGED <<seen, installed>>

Next ==
  \/ \E f \in Flows : Ask(f)
  \/ \E q \in pending : Install(q) \/ Confirm(q)

Spec == Init /\ [][Next]_rvars
=============================================================================
