------------------------------ MODULE MCTimers ------------------------------
(* Three timeouts: timers are rescheduled past and in front of others. *)
EXTENDS Timers

MCTimeouts == {1, 2, 3}
=============================================================================
