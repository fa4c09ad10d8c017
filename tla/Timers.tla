------------------------------- MODULE Timers -------------------------------
(***************************************************************************)
(* The class Timers of src/timers/timers.cc: handles counted up from 1 and *)
(* an event list kept sorted by expiration time.  A callback's return      *)
(* value (DISCARD, RESCHEDULE_SAME or a new timeout) is a free choice of   *)
(* the application.  ExecuteNextTimer pops the list without looking        *)
(* whether it is empty, so calling it on a non-empty list is the caller's  *)
(* duty (OctaneControl!NeverExecuteEmpty).                                 *)
(***************************************************************************)
EXTENDS EventQueue, Timeval

CONSTANTS
  Timeouts,   \* the timeouts an application asks for
  TickMsecs,  \* milliseconds in a unit of time
  MaxNow,     \* bound on the clock
  MaxHandle   \* bound on the number of AddTimer calls

ASSUME TimersAssumption ==
  /\ Timeouts \subseteq Nat \ {0}
  /\ TickMsecs \in Nat \ {0}
  /\ MaxNow \in Nat
  /\ MaxHandle \in Nat

VARIABLES
  now,          \* the clock getTime reads
  eq,           \* the list eq_->head_
  nextHandle    \* next_handle_

vars == <<now, eq, nextHandle>>

Event == [hdl : 1..MaxHandle, timeout : Timeouts, tv : Nat]

Init ==
  /\ now = 0
  /\ eq = <<>>
  /\ nextHandle = 1

AfterOld(entry, t) ==   \* mutant: from the old expiration time
  [hdl |-> entry.hdl, timeout |-> t, tv |-> entry.tv + t]

\* Eq_AddAfter: the expiration time is set from the clock at the call.
After(entry, t) == [hdl |-> entry.hdl, timeout |-> t, tv |-> now + t]

AddTimerSame(t) ==   \* mutant: next_handle_ is not advanced
  /\ nextHandle <= MaxHandle
  /\ eq' = EqAdd(eq, [hdl |-> nextHandle, timeout |-> t, tv |-> now + t])
  /\ UNCHANGED <<now, nextHandle>>

AddTimer(t) ==
  /\ nextHandle <= MaxHandle
  /\ eq' = EqAdd(eq, [hdl |-> nextHandle, timeout |-> t, tv |-> now + t])
  /\ nextHandle' = nextHandle + 1
  /\ UNCHANGED now

\* Any handle may be passed, also one that is unknown or no longer running.
RemoveTimer(h) ==
  /\ eq' = EqRemove(eq, h)
  /\ UNCHANGED <<now, nextHandle>>

ExecuteDiscard ==
  /\ eq # <<>>
  /\ eq' = EqPop(eq)
  /\ UNCHANGED <<now, nextHandle>>

ExecuteReschedule(t) ==
  /\ eq # <<>>
  /\ eq' = EqAdd(EqPop(eq), After(Head(eq), t))
  /\ UNCHANGED <<now, nextHandle>>

ExecuteSameAsZero ==   \* mutant: RESCHEDULE_SAME is taken for a timeout
  \/ ExecuteDiscard
  \/ ExecuteReschedule(0)
  \/ \E t \in Timeouts : ExecuteReschedule(t)

ExecuteNextTimer ==
  \/ ExecuteDiscard
  \/ eq # <<>> /\ ExecuteReschedule(Head(eq).timeout)
  \/ \E t \in Timeouts : ExecuteReschedule(t)

Tick ==
  /\ now < MaxNow
  /\ now' = now + 1
  /\ UNCHANGED <<eq, nextHandle>>

Next ==
  \/ \E t \in Timeouts : AddTimer(t)
  \/ \E h \in 0..MaxHandle : RemoveTimer(h)
  \/ ExecuteNextTimer
  \/ Tick

Spec == Init /\ [][Next]_vars

-----------------------------------------------------------------------------
\* The state is of its types.
TypeOK ==
  /\ now \in 0..MaxNow
  /\ eq \in Seq(Event)
  /\ nextHandle \in 1..MaxHandle+1

\* The list stays sorted by expiration time through every mix of additions,
\* removals and reschedulings (comment at timers.cc:175-179), so the head that
\* NextTimerTime reports and ExecuteNextTimer pops is a nearest timer.
Sorted == SortedByTime(eq)

\* A handle names at most one running timer, and only handles already given
\* out are running: RemoveTimer can never cancel somebody else's timer.
HandlesUnique ==
  /\ UniqueHandles(eq)
  /\ \A i \in 1..Len(eq) : eq[i].hdl < nextHandle

\* in t units of time
Microseconds(t) == 1000 * TickMsecs * t

\* The clock at time t, and the time that was stored for event e when it was
\* added, e.timeout before it expires (Event_SetDelay).
Clock(t) == TimeOfDay(Microseconds(t))
Stored(e) == Timeval_Addmsecs(Clock(e.tv - e.timeout), TickMsecs * e.timeout)

\* Eq_NextTimer, were e the head
Remaining(e) == Timeval_Sub(Stored(e), Clock(now))

\* The code compares and subtracts timevals, of which some are not carried
\* (timers.cc:139).  Its comparison still never puts a later event first, and
\* what NextTimerTime says is exactly the time left, {0, 0} just for expired
\* timers.  Only among events of one instant may the code's order be another.
TimesAgree ==
  \A i \in 1..Len(eq) :
    /\ \A j \in 1..Len(eq) :
         eq[i].tv < eq[j].tv => Before(Stored(eq[i]), Stored(eq[j]))
    /\ Usecs(Remaining(eq[i])) =
         IF eq[i].tv > now THEN Microseconds(eq[i].tv - now) ELSE 0
    /\ Remaining(eq[i]) = Timeval(0, 0) <=> eq[i].tv <= now

-----------------------------------------------------------------------------
\* The list is the set of running timers of TimerSet.
Deadlines ==
  [h \in Handles(eq) |-> eq[FirstWithHandle(eq, h)].tv]

Abstract == INSTANCE TimerSet WITH
  deadline <- Deadlines, issued <- 1..nextHandle-1

\* Every step of the library starts, cancels or executes a timer as TimerSet
\* allows: the executed timer is always one with the nearest deadline.
ImplementsTimerSet == Abstract!Spec
=============================================================================
