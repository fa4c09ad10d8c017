----------------------------- MODULE EventQueue -----------------------------
(***************************************************************************)
(* The event list of the timer library (src/timers/timers.cc), as pure     *)
(* operators on a sequence of events.  An event is a record with at least  *)
(* the fields hdl, the handle its owner knows it by, and tv, its           *)
(* expiration time.  The linked list of the code is the sequence, head     *)
(* first; struct timeval is an integer.                                    *)
(***************************************************************************)
EXTENDS Integers, Sequences, SequencesExt

\* Where Eq_Add's walk stops: past every leading event strictly earlier than e.
\* An event is put in FRONT of those with its own expiration time.
AddPosition(q, e) ==
  CHOOSE i \in 1..Len(q)+1 :
    /\ \A j \in 1..i-1 : q[j].tv < e.tv
    /\ i <= Len(q) => ~(q[i].tv < e.tv)

EqAddHead(q, e) == <<e>> \o q   \* mutant: no walk

EqAdd(q, e) == InsertAt(q, AddPosition(q, e), e)

EqPop(q) == Tail(q)

\* RemoveTimer: the walk of Eq_FindEvent stops at the first event with handle h.
FirstWithHandle(q, h) ==
  CHOOSE i \in 1..Len(q) :
    /\ q[i].hdl = h
    /\ \A j \in 1..i-1 : q[j].hdl # h

EqRemoveHead(q, h) ==   \* mutant: frees the head instead of the event found
  IF \E i \in 1..Len(q) : q[i].hdl = h THEN Tail(q) ELSE q

EqRemove(q, h) ==
  IF \E i \in 1..Len(q) : q[i].hdl = h
    THEN RemoveAt(q, FirstWithHandle(q, h))
    ELSE q

Handles(q) == {q[i].hdl : i \in 1..Len(q)}

\* "kept in sorted order by expiration time"
SortedByTime(q) == \A i, j \in 1..Len(q) : i < j => q[i].tv <= q[j].tv

UniqueHandles(q) == \A i, j \in 1..Len(q) : q[i].hdl = q[j].hdl => i = j
=============================================================================
