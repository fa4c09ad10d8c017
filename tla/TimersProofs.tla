---------------------------- MODULE TimersProofs ----------------------------
(***************************************************************************)
(* The timer library keeps its list sorted and its handles unique, and so  *)
(* behaves as TimerSet, for any number of timers, any timeouts and any     *)
(* order of calls.  Its timeval arithmetic is exact for every clock and    *)
(* every delay, and the comparison errs only among timevals of one         *)
(* instant, of which one is not carried.                                   *)
(***************************************************************************)
EXTENDS Timers, EventQueueProofs

-----------------------------------------------------------------------------
(* The timeval arithmetic *)

\* A clock's timeval is carried, a sum's need not be.
IsClock(tv) ==
  /\ tv = Timeval(tv.sec, tv.usec)
  /\ tv.sec \in Nat /\ tv.usec \in Nat /\ tv.usec < Million
IsTime(tv) ==
  /\ tv = Timeval(tv.sec, tv.usec)
  /\ tv.sec \in Nat /\ tv.usec \in Nat /\ tv.usec <= Million

\* Dividing by one million.
LEMMA DivMillion ==
  ASSUME NEW u \in Nat
  PROVE  /\ u \div Million \in Nat
         /\ u % Million \in Nat /\ u % Million < Million
         /\ u = Million * (u \div Million) + (u % Million)
  BY SMT DEF Million

\* Seconds are added one by one.
LEMMA ThreeSeconds ==
  ASSUME NEW a \in Nat, NEW b \in Nat, NEW c \in Nat
  PROVE  Million * (a + b + c) = Million * a + Million * b + Million * c
  BY SMT DEF Million

\* getTime's result stands for the time it was read at.
LEMMA TimeOfDayExact ==
  ASSUME NEW u \in Nat
  PROVE  IsClock(TimeOfDay(u)) /\ Usecs(TimeOfDay(u)) = u
<1>. QED
  BY DivMillion DEF TimeOfDay, Timeval, IsClock, Usecs

\* Timeval_Addmsecs adds the delay, whether it carries or not.
THEOREM AddIsExact ==
  ASSUME NEW tv, IsClock(tv), NEW m \in Nat
  PROVE  /\ IsTime(Timeval_Addmsecs(tv, m))
         /\ Usecs(Timeval_Addmsecs(tv, m)) = Usecs(tv) + 1000 * m
<1>. DEFINE s == m \div 1000
            r == 1000 * (m % 1000)
            sum == tv.usec + r
            q == sum \div Million
            w == sum % Million
<1>1. s \in Nat /\ r \in Nat /\ r < Million /\ 1000 * m = Million * s + r
  BY SMT DEF Million
<1>2. sum \in Nat
  BY <1>1, SMT DEF IsClock
<1>3. q \in Nat /\ w \in Nat /\ w < Million /\ sum = Million * q + w
  BY <1>2, DivMillion
<1>4. Timeval_Addmsecs(tv, m) =
        IF sum > Million THEN Timeval(tv.sec + s + q, w) ELSE Timeval(tv.sec + s, sum)
  BY DEF Timeval_Addmsecs, Timeval_Addusecs, Timeval
<1>5. tv.sec \in Nat /\ tv.usec \in Nat
  BY DEF IsClock
<1>6. sum = tv.usec + r
  OBVIOUS
<1>. HIDE DEF s, r, sum, q, w
<1>7. CASE sum > Million
  <2>1. Timeval_Addmsecs(tv, m) = Timeval(tv.sec + s + q, w)
    BY <1>4, <1>7
  <2>. DEFINE sec == tv.sec
  <2>. HIDE DEF sec
  <2>2. Million * (sec + s + q) = Million * sec + Million * s + Million * q
    <3>1. sec \in Nat
      BY <1>5 DEF sec
    <3>. QED
      BY <1>1, <1>3, <3>1, ThreeSeconds
  <2>3. tv.sec + s + q \in Nat
    BY <1>1, <1>3, <1>5
  <2>. QED
    BY <1>1, <1>3, <1>5, <1>6, <2>1, <2>2, <2>3, SMT DEF IsTime, Timeval, Usecs, Million, sec
<1>8. CASE ~(sum > Million)
  BY <1>1, <1>2, <1>4, <1>5, <1>6, <1>8, SMT DEF IsTime, Timeval, Usecs, Million
<1>. QED
  BY <1>7, <1>8

\* Timeval_Cmp never puts a later time before an earlier one.
THEOREM CmpFollowsTime ==
  ASSUME NEW x, IsTime(x), NEW y, IsTime(y)
  PROVE  /\ Usecs(x) < Usecs(y) => Before(x, y)
         /\ Before(x, y) => Usecs(x) <= Usecs(y)
  BY SMT DEF IsTime, Usecs, Before, Million

\* Timeval_Sub gives the time left until x, and {0, 0} just when none is.
THEOREM SubIsExact ==
  ASSUME NEW x, IsTime(x), NEW y, IsClock(y)
  PROVE  /\ IsTime(Timeval_Sub(x, y))
         /\ Usecs(Timeval_Sub(x, y)) =
              IF Usecs(x) > Usecs(y) THEN Usecs(x) - Usecs(y) ELSE 0
         /\ Timeval_Sub(x, y) = Timeval(0, 0) <=> Usecs(x) <= Usecs(y)
<1>1. IsTime(y) /\ Usecs(x) \in Nat /\ Usecs(y) \in Nat
  BY SMT DEF IsTime, IsClock, Usecs, Million
<1>2. CASE Before(x, y)
  <2>1. Timeval_Sub(x, y) = Timeval(0, 0) /\ Usecs(x) <= Usecs(y)
    BY <1>1, <1>2, CmpFollowsTime DEF Timeval_Sub
  <2>. QED
    BY <1>1, <2>1, SMT DEF IsTime, Timeval, Usecs, Million
<1>3. CASE ~Before(x, y) /\ x.usec < y.usec
  <2>. DEFINE d == Timeval(x.sec - 1 - y.sec, x.usec + Million - y.usec)
  <2>1. Timeval_Sub(x, y) = d
    BY <1>3 DEF Timeval_Sub
  <2>2. IsTime(d) /\ Usecs(d) = Usecs(x) - Usecs(y) /\ d.usec > 0
    BY <1>3, SMT DEF IsTime, IsClock, Timeval, Usecs, Before, Million
  <2>. QED
    BY <1>1, <2>1, <2>2, SMT DEF IsTime, Timeval, Usecs, Million
<1>4. CASE ~Before(x, y) /\ ~(x.usec < y.usec)
  <2>. DEFINE d == Timeval(x.sec - y.sec, x.usec - y.usec)
  <2>1. Timeval_Sub(x, y) = d
    BY <1>4 DEF Timeval_Sub
  <2>2. IsTime(d) /\ Usecs(d) = Usecs(x) - Usecs(y)
    BY <1>4, SMT DEF IsTime, IsClock, Timeval, Usecs, Before, Million
  <2>. QED
    BY <1>1, <2>1, <2>2, SMT DEF IsTime, Timeval, Usecs, Million
<1>. QED
  BY <1>2, <1>3, <1>4

-----------------------------------------------------------------------------
(* The list of timers *)

\* The list is one that the lemmas of EventQueueProofs speak of.
LEMMA EqIsEventList ==
  ASSUME TypeOK
  PROVE  IsEventList(eq, Event)
  BY DEF TypeOK, IsEventList, Event

\* Every handle of the list has been given out already.
Issued == Handles(eq) \subseteq 1..nextHandle-1

\* A timer was started at time 0 or later.
Started == \A e \in Events(eq) : e.timeout <= e.tv

\* The inductive invariant.  Sorted is inductive by itself; that handles stay
\* unique needs Issued, since AddTimer compares the new handle with none.
IInv ==
  /\ TypeOK
  /\ Sorted
  /\ UniqueHandles(eq)
  /\ Issued
  /\ Started

\* The inductive invariant holds initially.
LEMMA InitIInv == Init => IInv
<1>. SUFFICES ASSUME Init PROVE IInv
  OBVIOUS
<1>1. TypeOK
  BY TimersAssumption DEF Init, TypeOK
<1>2. Sorted /\ UniqueHandles(eq) /\ Issued
  BY DEF Init, Sorted, SortedByTime, UniqueHandles, Issued, Handles
<1>3. Started
  BY DEF Init, Started, Events
<1>. QED
  BY <1>1, <1>2, <1>3 DEF IInv

\* A call of AddTimer starts a timer under a handle nobody has.
LEMMA AddTimerIInv ==
  ASSUME IInv, NEW t \in Timeouts, AddTimer(t)
  PROVE  IInv'
<1>. DEFINE e == [hdl |-> nextHandle, timeout |-> t, tv |-> now + t]
<1>1. IsEventList(eq, Event)
  BY EqIsEventList DEF IInv
<1>2. e \in Event /\ e.hdl = nextHandle /\ e.timeout <= e.tv
  BY TimersAssumption DEF IInv, TypeOK, AddTimer, Event
<1>3. eq' = EqAdd(eq, e) /\ nextHandle' = nextHandle + 1 /\ now' = now
  BY DEF AddTimer
<1>. HIDE DEF e
<1>4. eq' \in Seq(Event) /\ SortedByTime(eq') /\ Events(eq') = Events(eq) \cup {e}
  <2>1. eq' \in Seq(Event)
    BY <1>1, <1>2, <1>3, EqAddProperties
  <2>2. SortedByTime(eq')
    BY <1>1, <1>2, <1>3, EqAddSorted DEF IInv, Sorted
  <2>3. Events(eq') = Events(eq) \cup {e}
    BY <1>1, <1>2, <1>3, EqAddElements
  <2>. QED
    BY <2>1, <2>2, <2>3
<1>5. nextHandle \in 1..MaxHandle /\ nextHandle \notin Handles(eq)
  BY TimersAssumption DEF IInv, TypeOK, AddTimer, Issued
<1>6. UniqueHandles(eq')
  BY <1>1, <1>2, <1>3, <1>5, EqAddUnique DEF IInv
<1>7. Handles(eq') = Handles(eq) \cup {nextHandle}
  BY <1>2, <1>4, HandlesOfEvents
<1>8. TypeOK'
  BY <1>3, <1>4, <1>5, TimersAssumption DEF IInv, TypeOK
<1>9. Handles(eq') \subseteq 1..nextHandle'-1
  BY <1>3, <1>5, <1>7 DEF IInv, Issued
<1>10. Started'
  BY <1>2, <1>4 DEF IInv, Started
<1>. QED
  BY <1>4, <1>6, <1>8, <1>9, <1>10 DEF IInv, Sorted, Issued

\* RemoveTimer takes out at most one timer, whatever handle it is given.
LEMMA RemoveTimerIInv ==
  ASSUME IInv, NEW h \in 0..MaxHandle, RemoveTimer(h)
  PROVE  IInv'
<1>1. IsEventList(eq, Event)
  BY EqIsEventList DEF IInv
<1>2. eq' = EqRemove(eq, h) /\ nextHandle' = nextHandle /\ now' = now
  BY DEF RemoveTimer
<1>3. /\ IsEventList(eq', Event)
      /\ SortedByTime(eq')
      /\ UniqueHandles(eq')
      /\ Events(eq') \subseteq Events(eq)
  BY <1>1, <1>2, EqRemoveProperties DEF IInv, Sorted
<1>4. Handles(eq') \subseteq Handles(eq)
  BY <1>3, HandlesOfEvents
<1>5. TypeOK'
  BY <1>2, <1>3 DEF IInv, TypeOK, IsEventList
<1>6. Started'
  BY <1>3 DEF IInv, Started
<1>. QED
  BY <1>2, <1>3, <1>4, <1>5, <1>6 DEF IInv, Sorted, Issued

\* A timer that is executed and discarded.
LEMMA ExecuteDiscardIInv ==
  ASSUME IInv, ExecuteDiscard
  PROVE  IInv'
<1>1. IsEventList(eq, Event)
  BY EqIsEventList DEF IInv
<1>2. eq # <<>> /\ eq' = EqPop(eq) /\ nextHandle' = nextHandle /\ now' = now
  BY DEF ExecuteDiscard
<1>3. /\ IsEventList(eq', Event)
      /\ SortedByTime(eq')
      /\ UniqueHandles(eq')
      /\ Events(eq') \subseteq Events(eq)
  BY <1>1, <1>2, EqPopProperties DEF IInv, Sorted
<1>4. Handles(eq') \subseteq Handles(eq)
  BY <1>3, HandlesOfEvents
<1>5. TypeOK'
  BY <1>2, <1>3 DEF IInv, TypeOK, IsEventList
<1>6. Started'
  BY <1>3 DEF IInv, Started
<1>. QED
  BY <1>2, <1>3, <1>4, <1>5, <1>6 DEF IInv, Sorted, Issued

\* A timer that is executed and keeps running, with its handle.
LEMMA ExecuteRescheduleIInv ==
  ASSUME IInv, NEW t \in Timeouts, ExecuteReschedule(t)
  PROVE  IInv'
<1>. DEFINE e == After(Head(eq), t)
            q == EqPop(eq)
<1>1. IsEventList(eq, Event)
  BY EqIsEventList DEF IInv
<1>2. /\ eq # <<>>
      /\ eq' = EqAdd(q, e)
      /\ nextHandle' = nextHandle
      /\ now' = now
  BY DEF ExecuteReschedule
<1>3. /\ IsEventList(q, Event)
      /\ Head(eq) \in Event
      /\ Events(eq) = Events(q) \cup {Head(eq)}
      /\ SortedByTime(q)
      /\ UniqueHandles(q)
      /\ Head(eq).hdl \notin Handles(q)
  BY <1>1, <1>2, EqPopProperties DEF IInv, Sorted
<1>4. e \in Event /\ e.hdl = Head(eq).hdl /\ e.timeout <= e.tv
  BY <1>3, TimersAssumption DEF IInv, TypeOK, After, Event
<1>. HIDE DEF e, q
<1>5. eq' \in Seq(Event) /\ SortedByTime(eq') /\ Events(eq') = Events(q) \cup {e}
  <2>1. EqAdd(q, e) \in Seq(Event)
    BY <1>3, <1>4, EqAddProperties
  <2>2. SortedByTime(EqAdd(q, e))
    BY <1>3, <1>4, EqAddSorted
  <2>3. Events(EqAdd(q, e)) = Events(q) \cup {e}
    BY <1>3, <1>4, EqAddElements
  <2>. QED
    BY <1>2, <2>1, <2>2, <2>3
<1>6. UniqueHandles(eq')
  BY <1>2, <1>3, <1>4, EqAddUnique
<1>7. Handles(eq') = Handles(eq)
  BY <1>3, <1>4, <1>5, HandlesOfEvents
<1>8. TypeOK'
  BY <1>2, <1>5 DEF IInv, TypeOK
<1>9. Started'
  BY <1>3, <1>4, <1>5 DEF IInv, Started
<1>. QED
  BY <1>2, <1>5, <1>6, <1>7, <1>8, <1>9 DEF IInv, Sorted, Issued

\* Every step preserves the inductive invariant.
LEMMA NextIInv == IInv /\ [Next]_vars => IInv'
<1>. SUFFICES ASSUME IInv, [Next]_vars PROVE IInv'
  OBVIOUS
<1>1. CASE \E t \in Timeouts : AddTimer(t)
  BY <1>1, AddTimerIInv
<1>2. CASE \E h \in 0..MaxHandle : RemoveTimer(h)
  BY <1>2, RemoveTimerIInv
<1>3. CASE ExecuteNextTimer
  <2>1. CASE ExecuteDiscard
    BY <2>1, ExecuteDiscardIInv
  <2>2. CASE eq # <<>> /\ ExecuteReschedule(Head(eq).timeout)
    <3>1. Head(eq) \in Event
      BY <2>2, EqIsEventList, EqPopProperties DEF IInv
    <3>2. Head(eq).timeout \in Timeouts
      BY <3>1 DEF Event
    <3>. QED
      BY <2>2, <3>2, ExecuteRescheduleIInv
  <2>3. CASE \E t \in Timeouts : ExecuteReschedule(t)
    BY <2>3, ExecuteRescheduleIInv
  <2>. QED
    BY <1>3, <2>1, <2>2, <2>3 DEF ExecuteNextTimer
<1>4. CASE Tick
  BY <1>4, TimersAssumption DEF Tick, IInv, TypeOK, Sorted, Issued, Started
<1>5. CASE UNCHANGED vars
  BY <1>5 DEF vars, IInv, TypeOK, Sorted, Issued, Started
<1>. QED
  BY <1>1, <1>2, <1>3, <1>4, <1>5 DEF Next

\* The state is of its types.
THEOREM TypeCorrect == Spec => []TypeOK
<1>1. IInv => TypeOK
  BY DEF IInv
<1>. QED
  BY InitIInv, NextIInv, <1>1, PTL DEF Spec

\* The list stays sorted by expiration time, so ExecuteNextTimer always pops a
\* timer with the nearest deadline.
THEOREM AlwaysSorted == Spec => []Sorted
<1>1. IInv => Sorted
  BY DEF IInv
<1>. QED
  BY InitIInv, NextIInv, <1>1, PTL DEF Spec

\* A handle names at most one running timer.
THEOREM AlwaysUnique == Spec => []HandlesUnique
<1>1. IInv => HandlesUnique
  <2>. SUFFICES ASSUME IInv PROVE HandlesUnique
    OBVIOUS
  <2>1. nextHandle \in Nat
    BY TimersAssumption DEF IInv, TypeOK
  <2>2. \A i \in 1..Len(eq) : eq[i].hdl \in Handles(eq)
    BY DEF Handles
  <2>3. \A i \in 1..Len(eq) : eq[i].hdl \in 1..nextHandle-1
    BY <2>2 DEF IInv, Issued
  <2>4. \A i \in 1..Len(eq) : eq[i].hdl < nextHandle
    BY <2>1, <2>3
  <2>. QED
    BY <2>4 DEF IInv, HandlesUnique
<1>. QED
  BY InitIInv, NextIInv, <1>1, PTL DEF Spec

\* A later time is later in microseconds, and differences are kept.
LEMMA MicrosecondsOrdered ==
  ASSUME NEW a \in Nat, NEW b \in Nat
  PROVE  /\ Microseconds(a) \in Nat
         /\ a < b => Microseconds(a) < Microseconds(b)
         /\ Microseconds(b - a) = Microseconds(b) - Microseconds(a)
<1>1. TickMsecs \in Nat \ {0}
  BY TimersAssumption
<1>. QED
  BY <1>1, SMT DEF Microseconds

\* What is stored for a timer stands for its expiration time.
LEMMA StoredExact ==
  ASSUME NEW e \in Event, e.timeout <= e.tv
  PROVE  IsTime(Stored(e)) /\ Usecs(Stored(e)) = Microseconds(e.tv)
<1>. DEFINE start == e.tv - e.timeout
            m == TickMsecs * e.timeout
<1>1. e.timeout \in Nat /\ e.tv \in Nat /\ start \in Nat
  <2>1. e.timeout \in Timeouts /\ e.tv \in Nat
    BY DEF Event
  <2>2. e.timeout \in Nat
    BY <2>1, TimersAssumption
  <2>. QED
    BY <2>1, <2>2
<1>2. m \in Nat /\ 1000 * m = Microseconds(e.timeout)
  BY <1>1, TimersAssumption, SMT DEF Microseconds
<1>3. Microseconds(start) = Microseconds(e.tv) - Microseconds(e.timeout)
  BY <1>1, MicrosecondsOrdered
<1>4. Stored(e) = Timeval_Addmsecs(Clock(start), m)
  BY DEF Stored
<1>. HIDE DEF start, m
<1>5. IsClock(Clock(start)) /\ Usecs(Clock(start)) = Microseconds(start)
  BY <1>1, MicrosecondsOrdered, TimeOfDayExact DEF Clock
<1>6. IsTime(Stored(e)) /\ Usecs(Stored(e)) = Microseconds(start) + 1000 * m
  BY <1>2, <1>4, <1>5, AddIsExact
<1>7. Microseconds(e.tv) \in Nat /\ Microseconds(e.timeout) \in Nat
  BY <1>1, MicrosecondsOrdered
<1>. QED
  BY <1>2, <1>3, <1>6, <1>7

\* The comparisons and remaining times that the code computes from timevals are
\* those of the expiration times, although some sums are not carried.
THEOREM TimesAlwaysAgree == Spec => []TimesAgree
<1>1. IInv => TimesAgree
  <2>. SUFFICES ASSUME IInv, NEW i \in 1..Len(eq)
                PROVE  /\ \A j \in 1..Len(eq) :
                            eq[i].tv < eq[j].tv => Before(Stored(eq[i]), Stored(eq[j]))
                       /\ Usecs(Remaining(eq[i])) =
                            IF eq[i].tv > now THEN Microseconds(eq[i].tv - now) ELSE 0
                       /\ Remaining(eq[i]) = Timeval(0, 0) <=> eq[i].tv <= now
    BY DEF TimesAgree
  <2>1. ASSUME NEW k \in 1..Len(eq)
        PROVE  /\ eq[k].tv \in Nat
               /\ IsTime(Stored(eq[k]))
               /\ Usecs(Stored(eq[k])) = Microseconds(eq[k].tv)
    <3>1. eq[k] \in Event /\ eq[k] \in Events(eq)
      BY DEF IInv, TypeOK, Events
    <3>2. eq[k].timeout <= eq[k].tv
      BY <3>1 DEF IInv, Started
    <3>. QED
      BY <3>1, <3>2, StoredExact DEF Event
  <2>2. now \in Nat /\ IsClock(Clock(now)) /\ Usecs(Clock(now)) = Microseconds(now)
    <3>1. now \in Nat
      BY TimersAssumption DEF IInv, TypeOK
    <3>. QED
      BY <3>1, MicrosecondsOrdered, TimeOfDayExact DEF Clock
  <2>3. ASSUME NEW j \in 1..Len(eq), eq[i].tv < eq[j].tv
        PROVE  Before(Stored(eq[i]), Stored(eq[j]))
    <3>1. Usecs(Stored(eq[i])) < Usecs(Stored(eq[j]))
      BY <2>1, <2>3, MicrosecondsOrdered
    <3>. QED
      BY <2>1, <3>1, CmpFollowsTime
  <2>4. /\ Usecs(Remaining(eq[i])) =
             IF Microseconds(eq[i].tv) > Microseconds(now)
             THEN Microseconds(eq[i].tv) - Microseconds(now) ELSE 0
        /\ Remaining(eq[i]) = Timeval(0, 0) <=>
             Microseconds(eq[i].tv) <= Microseconds(now)
    <3>1. IsTime(Stored(eq[i])) /\ Usecs(Stored(eq[i])) = Microseconds(eq[i].tv)
      BY <2>1
    <3>. QED
      BY <2>2, <3>1, SubIsExact DEF Remaining
  <2>5. /\ Microseconds(now) \in Nat /\ Microseconds(eq[i].tv) \in Nat
        /\ now < eq[i].tv => Microseconds(now) < Microseconds(eq[i].tv)
        /\ eq[i].tv < now => Microseconds(eq[i].tv) < Microseconds(now)
        /\ Microseconds(eq[i].tv - now) = Microseconds(eq[i].tv) - Microseconds(now)
    BY <2>1, <2>2, MicrosecondsOrdered
  <2>6. eq[i].tv \in Nat
    BY <2>1
  <2>. QED
    BY <2>2, <2>3, <2>4, <2>5, <2>6
<1>. QED
  BY InitIInv, NextIInv, <1>1, PTL DEF Spec
-----------------------------------------------------------------------------
(* The list implements the set of running timers *)

\* The deadlines that a list stands for.
TimesOf(q) == [h \in Handles(q) |-> q[FirstWithHandle(q, h)].tv]

LEMMA DeadlinesOfList == Deadlines = TimesOf(eq)
  BY DEF Deadlines, TimesOf

\* Where handles differ, each event gives the deadline of its handle.
LEMMA TimesOfProperties ==
  ASSUME NEW S, NEW q, IsEventList(q, S), UniqueHandles(q)
  PROVE  /\ DOMAIN TimesOf(q) = Handles(q)
         /\ \A x \in Events(q) : x.hdl \in Handles(q) /\ TimesOf(q)[x.hdl] = x.tv
         /\ \A h \in Handles(q) :
              \E x \in Events(q) : x.hdl = h /\ TimesOf(q)[h] = x.tv
<1>1. ASSUME NEW h \in Handles(q)
      PROVE  /\ FirstWithHandle(q, h) \in 1..Len(q)
             /\ q[FirstWithHandle(q, h)].hdl = h
             /\ TimesOf(q)[h] = q[FirstWithHandle(q, h)].tv
  BY FirstWithHandleProperties DEF IsEventList, TimesOf
<1>2. ASSUME NEW i \in 1..Len(q)
      PROVE  q[i].hdl \in Handles(q) /\ TimesOf(q)[q[i].hdl] = q[i].tv
  <2>1. q[i].hdl \in Handles(q)
    BY DEF Handles
  <2>2. FirstWithHandle(q, q[i].hdl) = i
    BY <2>1, <1>1 DEF UniqueHandles
  <2>. QED
    BY <2>1, <2>2, <1>1
<1>. QED
  BY <1>1, <1>2 DEF Events, TimesOf

\* A list stands for function f if its handles are f's domain and its events
\* have the values of f.
LEMMA TimesOfIs ==
  ASSUME NEW S, NEW q, IsEventList(q, S), UniqueHandles(q),
         NEW D, NEW f, f = [h \in D |-> f[h]],
         Handles(q) = D, \A x \in Events(q) : x.tv = f[x.hdl]
  PROVE  TimesOf(q) = f
<1>1. \A h \in D : TimesOf(q)[h] = f[h]
  BY TimesOfProperties
<1>2. TimesOf(q) = [h \in D |-> TimesOf(q)[h]]
  BY DEF TimesOf
<1>. QED
  BY <1>1, <1>2

LEMMA AbstractRunning == Abstract!Running = Handles(eq)
  BY DEF Abstract!Running, Deadlines

\* A timer of the list is running with its deadline.
LEMMA EventIsRunning ==
  ASSUME IInv, NEW x \in Events(eq)
  PROVE  x.hdl \in Handles(eq) /\ Deadlines[x.hdl] = x.tv
  BY EqIsEventList, TimesOfProperties, DeadlinesOfList DEF IInv

\* The head of a sorted list is a nearest timer.
LEMMA HeadIsNearest ==
  ASSUME IInv, eq # <<>>
  PROVE  /\ Head(eq) \in Events(eq)
         /\ Head(eq).hdl \in Handles(eq)
         /\ Abstract!Nearest(Head(eq).hdl)
<1>1. IsEventList(eq, Event) /\ Len(eq) \in Nat \ {0}
  BY EqIsEventList, EmptySeq DEF IInv, TypeOK
<1>2. Head(eq) = eq[1] /\ 1 \in 1..Len(eq)
  BY <1>1
<1>3. Head(eq) \in Events(eq)
  BY <1>2 DEF Events
<1>4. Head(eq).hdl \in Handles(eq) /\ Deadlines[Head(eq).hdl] = eq[1].tv
  BY <1>2, <1>3, EventIsRunning
<1>5. ASSUME NEW g \in Handles(eq)
      PROVE  eq[1].tv <= Deadlines[g]
  <2>1. PICK x \in Events(eq) : x.hdl = g /\ Deadlines[g] = x.tv
    BY <1>1, TimesOfProperties, DeadlinesOfList DEF IInv
  <2>2. PICK i \in 1..Len(eq) : x = eq[i]
    BY DEF Events
  <2>3. eq[1].tv \in Nat
    <3>1. eq[1] \in Event
      BY <1>1, <1>2 DEF IsEventList
    <3>. QED
      BY <3>1 DEF Event
  <2>4. eq[1].tv <= eq[i].tv
    BY <1>1, <1>2, <2>3 DEF IInv, Sorted, SortedByTime
  <2>. QED
    BY <2>1, <2>2, <2>4
<1>. QED
  BY <1>3, <1>4, <1>5, AbstractRunning DEF Abstract!Nearest

\* AddTimer starts a timer under a handle that has not been given out.
LEMMA AddTimerStarts ==
  ASSUME IInv, IInv', NEW t \in Timeouts, AddTimer(t)
  PROVE  Abstract!Start
<1>. DEFINE e == [hdl |-> nextHandle, timeout |-> t, tv |-> now + t]
            f == [g \in Handles(eq) \cup {nextHandle} |->
                    IF g = nextHandle THEN now + t ELSE Deadlines[g]]
<1>1. IsEventList(eq, Event) /\ IsEventList(eq', Event)
  BY EqIsEventList DEF IInv, TypeOK, IsEventList, Event
<1>2. e \in Event /\ e.hdl = nextHandle /\ e.tv = now + t
  BY TimersAssumption DEF IInv, TypeOK, AddTimer, Event
<1>3. eq' = EqAdd(eq, e) /\ nextHandle' = nextHandle + 1 /\ now' = now
  BY DEF AddTimer
<1>4. nextHandle \in 1..MaxHandle /\ nextHandle \notin Handles(eq)
  BY TimersAssumption DEF IInv, TypeOK, AddTimer, Issued
<1>. HIDE DEF e
<1>5. Events(eq') = Events(eq) \cup {e}
  BY <1>1, <1>2, <1>3, EqAddElements
<1>6. Handles(eq') = Handles(eq) \cup {nextHandle}
  BY <1>2, <1>5, HandlesOfEvents
<1>7. \A x \in Events(eq') : x.tv = f[x.hdl]
  BY <1>2, <1>4, <1>5, EventIsRunning
<1>8. UniqueHandles(eq')
  BY DEF IInv
<1>9. Deadlines' = f
  <2>1. TimesOf(eq') = f
    BY <1>1, <1>6, <1>7, <1>8, TimesOfIs
  <2>. QED
    BY <2>1 DEF Deadlines, TimesOf
<1>10. /\ nextHandle \in 1..MaxHandle \ (1..nextHandle-1)
       /\ 1..nextHandle'-1 = (1..nextHandle-1) \cup {nextHandle}
  BY <1>3, <1>4
<1>. QED
  BY <1>3, <1>9, <1>10, AbstractRunning DEF Abstract!Start

\* Where a step takes out the timers with handle h, their deadline goes.
LEMMA TimerTakenOut ==
  ASSUME IInv, IInv', NEW h,
         \A x \in Events(eq') : x \in Events(eq),
         Handles(eq') = Handles(eq) \ {h}
  PROVE  Deadlines' = [g \in Handles(eq) \ {h} |-> Deadlines[g]]
<1>. DEFINE f == [g \in Handles(eq) \ {h} |-> Deadlines[g]]
<1>1. IsEventList(eq', Event) /\ UniqueHandles(eq')
  BY DEF IInv, TypeOK, IsEventList, Event
<1>2. \A x \in Events(eq') : x.tv = f[x.hdl]
  <2>. SUFFICES ASSUME NEW x \in Events(eq') PROVE x.tv = f[x.hdl]
    OBVIOUS
  <2>1. x.hdl \in Handles(eq')
    BY HandlesOfEvents
  <2>. QED
    BY <2>1, EventIsRunning
<1>3. TimesOf(eq') = f
  BY <1>1, <1>2, TimesOfIs
<1>. QED
  BY <1>3 DEF Deadlines, TimesOf

\* RemoveTimer cancels the timer of its handle, if that is running, and else
\* does nothing.
LEMMA RemoveTimerCancels ==
  ASSUME IInv, IInv', NEW h \in 0..MaxHandle, RemoveTimer(h)
  PROVE  [Abstract!Next]_(Abstract!svars)
<1>1. IsEventList(eq, Event)
  BY EqIsEventList DEF IInv
<1>2. eq' = EqRemove(eq, h) /\ nextHandle' = nextHandle /\ now' = now
  BY DEF RemoveTimer
<1>3. Events(eq') = {x \in Events(eq) : x.hdl # h}
  BY <1>1, <1>2, EqRemoveProperties DEF IInv
<1>4. Handles(eq') = Handles(eq) \ {h}
  BY <1>3, HandlesOfEvents
<1>5. Deadlines' = [g \in Handles(eq) \ {h} |-> Deadlines[g]]
  BY <1>3, <1>4, TimerTakenOut
<1>6. CASE h \in Handles(eq)
  BY <1>2, <1>5, <1>6, AbstractRunning DEF Abstract!Cancel, Abstract!Next
<1>7. CASE h \notin Handles(eq)
  <2>1. eq' = eq
    BY <1>2, <1>7 DEF EqRemove, Handles
  <2>. QED
    BY <1>2, <2>1 DEF Abstract!svars, Deadlines
<1>. QED
  BY <1>6, <1>7

\* An execution that ends its timer.
LEMMA ExecuteDiscardFires ==
  ASSUME IInv, IInv', ExecuteDiscard
  PROVE  Abstract!FireLast
<1>1. IsEventList(eq, Event)
  BY EqIsEventList DEF IInv
<1>2. eq # <<>> /\ eq' = EqPop(eq) /\ nextHandle' = nextHandle /\ now' = now
  BY DEF ExecuteDiscard
<1>3. /\ Events(eq) = Events(eq') \cup {Head(eq)}
      /\ Head(eq).hdl \notin Handles(eq')
  BY <1>1, <1>2, EqPopProperties DEF IInv
<1>4. Handles(eq') = Handles(eq) \ {Head(eq).hdl}
  BY <1>3, HandlesOfEvents
<1>5. Deadlines' = [g \in Handles(eq) \ {Head(eq).hdl} |-> Deadlines[g]]
  BY <1>3, <1>4, TimerTakenOut
<1>. QED
  BY <1>2, <1>5, HeadIsNearest, AbstractRunning DEF Abstract!FireLast

\* An execution after which the timer runs on.
LEMMA ExecuteRescheduleFires ==
  ASSUME IInv, IInv', NEW t \in Timeouts, ExecuteReschedule(t)
  PROVE  Abstract!FireAgain
<1>. DEFINE e == After(Head(eq), t)
            q == EqPop(eq)
            h == Head(eq).hdl
            f == [g \in Handles(eq) |-> IF g = h THEN now + t ELSE Deadlines[g]]
<1>1. IsEventList(eq, Event) /\ IsEventList(eq', Event)
  BY EqIsEventList DEF IInv, TypeOK, IsEventList, Event
<1>2. eq # <<>> /\ eq' = EqAdd(q, e) /\ nextHandle' = nextHandle /\ now' = now
  BY DEF ExecuteReschedule
<1>3. /\ IsEventList(q, Event)
      /\ Head(eq) \in Event
      /\ Events(eq) = Events(q) \cup {Head(eq)}
      /\ h \notin Handles(q)
  BY <1>1, <1>2, EqPopProperties DEF IInv
<1>4. e \in Event /\ e.hdl = h /\ e.tv = now + t
  BY <1>3, TimersAssumption DEF IInv, TypeOK, After, Event
<1>. HIDE DEF e, q, h
<1>5. Events(eq') = Events(q) \cup {e}
  BY <1>2, <1>3, <1>4, EqAddElements
<1>6. Handles(eq') = Handles(eq) /\ h \in Handles(eq)
  BY <1>3, <1>4, <1>5, HandlesOfEvents DEF h
<1>7. \A x \in Events(eq') : x.tv = f[x.hdl]
  <2>1. f[e.hdl] = e.tv
    BY <1>4, <1>6
  <2>2. ASSUME NEW x \in Events(q)
        PROVE  x.tv = f[x.hdl]
    <3>1. x.hdl \in Handles(eq) /\ Deadlines[x.hdl] = x.tv
      BY <1>3, EventIsRunning
    <3>2. x.hdl # h
      BY <1>3, HandlesOfEvents
    <3>. QED
      BY <3>1, <3>2
  <2>. QED
    BY <1>5, <2>1, <2>2
<1>8. UniqueHandles(eq')
  BY DEF IInv
<1>9. Deadlines' = f
  <2>0. f = [g \in Handles(eq) |-> f[g]]
    OBVIOUS
  <2>1. TimesOf(eq') = f
    <3>. HIDE DEF f
    <3>. QED
      BY <1>1, <1>6, <1>7, <1>8, <2>0, TimesOfIs
  <2>. QED
    BY <2>1 DEF Deadlines, TimesOf
<1>10. f = [Deadlines EXCEPT ![h] = now + t]
  BY <1>6 DEF Deadlines
<1>11. Abstract!Nearest(h)
  BY <1>2, HeadIsNearest DEF h
<1>. QED
  BY <1>2, <1>6, <1>9, <1>10, <1>11, AbstractRunning DEF Abstract!FireAgain

\* Every step of the library is a step of TimerSet: it starts, cancels or fires
\* a timer, one with the nearest deadline, or time passes.
THEOREM ListIsTimerSet == Spec => ImplementsTimerSet
<1>1. Init => Abstract!Init
  <2>. SUFFICES ASSUME Init PROVE Abstract!Init
    OBVIOUS
  <2>1. Handles(eq) = {} /\ 1..nextHandle-1 = {} /\ now = 0
    BY DEF Init, Handles
  <2>. QED
    BY <2>1 DEF Abstract!Init, Deadlines
<1>2. IInv /\ IInv' /\ [Next]_vars => [Abstract!Next]_(Abstract!svars)
  <2>. SUFFICES ASSUME IInv, IInv', [Next]_vars
                PROVE  [Abstract!Next]_(Abstract!svars)
    OBVIOUS
  <2>1. CASE \E t \in Timeouts : AddTimer(t)
    BY <2>1, AddTimerStarts DEF Abstract!Next
  <2>2. CASE \E h \in 0..MaxHandle : RemoveTimer(h)
    BY <2>2, RemoveTimerCancels
  <2>3. CASE ExecuteDiscard
    BY <2>3, ExecuteDiscardFires DEF Abstract!Next
  <2>4. CASE eq # <<>> /\ ExecuteReschedule(Head(eq).timeout)
    <3>1. Head(eq) \in Event
      BY <2>4, EqIsEventList, EqPopProperties DEF IInv
    <3>2. Head(eq).timeout \in Timeouts
      BY <3>1 DEF Event
    <3>. QED
      BY <2>4, <3>2, ExecuteRescheduleFires DEF Abstract!Next
  <2>5. CASE \E t \in Timeouts : ExecuteReschedule(t)
    BY <2>5, ExecuteRescheduleFires DEF Abstract!Next
  <2>6. CASE Tick
    <3>1. now' \in now+1..MaxNow /\ Deadlines' = Deadlines
            /\ (1..nextHandle-1)' = 1..nextHandle-1
      BY <2>6, TimersAssumption DEF Tick, IInv, TypeOK, Deadlines
    <3>. QED
      BY <3>1 DEF Abstract!Elapse, Abstract!Next
  <2>7. CASE UNCHANGED vars
    BY <2>7 DEF vars, Abstract!svars, Deadlines
  <2>. QED
    BY <2>1, <2>2, <2>3, <2>4, <2>5, <2>6, <2>7 DEF Next, ExecuteNextTimer
<1>. QED
  BY InitIInv, NextIInv, <1>1, <1>2, PTL
     DEF Spec, ImplementsTimerSet, Abstract!Spec

=============================================================================
