------------------------------- MODULE Timeval -------------------------------
(***************************************************************************)
(* The arithmetic on struct timeval of src/timers/timers.cc.  A sum whose  *)
(* microseconds are exactly one million is not carried into the seconds.   *)
(***************************************************************************)
EXTENDS Integers

Million == 1000000

Timeval(sec, usec) == [sec |-> sec, usec |-> usec]

\* What getTime reads, and what a timeval stands for, in microseconds.
TimeOfDay(usecs) == Timeval(usecs \div Million, usecs % Million)
Usecs(tv) == Million * tv.sec + tv.usec

\* Timeval_Cmp gives -1
Before(x, y) == x.sec < y.sec \/ (x.sec = y.sec /\ x.usec < y.usec)

Timeval_SubNoBorrow(x, y) ==   \* mutant: the borrowed second is not taken off
  IF Before(x, y) THEN Timeval(0, 0)
  ELSE IF x.usec < y.usec
       THEN Timeval(x.sec - y.sec, x.usec + Million - y.usec)
       ELSE Timeval(x.sec - y.sec, x.usec - y.usec)

Timeval_Sub(x, y) ==
  IF Before(x, y) THEN Timeval(0, 0)
  ELSE IF x.usec < y.usec
       THEN Timeval(x.sec - 1 - y.sec, x.usec + Million - y.usec)
       ELSE Timeval(x.sec - y.sec, x.usec - y.usec)

Timeval_Addusecs(tv, usecs) ==
  LET sum == tv.usec + usecs
  IN  IF sum > Million
      THEN Timeval(tv.sec + sum \div Million, sum % Million)
      ELSE Timeval(tv.sec, sum)

Timeval_Addmsecs(tv, msecs) ==
  Timeval_Addusecs(Timeval(tv.sec + msecs \div 1000, tv.usec), 1000 * (msecs % 1000))
=============================================================================
