-------------------------- MODULE EventQueueProofs --------------------------
(***************************************************************************)
(* Facts about the event list: what adding, removing and popping an event  *)
(* does to its length, its elements, its order and its handles, for lists  *)
(* of any length.  Timers and OctaneControl are proved from these.         *)
(***************************************************************************)
EXTENDS EventQueue, SequenceProofs

-----------------------------------------------------------------------------
(* Adding an event *)

\* A list of events with a handle and an expiration time.
IsEventList(q, S) ==
  /\ q \in Seq(S)
  /\ \A x \in S : x.tv \in Int

\* The events of a list.
Events(q) == {q[i] : i \in 1..Len(q)}

\* Eq_Add's walk stops somewhere, behind earlier events only.
LEMMA AddPositionProperties ==
  ASSUME NEW S, NEW q, IsEventList(q, S), NEW e \in S
  PROVE  /\ AddPosition(q, e) \in 1..Len(q)+1
         /\ \A j \in 1..AddPosition(q, e)-1 : q[j].tv < e.tv
         /\ AddPosition(q, e) <= Len(q) => ~(q[AddPosition(q, e)].tv < e.tv)
<1>. DEFINE T == {i \in 1..Len(q)+1 : i <= Len(q) => ~(q[i].tv < e.tv)}
<1>0. Len(q) \in Nat /\ \A i \in 1..Len(q) : q[i] \in S
  BY LenProperties, ElementOfSeq DEF IsEventList
<1>1. Len(q) + 1 \in T
  BY <1>0
<1>a. T \subseteq Nat /\ T # {}
  BY <1>0, <1>1
<1>2. PICK p \in T : \A y \in T : p <= y
  <2>. HIDE DEF T
  <2>. QED
    BY <1>a, LeastNatural
<1>3. p \in 1..Len(q)+1 /\ (p <= Len(q) => ~(q[p].tv < e.tv))
  BY <1>2
<1>4. ASSUME NEW j \in 1..p-1
      PROVE  q[j].tv < e.tv
  BY <1>0, <1>2, <1>3
<1>5. \E i \in 1..Len(q)+1 :
        /\ \A j \in 1..i-1 : q[j].tv < e.tv
        /\ i <= Len(q) => ~(q[i].tv < e.tv)
  BY <1>3, <1>4
<1>. QED
  BY <1>5 DEF AddPosition

\* Eq_Add puts the event at one place and moves the later ones up.
LEMMA EqAddProperties ==
  ASSUME NEW S, NEW q, IsEventList(q, S), NEW e \in S
  PROVE  /\ EqAdd(q, e) \in Seq(S)
         /\ Len(EqAdd(q, e)) = Len(q) + 1
         /\ \E p \in 1..Len(q)+1 :
              /\ \A i \in 1..Len(q)+1 :
                   EqAdd(q, e)[i] = IF i < p THEN q[i]
                                    ELSE IF i = p THEN e ELSE q[i-1]
              /\ \A j \in 1..p-1 : q[j].tv < e.tv
              /\ p <= Len(q) => ~(q[p].tv < e.tv)
<1>0. q \in Seq(S)
  BY DEF IsEventList
<1>. DEFINE p == AddPosition(q, e)
            At(k) == \A i \in 1..Len(q)+1 :
                       EqAdd(q, e)[i] = IF i < k THEN q[i]
                                        ELSE IF i = k THEN e ELSE q[i-1]
<1>1. /\ p \in 1..Len(q)+1
      /\ \A j \in 1..p-1 : q[j].tv < e.tv
      /\ p <= Len(q) => ~(q[p].tv < e.tv)
  BY AddPositionProperties
<1>2. EqAdd(q, e) = InsertAt(q, p, e)
  BY DEF EqAdd
<1>3. /\ EqAdd(q, e) \in Seq(S)
      /\ Len(EqAdd(q, e)) = Len(q) + 1
      /\ At(p)
  <2>. HIDE DEF p
  <2>1. /\ InsertAt(q, p, e) \in Seq(S)
        /\ Len(InsertAt(q, p, e)) = Len(q) + 1
        /\ \A i \in 1..Len(q)+1 :
             InsertAt(q, p, e)[i] = IF i < p THEN q[i]
                                    ELSE IF i = p THEN e ELSE q[i-1]
    BY <1>0, <1>1, InsertAtProperties
  <2>. QED
    BY <1>2, <2>1, Zenon
<1>4. \E k \in 1..Len(q)+1 :
        /\ At(k)
        /\ \A j \in 1..k-1 : q[j].tv < e.tv
        /\ k <= Len(q) => ~(q[k].tv < e.tv)
  <2>. HIDE DEF p, At
  <2>. QED
    BY <1>1, <1>3, Zenon
<1>. QED
  BY <1>3, <1>4, Zenon

\* The list then holds the old events and the new one.
LEMMA EqAddElements ==
  ASSUME NEW S, NEW q, IsEventList(q, S), NEW e \in S
  PROVE  Events(EqAdd(q, e)) = Events(q) \cup {e}
<1>0. Len(q) \in Nat
  BY LenProperties DEF IsEventList
<1>. DEFINE r == EqAdd(q, e)
<1>1. PICK p \in 1..Len(q)+1 :
        /\ Len(r) = Len(q) + 1
        /\ \A i \in 1..Len(q)+1 : r[i] = IF i < p THEN q[i]
                                         ELSE IF i = p THEN e ELSE q[i-1]
  BY EqAddProperties
<1>. HIDE DEF r
<1>2. r[p] = e /\ p \in 1..Len(r)
  BY <1>0, <1>1
<1>3. ASSUME NEW i \in 1..Len(q)
      PROVE  \E j \in 1..Len(r) : r[j] = q[i]
  <2>1. CASE i < p
    BY <2>1, <1>0, <1>1
  <2>2. CASE ~(i < p)
    <3>1. i + 1 \in 1..Len(r) /\ ~(i + 1 < p) /\ i + 1 # p /\ (i + 1) - 1 = i
      BY <2>2, <1>0, <1>1
    <3>2. r[i+1] = q[i]
      BY <3>1, <1>0, <1>1
    <3>. QED
      BY <3>1, <3>2
  <2>. QED
    BY <2>1, <2>2
<1>4. ASSUME NEW j \in 1..Len(r)
      PROVE  r[j] = e \/ \E i \in 1..Len(q) : r[j] = q[i]
  <2>1. CASE j < p
    BY <2>1, <1>0, <1>1
  <2>2. CASE j = p
    BY <2>2, <1>2
  <2>3. CASE j > p
    BY <2>3, <1>0, <1>1
  <2>4. j < p \/ j = p \/ j > p
    BY <1>0, <1>1
  <2>. QED
    BY <2>1, <2>2, <2>3, <2>4
<1>5. Events(r) = Events(q) \cup {e}
  BY <1>2, <1>3, <1>4 DEF Events
<1>. QED
  BY <1>5 DEF r

\* Eq_Add keeps a sorted list sorted.
LEMMA EqAddSorted ==
  ASSUME NEW S, NEW q, IsEventList(q, S), NEW e \in S, SortedByTime(q)
  PROVE  SortedByTime(EqAdd(q, e))
<1>0. /\ Len(q) \in Nat
      /\ \A i \in 1..Len(q) : q[i].tv \in Int
      /\ e.tv \in Int
  BY LenProperties, ElementOfSeq DEF IsEventList
<1>. DEFINE r == EqAdd(q, e)
<1>1. PICK p \in 1..Len(q)+1 :
        /\ Len(r) = Len(q) + 1
        /\ \A i \in 1..Len(q)+1 : r[i] = IF i < p THEN q[i]
                                         ELSE IF i = p THEN e ELSE q[i-1]
        /\ \A j \in 1..p-1 : q[j].tv < e.tv
        /\ p <= Len(q) => ~(q[p].tv < e.tv)
  BY EqAddProperties
<1>. HIDE DEF r
<1>2. ASSUME NEW k \in p..Len(q)
      PROVE  e.tv <= q[k].tv
  BY <1>0, <1>1 DEF SortedByTime
<1>3. ASSUME NEW i \in 1..Len(r), NEW j \in 1..Len(r), i < j
      PROVE  r[i].tv <= r[j].tv
  <2>1. CASE j < p
    BY <2>1, <1>0, <1>1, <1>3 DEF SortedByTime
  <2>2. CASE j = p
    BY <2>2, <1>0, <1>1, <1>3
  <2>3. CASE j > p /\ i = p
    <3>1. r[i] = e /\ r[j] = q[j-1] /\ j-1 \in p..Len(q)
      BY <2>3, <1>0, <1>1
    <3>. QED
      BY <3>1, <1>2
  <2>4. CASE j > p /\ i < p
    <3>1. i < j-1 \/ i = j-1
      BY <2>4, <1>0, <1>1
    <3>2. r[i] = q[i] /\ r[j] = q[j-1] /\ i \in 1..Len(q) /\ j-1 \in 1..Len(q)
      BY <2>4, <1>0, <1>1
    <3>. QED
      BY <3>1, <3>2, <2>4, <1>0 DEF SortedByTime
  <2>5. CASE j > p /\ i > p
    <3>1. r[i] = q[i-1] /\ r[j] = q[j-1] /\ i-1 < j-1
      BY <2>5, <1>0, <1>1, <1>3
    <3>2. i-1 \in 1..Len(q) /\ j-1 \in 1..Len(q)
      BY <2>5, <1>0, <1>1
    <3>. QED
      BY <3>1, <3>2 DEF SortedByTime
  <2>6. \/ j < p
        \/ j = p
        \/ j > p /\ i = p
        \/ j > p /\ i < p
        \/ j > p /\ i > p
    BY <1>0, <1>1
  <2>. QED
    BY <2>1, <2>2, <2>3, <2>4, <2>5, <2>6
<1>. QED
  BY <1>3 DEF SortedByTime, r
\* A new handle keeps the handles of a list different.
LEMMA EqAddUnique ==
  ASSUME NEW S, NEW q, IsEventList(q, S), NEW e \in S,
         UniqueHandles(q), e.hdl \notin Handles(q)
  PROVE  UniqueHandles(EqAdd(q, e))
<1>0. Len(q) \in Nat
  BY LenProperties DEF IsEventList
<1>. DEFINE r == EqAdd(q, e)
<1>1. PICK p \in 1..Len(q)+1 :
        /\ Len(r) = Len(q) + 1
        /\ \A i \in 1..Len(q)+1 : r[i] = IF i < p THEN q[i]
                                         ELSE IF i = p THEN e ELSE q[i-1]
  BY EqAddProperties
<1>. HIDE DEF r
<1>. DEFINE from(i) == IF i < p THEN i ELSE i-1
<1>2. ASSUME NEW i \in 1..Len(r), i # p
      PROVE  from(i) \in 1..Len(q) /\ r[i] = q[from(i)]
  <2>1. CASE i < p
    BY <2>1, <1>0, <1>1
  <2>2. CASE i > p
    BY <2>2, <1>0, <1>1
  <2>. QED
    BY <2>1, <2>2, <1>0, <1>1, <1>2
<1>3. p \in 1..Len(r) /\ r[p] = e
  BY <1>0, <1>1
<1>4. ASSUME NEW i \in 1..Len(r), NEW j \in 1..Len(r), i # p, j # p,
             r[i].hdl = r[j].hdl
      PROVE  i = j
  <2>1. from(i) = from(j)
    <3>. HIDE DEF from
    <3>. QED
      BY <1>2, <1>4 DEF UniqueHandles
  <2>. QED
    BY <2>1, <1>0, <1>1, <1>4
<1>5. ASSUME NEW i \in 1..Len(r), i # p
      PROVE  r[i].hdl # e.hdl
  <2>. HIDE DEF from
  <2>. QED
    BY <1>2, <1>5 DEF Handles
<1>6. ASSUME NEW i \in 1..Len(r), NEW j \in 1..Len(r), r[i].hdl = r[j].hdl
      PROVE  i = j
  BY <1>3, <1>4, <1>5, <1>6
<1>. QED
  BY <1>6 DEF UniqueHandles, r

\* The handles of a list, by its events.
LEMMA HandlesOfEvents ==
  ASSUME NEW q
  PROVE  Handles(q) = {x.hdl : x \in Events(q)}
  BY DEF Handles, Events

-----------------------------------------------------------------------------
(* Popping and removing an event *)

\* Eq_Pop takes the head out and keeps the others in their order.
LEMMA EqPopProperties ==
  ASSUME NEW S, NEW q, IsEventList(q, S), q # <<>>
  PROVE  /\ IsEventList(EqPop(q), S)
         /\ Head(q) \in S
         /\ Events(q) = Events(EqPop(q)) \cup {Head(q)}
         /\ SortedByTime(q) => SortedByTime(EqPop(q))
         /\ UniqueHandles(q) => /\ UniqueHandles(EqPop(q))
                                /\ Head(q).hdl \notin Handles(EqPop(q))
<1>. DEFINE r == Tail(q)
<1>0. q \in Seq(S) /\ Len(q) \in Nat \ {0}
  BY EmptySeq DEF IsEventList
<1>1. /\ Head(q) \in S
      /\ r \in Seq(S)
      /\ Len(r) = Len(q) - 1
      /\ \A i \in 1..Len(r) : r[i] = q[i+1]
  BY <1>0, HeadTailProperties
<1>2. Head(q) = q[1]
  BY <1>0
<1>3. \A i \in 1..Len(q) : q[i].tv \in Int
  BY <1>0, ElementOfSeq DEF IsEventList
<1>. HIDE DEF r
<1>4. IsEventList(r, S)
  BY <1>1 DEF IsEventList
<1>5. Events(q) = Events(r) \cup {Head(q)}
  <2>1. ASSUME NEW i \in 1..Len(q)
        PROVE  q[i] = Head(q) \/ \E j \in 1..Len(r) : q[i] = r[j]
    <3>1. CASE i = 1
      BY <3>1, <1>2
    <3>2. CASE i # 1
      <4>1. i-1 \in 1..Len(r) /\ (i-1)+1 = i
        BY <3>2, <1>0, <1>1
      <4>2. r[i-1] = q[i]
        BY <4>1, <1>1
      <4>. QED
        BY <4>1, <4>2
    <3>. QED
      BY <3>1, <3>2
  <2>2. ASSUME NEW j \in 1..Len(r)
        PROVE  r[j] = q[j+1] /\ j+1 \in 1..Len(q)
    BY <1>0, <1>1
  <2>. QED
    BY <2>1, <2>2, <1>0, <1>2 DEF Events
<1>6. SortedByTime(q) => SortedByTime(r)
  BY <1>0, <1>1, <1>3 DEF SortedByTime
<1>7. ASSUME UniqueHandles(q)
      PROVE  UniqueHandles(r) /\ Head(q).hdl \notin Handles(r)
  <2>1. \A i \in 1..Len(r) : i+1 \in 1..Len(q) /\ i+1 # 1
    BY <1>0, <1>1
  <2>2. UniqueHandles(r)
    BY <1>0, <1>1, <1>7, <2>1 DEF UniqueHandles
  <2>3. Head(q).hdl \notin Handles(r)
    BY <1>0, <1>1, <1>2, <1>7, <2>1 DEF UniqueHandles, Handles
  <2>. QED
    BY <2>2, <2>3
<1>. QED
  BY <1>1, <1>4, <1>5, <1>6, <1>7 DEF r, EqPop

\* Eq_FindEvent finds the first event with the handle, if there is one.
LEMMA FirstWithHandleProperties ==
  ASSUME NEW S, NEW q \in Seq(S), NEW h, h \in Handles(q)
  PROVE  /\ FirstWithHandle(q, h) \in 1..Len(q)
         /\ q[FirstWithHandle(q, h)].hdl = h
<1>. DEFINE T == {i \in 1..Len(q) : q[i].hdl = h}
<1>0. Len(q) \in Nat
  BY LenProperties
<1>1. T \subseteq Nat /\ T # {}
  BY <1>0 DEF Handles
<1>2. PICK p \in T : \A y \in T : p <= y
  <2>. HIDE DEF T
  <2>. QED
    BY <1>1, LeastNatural
<1>3. ASSUME NEW j \in 1..p-1
      PROVE  q[j].hdl # h
  BY <1>0, <1>2
<1>4. \E i \in 1..Len(q) : /\ q[i].hdl = h
                           /\ \A j \in 1..i-1 : q[j].hdl # h
  BY <1>2, <1>3
<1>. QED
  BY <1>4 DEF FirstWithHandle

\* RemoveTimer keeps the others in their order, and where handles differ it
\* takes out exactly the event with that handle.
LEMMA EqRemoveProperties ==
  ASSUME NEW S, NEW q, IsEventList(q, S), NEW h
  PROVE  /\ IsEventList(EqRemove(q, h), S)
         /\ SortedByTime(q) => SortedByTime(EqRemove(q, h))
         /\ UniqueHandles(q) =>
              /\ UniqueHandles(EqRemove(q, h))
              /\ Events(EqRemove(q, h)) = {x \in Events(q) : x.hdl # h}
<1>0. /\ q \in Seq(S)
      /\ Len(q) \in Nat
      /\ \A i \in 1..Len(q) : q[i].tv \in Int
  BY LenProperties, ElementOfSeq DEF IsEventList
<1>1. CASE h \notin Handles(q)
  <2>1. EqRemove(q, h) = q
    BY <1>1 DEF EqRemove, Handles
  <2>2. Events(q) = {x \in Events(q) : x.hdl # h}
    BY <1>1 DEF Handles, Events
  <2>. QED
    BY <2>1, <2>2
<1>2. CASE h \in Handles(q)
  <2>. DEFINE p == FirstWithHandle(q, h)
              r == RemoveAt(q, p)
  <2>1. p \in 1..Len(q) /\ q[p].hdl = h
    BY <1>0, <1>2, FirstWithHandleProperties
  <2>2. EqRemove(q, h) = r
    BY <1>2 DEF EqRemove, Handles
  <2>. HIDE DEF p
  <2>3. /\ r \in Seq(S)
        /\ Len(r) = Len(q) - 1
        /\ \A i \in 1..Len(q)-1 : r[i] = IF i < p THEN q[i] ELSE q[i+1]
    BY <1>0, <2>1, RemoveAtProperties
  <2>. HIDE DEF r
  <2>. DEFINE from(i) == IF i < p THEN i ELSE i+1
  <2>4. ASSUME NEW i \in 1..Len(r)
        PROVE  from(i) \in 1..Len(q) /\ from(i) # p /\ r[i] = q[from(i)]
    BY <1>0, <2>1, <2>3
  <2>5. \A i, j \in 1..Len(r) : i < j => from(i) < from(j)
    BY <1>0, <2>1, <2>3
  <2>6. \A i, j \in 1..Len(r) : from(i) = from(j) => i = j
    BY <1>0, <2>1, <2>3
  <2>7. ASSUME NEW k \in 1..Len(q), k # p
        PROVE  \E i \in 1..Len(r) : r[i] = q[k]
    <3>1. CASE k < p
      <4>1. k \in 1..Len(r) /\ r[k] = q[k]
        BY <3>1, <1>0, <2>1, <2>3
      <4>. QED
        BY <4>1
    <3>2. CASE k > p
      <4>1. k-1 \in 1..Len(r) /\ ~(k-1 < p) /\ (k-1)+1 = k
        BY <3>2, <1>0, <2>1, <2>3
      <4>2. r[k-1] = q[k]
        BY <4>1, <2>3, <1>0
      <4>. QED
        BY <4>1, <4>2
    <3>. QED
      BY <3>1, <3>2, <2>1, <2>7
  <2>. HIDE DEF from
  <2>8. IsEventList(r, S)
    BY <2>3 DEF IsEventList
  <2>9. SortedByTime(q) => SortedByTime(r)
    BY <2>4, <2>5 DEF SortedByTime
  <2>10. ASSUME UniqueHandles(q)
         PROVE  UniqueHandles(r) /\ Events(r) = {x \in Events(q) : x.hdl # h}
    <3>1. UniqueHandles(r)
      BY <2>4, <2>6, <2>10 DEF UniqueHandles
    <3>2. ASSUME NEW i \in 1..Len(r)
          PROVE  r[i] \in Events(q) /\ r[i].hdl # h
      BY <2>1, <2>4, <2>10 DEF UniqueHandles, Events
    <3>3. ASSUME NEW k \in 1..Len(q), q[k].hdl # h
          PROVE  q[k] \in Events(r)
      BY <2>1, <2>7, <3>3 DEF Events
    <3>. QED
      BY <3>1, <3>2, <3>3 DEF Events
  <2>. QED
    BY <2>2, <2>8, <2>9, <2>10
<1>. QED
  BY <1>1, <1>2
=============================================================================
