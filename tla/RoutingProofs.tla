--------------------------- MODULE RoutingProofs ---------------------------
(***************************************************************************)
(* Theorems about the rule-driven routing of stages 6 to 10 and the plain  *)
(* forwarding of stages 2 and 3, for any scenarios: any flows, buffer and  *)
(* receipt limits, and every loss, repetition and delay.                   *)
(***************************************************************************)
EXTENDS Routing, SequenceProofs

-----------------------------------------------------------------------------
(* Flows, entries and plans *)

LEMMA ReverseTwice ==
  ASSUME NEW e \in Entry
  PROVE  /\ ReverseEntry(e) \in Entry
         /\ ReverseEntry(ReverseEntry(e)) = e
         /\ IsIcmp(ReverseEntry(e)) <=> IsIcmp(e)
         /\ IsTcp(ReverseEntry(e)) <=> IsTcp(e)
  BY DEF Entry, ReverseEntry, IsIcmp, IsTcp

LEMMA EntryTypes ==
  /\ Flows \subseteq Entry
  /\ Entries \subseteq Entry
  /\ Flows \subseteq Entries
  /\ Entries \subseteq LookedUp
  /\ \A e \in Entries : ReverseEntry(e) \in Entries
<1>1. Flows \subseteq Entry
  BY RoutingAssumption DEF Flows
<1>2. Entries \subseteq Entry
  BY <1>1, ReverseTwice DEF Entries
<1>3. \A e \in Entries : ReverseEntry(e) \in Entries
  BY <1>1, ReverseTwice DEF Entries
<1>. QED
  BY <1>1, <1>2, <1>3 DEF Entries, LookedUp

LEMMA ScenarioTypes ==
  ASSUME scenario \in Scenarios
  PROVE  /\ scenario.flows \subseteq Flows
         /\ stage \in {2, 3, 6, 7, 9, 10}
         /\ DropAfter \in Nat \ {0}
         /\ scenario.rcvBuf \in Nat
         /\ scenario.maxSeq \in Nat \ {0}
         /\ AuthSeqs \subseteq Nat
         /\ AnyIp \in Nat
         /\ AnyPort \in Nat \ {0, 1, 2, 3, 4}
<1>1. \A c \in Scenarios : c.flows \subseteq Flows
  BY DEF Flows
<1>2. AnyPort \notin 0..4 /\ AnyPort \in Nat
  BY RoutingAssumption DEF Primary
<1>. QED
  BY RoutingAssumption, <1>1, <1>2 DEF stage, DropAfter

\* A web packet may leave through r, in stage 9 through R1 only after somebody
\* has authenticated.
MayLeave(r, e) ==
  \/ IsIcmp(e) /\ r = R1
  \/ /\ IsWeb(e) /\ r \in Exits(e)
     /\ stage = 9 /\ r = R1 => clients # {}

\* A packet that passes through two routers.
Chained(f) == stage = 7 /\ IsWeb(f) /\ f.dstPort # 80

\* Request q is one that the stage may make for flow f.
Asks(f, q) ==
  /\ stage > 3
  /\ IsIcmp(f) \/ IsWeb(f)
  /\ q.to \in Secondaries
  /\ \/ q.rule = Rule(f, Reply, AnyPort) /\ IsIcmp(f)
     \/ q.rule = Rule(f, Forward, Raw) /\ MayLeave(q.to, f)
     \/ q.rule = Rule(ReverseEntry(f), Forward, Primary)
     \/ /\ Chained(f)
        /\ \/ q.to = R1 /\ q.rule = Rule(f, Forward, R2)
           \/ q.to = R2 /\ q.rule = Rule(ReverseEntry(f), Forward, R1)

Asked(q) == \E f \in scenario.flows : Asks(f, q)

\* The requests made for a new flow f that is sent to r.
Chooses(f, r, plan) ==
  /\ stage > 3
  /\ \/ IsIcmp(f) /\ r \in IcmpTargets /\ plan \in IcmpPlans(f, r)
     \/ IsWeb(f) /\ stage = 6 /\ r = Web6(f) /\ plan = Leave(f, r)
     \/ IsWeb(f) /\ stage = 7 /\ r = R1 /\ plan = Plan7(f)
     \/ IsWeb(f) /\ stage = 9 /\ r = Web9(f, isAuthenticated) /\ plan = Leave(f, r)
     \/ IsWeb(f) /\ stage = 10 /\ r = Web10(f) /\ plan = Leave(f, r)

LEMMA PairElements ==
  ASSUME NEW r, NEW f, NEW p, NEW back
  PROVE  /\ Len(Pair(r, f, p, back)) = 2
         /\ Pair(r, f, p, back)[1] = Request(r, Rule(f, Forward, p))
         /\ Pair(r, f, p, back)[2] = Request(r, Rule(ReverseEntry(f), Forward, back))
  BY DEF Pair

LEMMA ChainElements ==
  ASSUME NEW f, NEW S, Pair(R1, f, R2, Primary) \in Seq(S), Pair(R2, f, Raw, R1) \in Seq(S)
  PROVE  /\ Chain(f) \in Seq(S)
         /\ Len(Chain(f)) = 4
         /\ Chain(f)[1] = Request(R1, Rule(f, Forward, R2))
         /\ Chain(f)[2] = Request(R1, Rule(ReverseEntry(f), Forward, Primary))
         /\ Chain(f)[3] = Request(R2, Rule(f, Forward, Raw))
         /\ Chain(f)[4] = Request(R2, Rule(ReverseEntry(f), Forward, R1))
<1>. DEFINE a == Pair(R1, f, R2, Primary)
            b == Pair(R2, f, Raw, R1)
<1>1. Len(a) = 2 /\ Len(b) = 2
  BY PairElements
<1>2. /\ a[1] = Request(R1, Rule(f, Forward, R2))
      /\ a[2] = Request(R1, Rule(ReverseEntry(f), Forward, Primary))
      /\ b[1] = Request(R2, Rule(f, Forward, Raw))
      /\ b[2] = Request(R2, Rule(ReverseEntry(f), Forward, R1))
  BY PairElements
<1>3. a \in Seq(S) /\ b \in Seq(S)
  OBVIOUS
<1>. HIDE DEF a, b
<1>4. /\ a \o b \in Seq(S)
      /\ Len(a \o b) = 4
      /\ (a \o b)[1] = a[1] /\ (a \o b)[2] = a[2]
      /\ (a \o b)[3] = b[1] /\ (a \o b)[4] = b[2]
  <2>1. /\ a \o b \in Seq(S)
        /\ Len(a \o b) = Len(a) + Len(b)
        /\ \A i \in 1..Len(a)+Len(b) : (a \o b)[i] = IF i <= Len(a) THEN a[i]
                                                    ELSE b[i-Len(a)]
    BY <1>3, ConcatProperties
  <2>. QED
    BY <1>1, <2>1
<1>. QED
  BY <1>2, <1>4 DEF Chain, a, b

LEMMA AskedType ==
  ASSUME scenario \in Scenarios, NEW q, Asked(q)
  PROVE  q.to \in Secondaries /\ q.rule \in Rules
<1>1. PICK f \in scenario.flows : Asks(f, q)
  BY DEF Asked
<1>2. f \in Entries /\ ReverseEntry(f) \in Entries
  BY EntryTypes, ScenarioTypes
<1>. QED
  BY <1>1, <1>2 DEF Asks, Rule, Rules, Routers

\* Every request of a plan is one the stage may make, and has the type of one.
LEMMA PlanAsks ==
  ASSUME scenario \in Scenarios, isAuthenticated => clients # {},
         NEW f \in scenario.flows, NEW r, NEW plan, Chooses(f, r, plan)
  PROVE  /\ r \in Secondaries
         /\ plan \in Seq(Requests)
         /\ Len(plan) \in {1, 2, 4}
         /\ \A i \in 1..Len(plan) : /\ Asks(f, plan[i])
                                    /\ plan[i] = Request(plan[i].to, plan[i].rule)
<1>. DEFINE Good(q) == Asks(f, q) /\ q \in Requests /\ q = Request(q.to, q.rule)
<1>1. f \in Entries /\ ReverseEntry(f) \in Entries
  BY EntryTypes, ScenarioTypes
<1>2. ASSUME NEW t \in Secondaries, NEW e \in Entries, NEW a \in {Forward, Reply},
             NEW p \in {Raw, AnyPort} \cup Routers
      PROVE  /\ Request(t, Rule(e, a, p)) \in Requests
             /\ Request(t, Rule(e, a, p)).to = t
             /\ Request(t, Rule(e, a, p)).rule = Rule(e, a, p)
  BY DEF Request, Rule, Requests, Rules
<1>3. stage > 3 /\ (IsIcmp(f) \/ IsWeb(f))
  BY DEF Chooses
<1>4. ASSUME NEW t \in Secondaries, MayLeave(t, f)
      PROVE  Good(Request(t, Rule(f, Forward, Raw)))
  BY <1>1, <1>2, <1>3, <1>4 DEF Asks
<1>5. ASSUME NEW t \in Secondaries
      PROVE  Good(Request(t, Rule(ReverseEntry(f), Forward, Primary)))
  BY <1>1, <1>2, <1>3 DEF Asks, Routers
<1>6. ASSUME NEW t \in Secondaries, IsIcmp(f)
      PROVE  Good(Request(t, Rule(f, Reply, AnyPort)))
  BY <1>1, <1>2, <1>3, <1>6 DEF Asks
<1>7. ASSUME Chained(f)
      PROVE  /\ Good(Request(R1, Rule(f, Forward, R2)))
             /\ Good(Request(R2, Rule(ReverseEntry(f), Forward, R1)))
  BY <1>1, <1>2, <1>3, <1>7 DEF Asks, Routers, Secondaries
<1>. HIDE DEF Good
<1>8. ASSUME NEW a, NEW b, Good(a), Good(b)
      PROVE  /\ <<a, b>> \in Seq(Requests) /\ Len(<<a, b>>) = 2
             /\ \A i \in 1..2 : Good(<<a, b>>[i])
  BY <1>8 DEF Good
<1>9. ASSUME NEW t \in Secondaries, MayLeave(t, f), plan = Pair(t, f, Raw, Primary)
      PROVE  /\ plan \in Seq(Requests) /\ Len(plan) = 2
             /\ \A i \in 1..Len(plan) : Good(plan[i])
  BY <1>4, <1>5, <1>8, <1>9 DEF Pair
<1>10. CASE IsIcmp(f) /\ r \in IcmpTargets /\ plan \in IcmpPlans(f, r)
  <2>1. r \in Secondaries
    BY <1>10 DEF IcmpTargets, Secondaries
  <2>2. CASE plan = <<Request(r, Rule(f, Reply, AnyPort))>>
    <3>1. Len(plan) = 1 /\ Good(plan[1])
      BY <1>6, <1>10, <2>1, <2>2
    <3>. QED
      BY <2>1, <2>2, <3>1 DEF Good
  <2>3. CASE r = R1 /\ plan = Pair(R1, f, Raw, Primary)
    BY <1>9, <1>10, <2>1, <2>3 DEF MayLeave, Good
  <2>. QED
    BY <1>10, <2>2, <2>3 DEF IcmpPlans
<1>11. ASSUME NEW t \in Secondaries, IsWeb(f), t \in Exits(f),
              stage = 9 /\ t = R1 => clients # {}, r = t, plan = Leave(f, t)
       PROVE  /\ plan \in Seq(Requests) /\ Len(plan) = 2
              /\ \A i \in 1..Len(plan) : Good(plan[i])
  BY <1>9, <1>11 DEF MayLeave, Leave
<1>12. CASE IsWeb(f) /\ stage = 7 /\ r = R1 /\ plan = Plan7(f)
  <2>1. r \in Secondaries
    BY <1>12 DEF Secondaries
  <2>2. CASE f.dstPort = 80
    <3>1. plan = Leave(f, R1) /\ R1 \in Exits(f)
      BY <1>12, <2>2 DEF Plan7, Leave, Exits
    <3>. QED
      BY <1>11, <1>12, <2>1, <3>1 DEF Good
  <2>3. CASE f.dstPort # 80
    <3>1. R1 \in Secondaries /\ R2 \in Secondaries
      BY DEF Secondaries
    <3>2. MayLeave(R2, f)
      BY <1>12, <2>3 DEF MayLeave, Exits, IsWeb
    <3>3. /\ Good(Request(R1, Rule(f, Forward, R2)))
          /\ Good(Request(R1, Rule(ReverseEntry(f), Forward, Primary)))
          /\ Good(Request(R2, Rule(f, Forward, Raw)))
          /\ Good(Request(R2, Rule(ReverseEntry(f), Forward, R1)))
      BY <1>4, <1>5, <1>7, <1>12, <2>3, <3>1, <3>2 DEF Chained
    <3>4. /\ Pair(R1, f, R2, Primary) \in Seq(Requests)
          /\ Pair(R2, f, Raw, R1) \in Seq(Requests)
      BY <1>8, <3>3 DEF Pair
    <3>5. /\ plan \in Seq(Requests) /\ Len(plan) = 4
          /\ Good(plan[1]) /\ Good(plan[2]) /\ Good(plan[3]) /\ Good(plan[4])
      BY <1>12, <2>3, <3>3, <3>4, ChainElements DEF Plan7
    <3>. QED
      BY <2>1, <3>5 DEF Good
  <2>. QED
    BY <2>2, <2>3
<1>13. CASE IsWeb(f) /\ stage = 6 /\ r = Web6(f) /\ plan = Leave(f, r)
  <2>1. r \in Exits(f) /\ r \in Secondaries
    BY <1>13 DEF Web6, Exits, IsWeb, Secondaries
  <2>. QED
    BY <1>11, <1>13, <2>1 DEF Good
<1>14. CASE IsWeb(f) /\ stage = 9 /\ r = Web9(f, isAuthenticated) /\ plan = Leave(f, r)
  <2>1. /\ r \in Exits(f) /\ r \in Secondaries
        /\ r = R1 => clients # {}
    BY <1>14 DEF Web9, Exits, IsWeb, Secondaries, R1, R2, R3
  <2>. QED
    BY <1>11, <1>14, <2>1 DEF Good
<1>15. CASE IsWeb(f) /\ stage = 10 /\ r = Web10(f) /\ plan = Leave(f, r)
  <2>1. r \in Exits(f) /\ r \in Secondaries
    BY <1>15 DEF Web10, Exits, IsWeb, Secondaries
  <2>. QED
    BY <1>11, <1>15, <2>1 DEF Good
<1>. QED
  BY <1>10, <1>12, <1>13, <1>14, <1>15 DEF Chooses

-----------------------------------------------------------------------------
(* Sequences of datagrams: what is in them *)

\* q is a sequence, whatever its elements.
IsList(q) == q \in Seq(ToSet(q))

LEMMA ListElements ==
  ASSUME NEW S, NEW q \in Seq(S)
  PROVE  /\ IsList(q)
         /\ \A i \in DOMAIN q : q[i] \in ToSet(q)
         /\ \A m \in ToSet(q) : \E i \in 1..Len(q) : m = q[i]
<1>1. DOMAIN q = 1..Len(q) /\ ToSet(q) = {q[i] : i \in 1..Len(q)}
  BY ToSetByIndex
<1>. QED
  BY <1>1 DEF IsList

LEMMA EmptyList == IsList(<<>>) /\ ToSet(<<>>) = {} /\ Len(<<>>) = 0
  BY DEF IsList, ToSet

LEMMA AppendList ==
  ASSUME NEW q, IsList(q), NEW m
  PROVE  /\ IsList(Append(q, m))
         /\ ToSet(Append(q, m)) = ToSet(q) \cup {m}
         /\ Len(Append(q, m)) = Len(q) + 1
<1>. DEFINE T == ToSet(q) \cup {m}
<1>1. q \in Seq(T) /\ m \in T
  BY DEF IsList
<1>. HIDE DEF T
<1>2. Append(q, m) \in Seq(T) /\ Len(Append(q, m)) = Len(q) + 1
  BY <1>1, AppendProperties
<1>3. ToSet(Append(q, m)) = ToSet(q) \cup {m}
  BY <1>1, ToSetAppend
<1>4. IsList(Append(q, m))
  BY <1>2, ListElements
<1>. QED
  BY <1>2, <1>3, <1>4

LEMMA TailList ==
  ASSUME NEW q, IsList(q), q # <<>>
  PROVE  /\ IsList(Tail(q))
         /\ ToSet(q) = ToSet(Tail(q)) \cup {Head(q)}
         /\ Len(Tail(q)) <= Len(q)
<1>1. /\ ToSet(q) = ToSet(Tail(q)) \cup {Head(q)}
      /\ Tail(q) \in Seq(ToSet(q))
  BY ToSetTail DEF IsList
<1>2. Len(Tail(q)) <= Len(q)
  BY HeadTailProperties, EmptySeq, LenProperties DEF IsList
<1>. QED
  BY <1>1, <1>2, ListElements

LEMMA FrontList ==
  ASSUME NEW q, IsList(q), q # <<>>
  PROVE  /\ IsList(Front(q))
         /\ ToSet(Front(q)) \subseteq ToSet(q)
         /\ Len(Front(q)) <= Len(q)
<1>1. Front(q) \in Seq(ToSet(q)) /\ ToSet(Front(q)) \subseteq ToSet(q)
  BY FrontType, ToSetFront DEF IsList
<1>2. Len(Front(q)) <= Len(q)
  BY FrontType, EmptySeq, LenProperties DEF IsList
<1>. QED
  BY <1>1, <1>2, ListElements

LEMMA PairList ==
  ASSUME NEW a, NEW b
  PROVE  IsList(<<a, b>>) /\ ToSet(<<a, b>>) = {a, b}
<1>1. <<a, b>> \in Seq({a, b})
  OBVIOUS
<1>2. ToSet(<<a, b>>) = {a, b}
  <2>1. DOMAIN <<a, b>> = {1, 2}
    OBVIOUS
  <2>2. ToSet(<<a, b>>) = {<<a, b>>[i] : i \in {1, 2}}
    BY <2>1 DEF ToSet
  <2>. QED
    BY <2>2
<1>. QED
  BY <1>1, <1>2, ListElements

LEMMA SingleList ==
  ASSUME NEW a
  PROVE  IsList(<<a>>) /\ ToSet(<<a>>) = {a}
<1>1. <<a>> \in Seq({a})
  OBVIOUS
<1>2. ToSet(<<a>>) = {a}
  <2>1. DOMAIN <<a>> = {1}
    OBVIOUS
  <2>2. ToSet(<<a>>) = {<<a>>[i] : i \in {1}}
    BY <2>1 DEF ToSet
  <2>. QED
    BY <2>2
<1>. QED
  BY <1>1, <1>2, ListElements

\* The receive buffers.
IsBox(box) ==
  /\ DOMAIN box = Routers
  /\ \A r \in Routers : IsList(box[r]) /\ Len(box[r]) <= scenario.rcvBuf

LEMMA SendInBox ==
  ASSUME scenario \in Scenarios, NEW box, IsBox(box), scenario' = scenario,
         NEW r \in Routers, NEW m, SendIn(box, r, m)
  PROVE  /\ IsBox(inbox')
         /\ \A t \in Routers : \A d \in ToSet(inbox'[t]) :
              d \in ToSet(box[t]) \/ (t = r /\ d = m)
<1>1. CASE Undeliverable(box, r)
  BY <1>1 DEF SendIn, IsBox
<1>2. CASE ~Undeliverable(box, r)
  <2>1. inbox' = [box EXCEPT ![r] = Append(@, m)]
    BY <1>2 DEF SendIn
  <2>2. \A t \in Routers : inbox'[t] = IF t = r THEN Append(box[r], m) ELSE box[t]
    BY <2>1 DEF IsBox
  <2>3. /\ IsList(Append(box[r], m))
        /\ ToSet(Append(box[r], m)) = ToSet(box[r]) \cup {m}
        /\ Len(Append(box[r], m)) = Len(box[r]) + 1
    BY AppendList DEF IsBox
  <2>4. Len(box[r]) + 1 <= scenario.rcvBuf
    <3>1. Len(box[r]) \in Nat /\ scenario.rcvBuf \in Nat /\ ~(Len(box[r]) >= scenario.rcvBuf)
      BY <1>2, ScenarioTypes, LenProperties DEF Undeliverable, IsBox, IsList
    <3>. QED
      BY <3>1
  <2>5. DOMAIN inbox' = Routers
    BY <2>1 DEF IsBox
  <2>6. IsBox(inbox')
    BY <2>2, <2>3, <2>4, <2>5 DEF IsBox
  <2>. QED
    BY <2>2, <2>3, <2>6
<1>. QED
  BY <1>1, <1>2

LEMMA ReceivedBox ==
  ASSUME scenario \in Scenarios, IsBox(inbox), NEW r \in Routers, inbox[r] # <<>>
  PROVE  /\ IsBox(Received(r))
         /\ \A t \in Routers : ToSet(Received(r)[t]) \subseteq ToSet(inbox[t])
         /\ Head(inbox[r]) \in ToSet(inbox[r])
<1>1. /\ IsList(Tail(inbox[r]))
      /\ ToSet(inbox[r]) = ToSet(Tail(inbox[r])) \cup {Head(inbox[r])}
      /\ Len(Tail(inbox[r])) <= Len(inbox[r])
  BY TailList DEF IsBox
<1>2. Len(inbox[r]) \in Nat /\ Len(Tail(inbox[r])) \in Nat /\ scenario.rcvBuf \in Nat
  BY <1>1, ScenarioTypes, LenProperties DEF IsBox, IsList
<1>3. Len(Tail(inbox[r])) <= scenario.rcvBuf
  BY <1>1, <1>2 DEF IsBox
<1>. QED
  BY <1>1, <1>3 DEF Received, IsBox

-----------------------------------------------------------------------------
(* The inductive invariant: every request that is to be sent, under way,     *)
(* awaited or installed is one that the stage makes for one of its flows     *)

\* The number of message m to r is its request's, as long as that is awaited,
\* or one the portal chose.
Owned(r, m) ==
  \/ /\ m.seq \in Numbers
     /\ m.seq \in DOMAIN unAck => unAck[m.seq] = Request(r, m.rule)
  \/ isAuthenticated /\ r = R1 /\ m.seq \in AuthSeqs \cup {0}

Issued(r, m) == Asked(Request(r, m.rule)) /\ Owned(r, m)

\* An entry the portal may name.
AtPortal(f) ==
  stage = 9 /\ f \in scenario.flows /\ IsWeb(f) /\ f.dstPort = 80

\* Datagrams that router r may find in its receive buffer.
FitsControl(r, m) ==
  /\ r \in Secondaries
  /\ m = Control(m.seq, m.rule)
  /\ Issued(r, m)

FitsAck(r, m) ==
  /\ r = Primary
  /\ m = Ack(m.seq, m.rule, m.from)
  /\ m.from \in Secondaries
  /\ Issued(m.from, m)

FitsAuth(r, m) ==
  /\ r = Primary
  /\ m = Auth(m.seq, m.entry)
  /\ m.seq \in AuthSeqs
  /\ AtPortal(m.entry)

FitsData(r, m) ==
  /\ m = Data(m.entry, m.from)
  /\ m.entry \in LookedUp
  /\ m.from \in Routers
  /\ stage <= 3 /\ r # Primary =>
       /\ r = R1 /\ m.from = Primary
       /\ m.entry \in scenario.flows /\ IsIcmp(m.entry)

Fits(r, m) == FitsControl(r, m) \/ FitsAck(r, m) \/ FitsAuth(r, m) \/ FitsData(r, m)

\* Datagrams that the primary's handler may have decided to send.
ToSend(d) ==
  /\ d = [to |-> d.to, msg |-> d.msg]
  /\ d.to \in Secondaries
  /\ \/ d.msg = Control(d.msg.seq, d.msg.rule) /\ Issued(d.to, d.msg)
     \/ \E f \in scenario.flows : stage > 3 /\ d.msg = Data(f, Primary)

BaseOK ==
  /\ scenario \in Scenarios
  /\ lost \in BOOLEAN
  /\ up \in [Routers -> BOOLEAN]
  /\ seqno \in 1..scenario.maxSeq
  /\ table \subseteq Entries
  /\ clients \subseteq 0..AnyIp
  /\ isAuthenticated \in BOOLEAN
  /\ isAuthenticated => clients # {}
  /\ authMsg = <<>> \/ \E f \in scenario.flows : authMsg = <<f>>

TodoOK == IsList(todo) /\ \A d \in ToSet(todo) : ToSend(d)

UnAckOK ==
  \A s \in DOMAIN unAck :
    /\ s \in Numbers
    /\ Asked(unAck[s])
    /\ unAck[s] = Request(unAck[s].to, unAck[s].rule)

BoxOK == IsBox(inbox) /\ \A r \in Routers : \A m \in ToSet(inbox[r]) : Fits(r, m)

RulesOK ==
  /\ DOMAIN rules = Secondaries
  /\ \A r \in Secondaries : \A e \in DOMAIN rules[r] : Asked(RequestOf(r, e))

ReceiptsOK ==
  /\ DOMAIN receipts = Secondaries
  /\ \A r \in Secondaries : \A k \in DOMAIN receipts[r] :
       /\ k \in Rules /\ receipts[r][k] \in 1..DropAfter
       /\ Asked(Request(r, k))

OutOK ==
  /\ DOMAIN oriSrcAddr = Secondaries
  /\ DOMAIN out = Secondaries
  /\ \A r \in Secondaries :
       /\ oriSrcAddr[r] \in 0..AnyIp
       /\ \A e \in out[r] :
            /\ e \in scenario.flows /\ MayLeave(r, e)
            /\ stage > 3 => e \in DOMAIN rules[r]
            /\ stage <= 3 => /\ IsIcmp(e)
                             /\ \E g \in scenario.flows :
                                  IsIcmp(g) /\ oriSrcAddr[r] = g.srcIp

IInv ==
  BaseOK /\ TodoOK /\ UnAckOK /\ BoxOK /\ RulesOK /\ ReceiptsOK /\ OutOK

LEMMA InitIInv == Init => IInv
<1>. SUFFICES ASSUME Init PROVE IInv
  OBVIOUS
<1>1. BaseOK
  <2>1. \A S, T : [r \in T |-> r \in S] \in [T -> BOOLEAN]
    OBVIOUS
  <2>2. up \in [Routers -> BOOLEAN]
    BY <2>1, Zenon DEF Init
  <2>3. seqno \in 1..scenario.maxSeq
    BY ScenarioTypes DEF Init
  <2>. QED
    BY <2>2, <2>3 DEF Init, BaseOK
<1>2. TodoOK /\ UnAckOK
  BY EmptyList DEF Init, TodoOK, UnAckOK
<1>3. BoxOK
  <2>1. scenario.rcvBuf \in Nat
    BY ScenarioTypes DEF Init
  <2>. QED
    BY <2>1, EmptyList DEF Init, BoxOK, IsBox
<1>4. RulesOK /\ ReceiptsOK
  BY DEF Init, RulesOK, ReceiptsOK
<1>5. OutOK
  <2>1. AnyIp \in 0..AnyIp
    BY RoutingAssumption
  <2>. QED
    BY <2>1 DEF Init, OutOK
<1>. QED
  BY <1>1, <1>2, <1>3, <1>4, <1>5 DEF IInv

\* A packet from the tunnel: in stages 2 and 3 it is passed on, otherwise it is
\* of a flow known, of a new one with its requests, or of no kind that is routed.
TunnelKinds(f) ==
  \/ TunnelPlain(f)
  \/ TunnelOther(f)
  \/ \E r, plan :
       /\ Ready /\ Chooses(f, r, plan)
       /\ UNCHANGED rest
       /\ \/ Known(f, r) /\ authMsg' = authMsg
          \/ /\ New(f, r, plan)
             /\ authMsg' = authMsg \/ authMsg' = <<f>>

LEMMA TunnelIsOfAKind ==
  ASSUME NEW f, Tunnel(f)
  PROVE  TunnelKinds(f)
<1>1. CASE TunnelPlain(f) \/ TunnelOther(f)
  BY <1>1 DEF TunnelKinds
<1>2. CASE TunnelIcmp(f)
  BY <1>2 DEF TunnelIcmp, TunnelKinds, Handle, Chooses
<1>3. CASE Tunnel6(f)
  BY <1>3 DEF Tunnel6, TunnelKinds, Handle, Chooses
<1>4. CASE Tunnel7(f)
  BY <1>4 DEF Tunnel7, TunnelKinds, Handle, Chooses
<1>5. CASE Tunnel9(f)
  <2>1. /\ Ready /\ UNCHANGED rest
        /\ Chooses(f, Web9(f, isAuthenticated), Leave(f, Web9(f, isAuthenticated)))
    BY <1>5 DEF Tunnel9, Chooses
  <2>. QED
    BY <1>5, <2>1 DEF Tunnel9, TunnelKinds
<1>6. CASE Tunnel10(f)
  BY <1>6 DEF Tunnel10, TunnelKinds, Handle, Chooses
<1>. QED
  BY <1>1, <1>2, <1>3, <1>4, <1>5, <1>6 DEF Tunnel

\* The timers a new flow starts have the next numbers; the others run on.
LEMMA TimersOfPlan ==
  ASSUME BaseOK, UnAckOK, NEW plan \in Seq(Requests)
  PROVE  /\ DOMAIN Timers(plan) = DOMAIN unAck \cup (seqno..seqno + Len(plan) - 1)
         /\ \A s \in Numbers : s \in DOMAIN Timers(plan) =>
              s \in DOMAIN unAck /\ Timers(plan)[s] = unAck[s]
         /\ \A i \in 1..Len(plan) :
              /\ seqno + i - 1 \in DOMAIN Timers(plan)
              /\ Timers(plan)[seqno + i - 1] = plan[i]
         /\ \A s \in DOMAIN Timers(plan) :
              \/ s \in DOMAIN unAck /\ Timers(plan)[s] = unAck[s]
              \/ \E i \in 1..Len(plan) : s = seqno + i - 1 /\ Timers(plan)[s] = plan[i]
<1>1. seqno \in Nat \ {0} /\ Len(plan) \in Nat
  BY ScenarioTypes, LenProperties DEF BaseOK
<1>2. \A s \in DOMAIN unAck : s \in 1..seqno-1
  BY DEF UnAckOK, Numbers
<1>3. DOMAIN Timers(plan) = DOMAIN unAck \cup (seqno..seqno + Len(plan) - 1)
  BY DEF Timers
<1>4. \A s \in DOMAIN Timers(plan) :
        Timers(plan)[s] = IF s >= seqno THEN plan[s - seqno + 1] ELSE unAck[s]
  BY DEF Timers
<1>5. ASSUME NEW s \in Numbers, s \in DOMAIN Timers(plan)
      PROVE  s \in DOMAIN unAck /\ Timers(plan)[s] = unAck[s]
  <2>1. s \in 1..seqno-1 /\ ~(s >= seqno) /\ s \notin seqno..seqno + Len(plan) - 1
    BY <1>1 DEF Numbers
  <2>. QED
    BY <1>3, <1>4, <1>5, <2>1
<1>6. ASSUME NEW i \in 1..Len(plan)
      PROVE  /\ seqno + i - 1 \in DOMAIN Timers(plan)
             /\ Timers(plan)[seqno + i - 1] = plan[i]
  <2>1. /\ seqno + i - 1 \in seqno..seqno + Len(plan) - 1
        /\ seqno + i - 1 >= seqno /\ (seqno + i - 1) - seqno + 1 = i
    BY <1>1
  <2>. QED
    BY <1>3, <1>4, <2>1
<1>7. ASSUME NEW s \in DOMAIN Timers(plan)
      PROVE  \/ s \in DOMAIN unAck /\ Timers(plan)[s] = unAck[s]
             \/ \E i \in 1..Len(plan) : s = seqno + i - 1 /\ Timers(plan)[s] = plan[i]
  <2>1. CASE s \in DOMAIN unAck
    BY <1>2, <1>5, <2>1 DEF Numbers
  <2>2. CASE s \in seqno..seqno + Len(plan) - 1
    <3>1. s - seqno + 1 \in 1..Len(plan) /\ s = seqno + (s - seqno + 1) - 1
      BY <1>1, <2>2
    <3>. QED
      BY <1>6, <3>1
  <2>. QED
    BY <1>3, <2>1, <2>2
<1>. QED
  BY <1>3, <1>5, <1>6, <1>7

-----------------------------------------------------------------------------
(* What every step keeps *)

\* The steps that neither make requests, nor stop timers, nor authenticate.
Uncounted == UNCHANGED <<scenario, table, seqno, unAck, portalVars>>

LEMMA UncountedSteps ==
  ASSUME [Next]_vars
  PROVE  \/ Uncounted
         \/ \E f \in scenario.flows : \E r, plan :
              /\ Chooses(f, r, plan) /\ New(f, r, plan) /\ UNCHANGED rest
              /\ authMsg' = authMsg \/ authMsg' = <<f>>
         \/ SocketAck
         \/ SocketAuth
<1>1. CASE UNCHANGED vars
  BY <1>1 DEF vars, priVars, portalVars, Uncounted
<1>2. ASSUME NEW f \in scenario.flows, Tunnel(f)
      PROVE  \/ Uncounted
             \/ \E r, plan : /\ Chooses(f, r, plan) /\ New(f, r, plan) /\ UNCHANGED rest
                             /\ authMsg' = authMsg \/ authMsg' = <<f>>
  BY <1>2, TunnelIsOfAKind DEF TunnelKinds, TunnelPlain, TunnelOther, Known, rest,
     priVars, portalVars, Uncounted
<1>3. CASE PriStep
  BY <1>3 DEF PriStep, SendNext, Retransmit, SocketData, PriIdle, priVars,
     portalVars, Uncounted
<1>4. ASSUME NEW r \in Secondaries, SecStep(r)
      PROVE  Uncounted
  BY <1>4 DEF SecStep, SecInstall, SecDrop, SecData, SecNoRule, RawIcmp, RawTcp,
     RawAnswer, SecIdle, SecPlain, RawPlain, priVars, portalVars, Uncounted
<1>5. CASE PortalSends \/ \E r \in Routers : Lose(r)
  BY <1>5 DEF PortalSends, Lose, priVars, portalVars, Uncounted
<1>. QED
  BY <1>1, <1>2, <1>3, <1>4, <1>5 DEF Next

LEMMA StepKeeps ==
  ASSUME BaseOK, UnAckOK, [Next]_vars
  PROVE  /\ scenario' = scenario
         /\ clients \subseteq clients'
         /\ isAuthenticated => isAuthenticated'
         /\ Numbers \subseteq Numbers'
         /\ \A s \in Numbers : s \in DOMAIN unAck' =>
              s \in DOMAIN unAck /\ unAck'[s] = unAck[s]
<1>1. CASE Uncounted
  BY <1>1 DEF Uncounted, Numbers, portalVars
<1>2. ASSUME NEW f \in scenario.flows, NEW r, NEW plan,
             Chooses(f, r, plan), New(f, r, plan), UNCHANGED rest
      PROVE  /\ scenario' = scenario /\ clients' = clients
             /\ isAuthenticated' = isAuthenticated
             /\ Numbers \subseteq Numbers'
             /\ \A s \in Numbers : s \in DOMAIN unAck' =>
                  s \in DOMAIN unAck /\ unAck'[s] = unAck[s]
  <2>1. plan \in Seq(Requests)
    BY <1>2, PlanAsks DEF BaseOK
  <2>2. /\ unAck' = Timers(plan) /\ seqno' = seqno + Len(plan)
        /\ scenario' = scenario /\ clients' = clients
        /\ isAuthenticated' = isAuthenticated
    BY <1>2 DEF New, rest
  <2>3. Numbers \subseteq Numbers'
    <3>1. Len(plan) \in Nat /\ seqno \in Nat
      BY <2>1, LenProperties, ScenarioTypes DEF BaseOK
    <3>. QED
      BY <2>2, <3>1 DEF Numbers
  <2>. QED
    BY <2>1, <2>2, <2>3, TimersOfPlan
<1>3. CASE SocketAck
  BY <1>3 DEF SocketAck, portalVars, Numbers
<1>4. CASE SocketAuth
  BY <1>4 DEF SocketAuth, Numbers
<1>. QED
  BY <1>1, <1>2, <1>3, <1>4, UncountedSteps

LEMMA FactsKept ==
  ASSUME BaseOK, UnAckOK, [Next]_vars
  PROVE  /\ \A r, e : MayLeave(r, e) => MayLeave(r, e)'
         /\ \A f, q : Asks(f, q) => Asks(f, q)'
         /\ \A q : Asked(q) => Asked(q)'
         /\ \A r, m : Owned(r, m) => Owned(r, m)'
         /\ \A r, m : Issued(r, m) => Issued(r, m)'
         /\ \A r, m : Fits(r, m) => Fits(r, m)'
<1>1. scenario' = scenario /\ stage' = stage /\ clients \subseteq clients'
  BY StepKeeps DEF stage
<1>2. \A r, e : MayLeave(r, e) => MayLeave(r, e)'
  <2>1. \A e : Exits(e)' = Exits(e)
    BY <1>1, Zenon DEF Exits
  <2>. QED
    BY <1>1, <2>1 DEF MayLeave
<1>3. \A f, q : Asks(f, q) => Asks(f, q)'
  BY <1>1, <1>2 DEF Asks, Chained
<1>4. \A q : Asked(q) => Asked(q)'
  BY <1>1, <1>3 DEF Asked
<1>5. \A r, m : Owned(r, m) => Owned(r, m)'
  BY StepKeeps DEF Owned
<1>6. \A r, m : Issued(r, m) => Issued(r, m)'
  BY <1>4, <1>5 DEF Issued
<1>7. \A r, m : Fits(r, m) => Fits(r, m)'
  BY <1>1, <1>6 DEF Fits, FitsControl, FitsAck, FitsAuth, FitsData, AtPortal
<1>. QED
  BY <1>2, <1>3, <1>4, <1>5, <1>6, <1>7

LEMMA ToSendKept ==
  ASSUME BaseOK, UnAckOK, [Next]_vars
  PROVE  \A d : ToSend(d) => ToSend(d)'
<1>1. scenario' = scenario /\ stage' = stage
  BY StepKeeps DEF stage
<1>2. \A r, m : Issued(r, m) => Issued(r, m)'
  BY FactsKept
<1>. QED
  BY <1>1, <1>2 DEF ToSend

-----------------------------------------------------------------------------
(* What the primary's handlers decide to send *)

\* The control messages of a plan, in its order, and then the packet.
Numbering(plan, i) ==
  [to |-> plan[i].to, msg |-> Control(seqno + i - 1, plan[i].rule)]

LEMMA DataLastElements ==
  ASSUME NEW plan \in Seq(Requests), NEW f, NEW r
  PROVE  LET q == DataLast(Numbered(plan), f, r)
         IN  /\ IsList(q)
             /\ \A d \in ToSet(q) :
                  \/ d = [to |-> r, msg |-> Data(f, Primary)]
                  \/ \E i \in 1..Len(plan) : d = Numbering(plan, i)
<1>. DEFINE c == Numbered(plan)
            n == Len(plan)
            x == [to |-> r, msg |-> Data(f, Primary)]
            T == {Numbering(plan, i) : i \in 1..n} \cup {x}
<1>1. n \in Nat
  BY LenProperties
<1>2. c = [i \in 1..n |-> Numbering(plan, i)]
  BY DEF Numbered, Numbering
<1>. HIDE DEF x, c, n
<1>3. c \in Seq(T)
  BY <1>1, <1>2
<1>4. <<x>> \in Seq(T)
  OBVIOUS
<1>. HIDE DEF T
<1>5. c \o <<x>> \in Seq(T)
  BY <1>3, <1>4, ConcatProperties
<1>6. DataLast(c, f, r) = c \o <<x>>
  BY DEF DataLast, x
<1>7. IsList(c \o <<x>>) /\ ToSet(c \o <<x>>) \subseteq T
  BY <1>5, ListElements, ToSetByIndex
<1>. QED
  BY <1>6, <1>7 DEF T, c, x, n

\* What the primary tells R1 of the flow that the portal's message m names.
LEMMA PortalRequests ==
  ASSUME NEW m, FitsAuth(Primary, m), scenario' = scenario, stage' = stage,
         isAuthenticated', m.entry.srcIp \in clients'
  PROVE  /\ ToSend([to |-> R1, msg |-> Control(m.seq, Rule(m.entry, Forward, Raw))])'
         /\ ToSend([to |-> R1, msg |-> Control(0, Rule(ReverseEntry(m.entry), Forward, Primary))])'
<1>1. /\ stage > 3 /\ stage = 9 /\ m.entry \in scenario.flows
      /\ IsWeb(m.entry) /\ m.entry.dstPort = 80 /\ m.seq \in AuthSeqs
  BY DEF FitsAuth, AtPortal
<1>2. R1 \in Secondaries
  BY DEF Secondaries
<1>3. Exits(m.entry)' = {R1, R3}
  BY <1>1 DEF Exits
<1>4. MayLeave(R1, m.entry)'
  BY <1>1, <1>3 DEF MayLeave
<1>5. /\ Asked(Request(R1, Rule(m.entry, Forward, Raw)))'
      /\ Asked(Request(R1, Rule(ReverseEntry(m.entry), Forward, Primary)))'
  BY <1>1, <1>2, <1>4 DEF Asked, Asks, Request
<1>6. ASSUME NEW s \in AuthSeqs \cup {0}, NEW k, Asked(Request(R1, k))'
      PROVE  ToSend([to |-> R1, msg |-> Control(s, k)])'
  BY <1>2, <1>6 DEF ToSend, Issued, Owned, Control
<1>. QED
  BY <1>1, <1>5, <1>6

\* The message of a request whose timer has just been started.
LEMMA NumberedRequest ==
  ASSUME NEW q, NEW s, q.to \in Secondaries, Asked(q)', q = Request(q.to, q.rule),
         s \in Numbers', unAck'[s] = q
  PROVE  ToSend([to |-> q.to, msg |-> Control(s, q.rule)])'
<1>1. PICK m : m = Control(s, q.rule)
  OBVIOUS
<1>2. m.seq = s /\ m.rule = q.rule /\ m = Control(m.seq, m.rule)
  BY <1>1 DEF Control
<1>3. Issued(q.to, m)'
  BY <1>2 DEF Issued, Owned
<1>. QED
  BY <1>1, <1>2, <1>3 DEF ToSend

LEMMA NextTodo ==
  ASSUME BaseOK, UnAckOK, TodoOK, BoxOK, [Next]_vars
  PROVE  TodoOK'
<1>a. ASSUME UNCHANGED todo
      PROVE  TodoOK'
  BY <1>a, ToSendKept DEF TodoOK
<1>b. scenario' = scenario /\ stage' = stage
  BY StepKeeps DEF stage
<1>c. ASSUME NEW f \in scenario.flows, NEW r \in Secondaries, stage > 3
      PROVE  ToSend([to |-> r, msg |-> Data(f, Primary)])'
  BY <1>b, <1>c DEF ToSend
<1>d. ASSUME NEW f \in scenario.flows, NEW r \in Secondaries, stage > 3,
             todo' = <<[to |-> r, msg |-> Data(f, Primary)]>>
      PROVE  TodoOK'
  BY <1>c, <1>d, SingleList DEF TodoOK
<1>1. ASSUME NEW f \in scenario.flows, TunnelKinds(f)
      PROVE  TodoOK'
  <2>1. CASE TunnelPlain(f)
    BY <2>1, <1>a DEF TunnelPlain, priVars
  <2>2. CASE TunnelOther(f)
    BY <2>2, <1>d DEF TunnelOther
  <2>3. ASSUME NEW r, NEW plan, Chooses(f, r, plan), Known(f, r)
        PROVE  TodoOK'
    BY <2>3, <1>d, PlanAsks DEF Known, Chooses, BaseOK
  <2>4. ASSUME NEW r, NEW plan, Chooses(f, r, plan), New(f, r, plan), UNCHANGED rest
        PROVE  TodoOK'
    <3>1. /\ r \in Secondaries /\ plan \in Seq(Requests)
          /\ \A i \in 1..Len(plan) : /\ Asks(f, plan[i])
                                     /\ plan[i] = Request(plan[i].to, plan[i].rule)
      BY <2>4, PlanAsks DEF BaseOK
    <3>2. /\ todo' = DataLast(Numbered(plan), f, r)
          /\ seqno' = seqno + Len(plan) /\ unAck' = Timers(plan) /\ stage > 3
      BY <2>4 DEF New, Chooses
    <3>3. ASSUME NEW d \in ToSet(todo')
          PROVE  ToSend(d)'
      <4>1. CASE d = [to |-> r, msg |-> Data(f, Primary)]
        BY <1>c, <3>1, <3>2, <4>1
      <4>2. ASSUME NEW i \in 1..Len(plan), NEW s, s = seqno + i - 1,
                   d = [to |-> plan[i].to, msg |-> Control(s, plan[i].rule)]
            PROVE  ToSend(d)'
        <5>1. s \in Numbers'
          <6>1. seqno \in Nat \ {0} /\ Len(plan) \in Nat
            BY <3>1, ScenarioTypes, LenProperties DEF BaseOK
          <6>. QED
            BY <6>1, <3>2, <4>2 DEF Numbers
        <5>2. unAck'[s] = plan[i]
          <6>1. Timers(plan)[seqno + i - 1] = plan[i]
            BY <3>1, TimersOfPlan
          <6>. QED
            BY <3>2, <4>2, <6>1
        <5>3. PICK q : q = plan[i]
          OBVIOUS
        <5>4. Asked(q)' /\ q.to \in Secondaries
          BY <1>b, <3>1, <5>3, FactsKept DEF Asked, Asks
        <5>. QED
          BY <3>1, <4>2, <5>1, <5>2, <5>3, <5>4, NumberedRequest
      <4>3. \/ d = [to |-> r, msg |-> Data(f, Primary)]
            \/ \E i \in 1..Len(plan) : d = Numbering(plan, i)
        BY <3>1, <3>2, DataLastElements
      <4>. QED
        BY <4>1, <4>2, <4>3 DEF Numbering
    <3>4. IsList(todo')
      BY <3>1, <3>2, DataLastElements
    <3>. QED
      BY <3>3, <3>4 DEF TodoOK
  <2>. QED
    BY <1>1, <2>1, <2>2, <2>3, <2>4 DEF TunnelKinds
<1>2. CASE SendNext
  <2>1. ToSet(Tail(todo)) \subseteq ToSet(todo) /\ IsList(Tail(todo))
    BY <1>2, TailList DEF SendNext, TodoOK
  <2>. QED
    BY <1>2, <2>1, ToSendKept DEF SendNext, TodoOK
<1>3. CASE SocketAuth
  <2>1. PICK m : m = Head(inbox[Primary])
    OBVIOUS
  <2>2. m.kind = "auth" /\ inbox[Primary] # <<>>
    BY <1>3, <2>1 DEF SocketAuth, Receives
  <2>3. FitsAuth(Primary, m)
    <3>1. m \in ToSet(inbox[Primary]) /\ Primary \in Routers
      BY <2>1, <2>2, ReceivedBox DEF BoxOK, BaseOK, Routers
    <3>2. Fits(Primary, m)
      BY <3>1 DEF BoxOK
    <3>. QED
      BY <2>2, <3>2 DEF Fits, FitsControl, FitsAck, FitsData, Control, Ack, Data
  <2>4. /\ isAuthenticated' = TRUE
        /\ m.entry.srcIp \in clients'
        /\ todo' = <<[to |-> R1, msg |-> Control(m.seq, Leave(m.entry, R1)[1].rule)],
                    [to |-> R1, msg |-> Control(0, Leave(m.entry, R1)[2].rule)]>>
    BY <1>3, <2>1 DEF SocketAuth
  <2>5. /\ Leave(m.entry, R1)[1].rule = Rule(m.entry, Forward, Raw)
        /\ Leave(m.entry, R1)[2].rule = Rule(ReverseEntry(m.entry), Forward, Primary)
    <3>1. Leave(m.entry, R1) = Pair(R1, m.entry, Raw, Primary)
      BY DEF Leave
    <3>2. /\ Pair(R1, m.entry, Raw, Primary)[1] = Request(R1, Rule(m.entry, Forward, Raw))
          /\ Pair(R1, m.entry, Raw, Primary)[2] = Request(R1, Rule(ReverseEntry(m.entry), Forward, Primary))
      BY PairElements
    <3>. QED
      BY <3>1, <3>2 DEF Request
  <2>6. /\ ToSend([to |-> R1, msg |-> Control(m.seq, Rule(m.entry, Forward, Raw))])'
        /\ ToSend([to |-> R1, msg |-> Control(0, Rule(ReverseEntry(m.entry), Forward, Primary))])'
    BY <1>b, <2>3, <2>4, PortalRequests
  <2>. QED
    BY <2>4, <2>5, <2>6, PairList DEF TodoOK
<1>4. CASE (\E s \in DOMAIN unAck : Retransmit(s)) \/ SocketAck \/ SocketData \/ PriIdle
  BY <1>4, <1>a DEF Retransmit, SocketAck, SocketData, PriIdle, priVars
<1>5. ASSUME NEW r \in Secondaries, SecStep(r)
      PROVE  TodoOK'
  BY <1>5, <1>a DEF SecStep, SecInstall, SecDrop, SecData, SecNoRule, RawIcmp,
     RawTcp, RawAnswer, SecIdle, SecPlain, RawPlain, priVars
<1>6. CASE PortalSends \/ \E r \in Routers : Lose(r)
  BY <1>6, <1>a DEF PortalSends, Lose, priVars
<1>7. CASE UNCHANGED vars
  BY <1>7, <1>a DEF vars, priVars
<1>. QED
  BY <1>1, <1>2, <1>3, <1>4, <1>5, <1>6, <1>7, TunnelIsOfAKind DEF Next, PriStep

LEMMA NextUnAck ==
  ASSUME BaseOK, UnAckOK, [Next]_vars
  PROVE  UnAckOK'
<1>0. /\ \A q : Asked(q) => Asked(q)'
      /\ Numbers \subseteq Numbers'
  BY FactsKept, StepKeeps
<1>1. CASE Uncounted
  BY <1>0, <1>1 DEF Uncounted, UnAckOK
<1>2. ASSUME NEW f \in scenario.flows, NEW r, NEW plan,
             Chooses(f, r, plan), New(f, r, plan), UNCHANGED rest
      PROVE  UnAckOK'
  <2>1. /\ plan \in Seq(Requests)
        /\ \A i \in 1..Len(plan) : /\ Asks(f, plan[i])
                                   /\ plan[i] = Request(plan[i].to, plan[i].rule)
    BY <1>2, PlanAsks DEF BaseOK
  <2>2. unAck' = Timers(plan) /\ seqno' = seqno + Len(plan)
    BY <1>2 DEF New
  <2>3. Len(plan) \in Nat /\ seqno \in Nat \ {0}
    BY <2>1, LenProperties, ScenarioTypes DEF BaseOK
  <2>4. ASSUME NEW s \in DOMAIN unAck', NEW q, q = unAck'[s]
        PROVE  s \in Numbers' /\ Asked(q)' /\ q = Request(q.to, q.rule)
    <3>2. CASE s \in DOMAIN unAck /\ q = unAck[s]
      BY <1>0, <2>4, <3>2 DEF UnAckOK
    <3>3. ASSUME NEW i \in 1..Len(plan), s = seqno + i - 1, q = plan[i]
          PROVE  s \in Numbers' /\ Asked(q)' /\ q = Request(q.to, q.rule)
      <4>1. s \in Numbers'
        BY <2>2, <2>3, <3>3 DEF Numbers
      <4>2. Asked(q)
        BY <2>1, <3>3 DEF Asked
      <4>. QED
        BY <1>0, <2>1, <3>3, <4>1, <4>2
    <3>4. \/ s \in DOMAIN unAck /\ q = unAck[s]
          \/ \E i \in 1..Len(plan) : s = seqno + i - 1 /\ q = plan[i]
      BY <2>1, <2>2, <2>4, TimersOfPlan
    <3>. QED
      BY <3>2, <3>3, <3>4
  <2>. QED
    BY <2>4 DEF UnAckOK
<1>3. CASE SocketAck
  <2>1. \A s \in DOMAIN unAck' : s \in DOMAIN unAck /\ unAck'[s] = unAck[s]
    BY <1>3 DEF SocketAck
  <2>2. ASSUME NEW s \in DOMAIN unAck', NEW q, q = unAck'[s]
        PROVE  s \in Numbers' /\ Asked(q)' /\ q = Request(q.to, q.rule)
    <3>2. s \in Numbers /\ Asked(q) /\ q = Request(q.to, q.rule)
      BY <2>1, <2>2 DEF UnAckOK
    <3>. QED
      BY <1>0, <3>2
  <2>. QED
    BY <2>2 DEF UnAckOK
<1>4. CASE SocketAuth
  BY <1>0, <1>4 DEF SocketAuth, UnAckOK
<1>. QED
  BY <1>1, <1>2, <1>3, <1>4, UncountedSteps

LEMMA NextBase ==
  ASSUME BaseOK, UnAckOK, BoxOK, [Next]_vars
  PROVE  BaseOK'
<1>1. /\ scenario' \in Scenarios /\ scenario' = scenario
  BY StepKeeps DEF BaseOK
<1>2. lost' \in BOOLEAN
  <2>1. \A box, r, m : SendIn(box, r, m) => lost' \in BOOLEAN
    BY DEF SendIn, BaseOK
  <2>2. \A r, m : Send(r, m) => lost' \in BOOLEAN
    BY <2>1 DEF Send
  <2>3. ASSUME NEW f, TunnelKinds(f)
        PROVE  lost' \in BOOLEAN
    BY <2>2, <2>3 DEF TunnelKinds, TunnelPlain, TunnelOther, rest, BaseOK
  <2>4. ASSUME NEW r, SecStep(r)
        PROVE  lost' \in BOOLEAN
    BY <2>1, <2>2, <2>4 DEF SecStep, SecInstall, SecDrop, SecData, Passed, SecNoRule,
       RawIcmp, RawTcp, RawAnswer, SecIdle, SecPlain, RawPlain, BaseOK
  <2>5. CASE PriStep
    BY <2>2, <2>5 DEF PriStep, SendNext, Retransmit, SocketAck, SocketData, SocketAuth,
       Read, PriIdle, BaseOK
  <2>6. CASE PortalSends \/ \E r \in Routers : Lose(r)
    BY <2>2, <2>6 DEF PortalSends, Lose
  <2>7. CASE UNCHANGED vars
    BY <2>7 DEF vars, BaseOK
  <2>. QED
    BY <2>3, <2>4, <2>5, <2>6, <2>7, TunnelIsOfAKind DEF Next
<1>3. up' \in [Routers -> BOOLEAN]
  <2>1. up' = up \/ \E r : up' = [up EXCEPT ![r] = FALSE]
    <3>1. ASSUME NEW f, TunnelKinds(f)
          PROVE  up' = up
      BY <3>1 DEF TunnelKinds, TunnelPlain, TunnelOther, rest
    <3>2. ASSUME NEW r, SecStep(r)
          PROVE  up' = up \/ up' = [up EXCEPT ![r] = FALSE]
      BY <3>2 DEF SecStep, SecInstall, SecDrop, SecData, SecNoRule, RawIcmp, RawTcp,
         RawAnswer, SecIdle, SecPlain, RawPlain
    <3>3. ASSUME PriStep
          PROVE  up' = up \/ up' = [up EXCEPT ![Primary] = FALSE]
      BY <3>3 DEF PriStep, SendNext, Retransmit, SocketAck, SocketData, SocketAuth,
         PriIdle
    <3>4. CASE PortalSends \/ (\E r \in Routers : Lose(r)) \/ UNCHANGED vars
      BY <3>4 DEF PortalSends, Lose, vars
    <3>. QED
      BY <3>1, <3>2, <3>3, <3>4, TunnelIsOfAKind DEF Next
  <2>2. ASSUME NEW r PROVE [up EXCEPT ![r] = FALSE] \in [Routers -> BOOLEAN]
    BY DEF BaseOK
  <2>. QED
    BY <2>1, <2>2 DEF BaseOK
<1>4. CASE Uncounted
  BY <1>1, <1>2, <1>3, <1>4 DEF Uncounted, portalVars, BaseOK
<1>5. ASSUME NEW f \in scenario.flows, NEW r, NEW plan,
             Chooses(f, r, plan), New(f, r, plan), UNCHANGED rest,
             authMsg' = authMsg \/ authMsg' = <<f>>
      PROVE  BaseOK'
  <2>1. f \in Entries /\ ReverseEntry(f) \in Entries
    BY EntryTypes, ScenarioTypes DEF BaseOK
  <2>2. seqno' \in 1..scenario'.maxSeq
    <3>1. plan \in Seq(Requests)
      BY <1>5, PlanAsks DEF BaseOK
    <3>2. Len(plan) \in Nat /\ seqno \in Nat \ {0} /\ scenario.maxSeq \in Nat
      BY <3>1, LenProperties, ScenarioTypes DEF BaseOK
    <3>. QED
      BY <1>1, <1>5, <3>2 DEF New
  <2>3. table' = table \cup {f, ReverseEntry(f)}
    BY <1>5 DEF New
  <2>4. clients' = clients /\ isAuthenticated' = isAuthenticated
    BY <1>5 DEF rest
  <2>. QED
    BY <1>1, <1>2, <1>3, <1>5, <2>1, <2>2, <2>3, <2>4 DEF BaseOK
<1>6. CASE SocketAck
  BY <1>1, <1>2, <1>3, <1>6 DEF SocketAck, portalVars, BaseOK
<1>7. CASE SocketAuth
  <2>1. PICK m : m = Head(inbox[Primary])
    OBVIOUS
  <2>2. m.entry \in scenario.flows
    <3>1. m.kind = "auth" /\ inbox[Primary] # <<>>
      BY <1>7, <2>1 DEF SocketAuth, Receives
    <3>2. m \in ToSet(inbox[Primary]) /\ Primary \in Routers
      BY <2>1, <3>1, ReceivedBox DEF BoxOK, BaseOK, Routers
    <3>3. Fits(Primary, m)
      BY <3>2 DEF BoxOK
    <3>. QED
      BY <3>1, <3>3 DEF Fits, FitsControl, FitsAck, FitsData, Control, Ack, Data,
         FitsAuth, AtPortal
  <2>3. /\ m.entry \in Entries /\ ReverseEntry(m.entry) \in Entries
        /\ m.entry.srcIp \in 0..AnyIp
    BY <2>2, EntryTypes, ScenarioTypes DEF BaseOK, Entry
  <2>4. /\ table' \subseteq table \cup {m.entry, ReverseEntry(m.entry)}
        /\ clients' = clients \cup {m.entry.srcIp}
        /\ isAuthenticated' = TRUE /\ seqno' = seqno /\ authMsg' = authMsg
    BY <1>7, <2>1 DEF SocketAuth
  <2>. QED
    BY <1>1, <1>2, <1>3, <2>3, <2>4 DEF BaseOK
<1>. QED
  BY <1>4, <1>5, <1>6, <1>7, UncountedSteps

-----------------------------------------------------------------------------
(* What a step may put into a receive buffer *)

\* Datagram d that router t gets in this step, by its sender: the primary ...
FromPrimary(t, d) ==
  \/ SendNext /\ \E q \in ToSet(todo) : q = Head(todo) /\ q.to = t /\ q.msg = d
  \/ /\ todo = <<>>
     /\ \E s \in DOMAIN unAck : unAck[s].to = t /\ d = Control(s, unAck[s].rule)
  \/ /\ stage <= 3 /\ t = R1
     /\ \E f \in scenario.flows : IsIcmp(f) /\ d = Data(f, Primary)

\* ... a secondary's octaneRulesController, or a secondary of stage 2 or 3 ...
FromRules(t, d) ==
  \E r \in Secondaries, e \in LookedUp :
    /\ e \in DOMAIN rules[r]
    /\ \/ \E from : Data(e, from) \in ToSet(inbox[r])
       \/ \E f \in out[r] : e = Answer(r, f)
    /\ rules[r][e].action = Forward /\ rules[r][e].port = t
    /\ d = Data(e, r)

Answered(t, d) ==
  \E r \in Secondaries, e \in LookedUp :
    /\ Data(e, t) \in ToSet(inbox[r])
    /\ stage <= 3 \/ (e \in DOMAIN rules[r] /\ rules[r][e].action = Reply)
    /\ d = Data(ReverseEntry(e), r)

FromPlain(t, d) ==
  /\ stage = 3 /\ t = Primary
  /\ \E r \in Secondaries : \E f \in out[r] : d = Data(Answer(r, f), r)

Acknowledged(t, d) ==
  /\ t = Primary
  /\ \E r \in Secondaries : \E m \in ToSet(inbox[r]) :
       /\ m.kind = "control" /\ SecInstall(r) /\ m = Head(inbox[r])
       /\ d = Ack(m.seq, m.rule, r)

\* ... or the portal.
FromPortal(t, d) ==
  /\ stage = 9 /\ t = Primary
  /\ \E f \in out[R3], s \in AuthSeqs : d = Auth(s, f)

Emitted(t, d) ==
  \/ FromPrimary(t, d) \/ FromRules(t, d) \/ Answered(t, d) \/ FromPlain(t, d)
  \/ Acknowledged(t, d) \/ FromPortal(t, d)

\* What a step leaves of the receive buffer of router t, before it adds to it:
\* a datagram may be read, a control message by one of two actions, or lost.
Remains(t, b) ==
  \/ b = inbox[t]
  \/ /\ inbox[t] # <<>> /\ b = Tail(inbox[t])
     /\ Head(inbox[t]).kind = "control" => t = Primary \/ SecInstall(t) \/ SecDrop(t)
  \/ lost' /\ inbox[t] # <<>> /\ b = Front(inbox[t])

\* The new buffers are buffers.  They hold, in the old order, what they held, and
\* at the end what was sent.
Delivers ==
  /\ IsBox(inbox')
  /\ \A t \in Routers : \A d \in ToSet(inbox'[t]) :
       d \in ToSet(inbox[t]) \/ Emitted(t, d)
  /\ \A t \in Routers : \E b :
       /\ Remains(t, b)
       /\ inbox'[t] = b \/ \E d : inbox'[t] = Append(b, d) /\ Emitted(t, d)

\* A datagram at the head of a buffer is one of its datagrams.
LEMMA HeadFits ==
  ASSUME BaseOK, BoxOK, NEW r \in Routers, NEW k, Receives(r, k), NEW m, m = Head(inbox[r])
  PROVE  /\ inbox[r] # <<>> /\ m \in ToSet(inbox[r]) /\ m.kind = k
         /\ Fits(r, m)
         /\ k = "data" => FitsData(r, m)
         /\ k = "control" => FitsControl(r, m)
         /\ k = "ack" => FitsAck(r, m)
         /\ k = "auth" => FitsAuth(r, m)
<1>1. inbox[r] # <<>> /\ m.kind = k
  BY DEF Receives
<1>2. m \in ToSet(inbox[r])
  BY <1>1, ReceivedBox DEF BoxOK, BaseOK
<1>3. Fits(r, m)
  BY <1>2 DEF BoxOK
<1>. QED
  BY <1>1, <1>2, <1>3 DEF Fits, FitsControl, FitsAck, FitsData, FitsAuth, Control,
     Ack, Data, Auth

\* The rules of a router are ones some stage after the third asks for.
LEMMA RuleTypes ==
  ASSUME BaseOK, RulesOK, NEW r \in Secondaries, NEW e \in DOMAIN rules[r]
  PROVE  /\ stage > 3
         /\ e \in Entries /\ e \in LookedUp /\ ReverseEntry(e) \in LookedUp
         /\ rules[r][e].action \in {Forward, Reply}
         /\ rules[r][e].port \in {Raw, AnyPort} \cup Routers
         /\ RequestOf(r, e) \in Requests
<1>1. PICK q : q = RequestOf(r, e)
  OBVIOUS
<1>2. Asked(q)
  BY <1>1 DEF RulesOK
<1>3. q.to \in Secondaries /\ q.rule \in Rules
  BY <1>2, AskedType DEF BaseOK
<1>4. /\ q = [to |-> r, rule |-> q.rule]
      /\ q.rule.key = e
      /\ q.rule.action = rules[r][e].action
      /\ q.rule.port = rules[r][e].port
  BY <1>1 DEF RequestOf, Request, Rule
<1>5. q \in Requests
  BY <1>3, <1>4 DEF Requests
<1>6. e \in Entries
  BY <1>3, <1>4 DEF Rules
<1>7. stage > 3
  BY <1>2 DEF Asked, Asks
<1>. QED
  BY <1>1, <1>3, <1>4, <1>5, <1>6, <1>7, EntryTypes DEF Rules

\* Answers made out to the client remembered last.
LEMMA AnswerTypes ==
  ASSUME BaseOK, RulesOK, OutOK, NEW r \in Secondaries, NEW e \in out[r],
         stage = 3 \/ Answer(r, e) \in DOMAIN rules[r]
  PROVE  Answer(r, e) \in LookedUp
<1>1. CASE Answer(r, e) \in DOMAIN rules[r]
  BY <1>1, RuleTypes
<1>2. CASE stage = 3
  <2>1. PICK g \in scenario.flows : oriSrcAddr[r] = g.srcIp
    BY <1>2, ScenarioTypes DEF OutOK, BaseOK
  <2>2. e \in Flows /\ g \in Flows
    BY ScenarioTypes DEF OutOK, BaseOK
  <2>3. Answer(r, e) = [ReverseEntry(e) EXCEPT !.dstIp = g.srcIp]
    BY <2>1 DEF Answer
  <2>. DEFINE W(f, h) == [ReverseEntry(f) EXCEPT !.dstIp = h.srcIp]
  <2>4. LookedUp = Entries \cup {W(f, h) : f, h \in Flows}
    BY DEF LookedUp
  <2>. HIDE DEF W
  <2>5. W(e, g) \in LookedUp
    BY <2>2, <2>4
  <2>6. Answer(r, e) = W(e, g)
    BY <2>3 DEF W
  <2>. QED
    BY <2>5, <2>6
<1>. QED
  BY <1>1, <1>2

LEMMA SendDelivers ==
  ASSUME BaseOK, BoxOK, scenario' = scenario, NEW r \in Routers, NEW m, Send(r, m),
         Emitted(r, m)
  PROVE  Delivers
<1>1. /\ IsBox(inbox')
      /\ \A t \in Routers : \A d \in ToSet(inbox'[t]) :
           d \in ToSet(inbox[t]) \/ (t = r /\ d = m)
  BY SendInBox DEF Send, BoxOK, BaseOK
<1>2. ASSUME NEW t \in Routers
      PROVE  inbox'[t] = inbox[t] \/ (t = r /\ inbox'[t] = Append(inbox[t], m))
  BY DEF Send, SendIn, BoxOK, IsBox
<1>3. ASSUME NEW t \in Routers
      PROVE  Remains(t, inbox[t])
  BY DEF Remains
<1>. QED
  BY <1>1, <1>2, <1>3 DEF Delivers

\* A step that reads a datagram of router s, and may answer with another one.
Reads(s) ==
  /\ inbox[s] # <<>>
  /\ Head(inbox[s]).kind = "control" => s = Primary \/ SecInstall(s) \/ SecDrop(s)

LEMMA ReadRemains ==
  ASSUME BoxOK, NEW s \in Routers, Reads(s), NEW t \in Routers
  PROVE  Remains(t, Received(s)[t])
BY DEF Reads, Remains, Received, BoxOK, IsBox

LEMMA AnswerDelivers ==
  ASSUME BaseOK, BoxOK, scenario' = scenario, NEW s \in Routers, Reads(s),
         NEW r \in Routers, NEW m, SendIn(Received(s), r, m), Emitted(r, m)
  PROVE  Delivers
<1>1. /\ IsBox(Received(s))
      /\ \A t \in Routers : ToSet(Received(s)[t]) \subseteq ToSet(inbox[t])
  BY ReceivedBox DEF BoxOK, BaseOK, Reads
<1>2. /\ IsBox(inbox')
      /\ \A t \in Routers : \A d \in ToSet(inbox'[t]) :
              d \in ToSet(Received(s)[t]) \/ (t = r /\ d = m)
  BY <1>1, SendInBox DEF BaseOK
<1>3. ASSUME NEW t \in Routers
      PROVE  \/ inbox'[t] = Received(s)[t]
             \/ t = r /\ inbox'[t] = Append(Received(s)[t], m)
  BY <1>1 DEF SendIn, IsBox
<1>. QED
  BY <1>1, <1>2, <1>3, ReadRemains DEF Delivers

LEMMA ReadDelivers ==
  ASSUME BaseOK, BoxOK, scenario' = scenario, NEW s \in Routers, Reads(s),
         inbox' = Received(s)
  PROVE  Delivers
<1>1. /\ IsBox(Received(s))
      /\ \A t \in Routers : ToSet(Received(s)[t]) \subseteq ToSet(inbox[t])
  BY ReceivedBox DEF BoxOK, BaseOK, Reads
<1>. QED
  BY <1>1, ReadRemains DEF Delivers, IsBox

LEMMA QuietDelivers ==
  ASSUME BoxOK, scenario' = scenario, UNCHANGED inbox
  PROVE  Delivers
BY DEF Delivers, BoxOK, IsBox, Remains

LEMMA StepDelivers ==
  ASSUME IInv, [Next]_vars
  PROVE  Delivers
<1>. USE DEF IInv
<1>1. scenario' = scenario
  BY StepKeeps
<1>2. ASSUME NEW f \in scenario.flows, TunnelKinds(f)
      PROVE  Delivers
  <2>1. CASE TunnelPlain(f)
    <3>1. stage \in {2, 3} /\ IsIcmp(f) /\ Send(R1, Data(f, Primary)) /\ R1 \in Routers
      BY <2>1 DEF TunnelPlain, Routers
    <3>2. Emitted(R1, Data(f, Primary))
      BY <3>1 DEF Emitted, FromPrimary
    <3>. QED
      BY <1>1, <3>1, <3>2, SendDelivers
  <2>. QED
    BY <1>1, <1>2, <2>1, QuietDelivers DEF TunnelKinds, TunnelOther, rest
<1>3. CASE SendNext
  <2>1. PICK q : q = Head(todo)
    OBVIOUS
  <2>2. q \in ToSet(todo) /\ Send(q.to, q.msg)
    BY <1>3, <2>1, TailList DEF SendNext, TodoOK
  <2>3. Emitted(q.to, q.msg)
    BY <1>3, <2>1, <2>2 DEF Emitted, FromPrimary
  <2>4. q.to \in Routers
    BY <2>2 DEF TodoOK, ToSend, Secondaries, Routers
  <2>. QED
    BY <1>1, <2>2, <2>3, <2>4, SendDelivers
<1>4. ASSUME NEW s \in DOMAIN unAck, Retransmit(s)
      PROVE  Delivers
  <2>1. Send(unAck[s].to, Control(s, unAck[s].rule)) /\ todo = <<>>
    BY <1>4 DEF Retransmit, Ready
  <2>2. Emitted(unAck[s].to, Control(s, unAck[s].rule))
    BY <2>1 DEF Emitted, FromPrimary
  <2>3. unAck[s].to \in Routers
    BY DEF UnAckOK, Asked, Asks, Secondaries, Routers
  <2>. QED
    BY <1>1, <2>1, <2>2, <2>3, SendDelivers
<1>5. CASE SocketAck \/ SocketData \/ SocketAuth
  <2>1. Reads(Primary) /\ inbox' = Received(Primary) /\ Primary \in Routers
    BY <1>5 DEF SocketAck, SocketData, SocketAuth, Receives, Read, Reads, Routers
  <2>. QED
    BY <1>1, <2>1, ReadDelivers
<1>6. CASE PriIdle \/ (\E r \in Secondaries : SecIdle(r)) \/ UNCHANGED vars
  BY <1>1, <1>6, QuietDelivers DEF PriIdle, SecIdle, vars
<1>7. ASSUME NEW r \in Secondaries, SecInstall(r)
      PROVE  Delivers
  <2>1. PICK m : m = Head(inbox[r])
    OBVIOUS
  <2>2. Receives(r, "control") /\ SendIn(Received(r), Primary, Ack(m.seq, m.rule, r))
    BY <1>7, <2>1 DEF SecInstall
  <2>3. r \in Routers /\ Primary \in Routers
    BY DEF Secondaries, Routers
  <2>4. inbox[r] # <<>> /\ m \in ToSet(inbox[r]) /\ m.kind = "control"
    BY <2>1, <2>2, <2>3, HeadFits
  <2>5. Emitted(Primary, Ack(m.seq, m.rule, r))
    BY <1>7, <2>1, <2>4 DEF Emitted, Acknowledged
  <2>6. Reads(r)
    BY <1>7, <2>4 DEF Reads
  <2>. QED
    BY <1>1, <2>2, <2>3, <2>5, <2>6, AnswerDelivers
<1>8. ASSUME NEW r \in Secondaries, SecDrop(r) \/ SecNoRule(r)
      PROVE  Delivers
  <2>1. inbox' = Received(r) /\ r \in Routers
    BY <1>8 DEF SecDrop, SecNoRule, Routers, Secondaries
  <2>2. Reads(r)
    BY <1>8 DEF SecDrop, SecNoRule, Receives, Reads
  <2>. QED
    BY <1>1, <2>1, <2>2, ReadDelivers
<1>9. ASSUME NEW r \in Secondaries, SecData(r)
      PROVE  Delivers
  <2>1. PICK m : m = Head(inbox[r])
    OBVIOUS
  <2>2. /\ Receives(r, "data")
        /\ m.entry \in DOMAIN rules[r]
        /\ \/ inbox' = Received(r)
           \/ Passed(Received(r), r, m.entry)
           \/ /\ rules[r][m.entry].action = Reply
              /\ SendIn(Received(r), m.from, Data(ReverseEntry(m.entry), r))
    BY <1>9, <2>1 DEF SecData
  <2>3. r \in Routers
    BY DEF Secondaries, Routers
  <2>4. inbox[r] # <<>> /\ m \in ToSet(inbox[r]) /\ FitsData(r, m)
    BY <2>1, <2>2, <2>3, HeadFits
  <2>5. m = Data(m.entry, m.from) /\ m.entry \in LookedUp /\ m.from \in Routers
    BY <2>4 DEF FitsData
  <2>a. Reads(r)
    BY <2>1, <2>2, <2>4 DEF Reads, Receives
  <2>6. CASE inbox' = Received(r)
    BY <1>1, <2>3, <2>6, <2>a, ReadDelivers
  <2>7. CASE Passed(Received(r), r, m.entry)
    <3>1. /\ rules[r][m.entry].action = Forward /\ rules[r][m.entry].port \in Routers
          /\ SendIn(Received(r), rules[r][m.entry].port, Data(m.entry, r))
      BY <2>7 DEF Passed
    <3>2. Emitted(rules[r][m.entry].port, Data(m.entry, r))
      BY <2>2, <2>4, <2>5, <3>1 DEF Emitted, FromRules
    <3>. QED
      BY <1>1, <2>3, <2>a, <3>1, <3>2, AnswerDelivers
  <2>8. CASE /\ rules[r][m.entry].action = Reply
             /\ SendIn(Received(r), m.from, Data(ReverseEntry(m.entry), r))
    <3>1. Emitted(m.from, Data(ReverseEntry(m.entry), r))
      BY <2>2, <2>4, <2>5, <2>8 DEF Emitted, Answered
    <3>. QED
      BY <1>1, <2>3, <2>5, <2>8, <2>a, <3>1, AnswerDelivers
  <2>. QED
    BY <2>2, <2>6, <2>7, <2>8
<1>10. ASSUME NEW r \in Secondaries, NEW e \in out[r], RawAnswer(r, e)
       PROVE  Delivers
  <2>1. PICK a : a = Answer(r, e)
    OBVIOUS
  <2>2. /\ a \in DOMAIN rules[r]
        /\ rules[r][a].action = Forward /\ rules[r][a].port \in Routers
        /\ Send(rules[r][a].port, Data(a, r))
    BY <1>10, <2>1 DEF RawAnswer, Passed, Send
  <2>3. a \in LookedUp
    BY <2>2, RuleTypes
  <2>4. Emitted(rules[r][a].port, Data(a, r))
    BY <2>1, <2>2, <2>3 DEF Emitted, FromRules
  <2>. QED
    BY <1>1, <2>2, <2>4, SendDelivers
<1>11. ASSUME NEW r \in Secondaries, SecPlain(r)
       PROVE  Delivers
  <2>1. PICK m : m = Head(inbox[r])
    OBVIOUS
  <2>2. /\ Receives(r, "data") /\ stage \in {2, 3}
        /\ \/ inbox' = Received(r)
           \/ SendIn(Received(r), m.from, Data(ReverseEntry(m.entry), r))
    BY <1>11, <2>1 DEF SecPlain
  <2>3. r \in Routers
    BY DEF Secondaries, Routers
  <2>4. inbox[r] # <<>> /\ m \in ToSet(inbox[r]) /\ FitsData(r, m)
    BY <2>1, <2>2, <2>3, HeadFits
  <2>5. m = Data(m.entry, m.from) /\ m.entry \in LookedUp /\ m.from \in Routers
    BY <2>4 DEF FitsData
  <2>6. stage <= 3
    BY <2>2
  <2>7. Emitted(m.from, Data(ReverseEntry(m.entry), r))
    BY <2>4, <2>5, <2>6 DEF Emitted, Answered
  <2>8. Reads(r)
    BY <2>1, <2>2, <2>4 DEF Reads, Receives
  <2>. QED
    BY <1>1, <2>2, <2>3, <2>5, <2>7, <2>8, ReadDelivers, AnswerDelivers
<1>12. ASSUME NEW r \in Secondaries, RawPlain(r)
       PROVE  Delivers
  <2>1. PICK e \in out[r] : Send(Primary, Data(Answer(r, e), r)) /\ stage = 3
    BY <1>12 DEF RawPlain
  <2>2. Emitted(Primary, Data(Answer(r, e), r)) /\ Primary \in Routers
    BY <2>1 DEF Emitted, FromPlain, Routers
  <2>. QED
    BY <1>1, <2>1, <2>2, SendDelivers
<1>13. CASE PortalSends
  <2>1. PICK f \in out[R3], s \in AuthSeqs : Send(Primary, Auth(s, f)) /\ stage = 9
    BY <1>13 DEF PortalSends
  <2>2. Emitted(Primary, Auth(s, f)) /\ Primary \in Routers
    BY <2>1 DEF Emitted, FromPortal, Routers
  <2>. QED
    BY <1>1, <2>1, <2>2, SendDelivers
<1>14. ASSUME NEW r \in Routers, Lose(r)
       PROVE  Delivers
  <2>1. inbox[r] # <<>> /\ inbox' = [inbox EXCEPT ![r] = Front(@)]
    BY <1>14 DEF Lose
  <2>2. /\ IsList(Front(inbox[r])) /\ ToSet(Front(inbox[r])) \subseteq ToSet(inbox[r])
        /\ Len(Front(inbox[r])) <= Len(inbox[r])
    BY <2>1, FrontList DEF BoxOK, IsBox
  <2>3. Len(Front(inbox[r])) <= scenario.rcvBuf
    <3>1. /\ Len(inbox[r]) \in Nat /\ Len(Front(inbox[r])) \in Nat
          /\ scenario.rcvBuf \in Nat
      BY <2>2, ScenarioTypes, LenProperties DEF BoxOK, BaseOK, IsBox, IsList
    <3>. QED
      BY <2>2, <3>1 DEF BoxOK, IsBox
  <2>4. lost'
    BY <1>14 DEF Lose
  <2>5. ASSUME NEW t \in Routers
        PROVE  Remains(t, inbox'[t])
    BY <2>1, <2>4 DEF Remains, BoxOK, IsBox
  <2>. QED
    BY <1>1, <2>1, <2>2, <2>3, <2>5 DEF Delivers, BoxOK, IsBox
<1>. QED
  BY <1>2, <1>3, <1>4, <1>5, <1>6, <1>7, <1>8, <1>9, <1>10, <1>11, <1>12, <1>13, <1>14,
     TunnelIsOfAKind DEF Next, PriStep, SecStep, RawIcmp, RawTcp

-----------------------------------------------------------------------------
(* Every step keeps the invariant *)

\* A secondary answers for the message it installs: the acknowledgement has
\* the message's number and rule.
LEMMA EmittedFits ==
  ASSUME IInv, [Next]_vars, NEW t \in Routers, NEW d, Emitted(t, d)
  PROVE  Fits(t, d) \/ Fits(t, d)'
<1>. USE DEF IInv
<1>1. scenario' = scenario /\ stage' = stage
  BY StepKeeps DEF stage
<1>2. \A f \in scenario.flows : f \in LookedUp
  BY EntryTypes, ScenarioTypes DEF BaseOK
<1>3. \A r \in Secondaries : r \in Routers /\ r # Primary
  BY DEF Secondaries, Routers, R1, R2, R3, Primary
<1>4. \A e, r : Data(e, r).entry = e /\ Data(e, r).from = r
  BY DEF Data
<1>5. ASSUME NEW e \in LookedUp, NEW r \in Routers, d = Data(e, r),
             stage > 3 \/ t = Primary
      PROVE  Fits(t, d)
  <2>1. d = Data(d.entry, d.from) /\ d.entry \in LookedUp /\ d.from \in Routers
    BY <1>4, <1>5
  <2>2. ~(stage <= 3 /\ t # Primary)
    BY <1>5, ScenarioTypes DEF BaseOK
  <2>. QED
    BY <2>1, <2>2 DEF Fits, FitsData
<1>6. CASE FromPrimary(t, d)
  <2>1. ASSUME NEW q \in ToSet(todo), q.to = t, q.msg = d
        PROVE  Fits(t, d)
    <3>1. ToSend(q)
      BY DEF TodoOK
    <3>2. ASSUME NEW f \in scenario.flows, stage > 3, q.msg = Data(f, Primary)
          PROVE  Fits(t, d)
      BY <1>2, <1>5, <2>1, <3>2 DEF Routers
    <3>. QED
      BY <2>1, <3>1, <3>2 DEF ToSend, Fits, FitsControl
  <2>2. ASSUME NEW s \in DOMAIN unAck, unAck[s].to = t, d = Control(s, unAck[s].rule)
        PROVE  Fits(t, d)
    <3>1. /\ s \in Numbers /\ Asked(unAck[s])
          /\ unAck[s] = Request(t, unAck[s].rule)
      BY <2>2 DEF UnAckOK
    <3>2. d.seq = s /\ d.rule = unAck[s].rule /\ d = Control(d.seq, d.rule)
      BY <2>2 DEF Control
    <3>3. t \in Secondaries
      BY <2>2, <3>1 DEF Asked, Asks
    <3>. QED
      BY <3>1, <3>2, <3>3 DEF Fits, FitsControl, Issued, Owned
  <2>3. ASSUME stage <= 3, t = R1, NEW f \in scenario.flows, IsIcmp(f),
               d = Data(f, Primary)
        PROVE  Fits(t, d)
    BY <1>2, <1>4, <2>3 DEF Fits, FitsData, Routers
  <2>. QED
    BY <1>6, <2>1, <2>2, <2>3 DEF FromPrimary
<1>7. CASE FromRules(t, d)
  BY <1>3, <1>5, <1>7, RuleTypes DEF FromRules
<1>8. CASE Answered(t, d)
  <2>1. PICK r \in Secondaries, e \in LookedUp :
          /\ Data(e, t) \in ToSet(inbox[r])
          /\ stage <= 3 \/ (e \in DOMAIN rules[r] /\ rules[r][e].action = Reply)
          /\ d = Data(ReverseEntry(e), r)
    BY <1>8 DEF Answered
  <2>2. CASE stage > 3
    <3>1. ~(stage <= 3)
      BY <2>2, ScenarioTypes DEF BaseOK
    <3>. QED
      BY <1>3, <1>5, <2>1, <2>2, <3>1, RuleTypes
  <2>3. CASE stage <= 3
    <3>1. PICK m : m = Data(e, t)
      OBVIOUS
    <3>2. FitsData(r, m)
      <4>1. Fits(r, m)
        BY <1>3, <2>1, <3>1 DEF BoxOK
      <4>2. m.kind = "data"
        BY <3>1 DEF Data
      <4>. QED
        BY <4>1, <4>2 DEF Fits, FitsControl, FitsAck, FitsAuth, Control, Ack, Auth
    <3>3. t = Primary /\ e \in scenario.flows
      BY <1>3, <1>4, <2>3, <3>1, <3>2 DEF FitsData
    <3>4. ReverseEntry(e) \in LookedUp
      BY <3>3, EntryTypes, ScenarioTypes DEF BaseOK
    <3>. QED
      BY <1>3, <1>5, <2>1, <3>3, <3>4
  <2>. QED
    BY <2>2, <2>3, ScenarioTypes DEF BaseOK
<1>9. CASE FromPlain(t, d)
  BY <1>3, <1>5, <1>9, AnswerTypes DEF FromPlain
<1>10. CASE Acknowledged(t, d)
  <2>0. PICK r \in Secondaries :
          \E m \in ToSet(inbox[r]) : m.kind = "control" /\ d = Ack(m.seq, m.rule, r)
    BY <1>10 DEF Acknowledged
  <2>1. PICK m : m \in ToSet(inbox[r]) /\ m.kind = "control" /\ d = Ack(m.seq, m.rule, r)
    BY <2>0
  <2>2. FitsControl(r, m)
    <3>1. Fits(r, m)
      BY <1>3, <2>1 DEF BoxOK
    <3>. QED
      BY <2>1, <3>1 DEF Fits, FitsData, FitsAck, FitsAuth, Data, Ack, Auth
  <2>3. d.seq = m.seq /\ d.rule = m.rule /\ d.from = r /\ t = Primary
    BY <1>10, <2>1 DEF Ack, Acknowledged
  <2>. QED
    BY <2>1, <2>2, <2>3 DEF Fits, FitsAck, FitsControl, Issued, Owned
<1>11. CASE FromPortal(t, d)
  <2>1. PICK f \in out[R3], s \in AuthSeqs : d = Auth(s, f) /\ stage = 9 /\ t = Primary
    BY <1>11 DEF FromPortal
  <2>2. f \in scenario.flows /\ MayLeave(R3, f)
    BY DEF OutOK, Secondaries
  <2>3. IsWeb(f) /\ f.dstPort = 80
    <3>1. IsWeb(f) /\ R3 \in Exits(f)
      BY <2>2 DEF MayLeave, R1, R3
    <3>2. CASE f.dstPort = 80
      BY <3>1, <3>2
    <3>3. CASE f.dstPort # 80
      <4>1. Exits(f) = {IF f.dstPort = 443 THEN R2 ELSE R1}
        BY <2>1, <3>3 DEF Exits
      <4>. QED
        BY <3>1, <4>1 DEF R1, R2, R3
    <3>. QED
      BY <3>2, <3>3
  <2>4. d.seq = s /\ d.entry = f
    BY <2>1 DEF Auth
  <2>. QED
    BY <2>1, <2>2, <2>3, <2>4 DEF Fits, FitsAuth, AtPortal
<1>. QED
  BY <1>6, <1>7, <1>8, <1>9, <1>10, <1>11 DEF Emitted

LEMMA NextBox ==
  ASSUME IInv, [Next]_vars
  PROVE  BoxOK'
<1>1. Delivers
  BY StepDelivers
<1>2. IsBox(inbox)'
  <2>1. scenario' = scenario
    BY StepKeeps DEF IInv
  <2>. QED
    BY <1>1, <2>1 DEF Delivers, IsBox
<1>3. ASSUME NEW t \in Routers, NEW d, d \in ToSet(inbox'[t])
      PROVE  Fits(t, d)'
  <2>1. d \in ToSet(inbox[t]) => Fits(t, d)
    BY DEF IInv, BoxOK
  <2>2. Fits(t, d) => Fits(t, d)'
    BY FactsKept DEF IInv
  <2>. QED
    BY <1>1, <1>3, <2>1, <2>2, EmittedFits DEF Delivers
<1>. QED
  BY <1>2, <1>3 DEF BoxOK

\* The steps that leave the rules alone, and the one that does not.
LEMMA RulesSteps ==
  ASSUME [Next]_vars
  PROVE  \/ UNCHANGED <<rules, receipts>>
         \/ \E r \in Secondaries : SecInstall(r)
<1>1. ASSUME NEW f, TunnelKinds(f)
      PROVE  UNCHANGED <<rules, receipts>>
  BY <1>1 DEF TunnelKinds, TunnelPlain, TunnelOther, rest, secVars
<1>2. CASE PriStep
  BY <1>2 DEF PriStep, SendNext, Retransmit, SocketAck, SocketData, SocketAuth,
     PriIdle, secVars
<1>3. ASSUME NEW r \in Secondaries, SecStep(r)
      PROVE  UNCHANGED <<rules, receipts>> \/ SecInstall(r)
  BY <1>3 DEF SecStep, SecDrop, SecData, SecNoRule, RawIcmp, RawTcp, RawAnswer,
     SecIdle, SecPlain, RawPlain, secVars
<1>4. CASE PortalSends \/ (\E r \in Routers : Lose(r)) \/ UNCHANGED vars
  BY <1>4 DEF PortalSends, Lose, vars, secVars
<1>. QED
  BY <1>1, <1>2, <1>3, <1>4, TunnelIsOfAKind DEF Next

\* What the installation of message m does to the rules and receipts of r.
Installs(r, m) ==
  /\ FitsControl(r, m)
  /\ m \in ToSet(inbox[r]) /\ m.kind = "control"
  /\ \E f \in scenario.flows : Asks(f, Request(r, m.rule))
  /\ m.rule \in Rules
  /\ m.rule = Rule(m.rule.key, m.rule.action, m.rule.port)
  /\ DOMAIN rules' = Secondaries /\ DOMAIN receipts' = Secondaries
  /\ \A t \in Secondaries \ {r} : rules'[t] = rules[t] /\ receipts'[t] = receipts[t]
  /\ DOMAIN rules'[r] = DOMAIN rules[r] \cup {m.rule.key}
  /\ rules'[r][m.rule.key] = [action |-> m.rule.action, port |-> m.rule.port]
  /\ \A e \in DOMAIN rules[r] \ {m.rule.key} : rules'[r][e] = rules[r][e]
  /\ \A k \in DOMAIN receipts'[r] :
       \/ k = m.rule /\ receipts'[r][k] \in 1..DropAfter
       \/ k \in DOMAIN receipts[r] /\ receipts'[r][k] = receipts[r][k]

LEMMA InstallEffect ==
  ASSUME IInv, NEW r \in Secondaries, SecInstall(r), NEW m, m = Head(inbox[r])
  PROVE  Installs(r, m)
<1>. USE DEF IInv
<1>1. Receives(r, "control") /\ r \in Routers
  BY DEF SecInstall, Secondaries, Routers
<1>2. m \in ToSet(inbox[r]) /\ m.kind = "control" /\ FitsControl(r, m)
  BY <1>1, HeadFits
<1>3. Asked(Request(r, m.rule))
  BY <1>2 DEF FitsControl, Issued
<1>4. m.rule \in Rules
  <2>1. Request(r, m.rule).rule \in Rules
    BY <1>3, AskedType DEF BaseOK
  <2>. QED
    BY <2>1 DEF Request
<1>5. /\ rules' = [rules EXCEPT ![r] =
              Put(@, m.rule.key, [action |-> m.rule.action, port |-> m.rule.port])]
      /\ receipts' = [receipts EXCEPT ![r] = Put(@, m.rule, CountOf(r, m.rule) + 1)]
      /\ CountOf(r, m.rule) < DropAfter
  BY DEF SecInstall
<1>7. CountOf(r, m.rule) + 1 \in 1..DropAfter
  <2>1. DropAfter \in Nat \ {0}
    BY ScenarioTypes DEF BaseOK
  <2>2. CountOf(r, m.rule) \in 0..DropAfter
    BY <2>1 DEF CountOf, ReceiptsOK
  <2>. QED
    BY <1>5, <2>1, <2>2
<1>8. /\ DOMAIN rules' = Secondaries /\ DOMAIN receipts' = Secondaries
      /\ \A t \in Secondaries \ {r} : rules'[t] = rules[t] /\ receipts'[t] = receipts[t]
      /\ rules'[r] = Put(rules[r], m.rule.key, [action |-> m.rule.action, port |-> m.rule.port])
      /\ receipts'[r] = Put(receipts[r], m.rule, CountOf(r, m.rule) + 1)
  BY <1>5 DEF RulesOK, ReceiptsOK
<1>9. m.rule = Rule(m.rule.key, m.rule.action, m.rule.port)
  BY <1>4 DEF Rules, Rule
<1>10. \E f \in scenario.flows : Asks(f, Request(r, m.rule))
  BY <1>3 DEF Asked
<1>11. /\ DOMAIN rules'[r] = DOMAIN rules[r] \cup {m.rule.key}
       /\ rules'[r][m.rule.key] = [action |-> m.rule.action, port |-> m.rule.port]
       /\ \A e \in DOMAIN rules[r] \ {m.rule.key} : rules'[r][e] = rules[r][e]
  <2>1. PICK g, f, x, y : /\ g = rules'[r] /\ f = rules[r] /\ x = m.rule.key
                          /\ y = [action |-> m.rule.action, port |-> m.rule.port]
    OBVIOUS
  <2>2. g = Put(f, x, y)
    BY <1>8, <2>1
  <2>3. DOMAIN g = DOMAIN f \cup {x} /\ g[x] = y /\ \A z \in DOMAIN f \ {x} : g[z] = f[z]
    BY <2>2 DEF Put
  <2>. QED
    BY <2>1, <2>3
<1>12. /\ DOMAIN receipts'[r] = DOMAIN receipts[r] \cup {m.rule}
       /\ receipts'[r][m.rule] = CountOf(r, m.rule) + 1
       /\ \A k \in DOMAIN receipts[r] \ {m.rule} : receipts'[r][k] = receipts[r][k]
  <2>1. PICK g, f, x, y : /\ g = receipts'[r] /\ f = receipts[r] /\ x = m.rule
                          /\ y = CountOf(r, m.rule) + 1
    OBVIOUS
  <2>2. g = Put(f, x, y)
    BY <1>8, <2>1
  <2>3. DOMAIN g = DOMAIN f \cup {x} /\ g[x] = y /\ \A z \in DOMAIN f \ {x} : g[z] = f[z]
    BY <2>2 DEF Put
  <2>. QED
    BY <2>1, <2>3
<1>13. \A k \in DOMAIN receipts'[r] :
         \/ k = m.rule /\ receipts'[r][k] \in 1..DropAfter
         \/ k \in DOMAIN receipts[r] /\ receipts'[r][k] = receipts[r][k]
  BY <1>7, <1>12
<1>. HIDE DEF IInv
<1>. QED
  BY <1>2, <1>4, <1>8, <1>9, <1>10, <1>11, <1>13 DEF Installs

LEMMA NextRules ==
  ASSUME IInv, [Next]_vars
  PROVE  /\ RulesOK' /\ ReceiptsOK'
         /\ \A r \in Secondaries : DOMAIN rules[r] \subseteq DOMAIN rules'[r]
<1>0. /\ scenario' = scenario
      /\ \A q : Asked(q) => Asked(q)'
  BY StepKeeps, FactsKept DEF IInv
<1>1. CASE UNCHANGED <<rules, receipts>>
  <2>1. ASSUME NEW r \in Secondaries, NEW e \in DOMAIN rules'[r]
        PROVE  Asked(RequestOf(r, e))'
    <3>1. PICK q : q = RequestOf(r, e)
      OBVIOUS
    <3>2. Asked(q)'
      BY <1>0, <1>1, <2>1, <3>1 DEF IInv, RulesOK
    <3>3. RequestOf(r, e)' = q
      BY <1>1, <3>1 DEF RequestOf
    <3>. QED
      BY <3>2, <3>3
  <2>2. RulesOK'
    BY <1>1, <2>1 DEF IInv, RulesOK
  <2>. QED
    BY <1>0, <1>1, <2>2 DEF IInv, ReceiptsOK, DropAfter, Request
<1>2. ASSUME NEW r \in Secondaries, SecInstall(r)
      PROVE  /\ RulesOK' /\ ReceiptsOK'
             /\ \A t \in Secondaries : DOMAIN rules[t] \subseteq DOMAIN rules'[t]
  <2>1. PICK m : m = Head(inbox[r])
    OBVIOUS
  <2>2. Installs(r, m)
    BY <1>2, <2>1, InstallEffect
  <2>3. ASSUME NEW t \in Secondaries, NEW e, e \in DOMAIN rules'[t]
        PROVE  Asked(RequestOf(t, e))'
    <3>1. CASE t = r /\ e = m.rule.key
      <4>1. RequestOf(t, e)' = Request(r, m.rule)
        BY <2>2, <3>1 DEF RequestOf, Installs
      <4>2. PICK q : q = Request(r, m.rule)
        OBVIOUS
      <4>3. Asked(q)
        BY <2>2, <4>2 DEF Asked, Installs
      <4>. QED
        BY <1>0, <4>1, <4>2, <4>3
    <3>2. CASE ~(t = r /\ e = m.rule.key)
      <4>1. e \in DOMAIN rules[t] /\ rules'[t][e] = rules[t][e]
        BY <2>2, <2>3, <3>2 DEF Installs
      <4>2. PICK q : q = RequestOf(t, e)
        OBVIOUS
      <4>3. RequestOf(t, e)' = q
        BY <4>1, <4>2 DEF RequestOf
      <4>4. Asked(q)
        BY <4>1, <4>2 DEF IInv, RulesOK
      <4>. QED
        BY <1>0, <4>3, <4>4
    <3>. QED
      BY <3>1, <3>2
  <2>4. RulesOK'
    BY <2>2, <2>3 DEF RulesOK, Installs
  <2>5. DropAfter' = DropAfter
    BY <1>0 DEF DropAfter
  <2>6. ReceiptsOK'
    <3>1. ASSUME NEW t \in Secondaries, NEW k, k \in DOMAIN receipts'[t]
          PROVE  /\ k \in Rules /\ receipts'[t][k] \in 1..DropAfter
                 /\ Asked(Request(t, k))
      <4>1. CASE k = m.rule /\ t = r
        BY <2>2, <3>1, <4>1 DEF IInv, ReceiptsOK, Installs, Asked
      <4>2. CASE ~(k = m.rule /\ t = r)
        BY <2>2, <3>1, <4>2 DEF IInv, ReceiptsOK, Installs
      <4>. QED
        BY <4>1, <4>2
    <3>2. \A t, k : Request(t, k)' = Request(t, k)
      BY DEF Request
    <3>. QED
      BY <1>0, <2>2, <2>5, <3>1, <3>2 DEF ReceiptsOK, Installs
  <2>. QED
    BY <2>2, <2>4, <2>6 DEF Installs
<1>. QED
  BY <1>1, <1>2, RulesSteps

\* What may leave by a raw rule.
LEMMA RawRules ==
  ASSUME BaseOK, RulesOK, NEW r \in Secondaries, NEW e \in DOMAIN rules[r],
         rules[r][e] = [action |-> Forward, port |-> Raw]
  PROVE  e \in scenario.flows /\ MayLeave(r, e) /\ stage > 3
<1>1. PICK q : q = RequestOf(r, e)
  OBVIOUS
<1>2. q = Request(r, Rule(e, Forward, Raw))
  BY <1>1 DEF RequestOf
<1>3. PICK f \in scenario.flows : Asks(f, q)
  BY <1>1 DEF RulesOK, Asked
<1>4. /\ q.to = r /\ q.rule.key = e /\ q.rule.action = Forward /\ q.rule.port = Raw
      /\ q.rule = Rule(e, Forward, Raw)
  BY <1>2 DEF Request, Rule
<1>5. \A k, a, p : Rule(k, a, p).key = k /\ Rule(k, a, p).action = a /\ Rule(k, a, p).port = p
  BY DEF Rule
<1>6. Raw # Primary /\ Raw # R1 /\ Raw # R2 /\ Forward # Reply
  BY DEF Raw, Primary, R1, R2, Forward, Reply
<1>7. stage > 3 /\ q.rule = Rule(f, Forward, Raw) /\ MayLeave(q.to, f)
  BY <1>3, <1>4, <1>5, <1>6 DEF Asks
<1>. QED
  BY <1>4, <1>5, <1>7

LEMMA NextOut ==
  ASSUME IInv, [Next]_vars
  PROVE  OutOK'
<1>. USE DEF IInv
<1>0. /\ scenario' = scenario /\ stage' = stage
      /\ \A r, e : MayLeave(r, e) => MayLeave(r, e)'
      /\ \A r \in Secondaries : DOMAIN rules[r] \subseteq DOMAIN rules'[r]
  BY StepKeeps, FactsKept, NextRules DEF stage
<1>1. ASSUME UNCHANGED <<oriSrcAddr, out>>
      PROVE  OutOK'
  BY <1>0, <1>1 DEF OutOK
<1>2. ASSUME NEW r \in Secondaries, NEW e, e \in scenario.flows, MayLeave(r, e),
             stage > 3 => e \in DOMAIN rules[r], stage <= 3 => IsIcmp(e),
             oriSrcAddr' = [oriSrcAddr EXCEPT ![r] = e.srcIp],
             out' = [out EXCEPT ![r] = @ \cup {e}]
      PROVE  OutOK'
  <2>1. e.srcIp \in 0..AnyIp
    BY <1>2, EntryTypes, ScenarioTypes DEF BaseOK, Entry
  <2>2. DOMAIN oriSrcAddr' = Secondaries /\ DOMAIN out' = Secondaries
    BY <1>2 DEF OutOK
  <2>3. ASSUME NEW t \in Secondaries
        PROVE  /\ oriSrcAddr'[t] = IF t = r THEN e.srcIp ELSE oriSrcAddr[t]
               /\ out'[t] = IF t = r THEN out[r] \cup {e} ELSE out[t]
    BY <1>2 DEF OutOK
  <2>4. ASSUME NEW t \in Secondaries
        PROVE  oriSrcAddr'[t] \in 0..AnyIp
    BY <2>1, <2>3 DEF OutOK
  <2>5. ASSUME NEW t \in Secondaries, NEW g, g \in out'[t]
        PROVE  /\ g \in scenario'.flows /\ MayLeave(t, g)'
               /\ stage' > 3 => g \in DOMAIN rules'[t]
               /\ stage' <= 3 => /\ IsIcmp(g)
                                 /\ \E h \in scenario'.flows :
                                      IsIcmp(h) /\ oriSrcAddr'[t] = h.srcIp
    <3>1. CASE t = r /\ g = e
      BY <1>0, <1>2, <2>3, <3>1
    <3>2. CASE g \in out[t]
      BY <1>0, <1>2, <2>3, <3>2 DEF OutOK
    <3>. QED
      BY <2>3, <2>5, <3>1, <3>2
  <2>. QED
    BY <2>2, <2>4, <2>5 DEF OutOK
<1>3. ASSUME NEW f, TunnelKinds(f)
      PROVE  OutOK'
  BY <1>1, <1>3 DEF TunnelKinds, TunnelPlain, TunnelOther, rest, secVars
<1>4. CASE PriStep
  BY <1>1, <1>4 DEF PriStep, SendNext, Retransmit, SocketAck, SocketData, SocketAuth,
     PriIdle, secVars
<1>5. ASSUME NEW r \in Secondaries, SecData(r)
      PROVE  OutOK'
  <2>1. PICK e : e = Head(inbox[r]).entry
    OBVIOUS
  <2>2. CASE UNCHANGED <<oriSrcAddr, out>>
    BY <1>1, <2>2
  <2>3. CASE Leaves(r, e) /\ oriSrcAddr' = [oriSrcAddr EXCEPT ![r] = e.srcIp]
    <3>1. e \in DOMAIN rules[r]
      BY <1>5, <2>1 DEF SecData
    <3>2. e \in scenario.flows /\ MayLeave(r, e) /\ stage > 3
      BY <2>3, <3>1, RawRules DEF Leaves
    <3>3. ~(stage <= 3)
      BY <3>2, ScenarioTypes DEF BaseOK
    <3>. QED
      BY <1>2, <2>3, <3>1, <3>2, <3>3 DEF Leaves
  <2>. QED
    BY <1>5, <2>1, <2>2, <2>3 DEF SecData
<1>6. ASSUME NEW r \in Secondaries, SecPlain(r)
      PROVE  OutOK'
  <2>1. PICK m : m = Head(inbox[r])
    OBVIOUS
  <2>2. CASE UNCHANGED <<oriSrcAddr, out>>
    BY <1>1, <2>2
  <2>3. CASE /\ oriSrcAddr' = [oriSrcAddr EXCEPT ![r] = m.entry.srcIp]
             /\ out' = [out EXCEPT ![r] = @ \cup {m.entry}]
    <3>1. stage \in {2, 3} /\ Receives(r, "data") /\ r \in Routers /\ r # Primary
      BY <1>6 DEF SecPlain, Secondaries, Routers, R1, R2, R3, Primary
    <3>2. FitsData(r, m)
      BY <2>1, <3>1, HeadFits
    <3>3. r = R1 /\ m.entry \in scenario.flows /\ IsIcmp(m.entry)
      BY <3>1, <3>2 DEF FitsData
    <3>4. MayLeave(r, m.entry) /\ ~(stage > 3)
      BY <3>1, <3>3 DEF MayLeave
    <3>. QED
      BY <1>2, <2>3, <3>3, <3>4
  <2>. QED
    BY <1>6, <2>1, <2>2, <2>3 DEF SecPlain
<1>7. ASSUME NEW r \in Secondaries, SecStep(r), ~SecData(r), ~SecPlain(r)
      PROVE  OutOK'
  BY <1>1, <1>7 DEF SecStep, SecInstall, SecDrop, SecNoRule, RawIcmp, RawTcp, RawAnswer,
     SecIdle, RawPlain, secVars
<1>8. CASE PortalSends \/ (\E r \in Routers : Lose(r)) \/ UNCHANGED vars
  BY <1>1, <1>8 DEF PortalSends, Lose, vars, secVars
<1>. QED
  BY <1>3, <1>4, <1>5, <1>6, <1>7, <1>8, TunnelIsOfAKind DEF Next

LEMMA NextIInv == IInv /\ [Next]_vars => IInv'
<1>. SUFFICES ASSUME IInv, [Next]_vars PROVE IInv'
  OBVIOUS
<1>1. BaseOK' /\ TodoOK' /\ UnAckOK'
  BY NextBase, NextTodo, NextUnAck DEF IInv
<1>2. BoxOK' /\ RulesOK' /\ ReceiptsOK' /\ OutOK'
  BY NextBox, NextRules, NextOut
<1>. QED
  BY <1>1, <1>2 DEF IInv

LEMMA AlwaysIInv == Spec => []IInv
  BY InitIInv, NextIInv, PTL DEF Spec

-----------------------------------------------------------------------------
(* What the invariant shows *)

LEMMA MessageTypes ==
  ASSUME BaseOK
  PROVE  /\ \A s, k : s \in Numbers \cup AuthSeqs \cup {0} /\ k \in Rules =>
              Control(s, k) \in Message
         /\ \A s, k, r : s \in Numbers \cup AuthSeqs \cup {0} /\ k \in Rules /\ r \in Secondaries =>
              Ack(s, k, r) \in Message
         /\ \A e, r : e \in LookedUp /\ r \in Routers => Data(e, r) \in Message
         /\ \A s, e : s \in AuthSeqs /\ e \in Entries => Auth(s, e) \in Message
<1>1. ASSUME NEW s \in Numbers \cup AuthSeqs \cup {0}, NEW k \in Rules
      PROVE  Control(s, k) \in Message
  BY DEF Control, Message
<1>2. ASSUME NEW s \in Numbers \cup AuthSeqs \cup {0}, NEW k \in Rules, NEW r \in Secondaries
      PROVE  Ack(s, k, r) \in Message
  BY DEF Ack, Message
<1>3. ASSUME NEW e \in LookedUp, NEW r \in Routers
      PROVE  Data(e, r) \in Message
  BY DEF Data, Message
<1>4. ASSUME NEW s \in AuthSeqs, NEW e \in Entries
      PROVE  Auth(s, e) \in Message
  BY DEF Auth, Message
<1>. QED
  BY <1>1, <1>2, <1>3, <1>4

LEMMA IssuedTypes ==
  ASSUME BaseOK, NEW r, NEW m, Issued(r, m)
  PROVE  m.rule \in Rules /\ m.seq \in Numbers \cup AuthSeqs \cup {0}
<1>1. PICK q : q = Request(r, m.rule)
  OBVIOUS
<1>2. q.rule \in Rules
  BY <1>1, AskedType DEF Issued, BaseOK
<1>. QED
  BY <1>1, <1>2 DEF Request, Issued, Owned

\* Whatever fits is a message of its type.
LEMMA FitsMessage ==
  ASSUME BaseOK, NEW r, NEW m, Fits(r, m)
  PROVE  m \in Message
<1>1. CASE FitsControl(r, m)
  BY <1>1, IssuedTypes, MessageTypes DEF FitsControl
<1>2. CASE FitsAck(r, m)
  BY <1>2, IssuedTypes, MessageTypes DEF FitsAck
<1>3. CASE FitsAuth(r, m)
  BY <1>3, MessageTypes, EntryTypes, ScenarioTypes DEF FitsAuth, AtPortal, BaseOK
<1>4. CASE FitsData(r, m)
  BY <1>4, MessageTypes DEF FitsData
<1>. QED
  BY <1>1, <1>2, <1>3, <1>4 DEF Fits

LEMMA ToSendMessage ==
  ASSUME BaseOK, NEW d, ToSend(d)
  PROVE  d.to \in Secondaries /\ d.msg \in Message
<1>1. CASE d.msg = Control(d.msg.seq, d.msg.rule) /\ Issued(d.to, d.msg)
  BY <1>1, IssuedTypes, MessageTypes DEF ToSend
<1>2. ASSUME NEW f \in scenario.flows, d.msg = Data(f, Primary)
      PROVE  d.msg \in Message
  BY <1>2, MessageTypes, EntryTypes, ScenarioTypes DEF BaseOK, Routers
<1>. QED
  BY <1>1, <1>2 DEF ToSend

\* Whatever is sent, lost, sent again or answered, the variables of the routers
\* have their types: every number in use has been counted, every rule names an
\* entry, an action and a port of the program, and every packet that went out
\* had a rule.
THEOREM TypeCorrect == Spec => []TypeOK
<1>1. ASSUME IInv PROVE TypeOK
  <2>. USE <1>1 DEF IInv
  <2>1. \A i \in DOMAIN todo : todo[i].to \in Secondaries /\ todo[i].msg \in Message
    BY ListElements, ToSendMessage DEF TodoOK, IsList
  <2>2. /\ DOMAIN unAck \subseteq Numbers
        /\ \A s \in DOMAIN unAck : unAck[s] \in Requests
    BY AskedType DEF UnAckOK, BaseOK, Request, Requests
  <2>3. Len(authMsg) <= 1 /\ \A i \in DOMAIN authMsg : authMsg[i] \in Flows
    <3>1. CASE authMsg = <<>>
      BY <3>1
    <3>2. ASSUME NEW f \in scenario.flows, authMsg = <<f>>
          PROVE  Len(authMsg) <= 1 /\ \A i \in DOMAIN authMsg : authMsg[i] \in Flows
      <4>1. f \in Flows
        BY ScenarioTypes DEF BaseOK
      <4>. QED
        BY <3>2, <4>1
    <3>. QED
      BY <3>1, <3>2 DEF BaseOK
  <2>4. \A r \in Routers : /\ Len(inbox[r]) <= scenario.rcvBuf
                           /\ \A i \in DOMAIN inbox[r] : inbox[r][i] \in Message
    BY ListElements, FitsMessage DEF BoxOK, IsBox, IsList
  <2>5. \A r \in Secondaries :
          /\ \A e \in DOMAIN rules[r] : RequestOf(r, e) \in Requests
          /\ \A k \in DOMAIN receipts[r] : k \in Rules /\ receipts[r][k] \in 1..DropAfter
    BY RuleTypes DEF ReceiptsOK
  <2>6. \A r \in Secondaries :
          /\ oriSrcAddr[r] \in 0..AnyIp
          /\ out[r] \subseteq IF stage > 3 THEN DOMAIN rules[r] ELSE Flows
    BY ScenarioTypes DEF OutOK, BaseOK
  <2>. QED
    BY <2>1, <2>2, <2>3, <2>4, <2>5, <2>6 DEF TypeOK, BaseOK
<1>. QED
  BY <1>1, AlwaysIInv, PTL

\* Whatever is lost, repeated or late, a packet that leaves the network does so
\* through the router that its stage names for it, and nothing else leaves.
THEOREM OnlyByItsRouter == Spec => []LeavesByItsRouter
<1>1. IInv => LeavesByItsRouter
  BY DEF IInv, OutOK, MayLeave, LeavesByItsRouter
<1>. QED
  BY <1>1, AlwaysIInv, PTL

\* In stage 9 no HTTP packet leaves through R1 before a client has authenticated
\* at the portal, although a rule for it may be sent for long before it arrives.
THEOREM PortalComesFirst == Spec => []PortalFirst
<1>1. \A e : ~(IsIcmp(e) /\ IsWeb(e))
  BY DEF IsIcmp, IsWeb, IsTcp
<1>2. R1 \in Secondaries
  BY DEF Secondaries
<1>3. IInv => PortalFirst
  BY <1>1, <1>2 DEF IInv, OutOK, MayLeave, PortalFirst
<1>. QED
  BY <1>3, AlwaysIInv, PTL

\* However long acknowledgements are under way, one that stops a timer answers
\* that timer's request, or a message of the portal with the same number.
THEOREM StopsItsOwnTimer == Spec => []AcksAreOwn
<1>1. ASSUME IInv PROVE AcksAreOwn
  <2>. USE <1>1 DEF IInv
  <2>1. SUFFICES ASSUME NEW i \in DOMAIN inbox[Primary], NEW m, m = inbox[Primary][i],
                        m.kind = "ack", m.seq \in DOMAIN unAck
                 PROVE  \/ unAck[m.seq] = Request(m.from, m.rule)
                        \/ isAuthenticated /\ m.from = R1 /\ m.seq \in AuthSeqs
    BY DEF AcksAreOwn
  <2>2. Primary \in Routers
    BY DEF Routers
  <2>3. Fits(Primary, m)
    BY <2>1, <2>2, ListElements DEF BoxOK, IsBox, IsList
  <2>4. Issued(m.from, m)
    BY <2>1, <2>3 DEF Fits, FitsControl, FitsData, FitsAuth, FitsAck, Control, Data, Auth
  <2>5. m.seq # 0
    BY <2>1 DEF UnAckOK, Numbers
  <2>. QED
    BY <2>1, <2>4, <2>5 DEF Issued, Owned
<1>. QED
  BY <1>1, AlwaysIInv, PTL

-----------------------------------------------------------------------------
(* Requests once made: no two for one flow and router contradict each other  *)

\* No host talks to itself from a port to the same port.
NobodyMirrored == \A f \in Flows : ReverseEntry(f) # f

\* Requests for the same flow: one router has only one of them, and two
\* routers do not send the flow to and fro between R1 and R2.
Agree(a, b) ==
  a.rule.key = b.rule.key =>
    /\ a.to = b.to => a = b
    /\ ~(a.rule.port = R2 /\ b.rule.port = R1)
    /\ ~(a.rule.port = R1 /\ b.rule.port = R2)

InTodo(q) ==
  \E d \in ToSet(todo) : d.msg.kind = "control" /\ q = Request(d.to, d.msg.rule)

InBox(q) ==
  \E r \in Secondaries : \E m \in ToSet(inbox[r]) :
    m.kind = "control" /\ q = Request(r, m.rule)

InAcks(q) ==
  \E m \in ToSet(inbox[Primary]) : m.kind = "ack" /\ q = Request(m.from, m.rule)

Made == Pending \cup Installed

MadeInv ==
  /\ \A q \in Made : q.rule.key \in table
  /\ \A e \in table : ReverseEntry(e) \in table
  /\ \A a, b \in Made : Agree(a, b)
  /\ \A q : InTodo(q) \/ InBox(q) => q \in Made
  /\ \A q : InAcks(q) => q \in Installed
  /\ ~isAuthenticated

\* Stage 9 gives requests up and makes others for the same flow.
PInv == stage # 9 => MadeInv

LEMMA InInstalled ==
  ASSUME NEW q
  PROVE  q \in Installed <=>
           \E r \in Secondaries : \E e \in DOMAIN rules[r] : q = RequestOf(r, e)
  BY DEF Installed

LEMMA InInstalledNext ==
  ASSUME NEW q
  PROVE  q \in Installed' <=>
           \E r \in Secondaries : \E e \in DOMAIN rules'[r] :
             q = Request(r, Rule(e, rules'[r][e].action, rules'[r][e].port))
  BY DEF Installed, RequestOf

LEMMA InitPInv == Init => PInv
<1>. SUFFICES ASSUME Init PROVE MadeInv
  BY DEF PInv
<1>1. Pending = {} /\ Installed = {} /\ Made = {}
  <2>1. Pending = {}
    BY DEF Init, Pending
  <2>2. \A q : q \notin Installed
    BY InInstalled DEF Init
  <2>. QED
    BY <2>1, <2>2 DEF Made
<1>2. \A q : ~InTodo(q) /\ ~InBox(q) /\ ~InAcks(q)
  BY EmptyList DEF Init, InTodo, InBox, InAcks, Secondaries, Routers
<1>3. table = {} /\ ~isAuthenticated
  BY DEF Init
<1>. QED
  BY <1>1, <1>2, <1>3 DEF MadeInv

\* The requests of one plan agree, unless the flow is its own reverse.
LEMMA PlanAgrees ==
  ASSUME scenario \in Scenarios, NobodyMirrored, stage # 9,
         NEW f \in scenario.flows, NEW r, NEW plan, Chooses(f, r, plan)
  PROVE  /\ \A i \in 1..Len(plan) : plan[i].rule.key \in {f, ReverseEntry(f)}
         /\ \A i, j \in 1..Len(plan) : Agree(plan[i], plan[j])
         /\ plan \in PlansOf(stage, f)
<1>1. ReverseEntry(f) # f
  BY ScenarioTypes DEF NobodyMirrored
<1>2. Raw # R1 /\ Raw # R2 /\ Primary # R1 /\ Primary # R2 /\ R1 # R2
  BY DEF Raw, R1, R2, Primary
<1>3. \A t, e, a, p : /\ Request(t, Rule(e, a, p)).to = t
                      /\ Request(t, Rule(e, a, p)).rule.key = e
                      /\ Request(t, Rule(e, a, p)).rule.port = p
  BY DEF Request, Rule
<1>4. ASSUME NEW t, plan = Pair(t, f, Raw, Primary)
      PROVE  /\ \A i \in 1..Len(plan) : plan[i].rule.key \in {f, ReverseEntry(f)}
             /\ \A i, j \in 1..Len(plan) : Agree(plan[i], plan[j])
  <2>1. /\ Len(plan) = 2
        /\ plan[1] = Request(t, Rule(f, Forward, Raw))
        /\ plan[2] = Request(t, Rule(ReverseEntry(f), Forward, Primary))
    BY <1>4, PairElements
  <2>2. \A i \in 1..2 : i = 1 \/ i = 2
    OBVIOUS
  <2>3. /\ Agree(plan[1], plan[1]) /\ Agree(plan[1], plan[2])
        /\ Agree(plan[2], plan[1]) /\ Agree(plan[2], plan[2])
    BY <1>1, <1>2, <1>3, <2>1 DEF Agree
  <2>. QED
    BY <1>3, <2>1, <2>2, <2>3
<1>5. CASE IsIcmp(f) /\ r \in IcmpTargets /\ plan \in IcmpPlans(f, r)
  <2>1. plan \in PlansOf(stage, f)
    <3>1. PlansOf(stage, f) = UNION {IcmpPlans(f, t) : t \in IcmpTargets}
      <4>1. ~IsWeb(f)
        BY <1>5 DEF IsWeb, IsTcp, IsIcmp
      <4>. QED
        BY <1>5, <4>1, Zenon DEF PlansOf
    <3>2. IcmpPlans(f, r) \in {IcmpPlans(f, t) : t \in IcmpTargets}
      BY <1>5
    <3>. QED
      BY <1>5, <3>1, <3>2
  <2>2. CASE plan = <<Request(r, Rule(f, Reply, AnyPort))>>
    <3>1. Len(plan) = 1 /\ plan[1] = Request(r, Rule(f, Reply, AnyPort))
      BY <2>2
    <3>2. \A i \in 1..1 : i = 1
      OBVIOUS
    <3>3. AnyPort # R1
      BY ScenarioTypes DEF R1
    <3>4. Agree(plan[1], plan[1])
      BY <1>3, <3>1, <3>3 DEF Agree
    <3>. QED
      BY <1>3, <2>1, <3>1, <3>2, <3>4
  <2>3. CASE r = R1 /\ plan = Pair(R1, f, Raw, Primary)
    BY <1>4, <2>1, <2>3
  <2>. QED
    BY <1>5, <2>2, <2>3 DEF IcmpPlans
<1>6. ASSUME IsWeb(f) PROVE ~IsIcmp(f)
  BY <1>6 DEF IsWeb, IsTcp, IsIcmp
<1>7. CASE \/ IsWeb(f) /\ stage = 6 /\ r = Web6(f) /\ plan = Leave(f, r)
           \/ IsWeb(f) /\ stage = 10 /\ r = Web10(f) /\ plan = Leave(f, r)
  <2>1. plan \in PlansOf(stage, f)
    BY <1>6, <1>7 DEF PlansOf
  <2>. QED
    BY <1>4, <1>7, <2>1 DEF Leave
<1>8. CASE IsWeb(f) /\ stage = 7 /\ r = R1 /\ plan = Plan7(f)
  <2>1. plan \in PlansOf(stage, f)
    BY <1>6, <1>8 DEF PlansOf
  <2>2. CASE f.dstPort = 80
    BY <1>4, <1>8, <2>1, <2>2 DEF Plan7
  <2>3. CASE f.dstPort # 80
    <3>1. plan = Chain(f)
      BY <1>8, <2>3 DEF Plan7
    <3>2. PICK S : Pair(R1, f, R2, Primary) \in Seq(S) /\ Pair(R2, f, Raw, R1) \in Seq(S)
      <4>1. Pair(R1, f, R2, Primary) \in Seq({Request(R1, Rule(f, Forward, R2)),
              Request(R1, Rule(ReverseEntry(f), Forward, Primary)),
              Request(R2, Rule(f, Forward, Raw)),
              Request(R2, Rule(ReverseEntry(f), Forward, R1))})
        BY DEF Pair
      <4>2. Pair(R2, f, Raw, R1) \in Seq({Request(R1, Rule(f, Forward, R2)),
              Request(R1, Rule(ReverseEntry(f), Forward, Primary)),
              Request(R2, Rule(f, Forward, Raw)),
              Request(R2, Rule(ReverseEntry(f), Forward, R1))})
        BY DEF Pair
      <4>. QED
        BY <4>1, <4>2
    <3>3. /\ Len(plan) = 4
          /\ plan[1] = Request(R1, Rule(f, Forward, R2))
          /\ plan[2] = Request(R1, Rule(ReverseEntry(f), Forward, Primary))
          /\ plan[3] = Request(R2, Rule(f, Forward, Raw))
          /\ plan[4] = Request(R2, Rule(ReverseEntry(f), Forward, R1))
      BY <3>1, <3>2, ChainElements
    <3>4. \A i \in 1..4 : i = 1 \/ i = 2 \/ i = 3 \/ i = 4
      OBVIOUS
    <3>5. \A i \in {1, 3}, j \in {2, 4} :
            Agree(plan[i], plan[j]) /\ Agree(plan[j], plan[i])
      BY <1>1, <1>3, <3>3 DEF Agree
    <3>6. /\ \A i \in {1, 3}, j \in {1, 3} : Agree(plan[i], plan[j])
          /\ \A i \in {2, 4}, j \in {2, 4} : Agree(plan[i], plan[j])
      BY <1>2, <1>3, <3>3 DEF Agree
    <3>7. \A i, j \in 1..4 : Agree(plan[i], plan[j])
      BY <3>4, <3>5, <3>6
    <3>8. \A i \in 1..4 : plan[i].rule.key \in {f, ReverseEntry(f)}
      BY <1>3, <3>3, <3>4
    <3>. QED
      BY <2>1, <3>3, <3>7, <3>8
  <2>. QED
    BY <2>2, <2>3
<1>. QED
  BY <1>5, <1>7, <1>8 DEF Chooses

\* A step of a stage other than 9: it makes no request, makes those of a new
\* flow, or stops a timer.
LEMMA RequestSteps ==
  ASSUME IInv, stage # 9, [Next]_vars
  PROVE  \/ /\ Uncounted
            /\ \A d \in ToSet(todo') : d \in ToSet(todo) \/ d.msg.kind = "data"
         \/ \E f \in scenario.flows : \E r, plan :
              Chooses(f, r, plan) /\ New(f, r, plan) /\ UNCHANGED rest
         \/ SocketAck
<1>. USE DEF IInv
<1>1. ASSUME NEW f \in scenario.flows, TunnelKinds(f)
      PROVE  \/ /\ Uncounted
                /\ \A d \in ToSet(todo') : d \in ToSet(todo) \/ d.msg.kind = "data"
             \/ \E r, plan : Chooses(f, r, plan) /\ New(f, r, plan) /\ UNCHANGED rest
  <2>1. \A t : LET d == [to |-> t, msg |-> Data(f, Primary)] IN d.msg.kind = "data"
    BY DEF Data
  <2>2. CASE TunnelPlain(f)
    BY <2>2 DEF TunnelPlain, priVars, Uncounted
  <2>3. CASE TunnelOther(f)
    BY <2>1, <2>3, SingleList DEF TunnelOther, rest, Uncounted, portalVars
  <2>4. ASSUME NEW r, NEW plan, Known(f, r), UNCHANGED rest, authMsg' = authMsg
        PROVE  /\ Uncounted
               /\ \A d \in ToSet(todo') : d \in ToSet(todo) \/ d.msg.kind = "data"
    BY <2>1, <2>4, SingleList DEF Known, rest, Uncounted, portalVars
  <2>. QED
    BY <1>1, <2>2, <2>3, <2>4 DEF TunnelKinds
<1>2. CASE SendNext
  <2>1. ToSet(Tail(todo)) \subseteq ToSet(todo)
    BY <1>2, TailList DEF SendNext, TodoOK
  <2>. QED
    BY <1>2, <2>1 DEF SendNext, Uncounted
<1>3. ~SocketAuth
  <2>1. SUFFICES ASSUME SocketAuth PROVE FALSE
    OBVIOUS
  <2>2. PICK m : m = Head(inbox[Primary])
    OBVIOUS
  <2>3. Receives(Primary, "auth") /\ Primary \in Routers
    BY <2>1 DEF SocketAuth, Routers
  <2>4. FitsAuth(Primary, m)
    BY <2>2, <2>3, HeadFits
  <2>. QED
    BY <2>4 DEF FitsAuth, AtPortal
<1>4. CASE (\E s \in DOMAIN unAck : Retransmit(s)) \/ SocketData \/ PriIdle
  BY <1>4 DEF Retransmit, SocketData, PriIdle, priVars, portalVars, Uncounted
<1>5. ASSUME NEW r \in Secondaries, SecStep(r)
      PROVE  Uncounted /\ todo' = todo
  BY <1>5 DEF SecStep, SecInstall, SecDrop, SecData, SecNoRule, RawIcmp,
     RawTcp, RawAnswer, SecIdle, SecPlain, RawPlain, priVars, Uncounted
<1>6. CASE PortalSends \/ (\E r \in Routers : Lose(r)) \/ UNCHANGED vars
  BY <1>6 DEF PortalSends, Lose, vars, priVars, Uncounted
<1>. QED
  BY <1>1, <1>2, <1>3, <1>4, <1>5, <1>6, TunnelIsOfAKind DEF Next, PriStep

\* The requests in force stay so, and a message received from the primary
\* brings its own into force.
LEMMA InstalledSteps ==
  ASSUME IInv, MadeInv, [Next]_vars
  PROVE  /\ \/ Installed' = Installed
            \/ \E r \in Secondaries : \E q :
                 InBox(q) /\ Installed' = Installed \cup {q} /\ SecInstall(r)
         /\ \A r \in Secondaries : \A m :
              SecInstall(r) /\ m = Head(inbox[r]) => Request(r, m.rule) \in Installed'
<1>1. ASSUME NEW r \in Secondaries, SecInstall(r), NEW m, m = Head(inbox[r])
      PROVE  /\ InBox(Request(r, m.rule))
             /\ Installed' = Installed \cup {Request(r, m.rule)}
  <2>1. Installs(r, m)
    BY <1>1, InstallEffect
  <2>2. InBox(Request(r, m.rule))
    BY <2>1 DEF InBox, Installs
  <2>3. PICK q : q = Request(r, m.rule)
    OBVIOUS
  <2>4. /\ q = Request(r, Rule(m.rule.key, m.rule.action, m.rule.port))
        /\ q \in Made
    BY <2>1, <2>2, <2>3 DEF Installs, MadeInv
  <2>5. q \in Installed'
    <3>1. /\ m.rule.key \in DOMAIN rules'[r]
          /\ q = Request(r, Rule(m.rule.key, rules'[r][m.rule.key].action,
                                 rules'[r][m.rule.key].port))
      BY <2>1, <2>4 DEF Installs
    <3>. QED
      BY <3>1, InInstalledNext
  <2>6. ASSUME NEW p, p \in Installed
        PROVE  p \in Installed'
    <3>1. PICK t \in Secondaries : \E e \in DOMAIN rules[t] : p = RequestOf(t, e)
      BY <2>6, InInstalled
    <3>2. PICK e \in DOMAIN rules[t] : p = RequestOf(t, e)
      BY <3>1
    <3>3. CASE t = r /\ e = m.rule.key
      <4>1. p.to = r /\ p.rule.key = m.rule.key /\ q.to = r /\ q.rule.key = m.rule.key
        BY <2>4, <3>2, <3>3 DEF RequestOf, Request, Rule
      <4>2. p \in Made /\ Agree(p, q)
        BY <2>4, <2>6 DEF Made, MadeInv
      <4>. QED
        BY <2>5, <4>1, <4>2 DEF Agree
    <3>4. CASE ~(t = r /\ e = m.rule.key)
      <4>1. e \in DOMAIN rules'[t] /\ rules'[t][e] = rules[t][e]
        BY <2>1, <3>4 DEF Installs
      <4>2. p = Request(t, Rule(e, rules'[t][e].action, rules'[t][e].port))
        BY <3>2, <4>1 DEF RequestOf
      <4>. QED
        BY <4>1, <4>2, InInstalledNext
    <3>. QED
      BY <3>3, <3>4
  <2>7. ASSUME NEW p, p \in Installed'
        PROVE  p \in Installed \/ p = q
    <3>1. PICK t \in Secondaries : \E e \in DOMAIN rules'[t] :
             p = Request(t, Rule(e, rules'[t][e].action, rules'[t][e].port))
      BY <2>7, InInstalledNext
    <3>2. PICK e \in DOMAIN rules'[t] :
             p = Request(t, Rule(e, rules'[t][e].action, rules'[t][e].port))
      BY <3>1
    <3>3. CASE t = r /\ e = m.rule.key
      <4>1. p = q
        BY <2>1, <2>4, <3>2, <3>3 DEF Installs
      <4>. QED
        BY <4>1
    <3>4. CASE ~(t = r /\ e = m.rule.key)
      <4>1. e \in DOMAIN rules[t] /\ rules'[t][e] = rules[t][e]
        BY <2>1, <3>4 DEF Installs
      <4>2. p = RequestOf(t, e)
        BY <3>2, <4>1 DEF RequestOf
      <4>. QED
        BY <4>1, <4>2, InInstalled
    <3>. QED
      BY <3>3, <3>4
  <2>8. Installed' = Installed \cup {q}
    BY <2>5, <2>6, <2>7
  <2>. QED
    BY <2>2, <2>3, <2>8
<1>2. ASSUME UNCHANGED rules PROVE Installed' = Installed
  BY <1>2 DEF Installed, RequestOf
<1>3. ASSUME NEW r \in Secondaries, SecInstall(r)
      PROVE  \E q : InBox(q) /\ Installed' = Installed \cup {q}
  <2>1. PICK m : m = Head(inbox[r])
    OBVIOUS
  <2>. QED
    BY <1>1, <1>3, <2>1
<1>4. ASSUME NEW r \in Secondaries, SecInstall(r), NEW m, m = Head(inbox[r])
      PROVE  Request(r, m.rule) \in Installed'
  BY <1>1, <1>4
<1>. QED
  BY <1>2, <1>3, <1>4, RulesSteps

\* Control messages and acknowledgements under way are of requests that were
\* to be sent, awaited or under way before, or are in force now.
LEMMA BoxSteps ==
  ASSUME IInv, MadeInv, [Next]_vars, NEW q
  PROVE  /\ InBox(q)' => InBox(q) \/ InTodo(q) \/ q \in Pending
         /\ InAcks(q)' => InAcks(q) \/ q \in Installed'
<1>0. Delivers
  BY StepDelivers
<1>1. /\ \A e, r : Data(e, r).kind = "data"
      /\ \A s, k : Control(s, k).kind = "control" /\ Control(s, k).rule = k
      /\ \A s, k, r : Ack(s, k, r).kind = "ack" /\ Ack(s, k, r).rule = k /\ Ack(s, k, r).from = r
      /\ \A s, e : Auth(s, e).kind = "auth"
  BY DEF Data, Control, Ack, Auth
<1>2. ASSUME InBox(q)'
      PROVE  InBox(q) \/ InTodo(q) \/ q \in Pending
  <2>0. PICK r \in Secondaries :
          \E m \in ToSet(inbox'[r]) : m.kind = "control" /\ q = Request(r, m.rule)
    BY <1>2 DEF InBox
  <2>1. PICK m : m \in ToSet(inbox'[r]) /\ m.kind = "control" /\ q = Request(r, m.rule)
    BY <2>0
  <2>2. r \in Routers
    BY DEF Secondaries, Routers
  <2>3. CASE m \in ToSet(inbox[r])
    BY <2>1, <2>3 DEF InBox
  <2>4. CASE Emitted(r, m)
    <3>1. FromPrimary(r, m)
      BY <1>1, <2>1, <2>4 DEF Emitted, FromRules, Answered, FromPlain, Acknowledged,
         FromPortal
    <3>2. ASSUME NEW s \in DOMAIN unAck, unAck[s].to = r, m = Control(s, unAck[s].rule)
          PROVE  q \in Pending
      <4>1. q = unAck[s]
        BY <1>1, <2>1, <3>2 DEF IInv, UnAckOK
      <4>. QED
        BY <4>1 DEF Pending
    <3>. QED
      BY <1>1, <2>1, <3>1, <3>2 DEF FromPrimary, InTodo
  <2>. QED
    BY <1>0, <2>1, <2>2, <2>3, <2>4 DEF Delivers
<1>3. ASSUME InAcks(q)'
      PROVE  InAcks(q) \/ q \in Installed'
  <2>1. PICK m : /\ m \in ToSet(inbox'[Primary]) /\ m.kind = "ack"
                 /\ q = Request(m.from, m.rule)
    BY <1>3 DEF InAcks
  <2>2. Primary \in Routers
    BY DEF Routers
  <2>3. CASE m \in ToSet(inbox[Primary])
    BY <2>1, <2>3 DEF InAcks
  <2>4. CASE Emitted(Primary, m)
    <3>1. CASE Acknowledged(Primary, m)
      <4>0. PICK r \in Secondaries :
              \E d : SecInstall(r) /\ d = Head(inbox[r]) /\ m = Ack(d.seq, d.rule, r)
        BY <3>1 DEF Acknowledged
      <4>1. PICK d : SecInstall(r) /\ d = Head(inbox[r]) /\ m = Ack(d.seq, d.rule, r)
        BY <4>0
      <4>2. Request(r, d.rule) \in Installed'
        BY <4>1, InstalledSteps
      <4>. QED
        BY <1>1, <2>1, <4>1, <4>2
    <3>2. CASE FromPrimary(Primary, m)
      <4>1. ASSUME NEW d \in ToSet(todo), d.to = Primary, d.msg = m
            PROVE  FALSE
        <5>1. Primary \notin Secondaries
          BY DEF Primary, Secondaries, R1, R2, R3
        <5>. QED
          BY <4>1, <5>1 DEF IInv, TodoOK, ToSend
      <4>. QED
        BY <1>1, <2>1, <3>2, <4>1 DEF FromPrimary
    <3>. QED
      BY <1>1, <2>1, <2>4, <3>1, <3>2 DEF Emitted, FromRules, Answered, FromPlain,
         FromPortal
  <2>. QED
    BY <1>0, <2>1, <2>2, <2>3, <2>4 DEF Delivers
<1>. QED
  BY <1>2, <1>3

\* What a new flow adds to the awaited requests.
LEMMA PendingOfNew ==
  ASSUME BaseOK, UnAckOK, NEW plan \in Seq(Requests), unAck' = Timers(plan)
  PROVE  Pending' = Pending \cup ToSet(plan)
<1>1. /\ DOMAIN plan = 1..Len(plan)
      /\ ToSet(plan) = {plan[i] : i \in 1..Len(plan)}
  BY ToSetByIndex
<1>2. Pending' = {Timers(plan)[s] : s \in DOMAIN Timers(plan)}
  BY DEF Pending
<1>3. ASSUME NEW s \in DOMAIN Timers(plan)
      PROVE  Timers(plan)[s] \in Pending \cup ToSet(plan)
  <2>1. CASE s \in DOMAIN unAck /\ Timers(plan)[s] = unAck[s]
    BY <2>1 DEF Pending
  <2>2. CASE \E i \in 1..Len(plan) : s = seqno + i - 1 /\ Timers(plan)[s] = plan[i]
    BY <1>1, <2>2
  <2>. QED
    BY <2>1, <2>2, TimersOfPlan
<1>4. ASSUME NEW s \in DOMAIN unAck
      PROVE  unAck[s] \in Pending'
  <2>1. s \in DOMAIN Timers(plan) /\ Timers(plan)[s] = unAck[s]
    BY TimersOfPlan DEF UnAckOK
  <2>. QED
    BY <1>2, <2>1
<1>5. ASSUME NEW i \in 1..Len(plan)
      PROVE  plan[i] \in Pending'
  <2>1. seqno + i - 1 \in DOMAIN Timers(plan) /\ Timers(plan)[seqno + i - 1] = plan[i]
    BY TimersOfPlan
  <2>. QED
    BY <1>2, <2>1
<1>. QED
  BY <1>1, <1>2, <1>3, <1>4, <1>5 DEF Pending

\* The requests of a new flow are those of its plan.
LEMMA TodoOfNew ==
  ASSUME NEW plan \in Seq(Requests), NEW f, NEW r, NEW d,
         d \in ToSet(DataLast(Numbered(plan), f, r)), d.msg.kind = "control",
         \A i \in 1..Len(plan) : plan[i] = Request(plan[i].to, plan[i].rule)
  PROVE  Request(d.to, d.msg.rule) \in ToSet(plan)
<1>1. \A e : Data(e, Primary).kind = "data"
  BY DEF Data
<1>2. PICK i \in 1..Len(plan) : d = Numbering(plan, i)
  <2>1. d # [to |-> r, msg |-> Data(f, Primary)]
    BY <1>1
  <2>. QED
    BY <2>1, DataLastElements
<1>3. d.to = plan[i].to /\ d.msg.rule = plan[i].rule
  BY <1>2 DEF Numbering, Control
<1>4. plan[i] \in ToSet(plan)
  BY ToSetByIndex
<1>. QED
  BY <1>3, <1>4

\* In a stage other than 9: the request of a timer that stops is in force.
LEMMA AckEffect ==
  ASSUME IInv, MadeInv, SocketAck
  PROVE  \E q : /\ q \in Installed
                /\ Pending' = Pending \/ (q \in Pending /\ Pending' = Pending \ {q})
<1>1. PICK m : m = Head(inbox[Primary])
  OBVIOUS
<1>2. Receives(Primary, "ack") /\ Primary \in Routers
  BY <1>1 DEF SocketAck, Routers
<1>3. FitsAck(Primary, m) /\ m \in ToSet(inbox[Primary]) /\ m.kind = "ack"
  BY <1>1, <1>2, HeadFits DEF IInv
<1>4. Request(m.from, m.rule) \in Installed
  BY <1>3 DEF MadeInv, InAcks
<1>5. m.seq \in DOMAIN unAck => unAck[m.seq] = Request(m.from, m.rule)
  BY <1>3 DEF FitsAck, Issued, Owned, MadeInv
<1>6. unAck' = [s \in DOMAIN unAck \ {m.seq} |-> unAck[s]]
  BY <1>1 DEF SocketAck
<1>7. Pending' = {unAck[s] : s \in DOMAIN unAck \ {m.seq}}
  BY <1>6 DEF Pending
<1>8. CASE m.seq \notin DOMAIN unAck
  <2>1. Pending' = Pending
    BY <1>7, <1>8 DEF Pending
  <2>. QED
    BY <1>4, <2>1
<1>9. CASE m.seq \in DOMAIN unAck
  <2>1. PICK q : q = Request(m.from, m.rule)
    OBVIOUS
  <2>2. q = unAck[m.seq] /\ q \in Installed /\ q \in Pending
    BY <1>4, <1>5, <1>9, <2>1 DEF Pending
  <2>3. Pending' \subseteq Pending /\ Pending \subseteq Pending' \cup {q}
    BY <1>7, <2>2 DEF Pending
  <2>4. Pending' = Pending \/ Pending' = Pending \ {q}
    BY <2>3
  <2>. QED
    BY <2>2, <2>4
<1>. QED
  BY <1>8, <1>9

LEMMA NextPInv ==
  ASSUME NobodyMirrored, IInv, PInv, [Next]_vars
  PROVE  PInv'
<1>0. scenario' = scenario /\ stage' = stage
  BY StepKeeps DEF IInv, stage
<1>. SUFFICES ASSUME stage # 9 PROVE MadeInv'
  BY <1>0 DEF PInv
<1>1. MadeInv
  BY DEF PInv
<1>a. Made' = Pending' \cup Installed'
  BY DEF Made
<1>b. \A q : InBox(q)' => q \in Made
  BY <1>1, BoxSteps DEF MadeInv, Made
<1>c. Installed \subseteq Installed' /\ Installed' \subseteq Made \cup Installed
  BY <1>1, InstalledSteps DEF MadeInv
<1>d. \A q : InAcks(q)' => q \in Installed'
  BY <1>1, <1>c, BoxSteps DEF MadeInv
<1>2. CASE /\ Uncounted
           /\ \A d \in ToSet(todo') : d \in ToSet(todo) \/ d.msg.kind = "data"
  <2>1. Pending' = Pending /\ table' = table /\ isAuthenticated' = isAuthenticated
    BY <1>2 DEF Uncounted, portalVars, Pending
  <2>2. Made' = Made
    BY <1>a, <1>c, <2>1 DEF Made
  <2>3. \A q : InTodo(q)' => InTodo(q)
    BY <1>2 DEF InTodo
  <2>4. \A a, b : Agree(a, b)' = Agree(a, b)
    BY DEF Agree
  <2>. QED
    BY <1>1, <1>b, <1>d, <2>1, <2>2, <2>3, <2>4 DEF MadeInv
<1>3. ASSUME NEW f \in scenario.flows, NEW r, NEW plan,
             Chooses(f, r, plan), New(f, r, plan), UNCHANGED rest
      PROVE  MadeInv'
  <2>1. /\ plan \in Seq(Requests)
        /\ \A i \in 1..Len(plan) : plan[i] = Request(plan[i].to, plan[i].rule)
    BY <1>3, PlanAsks DEF IInv, BaseOK
  <2>2. /\ f \notin table
        /\ table' = table \cup {f, ReverseEntry(f)}
        /\ todo' = DataLast(Numbered(plan), f, r)
        /\ unAck' = Timers(plan)
        /\ isAuthenticated' = isAuthenticated
        /\ UNCHANGED <<rules>>
    BY <1>3 DEF New, rest, secVars
  <2>3. ReverseEntry(ReverseEntry(f)) = f
    BY ReverseTwice, EntryTypes, ScenarioTypes DEF IInv, BaseOK
  <2>4. ReverseEntry(f) \notin table
    BY <1>1, <2>2, <2>3 DEF MadeInv
  <2>5. /\ \A q \in ToSet(plan) : q.rule.key \in {f, ReverseEntry(f)}
        /\ \A a, b \in ToSet(plan) : Agree(a, b)
    <3>1. ToSet(plan) = {plan[i] : i \in 1..Len(plan)}
      BY <2>1, ToSetByIndex
    <3>2. /\ \A i \in 1..Len(plan) : plan[i].rule.key \in {f, ReverseEntry(f)}
          /\ \A i, j \in 1..Len(plan) : Agree(plan[i], plan[j])
      BY <1>3, PlanAgrees DEF IInv, BaseOK
    <3>. QED
      BY <3>1, <3>2
  <2>6. Installed' = Installed
    BY <2>2 DEF Installed, RequestOf
  <2>7. Pending' = Pending \cup ToSet(plan)
    BY <2>1, <2>2, PendingOfNew DEF IInv
  <2>8. Made' = Made \cup ToSet(plan)
    BY <1>a, <2>6, <2>7 DEF Made
  <2>9. \A q \in Made' : q.rule.key \in table'
    BY <1>1, <2>2, <2>5, <2>8 DEF MadeInv
  <2>10. \A e \in table' : ReverseEntry(e) \in table'
    BY <1>1, <2>2, <2>3 DEF MadeInv
  <2>11. ASSUME NEW a, NEW b, a \in Made', b \in Made'
         PROVE  Agree(a, b)
    <3>1. CASE a \in Made /\ b \in Made
      BY <1>1, <3>1 DEF MadeInv
    <3>2. CASE a \in ToSet(plan) /\ b \in ToSet(plan)
      BY <2>5, <3>2
    <3>3. CASE (a \in Made /\ b \in ToSet(plan)) \/ (b \in Made /\ a \in ToSet(plan))
      <4>1. a.rule.key # b.rule.key
        BY <1>1, <2>2, <2>4, <2>5, <3>3 DEF MadeInv
      <4>. QED
        BY <4>1 DEF Agree
    <3>. QED
      BY <2>8, <2>11, <3>1, <3>2, <3>3
  <2>12. \A a, b : Agree(a, b)' = Agree(a, b)
    BY DEF Agree
  <2>13. ASSUME NEW q, InTodo(q)'
         PROVE  q \in Made'
    <3>1. PICK d : d \in ToSet(todo') /\ d.msg.kind = "control" /\ q = Request(d.to, d.msg.rule)
      BY <2>13 DEF InTodo
    <3>2. q \in ToSet(plan)
      BY <2>1, <2>2, <3>1, TodoOfNew
    <3>. QED
      BY <2>8, <3>2
  <2>14. \A q : InBox(q)' => q \in Made'
    BY <1>b, <2>8
  <2>. QED
    BY <1>1, <1>d, <2>2, <2>9, <2>10, <2>11, <2>12, <2>13, <2>14 DEF MadeInv
<1>4. CASE SocketAck
  <2>1. table' = table /\ todo' = todo /\ isAuthenticated' = isAuthenticated
    BY <1>4 DEF SocketAck, portalVars
  <2>2. Installed' = Installed
    BY <1>4 DEF SocketAck, secVars, Installed, RequestOf
  <2>3. PICK q : /\ q \in Installed
                 /\ Pending' = Pending \/ (q \in Pending /\ Pending' = Pending \ {q})
    BY <1>1, <1>4, AckEffect
  <2>4. Made' = Made
    BY <1>a, <2>2, <2>3 DEF Made
  <2>5. \A p : InTodo(p)' => InTodo(p)
    BY <2>1 DEF InTodo
  <2>6. \A a, b : Agree(a, b)' = Agree(a, b)
    BY DEF Agree
  <2>. QED
    BY <1>1, <1>b, <1>d, <2>1, <2>4, <2>5, <2>6 DEF MadeInv
<1>. QED
  BY <1>2, <1>3, <1>4, RequestSteps

LEMMA AlwaysPInv ==
  ASSUME NobodyMirrored
  PROVE  Spec => [](IInv /\ PInv)
<1>1. Init => IInv /\ PInv
  BY InitIInv, InitPInv
<1>2. IInv /\ PInv /\ [Next]_vars => (IInv /\ PInv)'
  BY NextIInv, NextPInv
<1>. QED
  BY <1>1, <1>2, PTL DEF Spec

\* A rule that sends a flow on to a secondary is one of stage 7's chain.
LEMMA PassedOn ==
  ASSUME BaseOK, RulesOK, NEW r \in Secondaries, NEW e \in DOMAIN rules[r],
         rules[r][e].action = Forward, rules[r][e].port \in Secondaries
  PROVE  /\ stage = 7
         /\ \E f \in scenario.flows :
              /\ Chained(f)
              /\ \/ r = R1 /\ rules[r][e].port = R2 /\ e = f
                 \/ r = R2 /\ rules[r][e].port = R1 /\ e = ReverseEntry(f)
<1>1. PICK q : q = RequestOf(r, e)
  OBVIOUS
<1>2. PICK f \in scenario.flows : Asks(f, q)
  BY <1>1 DEF RulesOK, Asked
<1>3. /\ q.to = r /\ q.rule.key = e
      /\ q.rule.action = Forward /\ q.rule.port = rules[r][e].port
  BY <1>1 DEF RequestOf, Request, Rule
<1>4. \A k, a, p : Rule(k, a, p).key = k /\ Rule(k, a, p).action = a /\ Rule(k, a, p).port = p
  BY DEF Rule
<1>5. Raw \notin Secondaries /\ Primary \notin Secondaries /\ Forward # Reply
  BY DEF Secondaries, Raw, Primary, R1, R2, R3, Forward, Reply
<1>6. /\ Chained(f)
      /\ \/ q.to = R1 /\ q.rule = Rule(f, Forward, R2)
         \/ q.to = R2 /\ q.rule = Rule(ReverseEntry(f), Forward, R1)
  BY <1>2, <1>3, <1>4, <1>5 DEF Asks
<1>. QED
  BY <1>3, <1>4, <1>6 DEF Chained

\* Whichever rules have arrived so far, no packet is sent round in a circle:
\* also not one whose reverse flow has rules of its own.  (A packet of a host to
\* itself, from a port to the same port, would be.)
THEOREM NeverInACircle ==
  ASSUME NobodyMirrored
  PROVE  Spec => []NoLoop
<1>1. ASSUME IInv, PInv
      PROVE  NoLoop
  <2>1. SUFFICES ASSUME NEW e, NEW S \in (SUBSET Secondaries) \ {{}},
                        \A r \in S : /\ e \in DOMAIN rules[r]
                                     /\ rules[r][e].action = Forward
                                     /\ rules[r][e].port \in S
                 PROVE  FALSE
    BY DEF NoLoop
  <2>2. S \subseteq Secondaries /\ \E r : r \in S
    OBVIOUS
  <2>3. \A r \in S : /\ stage = 7
                     /\ \/ r = R1 /\ rules[r][e].port = R2
                        \/ r = R2 /\ rules[r][e].port = R1
    BY <1>1, <2>1, <2>2, PassedOn DEF IInv
  <2>4. /\ stage = 7 /\ R1 \in S /\ R2 \in S
        /\ rules[R1][e].port = R2 /\ rules[R2][e].port = R1
    BY <2>1, <2>2, <2>3 DEF R1, R2
  <2>5. PICK a, b : a = RequestOf(R1, e) /\ b = RequestOf(R2, e)
    OBVIOUS
  <2>6. a \in Made /\ b \in Made
    BY <2>1, <2>2, <2>4, <2>5, InInstalled DEF Made
  <2>7. Agree(a, b)
    BY <1>1, <2>4, <2>6 DEF PInv, MadeInv
  <2>8. a.rule.key = e /\ b.rule.key = e /\ a.rule.port = R2 /\ b.rule.port = R1
    BY <2>4, <2>5 DEF RequestOf, Request, Rule
  <2>. QED
    BY <2>7, <2>8 DEF Agree
<1>. QED
  BY <1>1, AlwaysPInv, PTL

\* A step as RuleInstall sees it.
PromiseStep ==
  \/ UNCHANGED <<table, Pending, Installed>>
  \/ \E f \in Flows : /\ f \notin table /\ table' = table \cup {f, ReverseEntry(f)}
                      /\ \E p \in PlansOf(stage, f) : Pending' = Pending \cup ToSet(p)
                      /\ UNCHANGED Installed
  \/ \E q \in Pending : Installed' = Installed \cup {q} /\ UNCHANGED <<table, Pending>>
  \/ \E q \in Pending : /\ q \in Installed /\ Pending' = Pending \ {q}
                        /\ UNCHANGED <<table, Installed>>

LEMMA StepsPromise ==
  ASSUME NobodyMirrored, IInv, MadeInv, stage # 9, [Next]_vars
  PROVE  PromiseStep
<1>1. CASE Uncounted
  <2>1. table' = table /\ Pending' = Pending
    BY <1>1 DEF Uncounted, Pending
  <2>2. CASE Installed' = Installed
    BY <2>1, <2>2 DEF PromiseStep
  <2>3. ASSUME NEW q, InBox(q), Installed' = Installed \cup {q}
        PROVE  PromiseStep
    <3>1. q \in Pending \/ q \in Installed
      BY <2>3 DEF MadeInv, Made
    <3>2. q \in Installed => Installed' = Installed
      BY <2>3
    <3>. QED
      BY <2>1, <2>3, <3>1, <3>2 DEF PromiseStep
  <2>. QED
    BY <2>2, <2>3, InstalledSteps
<1>2. ASSUME NEW f \in scenario.flows, NEW r, NEW plan,
             Chooses(f, r, plan), New(f, r, plan), UNCHANGED rest
      PROVE  PromiseStep
  <2>1. plan \in Seq(Requests) /\ plan \in PlansOf(stage, f)
    BY <1>2, PlanAsks, PlanAgrees DEF IInv, BaseOK
  <2>2. f \notin table /\ table' = table \cup {f, ReverseEntry(f)} /\ unAck' = Timers(plan)
    BY <1>2 DEF New
  <2>3. Pending' = Pending \cup ToSet(plan)
    BY <2>1, <2>2, PendingOfNew DEF IInv
  <2>4. Installed' = Installed
    BY <1>2 DEF rest, secVars, Installed, RequestOf
  <2>5. f \in Flows
    BY ScenarioTypes DEF IInv, BaseOK
  <2>. QED
    BY <2>1, <2>2, <2>3, <2>4, <2>5 DEF PromiseStep
<1>3. CASE SocketAck
  <2>1. table' = table
    BY <1>3 DEF SocketAck
  <2>2. Installed' = Installed
    BY <1>3 DEF SocketAck, secVars, Installed, RequestOf
  <2>3. PICK q : /\ q \in Installed
                 /\ Pending' = Pending \/ (q \in Pending /\ Pending' = Pending \ {q})
    BY <1>3, AckEffect
  <2>. QED
    BY <2>1, <2>2, <2>3 DEF PromiseStep
<1>. QED
  BY <1>1, <1>2, <1>3, RequestSteps

\* Stages 6, 7 and 10, with several routers and chains of rules, keep the
\* promise of RuleInstall: a request stays awaited until it is in force at its
\* router, one in force is never overwritten by another, and a timer is stopped
\* only for a request in force.
THEOREM ImplementsRuleInstall ==
  ASSUME NobodyMirrored
  PROVE  Spec => KeepsPromise
<1>1. ASSUME IInv, PInv, [Next]_vars
      PROVE  /\ stage = 6 => [Promise6!Next]_(Promise6!rvars)
             /\ stage = 7 => [Promise7!Next]_(Promise7!rvars)
             /\ stage = 10 => [Promise10!Next]_(Promise10!rvars)
  <2>0. \A p : Promise6!ToSet(p) = ToSet(p) /\ Promise7!ToSet(p) = ToSet(p)
                 /\ Promise10!ToSet(p) = ToSet(p)
    BY DEF ToSet, Promise6!ToSet, Promise7!ToSet, Promise10!ToSet
  <2>1. stage \in {6, 7, 10} => PromiseStep
    BY <1>1, StepsPromise DEF PInv
  <2>2. \A s : \A f \in Flows : /\ RequestsOfFlows(s)[f] = PlansOf(s, f)
                                /\ ReverseOf[f] = ReverseEntry(f)
    BY DEF RequestsOfFlows, ReverseOf
  <2>3. ASSUME stage = 6 PROVE [Promise6!Next]_(Promise6!rvars)
    BY <2>0, <2>1, <2>2, <2>3 DEF PromiseStep, Promise6!Next, Promise6!rvars, Promise6!Ask,
       Promise6!Install, Promise6!Confirm
  <2>4. ASSUME stage = 7 PROVE [Promise7!Next]_(Promise7!rvars)
    BY <2>0, <2>1, <2>2, <2>4 DEF PromiseStep, Promise7!Next, Promise7!rvars, Promise7!Ask,
       Promise7!Install, Promise7!Confirm
  <2>5. ASSUME stage = 10 PROVE [Promise10!Next]_(Promise10!rvars)
    BY <2>0, <2>1, <2>2, <2>5 DEF PromiseStep, Promise10!Next, Promise10!rvars,
       Promise10!Ask, Promise10!Install, Promise10!Confirm
  <2>. QED
    BY <2>3, <2>4, <2>5
<1>. QED
  BY <1>1, AlwaysPInv, PTL DEF Spec, KeepsPromise

-----------------------------------------------------------------------------
(* Answers belong to requests *)

\* A packet of flow e is one of a client, or an answer to one, for TCP to one
\* that has left the network.
Answering(e) ==
  \/ e \in scenario.flows
  \/ /\ ReverseEntry(e) \in scenario.flows
     /\ IsTcp(ReverseEntry(e)) => \E r \in Secondaries : ReverseEntry(e) \in out[r]

AnswerInv ==
  DistinctPorts =>
    \A r \in Routers : \A m \in ToSet(inbox[r]) :
      m.kind = "data" => Answering(m.entry)

LEMMA OutGrows ==
  ASSUME OutOK, [Next]_vars, NEW t \in Secondaries
  PROVE  out[t] \subseteq out'[t]
<1>1. ASSUME NEW f, TunnelKinds(f)
      PROVE  out' = out
  BY <1>1 DEF TunnelKinds, TunnelPlain, TunnelOther, rest, secVars
<1>2. ASSUME PriStep
      PROVE  out' = out
  BY <1>2 DEF PriStep, SendNext, Retransmit, SocketAck, SocketData, SocketAuth,
     PriIdle, secVars
<1>3. ASSUME NEW r \in Secondaries, SecStep(r)
      PROVE  out' = out \/ \E e : out' = [out EXCEPT ![r] = @ \cup {e}]
  BY <1>3 DEF SecStep, SecInstall, SecDrop, SecData, Leaves, SecNoRule, RawIcmp, RawTcp,
     RawAnswer, SecIdle, SecPlain, RawPlain, secVars
<1>4. ASSUME PortalSends \/ (\E r \in Routers : Lose(r)) \/ UNCHANGED vars
      PROVE  out' = out
  BY <1>4 DEF PortalSends, Lose, vars, secVars
<1>5. out' = out \/ \E r \in Secondaries : \E e : out' = [out EXCEPT ![r] = @ \cup {e}]
  BY <1>1, <1>2, <1>3, <1>4, TunnelIsOfAKind DEF Next
<1>. QED
  BY <1>5 DEF OutOK

\* Two flows of one client's port to one server's port are the same flow.
LEMMA SameFlow ==
  ASSUME scenario \in Scenarios, DistinctPorts, NEW f \in scenario.flows,
         NEW g \in scenario.flows, NEW a,
         f.srcPort = g.srcPort, a = [ReverseEntry(f) EXCEPT !.dstIp = g.srcIp]
  PROVE  a = ReverseEntry(f)
<1>1. g.srcIp = f.srcIp
  BY DEF DistinctPorts
<1>. QED
  BY <1>1 DEF ReverseEntry

\* A web packet that comes back from the raw socket finds a rule only if it is
\* made out to the client that asked.
LEMMA AnswerOfOut ==
  ASSUME IInv, DistinctPorts, NEW r \in Secondaries, NEW f \in out[r],
         Answer(r, f) \in DOMAIN rules[r]
  PROVE  Answering(Answer(r, f))
<1>. USE DEF IInv
<1>1. PICK a : a = Answer(r, f)
  OBVIOUS
<1>2. PICK q : q = RequestOf(r, a)
  OBVIOUS
<1>3. PICK g \in scenario.flows : Asks(g, q)
  BY <1>1, <1>2 DEF RulesOK, Asked
<1>4. a = g \/ a = ReverseEntry(g)
  <2>1. q.rule.key = a
    BY <1>2 DEF RequestOf, Request, Rule
  <2>2. \A e, c, p : Rule(e, c, p).key = e
    BY DEF Rule
  <2>. QED
    BY <1>3, <2>1, <2>2 DEF Asks
<1>5. CASE a = g
  BY <1>1, <1>3, <1>5 DEF Answering
<1>6. CASE a = ReverseEntry(g)
  <2>1. f \in scenario.flows /\ f \in Entry /\ g \in Entry
    BY EntryTypes, ScenarioTypes DEF OutOK, BaseOK
  <2>2. /\ a.srcIp = f.dstIp /\ a.srcPort = f.dstPort /\ a.dstPort = f.srcPort
        /\ a.protocol = f.protocol
    BY <1>1, <2>1 DEF Answer, ReverseEntry
  <2>3. /\ g.dstIp = f.dstIp /\ g.dstPort = f.dstPort /\ g.srcPort = f.srcPort
        /\ g.protocol = f.protocol
    BY <1>6, <2>2 DEF ReverseEntry
  <2>4. g.srcIp = f.srcIp
    BY <2>1, <2>3 DEF DistinctPorts
  <2>5. g = f
    BY <2>1, <2>3, <2>4 DEF Entry
  <2>6. ReverseEntry(a) = f
    BY <1>6, <2>1, <2>5, ReverseTwice
  <2>. QED
    BY <1>1, <2>1, <2>6 DEF Answering
<1>. QED
  BY <1>4, <1>5, <1>6

LEMMA EmittedAnswers ==
  ASSUME IInv, AnswerInv, DistinctPorts, NEW t \in Routers, NEW d, Emitted(t, d),
         d.kind = "data"
  PROVE  Answering(d.entry)
<1>. USE DEF IInv
<1>1. /\ \A e, r : Data(e, r).kind = "data" /\ Data(e, r).entry = e
      /\ \A s, k : Control(s, k).kind = "control"
      /\ \A s, k, r : Ack(s, k, r).kind = "ack"
      /\ \A s, e : Auth(s, e).kind = "auth"
  BY DEF Data, Control, Ack, Auth
<1>2. \A r \in Secondaries : r \in Routers /\ r # Primary
  BY DEF Secondaries, Routers, R1, R2, R3, Primary
<1>3. \A f \in scenario.flows :
        /\ f \in Entry /\ ReverseEntry(ReverseEntry(f)) = f
        /\ IsIcmp(f) => ~IsTcp(f)
  BY EntryTypes, ScenarioTypes, ReverseTwice DEF BaseOK, IsIcmp, IsTcp
<1>4. CASE FromPrimary(t, d)
  <2>1. ASSUME NEW q \in ToSet(todo), q.to = t, q.msg = d
        PROVE  d.entry \in scenario.flows
    BY <1>1, <2>1 DEF TodoOK, ToSend
  <2>. QED
    BY <1>1, <1>4, <2>1 DEF FromPrimary, Answering
<1>5. CASE FromRules(t, d)
  <2>1. PICK r \in Secondaries, e \in LookedUp :
          /\ e \in DOMAIN rules[r]
          /\ \/ \E from : Data(e, from) \in ToSet(inbox[r])
             \/ \E f \in out[r] : e = Answer(r, f)
          /\ d = Data(e, r)
    BY <1>5 DEF FromRules
  <2>2. CASE \E from : Data(e, from) \in ToSet(inbox[r])
    BY <1>1, <1>2, <2>1, <2>2 DEF AnswerInv
  <2>3. CASE \E f \in out[r] : e = Answer(r, f)
    BY <1>1, <2>1, <2>3, AnswerOfOut
  <2>. QED
    BY <2>1, <2>2, <2>3
<1>6. CASE Answered(t, d)
  <2>1. PICK r \in Secondaries, e \in LookedUp :
          /\ Data(e, t) \in ToSet(inbox[r])
          /\ stage <= 3 \/ (e \in DOMAIN rules[r] /\ rules[r][e].action = Reply)
          /\ d = Data(ReverseEntry(e), r)
    BY <1>6 DEF Answered
  <2>2. e \in scenario.flows /\ IsIcmp(e)
    <3>1. CASE stage <= 3
      <4>1. PICK m : m = Data(e, t)
        OBVIOUS
      <4>2. Fits(r, m)
        BY <1>2, <2>1, <4>1 DEF BoxOK
      <4>3. FitsData(r, m)
        BY <1>1, <4>1, <4>2 DEF Fits, FitsControl, FitsAck, FitsAuth
      <4>. QED
        BY <1>1, <1>2, <3>1, <4>1, <4>3 DEF FitsData
    <3>2. CASE e \in DOMAIN rules[r] /\ rules[r][e].action = Reply
      <4>1. PICK q : q = RequestOf(r, e)
        OBVIOUS
      <4>2. PICK f \in scenario.flows : Asks(f, q)
        BY <3>2, <4>1 DEF RulesOK, Asked
      <4>3. q.rule.key = e /\ q.rule.action = Reply
        BY <3>2, <4>1 DEF RequestOf, Request, Rule
      <4>4. \A k, a, p : Rule(k, a, p).key = k /\ Rule(k, a, p).action = a
        BY DEF Rule
      <4>5. Forward # Reply
        BY DEF Forward, Reply
      <4>. QED
        BY <4>2, <4>3, <4>4, <4>5 DEF Asks
    <3>. QED
      BY <2>1, <3>1, <3>2
  <2>. QED
    BY <1>1, <1>3, <2>1, <2>2 DEF Answering
<1>7. CASE FromPlain(t, d)
  <2>1. PICK r \in Secondaries, f \in Entry : f \in out[r] /\ d = Data(Answer(r, f), r) /\ stage = 3
    BY <1>3, <1>7 DEF FromPlain, OutOK
  <2>2. PICK g \in scenario.flows : IsIcmp(g) /\ oriSrcAddr[r] = g.srcIp
    BY <2>1 DEF OutOK
  <2>3. f \in scenario.flows /\ IsIcmp(f)
    BY <2>1 DEF OutOK
  <2>4. f.srcPort = g.srcPort
    BY <2>2, <2>3, RoutingAssumption DEF BaseOK
  <2>5. Answer(r, f) = ReverseEntry(f)
    <3>1. Answer(r, f) = [ReverseEntry(f) EXCEPT !.dstIp = g.srcIp]
      BY <2>2 DEF Answer
    <3>. QED
      BY <2>2, <2>3, <2>4, <3>1, SameFlow DEF BaseOK
  <2>. QED
    BY <1>1, <1>3, <2>1, <2>3, <2>5 DEF Answering
<1>8. CASE Acknowledged(t, d) \/ FromPortal(t, d)
  BY <1>1, <1>8 DEF Acknowledged, FromPortal
<1>. QED
  BY <1>4, <1>5, <1>6, <1>7, <1>8 DEF Emitted

LEMMA InitAnswerInv == Init => AnswerInv
  BY EmptyList DEF Init, AnswerInv

LEMMA NextAnswerInv ==
  ASSUME IInv, AnswerInv, [Next]_vars
  PROVE  AnswerInv'
<1>1. scenario' = scenario /\ DistinctPorts' = DistinctPorts
  BY StepKeeps DEF IInv, DistinctPorts
<1>2. \A e : Answering(e) => Answering(e)'
  BY <1>1, OutGrows DEF IInv, Answering
<1>3. ASSUME DistinctPorts, NEW r \in Routers, NEW m, m \in ToSet(inbox'[r]), m.kind = "data"
      PROVE  Answering(m.entry)
  <2>1. m \in ToSet(inbox[r]) \/ Emitted(r, m)
    BY <1>3, StepDelivers DEF Delivers
  <2>. QED
    BY <1>3, <2>1, EmittedAnswers DEF AnswerInv
<1>. QED
  BY <1>1, <1>2, <1>3 DEF AnswerInv

\* One variable keeps the client for the answers of all of a router's clients.
\* As long as the clients' ports differ, an answer that reaches the primary
\* all the same belongs to a request of the client it is made out to, and over
\* TCP to one that has left the network.
THEOREM AnswersBelong == Spec => []AnswersRequest
<1>1. Spec => []AnswerInv
  <2>1. Init => IInv /\ AnswerInv
    BY InitIInv, InitAnswerInv
  <2>2. IInv /\ AnswerInv /\ [Next]_vars => (IInv /\ AnswerInv)'
    BY NextIInv, NextAnswerInv
  <2>. QED
    BY <2>1, <2>2, PTL DEF Spec
<1>2. ASSUME IInv, AnswerInv
      PROVE  AnswersRequest
  <2>1. Primary \in Routers
    BY DEF Routers
  <2>2. \A i \in DOMAIN inbox[Primary] : inbox[Primary][i] \in ToSet(inbox[Primary])
    BY <1>2, <2>1, ListElements DEF IInv, BoxOK, IsBox, IsList
  <2>. QED
    BY <1>2, <2>1, <2>2 DEF AnswerInv, Answering, AnswersRequest
<1>. QED
  BY <1>1, <1>2, AlwaysIInv, PTL

-----------------------------------------------------------------------------
(* The order of control messages and packets, as long as nothing is lost    *)

\* Clients do not use the servers' ports as their own.
ClientPorts == \A f \in Flows : IsWeb(f) => f.srcPort \notin {80, 443}

\* Packets that must not come before their rule.
Ruled(m) == m.kind = "data" /\ (IsWeb(m.entry) \/ m.from # Primary)

\* In buffer q, a packet has an entry of K, or follows the rule for it.
InOrder(q, K) ==
  \A i \in DOMAIN q :
    Ruled(q[i]) =>
      \/ q[i].entry \in K
      \/ \E j \in 1..i-1 : q[j].kind = "control" /\ q[j].rule.key = q[i].entry

\* The entries of the control messages in q.
Keys(q) == {m.rule.key : m \in {c \in ToSet(q) : c.kind = "control"}}

LEMMA KeysOfAppend ==
  ASSUME NEW q, IsList(q), NEW d
  PROVE  /\ Keys(q) \subseteq Keys(Append(q, d))
         /\ d.kind = "control" => d.rule.key \in Keys(Append(q, d))
BY AppendList DEF Keys

LEMMA KeysOfTail ==
  ASSUME NEW q, IsList(q), q # <<>>
  PROVE  Keys(q) \subseteq
           Keys(Tail(q)) \cup (IF Head(q).kind = "control" THEN {Head(q).rule.key} ELSE {})
BY TailList DEF Keys

LEMMA InOrderGrows ==
  ASSUME NEW q, NEW K, NEW L, InOrder(q, K), K \subseteq L
  PROVE  InOrder(q, L)
BY DEF InOrder

LEMMA InOrderAppend ==
  ASSUME NEW q, IsList(q), NEW K, InOrder(q, K), NEW d,
         Ruled(d) => d.entry \in K \cup Keys(q)
  PROVE  InOrder(Append(q, d), K)
<1>1. /\ Len(q) \in Nat /\ DOMAIN q = 1..Len(q)
      /\ DOMAIN Append(q, d) = 1..Len(q)+1
      /\ \A i \in 1..Len(q) : Append(q, d)[i] = q[i]
      /\ Append(q, d)[Len(q)+1] = d
  <2>. DEFINE T == ToSet(q) \cup {d}
  <2>1. q \in Seq(T) /\ d \in T
    BY DEF IsList
  <2>. HIDE DEF T
  <2>. QED
    BY <2>1, AppendProperties, LenProperties
<1>2. ASSUME NEW i \in 1..Len(q), Ruled(Append(q, d)[i])
      PROVE  \/ Append(q, d)[i].entry \in K
             \/ \E j \in 1..i-1 : /\ Append(q, d)[j].kind = "control"
                                  /\ Append(q, d)[j].rule.key = Append(q, d)[i].entry
  <2>1. \A j \in 1..i-1 : Append(q, d)[j] = q[j]
    BY <1>1
  <2>. QED
    BY <1>1, <1>2, <2>1 DEF InOrder
<1>3. ASSUME Ruled(d)
      PROVE  \/ d.entry \in K
             \/ \E j \in 1..(Len(q)+1)-1 : /\ Append(q, d)[j].kind = "control"
                                           /\ Append(q, d)[j].rule.key = d.entry
  <2>1. CASE d.entry \in Keys(q)
    <3>1. PICK m \in ToSet(q) : m.kind = "control" /\ m.rule.key = d.entry
      BY <2>1 DEF Keys
    <3>2. PICK j \in 1..Len(q) : m = q[j]
      BY <3>1, ListElements DEF IsList
    <3>3. j \in 1..(Len(q)+1)-1 /\ Append(q, d)[j] = m
      BY <1>1, <3>2
    <3>. QED
      BY <3>1, <3>3
  <2>. QED
    BY <1>3, <2>1
<1>. QED
  BY <1>1, <1>2, <1>3 DEF InOrder

LEMMA InOrderTail ==
  ASSUME NEW q, IsList(q), q # <<>>, NEW K, InOrder(q, K), NEW L, K \subseteq L,
         Head(q).kind = "control" => Head(q).rule.key \in L
  PROVE  InOrder(Tail(q), L)
<1>1. /\ Len(q) \in Nat \ {0} /\ DOMAIN q = 1..Len(q)
      /\ Head(q) = q[1]
      /\ DOMAIN Tail(q) = 1..Len(q)-1
      /\ \A i \in 1..Len(q)-1 : Tail(q)[i] = q[i+1]
  BY HeadTailProperties, EmptySeq, LenProperties DEF IsList
<1>2. ASSUME NEW i \in 1..Len(q)-1, Ruled(Tail(q)[i])
      PROVE  \/ Tail(q)[i].entry \in L
             \/ \E j \in 1..i-1 : /\ Tail(q)[j].kind = "control"
                                  /\ Tail(q)[j].rule.key = Tail(q)[i].entry
  <2>1. i+1 \in DOMAIN q /\ Tail(q)[i] = q[i+1]
    BY <1>1
  <2>2. CASE q[i+1].entry \in K
    BY <2>1, <2>2
  <2>3. ASSUME NEW j \in 1..(i+1)-1, q[j].kind = "control", q[j].rule.key = q[i+1].entry
        PROVE  \/ Tail(q)[i].entry \in L
               \/ \E k \in 1..i-1 : /\ Tail(q)[k].kind = "control"
                                    /\ Tail(q)[k].rule.key = Tail(q)[i].entry
    <3>1. CASE j = 1
      BY <1>1, <2>1, <2>3, <3>1
    <3>2. CASE j # 1
      <4>1. j-1 \in 1..i-1 /\ j-1 \in 1..Len(q)-1 /\ (j-1)+1 = j
        BY <1>1, <3>2
      <4>2. Tail(q)[j-1] = q[j]
        BY <1>1, <4>1
      <4>. QED
        BY <2>1, <2>3, <4>1, <4>2
    <3>. QED
      BY <3>1, <3>2
  <2>. QED
    BY <1>2, <2>1, <2>2, <2>3 DEF InOrder
<1>. QED
  BY <1>1, <1>2 DEF InOrder

\* What the handler at work has still to send is in order: the packet comes last,
\* and the rule that brings answers of a chain back to R1 after R1's own.
BackRule(t, m) == t = R2 /\ m.kind = "control" /\ m.rule.port = R1

HandlerOrder(q, K) ==
  \A j \in DOMAIN q :
    /\ q[j].msg.kind = "data" => j = Len(q)
    /\ BackRule(q[j].to, q[j].msg) =>
         \/ q[j].msg.rule.key \in K
         \/ \E i \in 1..j-1 : /\ q[i].to = R1 /\ q[i].msg.kind = "control"
                              /\ q[i].msg.rule.key = q[j].msg.rule.key

\* The entries of the control messages to router r in q.
KeysTo(r, q) ==
  {d.msg.rule.key : d \in {c \in ToSet(q) : c.to = r /\ c.msg.kind = "control"}}

LEMMA HandlerOrderGrows ==
  ASSUME NEW q, NEW K, HandlerOrder(q, K), NEW L, K \subseteq L
  PROVE  HandlerOrder(q, L)
BY DEF HandlerOrder

LEMMA HandlerOrderHead ==
  ASSUME NEW q, IsList(q), q # <<>>, NEW K, HandlerOrder(q, K)
  PROVE  /\ Head(q).msg.kind = "data" => q = <<Head(q)>>
         /\ BackRule(Head(q).to, Head(q).msg) => Head(q).msg.rule.key \in K
<1>1. /\ Len(q) \in Nat \ {0} /\ DOMAIN q = 1..Len(q) /\ Head(q) = q[1]
  BY EmptySeq, LenProperties DEF IsList
<1>2. ~\E i \in 1..1-1 : TRUE
  OBVIOUS
<1>3. BackRule(Head(q).to, Head(q).msg) => Head(q).msg.rule.key \in K
  BY <1>1, <1>2 DEF HandlerOrder
<1>4. Head(q).msg.kind = "data" => Len(q) = 1
  BY <1>1 DEF HandlerOrder
<1>5. Len(q) = 1 => q = <<q[1]>>
  BY <1>1 DEF IsList
<1>. QED
  BY <1>1, <1>3, <1>4, <1>5

LEMMA HandlerOrderTail ==
  ASSUME NEW q, IsList(q), q # <<>>, NEW K, HandlerOrder(q, K), NEW L, K \subseteq L,
         Head(q).to = R1 /\ Head(q).msg.kind = "control" => Head(q).msg.rule.key \in L
  PROVE  HandlerOrder(Tail(q), L)
<1>1. /\ Len(q) \in Nat \ {0} /\ DOMAIN q = 1..Len(q)
      /\ Head(q) = q[1]
      /\ Len(Tail(q)) = Len(q)-1
      /\ DOMAIN Tail(q) = 1..Len(q)-1
      /\ \A i \in 1..Len(q)-1 : Tail(q)[i] = q[i+1]
  BY HeadTailProperties, EmptySeq, LenProperties DEF IsList
<1>2. ASSUME NEW i \in 1..Len(q)-1, Tail(q)[i].msg.kind = "data"
      PROVE  i = Len(Tail(q))
  <2>1. i+1 \in DOMAIN q /\ Tail(q)[i] = q[i+1]
    BY <1>1
  <2>2. i+1 = Len(q)
    BY <1>2, <2>1 DEF HandlerOrder
  <2>3. i \in Nat /\ Len(q) \in Nat
    BY <1>1
  <2>4. i = Len(q)-1
    BY <2>2, <2>3
  <2>. QED
    BY <1>1, <2>4
<1>3. ASSUME NEW i \in 1..Len(q)-1, BackRule(Tail(q)[i].to, Tail(q)[i].msg)
      PROVE  \/ Tail(q)[i].msg.rule.key \in L
             \/ \E j \in 1..i-1 :
                  /\ Tail(q)[j].to = R1 /\ Tail(q)[j].msg.kind = "control"
                  /\ Tail(q)[j].msg.rule.key = Tail(q)[i].msg.rule.key
  <2>1. i+1 \in DOMAIN q /\ Tail(q)[i] = q[i+1]
    BY <1>1
  <2>2. CASE q[i+1].msg.rule.key \in K
    BY <2>1, <2>2
  <2>3. ASSUME NEW j \in 1..(i+1)-1, q[j].to = R1, q[j].msg.kind = "control",
               q[j].msg.rule.key = q[i+1].msg.rule.key
        PROVE  \/ Tail(q)[i].msg.rule.key \in L
               \/ \E k \in 1..i-1 :
                    /\ Tail(q)[k].to = R1 /\ Tail(q)[k].msg.kind = "control"
                    /\ Tail(q)[k].msg.rule.key = Tail(q)[i].msg.rule.key
    <3>1. CASE j = 1
      BY <1>1, <2>1, <2>3, <3>1
    <3>2. CASE j # 1
      <4>1. j-1 \in 1..i-1 /\ j-1 \in 1..Len(q)-1 /\ (j-1)+1 = j
        BY <1>1, <3>2
      <4>2. Tail(q)[j-1] = q[j]
        BY <1>1, <4>1
      <4>. QED
        BY <2>1, <2>3, <4>1, <4>2
    <3>. QED
      BY <3>1, <3>2
  <2>. QED
    BY <1>3, <2>1, <2>2, <2>3 DEF HandlerOrder
<1>. QED
  BY <1>1, <1>2, <1>3 DEF HandlerOrder

LEMMA KeysToTail ==
  ASSUME NEW q, IsList(q), q # <<>>, NEW r
  PROVE  KeysTo(r, q) \subseteq
           KeysTo(r, Tail(q)) \cup (IF Head(q).to = r /\ Head(q).msg.kind = "control"
                                    THEN {Head(q).msg.rule.key} ELSE {})
BY TailList DEF KeysTo

LEMMA KeysToFew ==
  /\ \A r : KeysTo(r, <<>>) = {}
  /\ \A r, d : d.msg.kind # "control" => KeysTo(r, <<d>>) = {}
BY EmptyList, SingleList DEF KeysTo

-----------------------------------------------------------------------------
\* The entries whose rules are at secondary r or in its buffer, and also those
\* whose rules the handler at work has still to send there.
Arrived(r) == DOMAIN rules[r] \cup Keys(inbox[r])

ToCome(r) == Arrived(r) \cup KeysTo(r, todo)

\* In stage 9, R1 gets packets of flows that were installed at the portal's R3.
FromPortalFlows(r) == stage = 9 /\ isAuthenticated /\ r = R1

Allowed(r) == DOMAIN rules[r] \cup (IF FromPortalFlows(r) THEN Arrived(R3) ELSE {})

AllowedLater(r) == ToCome(r) \cup (IF FromPortalFlows(r) THEN ToCome(R3) ELSE {})

\* Where the packets of web flow f are sent now.
SentTo(f, r) ==
  \/ stage = 6 /\ r = Web6(f)
  \/ stage = 7 /\ r = R1
  \/ stage = 9 /\ r = Web9(f, isAuthenticated)
  \/ stage = 10 /\ r = Web10(f)

\* The rules that a packet of flow f needs at r, and further on, are to come.
Prepared(f, r) == f \in AllowedLater(r) /\ (Chained(f) => f \in ToCome(R2))

PacketsOK == \A r \in Secondaries : InOrder(inbox[r], Allowed(r))

HandlerOK ==
  /\ HandlerOrder(todo, Arrived(R1))
  /\ \A d \in ToSet(todo) :
       d.msg.kind = "data" /\ IsWeb(d.msg.entry) => Prepared(d.msg.entry, d.to)

TableOK ==
  \A f \in table \cap scenario.flows : \A r \in Secondaries :
    IsWeb(f) /\ SentTo(f, r) => Prepared(f, r)

\* A packet of a chain that is to pass R1 has its rule at R2, and a rule of R2
\* that sends answers back has one at R1.
ChainOK ==
  \A m \in ToSet(inbox[R1]) : m.kind = "data" /\ Chained(m.entry) => m.entry \in Arrived(R2)

BackOK ==
  /\ \A e \in DOMAIN rules[R2] : rules[R2][e].port = R1 => e \in Arrived(R1)
  /\ \A m \in ToSet(inbox[R2]) : BackRule(R2, m) => m.rule.key \in Arrived(R1)
  /\ \A s \in DOMAIN unAck :
       unAck[s].to = R2 /\ unAck[s].rule.port = R1 => unAck[s].rule.key \in ToCome(R1)

\* Only packets of a chain come from another secondary.
PassedOK ==
  \A r \in Secondaries : \A m \in ToSet(inbox[r]) :
    m.kind = "data" /\ m.from # Primary => IsTcp(m.entry)

OrderInv == PacketsOK /\ HandlerOK /\ TableOK /\ ChainOK /\ BackOK /\ PassedOK

\* A message that has been counted has its rule in the table.
CountedInv ==
  \A r \in Secondaries : \A k \in DOMAIN receipts[r] : k.key \in DOMAIN rules[r]

LEMMA LostStays ==
  ASSUME [Next]_vars, lost
  PROVE  lost'
<1>1. ASSUME NEW f, TunnelKinds(f)
      PROVE  lost'
  BY <1>1 DEF TunnelKinds, TunnelPlain, TunnelOther, Send, SendIn, rest
<1>2. CASE PriStep
  BY <1>2 DEF PriStep, SendNext, Retransmit, SocketAck, SocketData, SocketAuth, Read,
     PriIdle, Send, SendIn
<1>3. ASSUME NEW r \in Secondaries, SecStep(r)
      PROVE  lost'
  BY <1>3 DEF SecStep, SecInstall, SecDrop, SecData, SecNoRule, RawIcmp, RawTcp,
     RawAnswer, Passed, SecIdle, SecPlain, RawPlain, Send, SendIn
<1>4. CASE PortalSends \/ (\E r \in Routers : Lose(r)) \/ UNCHANGED vars
  BY <1>4 DEF PortalSends, Lose, vars, Send, SendIn
<1>. QED
  BY <1>1, <1>2, <1>3, <1>4, TunnelIsOfAKind DEF Next

\* A control message that is read has its rule in the table.
LEMMA ReadIsInstalled ==
  ASSUME IInv, CountedInv, NEW r \in Secondaries, SecInstall(r) \/ SecDrop(r),
         [Next]_vars, NEW m, m = Head(inbox[r])
  PROVE  m.rule.key \in DOMAIN rules'[r]
<1>1. CASE SecInstall(r)
  <2>1. Installs(r, m)
    BY <1>1, InstallEffect
  <2>. QED
    BY <2>1 DEF Installs
<1>2. CASE SecDrop(r)
  <2>1. CountOf(r, m.rule) >= DropAfter /\ rules' = rules
    BY <1>2 DEF SecDrop, secVars
  <2>2. m.rule \in DOMAIN receipts[r]
    <3>1. DropAfter \in Nat \ {0}
      BY ScenarioTypes DEF IInv, BaseOK
    <3>. QED
      BY <2>1, <3>1 DEF CountOf
  <2>. QED
    BY <2>1, <2>2 DEF CountedInv
<1>. QED
  BY <1>1, <1>2

LEMMA NextCounted ==
  ASSUME IInv, CountedInv, [Next]_vars
  PROVE  CountedInv'
<1>1. CASE UNCHANGED <<rules, receipts>>
  BY <1>1 DEF CountedInv
<1>2. ASSUME NEW r \in Secondaries, SecInstall(r)
      PROVE  CountedInv'
  <2>1. PICK m : m = Head(inbox[r])
    OBVIOUS
  <2>2. Installs(r, m)
    BY <1>2, <2>1, InstallEffect
  <2>. QED
    BY <2>2 DEF CountedInv, Installs
<1>. QED
  BY <1>1, <1>2, RulesSteps

LEMMA RulesGrow ==
  ASSUME IInv, [Next]_vars, NEW r \in Secondaries
  PROVE  DOMAIN rules[r] \subseteq DOMAIN rules'[r]
<1>1. ASSUME NEW t \in Secondaries, SecInstall(t)
      PROVE  DOMAIN rules[r] \subseteq DOMAIN rules'[r]
  <2>1. PICK m : m = Head(inbox[t])
    OBVIOUS
  <2>2. Installs(t, m)
    BY <1>1, <2>1, InstallEffect
  <2>. QED
    BY <2>2 DEF Installs
<1>. QED
  BY <1>1, RulesSteps

-----------------------------------------------------------------------------
(* What has arrived stays *)

LEMMA RemainsInOrder ==
  ASSUME IInv, CountedInv, [Next]_vars, ~lost', NEW r \in Secondaries,
         NEW b, Remains(r, b)
  PROVE  /\ IsList(b)
         /\ ToSet(b) \subseteq ToSet(inbox[r])
         /\ Keys(inbox[r]) \subseteq Keys(b) \cup DOMAIN rules'[r]
         /\ \A K, L : InOrder(inbox[r], K) /\ K \subseteq L /\ DOMAIN rules'[r] \subseteq L
                        => InOrder(b, L)
<1>1. IsList(inbox[r]) /\ r # Primary
  BY DEF IInv, BoxOK, IsBox, Secondaries, Routers, Primary, R1, R2, R3
<1>2. CASE b = inbox[r]
  BY <1>1, <1>2, InOrderGrows
<1>3. CASE inbox[r] # <<>> /\ b = Tail(inbox[r]) /\ (Head(inbox[r]).kind = "control" => SecInstall(r) \/ SecDrop(r))
  <2>1. PICK m : m = Head(inbox[r])
    OBVIOUS
  <2>2. m.kind = "control" => m.rule.key \in DOMAIN rules'[r]
    BY <1>3, <2>1, ReadIsInstalled
  <2>. QED
    BY <1>1, <1>3, <2>1, <2>2, TailList, KeysOfTail, InOrderTail
<1>. QED
  BY <1>1, <1>2, <1>3 DEF Remains

LEMMA ArrivedGrows ==
  ASSUME IInv, CountedInv, [Next]_vars, ~lost', NEW r \in Secondaries
  PROVE  Arrived(r) \subseteq Arrived(r)'
<1>1. r \in Routers
  BY DEF Secondaries, Routers
<1>2. PICK b : /\ Remains(r, b)
               /\ inbox'[r] = b \/ \E d : inbox'[r] = Append(b, d)
  BY <1>1, StepDelivers DEF Delivers
<1>3. /\ IsList(b)
      /\ Keys(inbox[r]) \subseteq Keys(b) \cup DOMAIN rules'[r]
  BY <1>2, RemainsInOrder
<1>4. Keys(b) \subseteq Keys(inbox'[r])
  BY <1>2, <1>3, KeysOfAppend
<1>. QED
  BY <1>3, <1>4, RulesGrow DEF Arrived

LEMMA TodoSteps ==
  ASSUME [Next]_vars
  PROVE  todo' = todo \/ todo = <<>> \/ SendNext
<1>1. ASSUME NEW f, TunnelKinds(f)
      PROVE  todo' = todo \/ todo = <<>>
  BY <1>1 DEF TunnelKinds, TunnelPlain, TunnelOther, Ready, priVars
<1>2. CASE PriStep
  BY <1>2 DEF PriStep, Retransmit, SocketAck, SocketData, SocketAuth, PriIdle, Ready,
     priVars
<1>3. ASSUME NEW r \in Secondaries, SecStep(r)
      PROVE  todo' = todo
  BY <1>3 DEF SecStep, SecInstall, SecDrop, SecData, SecNoRule, RawIcmp, RawTcp,
     RawAnswer, SecIdle, SecPlain, RawPlain, priVars
<1>4. CASE PortalSends \/ (\E r \in Routers : Lose(r)) \/ UNCHANGED vars
  BY <1>4 DEF PortalSends, Lose, vars, priVars
<1>. QED
  BY <1>1, <1>2, <1>3, <1>4, TunnelIsOfAKind DEF Next

\* The next datagram of the handler at work arrives.
LEMMA SendNextArrives ==
  ASSUME IInv, SendNext, ~lost', NEW d, d = Head(todo)
  PROVE  /\ todo # <<>> /\ todo' = Tail(todo) /\ IsList(todo) /\ d \in ToSet(todo)
         /\ d.to \in Secondaries /\ IsList(inbox[d.to])
         /\ inbox'[d.to] = Append(inbox[d.to], d.msg)
         /\ rules' = rules
         /\ d.msg.kind = "control" => d.msg.rule.key \in Arrived(d.to)'
<1>1. /\ todo # <<>> /\ todo' = Tail(todo) /\ Send(d.to, d.msg) /\ rules' = rules
      /\ IsList(todo)
  BY DEF SendNext, secVars, IInv, TodoOK
<1>2. d \in ToSet(todo)
  BY <1>1, TailList
<1>3. d.to \in Secondaries
  BY <1>2 DEF IInv, TodoOK, ToSend
<1>4. d.to \in Routers /\ IsList(inbox[d.to]) /\ DOMAIN inbox = Routers
  BY <1>3 DEF Secondaries, Routers, IInv, BoxOK, IsBox
<1>5. inbox'[d.to] = Append(inbox[d.to], d.msg)
  BY <1>1, <1>4 DEF Send, SendIn
<1>6. d.msg.kind = "control" => d.msg.rule.key \in Keys(inbox'[d.to])
  BY <1>4, <1>5, KeysOfAppend
<1>. QED
  BY <1>1, <1>2, <1>3, <1>4, <1>5, <1>6 DEF Arrived

LEMMA ToComeGrows ==
  ASSUME IInv, CountedInv, [Next]_vars, ~lost', NEW r \in Secondaries
  PROVE  ToCome(r) \subseteq ToCome(r)'
<1>1. Arrived(r) \subseteq Arrived(r)'
  BY ArrivedGrows
<1>2. CASE todo' = todo \/ todo = <<>>
  BY <1>1, <1>2, KeysToFew DEF ToCome
<1>3. CASE SendNext
  <2>1. PICK d : d = Head(todo)
    OBVIOUS
  <2>2. /\ todo # <<>> /\ todo' = Tail(todo) /\ IsList(todo)
        /\ d.msg.kind = "control" => d.msg.rule.key \in Arrived(d.to)'
    BY <1>3, <2>1, SendNextArrives
  <2>3. KeysTo(r, todo) \subseteq KeysTo(r, todo') \cup Arrived(r)'
    <3>1. KeysTo(r, todo) \subseteq
            KeysTo(r, todo') \cup (IF d.to = r /\ d.msg.kind = "control"
                                  THEN {d.msg.rule.key} ELSE {})
      BY <2>1, <2>2, KeysToTail
    <3>. QED
      BY <2>2, <3>1
  <2>. QED
    BY <1>1, <2>3 DEF ToCome
<1>. QED
  BY <1>2, <1>3, TodoSteps

LEMMA AllowedGrows ==
  ASSUME IInv, CountedInv, [Next]_vars, ~lost', NEW r \in Secondaries
  PROVE  /\ Allowed(r) \subseteq Allowed(r)'
         /\ AllowedLater(r) \subseteq AllowedLater(r)'
<1>1. R3 \in Secondaries
  BY DEF Secondaries
<1>2. FromPortalFlows(r) => FromPortalFlows(r)'
  BY StepKeeps DEF FromPortalFlows, IInv, stage
<1>. QED
  BY <1>1, <1>2, ArrivedGrows, ToComeGrows, RulesGrow DEF Allowed, AllowedLater
\* Rules that answer are of ICMP flows.
LEMMA ReplyIsIcmp ==
  ASSUME IInv, NEW r \in Secondaries, NEW e \in DOMAIN rules[r], rules[r][e].action = Reply
  PROVE  IsIcmp(e)
<1>1. PICK q : q = RequestOf(r, e)
  OBVIOUS
<1>2. PICK f \in scenario.flows : Asks(f, q)
  BY <1>1 DEF IInv, RulesOK, Asked
<1>3. q.rule.key = e /\ q.rule.action = Reply
  BY <1>1 DEF RequestOf, Request, Rule
<1>4. \A k, a, p : Rule(k, a, p).key = k /\ Rule(k, a, p).action = a
  BY DEF Rule
<1>5. Forward # Reply
  BY DEF Forward, Reply
<1>. QED
  BY <1>2, <1>3, <1>4, <1>5 DEF Asks

\* What a secondary gets is in order with what it has, as long as nothing is lost.
LEMMA EmittedInOrder ==
  ASSUME ClientPorts, IInv, OrderInv, [Next]_vars, NEW t \in Secondaries, NEW d,
         Emitted(t, d)
  PROVE  /\ Ruled(d) => d.entry \in Allowed(t) \cup Arrived(t)
         /\ t = R1 /\ d.kind = "data" /\ Chained(d.entry) => d.entry \in Arrived(R2)
         /\ BackRule(t, d) => d.rule.key \in Arrived(R1)
         /\ d.kind = "data" /\ d.from # Primary => IsTcp(d.entry)
<1>. DEFINE Fine(m) ==
       /\ Ruled(m) => m.entry \in Allowed(t) \cup Arrived(t)
       /\ t = R1 /\ m.kind = "data" /\ Chained(m.entry) => m.entry \in Arrived(R2)
       /\ BackRule(t, m) => m.rule.key \in Arrived(R1)
       /\ m.kind = "data" /\ m.from # Primary => IsTcp(m.entry)
<1>1. /\ \A e, r : Data(e, r).kind = "data" /\ Data(e, r).entry = e /\ Data(e, r).from = r
      /\ \A s, k : Control(s, k).kind = "control" /\ Control(s, k).rule = k
      /\ \A s, k, r : Ack(s, k, r).kind = "ack"
      /\ \A s, e : Auth(s, e).kind = "auth"
  BY DEF Data, Control, Ack, Auth
<1>2. \A r \in Secondaries : r \in Routers /\ r # Primary
  BY DEF Secondaries, Routers, R1, R2, R3, Primary
<1>3. \A e : ~(IsIcmp(e) /\ IsTcp(e)) /\ (IsWeb(e) => IsTcp(e)) /\ (Chained(e) => IsWeb(e))
  BY DEF IsIcmp, IsTcp, IsWeb, Chained
<1>4. CASE FromPrimary(t, d)
  <2>1. ASSUME NEW q, SendNext, q \in ToSet(todo), q = Head(todo), q.to = t, q.msg = d
        PROVE  Fine(d)
    <3>1. todo # <<>> /\ IsList(todo) /\ HandlerOrder(todo, Arrived(R1))
      BY <2>1 DEF SendNext, IInv, TodoOK, OrderInv, HandlerOK
    <3>2. /\ d.kind = "data" => todo = <<q>>
          /\ BackRule(t, d) => d.rule.key \in Arrived(R1)
      BY <2>1, <3>1, HandlerOrderHead
    <3>3. ToSend(q)
      BY <2>1 DEF IInv, TodoOK
    <3>4. CASE d = Control(d.seq, d.rule)
      BY <1>1, <3>2, <3>4 DEF Ruled
    <3>5. ASSUME NEW f \in scenario.flows, d = Data(f, Primary)
          PROVE  Fine(d)
      <4>1. todo = <<q>> /\ \A r : KeysTo(r, todo) = {}
        BY <1>1, <2>1, <3>2, <3>5, KeysToFew
      <4>2. /\ ToCome(t) = Arrived(t) /\ ToCome(R2) = Arrived(R2)
            /\ ToCome(R3) = Arrived(R3)
        BY <4>1 DEF ToCome
      <4>3. IsWeb(f) => Prepared(f, t)
        BY <1>1, <2>1, <3>5 DEF OrderInv, HandlerOK
      <4>4. IsWeb(f) => f \in Allowed(t) \cup Arrived(t) /\ (Chained(f) => f \in Arrived(R2))
        BY <4>2, <4>3 DEF Prepared, AllowedLater, Allowed, Arrived
      <4>. QED
        BY <1>1, <1>3, <3>5, <4>4 DEF Ruled, BackRule
    <3>. QED
      BY <2>1, <3>3, <3>4, <3>5 DEF ToSend
  <2>2. ASSUME todo = <<>>, NEW s \in DOMAIN unAck, unAck[s].to = t,
               d = Control(s, unAck[s].rule)
        PROVE  Fine(d)
    <3>1. ToCome(R1) = Arrived(R1)
      BY <2>2, KeysToFew DEF ToCome
    <3>2. BackRule(t, d) => d.rule.key \in Arrived(R1)
      BY <1>1, <2>2, <3>1 DEF BackRule, OrderInv, BackOK
    <3>. QED
      BY <1>1, <2>2, <3>2 DEF Ruled
  <2>3. ASSUME NEW f, IsIcmp(f), d = Data(f, Primary)
        PROVE  Fine(d)
    BY <1>1, <1>3, <2>3 DEF Ruled, BackRule
  <2>. QED
    BY <1>4, <2>1, <2>2, <2>3 DEF FromPrimary
<1>5. CASE FromRules(t, d)
  <2>1. PICK r \in Secondaries, e \in LookedUp :
          /\ e \in DOMAIN rules[r]
          /\ \/ \E from : Data(e, from) \in ToSet(inbox[r])
             \/ \E g \in out[r] : e = Answer(r, g)
          /\ rules[r][e].action = Forward /\ rules[r][e].port = t
          /\ d = Data(e, r)
    BY <1>5 DEF FromRules
  <2>2. PICK f \in scenario.flows :
          /\ Chained(f)
          /\ \/ r = R1 /\ rules[r][e].port = R2 /\ e = f
             \/ r = R2 /\ rules[r][e].port = R1 /\ e = ReverseEntry(f)
    BY <2>1, PassedOn DEF IInv
  <2>3. IsTcp(e) /\ d.kind = "data" /\ d.entry = e /\ ~BackRule(t, d)
    <3>1. f \in Entry
      BY EntryTypes, ScenarioTypes DEF IInv, BaseOK
    <3>. QED
      BY <1>1, <1>3, <2>1, <2>2, <3>1, ReverseTwice DEF BackRule
  <2>4. CASE r = R1 /\ t = R2 /\ e = f
    <3>1. e \in Arrived(R2)
      <4>1. ASSUME NEW from, Data(e, from) \in ToSet(inbox[R1])
            PROVE  e \in Arrived(R2)
        BY <1>1, <2>2, <2>4, <4>1 DEF OrderInv, ChainOK
      <4>2. ASSUME NEW g \in out[R1], e = Answer(R1, g)
            PROVE  FALSE
        <5>1. e.dstPort = g.srcPort /\ e.srcPort = g.dstPort /\ e.protocol = g.protocol
          BY <4>2 DEF Answer, ReverseEntry
        <5>2. IsIcmp(g) \/ IsWeb(g)
          BY <2>1, <2>4 DEF IInv, OutOK, MayLeave
        <5>3. g.dstPort \in {80, 443}
          BY <1>3, <2>3, <5>1, <5>2 DEF IsIcmp, IsTcp, IsWeb
        <5>4. f \in Flows /\ IsWeb(f)
          BY <1>3, <2>2, ScenarioTypes DEF IInv, BaseOK
        <5>. QED
          BY <2>4, <5>1, <5>3, <5>4 DEF ClientPorts
      <4>. QED
        BY <2>1, <2>4, <4>1, <4>2
    <3>2. t # R1
      BY <2>4 DEF R1, R2
    <3>. QED
      BY <2>3, <2>4, <3>1, <3>2
  <2>5. CASE r = R2 /\ t = R1
    <3>1. e \in Arrived(R1)
      BY <2>1, <2>5 DEF OrderInv, BackOK
    <3>2. e \in Arrived(R2)
      BY <2>1, <2>5 DEF Arrived
    <3>. QED
      BY <2>3, <2>5, <3>1, <3>2
  <2>. QED
    BY <2>1, <2>2, <2>4, <2>5
<1>6. CASE Answered(t, d)
  <2>1. PICK r \in Secondaries, e \in LookedUp :
          /\ Data(e, t) \in ToSet(inbox[r])
          /\ stage <= 3 \/ (e \in DOMAIN rules[r] /\ rules[r][e].action = Reply)
    BY <1>6 DEF Answered
  <2>2. PICK m : m = Data(e, t)
    OBVIOUS
  <2>3. m.kind = "data" /\ m.entry = e /\ m.from = t
    BY <1>1, <2>2
  <2>4. IsTcp(e)
    BY <1>2, <2>1, <2>2, <2>3 DEF OrderInv, PassedOK
  <2>5. ~(stage <= 3)
    <3>1. Fits(r, m)
      BY <1>2, <2>1, <2>2 DEF IInv, BoxOK
    <3>2. FitsData(r, m)
      BY <2>3, <3>1 DEF Fits, FitsControl, FitsAck, FitsAuth, Control, Ack, Auth
    <3>. QED
      BY <1>2, <1>3, <2>3, <2>4, <3>2 DEF FitsData
  <2>. QED
    BY <1>3, <2>1, <2>4, <2>5, ReplyIsIcmp
<1>7. CASE FromPlain(t, d) \/ Acknowledged(t, d) \/ FromPortal(t, d)
  BY <1>2, <1>7 DEF FromPlain, Acknowledged, FromPortal
<1>. QED
  BY <1>4, <1>5, <1>6, <1>7 DEF Emitted

\* What has arrived in order is still in order after a step.
LEMMA NextPackets ==
  ASSUME ClientPorts, IInv, CountedInv, OrderInv, [Next]_vars, ~lost'
  PROVE  PacketsOK'
<1>1. ASSUME NEW r \in Secondaries, NEW K, K = Allowed(r)'
      PROVE  InOrder(inbox'[r], K)
  <2>1. r \in Routers
    BY DEF Secondaries, Routers
  <2>2. PICK b : /\ Remains(r, b)
                 /\ inbox'[r] = b \/ \E d : inbox'[r] = Append(b, d) /\ Emitted(r, d)
    BY <2>1, StepDelivers DEF Delivers
  <2>3. Allowed(r) \subseteq K /\ DOMAIN rules[r] \subseteq K /\ DOMAIN rules'[r] \subseteq K
    BY <1>1, AllowedGrows, RulesGrow DEF Allowed
  <2>4. InOrder(inbox[r], Allowed(r))
    BY DEF OrderInv, PacketsOK
  <2>5. IsList(b) /\ InOrder(b, K) /\ Keys(inbox[r]) \subseteq Keys(b) \cup K
    BY <2>2, <2>3, <2>4, RemainsInOrder
  <2>6. ASSUME NEW d, Emitted(r, d)
        PROVE  InOrder(Append(b, d), K)
    <3>1. Ruled(d) => d.entry \in Allowed(r) \cup Arrived(r)
      BY <2>6, EmittedInOrder
    <3>2. Ruled(d) => d.entry \in K \cup Keys(b)
      BY <2>3, <2>5, <3>1 DEF Arrived
    <3>. QED
      BY <2>5, <3>2, InOrderAppend
  <2>. QED
    BY <2>2, <2>5, <2>6
<1>. QED
  BY <1>1 DEF PacketsOK

LEMMA NextChain ==
  ASSUME ClientPorts, IInv, CountedInv, OrderInv, [Next]_vars, ~lost'
  PROVE  ChainOK' /\ PassedOK'
<1>1. \A e : Chained(e)' => Chained(e)
  <2>1. stage' = stage
    BY StepKeeps DEF IInv, stage
  <2>. QED
    BY <2>1 DEF Chained
<1>2. /\ R1 \in Secondaries /\ R2 \in Secondaries
      /\ \A r \in Secondaries : r \in Routers
  BY DEF Secondaries, Routers
<1>3. Arrived(R2) \subseteq Arrived(R2)'
  BY <1>2, ArrivedGrows
<1>4. ASSUME NEW m \in ToSet(inbox'[R1]), m.kind = "data", Chained(m.entry)'
      PROVE  m.entry \in Arrived(R2)'
  <2>1. m \in ToSet(inbox[R1]) \/ Emitted(R1, m)
    BY <1>2, StepDelivers DEF Delivers
  <2>. QED
    BY <1>1, <1>2, <1>3, <1>4, <2>1, EmittedInOrder DEF OrderInv, ChainOK
<1>5. ASSUME NEW r \in Secondaries, NEW m \in ToSet(inbox'[r]), m.kind = "data",
             m.from # Primary
      PROVE  IsTcp(m.entry)
  <2>1. m \in ToSet(inbox[r]) \/ Emitted(r, m)
    BY <1>2, StepDelivers DEF Delivers
  <2>. QED
    BY <1>5, <2>1, EmittedInOrder DEF OrderInv, PassedOK
<1>. QED
  BY <1>4, <1>5 DEF ChainOK, PassedOK

-----------------------------------------------------------------------------
(* The order of a handler's messages *)

\* A web flow's plan has a rule for it where its packets go, and at the end of a
\* chain; and answers of a chain get R1's rule before R2's.
LEMMA PlanOrder ==
  ASSUME scenario \in Scenarios, NEW f \in scenario.flows, NEW r, NEW plan,
         Chooses(f, r, plan)
  PROVE  /\ IsWeb(f) => \E i \in 1..Len(plan) : plan[i].to = r /\ plan[i].rule.key = f
         /\ Chained(f) => \E i \in 1..Len(plan) : plan[i].to = R2 /\ plan[i].rule.key = f
         /\ \A j \in 1..Len(plan) :
              plan[j].to = R2 /\ plan[j].rule.port = R1 =>
                \E i \in 1..j-1 : plan[i].to = R1 /\ plan[i].rule.key = plan[j].rule.key
<1>1. \A t, e, a, p : /\ Request(t, Rule(e, a, p)).to = t
                      /\ Request(t, Rule(e, a, p)).rule.key = e
                      /\ Request(t, Rule(e, a, p)).rule.port = p
  BY DEF Request, Rule
<1>2. AnyPort # R1 /\ Raw # R1 /\ Primary # R1 /\ R2 # R1
  BY ScenarioTypes DEF Raw, Primary, R1, R2
<1>3. ~(IsIcmp(f) /\ IsWeb(f)) /\ (Chained(f) => IsWeb(f) /\ stage = 7)
  BY DEF IsIcmp, IsWeb, IsTcp, Chained
<1>4. ASSUME NEW t, plan = Leave(f, t), t = r, ~Chained(f)
      PROVE  /\ \E i \in 1..Len(plan) : plan[i].to = r /\ plan[i].rule.key = f
             /\ \A j \in 1..Len(plan) : plan[j].rule.port # R1
  <2>1. /\ Len(plan) = 2
        /\ plan[1] = Request(r, Rule(f, Forward, Raw))
        /\ plan[2] = Request(r, Rule(ReverseEntry(f), Forward, Primary))
    BY <1>4, PairElements DEF Leave
  <2>. QED
    BY <1>1, <1>2, <2>1
<1>5. CASE IsIcmp(f) /\ r \in IcmpTargets /\ plan \in IcmpPlans(f, r)
  <2>1. CASE plan = <<Request(r, Rule(f, Reply, AnyPort))>>
    BY <1>1, <1>2, <1>3, <1>5, <2>1
  <2>2. CASE r = R1 /\ plan = Pair(R1, f, Raw, Primary)
    BY <1>3, <1>4, <1>5, <2>2 DEF Leave
  <2>. QED
    BY <1>5, <2>1, <2>2 DEF IcmpPlans
<1>6. CASE IsWeb(f) /\ stage = 7 /\ r = R1 /\ plan = Plan7(f)
  <2>1. CASE f.dstPort = 80
    <3>1. plan = Leave(f, R1) /\ ~Chained(f)
      BY <1>6, <2>1 DEF Plan7, Leave, Chained
    <3>. QED
      BY <1>4, <1>6, <3>1
  <2>2. CASE f.dstPort # 80
    <3>1. plan = Chain(f)
      BY <1>6, <2>2 DEF Plan7
    <3>2. /\ Len(plan) = 4
          /\ plan[1] = Request(R1, Rule(f, Forward, R2))
          /\ plan[2] = Request(R1, Rule(ReverseEntry(f), Forward, Primary))
          /\ plan[3] = Request(R2, Rule(f, Forward, Raw))
          /\ plan[4] = Request(R2, Rule(ReverseEntry(f), Forward, R1))
      <4>. DEFINE S == {Request(R1, Rule(f, Forward, R2)),
                        Request(R1, Rule(ReverseEntry(f), Forward, Primary)),
                        Request(R2, Rule(f, Forward, Raw)),
                        Request(R2, Rule(ReverseEntry(f), Forward, R1))}
      <4>1. Pair(R1, f, R2, Primary) \in Seq(S) /\ Pair(R2, f, Raw, R1) \in Seq(S)
        <5>1. \A a, b \in S : <<a, b>> \in Seq(S)
          OBVIOUS
        <5>. QED
          BY <5>1 DEF Pair
      <4>. HIDE DEF S
      <4>. QED
        BY <3>1, <4>1, ChainElements
    <3>. QED
      BY <1>1, <1>2, <1>6, <3>2
  <2>. QED
    BY <2>1, <2>2
<1>7. CASE stage # 7 /\ IsWeb(f) /\ plan = Leave(f, r)
  BY <1>3, <1>4, <1>7
<1>. QED
  BY <1>5, <1>6, <1>7 DEF Chooses

LEMMA DataLastOrder ==
  ASSUME NEW plan \in Seq(Requests), NEW f, NEW r
  PROVE  LET q == DataLast(Numbered(plan), f, r)
         IN  /\ Len(q) = Len(plan) + 1 /\ DOMAIN q = 1..Len(plan)+1
             /\ \A i \in 1..Len(plan) : q[i] = Numbering(plan, i)
             /\ q[Len(plan)+1] = [to |-> r, msg |-> Data(f, Primary)]
<1>. DEFINE c == Numbered(plan)
            n == Len(plan)
            x == [to |-> r, msg |-> Data(f, Primary)]
            T == {Numbering(plan, i) : i \in 1..n} \cup {x}
<1>1. n \in Nat
  BY LenProperties
<1>2. c = [i \in 1..n |-> Numbering(plan, i)]
  BY DEF Numbered, Numbering
<1>. HIDE DEF x, c, n
<1>3. c \in Seq(T) /\ Len(c) = n /\ \A i \in 1..n : c[i] = Numbering(plan, i)
  BY <1>1, <1>2
<1>4. <<x>> \in Seq(T) /\ Len(<<x>>) = 1 /\ <<x>>[1] = x
  OBVIOUS
<1>. HIDE DEF T
<1>5. /\ c \o <<x>> \in Seq(T)
      /\ Len(c \o <<x>>) = n + 1
      /\ \A i \in 1..n+1 : (c \o <<x>>)[i] = IF i <= n THEN c[i] ELSE <<x>>[i - n]
  BY <1>3, <1>4, ConcatProperties
<1>6. DataLast(c, f, r) = c \o <<x>>
  BY DEF DataLast, x
<1>7. DOMAIN (c \o <<x>>) = 1..n+1
  BY <1>5, LenProperties
<1>8. \A i \in 1..n : (c \o <<x>>)[i] = Numbering(plan, i)
  BY <1>1, <1>3, <1>5
<1>9. (c \o <<x>>)[n+1] = x
  <2>1. n+1 \in 1..n+1 /\ ~(n+1 <= n) /\ (n+1) - n = 1
    BY <1>1
  <2>. QED
    BY <1>4, <1>5, <2>1
<1>. QED
  BY <1>5, <1>6, <1>7, <1>8, <1>9 DEF c, x, n

\* What the handler of a new flow has to send is in order.
LEMMA HandlerOfNew ==
  ASSUME BaseOK, NEW f \in scenario.flows, NEW r, NEW plan, Chooses(f, r, plan),
         NEW q, q = DataLast(Numbered(plan), f, r)
  PROVE  /\ \A K : HandlerOrder(q, K)
         /\ \A i \in 1..Len(plan) : plan[i].rule.key \in KeysTo(plan[i].to, q)
         /\ \A d \in ToSet(q) :
              d.msg.kind = "data" => d.msg.entry = f /\ d.to = r
<1>1. plan \in Seq(Requests) /\ Len(plan) \in Nat
  BY PlanAsks, LenProperties DEF BaseOK
<1>2. /\ Len(q) = Len(plan) + 1 /\ DOMAIN q = 1..Len(plan)+1
      /\ \A i \in 1..Len(plan) : q[i] = Numbering(plan, i)
      /\ q[Len(plan)+1] = [to |-> r, msg |-> Data(f, Primary)]
  BY <1>1, DataLastOrder
<1>3. /\ IsList(q)
      /\ \A d \in ToSet(q) : \/ d = [to |-> r, msg |-> Data(f, Primary)]
                             \/ \E i \in 1..Len(plan) : d = Numbering(plan, i)
  BY <1>1, DataLastElements
<1>4. \A i : /\ Numbering(plan, i).to = plan[i].to
             /\ Numbering(plan, i).msg.kind = "control"
             /\ Numbering(plan, i).msg.rule = plan[i].rule
  BY DEF Numbering, Control
<1>5. Data(f, Primary).kind = "data" /\ Data(f, Primary).entry = f
  BY DEF Data
<1>6. ASSUME NEW j \in 1..Len(plan)
      PROVE  /\ q[j].msg.kind = "control"
             /\ BackRule(q[j].to, q[j].msg) =>
                  \E i \in 1..j-1 : /\ q[i].to = R1 /\ q[i].msg.kind = "control"
                                    /\ q[i].msg.rule.key = q[j].msg.rule.key
  <2>1. q[j].to = plan[j].to /\ q[j].msg.kind = "control" /\ q[j].msg.rule = plan[j].rule
    BY <1>2, <1>4
  <2>2. ASSUME BackRule(q[j].to, q[j].msg)
        PROVE  \E i \in 1..j-1 : /\ q[i].to = R1 /\ q[i].msg.kind = "control"
                                 /\ q[i].msg.rule.key = q[j].msg.rule.key
    <3>1. plan[j].to = R2 /\ plan[j].rule.port = R1
      BY <2>1, <2>2 DEF BackRule
    <3>2. PICK i \in 1..j-1 : plan[i].to = R1 /\ plan[i].rule.key = plan[j].rule.key
      BY <3>1, PlanOrder DEF BaseOK
    <3>3. i \in 1..Len(plan)
      BY <1>1
    <3>4. q[i].to = plan[i].to /\ q[i].msg.kind = "control" /\ q[i].msg.rule = plan[i].rule
      BY <1>2, <1>4, <3>3
    <3>. QED
      BY <2>1, <3>2, <3>4
  <2>. QED
    BY <2>1, <2>2
<1>7. ASSUME NEW K
      PROVE  HandlerOrder(q, K)
  <2>1. ASSUME NEW j \in DOMAIN q, j \notin 1..Len(plan)
        PROVE  j = Len(q) /\ q[j].msg.kind = "data"
    BY <1>1, <1>2, <1>5, <2>1
  <2>2. \A j \in 1..Len(plan) : q[j].msg.kind # "data"
    BY <1>6
  <2>. QED
    BY <1>6, <2>1, <2>2 DEF HandlerOrder, BackRule
<1>8. ASSUME NEW i \in 1..Len(plan)
      PROVE  plan[i].rule.key \in KeysTo(plan[i].to, q)
  <2>1. PICK d : d = q[i]
    OBVIOUS
  <2>2. d \in ToSet(q)
    BY <1>1, <1>2, <1>3, <2>1, ListElements DEF IsList
  <2>3. d.to = plan[i].to /\ d.msg.kind = "control" /\ d.msg.rule = plan[i].rule
    BY <1>2, <1>4, <2>1
  <2>. QED
    BY <2>2, <2>3 DEF KeysTo
<1>9. ASSUME NEW d \in ToSet(q), d.msg.kind = "data"
      PROVE  d.msg.entry = f /\ d.to = r
  BY <1>3, <1>4, <1>5, <1>9
<1>. QED
  BY <1>7, <1>8, <1>9

\* What has been prepared for a flow stays.
LEMMA PreparedGrows ==
  ASSUME IInv, CountedInv, [Next]_vars, ~lost'
  PROVE  /\ \A e : Chained(e)' <=> Chained(e)
         /\ \A r \in Secondaries : \A e : Prepared(e, r) => Prepared(e, r)'
<1>1. \A e : Chained(e)' <=> Chained(e)
  <2>1. stage' = stage
    BY StepKeeps DEF IInv, stage
  <2>. QED
    BY <2>1 DEF Chained
<1>2. R2 \in Secondaries
  BY DEF Secondaries
<1>3. ToCome(R2) \subseteq ToCome(R2)'
  BY <1>2, ToComeGrows
<1>4. ASSUME NEW r \in Secondaries, NEW e, Prepared(e, r)
      PROVE  Prepared(e, r)'
  BY <1>1, <1>3, <1>4, AllowedGrows DEF Prepared
<1>. QED
  BY <1>1, <1>4

\* A new flow has its rules prepared by its handler.
LEMMA PreparedByNew ==
  ASSUME IInv, [Next]_vars, NEW f \in scenario.flows, NEW r, NEW plan,
         Chooses(f, r, plan), New(f, r, plan), IsWeb(f)
  PROVE  Prepared(f, r)'
<1>1. \A i \in 1..Len(plan) : plan[i].rule.key \in KeysTo(plan[i].to, todo')
  BY HandlerOfNew DEF New, IInv
<1>2. \A i \in 1..Len(plan) : plan[i].rule.key \in ToCome(plan[i].to)'
  BY <1>1 DEF ToCome
<1>3. /\ \E i \in 1..Len(plan) : plan[i].to = r /\ plan[i].rule.key = f
      /\ Chained(f) => \E i \in 1..Len(plan) : plan[i].to = R2 /\ plan[i].rule.key = f
  BY PlanOrder DEF IInv, BaseOK
<1>4. f \in ToCome(r)' /\ (Chained(f) => f \in ToCome(R2)')
  BY <1>2, <1>3
<1>5. Chained(f)' <=> Chained(f)
  <2>1. stage' = stage
    BY StepKeeps DEF IInv, stage
  <2>. QED
    BY <2>1 DEF Chained
<1>. QED
  BY <1>4, <1>5 DEF Prepared, AllowedLater

\* The packets of a web flow have one way from the primary.
LEMMA OneWay ==
  ASSUME NEW f, IsWeb(f), NEW r, NEW plan, Chooses(f, r, plan)
  PROVE  SentTo(f, r) /\ \A t : SentTo(f, t) => t = r
<1>1. ~IsIcmp(f)
  BY DEF IsWeb, IsTcp, IsIcmp
<1>. QED
  BY <1>1 DEF Chooses, SentTo

\* No web flow is the reverse of another flow.
LEMMA ReverseIsNoWeb ==
  ASSUME ClientPorts, scenario \in Scenarios, NEW f \in scenario.flows, IsIcmp(f) \/ IsWeb(f)
  PROVE  ~IsWeb(ReverseEntry(f))
<1>1. f \in Flows
  BY ScenarioTypes
<1>2. ReverseEntry(f).protocol = f.protocol /\ ReverseEntry(f).dstPort = f.srcPort
  BY DEF ReverseEntry
<1>. QED
  BY <1>1, <1>2 DEF ClientPorts, IsWeb, IsTcp, IsIcmp

LEMMA OneDatagram ==
  ASSUME NEW d, d.msg.kind = "data", NEW K
  PROVE  HandlerOrder(<<d>>, K) /\ ToSet(<<d>>) = {d}
<1>1. DOMAIN <<d>> = {1} /\ Len(<<d>>) = 1 /\ <<d>>[1] = d
  OBVIOUS
<1>. QED
  BY <1>1, SingleList DEF HandlerOrder, BackRule

\* The portal's message makes the handler send two control messages to R1, the
\* first of them with the rule for the entry that it names.
LEMMA PortalMessages ==
  ASSUME IInv, SocketAuth
  PROVE  /\ stage = 9 /\ isAuthenticated'
         /\ \A K : HandlerOrder(todo', K)
         /\ \A d \in ToSet(todo') : d.msg.kind = "control"
         /\ \E e \in scenario.flows :
              /\ IsWeb(e) /\ e.dstPort = 80
              /\ table' \subseteq table \cup {e, ReverseEntry(e)}
              /\ e \in KeysTo(R1, todo')
<1>1. PICK m : m = Head(inbox[Primary])
  OBVIOUS
<1>2. FitsAuth(Primary, m)
  <2>1. Primary \in Routers /\ Receives(Primary, "auth")
    BY DEF SocketAuth, Routers
  <2>. QED
    BY <1>1, <2>1, HeadFits DEF IInv
<1>3. PICK a, b : /\ a = [to |-> R1, msg |-> Control(m.seq, Leave(m.entry, R1)[1].rule)]
                  /\ b = [to |-> R1, msg |-> Control(0, Leave(m.entry, R1)[2].rule)]
  OBVIOUS
<1>4. /\ todo' = <<a, b>> /\ isAuthenticated'
      /\ table' \subseteq table \cup {m.entry, ReverseEntry(m.entry)}
  BY <1>1, <1>3 DEF SocketAuth
<1>5. /\ a.to = R1 /\ a.msg.kind = "control" /\ a.msg.rule.key = m.entry
      /\ b.to = R1 /\ b.msg.kind = "control"
  <2>1. Leave(m.entry, R1)[1].rule = Rule(m.entry, Forward, Raw)
    <3>1. Leave(m.entry, R1) = Pair(R1, m.entry, Raw, Primary)
      BY DEF Leave
    <3>2. Pair(R1, m.entry, Raw, Primary)[1] = Request(R1, Rule(m.entry, Forward, Raw))
      BY PairElements
    <3>. QED
      BY <3>1, <3>2 DEF Request
  <2>. QED
    BY <1>3, <2>1 DEF Control, Rule
<1>6. ToSet(<<a, b>>) = {a, b}
  BY PairList
<1>7. ASSUME NEW K
      PROVE  HandlerOrder(<<a, b>>, K)
  <2>1. DOMAIN <<a, b>> = {1, 2} /\ <<a, b>>[1] = a /\ <<a, b>>[2] = b
    OBVIOUS
  <2>2. R1 # R2
    BY DEF R1, R2
  <2>. QED
    BY <1>5, <2>1, <2>2 DEF HandlerOrder, BackRule
<1>8. m.entry \in KeysTo(R1, <<a, b>>)
  BY <1>5, <1>6 DEF KeysTo
<1>. QED
  BY <1>2, <1>4, <1>5, <1>6, <1>7, <1>8 DEF FitsAuth, AtPortal

LEMMA NextHandler ==
  ASSUME ClientPorts, IInv, CountedInv, OrderInv, [Next]_vars, ~lost'
  PROVE  HandlerOK'
<1>1. /\ \A r \in Secondaries : \A e : Prepared(e, r) => Prepared(e, r)'
      /\ HandlerOrder(todo, Arrived(R1))
      /\ \A d \in ToSet(todo) :
           d.msg.kind = "data" /\ IsWeb(d.msg.entry) => Prepared(d.msg.entry, d.to)
  BY PreparedGrows DEF OrderInv, HandlerOK
<1>2. R1 \in Secondaries /\ \A d \in ToSet(todo) : d.to \in Secondaries
  BY DEF Secondaries, IInv, TodoOK, ToSend
<1>3. PICK L : L = Arrived(R1)'
  OBVIOUS
<1>4. Arrived(R1) \subseteq L
  BY <1>2, <1>3, ArrivedGrows
<1>5. SUFFICES /\ HandlerOrder(todo', L)
               /\ \A d \in ToSet(todo') :
                    d.msg.kind = "data" /\ IsWeb(d.msg.entry) => Prepared(d.msg.entry, d.to)'
  BY <1>3 DEF HandlerOK
<1>6. CASE todo' = todo
  BY <1>1, <1>2, <1>4, <1>6, HandlerOrderGrows
<1>7. CASE SendNext
  <2>1. PICK d : d = Head(todo)
    OBVIOUS
  <2>2. /\ todo # <<>> /\ todo' = Tail(todo) /\ IsList(todo)
        /\ d.msg.kind = "control" => d.msg.rule.key \in Arrived(d.to)'
    BY <1>7, <2>1, SendNextArrives
  <2>3. d.to = R1 /\ d.msg.kind = "control" => d.msg.rule.key \in L
    BY <1>3, <2>2
  <2>4. HandlerOrder(todo', L)
    BY <1>1, <1>4, <2>1, <2>2, <2>3, HandlerOrderTail
  <2>5. ToSet(todo') \subseteq ToSet(todo)
    BY <2>2, TailList
  <2>. QED
    BY <1>1, <1>2, <2>4, <2>5
<1>8. ASSUME NEW f \in scenario.flows, NEW r \in Secondaries,
             todo' = <<[to |-> r, msg |-> Data(f, Primary)]>>,
             IsWeb(f) => Prepared(f, r)'
      PROVE  /\ HandlerOrder(todo', L)
             /\ \A d \in ToSet(todo') :
                  d.msg.kind = "data" /\ IsWeb(d.msg.entry) => Prepared(d.msg.entry, d.to)'
  <2>1. PICK d : d = [to |-> r, msg |-> Data(f, Primary)]
    OBVIOUS
  <2>2. d.to = r /\ d.msg.kind = "data" /\ d.msg.entry = f
    BY <2>1 DEF Data
  <2>. QED
    BY <1>8, <2>1, <2>2, OneDatagram
<1>9. ASSUME NEW f \in scenario.flows, TunnelKinds(f)
      PROVE  /\ HandlerOrder(todo', L)
             /\ \A d \in ToSet(todo') :
                  d.msg.kind = "data" /\ IsWeb(d.msg.entry) => Prepared(d.msg.entry, d.to)'
  <2>1. CASE TunnelPlain(f)
    BY <1>6, <2>1, <1>1, <1>2, <1>4, HandlerOrderGrows DEF TunnelPlain, priVars
  <2>2. CASE TunnelOther(f)
    BY <1>8, <2>2 DEF TunnelOther
  <2>3. ASSUME NEW r, NEW plan, Chooses(f, r, plan), Known(f, r)
        PROVE  todo' = <<[to |-> r, msg |-> Data(f, Primary)]>> /\ r \in Secondaries
               /\ (IsWeb(f) => Prepared(f, r)')
    <3>1. r \in Secondaries
      BY <2>3, PlanAsks DEF IInv, BaseOK
    <3>2. f \in table /\ todo' = <<[to |-> r, msg |-> Data(f, Primary)]>>
      BY <2>3 DEF Known
    <3>3. IsWeb(f) => Prepared(f, r)
      BY <2>3, <3>1, <3>2, OneWay DEF OrderInv, TableOK
    <3>. QED
      BY <1>1, <3>1, <3>2, <3>3
  <2>4. ASSUME NEW r, NEW plan, Chooses(f, r, plan), New(f, r, plan)
        PROVE  /\ HandlerOrder(todo', L)
               /\ \A d \in ToSet(todo') :
                    d.msg.kind = "data" /\ IsWeb(d.msg.entry) => Prepared(d.msg.entry, d.to)'
    <3>1. /\ \A K : HandlerOrder(todo', K)
          /\ \A d \in ToSet(todo') : d.msg.kind = "data" => d.msg.entry = f /\ d.to = r
      BY <2>4, HandlerOfNew DEF New, IInv
    <3>2. IsWeb(f) => Prepared(f, r)'
      BY <2>4, PreparedByNew
    <3>. QED
      BY <3>1, <3>2
  <2>. QED
    BY <1>8, <1>9, <2>1, <2>2, <2>3, <2>4 DEF TunnelKinds
<1>10. CASE SocketAuth
  BY <1>10, PortalMessages
<1>11. CASE PriStep /\ ~SendNext /\ ~SocketAuth
  BY <1>11, <1>6 DEF PriStep, Retransmit, SocketAck, SocketData, PriIdle, priVars
<1>12. ASSUME NEW r \in Secondaries, SecStep(r)
       PROVE  todo' = todo
  BY <1>12 DEF SecStep, SecInstall, SecDrop, SecData, SecNoRule, RawIcmp, RawTcp,
     RawAnswer, SecIdle, SecPlain, RawPlain, priVars
<1>13. CASE PortalSends \/ (\E r \in Routers : Lose(r)) \/ UNCHANGED vars
  BY <1>13, <1>6 DEF PortalSends, Lose, vars, priVars
<1>. QED
  BY <1>6, <1>7, <1>9, <1>10, <1>11, <1>12, <1>13, TunnelIsOfAKind DEF Next

LEMMA NextTable ==
  ASSUME ClientPorts, IInv, CountedInv, OrderInv, [Next]_vars, ~lost'
  PROVE  TableOK'
<1>1. /\ \A r \in Secondaries : \A e : Prepared(e, r) => Prepared(e, r)'
      /\ \A e : Chained(e)' <=> Chained(e)
      /\ scenario' = scenario /\ stage' = stage /\ scenario \in Scenarios
  BY PreparedGrows, StepKeeps DEF IInv, BaseOK, stage
<1>2. SUFFICES ASSUME NEW f \in scenario.flows, f \in table', NEW r \in Secondaries,
                      IsWeb(f), SentTo(f, r)'
               PROVE  Prepared(f, r)'
  BY <1>1 DEF TableOK
<1>3. ASSUME isAuthenticated' = isAuthenticated, f \in table
      PROVE  Prepared(f, r)'
  <2>1. SentTo(f, r)
    BY <1>1, <1>2, <1>3 DEF SentTo
  <2>2. Prepared(f, r)
    BY <1>2, <1>3, <2>1 DEF OrderInv, TableOK
  <2>. QED
    BY <1>1, <2>2
<1>4. CASE Uncounted
  BY <1>2, <1>3, <1>4 DEF Uncounted, portalVars
<1>5. ASSUME NEW g \in scenario.flows, NEW t, NEW plan, Chooses(g, t, plan),
             New(g, t, plan), UNCHANGED rest
      PROVE  Prepared(f, r)'
  <2>1. isAuthenticated' = isAuthenticated /\ table' = table \cup {g, ReverseEntry(g)}
    BY <1>5 DEF New, rest
  <2>2. CASE f = g
    <3>1. SentTo(g, r)
      BY <1>1, <1>2, <2>1, <2>2 DEF SentTo
    <3>2. r = t
      BY <1>2, <1>5, <2>2, <3>1, OneWay
    <3>. QED
      BY <1>2, <1>5, <2>2, <3>2, PreparedByNew
  <2>3. f # ReverseEntry(g)
    BY <1>1, <1>2, <1>5, ReverseIsNoWeb DEF Chooses
  <2>. QED
    BY <1>2, <1>3, <2>1, <2>2, <2>3
<1>6. CASE SocketAck
  BY <1>2, <1>3, <1>6 DEF SocketAck, portalVars
<1>7. CASE SocketAuth
  <2>1. stage = 9 /\ isAuthenticated'
    BY <1>7, PortalMessages
  <2>2. PICK e \in scenario.flows :
          /\ IsWeb(e) /\ e.dstPort = 80
          /\ table' \subseteq table \cup {e, ReverseEntry(e)}
          /\ e \in KeysTo(R1, todo')
    BY <1>7, PortalMessages
  <2>3. r = Web9(f, TRUE)
    BY <1>1, <1>2, <2>1 DEF SentTo
  <2>4. CASE f = e
    <3>1. r = R1
      BY <2>2, <2>3, <2>4 DEF Web9
    <3>2. f \in ToCome(R1)'
      BY <2>2, <2>4 DEF ToCome
    <3>3. ~Chained(f)'
      BY <1>1, <2>1 DEF Chained
    <3>. QED
      BY <3>1, <3>2, <3>3 DEF Prepared, AllowedLater
  <2>5. f # ReverseEntry(e)
    BY <1>1, <1>2, <2>2, ReverseIsNoWeb
  <2>6. CASE f \in table /\ (isAuthenticated \/ f.dstPort = 443)
    <3>1. SentTo(f, r)
      BY <2>1, <2>3, <2>6 DEF SentTo, Web9, IInv, BaseOK
    <3>. QED
      BY <1>1, <1>2, <2>6, <3>1 DEF OrderInv, TableOK
  <2>7. CASE f \in table /\ ~isAuthenticated /\ f.dstPort # 443
    <3>1. R3 \in Secondaries /\ R3 # R1
      BY DEF Secondaries, R1, R3
    <3>2. SentTo(f, R3) /\ r = R1
      BY <2>1, <2>3, <2>7 DEF SentTo, Web9, IInv, BaseOK
    <3>3. Prepared(f, R3)
      BY <1>2, <2>7, <3>1, <3>2 DEF OrderInv, TableOK
    <3>4. f \in ToCome(R3)
      BY <3>1, <3>3 DEF Prepared, AllowedLater, FromPortalFlows
    <3>5. f \in ToCome(R3)'
      BY <3>1, <3>4, ToComeGrows
    <3>6. FromPortalFlows(R1)'
      BY <1>1, <2>1 DEF FromPortalFlows
    <3>7. ~Chained(f)'
      BY <1>1, <2>1 DEF Chained
    <3>. QED
      BY <3>2, <3>5, <3>6, <3>7 DEF Prepared, AllowedLater
  <2>. QED
    BY <1>2, <2>2, <2>4, <2>5, <2>6, <2>7
<1>. QED
  BY <1>4, <1>5, <1>6, <1>7, UncountedSteps

LEMMA NextBack ==
  ASSUME ClientPorts, IInv, CountedInv, OrderInv, [Next]_vars, ~lost'
  PROVE  BackOK'
<1>1. R1 \in Secondaries /\ R2 \in Secondaries /\ R2 \in Routers
  BY DEF Secondaries, Routers
<1>2. Arrived(R1) \subseteq Arrived(R1)' /\ ToCome(R1) \subseteq ToCome(R1)'
  BY <1>1, ArrivedGrows, ToComeGrows
<1>3. ASSUME NEW e \in DOMAIN rules'[R2], rules'[R2][e].port = R1
      PROVE  e \in Arrived(R1)'
  <2>1. CASE e \in DOMAIN rules[R2] /\ rules[R2][e].port = R1
    BY <1>2, <2>1 DEF OrderInv, BackOK
  <2>2. ASSUME NEW r \in Secondaries, SecInstall(r), ~(e \in DOMAIN rules[R2] /\ rules[R2][e].port = R1)
        PROVE  e \in Arrived(R1)'
    <3>1. PICK m : m = Head(inbox[r])
      OBVIOUS
    <3>2. Installs(r, m)
      BY <2>2, <3>1, InstallEffect
    <3>3. r = R2 /\ e = m.rule.key
      BY <1>1, <1>3, <2>2, <3>2 DEF Installs
    <3>4. m \in ToSet(inbox[R2]) /\ m.kind = "control" /\ m.rule.port = R1
      BY <1>3, <3>2, <3>3 DEF Installs
    <3>. QED
      BY <1>2, <3>3, <3>4 DEF OrderInv, BackOK, BackRule
  <2>. QED
    BY <1>3, <2>1, <2>2, RulesSteps
<1>4. ASSUME NEW m \in ToSet(inbox'[R2]), BackRule(R2, m)
      PROVE  m.rule.key \in Arrived(R1)'
  <2>1. m \in ToSet(inbox[R2]) \/ Emitted(R2, m)
    BY <1>1, StepDelivers DEF Delivers
  <2>. QED
    BY <1>1, <1>2, <1>4, <2>1, EmittedInOrder DEF OrderInv, BackOK
<1>5. ASSUME NEW s \in DOMAIN unAck', NEW q, q = unAck'[s], q.to = R2, q.rule.port = R1
      PROVE  q.rule.key \in ToCome(R1)'
  <2>1. CASE s \in DOMAIN unAck /\ q = unAck[s]
    BY <1>2, <1>5, <2>1 DEF OrderInv, BackOK
  <2>2. ASSUME NEW f \in scenario.flows, NEW r, NEW plan, Chooses(f, r, plan),
               New(f, r, plan)
        PROVE  q.rule.key \in ToCome(R1)'
    <3>1. plan \in Seq(Requests) /\ unAck' = Timers(plan)
      BY <2>2, PlanAsks DEF New, IInv, BaseOK
    <3>2. \/ s \in DOMAIN unAck /\ q = unAck[s]
          \/ \E i \in 1..Len(plan) : q = plan[i]
      BY <1>5, <3>1, TimersOfPlan DEF IInv
    <3>3. ASSUME NEW j \in 1..Len(plan), q = plan[j]
          PROVE  q.rule.key \in ToCome(R1)'
      <4>1. PICK i \in 1..j-1 : plan[i].to = R1 /\ plan[i].rule.key = plan[j].rule.key
        BY <1>5, <2>2, <3>3, PlanOrder DEF IInv, BaseOK
      <4>2. i \in 1..Len(plan)
        BY <3>1, LenProperties
      <4>3. plan[i].rule.key \in KeysTo(R1, todo')
        BY <2>2, <4>1, <4>2, HandlerOfNew DEF New, IInv
      <4>. QED
        BY <3>3, <4>1, <4>3 DEF ToCome
    <3>. QED
      BY <2>1, <3>2, <3>3
  <2>3. CASE Uncounted \/ SocketAck \/ SocketAuth
    <3>1. s \in DOMAIN unAck /\ q = unAck[s]
      BY <1>5, <2>3 DEF Uncounted, SocketAck, SocketAuth
    <3>. QED
      BY <2>1, <3>1
  <2>. QED
    BY <2>2, <2>3, UncountedSteps
<1>. QED
  BY <1>3, <1>4, <1>5 DEF BackOK

LEMMA InitOrder == Init => OrderInv /\ CountedInv
<1>. SUFFICES ASSUME Init PROVE OrderInv /\ CountedInv
  OBVIOUS
<1>1. /\ todo = <<>> /\ table = {} /\ DOMAIN unAck = {}
      /\ \A r \in Secondaries : /\ inbox[r] = <<>> /\ DOMAIN rules[r] = {}
                                /\ DOMAIN receipts[r] = {}
  BY DEF Init, Secondaries, Routers
<1>2. R1 \in Secondaries /\ R2 \in Secondaries
  BY DEF Secondaries
<1>3. ToSet(<<>>) = {} /\ DOMAIN <<>> = {}
  BY EmptyList
<1>4. PacketsOK
  BY <1>1, <1>3 DEF PacketsOK, InOrder
<1>5. HandlerOK
  BY <1>1, <1>3 DEF HandlerOK, HandlerOrder
<1>6. TableOK /\ ChainOK /\ BackOK /\ PassedOK /\ CountedInv
  BY <1>1, <1>2, <1>3 DEF TableOK, ChainOK, BackOK, PassedOK, CountedInv
<1>. QED
  BY <1>4, <1>5, <1>6 DEF OrderInv

\* As long as nothing is lost, no web packet reaches a router before its rule,
\* whatever the order in which the routers work: neither a packet from the
\* tunnel nor one, or an answer, that goes from router to router, in every stage
\* and for any number of flows, clients and numbers.  But a client may not use
\* port 80 or 443 as its own: the reverse entry that the primary puts into its
\* table (dbInsert) would then be a web flow too, and a packet of that flow
\* would be taken for one of a known flow, which has its rule elsewhere.
THEOREM RulesComeFirst ==
  ASSUME ClientPorts
  PROVE  Spec => []RuleBeforePacket
<1>. DEFINE OInv == CountedInv /\ (~lost => OrderInv)
<1>1. Init => IInv /\ OInv
  BY InitIInv, InitOrder
<1>2. IInv /\ OInv /\ [Next]_vars => (IInv /\ OInv)'
  <2>. SUFFICES ASSUME IInv, OInv, [Next]_vars PROVE IInv' /\ OInv'
    OBVIOUS
  <2>1. IInv' /\ CountedInv'
    BY NextIInv, NextCounted
  <2>2. CASE lost'
    BY <2>1, <2>2
  <2>3. CASE ~lost'
    <3>1. ~lost
      BY <2>3, LostStays
    <3>2. OrderInv
      BY <3>1
    <3>. QED
      BY <2>1, <2>3, <3>2, NextPackets, NextChain, NextHandler, NextTable, NextBack DEF OrderInv
  <2>. QED
    BY <2>2, <2>3
<1>3. ASSUME IInv, OInv
      PROVE  RuleBeforePacket
  <2>. SUFFICES ASSUME ~lost, NEW r \in Secondaries, NEW i \in DOMAIN inbox[r],
                       inbox[r][i].kind = "data",
                       IsWeb(inbox[r][i].entry) \/ inbox[r][i].from # Primary
                PROVE  \/ Announced(r, inbox[r][i].entry, i)
                       \/ /\ stage = 9 /\ isAuthenticated /\ r = R1
                          /\ Announced(R3, inbox[r][i].entry, Len(inbox[R3]) + 1)
    BY DEF RuleBeforePacket
  <2>1. InOrder(inbox[r], Allowed(r)) /\ Ruled(inbox[r][i])
    BY <1>3 DEF OrderInv, PacketsOK, Ruled
  <2>2. PICK e : e = inbox[r][i].entry
    OBVIOUS
  <2>3. \/ e \in Allowed(r)
        \/ \E j \in 1..i-1 : inbox[r][j].kind = "control" /\ inbox[r][j].rule.key = e
    BY <2>1, <2>2 DEF InOrder
  <2>4. CASE e \in DOMAIN rules[r] \/ \E j \in 1..i-1 : inbox[r][j].kind = "control" /\ inbox[r][j].rule.key = e
    BY <2>2, <2>4 DEF Announced
  <2>5. CASE FromPortalFlows(r) /\ e \in Arrived(R3)
    <3>1. CASE e \in DOMAIN rules[R3]
      BY <2>2, <2>5, <3>1 DEF Announced, FromPortalFlows
    <3>2. CASE e \in Keys(inbox[R3])
      <4>1. PICK m \in ToSet(inbox[R3]) : m.kind = "control" /\ m.rule.key = e
        BY <3>2 DEF Keys
      <4>2. R3 \in Routers
        BY DEF Routers
      <4>3. PICK j \in 1..Len(inbox[R3]) : m = inbox[R3][j]
        BY <1>3, <4>2, ListElements DEF IInv, BoxOK, IsBox, IsList
      <4>4. Len(inbox[R3]) \in Nat
        BY <1>3, <4>2, LenProperties DEF IInv, BoxOK, IsBox, IsList
      <4>5. j \in 1..(Len(inbox[R3]) + 1)-1
        BY <4>4
      <4>6. Announced(R3, e, Len(inbox[R3]) + 1)
        BY <4>1, <4>3, <4>5 DEF Announced
      <4>. QED
        BY <2>2, <2>5, <4>6 DEF FromPortalFlows
    <3>. QED
      BY <2>5, <3>1, <3>2 DEF Arrived
  <2>. QED
    BY <2>3, <2>4, <2>5 DEF Allowed
<1>. HIDE DEF OInv
<1>. QED
  BY <1>1, <1>2, <1>3, PTL DEF Spec
=============================================================================
