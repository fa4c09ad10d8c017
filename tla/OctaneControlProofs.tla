------------------------ MODULE OctaneControlProofs ------------------------
(***************************************************************************)
(* Theorems about the control protocol, for any number of secondary        *)
(* routers, flows, rules and sequence numbers, any buffer size, and every  *)
(* loss, delay and expiration.                                             *)
(***************************************************************************)
EXTENDS OctaneControl, EventQueueProofs, FiniteSetTheorems

-----------------------------------------------------------------------------
(* Types *)

\* What the loop may rely on where it stands: in the tunnel handler there is a
\* packet, and where a timer is about to be executed there is one.
LoopOK ==
  /\ NeverExecuteEmpty
  /\ phase = "install" => packet # <<>>

\* TypeOK is not inductive by itself: executing a timer of an empty list or
\* sending a packet that is not there would leave the types.
TypeInv == TypeOK /\ LoopOK

\* The timer list is one that the lemmas of EventQueueProofs speak of.
LEMMA EventHasTime == \A x \in Event : x.tv \in Int
  BY ControlAssumption DEF Event

LEMMA EqIsEventList ==
  ASSUME eq \in Seq(Event)
  PROVE  IsEventList(eq, Event)
  BY EventHasTime DEF IsEventList

LEMMA HeadOfEq ==
  ASSUME eq \in Seq(Event), eq # <<>>
  PROVE  /\ Head(eq) \in Event
         /\ Head(eq).tv \in Nat
         /\ Head(eq).to \in Secondaries
         /\ ControlOf(Head(eq)) \in Control
<1>1. Head(eq) \in Event
  BY EqIsEventList, EqPopProperties
<1>. QED
  BY <1>1, ControlAssumption DEF Event, Control, ControlOf

\* A receive buffer holds what is delivered to it.
LEMMA DeliverType ==
  ASSUME NEW S, NEW q \in Seq(S), NEW m \in S
  PROVE  Deliver(q, m) \in Seq(S)
  BY AppendProperties DEF Deliver

LEMMA SendType ==
  ASSUME toSec \in [Secondaries -> Seq(Control \cup Data)],
         NEW r \in Secondaries, NEW m \in Control \cup Data, Send(r, m)
  PROVE  toSec' \in [Secondaries -> Seq(Control \cup Data)]
<1>1. Deliver(toSec[r], m) \in Seq(Control \cup Data)
  BY DeliverType
<1>. QED
  BY <1>1 DEF Send

\* Executing the head: its timer is set back and its message sent again.
LEMMA ExecuteType ==
  ASSUME TypeOK, eq # <<>>, Execute
  PROVE  /\ eq' \in Seq(Event)
         /\ eq' # <<>>
         /\ toSec' \in [Secondaries -> Seq(Control \cup Data)]
<1>. DEFINE e == [Head(eq) EXCEPT !.tv = RTO]
            q == EqPop(eq)
<1>1. IsEventList(eq, Event)
  BY EqIsEventList DEF TypeOK
<1>2. Head(eq) \in Event /\ IsEventList(q, Event)
  BY <1>1, EqPopProperties
<1>3. e \in Event
  BY <1>2, ControlAssumption DEF Event
<1>4. eq' = EqAdd(q, e)
  BY DEF Execute
<1>. HIDE DEF e, q
<1>5. eq' \in Seq(Event) /\ Len(eq') = Len(q) + 1 /\ Len(q) \in Nat
  BY <1>2, <1>3, <1>4, EqAddProperties, LenProperties DEF IsEventList
<1>6. eq' # <<>>
  BY <1>5
<1>7. Head(eq).to \in Secondaries /\ ControlOf(Head(eq)) \in Control
  BY <1>2 DEF Event, Control, ControlOf
<1>8. Send(Head(eq).to, ControlOf(Head(eq)))
  BY DEF Execute
<1>9. toSec' \in [Secondaries -> Seq(Control \cup Data)]
  BY <1>7, <1>8, SendType DEF TypeOK
<1>. QED
  BY <1>5, <1>6, <1>9

LEMMA InitTypeInv == Init => TypeInv
<1>. SUFFICES ASSUME Init PROVE TypeInv
  OBVIOUS
<1>1. TypeOK
  <2>1. /\ phase \in Phases /\ sockReady \in BOOLEAN /\ eventTimeout \in BOOLEAN
        /\ table \subseteq Flows
        /\ packet \in {<<>>} \cup {<<p>> : p \in Packet}
    BY DEF Init, Phases
  <2>2. seqno \in Seqnos /\ nextHandle \in Nat /\ timeout \in Nat
    BY ControlAssumption DEF Init, Seqnos
  <2>3. todo \in Seq(Request) /\ eq \in Seq(Event) /\ toPri \in Seq(Ack \cup Data)
    BY DEF Init
  <2>4. DOMAIN unAck \subseteq Seqnos /\ \A s \in DOMAIN unAck : unAck[s] \in Nat
    BY DEF Init
  <2>5. toSec \in [Secondaries -> Seq(Control \cup Data)]
    BY DEF Init
  <2>6. /\ up \in [Secondaries -> BOOLEAN]
        /\ rules \in [Secondaries -> SUBSET Rules]
        /\ dropped \in [Secondaries -> SUBSET Rules]
        /\ idle \in [Secondaries -> Nat]
        /\ forwarded \in [Secondaries -> BOOLEAN]
    BY ControlAssumption DEF Init
  <2>7. /\ DOMAIN count = Secondaries
        /\ \A r \in Secondaries :
             /\ DOMAIN count[r] \subseteq Rules
             /\ \A k \in DOMAIN count[r] : count[r][k] \in Nat
    BY DEF Init
  <2>. QED
    BY <2>1, <2>2, <2>3, <2>4, <2>5, <2>6, <2>7 DEF TypeOK
<1>2. LoopOK
  BY DEF Init, LoopOK, NeverExecuteEmpty
<1>. QED
  BY <1>1, <1>2 DEF TypeInv

\* The loop's head.
LEMMA TopTypeInv ==
  ASSUME TypeInv, TopNoTimer \/ TopWait \/ TopExpired
  PROVE  TypeInv'
<1>1. CASE TopNoTimer
  BY <1>1 DEF TopNoTimer, TypeInv, TypeOK, LoopOK, NeverExecuteEmpty, Phases,
     secVars
<1>2. CASE TopWait
  <2>1. Head(eq).tv \in Nat
    BY <1>2, HeadOfEq DEF TopWait, TypeInv, TypeOK
  <2>. QED
    BY <1>2, <2>1 DEF TopWait, TypeInv, TypeOK, LoopOK, NeverExecuteEmpty, Phases,
       secVars
<1>3. CASE TopExpired
  <2>1. /\ eq' \in Seq(Event)
        /\ eq' # <<>>
        /\ toSec' \in [Secondaries -> Seq(Control \cup Data)]
    BY <1>3, ExecuteType DEF TopExpired, TypeInv
  <2>. QED
    BY <1>3, <2>1 DEF TopExpired, TypeInv, TypeOK, LoopOK, NeverExecuteEmpty,
       Phases, secVars
<1>. QED
  BY <1>1, <1>2, <1>3

\* The tunnel handler.
LEMMA TunnelTypeInv ==
  ASSUME TypeInv, Tunnel
  PROVE  TypeInv'
<1>1. ASSUME NEW f \in Flows, NEW d \in Data, TunnelHit(f, d)
      PROVE  TypeInv'
  <2>1. toSec' \in [Secondaries -> Seq(Control \cup Data)]
    BY <1>1, SendType, ControlAssumption DEF TunnelHit, TypeInv, TypeOK
  <2>. QED
    BY <1>1, <2>1, ControlAssumption
       DEF TunnelHit, AfterTunnel, TypeInv, TypeOK, LoopOK, NeverExecuteEmpty,
           Phases, secVars
<1>2. ASSUME NEW f \in Flows, NEW d \in Data, TunnelMiss(f, d)
      PROVE  TypeInv'
  <2>1. todo' \in Seq(Request) /\ table' \subseteq Flows
    BY <1>2, ControlAssumption DEF TunnelMiss, DbInsert, TypeInv, TypeOK
  <2>2. packet' \in {<<p>> : p \in Packet} /\ packet' # <<>>
    BY <1>2, ControlAssumption DEF TunnelMiss, Packet
  <2>. QED
    BY <1>2, <2>1, <2>2
       DEF TunnelMiss, TypeInv, TypeOK, LoopOK, NeverExecuteEmpty, Phases, secVars
<1>3. CASE TunnelOther
  BY <1>3 DEF TunnelOther, AfterTunnel, TypeInv, TypeOK, LoopOK,
     NeverExecuteEmpty, Phases, secVars
<1>. QED
  BY <1>1, <1>2, <1>3 DEF Tunnel

\* The event that InstallOne starts a timer for.
NewEvent ==
  [hdl |-> nextHandle, tv |-> RTO, to |-> Head(todo).to,
   seq |-> seqno, rule |-> Head(todo).rule]

LEMMA NewEventType ==
  ASSUME TypeOK, InstallOne
  PROVE  /\ NewEvent \in Event
         /\ NewEvent.to \in Secondaries
         /\ ControlOf(NewEvent) \in Control
         /\ Tail(todo) \in Seq(Request)
         /\ eq' = EqAdd(eq, NewEvent)
         /\ Send(NewEvent.to, ControlOf(NewEvent))
<1>1. Head(todo) \in Request /\ Tail(todo) \in Seq(Request)
  BY HeadTailProperties DEF TypeOK, InstallOne
<1>2. NewEvent \in Event
  BY <1>1, ControlAssumption DEF NewEvent, Event, Request, TypeOK
<1>3. NewEvent.to \in Secondaries /\ ControlOf(NewEvent) \in Control
  BY <1>2 DEF Event, Control, ControlOf
<1>. QED
  BY <1>1, <1>2, <1>3 DEF InstallOne, NewEvent

\* The control messages of a packet, and the packet.
LEMMA InstallTypeInv ==
  ASSUME TypeInv, InstallOne \/ InstallDone
  PROVE  TypeInv'
<1>1. CASE InstallOne
  <2>1. toSec' \in [Secondaries -> Seq(Control \cup Data)]
    BY <1>1, NewEventType, SendType DEF TypeInv, TypeOK
  <2>2. IsEventList(eq, Event)
    BY EqIsEventList DEF TypeInv, TypeOK
  <2>3. eq' \in Seq(Event)
    BY <1>1, <2>2, NewEventType, EqAddProperties DEF TypeInv
  <2>4. seqno' \in Seqnos
    BY <1>1, ControlAssumption
       DEF InstallOne, TakeSeqno, TypeInv, TypeOK, Seqnos
  <2>5. DOMAIN unAck' \subseteq Seqnos /\ \A s \in DOMAIN unAck' : unAck'[s] \in Nat
    BY <1>1 DEF InstallOne, TypeInv, TypeOK
  <2>6. todo' \in Seq(Request) /\ nextHandle' \in Nat
    BY <1>1, NewEventType DEF InstallOne, TypeInv, TypeOK
  <2>7. TypeOK'
    BY <1>1, <2>1, <2>3, <2>4, <2>5, <2>6 DEF InstallOne, TypeInv, TypeOK, secVars
  <2>8. LoopOK'
    BY <1>1 DEF InstallOne, TypeInv, LoopOK, NeverExecuteEmpty
  <2>. QED
    BY <2>7, <2>8 DEF TypeInv
<1>2. CASE InstallDone
  <2>1. packet[1] \in Packet
    BY <1>2 DEF InstallDone, TypeInv, TypeOK, LoopOK
  <2>2. packet[1].to \in Secondaries /\ packet[1].data \in Data
    BY <2>1 DEF Packet
  <2>3. toSec' \in [Secondaries -> Seq(Control \cup Data)]
    BY <1>2, <2>2, SendType DEF InstallDone, TypeInv, TypeOK
  <2>. QED
    BY <1>2, <2>3, ControlAssumption
       DEF InstallDone, AfterTunnel, TypeInv, TypeOK, LoopOK, NeverExecuteEmpty,
           Phases, secVars
<1>. QED
  BY <1>1, <1>2

\* The socket handler.
LEMMA SocketTypeInv ==
  ASSUME TypeInv, SocketAck \/ SocketData
  PROVE  TypeInv'
<1>1. ReadSocket
  BY DEF SocketAck, SocketData
<1>2. toPri' \in Seq(Ack \cup Data)
  BY <1>1, HeadTailProperties DEF ReadSocket, TypeInv, TypeOK
<1>3. eq' \in Seq(Event)
  <2>1. IsEventList(eq, Event)
    BY EqIsEventList DEF TypeInv, TypeOK
  <2>. QED
    BY <2>1, EqRemoveProperties DEF SocketAck, SocketData, IsEventList
<1>4. DOMAIN unAck' \subseteq Seqnos /\ \A s \in DOMAIN unAck' : unAck'[s] \in Nat
  BY DEF SocketAck, SocketData, TypeInv, TypeOK
<1>. QED
  BY <1>1, <1>2, <1>3, <1>4, ControlAssumption
     DEF ReadSocket, TypeInv, TypeOK, LoopOK, NeverExecuteEmpty, Phases, secVars

\* Expirations, and the end of the loop.
LEMMA ExpireTypeInv ==
  ASSUME TypeInv, SelectTimer \/ ExpireMore \/ ExpireDone \/ SelectIdle
  PROVE  TypeInv'
<1>1. ASSUME Execute, eq # <<>>, phase' = "expire",
             UNCHANGED <<table, todo, packet, sockReady, seqno, unAck,
                         nextHandle, timeout, eventTimeout, toPri, secVars>>
      PROVE  TypeInv'
  <2>1. /\ eq' \in Seq(Event)
        /\ eq' # <<>>
        /\ toSec' \in [Secondaries -> Seq(Control \cup Data)]
    BY <1>1, ExecuteType DEF TypeInv
  <2>. QED
    BY <1>1, <2>1 DEF TypeInv, TypeOK, LoopOK, NeverExecuteEmpty, Phases, secVars
<1>2. CASE SelectTimer
  BY <1>1, <1>2 DEF SelectTimer, TypeInv, LoopOK, NeverExecuteEmpty
<1>3. CASE ExpireMore
  BY <1>1, <1>3 DEF ExpireMore, TypeInv, LoopOK, NeverExecuteEmpty
<1>4. CASE ExpireDone
  BY <1>4, ControlAssumption
     DEF ExpireDone, TypeInv, TypeOK, LoopOK, NeverExecuteEmpty, Phases, secVars
<1>5. CASE SelectIdle
  BY <1>5 DEF SelectIdle, TypeInv, TypeOK, LoopOK, NeverExecuteEmpty, Phases,
     secVars
<1>. QED
  BY <1>2, <1>3, <1>4, <1>5

\* A secondary router takes the datagram at the head of its buffer.
LEMMA ReceiveType ==
  ASSUME TypeOK, NEW r \in Secondaries, Receive(r)
  PROVE  /\ Head(toSec[r]) \in Control \cup Data
         /\ toSec' \in [Secondaries -> Seq(Control \cup Data)]
         /\ idle' \in [Secondaries -> Nat]
<1>1. toSec[r] \in Seq(Control \cup Data) /\ toSec[r] # <<>>
  BY DEF TypeOK, Receive
<1>2. Head(toSec[r]) \in Control \cup Data /\ Tail(toSec[r]) \in Seq(Control \cup Data)
  BY <1>1, HeadTailProperties
<1>3. toSec' = [toSec EXCEPT ![r] = Tail(toSec[r])] /\ idle' = [idle EXCEPT ![r] = Idle]
  BY DEF Receive
<1>. QED
  BY <1>2, <1>3, ControlAssumption DEF TypeOK

LEMMA ReplyType ==
  ASSUME toPri \in Seq(Ack \cup Data), NEW m \in Ack \cup Data, Reply(m)
  PROVE  toPri' \in Seq(Ack \cup Data)
  BY DeliverType DEF Reply

\* What SecInstall writes, and the acknowledgement it sends.
LEMMA SecInstallType ==
  ASSUME TypeOK, NEW r \in Secondaries, NEW k \in Rules, SecInstall(r, k)
  PROVE  /\ rules' = [rules EXCEPT ![r] = @ \cup {k}]
         /\ DOMAIN count' = Secondaries
         /\ \A s \in Secondaries :
              /\ DOMAIN count'[s] \subseteq Rules
              /\ \A j \in DOMAIN count'[s] : count'[s][j] \in Nat
              /\ DOMAIN count'[s] \cup dropped'[s]
                   = IF s = r THEN DOMAIN count[s] \cup dropped[s] \cup {k}
                     ELSE DOMAIN count[s] \cup dropped[s]
         /\ dropped' \in [Secondaries -> SUBSET Rules]
         /\ toPri' = Deliver(toPri, [kind |-> "ack", seq |-> Head(toSec[r]).seq,
                                     rule |-> k, from |-> r])
         /\ Head(toSec[r]).seq \in Seqnos
<1>1. Head(toSec[r]) \in Control
  BY ReceiveType DEF SecInstall, Control, Data
<1>2. CountOf(r, k) + 1 \in Nat
  BY DEF CountOf, TypeOK
<1>3. StoreRule(r, k) /\ CountReceipt(r, k)
  BY DEF SecInstall
<1>4. CASE CountOf(r, k) + 1 = DropAfter
  <2>1. /\ count' = [count EXCEPT ![r] = Uncounted(r, k)]
        /\ dropped' = [dropped EXCEPT ![r] = @ \cup {k}]
    BY <1>3, <1>4 DEF CountReceipt
  <2>2. \A s \in Secondaries :
          /\ count'[s] = IF s = r THEN Uncounted(r, k) ELSE count[s]
          /\ dropped'[s] = IF s = r THEN dropped[s] \cup {k} ELSE dropped[s]
    BY <2>1 DEF TypeOK
  <2>3. /\ DOMAIN Uncounted(r, k) = DOMAIN count[r] \ {k}
        /\ \A j \in DOMAIN Uncounted(r, k) : Uncounted(r, k)[j] \in Nat
    BY DEF Uncounted, TypeOK
  <2>4. ASSUME NEW s \in Secondaries
        PROVE  /\ DOMAIN count'[s] \subseteq Rules
               /\ \A j \in DOMAIN count'[s] : count'[s][j] \in Nat
               /\ DOMAIN count'[s] \cup dropped'[s]
                    = IF s = r THEN DOMAIN count[s] \cup dropped[s] \cup {k}
                      ELSE DOMAIN count[s] \cup dropped[s]
    <3>1. CASE s = r
      BY <3>1, <2>2, <2>3 DEF TypeOK
    <3>2. CASE s # r
      BY <3>2, <2>2 DEF TypeOK
    <3>. QED
      BY <3>1, <3>2
  <2>5. DOMAIN count' = Secondaries /\ dropped' \in [Secondaries -> SUBSET Rules]
    BY <2>1 DEF TypeOK
  <2>. QED
    BY <1>1, <2>4, <2>5 DEF SecInstall, StoreRule, Reply, Control
<1>5. CASE CountOf(r, k) + 1 # DropAfter
  <2>. DEFINE n == CountOf(r, k) + 1
  <2>1. count' = [count EXCEPT ![r] = Counted(r, k, n)] /\ dropped' = dropped
    BY <1>3, <1>5 DEF CountReceipt
  <2>2. \A s \in Secondaries :
          count'[s] = IF s = r THEN Counted(r, k, n) ELSE count[s]
    BY <2>1 DEF TypeOK
  <2>3. /\ DOMAIN Counted(r, k, n) = DOMAIN count[r] \cup {k}
        /\ \A j \in DOMAIN Counted(r, k, n) : Counted(r, k, n)[j] \in Nat
    BY <1>2 DEF Counted, TypeOK
  <2>. HIDE DEF n
  <2>4. ASSUME NEW s \in Secondaries
        PROVE  /\ DOMAIN count'[s] \subseteq Rules
               /\ \A j \in DOMAIN count'[s] : count'[s][j] \in Nat
               /\ DOMAIN count'[s] \cup dropped'[s]
                    = IF s = r THEN DOMAIN count[s] \cup dropped[s] \cup {k}
                      ELSE DOMAIN count[s] \cup dropped[s]
    <3>1. CASE s = r
      BY <3>1, <2>1, <2>2, <2>3 DEF TypeOK
    <3>2. CASE s # r
      BY <3>2, <2>1, <2>2 DEF TypeOK
    <3>. QED
      BY <3>1, <3>2
  <2>5. DOMAIN count' = Secondaries /\ dropped' \in [Secondaries -> SUBSET Rules]
    BY <2>1 DEF TypeOK
  <2>. QED
    BY <1>1, <2>4, <2>5 DEF SecInstall, StoreRule, Reply, Control
<1>. QED
  BY <1>4, <1>5

\* A step of a secondary router.
LEMMA SecTypeInv ==
  ASSUME TypeInv, NEW r \in Secondaries, SecStep(r) \/ SecRaw(r)
  PROVE  TypeInv'
<1>a. [kind |-> "other"] \in Ack \cup Data
  BY DEF Data
<1>1. ASSUME NEW k \in Rules, SecInstall(r, k)
      PROVE  TypeInv'
  <2>1. Receive(r)
    BY <1>1 DEF SecInstall
  <2>2. rules' \in [Secondaries -> SUBSET Rules]
    <3>1. rules' = [rules EXCEPT ![r] = @ \cup {k}]
      BY <1>1 DEF SecInstall, StoreRule
    <3>. QED
      BY <3>1 DEF TypeInv, TypeOK
  <2>3. toPri' \in Seq(Ack \cup Data)
    <3>1. [kind |-> "ack", seq |-> Head(toSec[r]).seq, rule |-> k, from |-> r] \in Ack
      BY <1>1, SecInstallType DEF TypeInv, Ack
    <3>. QED
      BY <3>1, <1>1, ReplyType DEF SecInstall, TypeInv, TypeOK
  <2>4. /\ DOMAIN count' = Secondaries
        /\ \A s \in Secondaries :
             /\ DOMAIN count'[s] \subseteq Rules
             /\ \A j \in DOMAIN count'[s] : count'[s][j] \in Nat
        /\ dropped' \in [Secondaries -> SUBSET Rules]
    BY <1>1, SecInstallType DEF TypeInv
  <2>5. TypeOK'
    BY <1>1, <2>1, <2>2, <2>3, <2>4, ReceiveType
       DEF SecInstall, Receive, priVars, TypeInv, TypeOK
  <2>6. LoopOK'
    BY <2>1 DEF Receive, priVars, TypeInv, LoopOK, NeverExecuteEmpty
  <2>. QED
    BY <2>5, <2>6 DEF TypeInv
<1>2. CASE SecIgnore(r)
  BY <1>2, ReceiveType
     DEF SecIgnore, Receive, priVars, TypeInv, TypeOK, LoopOK, NeverExecuteEmpty
<1>3. CASE SecReply(r)
  <2>1. toPri' \in Seq(Ack \cup Data)
    BY <1>3, <1>a, ReplyType DEF SecReply, TypeInv, TypeOK
  <2>. QED
    BY <1>3, <2>1, ReceiveType
       DEF SecReply, Receive, priVars, TypeInv, TypeOK, LoopOK, NeverExecuteEmpty
<1>4. CASE SecForward(r)
  BY <1>4, ReceiveType
     DEF SecForward, Receive, priVars, TypeInv, TypeOK, LoopOK, NeverExecuteEmpty
<1>5. CASE SecQuit(r)
  BY <1>5, ReceiveType
     DEF SecQuit, Receive, priVars, TypeInv, TypeOK, LoopOK, NeverExecuteEmpty
<1>6. CASE SecIdle(r)
  BY <1>6 DEF SecIdle, priVars, TypeInv, TypeOK, LoopOK, NeverExecuteEmpty
<1>7. CASE SecRaw(r)
  <2>1. toPri' \in Seq(Ack \cup Data)
    BY <1>7, <1>a, ReplyType DEF SecRaw, TypeInv, TypeOK
  <2>. QED
    BY <1>7, <2>1, ControlAssumption
       DEF SecRaw, priVars, TypeInv, TypeOK, LoopOK, NeverExecuteEmpty
<1>. QED
  BY <1>1, <1>2, <1>3, <1>4, <1>5, <1>6, <1>7 DEF SecStep

\* A datagram is lost.
LEMMA LoseTypeInv ==
  ASSUME TypeInv, Lose
  PROVE  TypeInv'
<1>1. CASE LoseToPri
  <2>1. toPri' \in Seq(Ack \cup Data)
    BY <1>1, FrontType DEF LoseToPri, TypeInv, TypeOK
  <2>. QED
    BY <1>1, <2>1 DEF LoseToPri, priVars, secVars, TypeInv, TypeOK, LoopOK,
       NeverExecuteEmpty
<1>2. ASSUME NEW r \in Secondaries, LoseToSec(r)
      PROVE  TypeInv'
  <2>1. Front(toSec[r]) \in Seq(Control \cup Data)
    BY <1>2, FrontType DEF LoseToSec, TypeInv, TypeOK
  <2>2. toSec' \in [Secondaries -> Seq(Control \cup Data)]
    BY <1>2, <2>1 DEF LoseToSec, TypeInv, TypeOK
  <2>. QED
    BY <1>2, <2>2 DEF LoseToSec, priVars, secVars, TypeInv, TypeOK, LoopOK,
       NeverExecuteEmpty
<1>. QED
  BY <1>1, <1>2 DEF Lose

\* The clock only changes expiration times.
LEMMA TickEq ==
  ASSUME eq \in Seq(Event), Tick
  PROVE  /\ eq' \in Seq(Event)
         /\ Len(eq') = Len(eq)
         /\ \A i \in 1..Len(eq) : /\ eq'[i] = [eq[i] EXCEPT !.tv = Decrease(@)]
                                  /\ eq'[i].hdl = eq[i].hdl
                                  /\ eq'[i].seq = eq[i].seq
                                  /\ eq'[i].to = eq[i].to
                                  /\ eq'[i].rule = eq[i].rule
<1>1. Len(eq) \in Nat /\ \A i \in 1..Len(eq) : eq[i] \in Event
  BY LenProperties, ElementOfSeq
<1>2. ASSUME NEW i \in 1..Len(eq)
      PROVE  [eq[i] EXCEPT !.tv = Decrease(@)] \in Event
  <2>1. eq[i] \in Event /\ eq[i].tv \in 0..RTO
    BY <1>1 DEF Event
  <2>2. Decrease(eq[i].tv) \in 0..RTO
    BY <2>1, ControlAssumption DEF Decrease
  <2>. QED
    BY <2>1, <2>2 DEF Event
<1>3. eq' = [i \in 1..Len(eq) |-> [eq[i] EXCEPT !.tv = Decrease(@)]]
  BY DEF Tick
<1>4. eq' \in Seq(Event)
  BY <1>1, <1>2, <1>3
<1>5. Len(eq') = Len(eq)
  BY <1>1, <1>3
<1>. QED
  BY <1>1, <1>3, <1>4, <1>5 DEF Event

LEMMA TickTypeInv ==
  ASSUME TypeInv, Tick
  PROVE  TypeInv'
<1>1. eq' \in Seq(Event) /\ Len(eq') = Len(eq)
  BY TickEq DEF TypeInv, TypeOK
<1>2. eq # <<>> => eq' # <<>>
  BY <1>1 DEF TypeInv, TypeOK
<1>3. timeout' \in Nat /\ idle' \in [Secondaries -> Nat]
  BY DEF Tick, Decrease, TypeInv, TypeOK
<1>. QED
  BY <1>1, <1>2, <1>3 DEF Tick, TypeInv, TypeOK, LoopOK, NeverExecuteEmpty

\* Every step preserves the types.
LEMMA NextTypeInv == TypeInv /\ [Next]_vars => TypeInv'
<1>. SUFFICES ASSUME TypeInv, [Next]_vars PROVE TypeInv'
  OBVIOUS
<1>1. CASE PriStep
  BY <1>1, TopTypeInv, InstallTypeInv, SocketTypeInv, ExpireTypeInv DEF PriStep
<1>2. CASE Tunnel
  BY <1>2, TunnelTypeInv
<1>3. CASE \E r \in Secondaries : SecStep(r) \/ SecRaw(r)
  BY <1>3, SecTypeInv
<1>4. CASE Lose
  BY <1>4, LoseTypeInv
<1>5. CASE Tick
  BY <1>5, TickTypeInv
<1>6. CASE UNCHANGED vars
  BY <1>6 DEF vars, priVars, secVars, TypeInv, TypeOK, LoopOK, NeverExecuteEmpty
<1>. QED
  BY <1>1, <1>2, <1>3, <1>4, <1>5, <1>6 DEF Next

\* The state is of its types.
THEOREM TypeCorrect == Spec => []TypeOK
<1>1. TypeInv => TypeOK
  BY DEF TypeInv
<1>. QED
  BY InitTypeInv, NextTypeInv, <1>1, PTL DEF Spec

\* The primary router never executes a timer of an empty list: the null
\* pointer that Eq_Pop would return is never dereferenced.
THEOREM ExecutesSomeTimer == Spec => []NeverExecuteEmpty
<1>1. TypeInv => NeverExecuteEmpty
  BY DEF TypeInv, LoopOK
<1>. QED
  BY InitTypeInv, NextTypeInv, <1>1, PTL DEF Spec

-----------------------------------------------------------------------------
(* An acknowledgement means an installed rule *)

AcksInstalled ==
  \A i \in 1..Len(toPri) :
    toPri[i].kind = "ack" => toPri[i].rule \in rules[toPri[i].from]

Accounted ==
  \A r \in Secondaries : DOMAIN count[r] \cup dropped[r] = rules[r]

LEMMA AckedParts == AckedIsInstalled <=> AcksInstalled /\ Accounted
  BY DEF AckedIsInstalled, AcksInstalled, Accounted

\* Datagrams taken out at either end leave the acknowledgements true.
LEMMA FewerAcks ==
  ASSUME TypeOK, AcksInstalled, toPri # <<>>, UNCHANGED rules,
         toPri' = Tail(toPri) \/ toPri' = Front(toPri)
  PROVE  AcksInstalled'
<1>0. Len(toPri) \in Nat \ {0} /\ toPri \in Seq(Ack \cup Data)
  BY EmptySeq DEF TypeOK
<1>1. CASE toPri' = Tail(toPri)
  <2>1. /\ Len(toPri') = Len(toPri) - 1
        /\ \A i \in 1..Len(toPri') : toPri'[i] = toPri[i+1]
    BY <1>0, <1>1, HeadTailProperties
  <2>2. \A i \in 1..Len(toPri') : i+1 \in 1..Len(toPri)
    BY <1>0, <2>1
  <2>. QED
    BY <2>1, <2>2 DEF AcksInstalled
<1>2. CASE toPri' = Front(toPri)
  <2>1. /\ Len(toPri') = Len(toPri) - 1
        /\ \A i \in 1..Len(toPri') : toPri'[i] = toPri[i]
    BY <1>0, <1>2, FrontType
  <2>2. \A i \in 1..Len(toPri') : i \in 1..Len(toPri)
    BY <1>0, <2>1
  <2>. QED
    BY <2>1, <2>2 DEF AcksInstalled
<1>. QED
  BY <1>1, <1>2

\* What a secondary sends to the primary leaves them true if it is itself, and
\* rules are never taken back.
LEMMA MoreAcks ==
  ASSUME TypeOK, AcksInstalled, NEW m \in Ack \cup Data, Reply(m),
         \A r \in Secondaries : rules[r] \subseteq rules'[r],
         m.kind = "ack" => m.rule \in rules'[m.from]
  PROVE  AcksInstalled'
<1>0. Len(toPri) \in Nat /\ toPri \in Seq(Ack \cup Data)
  BY LenProperties DEF TypeOK
<1>1. ASSUME NEW i \in 1..Len(toPri), toPri[i].kind = "ack"
      PROVE  toPri[i].rule \in rules'[toPri[i].from]
  <2>1. toPri[i] \in Ack \cup Data
    BY <1>0, ElementOfSeq
  <2>2. toPri[i].from \in Secondaries
    BY <2>1, <1>1 DEF Ack, Data
  <2>. QED
    BY <2>2, <1>1 DEF AcksInstalled
<1>2. CASE toPri' = toPri
  BY <1>1, <1>2 DEF AcksInstalled
<1>3. CASE toPri' = Append(toPri, m)
  <2>1. /\ Len(toPri') = Len(toPri) + 1
        /\ \A i \in 1..Len(toPri) : toPri'[i] = toPri[i]
        /\ toPri'[Len(toPri) + 1] = m
    BY <1>0, <1>3, AppendProperties
  <2>2. ASSUME NEW i \in 1..Len(toPri'), toPri'[i].kind = "ack"
        PROVE  toPri'[i].rule \in rules'[toPri'[i].from]
    <3>1. CASE i = Len(toPri) + 1
      BY <3>1, <2>1, <2>2
    <3>2. CASE i # Len(toPri) + 1
      <4>1. i \in 1..Len(toPri)
        BY <3>2, <2>1, <1>0
      <4>. QED
        BY <4>1, <2>1, <2>2, <1>1
    <3>. QED
      BY <3>1, <3>2
  <2>. QED
    BY <2>2 DEF AcksInstalled
<1>. QED
  BY <1>2, <1>3 DEF Reply, Deliver

LEMMA InitAcked == Init => AckedIsInstalled
<1>. SUFFICES ASSUME Init PROVE AckedIsInstalled
  OBVIOUS
<1>1. AcksInstalled
  BY DEF Init, AcksInstalled
<1>2. Accounted
  BY DEF Init, Accounted
<1>. QED
  BY <1>1, <1>2, AckedParts

\* Every step preserves it.  The primary only takes acknowledgements out.
LEMMA NextAcked ==
  TypeInv /\ AckedIsInstalled /\ [Next]_vars => AckedIsInstalled'
<1>. SUFFICES ASSUME TypeInv, AckedIsInstalled, [Next]_vars
              PROVE  AckedIsInstalled'
  OBVIOUS
<1>a. TypeOK /\ AcksInstalled /\ Accounted
  BY AckedParts DEF TypeInv
<1>b. ASSUME UNCHANGED <<rules, count, dropped>>
      PROVE  Accounted'
  BY <1>a, <1>b DEF Accounted
<1>c. ASSUME UNCHANGED <<toPri, rules>>
      PROVE  AcksInstalled'
  BY <1>a, <1>c DEF AcksInstalled
<1>d. ASSUME AcksInstalled', Accounted'
      PROVE  AckedIsInstalled'
  BY <1>d DEF AckedIsInstalled, AcksInstalled, Accounted
<1>1. CASE PriStep
  <2>1. UNCHANGED <<rules, count, dropped>>
    BY <1>1 DEF PriStep, TopNoTimer, TopWait, TopExpired, InstallOne, InstallDone,
       SocketAck, SocketData, ReadSocket, SelectTimer, ExpireMore, ExpireDone,
       SelectIdle, secVars
  <2>2. UNCHANGED toPri \/ ReadSocket
    BY <1>1 DEF PriStep, TopNoTimer, TopWait, TopExpired, InstallOne, InstallDone,
       SocketAck, SocketData, SelectTimer, ExpireMore, ExpireDone, SelectIdle
  <2>3. CASE UNCHANGED toPri
    BY <2>1, <2>3, <1>b, <1>c, <1>d
  <2>4. CASE ReadSocket
    BY <2>1, <2>4, <1>a, <1>b, <1>d, FewerAcks DEF ReadSocket
  <2>. QED
    BY <2>2, <2>3, <2>4
<1>2. CASE Tunnel
  BY <1>2, <1>b, <1>c, <1>d DEF Tunnel, TunnelHit, TunnelMiss, TunnelOther, secVars
<1>3. ASSUME NEW r \in Secondaries, SecStep(r) \/ SecRaw(r)
      PROVE  AckedIsInstalled'
  <2>1. ASSUME NEW k \in Rules, SecInstall(r, k)
        PROVE  AckedIsInstalled'
    <3>. DEFINE m == [kind |-> "ack", seq |-> Head(toSec[r]).seq, rule |-> k,
                      from |-> r]
    <3>1. /\ rules' = [rules EXCEPT ![r] = @ \cup {k}]
          /\ Head(toSec[r]).seq \in Seqnos
      BY <2>1, <1>a, SecInstallType
    <3>2. \A s \in Secondaries :
            rules'[s] = IF s = r THEN rules[s] \cup {k} ELSE rules[s]
      BY <3>1, <1>a DEF TypeOK
    <3>3. \A s \in Secondaries :
            DOMAIN count'[s] \cup dropped'[s]
              = IF s = r THEN DOMAIN count[s] \cup dropped[s] \cup {k}
                ELSE DOMAIN count[s] \cup dropped[s]
      BY <2>1, <1>a, SecInstallType
    <3>4. Accounted'
      BY <3>2, <3>3, <1>a DEF Accounted
    <3>5. m \in Ack
      BY <3>1 DEF Ack
    <3>6. AcksInstalled'
      <4>1. m.rule = k /\ m.from = r /\ Reply(m)
        BY <2>1 DEF SecInstall
      <4>2. \A s \in Secondaries : rules[s] \subseteq rules'[s]
        BY <3>2
      <4>3. k \in rules'[r]
        BY <3>2
      <4>. HIDE DEF m
      <4>. QED
        BY <4>1, <4>2, <4>3, <3>5, <1>a, MoreAcks
    <3>. QED
      BY <3>4, <3>6, <1>d
  <2>2. CASE SecReply(r) \/ SecRaw(r)
    <3>1. Reply([kind |-> "other"]) /\ UNCHANGED <<rules, count, dropped>>
      BY <2>2 DEF SecReply, SecRaw
    <3>2. [kind |-> "other"] \in Ack \cup Data
      BY DEF Data
    <3>3. AcksInstalled'
      BY <3>1, <3>2, <1>a, MoreAcks
    <3>. QED
      BY <3>1, <3>3, <1>b, <1>d
  <2>3. CASE SecIgnore(r) \/ SecForward(r) \/ SecQuit(r) \/ SecIdle(r)
    <3>1. UNCHANGED <<toPri, rules, count, dropped>>
      BY <2>3 DEF SecIgnore, SecForward, SecQuit, SecIdle
    <3>. QED
      BY <3>1, <1>b, <1>c, <1>d
  <2>. QED
    BY <1>3, <2>1, <2>2, <2>3 DEF SecStep
<1>4. CASE Lose
  <2>1. CASE LoseToPri
    <3>1. UNCHANGED <<rules, count, dropped>>
      BY <2>1 DEF LoseToPri, secVars
    <3>. QED
      BY <2>1, <3>1, <1>a, <1>b, <1>d, FewerAcks DEF LoseToPri
  <2>2. CASE \E r \in Secondaries : LoseToSec(r)
    BY <2>2, <1>b, <1>c, <1>d DEF LoseToSec, secVars
  <2>. QED
    BY <1>4, <2>1, <2>2 DEF Lose
<1>5. CASE Tick
  BY <1>5, <1>b, <1>c, <1>d DEF Tick
<1>6. CASE UNCHANGED vars
  BY <1>6, <1>b, <1>c, <1>d DEF vars, secVars
<1>. QED
  BY <1>1, <1>2, <1>3, <1>4, <1>5, <1>6 DEF Next

\* The primary stops a retransmission only for a rule that is installed: an
\* acknowledgement on its way is one of an installed rule.
THEOREM AcknowledgedIsInstalled == Spec => []AckedIsInstalled
<1>1. TypeInv /\ AckedIsInstalled /\ [Next]_vars
        => (TypeInv /\ AckedIsInstalled)'
  BY NextTypeInv, NextAcked
<1>2. Init => TypeInv /\ AckedIsInstalled
  BY InitTypeInv, InitAcked
<1>. QED
  BY <1>1, <1>2, PTL DEF Spec

-----------------------------------------------------------------------------
(* m_unAckBuffer and the timer list describe the same messages *)

\* The strengthening of TimersMatchUnAck: a message's sequence number is its
\* timer's handle modulo SeqSpace, so that as long as no number is used twice
\* the next one is under no key of m_unAckBuffer.
Matched ==
  /\ nextHandle >= 1
  /\ seqno = nextHandle % SeqSpace
  /\ UniqueHandles(eq)
  /\ \A x \in Events(eq) : x.seq \in DOMAIN unAck /\ unAck[x.seq] = x.hdl
  /\ \A s \in DOMAIN unAck : /\ unAck[s] \in 1..nextHandle-1
                             /\ s = unAck[s] % SeqSpace
                             /\ \E x \in Events(eq) : x.seq = s

MatchInv == NoWrap => Matched

\* Arithmetic of the sequence numbers.
LEMMA ModProperties ==
  ASSUME NEW n \in Nat \ {0, 1}
  PROVE  /\ \A a, b \in 1..n : a % n = b % n => a = b
         /\ \A a \in 1..n : ((a % n) + 1) % n = (a + 1) % n
<1>1. \A a \in 0..n-1 : a % n = a
  OBVIOUS
<1>2. n % n = 0
  OBVIOUS
<1>3. (n + 1) % n = 1
  OBVIOUS
<1>4. ASSUME NEW a \in 1..n
      PROVE  a % n = IF a = n THEN 0 ELSE a
  BY <1>1, <1>2
<1>5. \A a, b \in 1..n : a % n = b % n => a = b
  BY <1>4
<1>6. ASSUME NEW a \in 1..n
      PROVE  ((a % n) + 1) % n = (a + 1) % n
  <2>1. CASE a = n
    BY <2>1, <1>1, <1>2, <1>3
  <2>2. CASE a # n
    BY <2>2, <1>4
  <2>. QED
    BY <2>1, <2>2
<1>. QED
  BY <1>5, <1>6

\* What a timer is for: everything of an event but its expiration time.
Key(x) == [hdl |-> x.hdl, to |-> x.to, seq |-> x.seq, rule |-> x.rule]
Keys(q) == {Key(x) : x \in Events(q)}

LEMMA KeysOfEvents ==
  ASSUME NEW q, NEW r, Keys(q) = Keys(r), NEW x \in Events(q)
  PROVE  \E y \in Events(r) :
           y.hdl = x.hdl /\ y.to = x.to /\ y.seq = x.seq /\ y.rule = x.rule
<1>1. Key(x) \in Keys(r)
  BY DEF Keys
<1>2. PICK y \in Events(r) : Key(x) = Key(y)
  BY <1>1 DEF Keys
<1>. QED
  BY <1>2 DEF Key

\* Executing the head changes expiration times only.
LEMMA ExecuteKeys ==
  ASSUME TypeOK, eq # <<>>, Execute
  PROVE  /\ Keys(eq') = Keys(eq)
         /\ UniqueHandles(eq) => UniqueHandles(eq')
<1>. DEFINE e == [Head(eq) EXCEPT !.tv = RTO]
            q == EqPop(eq)
<1>1. IsEventList(eq, Event)
  BY EqIsEventList DEF TypeOK
<1>2. /\ Head(eq) \in Event
      /\ IsEventList(q, Event)
      /\ Events(eq) = Events(q) \cup {Head(eq)}
      /\ UniqueHandles(eq) => UniqueHandles(q) /\ Head(eq).hdl \notin Handles(q)
  BY <1>1, EqPopProperties
<1>3. e \in Event /\ Key(e) = Key(Head(eq)) /\ e.hdl = Head(eq).hdl
  BY <1>2, ControlAssumption DEF Event, Key
<1>4. eq' = EqAdd(q, e)
  BY DEF Execute
<1>. HIDE DEF e, q
<1>5. Events(eq') = Events(q) \cup {e}
  BY <1>2, <1>3, <1>4, EqAddElements
<1>6. Keys(eq') = Keys(eq)
  BY <1>2, <1>3, <1>5 DEF Keys
<1>7. UniqueHandles(eq) => UniqueHandles(eq')
  BY <1>2, <1>3, <1>4, EqAddUnique
<1>. QED
  BY <1>6, <1>7

\* So does the clock.
LEMMA TickKeys ==
  ASSUME TypeOK, Tick
  PROVE  /\ Keys(eq') = Keys(eq)
         /\ UniqueHandles(eq) => UniqueHandles(eq')
<1>1. /\ Len(eq') = Len(eq)
      /\ \A i \in 1..Len(eq) : Key(eq'[i]) = Key(eq[i]) /\ eq'[i].hdl = eq[i].hdl
  BY TickEq DEF TypeOK, Key
<1>2. Keys(eq') = Keys(eq)
  BY <1>1 DEF Keys, Events
<1>3. UniqueHandles(eq) => UniqueHandles(eq')
  BY <1>1 DEF UniqueHandles
<1>. QED
  BY <1>2, <1>3

\* A step that changes expiration times only keeps the match.
LEMMA SameKeysMatch ==
  ASSUME MatchInv, Keys(eq') = Keys(eq),
         UniqueHandles(eq) => UniqueHandles(eq'),
         UNCHANGED <<nextHandle, seqno, unAck>>
  PROVE  MatchInv'
<1>. SUFFICES ASSUME NoWrap' PROVE Matched'
  BY DEF MatchInv
<1>1. NoWrap /\ Matched
  BY DEF NoWrap, MatchInv
<1>2. ASSUME NEW x \in Events(eq')
      PROVE  x.seq \in DOMAIN unAck /\ unAck[x.seq] = x.hdl
  <2>1. PICK y \in Events(eq) : y.hdl = x.hdl /\ y.seq = x.seq
    BY KeysOfEvents
  <2>. QED
    BY <1>1, <2>1 DEF Matched
<1>3. ASSUME NEW s \in DOMAIN unAck
      PROVE  \E x \in Events(eq') : x.seq = s
  <2>1. PICK y \in Events(eq) : y.seq = s
    BY <1>1 DEF Matched
  <2>2. \E x \in Events(eq') : x.seq = y.seq
    BY KeysOfEvents
  <2>. QED
    BY <2>1, <2>2
<1>. QED
  BY <1>1, <1>2, <1>3 DEF Matched

\* A new message: its sequence number is not in use.
LEMMA InstallOneMatch ==
  ASSUME TypeOK, MatchInv, InstallOne
  PROVE  MatchInv'
<1>. SUFFICES ASSUME NoWrap' PROVE Matched'
  BY DEF MatchInv
<1>1. /\ nextHandle' = nextHandle + 1
      /\ seqno' = (seqno + 1) % SeqSpace
      /\ unAck' = [s \in DOMAIN unAck \cup {seqno} |->
                     IF s = seqno THEN nextHandle ELSE unAck[s]]
  BY DEF InstallOne, TakeSeqno
<1>2. nextHandle \in Nat /\ SeqSpace \in Nat \ {0, 1}
  BY ControlAssumption DEF TypeOK
<1>3. NoWrap /\ Matched /\ nextHandle \in 1..SeqSpace
  BY <1>1, <1>2 DEF NoWrap, MatchInv, Matched
<1>4. seqno \notin DOMAIN unAck
  <2>1. SUFFICES ASSUME seqno \in DOMAIN unAck PROVE FALSE
    OBVIOUS
  <2>2. unAck[seqno] \in 1..nextHandle-1 /\ unAck[seqno] % SeqSpace = nextHandle % SeqSpace
    BY <2>1, <1>3 DEF Matched
  <2>3. unAck[seqno] \in 1..SeqSpace
    BY <2>2, <1>2, <1>3
  <2>4. unAck[seqno] = nextHandle
    BY <2>2, <2>3, <1>2, <1>3, ModProperties
  <2>. QED
    BY <2>2, <2>4, <1>2
<1>5. IsEventList(eq, Event)
  BY EqIsEventList DEF TypeOK
<1>6. /\ NewEvent \in Event
      /\ NewEvent.hdl = nextHandle
      /\ NewEvent.seq = seqno
      /\ eq' = EqAdd(eq, NewEvent)
  BY NewEventType DEF NewEvent
<1>7. Events(eq') = Events(eq) \cup {NewEvent}
  BY <1>5, <1>6, EqAddElements
<1>8. nextHandle \notin Handles(eq)
  <2>1. ASSUME NEW x \in Events(eq)
        PROVE  x.hdl # nextHandle
    BY <1>2, <1>3 DEF Matched
  <2>. QED
    BY <2>1, HandlesOfEvents
<1>9. UniqueHandles(eq')
  BY <1>3, <1>5, <1>6, <1>8, EqAddUnique DEF Matched
<1>10. ASSUME NEW x \in Events(eq')
       PROVE  x.seq \in DOMAIN unAck' /\ unAck'[x.seq] = x.hdl
  <2>1. CASE x = NewEvent
    BY <2>1, <1>1, <1>6
  <2>2. CASE x \in Events(eq)
    BY <2>2, <1>1, <1>3, <1>4 DEF Matched
  <2>. QED
    BY <1>7, <2>1, <2>2
<1>11. ASSUME NEW s \in DOMAIN unAck'
       PROVE  /\ unAck'[s] \in 1..nextHandle'-1
              /\ s = unAck'[s] % SeqSpace
              /\ \E x \in Events(eq') : x.seq = s
  <2>1. CASE s = seqno
    <3>1. unAck'[s] = nextHandle
      BY <2>1, <1>1
    <3>2. s = nextHandle % SeqSpace
      BY <2>1, <1>3 DEF Matched
    <3>. QED
      BY <2>1, <3>1, <3>2, <1>1, <1>2, <1>3, <1>6, <1>7
  <2>2. CASE s # seqno
    <3>1. s \in DOMAIN unAck /\ unAck'[s] = unAck[s]
      BY <2>2, <1>1
    <3>2. /\ unAck[s] \in 1..nextHandle-1
          /\ s = unAck[s] % SeqSpace
          /\ \E x \in Events(eq) : x.seq = s
      BY <3>1, <1>3 DEF Matched
    <3>. QED
      BY <3>1, <3>2, <1>1, <1>2, <1>7
  <2>. QED
    BY <2>1, <2>2
<1>12. seqno' = nextHandle' % SeqSpace /\ nextHandle' >= 1
  <2>1. seqno = nextHandle % SeqSpace
    BY <1>3 DEF Matched
  <2>2. ((nextHandle % SeqSpace) + 1) % SeqSpace = (nextHandle + 1) % SeqSpace
    BY <1>2, <1>3, ModProperties, Zenon
  <2>3. seqno' = (nextHandle + 1) % SeqSpace
    BY <1>1, <2>1, <2>2, Zenon
  <2>. QED
    BY <2>3, <1>1, <1>2
<1>13. /\ \A x \in Events(eq') : x.seq \in DOMAIN unAck' /\ unAck'[x.seq] = x.hdl
       /\ \A s \in DOMAIN unAck' : /\ unAck'[s] \in 1..nextHandle'-1
                                   /\ s = unAck'[s] % SeqSpace
                                   /\ \E x \in Events(eq') : x.seq = s
  BY <1>10, <1>11
<1>. QED
  BY <1>9, <1>12, <1>13 DEF Matched

\* An acknowledgement: entry and timer go together.
LEMMA SocketAckMatch ==
  ASSUME TypeOK, MatchInv, SocketAck
  PROVE  MatchInv'
<1>. SUFFICES ASSUME NoWrap' PROVE Matched'
  BY DEF MatchInv
<1>. DEFINE a == Head(toPri).seq
            h == HandleOf(a)
<1>1. /\ nextHandle' = nextHandle /\ seqno' = seqno
      /\ eq' = EqRemove(eq, h)
      /\ unAck' = [t \in DOMAIN unAck \ {a} |-> unAck[t]]
  BY DEF SocketAck, ReadSocket
<1>. HIDE DEF a
<1>2. NoWrap /\ Matched /\ nextHandle \in Nat
  BY <1>1 DEF NoWrap, MatchInv, TypeOK
<1>3. h = IF a \in DOMAIN unAck THEN unAck[a] ELSE 0
  BY DEF HandleOf
<1>. HIDE DEF h
<1>4. IsEventList(eq, Event)
  BY EqIsEventList DEF TypeOK
<1>5. /\ UniqueHandles(eq')
      /\ Events(eq') = {x \in Events(eq) : x.hdl # h}
  BY <1>1, <1>2, <1>4, EqRemoveProperties DEF Matched
<1>6. ASSUME NEW x \in Events(eq')
      PROVE  x.seq \in DOMAIN unAck' /\ unAck'[x.seq] = x.hdl
  <2>1. x \in Events(eq) /\ x.hdl # h
    BY <1>5
  <2>2. x.seq \in DOMAIN unAck /\ unAck[x.seq] = x.hdl
    BY <2>1, <1>2 DEF Matched
  <2>3. x.seq # a
    BY <2>1, <2>2, <1>3
  <2>. QED
    BY <2>2, <2>3, <1>1
<1>7. ASSUME NEW s \in DOMAIN unAck'
      PROVE  /\ unAck'[s] \in 1..nextHandle'-1
             /\ s = unAck'[s] % SeqSpace
             /\ \E x \in Events(eq') : x.seq = s
  <2>1. s \in DOMAIN unAck /\ s # a /\ unAck'[s] = unAck[s]
    BY <1>1
  <2>2. /\ unAck[s] \in 1..nextHandle-1
        /\ s = unAck[s] % SeqSpace
    BY <2>1, <1>2 DEF Matched
  <2>3. PICK x \in Events(eq) : x.seq = s
    BY <2>1, <1>2 DEF Matched
  <2>4. x.hdl = unAck[s]
    BY <2>3, <1>2 DEF Matched
  <2>5. x.hdl # h
    <3>1. CASE a \in DOMAIN unAck
      <4>1. h = unAck[a] /\ a = unAck[a] % SeqSpace
        BY <3>1, <1>2, <1>3 DEF Matched
      <4>. QED
        BY <4>1, <2>1, <2>2, <2>4
    <3>2. CASE a \notin DOMAIN unAck
      BY <3>2, <1>2, <1>3, <2>2, <2>4
    <3>. QED
      BY <3>1, <3>2
  <2>6. x \in Events(eq')
    BY <2>5, <1>5
  <2>. QED
    BY <2>1, <2>2, <2>3, <2>6, <1>1
<1>. QED
  BY <1>1, <1>2, <1>5, <1>6, <1>7 DEF Matched

LEMMA InitMatch == Init => MatchInv
<1>. SUFFICES ASSUME Init PROVE Matched
  BY DEF MatchInv
<1>1. eq = <<>> /\ DOMAIN unAck = {} /\ seqno = 1 /\ nextHandle = 1
  BY DEF Init
<1>2. Events(eq) = {} /\ UniqueHandles(eq)
  BY <1>1 DEF Events, UniqueHandles
<1>3. 1 % SeqSpace = 1
  BY ControlAssumption
<1>. QED
  BY <1>1, <1>2, <1>3 DEF Matched

LEMMA NextMatch == TypeInv /\ MatchInv /\ [Next]_vars => MatchInv'
<1>. SUFFICES ASSUME TypeInv, MatchInv, [Next]_vars
              PROVE  MatchInv'
  OBVIOUS
<1>a. ASSUME UNCHANGED <<eq, nextHandle, seqno, unAck>>
      PROVE  MatchInv'
  BY <1>a DEF MatchInv, NoWrap, Matched
<1>b. ASSUME Execute, eq # <<>>, UNCHANGED <<nextHandle, seqno, unAck>>
      PROVE  MatchInv'
  BY <1>b, ExecuteKeys, SameKeysMatch DEF TypeInv
<1>1. CASE PriStep
  <2>1. CASE TopExpired \/ SelectTimer \/ ExpireMore
    BY <2>1, <1>b DEF TopExpired, SelectTimer, ExpireMore, TypeInv, LoopOK,
       NeverExecuteEmpty
  <2>2. CASE InstallOne
    BY <2>2, InstallOneMatch DEF TypeInv
  <2>3. CASE SocketAck
    BY <2>3, SocketAckMatch DEF TypeInv
  <2>4. CASE TopNoTimer \/ TopWait \/ InstallDone \/ SocketData \/ ExpireDone
               \/ SelectIdle
    BY <2>4, <1>a DEF TopNoTimer, TopWait, InstallDone, SocketData, ReadSocket,
       ExpireDone, SelectIdle
  <2>. QED
    BY <1>1, <2>1, <2>2, <2>3, <2>4 DEF PriStep
<1>2. CASE Tunnel
  BY <1>2, <1>a DEF Tunnel, TunnelHit, TunnelMiss, TunnelOther
<1>3. CASE \E r \in Secondaries : SecStep(r) \/ SecRaw(r)
  BY <1>3, <1>a DEF SecStep, SecRaw, SecInstall, SecIgnore, SecReply, SecForward,
     SecQuit, SecIdle, Receive, priVars
<1>4. CASE Lose
  BY <1>4, <1>a DEF Lose, LoseToPri, LoseToSec, priVars
<1>5. CASE Tick
  BY <1>5, TickKeys, SameKeysMatch DEF Tick, TypeInv
<1>6. CASE UNCHANGED vars
  BY <1>6, <1>a DEF vars, priVars
<1>. QED
  BY <1>1, <1>2, <1>3, <1>4, <1>5, <1>6 DEF Next

\* As long as no sequence number has been used twice, every acknowledgement
\* finds the timer of its message and no timer is out of reach of one.
THEOREM TimersAlwaysMatch == Spec => []TimersMatchUnAck
<1>1. MatchInv => TimersMatchUnAck
  BY DEF MatchInv, Matched, TimersMatchUnAck, Events
<1>2. TypeInv /\ MatchInv /\ [Next]_vars => (TypeInv /\ MatchInv)'
  BY NextTypeInv, NextMatch
<1>3. Init => TypeInv /\ MatchInv
  BY InitTypeInv, InitMatch
<1>. QED
  BY <1>1, <1>2, <1>3, PTL DEF Spec
-----------------------------------------------------------------------------
(* The timer list stays sorted *)

\* Executing the head re-inserts its timer where its new time belongs.
LEMMA ExecuteSorted ==
  ASSUME TypeOK, TimersSorted, eq # <<>>, Execute
  PROVE  TimersSorted'
<1>. DEFINE e == [Head(eq) EXCEPT !.tv = RTO]
            q == EqPop(eq)
<1>1. IsEventList(eq, Event)
  BY EqIsEventList DEF TypeOK
<1>2. Head(eq) \in Event /\ IsEventList(q, Event) /\ SortedByTime(q)
  BY <1>1, EqPopProperties DEF TimersSorted
<1>3. e \in Event
  BY <1>2, ControlAssumption DEF Event
<1>4. eq' = EqAdd(q, e)
  BY DEF Execute
<1>. HIDE DEF e, q
<1>5. SortedByTime(EqAdd(q, e))
  BY <1>2, <1>3, EqAddSorted
<1>. QED
  BY <1>4, <1>5 DEF TimersSorted

LEMMA DecreaseMonotone ==
  ASSUME NEW a \in Nat, NEW b \in Nat, a <= b
  PROVE  Decrease(a) <= Decrease(b)
  BY DEF Decrease

\* The clock takes the same from every timer that has time left.
LEMMA TickSorted ==
  ASSUME TypeOK, TimersSorted, Tick
  PROVE  TimersSorted'
<1>1. /\ Len(eq') = Len(eq)
      /\ \A i \in 1..Len(eq) : eq'[i] = [eq[i] EXCEPT !.tv = Decrease(@)]
  BY TickEq DEF TypeOK
<1>2. ASSUME NEW i \in 1..Len(eq)
      PROVE  eq[i].tv \in Nat /\ eq'[i].tv = Decrease(eq[i].tv)
  <2>1. eq[i] \in Event
    BY ElementOfSeq DEF TypeOK
  <2>2. \A x \in Event :
          x.tv \in Nat /\ [x EXCEPT !.tv = Decrease(@)].tv = Decrease(x.tv)
    BY ControlAssumption DEF Event
  <2>. HIDE DEF Event, Decrease
  <2>. QED
    BY <2>1, <2>2, <1>1
<1>3. ASSUME NEW i \in 1..Len(eq), NEW j \in 1..Len(eq), i < j
      PROVE  eq'[i].tv <= eq'[j].tv
  <2>1. eq[i].tv <= eq[j].tv
    BY <1>3 DEF TimersSorted, SortedByTime
  <2>. QED
    BY <2>1, <1>2, DecreaseMonotone
<1>. QED
  BY <1>1, <1>3 DEF TimersSorted, SortedByTime

LEMMA NextSorted == TypeInv /\ TimersSorted /\ [Next]_vars => TimersSorted'
<1>. SUFFICES ASSUME TypeInv, TimersSorted, [Next]_vars
              PROVE  TimersSorted'
  OBVIOUS
<1>a. ASSUME UNCHANGED eq
      PROVE  TimersSorted'
  BY <1>a DEF TimersSorted
<1>b. IsEventList(eq, Event)
  BY EqIsEventList DEF TypeInv, TypeOK
<1>1. CASE PriStep
  <2>1. CASE TopExpired \/ SelectTimer \/ ExpireMore
    BY <2>1, ExecuteSorted DEF TopExpired, SelectTimer, ExpireMore, TypeInv,
       LoopOK, NeverExecuteEmpty
  <2>2. CASE InstallOne
    BY <2>2, <1>b, NewEventType, EqAddSorted DEF TypeInv, TimersSorted
  <2>3. CASE SocketAck
    BY <2>3, <1>b, EqRemoveProperties DEF SocketAck, TimersSorted
  <2>4. CASE TopNoTimer \/ TopWait \/ InstallDone \/ SocketData \/ ExpireDone
               \/ SelectIdle
    BY <2>4, <1>a DEF TopNoTimer, TopWait, InstallDone, SocketData, ReadSocket,
       ExpireDone, SelectIdle
  <2>. QED
    BY <1>1, <2>1, <2>2, <2>3, <2>4 DEF PriStep
<1>2. CASE Tunnel
  BY <1>2, <1>a DEF Tunnel, TunnelHit, TunnelMiss, TunnelOther
<1>3. CASE \E r \in Secondaries : SecStep(r) \/ SecRaw(r)
  BY <1>3, <1>a DEF SecStep, SecRaw, SecInstall, SecIgnore, SecReply, SecForward,
     SecQuit, SecIdle, Receive, priVars
<1>4. CASE Lose
  BY <1>4, <1>a DEF Lose, LoseToPri, LoseToSec, priVars
<1>5. CASE Tick
  BY <1>5, TickSorted DEF TypeInv
<1>6. CASE UNCHANGED vars
  BY <1>6, <1>a DEF vars, priVars
<1>. QED
  BY <1>1, <1>2, <1>3, <1>4, <1>5, <1>6 DEF Next

\* The head of the list is always a timer that expires first, through every mix
\* of new messages, retransmissions, acknowledgements and passing time.
THEOREM TimersAlwaysSorted == Spec => []TimersSorted
<1>1. Init => TimersSorted
  BY DEF Init, TimersSorted, SortedByTime
<1>2. TypeInv /\ TimersSorted /\ [Next]_vars => (TypeInv /\ TimersSorted)'
  BY NextTypeInv, NextSorted
<1>. QED
  BY InitTypeInv, <1>1, <1>2, PTL DEF Spec
-----------------------------------------------------------------------------
(* Where messages come from *)

LEMMA DeliverElements ==
  ASSUME NEW S, NEW q \in Seq(S), NEW m \in S
  PROVE  ToSet(Deliver(q, m)) \subseteq ToSet(q) \cup {m}
  BY ToSetAppend DEF Deliver

LEMMA SendElements ==
  ASSUME toSec \in [Secondaries -> Seq(Control \cup Data)],
         NEW r \in Secondaries, NEW m \in Control \cup Data, Send(r, m),
         NEW s \in Secondaries, NEW d \in ToSet(toSec'[s])
  PROVE  d \in ToSet(toSec[s]) \/ (s = r /\ d = m)
<1>1. toSec'[s] = IF s = r THEN Deliver(toSec[r], m) ELSE toSec[s]
  BY DEF Send
<1>2. toSec[r] \in Seq(Control \cup Data)
  OBVIOUS
<1>3. ToSet(Deliver(toSec[r], m)) \subseteq ToSet(toSec[r]) \cup {m}
  BY <1>2, DeliverElements
<1>. QED
  BY <1>1, <1>3

\* Control message m to r is the one that event x sends.
Carries(x, m, r) == x.to = r /\ x.seq = m.seq /\ x.rule = m.rule

\* Executing a timer sends its message, and the timer runs on.
LEMMA ExecuteSends ==
  ASSUME TypeOK, eq # <<>>, Execute,
         NEW r \in Secondaries, NEW m \in ToSet(toSec'[r]), m.kind = "control"
  PROVE  m \in ToSet(toSec[r]) \/ \E x \in Events(eq') : Carries(x, m, r)
<1>. DEFINE h == Head(eq)
<1>1. /\ h \in Event
      /\ h.to \in Secondaries
      /\ ControlOf(h) \in Control \cup Data
      /\ Send(h.to, ControlOf(h))
  BY HeadOfEq DEF TypeOK, Execute
<1>2. /\ ControlOf(h).seq = h.seq
      /\ ControlOf(h).rule = h.rule
  BY DEF ControlOf
<1>3. \E x \in Events(eq') : x.to = h.to /\ x.seq = h.seq /\ x.rule = h.rule
  <2>1. h \in Events(eq)
    BY EqIsEventList, EqPopProperties DEF TypeOK
  <2>2. Keys(eq) = Keys(eq')
    BY ExecuteKeys
  <2>. HIDE DEF h
  <2>. QED
    BY <2>1, <2>2, KeysOfEvents
<1>4. m \in ToSet(toSec[r]) \/ (r = h.to /\ m = ControlOf(h))
  <2>. HIDE DEF h
  <2>. QED
    BY <1>1, SendElements DEF TypeOK
<1>. HIDE DEF h
<1>. QED
  BY <1>2, <1>3, <1>4 DEF Carries

\* Every control message in a secondary's buffer was there before or is the
\* message of a timer that runs now.
LEMMA ControlsSent ==
  ASSUME TypeInv, [Next]_vars,
         NEW r \in Secondaries, NEW m \in ToSet(toSec'[r]), m.kind = "control"
  PROVE  m \in ToSet(toSec[r]) \/ \E x \in Events(eq') : Carries(x, m, r)
<1>a. TypeOK /\ toSec \in [Secondaries -> Seq(Control \cup Data)]
  BY DEF TypeInv, TypeOK
<1>b. ASSUME UNCHANGED toSec
      PROVE  m \in ToSet(toSec[r])
  BY <1>b
<1>c. ASSUME NEW s \in Secondaries, NEW d \in Data, Send(s, d)
      PROVE  m \in ToSet(toSec[r])
  BY <1>a, <1>c, SendElements DEF Data
<1>1. CASE TopExpired \/ SelectTimer \/ ExpireMore
  BY <1>1, <1>a, ExecuteSends DEF TopExpired, SelectTimer, ExpireMore, TypeInv,
     LoopOK, NeverExecuteEmpty
<1>2. CASE InstallOne
  <2>1. /\ NewEvent \in Event
        /\ NewEvent.to \in Secondaries
        /\ ControlOf(NewEvent) \in Control
        /\ eq' = EqAdd(eq, NewEvent)
        /\ Send(NewEvent.to, ControlOf(NewEvent))
    BY <1>2, <1>a, NewEventType
  <2>2. NewEvent \in Events(eq')
    BY <1>a, <2>1, EqIsEventList, EqAddElements DEF TypeOK
  <2>3. ControlOf(NewEvent).seq = NewEvent.seq /\ ControlOf(NewEvent).rule = NewEvent.rule
    BY DEF ControlOf
  <2>4. m \in ToSet(toSec[r]) \/ (r = NewEvent.to /\ m = ControlOf(NewEvent))
    BY <1>a, <2>1, SendElements
  <2>. QED
    BY <2>2, <2>3, <2>4 DEF Carries
<1>3. CASE InstallDone
  <2>1. packet[1] \in Packet
    BY <1>3 DEF InstallDone, TypeInv, TypeOK, LoopOK
  <2>2. packet[1].to \in Secondaries /\ packet[1].data \in Data
    BY <2>1 DEF Packet
  <2>. QED
    BY <1>3, <2>2, <1>c DEF InstallDone
<1>4. CASE TopNoTimer \/ TopWait \/ SocketAck \/ SocketData \/ ExpireDone
             \/ SelectIdle
  BY <1>4, <1>b DEF TopNoTimer, TopWait, SocketAck, SocketData, ReadSocket,
     ExpireDone, SelectIdle
<1>5. CASE Tunnel
  BY <1>5, <1>b, <1>c, ControlAssumption DEF Tunnel, TunnelHit, TunnelMiss,
     TunnelOther
<1>6. ASSUME NEW s \in Secondaries, Receive(s)
      PROVE  m \in ToSet(toSec[r])
  <2>1. toSec[s] \in Seq(Control \cup Data) /\ toSec[s] # <<>>
    BY <1>6, <1>a DEF Receive
  <2>2. ToSet(Tail(toSec[s])) \subseteq ToSet(toSec[s])
    BY <2>1, ToSetTail
  <2>3. toSec'[r] = IF r = s THEN Tail(toSec[s]) ELSE toSec[r]
    BY <1>6, <1>a DEF Receive
  <2>. QED
    BY <2>2, <2>3
<1>7. CASE \E s \in Secondaries : SecStep(s) \/ SecRaw(s)
  BY <1>7, <1>b, <1>6 DEF SecStep, SecRaw, SecInstall, SecIgnore, SecReply,
     SecForward, SecQuit, SecIdle
<1>8. CASE LoseToPri
  BY <1>8, <1>b DEF LoseToPri
<1>9. ASSUME NEW s \in Secondaries, LoseToSec(s)
      PROVE  m \in ToSet(toSec[r])
  <2>1. toSec[s] \in Seq(Control \cup Data) /\ toSec[s] # <<>>
    BY <1>9, <1>a DEF LoseToSec
  <2>2. ToSet(Front(toSec[s])) \subseteq ToSet(toSec[s])
    BY <2>1, ToSetFront
  <2>3. toSec'[r] = IF r = s THEN Front(toSec[s]) ELSE toSec[r]
    BY <1>9, <1>a DEF LoseToSec
  <2>. QED
    BY <2>2, <2>3
<1>10. CASE Tick
  BY <1>10, <1>b DEF Tick
<1>11. CASE UNCHANGED vars
  BY <1>11, <1>b DEF vars
<1>. QED
  BY <1>1, <1>2, <1>3, <1>4, <1>5, <1>7, <1>8, <1>9, <1>10, <1>11
     DEF Next, PriStep, Lose

\* Acknowledgement a answers a control message in its sender's buffer.
Answers(a) ==
  \E r \in Secondaries : \E m \in ToSet(toSec[r]) :
    m.kind = "control" /\ a.from = r /\ a.seq = m.seq /\ a.rule = m.rule

\* Every acknowledgement in the primary's buffer was there before or answers a
\* message that a secondary takes from its buffer in this step.
LEMMA AcksSent ==
  ASSUME TypeInv, [Next]_vars, NEW a \in ToSet(toPri'), a.kind = "ack"
  PROVE  \/ a \in ToSet(toPri)
         \/ /\ Answers(a)
            /\ UNCHANGED priVars
<1>a. TypeOK /\ toPri \in Seq(Ack \cup Data)
  BY DEF TypeInv, TypeOK
<1>b. ASSUME UNCHANGED toPri
      PROVE  a \in ToSet(toPri)
  BY <1>b
<1>c. ASSUME toPri # <<>>, toPri' = Tail(toPri) \/ toPri' = Front(toPri)
      PROVE  a \in ToSet(toPri)
  BY <1>a, <1>c, ToSetTail, ToSetFront
<1>1. CASE PriStep
  BY <1>1, <1>b, <1>c DEF PriStep, TopNoTimer, TopWait, TopExpired, InstallOne,
     InstallDone, SocketAck, SocketData, ReadSocket, SelectTimer, ExpireMore,
     ExpireDone, SelectIdle
<1>2. CASE Tunnel
  BY <1>2, <1>b DEF Tunnel, TunnelHit, TunnelMiss, TunnelOther
<1>3. ASSUME NEW r \in Secondaries, NEW k \in Rules, SecInstall(r, k)
      PROVE  a \in ToSet(toPri) \/ (Answers(a) /\ UNCHANGED priVars)
  <2>. DEFINE c == Head(toSec[r])
              b == [kind |-> "ack", seq |-> c.seq, rule |-> k, from |-> r]
  <2>1. /\ Receive(r) /\ c.kind = "control" /\ c.rule = k
        /\ Reply(b) /\ UNCHANGED priVars
    BY <1>3 DEF SecInstall, Receive
  <2>2. b \in Ack
    BY <1>3, <1>a, SecInstallType DEF Ack
  <2>3. c \in ToSet(toSec[r])
    <3>1. toSec[r] \in Seq(Control \cup Data) /\ toSec[r] # <<>>
      BY <2>1, <1>a DEF Receive, TypeOK
    <3>. QED
      BY <3>1, ToSetTail
  <2>4. b.from = r /\ b.seq = c.seq /\ b.rule = c.rule
    BY <2>1
  <2>. HIDE DEF b, c
  <2>5. a \in ToSet(toPri) \/ a = b
    BY <1>a, <2>1, <2>2, DeliverElements DEF Reply
  <2>6. a = b => Answers(a)
    BY <2>1, <2>3, <2>4 DEF Answers
  <2>. QED
    BY <2>1, <2>5, <2>6
<1>4. ASSUME Reply([kind |-> "other"])
      PROVE  a \in ToSet(toPri)
  <2>1. [kind |-> "other"] \in Data
    BY DEF Data
  <2>2. a \in ToSet(toPri) \/ a = [kind |-> "other"]
    BY <1>a, <1>4, <2>1, DeliverElements DEF Reply
  <2>. QED
    BY <2>2
<1>5. CASE \E r \in Secondaries : SecStep(r) \/ SecRaw(r)
  BY <1>5, <1>b, <1>3, <1>4 DEF SecStep, SecRaw, SecIgnore, SecReply, SecForward,
     SecQuit, SecIdle
<1>6. CASE Lose
  BY <1>6, <1>b, <1>c DEF Lose, LoseToPri, LoseToSec
<1>7. CASE Tick \/ UNCHANGED vars
  BY <1>7, <1>b DEF Tick, vars
<1>. QED
  BY <1>1, <1>2, <1>5, <1>6, <1>7 DEF Next
-----------------------------------------------------------------------------
(* What a step does to timers, requests and rules *)

\* The steps that concern neither: expiration times may change, no timer
\* starts or stops.
Indifferent == Keys(eq') = Keys(eq) /\ UNCHANGED <<todo, table, rules>>

LEMMA StepKinds ==
  ASSUME TypeInv, [Next]_vars
  PROVE  \/ Indifferent
         \/ \E f \in Flows, d \in Data : TunnelMiss(f, d)
         \/ InstallOne
         \/ SocketAck
         \/ \E r \in Secondaries, k \in Rules : SecInstall(r, k)
<1>a. ASSUME UNCHANGED <<eq, todo, table, rules>>
      PROVE  Indifferent
  BY <1>a DEF Indifferent
<1>b. ASSUME Execute, eq # <<>>, UNCHANGED <<todo, table, rules>>
      PROVE  Indifferent
  BY <1>b, ExecuteKeys DEF TypeInv, Indifferent
<1>1. CASE PriStep
  <2>1. CASE TopExpired \/ SelectTimer \/ ExpireMore
    BY <2>1, <1>b DEF TopExpired, SelectTimer, ExpireMore, TypeInv, LoopOK,
       NeverExecuteEmpty, secVars
  <2>2. CASE TopNoTimer \/ TopWait \/ InstallDone \/ SocketData \/ ExpireDone
               \/ SelectIdle
    BY <2>2, <1>a DEF TopNoTimer, TopWait, InstallDone, SocketData, ReadSocket,
       ExpireDone, SelectIdle, secVars
  <2>. QED
    BY <1>1, <2>1, <2>2 DEF PriStep
<1>2. CASE Tunnel
  BY <1>2, <1>a DEF Tunnel, TunnelHit, TunnelOther, secVars
<1>3. CASE \E r \in Secondaries : SecStep(r) \/ SecRaw(r)
  BY <1>3, <1>a DEF SecStep, SecRaw, SecIgnore, SecReply, SecForward,
     SecQuit, SecIdle, Receive, priVars
<1>4. CASE Lose
  BY <1>4, <1>a DEF Lose, LoseToPri, LoseToSec, priVars, secVars
<1>5. CASE Tick
  BY <1>5, TickKeys DEF Tick, TypeInv, Indifferent
<1>6. CASE UNCHANGED vars
  BY <1>6, <1>a DEF vars, priVars, secVars
<1>. QED
  BY <1>1, <1>2, <1>3, <1>4, <1>5, <1>6 DEF Next

-----------------------------------------------------------------------------
(* An acknowledgement stops no other timer than its message's *)

\* Sequence number s has been given out.
GivenOut(s) == \E n \in 1..nextHandle-1 : s = n % SeqSpace

\* What m says of sequence number, rule and secondary r is what the timer of
\* that number says, if it still runs.
Agrees(m, r) ==
  /\ GivenOut(m.seq)
  /\ \A x \in Events(eq) : x.seq = m.seq => Carries(x, m, r)

\* Every message under way agrees with the timers.
MessagesAgree ==
  /\ \A r \in Secondaries : \A m \in ToSet(toSec[r]) :
       m.kind = "control" => Agrees(m, r)
  /\ \A m \in ToSet(toPri) : m.kind = "ack" => Agrees(m, m.from)

AgreeInv == NoWrap => MessagesAgree

\* As long as numbers are not used twice, two timers have different numbers.
LEMMA SeqIsUnique ==
  ASSUME NEW q, UniqueHandles(q), NEW u, \A x \in Events(q) : u[x.seq] = x.hdl,
         NEW x \in Events(q), NEW y \in Events(q), x.seq = y.seq
  PROVE  x = y
<1>1. x.hdl = y.hdl
  OBVIOUS
<1>2. PICK i \in 1..Len(q) : x = q[i]
  BY DEF Events
<1>3. PICK j \in 1..Len(q) : y = q[j]
  BY DEF Events
<1>4. i = j
  BY <1>1, <1>2, <1>3 DEF UniqueHandles
<1>. QED
  BY <1>2, <1>3, <1>4

\* The next number has not been given out.
LEMMA NextSeqIsNew ==
  ASSUME TypeOK, Matched, nextHandle <= SeqSpace
  PROVE  ~GivenOut(seqno)
<1>1. nextHandle \in 1..SeqSpace /\ SeqSpace \in Nat \ {0, 1}
  BY ControlAssumption DEF TypeOK, Matched
<1>2. ASSUME NEW n \in 1..nextHandle-1, seqno = n % SeqSpace
      PROVE  FALSE
  <2>1. n \in 1..SeqSpace /\ n # nextHandle
    BY <1>1
  <2>2. n % SeqSpace = nextHandle % SeqSpace
    BY <1>2 DEF Matched
  <2>. QED
    BY <1>1, <2>1, <2>2, ModProperties
<1>. QED
  BY <1>2 DEF GivenOut

\* A timer that runs after the step ran before it, or its message is new.
LEMMA TimersStarted ==
  ASSUME TypeInv, [Next]_vars, NoWrap', MatchInv, NEW y \in Events(eq')
  PROVE  \/ \E x \in Events(eq) : /\ x.hdl = y.hdl /\ x.to = y.to
                                  /\ x.seq = y.seq /\ x.rule = y.rule
         \/ InstallOne /\ y.seq = seqno
<1>1. CASE Indifferent
  BY <1>1, KeysOfEvents DEF Indifferent
<1>2. CASE UNCHANGED eq
  BY <1>2
<1>3. CASE InstallOne
  <2>1. /\ NewEvent \in Event
        /\ NewEvent.seq = seqno
        /\ eq' = EqAdd(eq, NewEvent)
    BY <1>3, NewEventType DEF TypeInv, NewEvent
  <2>2. Events(eq') = Events(eq) \cup {NewEvent}
    BY <2>1, EqIsEventList, EqAddElements DEF TypeInv, TypeOK
  <2>. QED
    BY <1>3, <2>1, <2>2
<1>4. CASE SocketAck
  <2>1. NoWrap /\ Matched
    BY <1>4 DEF SocketAck, ReadSocket, NoWrap, MatchInv
  <2>2. IsEventList(eq, Event)
    BY EqIsEventList DEF TypeInv, TypeOK
  <2>3. eq' = EqRemove(eq, HandleOf(Head(toPri).seq))
    BY <1>4 DEF SocketAck
  <2>4. Events(eq') \subseteq Events(eq)
    BY <2>1, <2>2, <2>3, EqRemoveProperties DEF Matched
  <2>. QED
    BY <2>4
<1>5. (\E f \in Flows, d \in Data : TunnelMiss(f, d)) => UNCHANGED eq
  BY DEF TunnelMiss
<1>6. (\E r \in Secondaries, k \in Rules : SecInstall(r, k)) => UNCHANGED eq
  BY DEF SecInstall, Receive, priVars
<1>. QED
  BY <1>1, <1>2, <1>3, <1>4, <1>5, <1>6, StepKinds

\* Handles are only counted up.
LEMMA HandlesGrow ==
  ASSUME TypeInv, [Next]_vars
  PROVE  nextHandle' = IF InstallOne THEN nextHandle + 1 ELSE nextHandle
<1>1. CASE PriStep
  BY <1>1 DEF PriStep, TopNoTimer, TopWait, TopExpired, InstallOne, InstallDone,
     SocketAck, SocketData, ReadSocket, SelectTimer, ExpireMore, ExpireDone,
     SelectIdle
<1>2. CASE Tunnel
  BY <1>2 DEF Tunnel, TunnelHit, TunnelMiss, TunnelOther, InstallOne
<1>3. CASE UNCHANGED nextHandle /\ UNCHANGED todo
  <2>1. ~InstallOne
    BY <1>3 DEF InstallOne, TypeInv, TypeOK
  <2>. QED
    BY <1>3, <2>1
<1>4. CASE \E r \in Secondaries : SecStep(r) \/ SecRaw(r)
  BY <1>4, <1>3 DEF SecStep, SecRaw, SecInstall, SecIgnore, SecReply, SecForward,
     SecQuit, SecIdle, Receive, priVars
<1>5. CASE Lose \/ Tick \/ UNCHANGED vars
  BY <1>5, <1>3 DEF Lose, LoseToPri, LoseToSec, Tick, vars, priVars
<1>. QED
  BY <1>1, <1>2, <1>4, <1>5 DEF Next

LEMMA HandlesKept ==
  ASSUME TypeInv, [Next]_vars
  PROVE  /\ nextHandle \in Nat /\ nextHandle <= nextHandle'
         /\ NoWrap' => NoWrap
         /\ \A s : GivenOut(s) => GivenOut(s)'
<1>1. nextHandle \in Nat /\ nextHandle <= nextHandle' /\ nextHandle' \in Nat
  BY HandlesGrow DEF TypeInv, TypeOK
<1>2. NoWrap' => NoWrap
  BY <1>1, ControlAssumption DEF NoWrap
<1>3. \A n \in 1..nextHandle-1 : n \in 1..nextHandle'-1
  <2>1. \A a, b \in Nat : a <= b => \A n \in 1..a-1 : n \in 1..b-1
    OBVIOUS
  <2>. QED
    BY <1>1, <2>1
<1>. QED
  BY <1>1, <1>2, <1>3 DEF GivenOut

LEMMA NextAgree ==
  TypeInv /\ MatchInv /\ AgreeInv /\ [Next]_vars => AgreeInv'
<1>. SUFFICES ASSUME TypeInv, MatchInv, AgreeInv, [Next]_vars, NoWrap'
              PROVE  MessagesAgree'
  BY DEF AgreeInv
<1>1. /\ TypeOK /\ TypeOK'
      /\ NoWrap /\ Matched /\ Matched'
      /\ MessagesAgree
  BY NextTypeInv, NextMatch, HandlesKept DEF TypeInv, MatchInv, AgreeInv
<1>2. InstallOne => ~GivenOut(seqno)
  <2>1. InstallOne => nextHandle + 1 <= SeqSpace + 1
    BY DEF InstallOne, NoWrap
  <2>2. nextHandle \in Nat /\ SeqSpace \in Nat
    BY <1>1, ControlAssumption DEF TypeOK
  <2>. QED
    BY <1>1, <2>1, <2>2, NextSeqIsNew
\* an old message
<1>3. ASSUME NEW m, NEW r, Agrees(m, r)
      PROVE  Agrees(m, r)'
  <2>1. GivenOut(m.seq)'
    BY <1>3, HandlesKept DEF Agrees
  <2>2. ASSUME NEW y \in Events(eq'), y.seq = m.seq
        PROVE  Carries(y, m, r)
    <3>1. CASE \E x \in Events(eq) : /\ x.hdl = y.hdl /\ x.to = y.to
                                     /\ x.seq = y.seq /\ x.rule = y.rule
      BY <3>1, <2>2, <1>3 DEF Agrees, Carries
    <3>2. CASE InstallOne /\ y.seq = seqno
      BY <3>2, <2>2, <1>2, <1>3 DEF Agrees
    <3>. QED
      BY <3>1, <3>2, TimersStarted
  <2>. QED
    BY <2>1, <2>2 DEF Agrees
\* a message that a running timer has sent
<1>4. ASSUME NEW m, NEW r, NEW x \in Events(eq'), Carries(x, m, r)
      PROVE  Agrees(m, r)'
  <2>1. /\ x.seq \in DOMAIN unAck'
        /\ unAck'[x.seq] \in 1..nextHandle'-1
        /\ x.seq = unAck'[x.seq] % SeqSpace
    BY <1>1 DEF Matched
  <2>2. \A y \in Events(eq') : y.seq = x.seq => y = x
    <3>1. UniqueHandles(eq') /\ \A y \in Events(eq') : unAck'[y.seq] = y.hdl
      BY <1>1 DEF Matched
    <3>. QED
      BY <3>1, SeqIsUnique
  <2>. QED
    BY <2>1, <2>2, <1>4 DEF Agrees, GivenOut, Carries
<1>5. ASSUME NEW r \in Secondaries, NEW m \in ToSet(toSec'[r]), m.kind = "control"
      PROVE  Agrees(m, r)'
  <2>1. CASE m \in ToSet(toSec[r])
    BY <2>1, <1>1, <1>3, <1>5 DEF MessagesAgree
  <2>. QED
    BY <2>1, <1>4, <1>5, ControlsSent
<1>6. ASSUME NEW m \in ToSet(toPri'), m.kind = "ack"
      PROVE  Agrees(m, m.from)'
  <2>1. CASE m \in ToSet(toPri)
    BY <2>1, <1>1, <1>3, <1>6 DEF MessagesAgree
  <2>2. CASE Answers(m)
    <3>1. PICK r \in Secondaries : \E c \in ToSet(toSec[r]) :
            /\ c.kind = "control"
            /\ m.from = r /\ m.seq = c.seq /\ m.rule = c.rule
      BY <2>2 DEF Answers
    <3>2. Agrees(m, r)
      BY <3>1, <1>1 DEF MessagesAgree, Agrees, Carries
    <3>. QED
      BY <3>1, <3>2, <1>3
  <2>. QED
    BY <2>1, <2>2, <1>6, AcksSent
<1>. QED
  BY <1>5, <1>6 DEF MessagesAgree

\* Taken out by acknowledgement a are the timers of its number, which are its
\* message's.
LEMMA AckStops ==
  ASSUME TypeInv, NoWrap, MatchInv, AgreeInv, SocketAck
  PROVE  /\ Head(toPri) \in ToSet(toPri)
         /\ Head(toPri).kind = "ack"
         /\ Head(toPri).from \in Secondaries
         /\ \A x \in Events(eq) :
              x \notin Events(eq') => Carries(x, Head(toPri), Head(toPri).from)
         /\ Events(eq') \subseteq Events(eq)
         /\ \A x, y \in Events(eq) :
              x \notin Events(eq') /\ y \notin Events(eq') => x = y
<1>. DEFINE a == Head(toPri)
            h == HandleOf(a.seq)
<1>1. TypeOK /\ Matched /\ MessagesAgree
  BY DEF TypeInv, MatchInv, AgreeInv
<1>2. a.kind = "ack" /\ toPri # <<>> /\ eq' = EqRemove(eq, h)
  BY DEF SocketAck, ReadSocket
<1>3. toPri \in Seq(Ack \cup Data)
  BY <1>1 DEF TypeOK
<1>4. a \in ToSet(toPri) /\ a \in Ack \cup Data
  BY <1>2, <1>3, ToSetTail
<1>5. a.from \in Secondaries
  BY <1>2, <1>4 DEF Ack, Data
<1>6. Events(eq') = {x \in Events(eq) : x.hdl # h}
  BY <1>1, <1>2, EqIsEventList, EqRemoveProperties DEF Matched, TypeOK
<1>7. h = IF a.seq \in DOMAIN unAck THEN unAck[a.seq] ELSE 0
  BY DEF HandleOf
<1>. HIDE DEF h, a
<1>8. ASSUME NEW x \in Events(eq), x.hdl = h
      PROVE  Carries(x, a, a.from)
  <2>1. x.seq \in DOMAIN unAck /\ unAck[x.seq] = h
    BY <1>1, <1>8 DEF Matched
  <2>2. h # 0
    BY <1>1, <2>1 DEF Matched
  <2>3. a.seq \in DOMAIN unAck /\ unAck[a.seq] = h
    BY <1>7, <2>2
  <2>4. x.seq = h % SeqSpace /\ a.seq = h % SeqSpace
    BY <1>1, <2>1, <2>3 DEF Matched
  <2>5. Agrees(a, a.from)
    BY <1>1, <1>2, <1>4 DEF MessagesAgree
  <2>. QED
    BY <2>4, <2>5 DEF Agrees
<1>9. ASSUME NEW x \in Events(eq), x \notin Events(eq')
      PROVE  Carries(x, a, a.from)
  BY <1>6, <1>8, <1>9
<1>10. ASSUME NEW x \in Events(eq), NEW y \in Events(eq), x.hdl = h, y.hdl = h
       PROVE  x = y
  <2>1. x.seq = y.seq
    BY <1>8, <1>10 DEF Carries
  <2>. QED
    BY <1>1, <2>1, SeqIsUnique DEF Matched
<1>. QED
  BY <1>2, <1>4, <1>5, <1>6, <1>9, <1>10 DEF a

LEMMA InitAgree == Init => AgreeInv
<1>. SUFFICES ASSUME Init PROVE MessagesAgree
  BY DEF AgreeInv
<1>1. toPri = <<>> /\ \A r \in Secondaries : toSec[r] = <<>>
  BY DEF Init
<1>2. ToSet(<<>>) = {}
  BY DEF ToSet
<1>. QED
  BY <1>1, <1>2 DEF MessagesAgree

\* A timer that no longer runs was stopped by the acknowledgement of its own
\* message: same number, same rule, from the secondary it was sent to.
LEMMA StopsByOwnAck ==
  ASSUME TypeInv, NoWrap, MatchInv, AgreeInv, [Next]_vars,
         NEW i \in 1..Len(eq), eq[i].hdl \notin Handles(eq')
  PROVE  /\ toPri # <<>>
         /\ Head(toPri).kind = "ack"
         /\ Head(toPri).seq = eq[i].seq
         /\ Head(toPri).rule = eq[i].rule
         /\ Head(toPri).from = eq[i].to
<1>1. eq[i] \in Events(eq)
  BY DEF Events
<1>2. \A x \in Events(eq') : x.hdl # eq[i].hdl
  BY HandlesOfEvents
<1>3. ~Indifferent
  <2>. SUFFICES ASSUME Keys(eq) = Keys(eq') PROVE FALSE
    BY DEF Indifferent
  <2>1. \E y \in Events(eq') : y.hdl = eq[i].hdl
    BY <1>1, KeysOfEvents
  <2>. QED
    BY <2>1, <1>2
<1>4. ~UNCHANGED eq
  BY <1>1, <1>2
<1>5. ~InstallOne
  <2>. SUFFICES ASSUME InstallOne PROVE FALSE
    OBVIOUS
  <2>1. NewEvent \in Event /\ eq' = EqAdd(eq, NewEvent)
    BY NewEventType DEF TypeInv
  <2>2. Events(eq') = Events(eq) \cup {NewEvent}
    BY <2>1, EqIsEventList, EqAddElements DEF TypeInv, TypeOK
  <2>. QED
    BY <2>2, <1>1, <1>2
<1>6. SocketAck
  <2>1. (\E f \in Flows, d \in Data : TunnelMiss(f, d)) => UNCHANGED eq
    BY DEF TunnelMiss
  <2>2. (\E r \in Secondaries, k \in Rules : SecInstall(r, k)) => UNCHANGED eq
    BY DEF SecInstall, Receive, priVars
  <2>. QED
    BY <2>1, <2>2, <1>3, <1>4, <1>5, StepKinds
<1>7. Carries(eq[i], Head(toPri), Head(toPri).from) /\ Head(toPri).kind = "ack"
  BY <1>1, <1>2, <1>6, AckStops
<1>8. toPri # <<>>
  BY <1>6 DEF SocketAck, ReadSocket
<1>. QED
  BY <1>7, <1>8 DEF Carries

\* Whatever is lost, repeated or late, no acknowledgement stops the timer of
\* another message, as long as no sequence number has been used twice.
THEOREM OnlyOwnAckStopsTimers == Spec => OnlyOwnAckStops
<1>. DEFINE Inv == TypeInv /\ MatchInv /\ AgreeInv
            Own == NoWrap =>
                     \A i \in 1..Len(eq) :
                       eq[i].hdl \notin Handles(eq') =>
                         LET a == Head(toPri)
                         IN  toPri # <<>> /\ a.kind = "ack" /\ a.seq = eq[i].seq
                               /\ a.rule = eq[i].rule /\ a.from = eq[i].to
<1>1. Init => Inv
  BY InitTypeInv, InitMatch, InitAgree
<1>2. Inv /\ [Next]_vars => Inv'
  BY NextTypeInv, NextMatch, NextAgree
<1>3. Inv /\ [Next]_vars => [Own]_vars
  BY StopsByOwnAck
<1>4. Spec => [][Own]_vars
  <2>. HIDE DEF Inv, Own
  <2>. QED
    BY <1>1, <1>2, <1>3, PTL DEF Spec
<1>. QED
  BY <1>4 DEF OnlyOwnAckStops
-----------------------------------------------------------------------------
(* Requests are not forgotten *)

\* Between two packets nothing is left to send, and only with no timer running
\* the loop waits for the idle timeout and ends.
AtRest ==
  /\ phase # "install" => todo = <<>>
  /\ (phase = "select" /\ ~eventTimeout) \/ phase = "exited" => eq = <<>>

LEMMA NextAtRest == TypeInv /\ AtRest /\ [Next]_vars => AtRest'
<1>. SUFFICES ASSUME TypeInv, AtRest, [Next]_vars
              PROVE  AtRest'
  OBVIOUS
<1>a. ASSUME UNCHANGED priVars
      PROVE  AtRest'
  BY <1>a DEF priVars, AtRest
<1>1. CASE TopNoTimer \/ TopWait \/ TopExpired
  BY <1>1 DEF TopNoTimer, TopWait, TopExpired, AtRest
<1>2. CASE InstallOne \/ InstallDone
  BY <1>2 DEF InstallOne, InstallDone, AfterTunnel, AtRest
<1>3. CASE SocketAck \/ SocketData
  BY <1>3 DEF SocketAck, SocketData, ReadSocket, AtRest
<1>4. CASE SelectTimer \/ ExpireMore \/ ExpireDone \/ SelectIdle
  BY <1>4 DEF SelectTimer, ExpireMore, ExpireDone, SelectIdle, AtRest
<1>5. CASE Tunnel
  BY <1>5 DEF Tunnel, TunnelHit, TunnelMiss, TunnelOther, AfterTunnel, AtRest
<1>6. CASE \E r \in Secondaries : SecStep(r) \/ SecRaw(r)
  BY <1>6, <1>a DEF SecStep, SecRaw, SecInstall, SecIgnore, SecReply, SecForward,
     SecQuit, SecIdle, Receive
<1>7. CASE Lose
  BY <1>7, <1>a DEF Lose, LoseToPri, LoseToSec
<1>8. CASE Tick
  <2>1. eq' \in Seq(Event) /\ Len(eq') = Len(eq)
    BY <1>8, TickEq DEF TypeInv, TypeOK
  <2>2. eq = <<>> => eq' = <<>>
    BY <2>1, EmptySeq
  <2>. QED
    BY <1>8, <2>2 DEF Tick, AtRest
<1>9. CASE UNCHANGED vars
  BY <1>9, <1>a DEF vars
<1>. QED
  BY <1>1, <1>2, <1>3, <1>4, <1>5, <1>6, <1>7, <1>8, <1>9 DEF Next, PriStep

\* The request that a timer retransmits.
RequestOf(x) == [to |-> x.to, rule |-> x.rule]
RequestsOf(q) == {RequestOf(x) : x \in Events(q)}

LEMMA PendingParts == Pending = RequestsOf(eq) \cup ToSet(todo)
  BY DEF Pending, RequestsOf, RequestOf, Events

LEMMA KeysGiveRequests ==
  ASSUME NEW q, NEW r, Keys(q) = Keys(r)
  PROVE  RequestsOf(q) = RequestsOf(r)
<1>1. \A x \in Events(q) : \E y \in Events(r) : RequestOf(x) = RequestOf(y)
  BY KeysOfEvents DEF RequestOf
<1>2. \A y \in Events(r) : \E x \in Events(q) : RequestOf(x) = RequestOf(y)
  BY KeysOfEvents DEF RequestOf
<1>. QED
  BY <1>1, <1>2 DEF RequestsOf

\* What each kind of step does to the requests that are pending and to those
\* that are installed.
LEMMA IndifferentRequests ==
  ASSUME Indifferent
  PROVE  Pending' = Pending /\ Installed' = Installed
<1>1. RequestsOf(eq') = RequestsOf(eq)
  BY KeysGiveRequests DEF Indifferent
<1>2. Pending' = RequestsOf(eq') \cup ToSet(todo')
  BY DEF Pending, RequestsOf, RequestOf, Events
<1>3. Installed' = Installed
  BY DEF Indifferent, Installed
<1>. QED
  BY <1>1, <1>2, <1>3, PendingParts DEF Indifferent

LEMMA TunnelMissRequests ==
  ASSUME AtRest, NEW f \in Flows, NEW d \in Data, TunnelMiss(f, d)
  PROVE  /\ todo' \in Plans[f]
         /\ Pending' = Pending \cup ToSet(todo')
         /\ Installed' = Installed
<1>1. todo = <<>> /\ eq' = eq /\ rules' = rules /\ todo' \in Plans[f]
  BY DEF AtRest, TunnelMiss, secVars
<1>2. Pending' = RequestsOf(eq) \cup ToSet(todo')
  BY <1>1 DEF Pending, RequestsOf, RequestOf, Events
<1>3. ToSet(<<>>) = {}
  BY DEF ToSet
<1>. QED
  BY <1>1, <1>2, <1>3, PendingParts DEF Installed

LEMMA InstallOneRequests ==
  ASSUME TypeOK, InstallOne
  PROVE  Pending' = Pending /\ Installed' = Installed
<1>1. /\ todo \in Seq(Request) /\ todo # <<>>
      /\ todo' = Tail(todo)
      /\ rules' = rules
  BY DEF TypeOK, InstallOne, secVars
<1>2. ToSet(todo) = ToSet(Tail(todo)) \cup {Head(todo)} /\ Head(todo) \in Request
  BY <1>1, ToSetTail
<1>3. RequestOf(NewEvent) = Head(todo)
  BY <1>2 DEF RequestOf, NewEvent, Request
<1>4. Events(eq') = Events(eq) \cup {NewEvent}
  <2>1. NewEvent \in Event /\ eq' = EqAdd(eq, NewEvent)
    BY NewEventType
  <2>. QED
    BY <2>1, EqIsEventList, EqAddElements DEF TypeOK
<1>5. RequestsOf(eq') = RequestsOf(eq) \cup {Head(todo)}
  BY <1>3, <1>4 DEF RequestsOf
<1>6. Pending' = RequestsOf(eq') \cup ToSet(todo')
  BY DEF Pending, RequestsOf, RequestOf, Events
<1>. QED
  BY <1>1, <1>2, <1>5, <1>6, PendingParts DEF Installed

\* An acknowledgement confirms one installed request, or none.
LEMMA SocketAckRequests ==
  ASSUME TypeInv, NoWrap, MatchInv, AgreeInv, AckedIsInstalled, AtRest, SocketAck
  PROVE  /\ \/ Pending' = Pending
            \/ \E q \in Pending \cap Installed : Pending' = Pending \ {q}
         /\ Installed' = Installed
<1>. DEFINE a == Head(toPri)
<1>1. todo = <<>> /\ todo' = <<>> /\ rules' = rules
  BY DEF AtRest, SocketAck, ReadSocket, secVars
<1>2. /\ a \in ToSet(toPri) /\ a.kind = "ack" /\ a.from \in Secondaries
      /\ \A x \in Events(eq) : x \notin Events(eq') => Carries(x, a, a.from)
      /\ Events(eq') \subseteq Events(eq)
      /\ \A x, y \in Events(eq) :
           x \notin Events(eq') /\ y \notin Events(eq') => x = y
  BY AckStops
<1>3. a.rule \in rules[a.from] /\ a.rule \in Rules
  <2>1. PICK i \in 1..Len(toPri) : a = toPri[i]
    BY <1>2, ToSetByIndex DEF TypeInv, TypeOK
  <2>. QED
    BY <2>1, <1>2 DEF AckedIsInstalled, TypeInv, TypeOK
<1>. HIDE DEF a
<1>4. ToSet(<<>>) = {}
  BY DEF ToSet
<1>5. Pending = RequestsOf(eq) /\ Pending' = RequestsOf(eq')
  BY <1>1, <1>4 DEF Pending, RequestsOf, RequestOf, Events
<1>6. CASE Events(eq') = Events(eq)
  BY <1>1, <1>5, <1>6 DEF RequestsOf, Installed
<1>7. CASE Events(eq') # Events(eq)
  <2>1. PICK x \in Events(eq) : x \notin Events(eq')
    BY <1>2, <1>7
  <2>2. Events(eq) = Events(eq') \cup {x}
    BY <1>2, <2>1
  <2>3. RequestsOf(eq) = RequestsOf(eq') \cup {RequestOf(x)}
    BY <2>2 DEF RequestsOf
  <2>4. RequestOf(x) \in Installed
    BY <1>2, <1>3, <2>1 DEF Carries, RequestOf, Installed, Request
  <2>5. \/ RequestsOf(eq') = RequestsOf(eq)
        \/ RequestsOf(eq') = RequestsOf(eq) \ {RequestOf(x)}
    BY <2>3
  <2>. QED
    BY <1>1, <1>5, <2>3, <2>4, <2>5 DEF Installed
<1>. QED
  BY <1>6, <1>7

LEMMA SecInstallRequests ==
  ASSUME TypeOK, NEW r \in Secondaries, NEW k \in Rules, SecInstall(r, k)
  PROVE  /\ Pending' = Pending
         /\ Installed' = Installed \cup {[to |-> r, rule |-> k]}
<1>1. UNCHANGED <<eq, todo>>
  BY DEF SecInstall, Receive, priVars
<1>2. Pending' = Pending
  BY <1>1 DEF Pending
<1>3. rules' = [rules EXCEPT ![r] = @ \cup {k}]
  BY SecInstallType
<1>4. \A s \in Secondaries :
        rules'[s] = IF s = r THEN rules[s] \cup {k} ELSE rules[s]
  BY <1>3 DEF TypeOK
<1>5. ASSUME NEW q \in Request
      PROVE  q \in Installed' <=> q \in Installed \/ q = [to |-> r, rule |-> k]
  <2>1. q.to \in Secondaries /\ (q = [to |-> r, rule |-> k] <=> q.to = r /\ q.rule = k)
    BY DEF Request
  <2>. QED
    BY <1>4, <2>1 DEF Installed
<1>6. [to |-> r, rule |-> k] \in Request
  BY DEF Request
<1>. QED
  BY <1>2, <1>5, <1>6 DEF Installed

\* No step takes a request out of both sets.
LEMMA RequestsKept ==
  ASSUME TypeInv, MatchInv, AgreeInv, AckedIsInstalled, AtRest, [Next]_vars, NoWrap'
  PROVE  Pending \cup Installed \subseteq Pending' \cup Installed'
<1>1. NoWrap /\ TypeOK
  BY HandlesKept DEF TypeInv
<1>2. CASE Indifferent
  BY <1>2, IndifferentRequests
<1>3. ASSUME NEW f \in Flows, NEW d \in Data, TunnelMiss(f, d)
      PROVE  Pending \cup Installed \subseteq Pending' \cup Installed'
  BY <1>3, TunnelMissRequests
<1>4. CASE InstallOne
  BY <1>1, <1>4, InstallOneRequests
<1>5. CASE SocketAck
  BY <1>1, <1>5, SocketAckRequests
<1>6. ASSUME NEW r \in Secondaries, NEW k \in Rules, SecInstall(r, k)
      PROVE  Pending \cup Installed \subseteq Pending' \cup Installed'
  BY <1>1, <1>6, SecInstallRequests
<1>. QED
  BY <1>2, <1>3, <1>4, <1>5, <1>6, StepKinds

\* What a control message under way asks for is pending or installed.
AllRequested ==
  \A r \in Secondaries : \A m \in ToSet(toSec[r]) :
    m.kind = "control" => [to |-> r, rule |-> m.rule] \in Pending \cup Installed

ControlsRequested == NoWrap => AllRequested

LEMMA NextControlsRequested ==
  /\ TypeInv /\ MatchInv /\ AgreeInv /\ AckedIsInstalled /\ AtRest
  /\ ControlsRequested /\ [Next]_vars
  => ControlsRequested'
<1>. SUFFICES ASSUME TypeInv, MatchInv, AgreeInv, AckedIsInstalled, AtRest,
                     ControlsRequested, [Next]_vars, NoWrap',
                     NEW r \in Secondaries, NEW m \in ToSet(toSec'[r]),
                     m.kind = "control"
              PROVE  [to |-> r, rule |-> m.rule] \in Pending' \cup Installed'
  BY DEF ControlsRequested, AllRequested
<1>1. AllRequested
  BY HandlesKept DEF ControlsRequested
<1>2. CASE m \in ToSet(toSec[r])
  BY <1>1, <1>2, RequestsKept DEF AllRequested
<1>3. CASE \E x \in Events(eq') : Carries(x, m, r)
  <2>1. PICK x \in Events(eq') : Carries(x, m, r)
    BY <1>3
  <2>2. RequestOf(x) = [to |-> r, rule |-> m.rule]
    BY <2>1 DEF RequestOf, Carries
  <2>3. RequestOf(x) \in RequestsOf(eq')
    BY <2>1 DEF RequestsOf
  <2>4. RequestsOf(eq') \subseteq Pending'
    BY DEF Pending, RequestsOf, RequestOf, Events
  <2>. QED
    BY <2>2, <2>3, <2>4
<1>. QED
  BY <1>2, <1>3, ControlsSent

LEMMA InitControlsRequested == Init => ControlsRequested
  BY DEF Init, ControlsRequested, AllRequested, ToSet

\* The flow table grows by one new flow at a time.
LEMMA TableChanges ==
  ASSUME TypeInv, [Next]_vars
  PROVE  table' = table \/ \E f \in Flows, d \in Data : TunnelMiss(f, d)
<1>1. InstallOne \/ SocketAck => table' = table
  BY DEF InstallOne, SocketAck, ReadSocket
<1>2. (\E r \in Secondaries, k \in Rules : SecInstall(r, k)) => table' = table
  BY DEF SecInstall, Receive, priVars
<1>. QED
  BY <1>1, <1>2, StepKinds DEF Indifferent

LEMMA NextForgetsNothing ==
  /\ TypeInv /\ MatchInv /\ AgreeInv /\ AckedIsInstalled /\ AtRest
  /\ NothingForgotten /\ [Next]_vars
  => NothingForgotten'
<1>. SUFFICES ASSUME TypeInv, MatchInv, AgreeInv, AckedIsInstalled, AtRest,
                     NothingForgotten, [Next]_vars, NoWrap', NEW f \in table'
              PROVE  \E g \in Flows :
                       /\ f \in {g, ReverseOf[g]}
                       /\ \E p \in Plans[g] : ToSet(p) \subseteq Pending' \cup Installed'
  BY DEF NothingForgotten
<1>1. NoWrap
  BY HandlesKept
<1>2. CASE f \in table
  <2>1. PICK g \in Flows :
          /\ f \in {g, ReverseOf[g]}
          /\ \E p \in Plans[g] : ToSet(p) \subseteq Pending \cup Installed
    BY <1>1, <1>2 DEF NothingForgotten
  <2>. QED
    BY <2>1, RequestsKept
<1>3. ASSUME NEW g \in Flows, NEW d \in Data, TunnelMiss(g, d), f \notin table
      PROVE  /\ f \in {g, ReverseOf[g]}
             /\ \E p \in Plans[g] : ToSet(p) \subseteq Pending' \cup Installed'
  <2>1. f \in {g, ReverseOf[g]}
    BY <1>3 DEF TunnelMiss, DbInsert
  <2>2. todo' \in Plans[g] /\ ToSet(todo') \subseteq Pending'
    BY <1>3, TunnelMissRequests
  <2>. QED
    BY <2>1, <2>2
<1>. QED
  BY <1>2, <1>3, TableChanges

\* The inductive invariant of what follows.
RequestInv ==
  /\ TypeInv /\ MatchInv /\ AgreeInv /\ AckedIsInstalled /\ AtRest
  /\ ControlsRequested /\ NothingForgotten

LEMMA InitRequestInv == Init => RequestInv
<1>1. Init => AtRest /\ NothingForgotten
  BY DEF Init, AtRest, NothingForgotten
<1>. QED
  BY <1>1, InitTypeInv, InitMatch, InitAgree, InitAcked, InitControlsRequested
     DEF RequestInv

LEMMA NextRequestInv == RequestInv /\ [Next]_vars => RequestInv'
<1>. SUFFICES ASSUME RequestInv, [Next]_vars
              PROVE  RequestInv'
  OBVIOUS
<1>1. /\ TypeInv /\ MatchInv /\ AgreeInv /\ AckedIsInstalled /\ AtRest
      /\ ControlsRequested /\ NothingForgotten
  BY DEF RequestInv
<1>2. TypeInv' /\ MatchInv' /\ AgreeInv' /\ AckedIsInstalled' /\ AtRest'
  BY <1>1, NextTypeInv, NextMatch, NextAgree, NextAcked, NextAtRest
<1>3. ControlsRequested' /\ NothingForgotten'
  BY <1>1, NextControlsRequested, NextForgetsNothing
<1>. QED
  BY <1>2, <1>3 DEF RequestInv

\* Whatever is lost, repeated or late, every control message of a flow the
\* primary has seen is still retransmitted or its rule is installed.
THEOREM NothingIsForgotten == Spec => []NothingForgotten
<1>1. RequestInv => NothingForgotten
  BY DEF RequestInv
<1>. QED
  BY <1>1, InitRequestInv, NextRequestInv, PTL DEF Spec

\* The idle timeout ends the primary's loop only when the rules of all flows it
\* has seen are installed.
THEOREM IdleExitsAreClean == Spec => []IdleExitIsClean
<1>1. RequestInv => IdleExitIsClean
  <2>. SUFFICES ASSUME RequestInv, NoWrap, phase = "exited"
                PROVE  /\ eq = <<>> /\ DOMAIN unAck = {}
                       /\ \A f \in table :
                            \E g \in Flows :
                              /\ f \in {g, ReverseOf[g]}
                              /\ \E p \in Plans[g] : ToSet(p) \subseteq Installed
    BY DEF IdleExitIsClean
  <2>1. eq = <<>> /\ todo = <<>>
    BY DEF RequestInv, AtRest
  <2>2. Events(eq) = {} /\ ToSet(todo) = {}
    BY <2>1 DEF Events, ToSet
  <2>3. DOMAIN unAck = {}
    BY <2>2 DEF RequestInv, MatchInv, Matched
  <2>4. Pending = {}
    BY <2>2, PendingParts DEF RequestsOf
  <2>. QED
    BY <2>1, <2>3, <2>4 DEF RequestInv, NothingForgotten
<1>. QED
  BY <1>1, InitRequestInv, NextRequestInv, PTL DEF Spec
-----------------------------------------------------------------------------
(* The protocol implements RuleInstall *)

\* The table changes only when a new flow's packet comes.
LEMMA TableKept ==
  /\ Indifferent \/ InstallOne \/ SocketAck => table' = table
  /\ \A r \in Secondaries, k \in Rules : SecInstall(r, k) => table' = table
  BY DEF Indifferent, InstallOne, SocketAck, ReadSocket, SecInstall, Receive, priVars

\* A rule that is installed was asked for, so its installation is a step of the
\* promise or was one before.
LEMMA SecInstallPromised ==
  ASSUME RequestInv, NoWrap, NEW r \in Secondaries, NEW k \in Rules, SecInstall(r, k)
  PROVE  [Promise!Next]_(Promise!rvars)
<1>. DEFINE q == [to |-> r, rule |-> k]
            c == Head(toSec[r])
<1>1. /\ table' = table
      /\ Pending' = Pending
      /\ Installed' = Installed \cup {q}
  BY TableKept, SecInstallRequests DEF RequestInv, TypeInv
<1>2. q \in Pending \cup Installed
  <2>1. /\ c.kind = "control" /\ c.rule = k
        /\ toSec[r] \in Seq(Control \cup Data) /\ toSec[r] # <<>>
    BY DEF SecInstall, Receive, RequestInv, TypeInv, TypeOK
  <2>2. c \in ToSet(toSec[r])
    BY <2>1, ToSetTail
  <2>. HIDE DEF c
  <2>. QED
    BY <2>1, <2>2 DEF RequestInv, ControlsRequested, AllRequested
<1>. HIDE DEF q
<1>3. CASE q \in Pending
  BY <1>1, <1>3 DEF Promise!Install, Promise!Next
<1>4. CASE q \in Installed
  <2>1. Installed' = Installed
    BY <1>1, <1>4
  <2>. QED
    BY <1>1, <2>1 DEF Promise!rvars
<1>. QED
  BY <1>2, <1>3, <1>4

LEMMA StepKeepsPromise ==
  ASSUME RequestInv, NoWrap, [Next]_vars
  PROVE  [Promise!Next]_(Promise!rvars)
<1>a. /\ TypeInv /\ TypeOK /\ MatchInv /\ AgreeInv /\ AckedIsInstalled /\ AtRest
  BY DEF RequestInv, TypeInv
<1>1. CASE Indifferent
  BY <1>1, IndifferentRequests, TableKept DEF Promise!rvars
<1>2. ASSUME NEW f \in Flows, NEW d \in Data, TunnelMiss(f, d)
      PROVE  Promise!Next
  <2>1. /\ todo' \in Plans[f]
        /\ Pending' = Pending \cup ToSet(todo')
        /\ Installed' = Installed
    BY <1>2, <1>a, TunnelMissRequests
  <2>2. f \notin table /\ table' = table \cup {f, ReverseOf[f]}
    BY <1>2 DEF TunnelMiss, DbInsert
  <2>3. Promise!Ask(f)
    BY <2>1, <2>2 DEF Promise!Ask, ToSet, Promise!ToSet
  <2>. QED
    BY <2>3 DEF Promise!Next
<1>3. CASE InstallOne
  BY <1>3, <1>a, InstallOneRequests, TableKept DEF Promise!rvars
<1>4. CASE SocketAck
  <2>1. /\ \/ Pending' = Pending
           \/ \E q \in Pending \cap Installed : Pending' = Pending \ {q}
        /\ Installed' = Installed
        /\ table' = table
    BY <1>4, <1>a, SocketAckRequests, TableKept
  <2>2. CASE Pending' = Pending
    BY <2>1, <2>2 DEF Promise!rvars
  <2>3. ASSUME NEW q \in Pending \cap Installed, Pending' = Pending \ {q}
        PROVE  Promise!Next
    BY <2>1, <2>3 DEF Promise!Confirm, Promise!Next
  <2>. QED
    BY <2>1, <2>2, <2>3
<1>5. ASSUME NEW r \in Secondaries, NEW k \in Rules, SecInstall(r, k)
      PROVE  [Promise!Next]_(Promise!rvars)
  BY <1>5, SecInstallPromised
<1>. QED
  BY <1>a, <1>1, <1>2, <1>3, <1>4, <1>5, StepKinds

\* As long as no sequence number is used twice the protocol implements
\* RuleInstall: a request is given up only once its rule is in force, and no
\* rule is installed that was not asked for.
THEOREM ImplementsUntilWrap == Spec /\ []NoWrap => ImplementsRuleInstall
<1>1. Init => Promise!Init
  <2>. SUFFICES ASSUME Init PROVE Promise!Init
    OBVIOUS
  <2>1. Events(eq) = {} /\ ToSet(todo) = {} /\ table = {}
    BY DEF Init, Events, ToSet
  <2>2. Pending = {}
    BY <2>1, PendingParts DEF RequestsOf
  <2>3. Installed = {}
    BY DEF Init, Installed, Request
  <2>. QED
    BY <2>1, <2>2, <2>3 DEF Promise!Init
<1>2. RequestInv /\ NoWrap /\ [Next]_vars => [Promise!Next]_(Promise!rvars)
  BY StepKeepsPromise
<1>. QED
  BY InitRequestInv, NextRequestInv, <1>1, <1>2, PTL
     DEF Spec, ImplementsRuleInstall, Promise!Spec
-----------------------------------------------------------------------------
(* Acknowledgements in flight *)

IsAckOf(m, r, k) == m.kind = "ack" /\ m.from = r /\ m.rule = k

\* The places in buffer q of the acknowledgements of rule k from r.
AckPlaces(q, r, k) == {i \in 1..Len(q) : IsAckOf(q[i], r, k)}
AcksIn(q, r, k) == Cardinality(AckPlaces(q, r, k))

LEMMA AcksInType ==
  ASSUME NEW S, NEW q \in Seq(S), NEW r, NEW k
  PROVE  IsFiniteSet(AckPlaces(q, r, k)) /\ AcksIn(q, r, k) \in Nat
<1>1. IsFiniteSet(1..Len(q))
  BY FS_Interval, LenProperties
<1>2. IsFiniteSet(AckPlaces(q, r, k))
  BY <1>1, FS_Subset DEF AckPlaces
<1>. QED
  BY <1>2, FS_CardinalityType DEF AcksIn

\* Taking a datagram out at either end leaves no more acknowledgements.
LEMMA AcksAfterTail ==
  ASSUME NEW S, NEW q \in Seq(S), q # <<>>, NEW r, NEW k
  PROVE  AcksIn(Tail(q), r, k) <= AcksIn(q, r, k)
<1>. DEFINE A == AckPlaces(Tail(q), r, k)
            B == AckPlaces(q, r, k)
            f == [i \in A |-> i + 1]
<1>1. /\ Len(q) \in Nat \ {0} /\ Len(Tail(q)) = Len(q) - 1
      /\ \A i \in 1..Len(Tail(q)) : Tail(q)[i] = q[i+1]
  BY EmptySeq, HeadTailProperties, LenProperties
<1>2. \A i \in A : i \in Nat /\ i + 1 \in B
  BY <1>1 DEF AckPlaces
<1>3. f \in [A -> B] /\ \A i, j \in A : f[i] = f[j] => i = j
  <2>. HIDE DEF A, B
  <2>. QED
    BY <1>2
<1>4. f \in Injection(A, B)
  <2>. HIDE DEF A, B, f
  <2>. QED
    BY <1>3 DEF Injection, IsInjective
<1>5. IsFiniteSet(B)
  BY AcksInType
<1>. HIDE DEF f
<1>. QED
  BY <1>4, <1>5, FS_Injection DEF AcksIn

LEMMA AcksAfterFront ==
  ASSUME NEW S, NEW q \in Seq(S), q # <<>>, NEW r, NEW k
  PROVE  AcksIn(Front(q), r, k) <= AcksIn(q, r, k)
<1>1. /\ Len(q) \in Nat \ {0} /\ Len(Front(q)) = Len(q) - 1
      /\ \A i \in 1..Len(Front(q)) : Front(q)[i] = q[i]
  BY EmptySeq, FrontType, LenProperties
<1>2. AckPlaces(Front(q), r, k) \subseteq AckPlaces(q, r, k)
  BY <1>1 DEF AckPlaces
<1>. QED
  BY <1>2, AcksInType, FS_Subset DEF AcksIn

\* A datagram that is delivered adds at most itself.
LEMMA AcksAfterDeliver ==
  ASSUME NEW S, NEW q \in Seq(S), NEW m \in S, NEW r, NEW k
  PROVE  AcksIn(Deliver(q, m), r, k)
           <= IF IsAckOf(m, r, k) THEN AcksIn(q, r, k) + 1 ELSE AcksIn(q, r, k)
<1>. DEFINE A == AckPlaces(q, r, k)
            B == AckPlaces(Append(q, m), r, k)
            n == Len(q) + 1
<1>1. /\ Len(q) \in Nat
      /\ Len(Append(q, m)) = n
      /\ Append(q, m)[n] = m
      /\ \A i \in 1..Len(q) : Append(q, m)[i] = q[i]
  BY LenProperties, AppendProperties
<1>2. B \subseteq A \cup {n} /\ (~IsAckOf(m, r, k) => B \subseteq A)
  BY <1>1 DEF AckPlaces
<1>3. IsFiniteSet(A) /\ Cardinality(A) \in Nat
  BY AcksInType DEF AcksIn
<1>. HIDE DEF A, B, n
<1>4. IsFiniteSet(A \cup {n}) /\ Cardinality(A \cup {n}) <= Cardinality(A) + 1
  <2>1. /\ IsFiniteSet(A \cup {n})
        /\ Cardinality(A \cup {n}) = IF n \in A THEN Cardinality(A)
                                     ELSE Cardinality(A) + 1
    BY <1>3, FS_AddElement, Zenon
  <2>. QED
    BY <1>3, <2>1
<1>5. Cardinality(B) \in Nat /\ Cardinality(B) <= Cardinality(A) + 1
  <2>1. IsFiniteSet(B) /\ Cardinality(B) <= Cardinality(A \cup {n})
    BY <1>2, <1>4, FS_Subset
  <2>2. Cardinality(B) \in Nat /\ Cardinality(A \cup {n}) \in Nat
    BY <1>4, <2>1, FS_CardinalityType
  <2>. QED
    BY <1>3, <1>4, <2>1, <2>2
<1>6. ~IsAckOf(m, r, k) => Cardinality(B) <= Cardinality(A)
  BY <1>2, <1>3, FS_Subset
<1>7. Deliver(q, m) = q \/ Deliver(q, m) = Append(q, m)
  BY DEF Deliver
<1>8. AcksIn(q, r, k) = Cardinality(A) /\ AcksIn(Append(q, m), r, k) = Cardinality(B)
  BY DEF A, B, AcksIn
<1>9. CASE Deliver(q, m) = q
  <2>1. AcksIn(Deliver(q, m), r, k) = Cardinality(A)
    BY <1>8, <1>9
  <2>. QED
    BY <1>3, <1>8, <2>1
<1>10. CASE Deliver(q, m) = Append(q, m)
  <2>1. AcksIn(Deliver(q, m), r, k) = Cardinality(B)
    BY <1>8, <1>10
  <2>. QED
    BY <1>5, <1>6, <1>8, <2>1
<1>. QED
  BY <1>7, <1>9, <1>10

\* The receipts of rule k that secondary r may have acknowledged.
Budget(r, k) == IF k \in dropped[r] THEN DropAfter ELSE CountOf(r, k)

LEMMA BudgetParts ==
  /\ \A r, k : AcksInFlight(r, k) = AcksIn(toPri, r, k)
  /\ AckBudget <=> \A r \in Secondaries, k \in Rules :
                     AcksIn(toPri, r, k) <= Budget(r, k)
  BY DEF AckBudget, AcksInFlight, AcksIn, AckPlaces, IsAckOf, Budget

LEMMA BudgetType ==
  ASSUME TypeOK, NEW r \in Secondaries, NEW k \in Rules
  PROVE  Budget(r, k) \in Int /\ AcksIn(toPri, r, k) \in Nat
  BY AcksInType, ControlAssumption DEF TypeOK, Budget, CountOf

\* A receipt that is acknowledged is counted, also the drop_after-th.
LEMMA SecInstallBudget ==
  ASSUME TypeOK, AckBudget, NEW r \in Secondaries, NEW k \in Rules, SecInstall(r, k),
         NEW s \in Secondaries, NEW j \in Rules
  PROVE  AcksIn(toPri', s, j) <= Budget(s, j)'
<1>. DEFINE a == [kind |-> "ack", seq |-> Head(toSec[r]).seq, rule |-> k, from |-> r]
            n == CountOf(r, k) + 1
<1>1. toPri' = Deliver(toPri, a) /\ a \in Ack \cup Data
  BY SecInstallType DEF Ack
<1>2. IsAckOf(a, s, j) <=> s = r /\ j = k
  BY DEF IsAckOf
<1>. HIDE DEF a
<1>3. /\ Budget(s, j) \in Int /\ AcksIn(toPri, s, j) \in Nat
      /\ AcksIn(toPri, s, j) <= Budget(s, j)
  BY BudgetType, BudgetParts
<1>4. AcksIn(toPri', s, j)
        <= IF s = r /\ j = k THEN AcksIn(toPri, s, j) + 1 ELSE AcksIn(toPri, s, j)
  BY <1>1, <1>2, AcksAfterDeliver DEF TypeOK
<1>5. AcksIn(toPri', s, j) \in Nat
  <2>1. toPri' \in Seq(Ack \cup Data)
    BY <1>1, DeliverType DEF TypeOK
  <2>. QED
    BY <2>1, AcksInType
<1>6. k \notin dropped[r] /\ CountReceipt(r, k) /\ n \in Nat
  BY DEF SecInstall, CountOf, TypeOK
<1>7. IF s = r /\ j = k THEN Budget(s, j) = CountOf(r, k) /\ Budget(s, j)' = n
                        ELSE Budget(s, j)' = Budget(s, j)
  <2>1. CASE n = DropAfter
    <3>1. /\ count' = [count EXCEPT ![r] = Uncounted(r, k)]
          /\ dropped' = [dropped EXCEPT ![r] = @ \cup {k}]
      BY <1>6, <2>1 DEF CountReceipt
    <3>2. /\ count'[s] = IF s = r THEN Uncounted(r, k) ELSE count[s]
          /\ dropped'[s] = IF s = r THEN dropped[s] \cup {k} ELSE dropped[s]
      BY <3>1 DEF TypeOK
    <3>. QED
      BY <3>2, <1>6, <2>1 DEF Budget, CountOf, Uncounted
  <2>2. CASE n # DropAfter
    <3>1. count' = [count EXCEPT ![r] = Counted(r, k, n)] /\ dropped' = dropped
      BY <1>6, <2>2 DEF CountReceipt
    <3>. HIDE DEF n
    <3>2. count'[s] = IF s = r THEN Counted(r, k, n) ELSE count[s]
      BY <3>1 DEF TypeOK
    <3>. QED
      BY <3>1, <3>2, <1>6 DEF Budget, CountOf, Counted
  <2>. QED
    BY <2>1, <2>2
<1>8. n = CountOf(r, k) + 1 /\ CountOf(r, k) \in Nat
  BY DEF CountOf, TypeOK
<1>. HIDE DEF n
<1>. QED
  BY <1>3, <1>4, <1>5, <1>6, <1>7, <1>8

LEMMA NextBudget == TypeInv /\ AckBudget /\ [Next]_vars => AckBudget'
<1>. SUFFICES ASSUME TypeInv, AckBudget, [Next]_vars,
                     NEW r \in Secondaries, NEW k \in Rules
              PROVE  AcksIn(toPri', r, k) <= Budget(r, k)'
  BY DEF AckBudget, AcksInFlight, AcksIn, AckPlaces, IsAckOf, Budget
<1>a. /\ TypeOK /\ TypeOK' /\ toPri \in Seq(Ack \cup Data)
      /\ AcksIn(toPri, r, k) \in Nat /\ Budget(r, k) \in Int
      /\ AcksIn(toPri, r, k) <= Budget(r, k)
  BY NextTypeInv, BudgetType, BudgetParts DEF TypeInv, TypeOK
<1>b. AcksIn(toPri', r, k) \in Nat
  BY <1>a, AcksInType DEF TypeOK
<1>c. ASSUME AcksIn(toPri', r, k) <= AcksIn(toPri, r, k), UNCHANGED <<count, dropped>>
      PROVE  AcksIn(toPri', r, k) <= Budget(r, k)'
  <2>1. Budget(r, k)' = Budget(r, k)
    BY <1>c DEF Budget, CountOf
  <2>. QED
    BY <2>1, <1>a, <1>b, <1>c
<1>d. ASSUME UNCHANGED <<toPri, count, dropped>>
      PROVE  AcksIn(toPri', r, k) <= Budget(r, k)'
  BY <1>a, <1>c, <1>d
<1>e. ASSUME toPri # <<>>, toPri' = Tail(toPri) \/ toPri' = Front(toPri),
             UNCHANGED <<count, dropped>>
      PROVE  AcksIn(toPri', r, k) <= Budget(r, k)'
  BY <1>a, <1>c, <1>e, AcksAfterTail, AcksAfterFront
<1>f. ASSUME Reply([kind |-> "other"]), UNCHANGED <<count, dropped>>
      PROVE  AcksIn(toPri', r, k) <= Budget(r, k)'
  <2>1. [kind |-> "other"] \in Ack \cup Data /\ ~IsAckOf([kind |-> "other"], r, k)
    BY DEF Data, IsAckOf
  <2>2. AcksIn(toPri', r, k) <= AcksIn(toPri, r, k)
    BY <1>a, <1>f, <2>1, AcksAfterDeliver DEF Reply
  <2>. QED
    BY <1>c, <1>f, <2>2
<1>1. CASE PriStep
  BY <1>1, <1>d, <1>e DEF PriStep, TopNoTimer, TopWait, TopExpired, InstallOne,
     InstallDone, SocketAck, SocketData, ReadSocket, SelectTimer, ExpireMore,
     ExpireDone, SelectIdle, secVars
<1>2. CASE Tunnel
  BY <1>2, <1>d DEF Tunnel, TunnelHit, TunnelMiss, TunnelOther, secVars
<1>3. CASE \E s \in Secondaries : SecStep(s) \/ SecRaw(s)
  BY <1>3, <1>a, <1>d, <1>f, SecInstallBudget DEF SecStep, SecRaw, SecIgnore,
     SecReply, SecForward, SecQuit, SecIdle
<1>4. CASE Lose
  BY <1>4, <1>d, <1>e DEF Lose, LoseToPri, LoseToSec, secVars
<1>5. CASE Tick \/ UNCHANGED vars
  BY <1>5, <1>d DEF Tick, vars, secVars
<1>. QED
  BY <1>1, <1>2, <1>3, <1>4, <1>5 DEF Next

\* Over any mix of retransmissions and sequence numbers, the acknowledgements
\* of a rule in flight never exceed the receipts its secondary has counted, nor
\* drop_after.
THEOREM AcksWithinBudget == Spec => []AckBudget
<1>1. Init => AckBudget
  <2>. SUFFICES ASSUME Init, NEW r \in Secondaries, NEW k \in Rules
                PROVE  AcksIn(toPri, r, k) <= Budget(r, k)
    BY BudgetParts
  <2>1. AckPlaces(toPri, r, k) = {} /\ Budget(r, k) = 0
    BY DEF Init, AckPlaces, Budget, CountOf
  <2>. QED
    BY <2>1, FS_EmptySet DEF AcksIn
<1>2. TypeInv /\ AckBudget /\ [Next]_vars => (TypeInv /\ AckBudget)'
  BY NextTypeInv, NextBudget
<1>. QED
  BY <1>1, <1>2, InitTypeInv, PTL DEF Spec
=============================================================================
