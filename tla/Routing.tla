------------------------------ MODULE Routing ------------------------------
(***************************************************************************)
(* Stages 6 to 10: the primary router and two or three secondary routers   *)
(* that pass packets on as their flow tables say (primaryRouter_s6, _s7,   *)
(* _s9, _s10 in src/RouterPrim.cpp; secondRouter_s6 and                    *)
(* octaneRulesController in src/RouterSecond.cpp).  Stages 2 and 3,        *)
(* without rules: primaryRouter_s2 and secondRouter_s2.                    *)
(*                                                                         *)
(* A flow table is a function here.  That is what FlowTable proves of      *)
(* entries its comparator keeps apart, and the flows are assumed to be     *)
(* such.  The receipts of a router are a function as well, which           *)
(* ReceiptCount proves of messages their comparator keeps apart.  Time is  *)
(* left out: a message is sent again at any moment until it is             *)
(* acknowledged, and a router may leave its loop whenever it has nothing   *)
(* to read.  OctaneControl models timers and timeouts.                     *)
(***************************************************************************)
EXTENDS RoutePlans, SequencesExt

CONSTANTS
  Scenarios,  \* configurations and surroundings of the routers, see below
  AuthSeqs,   \* the sequence numbers of the portal's own messages
  LocalNet    \* the addresses of 10.5.51.0/24, whose hosts are not real

\* A scenario has stage and drop_after of the configuration file, rcvBuf, the
\* datagrams a socket's receive buffer holds, lossy, whether datagrams are lost
\* other than by a full buffer, flows, those of packets out of the tunnel,
\* maxSeq, a bound on m_iSeqnoCnt, and prompt, whether the loops are fast next
\* to timers and clients: a timer expires only when its message or the answer
\* is lost, packets and answers of a flow come one by one, a client
\* authenticates once, and the secondaries outlast the primary.

Flows == UNION {c.flows : c \in Scenarios}
Entries == Flows \cup {ReverseEntry(f) : f \in Flows}

\* What is looked up: also answers made out to the wrong client.
LookedUp ==
  Entries \cup {[ReverseEntry(f) EXCEPT !.dstIp = g.srcIp] : f, g \in Flows}

KeptApart(a, b) == Less(a, b) /\ ~Less(b, a)

ASSUME RoutingAssumption ==
  /\ \A c \in Scenarios :
       /\ c.stage \in {2, 3, 6, 7, 9, 10}
       /\ c.dropAfter \in Nat \ {0}
       /\ c.rcvBuf \in Nat
       /\ c.lossy \in BOOLEAN /\ c.prompt \in BOOLEAN
       /\ c.flows \subseteq Entry
       /\ \A f \in c.flows : IsIcmp(f) => f.srcPort = AnyPort /\ f.dstPort = AnyPort
       /\ c.maxSeq \in Nat \ {0} /\ AuthSeqs \subseteq 0..c.maxSeq
  /\ AnyPort \in Nat \ (0..Primary) /\ AnyIp \in Nat
  /\ \A a, b \in LookedUp : a = b \/ KeptApart(a, b) \/ KeptApart(b, a)
  /\ \A a, b, c \in LookedUp : Less(a, b) /\ Less(b, c) => Less(a, c)

VARIABLES
  scenario,   \* fixed from the start
  \* the primary router
  table,      \* keys of m_rouFlowTable
  todo,       \* datagrams the handler at work has still to send
  seqno,      \* m_iSeqnoCnt
  unAck,      \* m_unAckBuffer: the request whose timer runs under a number
  isAuthenticated,
  authMsg,    \* authOctMsg: <<its entry>>, or <<>> before it is assigned
  \* sockets: the receive buffer of each router
  inbox,
  lost,       \* history: a datagram has been lost or dropped
  \* the routers
  up,         \* still in their loop
  rules,      \* m_rouFlowTable of each secondary
  receipts,   \* m_MsgCount; DropAfter stands for m_droppedMsg
  oriSrcAddr, \* source of the last packet sent out of the raw sockets
  out,        \* history: packets that went out of the raw sockets
  clients     \* history: sources of the authentication messages

portalVars == <<isAuthenticated, authMsg, clients>>
priVars == <<table, todo, seqno, unAck>>
secVars == <<rules, receipts, oriSrcAddr, out>>
vars == <<scenario, priVars, portalVars, inbox, lost, up, secVars>>

Secondaries == {R1, R2, R3}

stage == scenario.stage
DropAfter == scenario.dropAfter

-----------------------------------------------------------------------------
(* Datagrams *)

Data(f, r) == [kind |-> "data", entry |-> f, from |-> r]
Control(s, k) == [kind |-> "control", seq |-> s, rule |-> k]
Ack(s, k, r) == [kind |-> "ack", seq |-> s, rule |-> k, from |-> r]
Auth(s, f) == [kind |-> "auth", seq |-> s, entry |-> f]

Undeliverable(box, r) == ~up[r] \/ Len(box[r]) >= scenario.rcvBuf

\* Router r gets m, unless its receive buffer is full or its socket closed.
SendIn(box, r, m) ==
  /\ inbox' = IF Undeliverable(box, r) THEN box
              ELSE [box EXCEPT ![r] = Append(@, m)]
  /\ lost' = (lost \/ Undeliverable(box, r))

Send(r, m) == SendIn(inbox, r, m)

Received(r) == [inbox EXCEPT ![r] = Tail(@)]

Receives(r, kind) ==
  /\ up[r] /\ inbox[r] # <<>>
  /\ Head(inbox[r]).kind = kind

-----------------------------------------------------------------------------
(* The primary router: packets from the tunnel *)

Ready == up[Primary] /\ todo = <<>>

\* A packet of flow e may come now.
Arrives(e) ==
  scenario.prompt =>
    \A r \in Routers : \A i \in DOMAIN inbox[r] :
      inbox[r][i].kind = "data" => inbox[r][i].entry \notin {e, ReverseEntry(e)}

\* A packet of a flow in the table is only sent on.
Known(f, r) ==
  /\ f \in table
  /\ todo' = <<[to |-> r, msg |-> Data(f, Primary)]>>
  /\ UNCHANGED <<table, seqno, unAck>>

DataFirst(controls, f, r) ==   \* mutant: the packet precedes its control messages
  <<[to |-> r, msg |-> Data(f, Primary)]>> \o controls

\* The packet itself follows its control messages.
DataLast(controls, f, r) ==
  controls \o <<[to |-> r, msg |-> Data(f, Primary)]>>

NumberedAlike(plan) ==   \* mutant: the number is not counted up in between
  [i \in 1..Len(plan) |-> [to |-> plan[i].to, msg |-> Control(seqno, plan[i].rule)]]

\* The plan's requests, numbered from seqno: the datagrams in their order, and
\* a timer for each of them.
Numbered(plan) ==
  [i \in 1..Len(plan) |->
     [to |-> plan[i].to, msg |-> Control(seqno + i - 1, plan[i].rule)]]

TimersLast(plan) ==   \* mutant: only the last request gets its timer
  [s \in DOMAIN unAck \cup {seqno + Len(plan) - 1} |->
     IF s >= seqno THEN plan[s - seqno + 1] ELSE unAck[s]]

Timers(plan) ==
  [s \in DOMAIN unAck \cup (seqno..seqno + Len(plan) - 1) |->
     IF s >= seqno THEN plan[s - seqno + 1] ELSE unAck[s]]

NewOne(f, r, plan) ==   \* mutant: one number is used up, whatever the plan
  /\ f \notin table
  /\ seqno + Len(plan) <= scenario.maxSeq
  /\ table' = table \cup {f, ReverseEntry(f)}
  /\ todo' = DataLast(Numbered(plan), f, r)
  /\ seqno' = seqno + 1
  /\ unAck' = Timers(plan)

\* A packet of a new flow: the entry and its reverse go into the table
\* (dbInsert), the control messages are sent and then the packet.  No timer
\* expires and no acknowledgement is read before the handler is done.
New(f, r, plan) ==
  /\ f \notin table
  /\ seqno + Len(plan) <= scenario.maxSeq
  /\ table' = table \cup {f, ReverseEntry(f)}
  /\ todo' = DataLast(Numbered(plan), f, r)
  /\ seqno' = seqno + Len(plan)
  /\ unAck' = Timers(plan)

Handle(f, r, plan) == Known(f, r) \/ New(f, r, plan)

rest == <<scenario, inbox, lost, up, secVars, isAuthenticated, clients>>

TunnelIcmp(f) ==
  /\ stage > 3 /\ Ready /\ IsIcmp(f)
  /\ \E r \in IcmpTargets : \E plan \in IcmpPlans(f, r) : Handle(f, r, plan)
  /\ UNCHANGED <<rest, authMsg>>

\* A TCP packet to another port: the target address is not assigned, the
\* packet goes to whatever router the stack's contents name, or to one that
\* does not exist.
TunnelOther(f) ==
  /\ stage > 3 /\ Ready /\ IsTcp(f) /\ ~IsWeb(f)
  /\ \E r \in Secondaries : todo' = <<[to |-> r, msg |-> Data(f, Primary)]>>
  /\ UNCHANGED <<table, seqno, unAck, rest, authMsg>>

Tunnel6(f) ==
  /\ stage = 6 /\ Ready /\ IsWeb(f)
  /\ Handle(f, Web6(f), Leave(f, Web6(f)))
  /\ UNCHANGED <<rest, authMsg>>

Tunnel7(f) ==
  /\ stage = 7 /\ Ready /\ IsWeb(f)
  /\ Handle(f, R1, Plan7(f))
  /\ UNCHANGED <<rest, authMsg>>

\* The last HTTP flow that was sent to the portal is remembered.
Tunnel9(f) ==
  /\ stage = 9 /\ Ready /\ IsWeb(f)
  /\ LET r == Web9(f, isAuthenticated)
     IN  \/ Known(f, r) /\ UNCHANGED authMsg
         \/ /\ New(f, r, Leave(f, r))
            /\ authMsg' = IF r = R3 THEN <<f>> ELSE authMsg
  /\ UNCHANGED rest

Tunnel10(f) ==
  /\ stage = 10 /\ Ready /\ IsWeb(f)
  /\ Handle(f, Web10(f), Leave(f, Web10(f)))
  /\ UNCHANGED <<rest, authMsg>>

\* Stages 2 and 3: every ICMP packet goes to the one secondary router.
TunnelPlain(f) ==
  /\ stage \in {2, 3} /\ Ready /\ IsIcmp(f)
  /\ Send(R1, Data(f, Primary))
  /\ UNCHANGED <<scenario, priVars, portalVars, up, secVars>>

SendNext ==
  /\ todo # <<>>
  /\ Send(Head(todo).to, Head(todo).msg)
  /\ todo' = Tail(todo)
  /\ UNCHANGED <<scenario, table, seqno, unAck, portalVars, up, secVars>>

\* Message s or its acknowledgement is in a receive buffer.
UnderWay(s) ==
  \E r \in Routers : \E i \in DOMAIN inbox[r] :
    inbox[r][i].kind \in {"control", "ack"} /\ inbox[r][i].seq = s

\* A timer's callback: the message is sent again.
Retransmit(s) ==
  /\ Ready /\ s \in DOMAIN unAck
  /\ scenario.prompt => ~UnderWay(s)
  /\ Send(unAck[s].to, Control(s, unAck[s].rule))
  /\ UNCHANGED <<scenario, priVars, portalVars, up, secVars>>

-----------------------------------------------------------------------------
(* The primary router: datagrams on its socket *)

Read == inbox' = Received(Primary) /\ UNCHANGED lost

SocketAck ==
  /\ Ready /\ Receives(Primary, "ack")
  /\ Read
  /\ unAck' = [s \in DOMAIN unAck \ {Head(inbox[Primary]).seq} |-> unAck[s]]
  /\ UNCHANGED <<scenario, table, todo, seqno, portalVars, up, secVars>>

\* A packet goes to the tunnel.
SocketData ==
  /\ Ready /\ Receives(Primary, "data")
  /\ Read
  /\ UNCHANGED <<scenario, priVars, portalVars, up, secVars>>

\* The portal's message (action 5): the flow remembered last is removed, the
\* flow it names is inserted and from now on leaves through R1.  The two
\* messages that say so to R1 get no timer; the second has the number 0.
SocketAuth ==
  /\ Ready /\ Receives(Primary, "auth")
  /\ Read
  /\ LET m == Head(inbox[Primary])
         forgotten == {authMsg[i] : i \in DOMAIN authMsg}
                        \cup {ReverseEntry(authMsg[i]) : i \in DOMAIN authMsg}
         plan == Leave(m.entry, R1)
     IN  /\ table' = (table \ forgotten) \cup {m.entry, ReverseEntry(m.entry)}
         /\ todo' = <<[to |-> R1, msg |-> Control(m.seq, plan[1].rule)],
                      [to |-> R1, msg |-> Control(0, plan[2].rule)]>>
         /\ clients' = clients \cup {m.entry.srcIp}
  /\ isAuthenticated' = TRUE
  /\ UNCHANGED <<scenario, seqno, unAck, authMsg, up, secVars>>

\* The idle timeout: with no timer running and nothing to read.
PriIdle ==
  /\ Ready /\ DOMAIN unAck = {} /\ inbox[Primary] = <<>>
  /\ up' = [up EXCEPT ![Primary] = FALSE]
  /\ UNCHANGED <<scenario, priVars, portalVars, inbox, lost, secVars>>

-----------------------------------------------------------------------------
(* A secondary router *)

CountOf(r, k) == IF k \in DOMAIN receipts[r] THEN receipts[r][k] ELSE 0

Put(f, x, y) == [z \in DOMAIN f \cup {x} |-> IF z = x THEN y ELSE f[z]]

\* A control message: the rule goes into the flow table, is counted and
\* acknowledged to its sender.
SecInstall(r) ==
  /\ Receives(r, "control")
  /\ LET m == Head(inbox[r])
     IN  /\ CountOf(r, m.rule) < DropAfter
         /\ rules' = [rules EXCEPT ![r] =
              Put(@, m.rule.key, [action |-> m.rule.action, port |-> m.rule.port])]
         /\ receipts' = [receipts EXCEPT ![r] =
              Put(@, m.rule, CountOf(r, m.rule) + 1)]
         /\ SendIn(Received(r), Primary, Ack(m.seq, m.rule, r))
  /\ UNCHANGED <<scenario, priVars, portalVars, up, oriSrcAddr, out>>

\* A rule that has been received drop_after times is ignored.
SecDrop(r) ==
  /\ Receives(r, "control")
  /\ CountOf(r, Head(inbox[r]).rule) >= DropAfter
  /\ inbox' = Received(r)
  /\ UNCHANGED <<scenario, priVars, portalVars, lost, up, secVars>>

\* octaneRulesController, the rule's action is to forward to the raw socket ...
Leaves(r, e) ==
  /\ rules[r][e] = [action |-> Forward, port |-> Raw]
  /\ out' = [out EXCEPT ![r] = @ \cup {e}]

\* ... to a router ...
Passed(box, r, e) ==
  /\ rules[r][e].action = Forward /\ rules[r][e].port \in Routers
  /\ SendIn(box, rules[r][e].port, Data(e, r))

\* A data packet for which there is a rule, by its action: it leaves the
\* network, goes to another router, or is answered to its sender.
SecData(r) ==
  /\ Receives(r, "data")
  /\ LET m == Head(inbox[r])
     IN  /\ m.entry \in DOMAIN rules[r]
         /\ \/ /\ Leaves(r, m.entry)
               /\ oriSrcAddr' = [oriSrcAddr EXCEPT ![r] = m.entry.srcIp]
               /\ inbox' = Received(r)
               /\ UNCHANGED lost
            \/ /\ Passed(Received(r), r, m.entry)
               /\ UNCHANGED <<oriSrcAddr, out>>
            \/ /\ rules[r][m.entry].action = Reply
               /\ SendIn(Received(r), m.from, Data(ReverseEntry(m.entry), r))
               /\ UNCHANGED <<oriSrcAddr, out>>
  /\ UNCHANGED <<scenario, priVars, portalVars, up, rules, receipts>>

\* A packet for which there is no rule is ignored.
SecNoRule(r) ==
  /\ stage > 3 /\ Receives(r, "data")
  /\ Head(inbox[r]).entry \notin DOMAIN rules[r]
  /\ inbox' = Received(r)
  /\ UNCHANGED <<scenario, priVars, portalVars, lost, up, secVars>>

\* The answer to e on a raw socket: its destination, the router's external
\* address, is replaced by oriSrcAddr before the rule is looked up.
Answer(r, e) == [ReverseEntry(e) EXCEPT !.dstIp = oriSrcAddr[r]]

RawAnswer(r, e) ==
  /\ up[r] /\ e \in out[r] /\ Arrives(Answer(r, e))
  /\ Answer(r, e) \in DOMAIN rules[r]
  /\ Passed(inbox, r, Answer(r, e))
  /\ UNCHANGED <<scenario, priVars, portalVars, up, secVars>>

RawIcmp(r) == \E e \in out[r] : IsIcmp(e) /\ RawAnswer(r, e)

RawTcpDirect(r) ==   \* mutant: the answer goes to the primary without a rule
  /\ \E e \in out[r] : /\ up[r] /\ IsTcp(e) /\ Arrives(Answer(r, e))
                       /\ Send(Primary, Data(Answer(r, e), r))
  /\ UNCHANGED <<scenario, priVars, portalVars, up, secVars>>

RawTcp(r) == \E e \in out[r] : IsTcp(e) /\ RawAnswer(r, e)

SecIdle(r) ==
  /\ up[r] /\ inbox[r] = <<>>
  /\ scenario.prompt => ~up[Primary]
  /\ up' = [up EXCEPT ![r] = FALSE]
  /\ UNCHANGED <<scenario, priVars, portalVars, inbox, lost, secVars>>

-----------------------------------------------------------------------------
(* A secondary router of stage 2 or 3 *)

\* An echo request to the local network is answered; any other one leaves by
\* the raw socket of stage 3.
SecPlain(r) ==
  /\ stage \in {2, 3} /\ Receives(r, "data")
  /\ LET m == Head(inbox[r])
     IN  \/ /\ m.entry.dstIp \in LocalNet
            /\ SendIn(Received(r), m.from, Data(ReverseEntry(m.entry), r))
            /\ UNCHANGED <<oriSrcAddr, out>>
         \/ /\ m.entry.dstIp \notin LocalNet
            /\ inbox' = Received(r)
            /\ IF stage = 3
               THEN /\ oriSrcAddr' = [oriSrcAddr EXCEPT ![r] = m.entry.srcIp]
                    /\ out' = [out EXCEPT ![r] = @ \cup {m.entry}]
               ELSE UNCHANGED <<oriSrcAddr, out>>
            /\ UNCHANGED lost
  /\ UNCHANGED <<scenario, priVars, portalVars, up, rules, receipts>>

\* An echo reply on the raw socket.
RawPlain(r) ==
  /\ stage = 3 /\ up[r]
  /\ \E e \in out[r] : Arrives(Answer(r, e)) /\ Send(Primary, Data(Answer(r, e), r))
  /\ UNCHANGED <<scenario, priVars, portalVars, up, secVars>>

-----------------------------------------------------------------------------
(* The environment *)

\* A client that was sent to the portal authenticates there, and the portal
\* tells the primary router the flow.
PortalSends ==
  /\ stage = 9
  /\ \E f \in out[R3], s \in AuthSeqs :
       /\ scenario.prompt => f.srcIp \notin clients /\ inbox[Primary] = <<>>
       /\ Send(Primary, Auth(s, f))
  /\ UNCHANGED <<scenario, priVars, portalVars, up, secVars>>

Lose(r) ==
  /\ scenario.lossy /\ inbox[r] # <<>>
  /\ inbox' = [inbox EXCEPT ![r] = Front(@)]
  /\ lost' = TRUE
  /\ UNCHANGED <<scenario, priVars, portalVars, up, secVars>>

-----------------------------------------------------------------------------
\* num_routers of the configuration files
RoutersOf(s) ==
  CASE s \in {2, 3} -> {Primary, R1}
    [] s = 9 -> Routers
    [] OTHER -> Routers \ {R3}

Init ==
  /\ scenario \in Scenarios
  /\ table = {}
  /\ todo = <<>>
  /\ seqno = 1
  /\ unAck = [s \in {} |-> Request(R1, <<>>)]
  /\ isAuthenticated = FALSE
  /\ authMsg = <<>>
  /\ clients = {}
  /\ inbox = [r \in Routers |-> <<>>]
  /\ lost = FALSE
  /\ up = [r \in Routers |-> r \in RoutersOf(stage)]
  /\ rules = [r \in Secondaries |-> [e \in {} |-> <<>>]]
  /\ receipts = [r \in Secondaries |-> [k \in {} |-> 0]]
  /\ oriSrcAddr = [r \in Secondaries |-> AnyIp]
  /\ out = [r \in Secondaries |-> {}]

Tunnel(f) ==
  \/ TunnelPlain(f) \/ TunnelIcmp(f) \/ TunnelOther(f)
  \/ Tunnel6(f) \/ Tunnel7(f) \/ Tunnel9(f) \/ Tunnel10(f)

PriStep ==
  \/ SendNext \/ \E s \in DOMAIN unAck : Retransmit(s)
  \/ SocketAck \/ SocketData \/ SocketAuth \/ PriIdle

SecStep(r) ==
  \/ SecInstall(r) \/ SecDrop(r) \/ SecData(r) \/ SecNoRule(r)
  \/ RawIcmp(r) \/ RawTcp(r) \/ SecIdle(r)
  \/ SecPlain(r) \/ RawPlain(r)

Next ==
  \/ \E f \in scenario.flows : Arrives(f) /\ Tunnel(f)
  \/ PriStep
  \/ \E r \in Secondaries : SecStep(r)
  \/ PortalSends
  \/ \E r \in Routers : Lose(r)

Spec == Init /\ [][Next]_vars

-----------------------------------------------------------------------------
(* Properties *)

RequestOf(r, e) == Request(r, Rule(e, rules[r][e].action, rules[r][e].port))

Numbers == 1..seqno-1

Rules == [key : Entries, action : {Forward, Reply},
          port : {Raw, AnyPort} \cup Routers]

Message ==
  [kind : {"data"}, entry : LookedUp, from : Routers]
    \cup [kind : {"control"}, seq : Numbers \cup AuthSeqs \cup {0}, rule : Rules]
    \cup [kind : {"ack"}, seq : Numbers \cup AuthSeqs \cup {0}, rule : Rules,
          from : Secondaries]
    \cup [kind : {"auth"}, seq : AuthSeqs, entry : Entries]

Requests == [to : Secondaries, rule : Rules]

\* The variables have the types of the declarations of cRouter and of the
\* routers' local variables; a number is used once m_iSeqnoCnt is past it.
TypeOK ==
  /\ scenario \in Scenarios
  /\ table \subseteq Entries
  /\ \A i \in DOMAIN todo : todo[i].to \in Secondaries /\ todo[i].msg \in Message
  /\ seqno \in 1..scenario.maxSeq
  /\ DOMAIN unAck \subseteq Numbers
  /\ \A s \in DOMAIN unAck : unAck[s] \in Requests
  /\ isAuthenticated \in BOOLEAN
  /\ Len(authMsg) <= 1 /\ \A i \in DOMAIN authMsg : authMsg[i] \in Flows
  /\ clients \subseteq 0..AnyIp
  /\ \A r \in Routers : /\ Len(inbox[r]) <= scenario.rcvBuf
                        /\ \A i \in DOMAIN inbox[r] : inbox[r][i] \in Message
  /\ lost \in BOOLEAN
  /\ up \in [Routers -> BOOLEAN]
  /\ \A r \in Secondaries :
       /\ \A e \in DOMAIN rules[r] : RequestOf(r, e) \in Requests
       /\ \A k \in DOMAIN receipts[r] :
            k \in Rules /\ receipts[r][k] \in 1..DropAfter
       /\ oriSrcAddr[r] \in 0..AnyIp
       /\ out[r] \subseteq IF stage > 3 THEN DOMAIN rules[r] ELSE Flows

Installed == UNION {{RequestOf(r, e) : e \in DOMAIN rules[r]} : r \in Secondaries}

Pending == {unAck[s] : s \in DOMAIN unAck}

\* The rule for e is at router r, or in its receive buffer before position i.
Announced(r, e, i) ==
  \/ e \in DOMAIN rules[r]
  \/ \E j \in 1..i-1 : /\ inbox[r][j].kind = "control"
                       /\ inbox[r][j].rule.key = e

\* As long as nothing is lost, no web packet overtakes its rule, neither on
\* its way from the tunnel nor from router to router: none is ever ignored
\* (RouterSecond.cpp:746).  But for a flow of stage 9 that was installed at the
\* portal's router and is sent to R1 after somebody has authenticated.
RuleBeforePacket ==
  ~lost =>
    \A r \in Secondaries : \A i \in DOMAIN inbox[r] :
      LET m == inbox[r][i]
      IN  m.kind = "data" /\ (IsWeb(m.entry) \/ m.from # Primary) =>
            \/ Announced(r, m.entry, i)
            \/ /\ stage = 9 /\ isAuthenticated /\ r = R1
               /\ Announced(R3, m.entry, Len(inbox[R3]) + 1)

\* Where a web packet may leave the network: by its port (stages 6 to 9) or by
\* the parity of its source port (stage 10).
Exits(f) ==
  CASE stage = 10 -> {IF f.srcPort % 2 = 0 THEN R2 ELSE R1}
    [] stage = 9 /\ f.dstPort = 80 -> {R1, R3}
    [] OTHER -> {IF f.dstPort = 443 THEN R2 ELSE R1}

\* Whatever is lost, repeated or late, a packet that leaves does so through
\* the router its stage names for it, also at the end of the service chain;
\* and nothing else leaves (RouterSecond.cpp:1106-1126).
LeavesByItsRouter ==
  \A r \in Secondaries : \A e \in out[r] :
    \/ IsIcmp(e) /\ r = R1
    \/ IsWeb(e) /\ r \in Exits(e)

\* The clients' ports tell their connections apart, and one client pings.
DistinctPorts ==
  \A f, g \in scenario.flows : f.srcPort = g.srcPort => f.srcIp = g.srcIp

\* One variable keeps the source for the answers of all clients
\* (RouterSecond.cpp:739, 106): an answer made out to the wrong client finds no
\* rule, as long as the clients' ports differ.  So every answer the primary
\* gets is one to a client's own request, for TCP one that has left.
AnswersRequest ==
  DistinctPorts =>
    \A i \in DOMAIN inbox[Primary] :
      LET m == inbox[Primary][i]
          request == ReverseEntry(m.entry)
      IN  m.kind = "data" /\ m.entry \notin scenario.flows =>
            /\ request \in scenario.flows
            /\ IsTcp(request) => \E r \in Secondaries : request \in out[r]

\* The rules of the routers, whichever of them have arrived, never send a
\* packet round in a circle.
NoLoop ==
  \A e \in UNION {DOMAIN rules[r] : r \in Secondaries} :
    \A S \in (SUBSET Secondaries) \ {{}} :
      \E r \in S : e \in DOMAIN rules[r] =>
                     ~(rules[r][e].action = Forward /\ rules[r][e].port \in S)

\* An acknowledgement that stops a timer is one of the timer's message, or of a
\* message of the portal that happens to have the same number
\* (RouterPrim.cpp:1837-1885).
AcksAreOwn ==
  \A i \in DOMAIN inbox[Primary] :
    LET m == inbox[Primary][i]
    IN  m.kind = "ack" /\ m.seq \in DOMAIN unAck =>
          \/ unAck[m.seq] = Request(m.from, m.rule)
          \/ isAuthenticated /\ m.from = R1 /\ m.seq \in AuthSeqs

\* No HTTP packet leaves through R1 before a client has authenticated
\* (RouterPrim.cpp:1700-1707).
PortalFirst ==
  stage = 9 /\ (\E e \in out[R1] : IsWeb(e)) => clients # {}

\* README.stage9.txt, d) "Security/authentication: By tracking its port and IP
\* address": HTTP leaves through R1 for clients that have authenticated.
Tracked ==
  stage = 9 => \A e \in out[R1] : IsWeb(e) => e.srcIp \in clients

\* The requests a new flow gives rise to.
PlansOf(s, f) ==
  CASE IsIcmp(f) -> UNION {IcmpPlans(f, r) : r \in IcmpTargets}
    [] IsWeb(f) -> {CASE s = 6 -> Leave(f, Web6(f))
                      [] s = 7 -> Plan7(f)
                      [] OTHER -> Leave(f, Web10(f))}
    [] OTHER -> {}

RequestsOfFlows(s) == [f \in Flows |-> PlansOf(s, f)]
ReverseOf == [f \in Flows |-> ReverseEntry(f)]

Promise6 == INSTANCE RuleInstall WITH
  Plans <- RequestsOfFlows(6), seen <- table, pending <- Pending,
  installed <- Installed

Promise7 == INSTANCE RuleInstall WITH
  Plans <- RequestsOfFlows(7), seen <- table, pending <- Pending,
  installed <- Installed

Promise10 == INSTANCE RuleInstall WITH
  Plans <- RequestsOfFlows(10), seen <- table, pending <- Pending,
  installed <- Installed

\* Also with several routers, chains of rules and a table that a later rule
\* might overwrite, each step keeps the promise of RuleInstall.  Stage 9 gives
\* requests up.
KeepsPromise ==
  [][ /\ stage = 6 => [Promise6!Next]_(Promise6!rvars)
      /\ stage = 7 => [Promise7!Next]_(Promise7!rvars)
      /\ stage = 10 => [Promise10!Next]_(Promise10!rvars) ]_vars
=============================================================================
