---------------------------- MODULE OctaneControl ----------------------------
(***************************************************************************)
(* The octane control protocol of stages 4 and 5: the primary router       *)
(* (primaryRouter_s4 / _s5 in src/RouterPrim.cpp) reads packets from the   *)
(* tunnel, sends one or two control messages to a secondary router for     *)
(* every flow it has not seen, and retransmits each of them on a timer     *)
(* until it is acknowledged.  A secondary router (secondRouter_s4 / _s5 in *)
(* src/RouterSecond.cpp) installs the rule of a control message and        *)
(* acknowledges it, but ignores a rule it has received drop_after times.   *)
(*                                                                         *)
(* Every datagram waits in the receive buffer of its socket, a FIFO that   *)
(* drops what does not fit; a datagram may also be lost.  Expiration times *)
(* and select timeouts are kept relative to the clock, as the ticks that   *)
(* remain; 0 stands for "now or earlier".                                  *)
(***************************************************************************)
EXTENDS EventQueue, FiniteSets

CONSTANTS
  Secondaries,  \* the secondary routers
  Flows,        \* the flow entries of packets that come out of the tunnel
  Rules,        \* what a control message installs: 4-tuple, action, port
  Plans,        \* Plans[f]: the control messages a new flow f may give rise to
  ReverseOf,    \* ReverseOf[f]: flow_entry::reverse()
  Target,       \* Target[f]: the secondary that packets of f are sent to
  DropAfter,    \* drop_after of the configuration file
  SeqSpace,     \* m_iSeqnoCnt is a uint16_t: 2^16 in the code
  RTO,          \* ticks of a retransmission timer (2000 ms)
  Idle,         \* ticks of the idle timeout (15 s)
  RcvBuf,       \* datagrams a socket's receive buffer holds
  Lossy,        \* whether datagrams are lost other than by a full buffer
  Prompt        \* whether the routers finish what they can do within a tick

Request == [to : Secondaries, rule : Rules]

ASSUME ControlAssumption ==
  /\ Plans \in [Flows -> SUBSET Seq(Request)]
  /\ ReverseOf \in [Flows -> Flows]
  /\ Target \in [Flows -> Secondaries]
  /\ DropAfter \in Int
  /\ SeqSpace \in Nat \ {0, 1}
  /\ RTO \in Nat \ {0}
  /\ Idle \in Nat \ {0}
  /\ RcvBuf \in Nat
  /\ Lossy \in BOOLEAN
  /\ Prompt \in BOOLEAN

VARIABLES
  \* the primary router
  phase,        \* where its loop stands
  table,        \* keys of m_rouFlowTable
  todo,         \* control messages of the current packet not yet sent
  packet,       \* <<p>>, the packet the tunnel handler works on, or <<>>
  sockReady,    \* FD_ISSET(iSockID) of the current iteration
  seqno,        \* m_iSeqnoCnt
  unAck,        \* m_unAckBuffer
  eq,           \* the timer list
  nextHandle,   \* next_handle_
  timeout,      \* the select timeout
  eventTimeout, \* bEventTimeout
  \* sockets
  toSec,        \* receive buffer of each secondary
  toPri,        \* receive buffer of the primary
  \* the secondary routers
  up,           \* still in their loop
  rules,        \* m_rouFlowTable, the rules installed by control messages
  count,        \* m_MsgCount
  dropped,      \* keys of m_droppedMsg
  idle,         \* the select timeout
  forwarded     \* a packet went out of the raw socket: replies may come in

priVars == <<phase, table, todo, packet, sockReady, seqno, unAck, eq,
             nextHandle, timeout, eventTimeout>>
secVars == <<up, rules, count, dropped, idle, forwarded>>
vars == <<priVars, toSec, toPri, secVars>>

-----------------------------------------------------------------------------
(* Messages *)

Seqnos == 0..SeqSpace-1
Control == [kind : {"control"}, seq : Seqnos, rule : Rules]
Data == [kind : {"echo", "other"}]   \* ICMP type 8, or any other type
Ack == [kind : {"ack"}, seq : Seqnos, rule : Rules, from : Secondaries]
Event == [hdl : Nat, tv : 0..RTO, to : Secondaries, seq : Seqnos, rule : Rules]
Packet == [to : Secondaries, data : Data]

Phases == {"top", "select", "install", "socket", "expire", "exited"}

ControlOf(e) == [kind |-> "control", seq |-> e.seq, rule |-> e.rule]

\* A datagram that finds the receive buffer full is dropped by the kernel.
Deliver(q, m) == IF Len(q) < RcvBuf THEN Append(q, m) ELSE q

Send(r, m) == toSec' = [toSec EXCEPT ![r] = Deliver(@, m)]

-----------------------------------------------------------------------------
(* The primary router *)

ExecuteOnce ==   \* mutant: the callback returns DISCARD
  /\ eq' = EqPop(eq)
  /\ Send(Head(eq).to, ControlOf(Head(eq)))

\* ExecuteNextTimer: the callback cOctaneTimer::Expire sends the message again
\* and returns RESCHEDULE_SAME.
Execute ==
  /\ eq' = EqAdd(EqPop(eq), [Head(eq) EXCEPT !.tv = RTO])
  /\ Send(Head(eq).to, ControlOf(Head(eq)))

TopNoTimerStale ==   \* mutant: bEventTimeout is not reset
  /\ phase = "top" /\ eq = <<>>
  /\ phase' = "select"
  /\ UNCHANGED <<table, todo, packet, sockReady, seqno, unAck, eq, nextHandle,
                 timeout, eventTimeout, toSec, toPri, secVars>>

\* The loop's head: the select timeout is the time to the nearest timer, or
\* what is left of the idle timeout if there is none.
TopNoTimer ==
  /\ phase = "top" /\ eq = <<>>
  /\ phase' = "select"
  /\ eventTimeout' = FALSE
  /\ UNCHANGED <<table, todo, packet, sockReady, seqno, unAck, eq, nextHandle,
                 timeout, toSec, toPri, secVars>>

TopWait ==
  /\ phase = "top" /\ eq # <<>> /\ Head(eq).tv > 0
  /\ phase' = "select"
  /\ timeout' = Head(eq).tv
  /\ eventTimeout' = TRUE
  /\ UNCHANGED <<table, todo, packet, sockReady, seqno, unAck, eq, nextHandle,
                 toSec, toPri, secVars>>

\* The head has expired: it is executed, and select only polls.
TopExpired ==
  /\ phase = "top" /\ eq # <<>> /\ Head(eq).tv = 0
  /\ phase' = "select"
  /\ Execute
  /\ timeout' = 0
  /\ eventTimeout' = TRUE
  /\ UNCHANGED <<table, todo, packet, sockReady, seqno, unAck, nextHandle,
                 toPri, secVars>>

\* After the tunnel handler: the socket, if select reported it too.
AfterTunnel(ready) == phase' = IF ready THEN "socket" ELSE "top"

\* An ICMP packet of a flow already in the table is only passed on.
TunnelHit(f, d) ==
  /\ phase = "select"
  /\ f \in table
  /\ Send(Target[f], d)
  /\ timeout' = Idle
  /\ AfterTunnel(toPri # <<>>)
  /\ UNCHANGED <<table, todo, packet, sockReady, seqno, unAck, eq, nextHandle,
                 eventTimeout, toPri, secVars>>

\* dbInsert: the entry and its reverse.
DbInsert(f) == table' = table \cup {f, ReverseOf[f]}

\* An ICMP packet of a new flow: the entry and its reverse are added to the
\* table (dbInsert), and the control messages are decided.  The decision reads
\* dstAddr, which is never assigned: any plan of the flow may be chosen.
TunnelMiss(f, d) ==
  /\ phase = "select"
  /\ f \notin table
  /\ DbInsert(f)
  /\ todo' \in Plans[f]
  /\ packet' = <<[to |-> Target[f], data |-> d]>>
  /\ sockReady' = (toPri # <<>>)
  /\ phase' = "install"
  /\ UNCHANGED <<seqno, unAck, eq, nextHandle, timeout, eventTimeout, toSec,
                 toPri, secVars>>

\* createOctaneMsg: m_iSeqnoCnt++ on a uint16_t.
TakeSeqno == seqno' = (seqno + 1) % SeqSpace

\* One control message of the plan: createOctaneMsg takes the next sequence
\* number, the message is sent, a timer is started for it and its handle is
\* stored under the sequence number.
InstallOne ==
  /\ phase = "install" /\ todo # <<>>
  /\ LET e == [hdl |-> nextHandle, tv |-> RTO, to |-> Head(todo).to,
               seq |-> seqno, rule |-> Head(todo).rule]
     IN  /\ Send(e.to, ControlOf(e))
         /\ eq' = EqAdd(eq, e)
         /\ unAck' = [s \in DOMAIN unAck \cup {seqno} |->
                        IF s = seqno THEN nextHandle ELSE unAck[s]]
  /\ TakeSeqno
  /\ nextHandle' = nextHandle + 1
  /\ todo' = Tail(todo)
  /\ UNCHANGED <<phase, table, packet, sockReady, timeout, eventTimeout, toPri,
                 secVars>>

\* The packet itself follows its control messages.
InstallDone ==
  /\ phase = "install" /\ todo = <<>>
  /\ Send(packet[1].to, packet[1].data)
  /\ packet' = <<>>
  /\ timeout' = Idle
  /\ AfterTunnel(sockReady)
  /\ sockReady' = FALSE
  /\ UNCHANGED <<table, todo, seqno, unAck, eq, nextHandle,
                 eventTimeout, toPri, secVars>>

\* A packet of another protocol is ignored and does not refresh the timeout.
TunnelOther ==
  /\ phase = "select"
  /\ AfterTunnel(toPri # <<>>)
  /\ UNCHANGED <<table, todo, packet, sockReady, seqno, unAck, eq, nextHandle,
                 timeout, eventTimeout, toSec, toPri, secVars>>

\* The socket handler, reached when select reported only the socket or after
\* the tunnel handler of the same iteration.
ReadSocket ==
  /\ phase \in {"select", "socket"}
  /\ toPri # <<>>
  /\ toPri' = Tail(toPri)
  /\ timeout' = Idle
  /\ phase' = "top"
  /\ UNCHANGED <<table, todo, packet, sockReady, seqno, nextHandle,
                 eventTimeout, toSec, secVars>>

HandleOfLast(s) == nextHandle - 1   \* mutant: the last handle, not the stored

\* m_unAckBuffer[s]: std::map's operator[] yields 0 for an absent key.
HandleOf(s) == IF s \in DOMAIN unAck THEN unAck[s] ELSE 0

SocketAckNoErase ==   \* mutant: the entry of m_unAckBuffer stays
  /\ ReadSocket
  /\ Head(toPri).kind = "ack"
  /\ eq' = EqRemove(eq, HandleOf(Head(toPri).seq))
  /\ UNCHANGED unAck

SocketAck ==
  /\ ReadSocket
  /\ Head(toPri).kind = "ack"
  /\ LET s == Head(toPri).seq
     IN  /\ eq' = EqRemove(eq, HandleOf(s))
         /\ unAck' = [t \in DOMAIN unAck \ {s} |-> unAck[t]]

\* An ICMP packet from a secondary goes to the tunnel.
SocketData ==
  /\ ReadSocket
  /\ Head(toPri).kind # "ack"
  /\ UNCHANGED <<eq, unAck>>

\* select timed out while timers were running: the head is executed without
\* another look at its expiration time, then every timer that has expired.
SelectTimer ==
  /\ phase = "select" /\ timeout = 0 /\ toPri = <<>> /\ eventTimeout
  /\ phase' = "expire"
  /\ Execute
  /\ UNCHANGED <<table, todo, packet, sockReady, seqno, unAck, nextHandle,
                 timeout, eventTimeout, toPri, secVars>>

ExpireMore ==
  /\ phase = "expire" /\ Head(eq).tv = 0
  /\ Execute
  /\ UNCHANGED <<phase, table, todo, packet, sockReady, seqno, unAck, nextHandle,
                 timeout, eventTimeout, toPri, secVars>>

ExpireDone ==
  /\ phase = "expire" /\ Head(eq).tv > 0
  /\ phase' = "top"
  /\ timeout' = Idle
  /\ UNCHANGED <<table, todo, packet, sockReady, seqno, unAck, eq, nextHandle,
                 eventTimeout, toSec, toPri, secVars>>

SelectIdleContinue ==   \* mutant: no return, the timeout is refreshed
  /\ phase = "select" /\ timeout = 0 /\ toPri = <<>> /\ ~eventTimeout
  /\ phase' = "top"
  /\ timeout' = Idle
  /\ UNCHANGED <<table, todo, packet, sockReady, seqno, unAck, eq, nextHandle,
                 eventTimeout, toSec, toPri, secVars>>

SelectIdleAlways ==   \* mutant: also with timers running
  /\ phase = "select" /\ timeout = 0 /\ toPri = <<>>
  /\ phase' = "exited"
  /\ UNCHANGED <<table, todo, packet, sockReady, seqno, unAck, eq, nextHandle,
                 timeout, eventTimeout, toSec, toPri, secVars>>

\* Idle for Idle ticks with no timer running: the router's loop returns.
SelectIdle ==
  /\ phase = "select" /\ timeout = 0 /\ toPri = <<>> /\ ~eventTimeout
  /\ phase' = "exited"
  /\ UNCHANGED <<table, todo, packet, sockReady, seqno, unAck, eq, nextHandle,
                 timeout, eventTimeout, toSec, toPri, secVars>>

-----------------------------------------------------------------------------
(* A secondary router.  One iteration handles one datagram; every one it     *)
(* reads, also a rule it ignores, refreshes the idle timeout.                *)

Receive(r) ==
  /\ up[r] /\ toSec[r] # <<>>
  /\ toSec' = [toSec EXCEPT ![r] = Tail(@)]
  /\ idle' = [idle EXCEPT ![r] = Idle]
  /\ UNCHANGED priVars

Reply(m) == toPri' = Deliver(toPri, m)

CountOf(r, k) == IF k \in DOMAIN count[r] THEN count[r][k] ELSE 0

Counted(r, k, n) == [j \in DOMAIN count[r] \cup {k} |->
                       IF j = k THEN n ELSE count[r][j]]

Uncounted(r, k) == [j \in DOMAIN count[r] \ {k} |-> count[r][j]]

StoreRuleAlone(r, k) == rules' = [rules EXCEPT ![r] = {k}]   \* mutant

\* The rule goes into the flow table.
StoreRule(r, k) == rules' = [rules EXCEPT ![r] = @ \cup {k}]

\* m_MsgCount counts the receipts of a rule; the drop_after-th moves it to
\* m_droppedMsg.  The maps' key leaves the sequence number out.
CountReceipt(r, k) ==
  LET n == CountOf(r, k) + 1
  IN  IF n = DropAfter
        THEN /\ count' = [count EXCEPT ![r] = Uncounted(r, k)]
             /\ dropped' = [dropped EXCEPT ![r] = @ \cup {k}]
        ELSE /\ count' = [count EXCEPT ![r] = Counted(r, k, n)]
             /\ UNCHANGED dropped

SecInstallAckOnce(r, k) ==   \* mutant: only the first receipt is acknowledged
  /\ Receive(r)
  /\ Head(toSec[r]).kind = "control"
  /\ k = Head(toSec[r]).rule
  /\ k \notin dropped[r]
  /\ StoreRule(r, k)
  /\ IF k \in rules[r]
       THEN UNCHANGED <<count, dropped, toPri>>
       ELSE /\ CountReceipt(r, k)
            /\ Reply([kind |-> "ack", seq |-> Head(toSec[r]).seq, rule |-> k,
                      from |-> r])
  /\ UNCHANGED <<up, forwarded>>

\* A control message whose rule is not in m_droppedMsg: install it, count it
\* and acknowledge it by sending it back.
SecInstall(r, k) ==
  /\ Receive(r)
  /\ Head(toSec[r]).kind = "control"
  /\ k = Head(toSec[r]).rule
  /\ k \notin dropped[r]
  /\ StoreRule(r, k)
  /\ CountReceipt(r, k)
  /\ Reply([kind |-> "ack", seq |-> Head(toSec[r]).seq, rule |-> k, from |-> r])
  /\ UNCHANGED <<up, forwarded>>

\* A rule in m_droppedMsg is ignored: no acknowledgement.
SecIgnore(r) ==
  /\ Receive(r)
  /\ Head(toSec[r]).kind = "control"
  /\ Head(toSec[r]).rule \in dropped[r]
  /\ UNCHANGED <<toPri, up, rules, count, dropped, forwarded>>

\* An echo request for 10.5.51.0/24 is answered ...
SecReply(r) ==
  /\ Receive(r)
  /\ Head(toSec[r]).kind = "echo"
  /\ Reply([kind |-> "other"])
  /\ UNCHANGED <<up, rules, count, dropped, forwarded>>

\* ... any other is sent out of the raw socket.
SecForward(r) ==
  /\ Receive(r)
  /\ Head(toSec[r]).kind = "echo"
  /\ forwarded' = [forwarded EXCEPT ![r] = TRUE]
  /\ UNCHANGED <<toPri, up, rules, count, dropped>>

\* An ICMP packet of another type makes the router's loop return.
SecQuit(r) ==
  /\ Receive(r)
  /\ Head(toSec[r]).kind = "other"
  /\ up' = [up EXCEPT ![r] = FALSE]
  /\ UNCHANGED <<toPri, rules, count, dropped, forwarded>>

\* An echo reply on the raw socket goes back to the primary.
SecRaw(r) ==
  /\ up[r] /\ forwarded[r]
  /\ idle' = [idle EXCEPT ![r] = Idle]
  /\ Reply([kind |-> "other"])
  /\ UNCHANGED <<priVars, toSec, up, rules, count, dropped, forwarded>>

\* Nothing to read for Idle ticks: the router's loop returns.
SecIdle(r) ==
  /\ up[r] /\ idle[r] = 0 /\ toSec[r] = <<>>
  /\ up' = [up EXCEPT ![r] = FALSE]
  /\ UNCHANGED <<priVars, toSec, toPri, rules, count, dropped, idle, forwarded>>

-----------------------------------------------------------------------------
(* The environment *)

\* A datagram is lost on its way, before its receiver's select reports it.
LoseToSec(r) ==
  /\ Lossy /\ toSec[r] # <<>>
  /\ toSec' = [toSec EXCEPT ![r] = Front(@)]
  /\ UNCHANGED <<priVars, toPri, secVars>>

LoseToPri ==
  /\ Lossy /\ toPri # <<>>
  /\ phase \in {"install", "socket"} => Len(toPri) > 1
  /\ toPri' = Front(toPri)
  /\ UNCHANGED <<priVars, toSec, secVars>>

Lose == LoseToPri \/ \E r \in Secondaries : LoseToSec(r)

DecreaseBelow(t) == t - 1   \* mutant: Timeval_Sub without its first branch

Decrease(t) == IF t > 0 THEN t - 1 ELSE 0

\* Every router waits in select with nothing to read and time left, or has left
\* its loop.
Settled ==
  /\ \/ phase = "exited"
     \/ phase = "select" /\ toPri = <<>> /\ timeout > 0
  /\ \A r \in Secondaries : up[r] => toSec[r] = <<>> /\ idle[r] > 0

\* The clock; a select timeout runs only inside select.
Tick ==
  /\ Prompt => Settled
  /\ eq' = [i \in 1..Len(eq) |-> [eq[i] EXCEPT !.tv = Decrease(@)]]
  /\ timeout' = IF phase = "select" THEN Decrease(timeout) ELSE timeout
  /\ idle' = [r \in Secondaries |-> Decrease(idle[r])]
  /\ UNCHANGED <<phase, table, todo, packet, sockReady, seqno, unAck,
                 nextHandle, eventTimeout, toSec, toPri, up, rules, count,
                 dropped, forwarded>>

-----------------------------------------------------------------------------
\* Both routers stand at the head of their loops; nothing is stored yet.
Init ==
  /\ phase = "top"
  /\ table = {}
  /\ todo = <<>>
  /\ packet = <<>>
  /\ sockReady = FALSE
  /\ seqno = 1
  /\ unAck = [s \in {} |-> 0]
  /\ eq = <<>>
  /\ nextHandle = 1
  /\ timeout = Idle
  /\ eventTimeout = FALSE
  /\ toSec = [r \in Secondaries |-> <<>>]
  /\ toPri = <<>>
  /\ up = [r \in Secondaries |-> TRUE]
  /\ rules = [r \in Secondaries |-> {}]
  /\ count = [r \in Secondaries |-> [k \in {} |-> 0]]
  /\ dropped = [r \in Secondaries |-> {}]
  /\ idle = [r \in Secondaries |-> Idle]
  /\ forwarded = [r \in Secondaries |-> FALSE]

\* What the primary does once select has returned, without new input.
PriStep ==
  \/ TopNoTimer \/ TopWait \/ TopExpired
  \/ InstallOne \/ InstallDone
  \/ SocketAck \/ SocketData
  \/ SelectTimer \/ ExpireMore \/ ExpireDone \/ SelectIdle

Tunnel ==
  \/ \E f \in Flows, d \in Data : TunnelHit(f, d) \/ TunnelMiss(f, d)
  \/ TunnelOther

SecStep(r) ==
  \/ \E k \in Rules : SecInstall(r, k)
  \/ SecIgnore(r) \/ SecReply(r) \/ SecForward(r) \/ SecQuit(r)
  \/ SecIdle(r)

Next ==
  \/ PriStep
  \/ Tunnel
  \/ \E r \in Secondaries : SecStep(r) \/ SecRaw(r)
  \/ Lose
  \/ Tick

Spec == Init /\ [][Next]_vars

\* The scheduling of the processes: a router whose select can return goes on,
\* and time passes.  Nothing is assumed of the input or of the losses.
Fairness ==
  /\ WF_vars(PriStep)
  /\ WF_vars(Tick)
  /\ \A r \in Secondaries : WF_vars(SecStep(r))

FairSpec == Spec /\ Fairness

-----------------------------------------------------------------------------
(* Properties *)

\* The state is of its types.
TypeOK ==
  /\ phase \in Phases
  /\ table \subseteq Flows
  /\ todo \in Seq(Request)
  /\ packet \in {<<>>} \cup {<<p>> : p \in Packet}
  /\ sockReady \in BOOLEAN
  /\ seqno \in Seqnos
  /\ DOMAIN unAck \subseteq Seqnos
  /\ \A s \in DOMAIN unAck : unAck[s] \in Nat
  /\ eq \in Seq(Event)
  /\ nextHandle \in Nat
  /\ timeout \in Nat
  /\ eventTimeout \in BOOLEAN
  /\ toSec \in [Secondaries -> Seq(Control \cup Data)]
  /\ toPri \in Seq(Ack \cup Data)
  /\ up \in [Secondaries -> BOOLEAN]
  /\ rules \in [Secondaries -> SUBSET Rules]
  /\ DOMAIN count = Secondaries
  /\ \A r \in Secondaries :
       /\ DOMAIN count[r] \subseteq Rules
       /\ \A k \in DOMAIN count[r] : count[r][k] \in Nat
  /\ dropped \in [Secondaries -> SUBSET Rules]
  /\ idle \in [Secondaries -> Nat]
  /\ forwarded \in [Secondaries -> BOOLEAN]

\* No sequence number has been used twice yet.
NoWrap == nextHandle <= SeqSpace + 1

\* m_unAckBuffer and the timer list describe the same messages: each running
\* timer is found under the sequence number of its message, and each entry's
\* handle is a running timer.  So an acknowledgement always finds its timer,
\* and no timer runs that nobody can stop (RouterPrim.cpp:365-406, 469-479).
TimersMatchUnAck ==
  NoWrap =>
    /\ UniqueHandles(eq)
    /\ \A i \in 1..Len(eq) :
         eq[i].seq \in DOMAIN unAck /\ unAck[eq[i].seq] = eq[i].hdl
    /\ \A s \in DOMAIN unAck : \E i \in 1..Len(eq) : eq[i].seq = s

\* The timer list stays sorted although every retransmission re-inserts its
\* timer between those of other messages (comment at timers.cc:175-179).
TimersSorted == SortedByTime(eq)

\* ExecuteNextTimer pops and dereferences the head without a check
\* (timers.cc:406-409): the loop never calls it on an empty list.
NeverExecuteEmpty ==
  (phase = "select" /\ eventTimeout) \/ phase = "expire" => eq # <<>>

Pending == {[to |-> eq[i].to, rule |-> eq[i].rule] : i \in 1..Len(eq)}
             \cup ToSet(todo)

Installed == {q \in Request : q.rule \in rules[q.to]}

\* An acknowledgement in flight, and a rule the secondary has counted or
\* dropped, is a rule it has installed (RouterSecond.cpp:273-297).
AckedIsInstalled ==
  /\ \A i \in 1..Len(toPri) :
       toPri[i].kind = "ack" => toPri[i].rule \in rules[toPri[i].from]
  /\ \A r \in Secondaries : DOMAIN count[r] \cup dropped[r] = rules[r]

\* Every flow the primary has in its table had a plan of which each control
\* message is either still being retransmitted or installed: a lost datagram,
\* a duplicated or a late acknowledgement never makes the primary give one up.
NothingForgotten ==
  NoWrap =>
    \A f \in table :
      \E g \in Flows : /\ f \in {g, ReverseOf[g]}
                       /\ \E p \in Plans[g] :
                            ToSet(p) \subseteq Pending \cup Installed

\* The idle timeout ends the primary's loop only when nothing is pending:
\* the rules of every flow it has seen are installed (RouterPrim.cpp:335-339).
IdleExitIsClean ==
  NoWrap /\ phase = "exited" =>
    /\ eq = <<>> /\ DOMAIN unAck = {}
    /\ \A f \in table :
         \E g \in Flows : /\ f \in {g, ReverseOf[g]}
                          /\ \E p \in Plans[g] : ToSet(p) \subseteq Installed

\* The acknowledgements of a rule that are in flight, over any mix of
\* retransmissions and sequence numbers, are never more than the receipts its
\* secondary has counted: drop_after of them at most, also once the rule is
\* dropped (RouterSecond.cpp:273-290).
AcksInFlight(r, k) ==
  Cardinality({i \in 1..Len(toPri) :
     toPri[i].kind = "ack" /\ toPri[i].from = r /\ toPri[i].rule = k})

AckBudget ==
  \A r \in Secondaries, k \in Rules :
    AcksInFlight(r, k) <= IF k \in dropped[r] THEN DropAfter ELSE CountOf(r, k)

\* A timer stops only by an acknowledgement of its own message: same sequence
\* number, same rule, from the secondary it was sent to.
OnlyOwnAckStops ==
  [][ NoWrap =>
        \A i \in 1..Len(eq) :
          eq[i].hdl \notin Handles(eq') =>
            LET a == Head(toPri)
            IN  toPri # <<>> /\ a.kind = "ack" /\ a.seq = eq[i].seq
                  /\ a.rule = eq[i].rule /\ a.from = eq[i].to ]_vars

\* The protocol keeps the promise of RuleInstall.
Promise == INSTANCE RuleInstall WITH
  seen <- table, pending <- Pending, installed <- Installed

ImplementsRuleInstall == Promise!Spec

IsPending(r, k) == [to |-> r, rule |-> k] \in Pending

\* The secondary no longer answers this rule: its loop has ended, or the rule
\* is in m_droppedMsg.
Abandoned(r, k) == ~up[r] \/ k \in dropped[r]

\* Input from outside: packets of the tunnel and of the raw sockets.
Input == Tunnel \/ \E r \in Secondaries : SecRaw(r)

Quiet == <>[][~Input /\ ~Lose]_vars

\* Retransmission works: once traffic and losses have ended, every control
\* message still pending is acknowledged, whatever was lost before, unless its
\* secondary no longer answers; a rule that is not answered never keeps another
\* from being acknowledged.
AckedUnlessAbandoned ==
  Quiet => \A r \in Secondaries, k \in Rules :
             <>[](~IsPending(r, k) \/ Abandoned(r, k))

\* ... and the primary's loop ends, unless such a rule keeps it waiting.
Terminates ==
  Quiet =>
    <>(\/ phase = "exited"
       \/ \E r \in Secondaries, k \in Rules : IsPending(r, k) /\ Abandoned(r, k))

\* README.stage4.txt:7-8, "Reliability: I use the class timer library": a
\* control message to a secondary that stays up is acknowledged in the end.
Reliable ==
  Quiet => \A r \in Secondaries, k \in Rules : <>[](~IsPending(r, k) \/ ~up[r])

\* RouterPrim.cpp:320-321, "Timer expired, Hence process it": a timer is
\* executed, and so set back to RTO, only once its time has come.
OnlyExpiredExecuted ==
  [][ \A i \in 1..Len(eq), j \in 1..Len(eq') :
        eq[i].hdl = eq'[j].hdl /\ eq'[j].tv > eq[i].tv => eq[i].tv = 0 ]_vars

\* cRouter.h:89, m_unAckBuffer stores "the handle of the timer of the unacked
\* msg": each running timer can be found in it.
EveryTimerStored ==
  \A i \in 1..Len(eq) : \E s \in DOMAIN unAck : unAck[s] = eq[i].hdl
=============================================================================
