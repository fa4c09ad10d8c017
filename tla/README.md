# simpleSDN in TLA+

simpleSDN is a small software-defined network on one host. A *primary router*
reads IP packets from a tunnel device; one or more *secondary routers*, forked
from it, forward or answer them. The primary is the controller: for every flow
it has not seen it sends *octane* control messages that install a rule at a
secondary router, and it retransmits each of them until it is acknowledged. All
messages are UDP datagrams on the loopback interface. A configuration file names
one of ten *stages*; each stage runs its own pair of router loops.

The modules here are a model of that program, translated from its source; line
numbers below are those of the source tree `src/`.

## 1. Inventory

| component | code | state | operations | who calls it |
|---|---|---|---|---|
| timer library | `timers/timers.cc` | sorted event list, `next_handle_` | `AddTimer`, `RemoveTimer`, `NextTimerTime`, `ExecuteNextTimer` | the primary's loop; calls back `cOctaneTimer::Expire` |
| control protocol, primary | `RouterPrim.cpp` `_s4`, `_s5`; `cRouter.cpp` `createOctaneMsg` | `m_iSeqnoCnt`, `m_unAckBuffer`, select timeout, `bEventTimeout` | loop head, tunnel handler, socket handler, expirations, idle exit | select |
| control protocol, secondary | `RouterSecond.cpp` `_s4`, `_s5` | flow table, `m_MsgCount`, `m_droppedMsg`, select timeout | install + acknowledge, ignore, answer or forward a packet, leave | select |
| sockets and clock | `network.cpp` `sendMsg`, `recvMsg` | receive buffers | deliver, drop | both routers |
| flow table | `cRouter.cpp` `flow_table`, `flow_entry` | `std::map` with a wildcard comparator | `insert`, `dbInsert`, `contains`, `flowCheck`, `remove` | both routers |
| counting of control messages | `secondRouter_s4`, `_s5`, `_s6`; `network.cpp` `octane_control::operator<` | `m_MsgCount`, `m_droppedMsg`, both `std::map` | count a receipt, move to dropped, ignore | secondary routers |
| rule-driven routing | `primaryRouter_s6`, `_s7`, `_s10`; `secondRouter_s6`, `octaneRulesController` | rules at two secondaries, source address to restore | route by port, through a chain, by source-port parity | tunnel, sockets |
| captive portal | `primaryRouter_s9` | `isAuthenticated`, `authOctMsg`, a third secondary | authenticate, remove and replace flows | tunnel, sockets, the portal's CGI program |
| plain forwarding | `primaryRouter_s2`, `secondRouter_s2` (stages 2 and 3) | source address to restore | answer or forward an echo request | tunnel, sockets |
| registration and process start | `stage1` to `stage10`, `secondRouter_reqReg`, `primaryRouter_reg`, `primaryRouter_savePort` | process tree, `m_mChildPort`, `iRouterID`, `/tmp/captive.conf` | find and bind a port, fork, send own number, wait for it | `main` |
| stage engine and configuration | `main.cpp`, `readConfigFile`, `parser`, `stageEngine`, `nextConfig` | `vConfig`, `iConfigReg`, current stage | parse, next stage, run it, write a log | `main` |
| packet codec | `network.cpp`, `icmp_checksum.c` | none | build, unpack, checksum | everyone |
| tunnel device | `sample_tunnel.c` | external | read, write | primary |

### How the parts interact

    tunnel --packet--> primary --control, data--> secondary --packet--> raw socket
                         ^  \                       |   ^
                  timers |   \__ m_unAckBuffer      |   |__ m_MsgCount, m_droppedMsg
                         |________ ack, reply ______|

Each router is a process with one thread around `select`, so handlers do not
interleave inside a process; across processes everything interleaves, and the
receive buffers lie between. The primary's loop couples two clocks: the select
timeout is the time to the nearest timer when there is one and what is left of
a 15 s idle timeout otherwise, and the same branch that executes timers decides
whether the loop ends.

### What is hard, and what makes each component correct

* *Timer library*: timers are inserted, cancelled and re-inserted in any order.
  Correct: the list stays sorted, a handle never names two timers, and the timer
  that runs is always a nearest one.
* *Control protocol*: messages are lost, dropped at a full buffer, duplicated by
  retransmission and answered late; the callback always reschedules; the
  secondary stops answering a rule after `drop_after` receipts; the sequence
  number is a `uint16_t`. Correct: a message is given up only when its rule is
  installed; an acknowledgement stops exactly its own timer; every running timer
  can still be stopped; the loop ends only with nothing pending; and, when the
  network is good again, everything pending is acknowledged in the end.
* *Flow table*: the comparator treats wildcard fields as equal, which is no
  strict weak order. Correct: a lookup finds an installed matching rule.
* *Counting of messages*: its comparator is no strict weak order either. Correct:
  the first `drop_after` receipts of a message are answered, and no other.
* *Routing*: packets, control messages and answers pass between three or four
  processes. Correct: a packet leaves by the router its stage names, it does not
  overtake its rules, answers go back to the client that asked, and the rules of
  several routers never send a packet round in a circle.
* *Captive portal*: flows are replaced message by message, without timers for
  some of the messages. Correct: HTTP leaves only for clients that have
  authenticated.
* *Registration, stage engine*: blocking receives, children that return into the
  main loop, identities by order of creation and by order of process number.
  Correct: one process acts as primary, every port it uses is read by the router
  it takes it for, nothing is read that is not there, and every stage is run.

`PROJECT.json` lists these hazards one by one with the line where each bites.

## 2. Modules

| module | models | kind |
|---|---|---|
| `FlowOrder` | flow entries and the comparator of the flow table | helper |
| `FlowTable` | class `flow_table` on a `std::map` of any shape | detailed |
| `FlowMap` | a function from flow entries to actions | abstract |
| `EventQueue` | the event list's operations as operators on sequences | helper |
| `Timeval` | the arithmetic on `struct timeval` | helper |
| `Timers` | class `Timers` on that list, a callback's return value left open | detailed |
| `TimerSet` | a set of running timers of which a nearest one fires | abstract |
| `OctaneControl` | both ends of the control protocol, sockets, timers, clock | detailed |
| `RuleInstall` | requests are made, installed, confirmed | abstract |
| `MessageOrder` | the comparator of the maps that count control messages | helper |
| `ReceiptCount` | those maps at a secondary, with trees of any shape | detailed |
| `RoutePlans` | where each stage sends a packet, and its control messages | helper |
| `Routing` | the routers of stages 2, 3 and 6 to 10 with their sockets | detailed |
| `Stages` | processes, from the configuration file to the routers' loops | detailed |
| `MCTimers`, `MCOctaneControl`, `MCFlowTable`, `MCReceiptCount`, `MCRouting`, `MCStages` | constants for TLC | instances |
| `SequenceProofs`, `EventQueueProofs` | lemmas on sequences and the event list | proofs |
| `TimersProofs`, `OctaneControlProofs`, `FlowTableProofs`, `ReceiptCountProofs`, `RoutingProofs`, `StagesProofs` | theorems about the module of that name (`TimersProofs` also about `Timeval`) | proofs |

`Timers` and `OctaneControl` extend `EventQueue`; `OctaneControl` has its own
timer list, handled by the same operators. `Timers` implements `TimerSet`,
`OctaneControl` implements `RuleInstall`, `FlowTable` implements `FlowMap`.
`Routing` composes `RoutePlans` (over `FlowOrder`) with several routers, and
implements `RuleInstall` too, outside stage 9. `ReceiptCount` (over
`MessageOrder`) is one secondary of either, seen from the messages it is sent: it
shows when the functions that `OctaneControl` and `Routing` have for `m_MsgCount`
and `m_droppedMsg` are right. `Stages`
has the routers' loops as one phase: what `OctaneControl` and `Routing` assume,
one primary that knows the port of each secondary, is what it shows.

### FlowTable

`table` is the sequence of the map's nodes in the order of the tree. `call`, a
history variable that `FlowMap` has too, is the last operation with its
arguments; with it the refinement says that every operation does what its
arguments ask, and not only that some legal change happens.
`Less` (module `FlowOrder`) is `flow_entry::operator<` (cRouter.cpp:53-147): the first field that
differs decides; when the left entry has a wildcard (a field of all ones) every
field counts, otherwise a wildcard on either side differs from nothing. The
condition at line 80, presumably meant for the right entry, repeats the left one.

With a comparator that is no order, the result of a search depends on the
shape of the tree, which is the library's affair. The model leaves it open: a
search from the root ends in a gap between two nodes next to each other in
order, and has compared its key with both of them, so `LowerBounds` and
`UpperBounds` are all gaps where the two comparisons agree with the direction.
On these stand the model of `operator[]` (`Assign`, which keeps the key of a
node it hits), of `find` (`Hit`) and of `erase` (`RemoveEntry`).

| action | code |
|---|---|
| `DefaultInsert` | `flow_table::defaultInsert`: all fields all ones, drop |
| `Insert` | `insert` (and `operator[]` at its other callers) |
| `DbInsert` | `dbInsert`: the entry, then its reverse, with its own port if given |
| `RemoveEntry` | `remove` |

`flowCheck` and `contains` change nothing: `LookupExact` and `HitExists` are about
their result. Entries of ICMP packets have wildcards for both ports, because
`ipUnpack` sets them so (network.cpp:299-300); entries of TCP packets have none.
Which entries meet in a table is a constant: stages 4 and 5 see ICMP only,
later stages both.

### ReceiptCount

`msgCount` and `dropped` are the nodes of `m_MsgCount` and `m_droppedMsg` in the order of
the tree, `received` and `acked` count receipts and answers of each message. `MsgLess`
(module `MessageOrder`) is `octane_control::operator<` (network.cpp:478-516). It looks at the
wildcards of its left message only, does not compare the protocol, and in its
last step a smaller port decides even where the action is greater.

`LowerBounds` and `UpperBounds` leave the shape of the tree open, as in `FlowTable`. `Insertions`
goes one step further, because here each of two messages can be the smaller: the
library compares the new message once more with the node it is hung on, and then
hangs it on the left even of a node it is to follow, where it takes the place of
a node that is there already. The sequence is what later searches find in the
tree; the iterators of such a damaged map are not modelled, and the code does
not use them.

| action | code |
|---|---|
| `Answer` | a message not in `m_droppedMsg`: count it (`Counted`), compare with `drop_after`, which searches again (`Compared`, `Reached`), move it if reached (RouterSecond.cpp:687-717; 267-298 in stage 4) |
| `Ignore` | a message in `m_droppedMsg` |

`Separate` says which messages the comparator keeps apart: of an ICMP and a TCP
message of one source the TCP one is always the smaller, so its destination must
be the smaller too, or the same, with no greater action and port; and of two
messages of one flow none may have the smaller action and the greater port.
`OrderExactly` proves that the comparator is a strict total order on such
messages and on no others. A secondary of stages 4 and 5 gets ICMP messages only, one for
each flow, which are `Separate`; from stage 6 on a client that pings hosts with
greater addresses than those it browses is covered, and one that does it the other
way round is not. Then each of two messages is less than the other: when one is in
`m_MsgCount` and the other is counted, the search that compares with `drop_after`
misses the node just entered and enters another with 0 in its place, and
`drop_after` is never reached. An instance with a ping of host 3 and TCP flows to
hosts 1 and 7 violates `StoresReceipts` so, after two receipts.

### Timers

`eq` is the list `head_`, a sequence of `[hdl, timeout, tv]`; `nextHandle` is
`next_handle_`; `now` is what `getTime` reads. `EqAdd` is the walk of `Eq_Add`:
a timer goes *in front of* the first one that does not expire earlier, so of
equal timers the newest comes first. `ExecuteNextTimer` has one disjunct for each
return value of a callback: DISCARD, RESCHEDULE_SAME, and a new timeout.
`RemoveTimer` takes any number, also a handle that no longer runs. `NextTimerTime` changes nothing; its
result, the time to the head, is what `OctaneControl` reads off `Head(eq).tv`.

Expiration times are integers in the list, `struct timeval` in the code. Since
`Timeval_Addusecs` does not carry exactly one million microseconds (line 139), an
instant may have two timevals, and `Timeval_Cmp` calls them different. `Stored` is
the timeval that the code computed for an event when it was added, `Remaining` what
`NextTimerTime` would make of it, and `TimesAgree` says that these order and
subtract as the integers do. What the integers do not show is the order of events
of one and the same instant, which in the code may be either.

### OctaneControl

| variable | code |
|---|---|
| `phase` | where the primary's `while (1)` stands: its head, select, the tunnel handler's two or three sends, the socket handler, the expiration loop, returned |
| `table` | keys of the primary's `m_rouFlowTable` |
| `todo`, `packet` | control messages and the packet of the tunnel handler not yet sent |
| `sockReady` | whether this iteration's select also reported the socket |
| `seqno`, `unAck` | `m_iSeqnoCnt`, `m_unAckBuffer` |
| `eq`, `nextHandle` | the timer list and `next_handle_` |
| `timeout`, `eventTimeout` | the select timeout, `bEventTimeout` |
| `toSec`, `toPri` | the receive buffers of the UDP sockets |
| `up`, `idle` | the secondary's loop still runs; its select timeout |
| `rules`, `count`, `dropped` | the secondary's flow table, `m_MsgCount`, keys of `m_droppedMsg` |
| `forwarded` | a packet has left through the raw socket, so replies can come |

One action per branch of the two loops: `TopNoTimer`, `TopWait`, `TopExpired`
(RouterPrim.cpp:290-313); `TunnelHit`, `TunnelMiss`, `InstallOne`,
`InstallDone`, `TunnelOther` (342-438); `SocketAck`, `SocketData` (439-486);
`SelectTimer`, `ExpireMore`, `ExpireDone`, `SelectIdle` (314-340). The refresh
of the idle timeout at 487-491 is part of each handler. At the secondary:
`SecInstall`, `SecIgnore`, `SecReply`, `SecForward`, `SecQuit`, `SecRaw`,
`SecIdle` (RouterSecond.cpp:211-369). Stage 5 has the same loops with two more
kinds of packet, and is covered by the same actions.

Abstractions, all of them named here:

* The flow table is a set of exact entries and a rule is one value (4-tuple,
  protocol, action and port). In stages 4 and 5 every entry is of an ICMP packet
  or the default one, and for such tables `FlowTable` proves that lookups are
  exact (section 4).
* `Plans[f]` is the set of control-message lists a new flow may cause. The code
  chooses by `dstAddr` (RouterPrim.cpp:383), a local variable that is never
  assigned in this function, so the choice is left free.
* The code sends both messages of a pair and then starts both timers and stores
  both handles; the model sends, starts and stores one message at a time. No
  other action of the primary can come between, the receiver cannot see the
  timers, and a clock tick between them only makes a timer relatively shorter or
  longer by that tick.
* Expiration times and select timeouts are ticks left, not absolute. Removing
  the clock makes the state space finite without a bound on time.
* Receive buffers hold `RcvBuf` datagrams in order and drop the rest. A datagram
  counts as lost (`Lossy`) while it is the newest one of a buffer, which covers
  a loss of any datagram at the moment it is sent; it cannot be lost once
  select has reported it.
* An echo request is answered or forwarded; which of the two depends on
  addresses the model does not have, so both are possible.

### Routing

The primary of stages 6, 7, 9 and 10 (8 runs 6), up to three secondaries that
all run `secondRouter_s6`, and stages 2 and 3 with one.

| variable | code |
|---|---|
| `scenario` | stage and `drop_after` of the configuration, and the surroundings: see *bounds* |
| `table` | keys of the primary's `m_rouFlowTable` |
| `todo` | what the handler at work has still to send: the `sendMsg` calls of one packet |
| `seqno`, `unAck` | `m_iSeqnoCnt`; the messages whose timers run, by number |
| `isAuthenticated`, `authMsg` | locals of `primaryRouter_s9` (`authOctMsg`, with its reverse) |
| `inbox` | the receive buffer of each UDP socket |
| `up` | which loops still run |
| `rules`, `receipts`, `oriSrcAddr` | a secondary's flow table, `m_MsgCount` with `m_droppedMsg` (a rule is in the latter when its count is `DropAfter`), `oriSrcAddr` |
| `out`, `clients`, `lost` | history: packets that left by a raw socket, clients that have authenticated, whether anything was lost |

| actions | code |
|---|---|
| `TunnelIcmp`, `Tunnel6`, `Tunnel7`, `Tunnel9`, `Tunnel10`, `TunnelOther` | the tunnel handler's branches of each stage; `Known` and `New` are the two outcomes of `flowCheck` |
| `SendNext` | the next `sendMsg` of that handler, so that secondaries act between them |
| `Retransmit` | `cOctaneTimer::Expire` |
| `SocketAck`, `SocketData`, `SocketAuth` | the primary's socket handler; `SocketAuth` is action 5 in stage 9 |
| `SecInstall`, `SecDrop`, `SecData`, `SecNoRule` | a secondary's UDP handler; `Leaves` and `Passed` are branches of `octaneRulesController` |
| `RawIcmp`, `RawTcp` | its raw sockets: the answer's destination is replaced by `oriSrcAddr` *before* its rule is looked up |
| `TunnelPlain`, `SecPlain`, `RawPlain` | stages 2 and 3 |
| `PriIdle`, `SecIdle` | the loops' idle timeouts |
| `PortalSends`, `Lose` | environment: the CGI program, UDP |

`RoutePlans` has the decisions: `Web6`, `Web9`, `Web10` name the router of a
packet, `Plan7` and `Leave` the control messages of a new flow. ICMP is routed by
`dstAddr`, which is never assigned (RouterPrim.cpp:829), hence `IcmpTargets` and
`IcmpPlans` allow each outcome that one value of it can have. In the same way a
TCP packet to another port goes to any router (line 930).

Abstractions:

* Flow tables are functions. The comparator may confuse entries (finding 3), so
  `RoutingAssumption` requires entries it keeps apart, also for the wrongly
  addressed answers (`LookedUp`); for such entries `FlowTable` shows the
  function to be right. `receipts` is a function as well, which
  `ReceiptCount` proves to be right if the messages a router is sent are
  `Separate`; those of the scenarios are.
* Time is left out: a timer may expire at any moment, and an idle timeout may
  come whenever nothing is to be read. `OctaneControl` has the timers. With
  `prompt` a timer expires only when its message or the answer is lost.
* A packet is its flow, without direction or payload; the default rule (drop)
  only ever matches a packet of all ones, and has no effect.
* The portal's CGI program is not in the repository. From how the primary reads
  its message, it sends the flow of a client it has seen, with action 5 and a
  number of its own (`AuthSeqs`).

### Stages

| variable | code |
|---|---|
| `file`, `config` | the configuration file as lines of tokens; `vConfig` |
| `pc` | where each process is: stage engine, binding, fork loop, waiting for a registration, registering, in its loop, ... |
| `router` | its copy of the class `cRouter` |
| `frame` | `rou1Addr`, `sockID` and `i` of the stage functions |
| `lastPid` | the process number given out last |
| `inbox` | receive buffers by port |
| `captive`, `logs` | `/tmp/captive.conf`; who has written which log file |
| `faults` | history: a failed bind or fork, an exit, numbers given out from the start again |

`StageEngine` takes a stage's values from `vConfig` by count (`Needed`), as the
code does; the words are kept beside the values for the properties only.
`Bind`, `Fork`, `ForkFails`, `Register`, `Registered`, `Receive`, `EnterLoop` are
the steps of `stage1` (stages 1 to 5, one child) and of the for loop of `stage6`,
`stage7`, `stage9` and `stage10`, which are the same text. A child has a copy of
everything (`Fork`) and returns into `main` like its parent; `Leave` is the end
of a loop and `close`, `Finish` and `Reap` the end of stage 1. `Fail` is any
`exit(1)` of a loop. What is undefined (reading `vConfig[-1]`, an iterator past
the end of `m_mChildPort`, a loop without a socket) ends a process in
"undefined", from where it does nothing.

## 3. Runs

| run | question | instance |
|---|---|---|
| `timers` | do additions, cancellations and reschedulings keep the list sorted and its handles unique, does it behave as `TimerSet`, and do its timevals agree with the times? | timeouts 1-3 of half a second, 4 handles, clock to 4 |
| `octane_loss` | do the two ends agree under loss, full buffers, retransmission and delay? | 1 secondary, 2 flows with a message each, `DropAfter` 2, buffers of 2, `RTO` 1, `Idle` 2, lossy |
| `octane_live` | once traffic and losses end, is everything acknowledged and does the loop end? | a flow and its reverse, plans of one and of two messages, `DropAfter` 2, buffers of 3, lossy, prompt, fair |
| `octane_reliability` | is every message to a live secondary acknowledged? (violated) | as above, `DropAfter` 1 |
| `octane_early` | does a timer run only when it has expired? (violated) | two flows, three messages, `RTO` 2, no loss |
| `octane_wrap` | can every running timer be stopped? (violated) | the same with `SeqSpace` 2 |
| `flow_apart` | is the flow table an exact map for the default rule and ICMP and TCP entries that the comparator keeps apart? | an ICMP flow and two TCP flows, which differ in the source port, of one client, with their reverses |
| `flow_mixed` | does a lookup that hits find a rule for the packet? (violated) | an ICMP and a TCP flow between the same hosts |
| `receipts` | are the first `drop_after` receipts of each message answered and no other, and are they stored, for any trees? | 7 messages, `DropAfter` 3, 4 receipts of each |
| `routing` | do packets leave where their stage says, after their rules, and do answers find their clients, in stages 2, 3 and 6 to 10? | 11 scenarios of one to three flows, 3 or 4 routers |
| `portal_tracking` | does HTTP leave only for clients that have authenticated? (violated) | stage 9 with two clients |
| `stages` | do roles, ports and addresses agree from the file to the loops, and is every stage run? | 13 files of one or two stages, 5 process numbers |

Bounds and why they suffice:

* *Addresses and ports below 9, 9 for all ones*: only the order of the fields and
  equality with all ones are compared. The chosen flows differ in the
  source port only or, reversed, in the destination port only, in the destination
  and the protocol, and in the source; wildcards occur on either side. `FlowTableProofs` has no
  such bound.

* *Messages of `ReceiptCount`*: among the seven of `receipts` every branch of `MsgLess` is taken by some
  pair: the source, the source port, the destination, the destination port, a
  wildcard of the left or of the right message, and the last step (a ping
  of a server that is browsed, too). They are `Separate`. Four receipts are
  the first, one in between, the last answered and an ignored one.
* *One secondary*: stages 4 and 5 have exactly one (`num_routers 1`); the
  actions of two secondaries touch disjoint state apart from the primary's
  buffer. The theorems hold for any number.
* *`RTO` 1 or 2, `Idle` 2 or 3*: what matters is that a retransmission can come
  before, together with and after the acknowledgement, and that `Idle` exceeds
  `RTO` as 15 s exceeds 2 s. Without `Prompt` a router may also be arbitrarily
  slow with respect to the clock.
* *`RcvBuf` 2 or 3*: a message, its retransmission and a packet, or a full
  buffer that drops one of them.
* *`DropAfter` 1 to 3*: first receipt, last acknowledged receipt, first ignored.
* *`SeqSpace` 8*: more than the messages an instance sends, so no number is used
  twice; the properties that need this say so (`NoWrap`). `octane_wrap` sets 2,
  and stands for 2^16 messages sent while one stays unacknowledged.
* *`MaxNow`, `MaxHandle` 4*: up to four timers at once. `TickMsecs` 500: half seconds
  give sums of less than, exactly and more than one million microseconds.
* *`Prompt`*: in the runs with liveness a tick passes only when every router
  waits in select. A loop iteration takes microseconds and a tick stands for a
  second; without it, a run in which one process is scheduled once per 15 s would
  count. The safety runs do without.

* *Scenarios of `Routing`*: `rcvBuf` 1 to 3 and `dropAfter` 1 or 2 as above.
  `maxSeq` bounds the numbers given out, at least the messages of the scenario's
  flows; with 3, two new flows. The lossy scenarios and those without `prompt`
  have one flow, so that every order of retransmissions, acknowledgements and
  packets comes up; those with several flows are `prompt`: a timer expires
  only for a loss, and the packets of a flow come one by one. Two flows of one
  client, two clients, chains and both parities of ports occur.
* *`AuthSeqs` {1}*: the portal's number meets that of a message with a running
  timer, the case `AcksAreOwn` is about. `LocalNet` {7} is one host of
  10.5.51.0/24.
* *Files of `Stages`*: the test configurations, stages before and after stage 1,
  two stages with routers, a file that lacks a value, one with too few routers,
  and a stage number that is none.
* *`Pids` 2-6, `MainPids` {2, 5}*: the largest file starts four processes;
  a start at 5 makes numbers wrap between two children.
* *Deadlock* is not checked in these runs: routers leave their loops and
  processes end. `Terminates` says where they must.

### Safety and refinement

`TimersMatchUnAck` relates `m_unAckBuffer`, the timer list and the sequence
numbers. `OnlyOwnAckStops` says that the timer stopped by a (possibly late or
duplicated) acknowledgement is that of its own message. The code depends on
`operator[]` giving 0 for an entry already erased and on no handle being 0.
`NothingForgotten` and `IdleExitIsClean` relate the primary's table and timers to
the *secondary's* flow table: a request stays pending until it is installed, and
the idle exit means everything is. How often a message is answered altogether is
`AckedExactly`, in `ReceiptCount`, whose history counts receipts and answers. `ImplementsRuleInstall` and
`ImplementsTimerSet` are the refinements of the two abstract specifications.

In `Routing`, `RuleBeforePacket` relates every packet in a buffer to the rules of
its router and the control messages before it. It is about stages' order of
sending, also on the second leg of stage 7's chain, where the rules for R2 were
sent before the packet went to R1. Its exception is real: in stage 9 only the
flow remembered last is removed when a client authenticates (line 1852), and a
packet of another one, still in the primary's table, goes to R1, which has no
rule for it. `LeavesByItsRouter`, `NoLoop` and `KeepsPromise` hold under every
loss; `AnswersRequest` holds although `oriSrcAddr` may belong to another client,
because the wrongly addressed answer then has no rule, provided the clients'
ports differ (`DistinctPorts`); with equal ports and equal servers an answer can
go to the wrong client. `AcksAreOwn` has the exception of the portal's messages, which
are sent without timers under numbers that may be taken.

In `Stages`, `OnePrimary`, `PortsAreRead` and `OwnLogs` compare processes with one
another; `RightWayOut` needs that numbers do not wrap round between two
children of a stage, because the primary goes by the order of process numbers
and a child by the order of its creation (`IsNextPid` gives out the numbers). The properties of
several stages presuppose `Sequential`: `stage1` forks without asking whether
the process is a child, so that a stage 1 to 5 after any stage but the first
makes every surviving process a primary. Only stage 1, whose child exits, may
come before them; a file with the stages 6, 1, 6 has two primaries. `OwnLogs` likewise supposes one
stage with surviving children: after that, a second one is run by them as well.

### Liveness and fairness

`FairSpec` assumes weak fairness of the primary's own steps (`PriStep`), of each
secondary's steps and of the clock: the operating system schedules a process
whose select can return, and time passes. Nothing is assumed of packets from the
tunnel or the raw sockets, nor of losses; the properties say what happens once
they have ended (`Quiet`). `AckedUnlessAbandoned` is retransmission at work;
`Terminates` is the idle exit. Both make exception of a rule its secondary no
longer answers, and `octane_reliability` shows that the exception is needed.

`Stages!FairSpec` assumes weak fairness of each process: it is scheduled, and
traffic ends, so that a loop's idle timeout comes. `Terminates` is about the two
places where a process waits for another one, the registration and `waitpid`. A
failed bind is excepted: then the children's registrations go to a port that is
not the primary's, and it waits for ever (RouterPrim.cpp:2466-2470 only logs).

### Findings

1. **A rule can stay unacknowledged for ever** (`octane_reliability`). After
   `drop_after` receipts a rule is ignored without an acknowledgement
   (RouterSecond.cpp:273, 286-290). If the acknowledgements of those receipts
   were lost, the primary retransmits for ever, as `Expire` always returns
   RESCHEDULE_SAME (RouterPrim.cpp:2283), and never reaches its idle exit.
   README.stage4.txt:7-8 claims reliability by the timer library.
2. **A timer runs before its time** (`octane_early`). If the head had expired at
   the top of the loop it is executed there and `timeout` stays 0; select
   returns at once and RouterPrim.cpp:321 executes the next head, which need
   not have expired, under the comment "Timer expired, Hence process it".
3. **A TCP flow is taken for an ICMP flow** (`flow_mixed`). Because of line 80,
   an ICMP entry and certain TCP entries are the same key to the map: those
   between the same hosts, and others, as a wildcard port ends the comparison
   differently from either side. After a ping, `flowCheck` of such a TCP packet
   hits the ICMP rule, and from stage 6 on the primary then sends no control
   message for the TCP flow (RouterPrim.cpp:935).
4. **A timer can be lost from `m_unAckBuffer`** (`octane_wrap`). When the 16-bit
   sequence number comes round while a message is unacknowledged, its handle is
   overwritten; with finding 1 such a message exists.
5. **One client authenticates for all** (`portal_tracking`).
   README.stage9.txt:10-11 says of authentication "By tracking its port and IP
   address"; `primaryRouter_s9` keeps one boolean (line 1496, set at 1854), and
   then sends every client's new HTTP flow to R1.

## 4. Proofs

Every invariant and every safety property or refinement that a passing run checks
is stated by a theorem; what is left to TLC alone is listed at the end.

| theorem | says |
|---|---|
| **`TimersProofs`** | |
| `AddIsExact`, `SubIsExact`, `CmpFollowsTime` | what the timeval arithmetic computes, for every clock and delay |
| `TypeCorrect`, `AlwaysSorted`, `AlwaysUnique` | `TypeOK`, `Sorted`, `HandlesUnique` of class `Timers` |
| `TimesAlwaysAgree` | the timevals of the code order and subtract as the times they stand for |
| `ListIsTimerSet` | class `Timers` implements `TimerSet` |
| **`FlowTableProofs`** | |
| `ComparatorIsOrder` | the comparator is a strict total order on entries of one protocol, and on those of ICMP and TCP if of two of one source the ICMP one has the greater destination (`Apart`) |
| `OrderNeedsPingsGreater` | on no other mixture of ICMP and TCP entries is it one |
| `TypeCorrect`, `LookupsAreExact` | `TypeOK`; if entries are `Apart` a lookup ends at the entry's own node exactly if there is one |
| `TableIsMap` | if entries are `Apart` `FlowTable` implements `FlowMap` |
| **`ReceiptCountProofs`** | |
| `OrderExactly` | the comparator of messages is a strict total order if and only if the messages are `Separate` |
| `AnswersExactly` | of `Separate` messages the first `DropAfter` receipts of each are answered and no other |
| `CountsAreStored` | and each is in `m_MsgCount` with the number of its receipts (`StoresReceipts`) |
| **`OctaneControlProofs`** | |
| `TypeCorrect`, `ExecutesSomeTimer` | `TypeOK`; no timer of an empty list is executed |
| `TimersAlwaysSorted` | `TimersSorted`: also while the loop has expired timers and new ones in the list |
| `AcknowledgedIsInstalled` | every acknowledgement in flight is of an installed rule |
| `TimersAlwaysMatch`, `OnlyOwnAckStopsTimers` | `m_unAckBuffer` and the timer list agree, and an acknowledgement stops its own message's timer, until the numbers wrap |
| `NothingIsForgotten`, `IdleExitsAreClean` | a request stays pending until it is installed; the idle exit comes only when nothing is pending |
| `AcksWithinBudget` | a rule's acknowledgements in flight are never more than the receipts counted, at most `DropAfter` |
| `ImplementsUntilWrap` | the protocol implements `RuleInstall`, until the numbers wrap |
| **`RoutingProofs`** | |
| `TypeCorrect` | `TypeOK` |
| `OnlyByItsRouter`, `PortalComesFirst` | packets leave by the router their stage names; HTTP by R1 only after an authentication |
| `StopsItsOwnTimer` | `AcksAreOwn` |
| `NeverInACircle` | no installed rules send a packet round in a circle, if no flow is its own reverse |
| `ImplementsRuleInstall` | stages 6, 7 and 10 implement `RuleInstall`, under the same condition |
| `AnswersBelong` | an answer from the tunnel is one to a request of its addressee (`DistinctPorts`) |
| `RulesComeFirst` | without loss, no packet comes to a router before its rule, if no client port is 80 or 443 |
| **`StagesProofs`** | |
| `TypeCorrect`, `ValuesAsWritten`, `NothingIsUndefined` | `TypeOK`, `ReadAsWritten`, `NothingUndefined` |
| `OneReadsTheTunnel` | at most one process is the primary router |
| `PortsHaveReaders` | the primary's ports are read by the secondaries it takes them for |
| `OrdersAgree`, `LogsAreOwn` | `RightWayOut`, `OwnLogs` |

They hold for every value of the constants that satisfies `TimersAssumption`,
`ControlAssumption`, `FlowAssumption`, `ReceiptAssumption`, `RoutingAssumption` or `StagesAssumption`: any number
of secondaries, flows, rules and sequence numbers (at least two), any buffer
size and `drop_after`, any files and process numbers, with or without loss
and promptness. TLC evaluates the same assumptions in the runs.

*Hypotheses.* Some theorems of `RoutingProofs` have one of their own, and without
it they are false; TLC has a counterexample for each as soon as an instance
contains the excluded flow. `NobodyMirrored`: a host that talks to itself from a
port to the same port gives a flow whose rule and reverse rule have one key, and
they overwrite each other. `ClientPorts`: with
443 as the *client's* port, the reverse entry that `dbInsert` puts into the
primary's table is a web flow as well, a packet of which is then taken for
known although its rule is elsewhere. That ICMP entries have wildcards for both
ports is part of `RoutingAssumption`, because `ipUnpack` sets them
(network.cpp:297-301).

*Sequences.* `SequenceProofs` has what the proofs about buffers and lists need
beyond the library: the elements of a sequence after `InsertAt`, `RemoveAt`,
`Append`, `Tail`, `Front` and `FlattenSeq`, and that a set of naturals has a least
element, which stands in for induction. `EventQueueProofs` proves what `EqAdd`, `EqPop` and
`EqRemove` do to the elements, the order and the handles of a list; the key fact is that
`AddPosition` splits a sorted list into the events strictly earlier than the new
one and those that are not (`AddPositionProperties`).

*Timers.* The inductive invariant adds to the checked properties that every
running handle has been given out (`Issued`): without it a new handle could
collide with a running one. `Started` (no timer was started before time 0) is what
`TimesAlwaysAgree` needs besides: then `Stored` is a sum of a clock reading and a
delay, exact by `AddIsExact`, carried or not. For `ListIsTimerSet` the list
becomes a function from handles to times, well defined by `HandlesUnique`, and
the head one of its nearest, by `Sorted`.

*FlowTable.* Under `OneProtocol` (all entries ICMP, with wildcards for both ports,
or all of one other protocol without wildcards) `Less` is the lexicographic
order `Lex`: the default entry, the only other kind, is greater than everything
whichever side it stands on. In a mixture of ICMP and TCP a TCP entry passes over the
wildcard ports of an ICMP one, so that the destination decides; `PingsGreater` says
that it decides as `Lex` does. Both together are `Apart`. Hence `SortedByKey` is inductive: in a sorted table
there is exactly one lower bound, and it separates the smaller keys from the others
(`LowerBoundSplits`), so `Assign` hits its own key or inserts between. `Contents`
of the table after `Assign` is then the function of before with one value changed
(`ContentsWith`), and the refinement of `FlowMap` follows operation by
operation. Without `Apart` the statement is false: `flow_mixed`.

*ReceiptCount.* On `Separate` messages `MsgLess` is the order `Lex` of the fields one after the
other (`MsgLessIsLex`). The converse half of `OrderExactly` takes a pair that violates
`Separate` and finds each smaller than the other. The invariant `Counting` says that
both maps are sorted and that a message is in `m_MsgCount` with the number of
its receipts while this is below `DropAfter`, and in `m_droppedMsg` from then on. In a
sorted tree a search can end in one place only and hits the message's own node
or none (`SearchIsExact`), so an insertion enters a node (`InsertNode`), `erase` takes
one away (`EraseNode`), and the second search finds what the first one entered
(`CountedNode`).

*OctaneControl.* `TypeOK` is not inductive: executing the head of an empty list
leaves the types. `TypeInv` adds `LoopOK`, what the loop may rely on where it
stands; `TopWait` and `TopExpired` establish it, and it survives until the
expiration because acknowledgements are read only in iterations where select
did not time out. On top of it:

* `AckedIsInstalled`, by `AcksInstalled` (every acknowledgement, also one not yet
  read) and `Accounted` (counted or dropped means installed).
* `TimersMatchUnAck`, by `Matched`: next sequence number = next handle modulo
  `SeqSpace` while nothing has wrapped, which makes the number of a new message
  fresh. The other steps keep each event's handle and number (`SameKeysMatch`).
* `OnlyOwnAckStops`, by `MessagesAgree`: every datagram under way, acknowledgement
  or not, says of its number what the timer of that number says, if it still
  runs; so a late acknowledgement finds its own timer or none.
* `NothingForgotten` and `IdleExitIsClean`, by all of these together (`RequestInv`) with
  `ControlsRequested` (what a control message asks for is pending or installed)
  and `AtRest`: between two packets nothing is left to send, and the loop waits
  for its idle exit only with no timer.
* `AckBudget` is inductive on top of `TypeInv`: an acknowledgement is sent with a
  receipt that is counted, and delivering, reading or losing a datagram adds
  none (`AcksAfterDeliver`, `AcksAfterTail`, `AcksAfterFront`, by injections).
* `ImplementsUntilWrap`: the steps map one by one, an acknowledgement to a confirmation or,
  repeated, to a stutter. `[]NoWrap` is a hypothesis and not part of the
  invariant, since after a wrap the statement is false (`octane_wrap`).

*Routing.* `IInv` says of each place where something can be that it is there for a
reason: `TodoOK`, `UnAckOK`, `BoxOK`, `RulesOK`, `ReceiptsOK`, `OutOK`. Each rule and each
control message is one the stage asks for some flow of the scenario (`Asks`), its
number is its own or the portal's (`Owned`), and each packet fits the router whose
buffer it is in (`Fits`). `TypeOK`, `LeavesByItsRouter`, `PortalFirst` and
`AcksAreOwn` follow at once. What a step sends and what it leaves of the buffers
is stated once (`Delivers`), so that each further invariant has a case
per kind of datagram and not per action:

* `MadeInv` (`NeverInACircle`, `ImplementsRuleInstall`): requests pending or installed
  contradict one another nowhere (`Agree`), also where a flow and its reverse have
  both been planned for. Stage 9 is excepted, which gives requests up.
* `AnswerInv` (`AnswersBelong`): a packet that goes back is an answer to a flow that has
  left. With `DistinctPorts` the wrong `oriSrcAddr` makes an entry that is
  nobody's, for which no rule exists.
* `OrderInv` (`RulesComeFirst`), as long as nothing is lost: in each buffer a packet
  follows the rule it needs (`PacketsOK`), what the handler has still to send is in
  order (`HandlerOK`), for each known flow the rules are on their way (`TableOK`), and
  the two routers of a chain have theirs in the order that packets and answers need
  (`ChainOK`, `BackOK`, `PassedOK`).

*Stages.* `Registration` is the heart of it: a parent that waits for a child has exactly one
that has not registered, all others have their port in the map, and nothing
else is in its buffer (`Fresh`, `Known`, `Bound`, `Waiting`, `Own`); so `Receive` takes
that child's port. `Placed` says that a process's values are one stage of the file,
`OneRoot` that one process, the one the program was started with, is a primary
and the others that have started will not fork, which is where `Sequential` comes in.
`NothingUndefined` needs besides what a loop uses: the sockets, ports and
children it looks for (`Sane`), counted in sets that stay finite (`Finite`).
`Read` follows the map's ports to their readers, also where a later stage
inherits the map and its children the sockets. For `RightWayOut`, `Ranking`
compares numbers with process numbers (the newest child has the greatest of
both), and `Saved` ties `/tmp/captive.conf` to the map. For `OwnLogs`, `Distinct` says that
no two processes have one stage and one number: every other process is of a
stage the root has passed, or has a number the root has given out in this one
(`Behind`), and the logs written so far are by the process that has the number. The numbers of a map are taken in the order `Ascending`, by definition a
sorting function; that a finite set has one is proved by a least counterexample.

*Only proved*: `AckBudget`. Its bound comes into play only where more acknowledgements
than `drop_after` have room in a buffer, for which `octane_loss` is too small; the
boundary itself is checked by `AckedExactly`.

*Only model-checked*: `AckedUnlessAbandoned`, `Terminates` (of `OctaneControl` and
of `Stages`) and `EveryStageRuns`: liveness under fairness is beyond the prover.

## 5. Plan

The modules planned are written, and what the passing runs check of safety is
proved. What is left:

1. Consequences at the level of the abstract specifications, which then hold
   of every implementation: in `RuleInstall`, that what is confirmed was requested
   and installed; in `TimerSet`, that a removed timer does not fire.
2. `OctaneControl` after a wrap: which part of `RuleInstall` survives.

## 6. Not modelled

* *Packet codec* (`network.cpp`, `icmp_checksum.c`): byte layouts, header lengths and
  checksums. What the conversions do to a flow is modelled where it matters
  (`Answer`, `ReverseEntry`, `Ack`, `Pair`).
* *Tunnel device* (`sample_tunnel.c`): pure I/O; its packets are the models' input.
* *C interface and test programs of the timer library*: not linked into the router.
* `primaryRouter_s4_old` is called by nobody. Log lines are left out, except who
  writes which file. `RandDelay` and `PrintEvents` of the library change no state. A
  failing `select`, `recvfrom` or `read` ends the process (`exit(1)`): `Fail` in
  `Stages`, left out elsewhere.
