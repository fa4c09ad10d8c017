------------------------------- MODULE Stages -------------------------------
(***************************************************************************)
(* From the configuration file to the running routers: the main loop       *)
(* (src/main.cpp), stageEngine and nextConfig (src/cRouter.cpp), the       *)
(* functions stage1 to stage10 with primaryRouter, primaryRouter_reg and   *)
(* primaryRouter_savePort (src/RouterPrim.cpp), secondRouter and           *)
(* secondRouter_reqReg (src/RouterSecond.cpp).                             *)
(*                                                                         *)
(* A stage's loop, which the other modules model, is one phase here.       *)
(***************************************************************************)
EXTENDS Integers, SequencesExt

CONSTANTS
  Files,    \* configuration files: lines of tokens, which are words, " ", "#"
  Pids,     \* process numbers; the system has no more processes than these
  MainPids  \* those the program may be started with

KeyWords == {"stage", "num_routers", "drop_after"}

\* The numbers of S in their order.
Ascending(S) ==
  CHOOSE s \in [1..Cardinality(S) -> S] :
    \A i, j \in 1..Cardinality(S) : i < j => s[i] < s[j]

\* parser: the words of a line, up to a "#".
WordsAll(line) ==   \* mutant: "#" is skipped like a blank
  LET at == Ascending({i \in DOMAIN line : line[i] \notin {" ", "#"}})
  IN  [k \in DOMAIN at |-> line[at[k]]]

Words(line) ==
  LET at == Ascending({i \in DOMAIN line :
              line[i] # " " /\ \A j \in 1..i : line[j] # "#"})
  IN  [k \in DOMAIN at |-> line[at[k]]]

\* Small numbers, and what stoi makes of them.
Number(t) == \E n \in 0..11 : ToString(n) = t
stoi(t) == CHOOSE n \in 0..11 : ToString(n) = t

\* readConfigFile: vConfig is the values that follow a keyword.  The keywords
\* are kept here only for the properties.
ValuesOf(words) ==
  LET at == Ascending({i \in DOMAIN words : words[i] \in KeyWords})
  IN  [k \in DOMAIN at |-> [word |-> words[at[k]], value |-> stoi(words[at[k] + 1])]]

ReadConfigFile(f) == FlattenSeq([l \in DOMAIN f |-> ValuesOf(Words(f[l]))])

ASSUME StagesAssumption ==
  /\ Files \subseteq Seq(Seq(STRING))
  /\ \A f \in Files : \A l \in DOMAIN f :
       LET w == Words(f[l])
       IN  \A i \in DOMAIN w : w[i] \in KeyWords => i < Len(w) /\ Number(w[i + 1])
  /\ Pids \subseteq Nat \ {0, 1} /\ MainPids \subseteq Pids

VARIABLES
  file,     \* the configuration file
  config,   \* vConfig
  pc,       \* where a process is
  router,   \* its object of class cRouter
  frame,    \* local variables: rou1Addr, sockID (of the stage functions), i
  lastPid,  \* the number the system gave out last
  inbox,    \* receive buffers, by port
  captive,  \* ports in /tmp/captive.conf, R0 first
  logs,     \* who has written which log file
  faults    \* history: what has gone wrong

vars == <<file, config, pc, router, frame, lastPid, inbox, captive, logs, faults>>

None == <<>>   \* no socket
Port(p) == <<p, router[p].iConfigReg>>   \* a port p has not had before

Stage(p) == router[p].iStage
IsPrimary(p) == router[p].iFPID # 0

Put(f, x, y) == [z \in DOMAIN f \cup {x} |-> IF z = x THEN y ELSE f[z]]

\* std::map iterates in the order of its keys
Ordered(f) ==
  LET keys == Ascending(DOMAIN f) IN [i \in DOMAIN keys |-> f[keys[i]]]

Go(p, at) == pc' = [pc EXCEPT ![p] = at]

\* cRouter::close
Close(p) == logs' = logs \cup {[stage |-> Stage(p), id |-> router[p].iRouterID, by |-> p]}

-----------------------------------------------------------------------------
(* stageEngine *)

NeededShort(s) ==   \* mutant: stage 4 is taken for one without drop_after
  IF s <= 4 THEN 2 ELSE IF s <= 10 THEN 3 ELSE 1

\* The values a stage takes from the file, its number included (stageToCase).
Needed(s) == IF s <= 3 THEN 2 ELSE IF s <= 10 THEN 3 ELSE 1

\* The values come in the order of the file, whatever their words.  Past the
\* end of the file nextConfig returns 0, and vConfig[-1] is read.
StageEngine(p) ==
  /\ pc[p] = "engine"
  /\ LET reg == router[p].iConfigReg
     IN  /\ reg <= Len(config)
         /\ LET s == config[reg].value
                n == Needed(s)
            IN  IF reg + n - 1 > Len(config)
                THEN Go(p, "undefined") /\ UNCHANGED router
                ELSE /\ Go(p, IF s \in 1..10 THEN "bind" ELSE "engine")
                     /\ router' = [router EXCEPT
                          ![p].iConfigReg = reg + n,
                          ![p].iStage = s,
                          ![p].iRouteNum = IF n >= 2 THEN config[reg + 1].value ELSE @,
                          ![p].m_iDropAfter = IF n = 3 THEN config[reg + 2].value ELSE @]
  /\ UNCHANGED <<file, config, frame, lastPid, inbox, captive, logs, faults>>

Quit(p) ==
  /\ pc[p] = "engine" /\ router[p].iConfigReg > Len(config)
  /\ Go(p, "ended")
  /\ UNCHANGED <<file, config, router, frame, lastPid, inbox, captive, logs, faults>>

-----------------------------------------------------------------------------
(* The stages *)

\* A port is found with a socket that is closed again (getDynmcPortSrv), and
\* may be somebody else's when the new socket is bound.  Then bind only logs.
Bind(p) ==
  /\ pc[p] = "bind"
  /\ \/ /\ inbox' = Put(inbox, Port(p), <<>>)
        /\ frame' = [frame EXCEPT ![p] =
             [rou1Addr |-> Port(p), sockID |-> Port(p), i |-> 0]]
        /\ UNCHANGED faults
     \/ /\ faults' = faults \cup {"bind"}
        /\ frame' = [frame EXCEPT ![p] =
             [rou1Addr |-> Port(p), sockID |-> None, i |-> 0]]
        /\ UNCHANGED inbox
  /\ Go(p, "fork")
  /\ UNCHANGED <<file, config, router, lastPid, captive, logs>>

\* Where stage1 is called, by stages 1 to 5, or the for loop of stages 6 to 10
\* ends, a process goes on by its iFPID.  A loop that has no socket, or a
\* primary's loop that looks for more registered ports than there are, reads
\* what it must not.
PortsUsed(s) == IF s = 9 THEN 3 ELSE 2

LoopOrUndefined(r) ==
  IF \/ r.iSockID = None
     \/ /\ r.iFPID # 0 /\ r.iStage >= 6
        /\ Cardinality(DOMAIN r.m_mChildPort) < PortsUsed(r.iStage)
  THEN "undefined" ELSE "loop"

AfterStage1(r) ==
  IF r.iStage = 1 THEN "finish" ELSE LoopOrUndefined(r)

Forks(p) == Stage(p) <= 5 \/ (IsPrimary(p) /\ frame[p].i < router[p].iRouteNum)

\* Process numbers are given out upwards, and from the start when the last one
\* is reached.
IsNextPid(q) ==
  LET free == {o \in Pids : pc[o] = "none"}
      above == {o \in free : o > lastPid}
      next == IF above = {} THEN free ELSE above
  IN  q \in next /\ \A o \in next : q <= o

\* The child has a copy of everything.  The parent waits for its registration.
Fork(p) ==
  /\ pc[p] = "fork" /\ Forks(p)
  /\ \E q \in Pids :
       /\ IsNextPid(q)
       /\ lastPid' = q
       /\ pc' = [pc EXCEPT ![p] = "receive", ![q] = "register"]
       /\ router' = [router EXCEPT ![q] = router[p],
                       ![p].iFPID = q, ![p].iSockID = frame[p].sockID]
       /\ frame' = [frame EXCEPT ![q] = frame[p]]
       /\ faults' = IF q < lastPid THEN faults \cup {"order"} ELSE faults
  /\ UNCHANGED <<file, config, inbox, captive, logs>>

ForkFails(p) ==
  /\ pc[p] = "fork" /\ Forks(p)
  /\ IF Stage(p) <= 5
     THEN Go(p, AfterStage1(router[p])) /\ UNCHANGED frame
     ELSE frame' = [frame EXCEPT ![p].i = @ + 1] /\ UNCHANGED pc
  /\ faults' = faults \cup {"fork"}
  /\ UNCHANGED <<file, config, router, lastPid, inbox, captive, logs>>

RegisterClosed(p) ==   \* mutant: the child's socket is closed, as the first one
  /\ pc[p] = "register"
  /\ LET to == frame[p].rou1Addr
     IN  inbox' = IF to \in DOMAIN inbox
                  THEN [inbox EXCEPT ![to] = Append(@, [pid |-> p, from |-> Port(p)])]
                  ELSE inbox
  /\ Go(p, "registered")
  /\ UNCHANGED <<file, config, router, frame, lastPid, captive, logs, faults>>

RegisterUnsent(p) ==   \* mutant: the child does not register
  /\ pc[p] = "register"
  /\ inbox' = Put(inbox, Port(p), <<>>)
  /\ Go(p, "registered")
  /\ UNCHANGED <<file, config, router, frame, lastPid, captive, logs, faults>>

\* secondRouter and secondRouter_reqReg: the child sends its number, which
\* gives its socket a port ...
Register(p) ==
  /\ pc[p] = "register"
  /\ LET to == frame[p].rou1Addr
         new == Put(inbox, Port(p), <<>>)
     IN  inbox' = IF to \in DOMAIN inbox
                  THEN [new EXCEPT ![to] = Append(@, [pid |-> p, from |-> Port(p)])]
                  ELSE new
  /\ Go(p, "registered")
  /\ UNCHANGED <<file, config, router, frame, lastPid, captive, logs, faults>>

\* ... and takes over its role.
Become(p, id, sock, fpid) ==
  LET r == [router[p] EXCEPT !.iRouterID = id, !.iSockID = sock, !.iFPID = fpid]
  IN  /\ pc[p] = "registered"
      /\ router' = [router EXCEPT ![p] = r]
      /\ IF Stage(p) <= 5
         THEN Go(p, AfterStage1(r)) /\ UNCHANGED frame
         ELSE /\ Go(p, "fork")
              /\ frame' = [frame EXCEPT ![p].i = @ + 1]
      /\ UNCHANGED <<file, config, lastPid, inbox, captive, logs, faults>>

IdOf(p) == IF Stage(p) <= 5 THEN 1 ELSE frame[p].i + 1

RegisteredFirst(p) == Become(p, 1, Port(p), 0)   \* mutant: as in stage 1

RegisteredNoSock(p) ==   \* mutant: iSockID is not assigned
  Become(p, IdOf(p), router[p].iSockID, 0)

RegisteredSame(p) ==   \* mutant: iFPID is not assigned
  Become(p, IdOf(p), Port(p), router[p].iFPID)

Registered(p) == Become(p, IdOf(p), Port(p), 0)

\* primaryRouter and primaryRouter_reg: the first datagram that comes is taken
\* for the registration.
Receive(p) ==
  /\ pc[p] = "receive"
  /\ LET sock == frame[p].sockID
     IN  /\ sock # None /\ inbox[sock] # <<>>
         /\ inbox' = [inbox EXCEPT ![sock] = Tail(@)]
         /\ LET m == Head(inbox[sock])
            IN  IF Stage(p) <= 5
                THEN Go(p, AfterStage1(router[p])) /\ UNCHANGED <<router, frame>>
                ELSE /\ Go(p, "fork")
                     /\ router' = [router EXCEPT ![p].m_mChildPort =
                                     Put(@, m.pid, m.from)]
                     /\ frame' = [frame EXCEPT ![p].i = @ + 1]
  /\ UNCHANGED <<file, config, lastPid, captive, logs, faults>>

\* Nothing is left to fork; in stages 9 and 10 the primary router saves the
\* ports for the portal.
EnterLoop(p) ==
  /\ pc[p] = "fork" /\ ~Forks(p)
  /\ Go(p, LoopOrUndefined(router[p]))
  /\ captive' = IF IsPrimary(p) /\ Stage(p) \in {9, 10}
                THEN <<frame[p].rou1Addr>> \o Ordered(router[p].m_mChildPort)
                ELSE captive
  /\ UNCHANGED <<file, config, router, frame, lastPid, inbox, logs, faults>>

\* The loop's idle timeout.
Leave(p) ==
  /\ pc[p] = "loop"
  /\ Close(p)
  /\ Go(p, "engine")
  /\ UNCHANGED <<file, config, router, frame, lastPid, inbox, captive, faults>>

\* A system call of the loop fails: exit(1).
Fail(p) ==
  /\ pc[p] = "loop"
  /\ Go(p, "ended")
  /\ faults' = faults \cup {"exit"}
  /\ UNCHANGED <<file, config, router, frame, lastPid, inbox, captive, logs>>

\* The end of stage 1, main.cpp:28-39: the child exits, the parent waits for it.
FinishAll(p) ==   \* mutant: the parent exits as well
  /\ pc[p] = "finish"
  /\ Close(p)
  /\ Go(p, "ended")
  /\ UNCHANGED <<file, config, router, frame, lastPid, inbox, captive, faults>>

Finish(p) ==
  /\ pc[p] = "finish"
  /\ Close(p)
  /\ Go(p, IF IsPrimary(p) THEN "reap" ELSE "ended")
  /\ UNCHANGED <<file, config, router, frame, lastPid, inbox, captive, faults>>

Reap(p) ==
  /\ pc[p] = "reap"
  /\ router[p].iFPID \in Pids => pc[router[p].iFPID] = "ended"
  /\ Go(p, "engine")
  /\ UNCHANGED <<file, config, router, frame, lastPid, inbox, captive, logs, faults>>

-----------------------------------------------------------------------------
\* cRouter::cRouter
NewRouter ==
  [iConfigReg |-> 1, iStage |-> 0, iRouteNum |-> 0, m_iDropAfter |-> 3,
   iFPID |-> 1, iRouterID |-> 0, iSockID |-> None,
   m_mChildPort |-> [q \in {} |-> None]]

NewFrame == [rou1Addr |-> None, sockID |-> None, i |-> 0]

Init ==
  /\ file \in Files
  /\ config = ReadConfigFile(file)
  /\ lastPid \in MainPids
  /\ pc = [p \in Pids |-> IF p = lastPid THEN "engine" ELSE "none"]
  /\ router = [p \in Pids |-> NewRouter]
  /\ frame = [p \in Pids |-> NewFrame]
  /\ inbox = [a \in {} |-> <<>>]
  /\ captive = <<>>
  /\ logs = {}
  /\ faults = {}

Step(p) ==
  \/ StageEngine(p) \/ Quit(p)
  \/ Bind(p) \/ Fork(p) \/ ForkFails(p) \/ EnterLoop(p)
  \/ Register(p) \/ Registered(p) \/ Receive(p)
  \/ Leave(p) \/ Fail(p) \/ Finish(p) \/ Reap(p)

Next == \E p \in Pids : Step(p)

Spec == Init /\ [][Next]_vars

\* Every process is scheduled, and traffic ends, so that loops time out.
FairSpec == Spec /\ \A p \in Pids : WF_vars(Step(p))

-----------------------------------------------------------------------------
(* Properties *)

Phases == {"none", "engine", "bind", "fork", "receive", "register", "registered",
           "loop", "finish", "reap", "ended", "undefined"}

\* The types of cRouter's members; the sockets that processes use are open.
TypeOK ==
  /\ file \in Files
  /\ \A i \in DOMAIN config : config[i].word \in KeyWords /\ config[i].value \in Nat
  /\ pc \in [Pids -> Phases]
  /\ \A p \in Pids :
       /\ router[p].iConfigReg \in 1..Len(config) + 1
       /\ router[p].iStage \in Nat /\ router[p].iRouteNum \in Nat
       /\ router[p].m_iDropAfter \in Nat
       /\ router[p].iFPID \in Pids \cup {0, 1}
       /\ router[p].iRouterID \in Nat
       /\ router[p].iSockID \in DOMAIN inbox \cup {None}
       /\ frame[p].sockID \in DOMAIN inbox \cup {None}
       /\ \A q \in DOMAIN router[p].m_mChildPort :
            q \in Pids /\ router[p].m_mChildPort[q] \in DOMAIN inbox
  /\ \A a \in DOMAIN inbox : a \in Pids \X (1..Len(config) + 1)
  /\ \A a \in DOMAIN inbox : \A i \in DOMAIN inbox[a] : inbox[a][i].pid \in Pids

StagesIn(c) == {i \in DOMAIN c : c[i].word = "stage"}
SizeOf(s) == IF s <= 3 THEN 2 ELSE 3

\* A file as jin_dou_test_config_file1 to 9, but of any number of stages: all
\* values are there, in the order in which they are read, and the stage has the
\* routers it uses.
WellFormed(c) ==
  /\ \A i \in DOMAIN c : \E j \in StagesIn(c) : i \in j..j + SizeOf(c[j].value) - 1
  /\ \A i \in StagesIn(c) :
       /\ c[i].value \in 1..10
       /\ i + SizeOf(c[i].value) - 1 <= Len(c)
       /\ c[i + 1].word = "num_routers"
       /\ c[i].value > 3 => c[i + 2].word = "drop_after"
       /\ c[i].value > 5 => c[i + 1].value >= PortsUsed(c[i].value)

\* Stages 1 to 5 fork without looking who they are: only stage 1, whose child
\* exits, may come before them.
Sequential(c) ==
  \A i, j \in StagesIn(c) : c[i].value \in 1..5 /\ j < i => c[j].value = 1

MultiForkStages(c) == {i \in StagesIn(c) : c[i].value > 5}

Sound == WellFormed(config) /\ Sequential(config)

InLoop(p) == pc[p] = "loop" /\ IsPrimary(p)

Registrar(p) == InLoop(p) /\ Stage(p) >= 6

\* With a complete file, as long as fork and bind succeed, nothing undefined is
\* done: no value is read from before the file, no port from behind the map, no
\* socket is used that is none (cRouter.cpp:384, RouterPrim.cpp:748, 1517).
NothingUndefined ==
  WellFormed(config) /\ faults \cap {"fork", "bind"} = {} =>
    \A p \in Pids : pc[p] # "undefined"

\* f says word v, not in a comment.
Says(f, word, v) ==
  \E l \in DOMAIN f : \E i, j \in DOMAIN f[l] :
    /\ i < j /\ f[l][i] = word /\ f[l][j] = ToString(v)
    /\ \A k \in i+1..j-1 : f[l][k] = " "
    /\ \A k \in 1..j : f[l][k] # "#"

\* The words of the file are not looked at after readConfigFile: each process,
\* parent or child, still takes its values from one stage of the file, as the
\* file says them (cRouter.cpp:355-392, 437-455).
ReadAsWritten ==
  WellFormed(config) =>
    \A p \in Pids : Stage(p) # 0 =>
      \E i \in StagesIn(config) :
        /\ Stage(p) = config[i].value /\ Says(file, "stage", Stage(p))
        /\ router[p].iConfigReg = i + SizeOf(Stage(p))
        /\ router[p].iRouteNum = config[i + 1].value
        /\ Says(file, "num_routers", router[p].iRouteNum)
        /\ Stage(p) > 3 => router[p].m_iDropAfter = config[i + 2].value

\* Children go on to the file's next stage (main.cpp:18): yet only one process
\* acts as the primary router, and reads the tunnel, at a time.
OnePrimary == Sound => \A p, q \in Pids : InLoop(p) /\ InLoop(q) => p = q

\* Whatever fails, each port the primary router of stages 6 to 10 uses is the
\* one its secondary reads, also when later stages inherit the ports of
\* earlier ones (RouterPrim.cpp:2758).
PortsAreRead ==
  Sound =>
    \A p \in Pids : Registrar(p) =>
      \A q \in DOMAIN router[p].m_mChildPort :
        \/ pc[q] = "registered"
        \/ ~IsPrimary(q) /\ router[q].iSockID = router[p].m_mChildPort[q]

\* The primary router tells R1, R2 and R3 by the order of their process numbers,
\* they themselves, and so the address they send from, by the order of their
\* creation: these agree if the file has one stage with several routers, no fork
\* fails and process numbers have not wrapped round (RouterPrim.cpp:745-749,
\* RouterSecond.cpp:622-637).  /tmp/captive.conf has the same order.
RightWayOut ==
  /\ Sound /\ Cardinality(MultiForkStages(config)) = 1
  /\ faults \cap {"fork", "order"} = {}
  => \A p \in Pids : Registrar(p) =>
       LET child == Ascending(DOMAIN router[p].m_mChildPort)
       IN  \A n \in 1..PortsUsed(Stage(p)) :
             \/ pc[child[n]] = "registered"
             \/ /\ router[child[n]].iRouterID = n
                /\ Stage(p) \in {9, 10} =>
                     captive[n + 1] = router[child[n]].iSockID

\* No process overwrites the log file of another, if at most one stage of the
\* file keeps its processes (cRouter.cpp:461-464).
OwnLogs ==
  /\ Sound
  /\ \A i, j \in StagesIn(config) :
       config[i].value # 1 /\ config[j].value # 1 => i = j
  /\ \A i, j \in StagesIn(config) : config[i].value = config[j].value => i = j
  => \A k, l \in logs : k.stage = l.stage /\ k.id = l.id => k.by = l.by

\* Nobody waits for ever, neither for a registration (RouterPrim.cpp:2754) nor
\* for a child (main.cpp:36), unless the primary's port could not be bound.
Terminates ==
  <>(\/ "bind" \in faults
     \/ \A p \in Pids : pc[p] \in {"none", "ended", "undefined"})

\* Every stage of the file is run, to the end, by a primary router.
EveryStageRuns ==
  Sound =>
    <>(\/ faults \cap {"bind", "fork", "exit"} # {}
       \/ \A i \in StagesIn(config) :
            \E l \in logs : l.stage = config[i].value /\ l.id = 0)
=============================================================================
