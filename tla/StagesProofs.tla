----------------------------- MODULE StagesProofs -----------------------------
(***************************************************************************)
(* Theorems about Stages, for every set of configuration files, every set  *)
(* of process numbers and whatever number the program is started with.     *)
(*                                                                         *)
(*   ConfigProperties  the file's entries, in their order                  *)
(*   Shape             the types                                           *)
(*   Registration      a parent that waits has one child to wait for, and  *)
(*                     nothing else comes to its port                      *)
(*   Placed            a process has the values of one stage of the file   *)
(*   Sane, Finite      what a loop needs is there                          *)
(*   OneRoot           one process is the primary router, the others that  *)
(*                     have started do not fork                            *)
(*   Read              the ports of a process have their readers           *)
(*   Ranking, Saved    children are numbered in their order                *)
(*   Distinct          no two processes have one stage and one number      *)
(***************************************************************************)
EXTENDS Stages, SequenceProofs, FiniteSetTheorems

\* The numbers of a finite set have one ascending order, in which all occur.
LEMMA AscendingProperties ==
  ASSUME NEW S, S \subseteq Nat, IsFiniteSet(S)
  PROVE  LET s == Ascending(S)
             n == Cardinality(S)
         IN  /\ s \in [1..n -> S] /\ n \in Nat
             /\ \A i, j \in 1..n : i < j => s[i] < s[j]
             /\ \A x \in S : \E i \in 1..n : s[i] = x
<1>. DEFINE Sorts(s, R, n) == /\ s \in [1..n -> R]
                              /\ \A i, j \in 1..n : i < j => s[i] < s[j]
            Sortable(R) == \E s : Sorts(s, R, Cardinality(R))
            T == {n \in Nat : \E R \in SUBSET Nat :
                    IsFiniteSet(R) /\ Cardinality(R) = n /\ ~Sortable(R)}
<1>1. T = {}
  <2>1. SUFFICES ASSUME T # {} PROVE FALSE
    OBVIOUS
  <2>2. PICK n \in T : \A m \in T : n <= m
    <3>. HIDE DEF Sortable
    <3>1. T \subseteq Nat
      OBVIOUS
    <3>. QED
      BY <2>1, <3>1, LeastNatural
  <2>3. PICK R \in SUBSET Nat : IsFiniteSet(R) /\ Cardinality(R) = n /\ ~Sortable(R)
    BY Zenon
  <2>4. n \in Nat
    BY <2>2
  <2>5. CASE R = {}
    <3>1. n = 0
      BY <2>3, <2>5, FS_EmptySet
    <3>2. Sorts([i \in 1..0 |-> 0], R, 0)
      OBVIOUS
    <3>. QED
      BY <2>3, <3>1, <3>2
  <2>6. CASE R # {}
    <3>1. PICK m \in R : \A x \in R : m <= x
      BY <2>3, <2>6, LeastNatural
    <3>2. /\ IsFiniteSet(R \ {m}) /\ Cardinality(R \ {m}) = n - 1
          /\ n - 1 \in Nat
      <4>1. IsFiniteSet(R \ {m}) /\ Cardinality(R \ {m}) = n - 1
        BY <2>3, <3>1, FS_RemoveElement
      <4>2. Cardinality(R \ {m}) \in Nat
        BY <4>1, FS_CardinalityType
      <4>. QED
        BY <4>1, <4>2
    <3>3. n - 1 \notin T
      BY <2>2, <2>4, <3>2
    <3>4. Sortable(R \ {m})
      <4>. HIDE DEF Sortable
      <4>1. R \ {m} \in SUBSET Nat
        BY <2>3
      <4>. QED
        BY <3>2, <3>3, <4>1
    <3>5. PICK t : Sorts(t, R \ {m}, n - 1)
      BY <3>2, <3>4
    <3>. DEFINE s == [i \in 1..n |-> IF i = 1 THEN m ELSE t[i-1]]
    <3>6. \A i \in 1..n : i # 1 => i - 1 \in 1..n-1
      BY <2>4
    <3>7. s \in [1..n -> R]
      BY <3>1, <3>5, <3>6
    <3>8. ASSUME NEW i \in 1..n, NEW j \in 1..n, i < j
          PROVE  s[i] < s[j]
      <4>1. j # 1 /\ s[j] = t[j-1] /\ j - 1 \in 1..n-1 /\ t[j-1] \in R \ {m}
        BY <3>5, <3>6, <3>8
      <4>2. CASE i = 1
        <5>1. s[i] = m /\ m \in Nat
          BY <4>2, <2>3, <3>1
        <5>2. \A x \in R \ {m} : x \in Nat /\ m <= x /\ m # x
          BY <2>3, <3>1
        <5>3. t[j-1] \in Nat /\ m <= t[j-1] /\ m # t[j-1]
          BY <4>1, <5>2
        <5>. HIDE DEF s
        <5>. QED
          BY <4>1, <5>1, <5>3
      <4>3. CASE i # 1
        BY <3>5, <3>6, <3>8, <4>1, <4>3
      <4>. QED
        BY <4>2, <4>3
    <3>. HIDE DEF s
    <3>9. Sorts(s, R, n)
      BY <3>7, <3>8
    <3>. QED
      BY <2>3, <3>9
  <2>. QED
    BY <2>5, <2>6
<1>. DEFINE s == Ascending(S)
            n == Cardinality(S)
<1>2. n \in Nat
  BY FS_CardinalityType
<1>3. Sortable(S)
  <2>. HIDE DEF Sortable
  <2>. QED
    BY <1>1, <1>2
<1>4. Sorts(s, S, n)
  BY <1>3 DEF Ascending
<1>. HIDE DEF s, n
<1>5. s \in Injection(1..n, S)
  <2>1. \A i, j \in 1..n : i # j => s[i] < s[j] \/ s[j] < s[i]
    BY <1>2, <1>4
  <2>2. \A i \in 1..n : s[i] \in Nat
    BY <1>4
  <2>3. \A i, j \in 1..n : s[i] = s[j] => i = j
    BY <2>1, <2>2
  <2>. QED
    BY <1>4, <2>3 DEF Injection, IsInjective
<1>6. Cardinality(1..n) = n
  BY <1>2, FS_Interval
<1>7. s \in Surjection(1..n, S)
  BY <1>5, <1>6, FS_Injection DEF n
<1>8. \A x \in S : \E i \in 1..n : s[i] = x
  BY <1>7 DEF Surjection
<1>. QED
  BY <1>2, <1>4, <1>8 DEF s, n

-----------------------------------------------------------------------------
(* The configuration file *)

\* The elements of vConfig that file f can give rise to.
Entries(f) == {e \in [word : KeyWords, value : 0..11] : Says(f, e.word, e.value)}

LEMMA WordsProperties ==
  ASSUME NEW line \in Seq(STRING)
  PROVE  \E n \in Nat : \E at \in [1..n -> DOMAIN line] :
           /\ Words(line) = [k \in 1..n |-> line[at[k]]]
           /\ \A k \in 1..n : \A j \in 1..at[k] : line[j] # "#"
           /\ \A k \in 1..n-1 : at[k] < at[k+1]
           /\ \A k \in 1..n-1 : \A j \in at[k]+1..at[k+1]-1 : line[j] = " "
<1>. DEFINE S == {i \in DOMAIN line : line[i] # " " /\ \A j \in 1..i : line[j] # "#"}
            at == Ascending(S)
            n == Cardinality(S)
<1>1. DOMAIN line = 1..Len(line) /\ Len(line) \in Nat
  OBVIOUS
<1>2. S \subseteq 1..Len(line) /\ S \subseteq Nat /\ IsFiniteSet(S)
  <2>0. S \subseteq DOMAIN line
    BY Zenon
  <2>1. S \in SUBSET (1..Len(line)) /\ S \subseteq Nat
    <3>. HIDE DEF S
    <3>. QED
      BY <1>1, <2>0
  <2>2. IsFiniteSet(1..Len(line))
    BY <1>1, FS_Interval
  <2>. HIDE DEF S
  <2>. QED
    BY <2>1, <2>2, FS_Subset
<1>. HIDE DEF S
<1>3. /\ at \in [1..n -> S] /\ n \in Nat
      /\ \A i, j \in 1..n : i < j => at[i] < at[j]
      /\ \A x \in S : \E i \in 1..n : at[i] = x
  BY <1>2, AscendingProperties
<1>. HIDE DEF at, n
<1>4. Words(line) = [k \in 1..n |-> line[at[k]]]
  <2>1. Words(line) = [k \in DOMAIN at |-> line[at[k]]]
    BY Zenon DEF Words, at, S
  <2>2. DOMAIN at = 1..n
    BY <1>3
  <2>. QED
    BY <2>1, <2>2
<1>5. at \in [1..n -> DOMAIN line]
  BY <1>1, <1>2, <1>3
<1>6. \A k \in 1..n : \A j \in 1..at[k] : line[j] # "#"
  BY <1>3 DEF S
<1>7. ASSUME NEW k \in 1..n-1
      PROVE  /\ at[k] < at[k+1]
             /\ \A j \in at[k]+1..at[k+1]-1 : line[j] = " "
  <2>1. k \in 1..n /\ k+1 \in 1..n /\ k < k+1
    BY <1>3
  <2>2. at[k] < at[k+1] /\ at[k] \in Nat /\ at[k+1] \in 1..Len(line)
    BY <1>2, <1>3, <2>1
  <2>3. ASSUME NEW j \in at[k]+1..at[k+1]-1, line[j] # " "
        PROVE  FALSE
    <3>1. j \in 1..Len(line) /\ at[k] < j /\ j < at[k+1]
      BY <1>1, <2>2
    <3>2. j \in S
      <4>1. \A i \in 1..at[k+1] : line[i] # "#"
        BY <1>6, <2>1
      <4>2. \A i \in 1..j : i \in 1..at[k+1]
        BY <2>2, <3>1
      <4>. QED
        BY <1>1, <2>3, <3>1, <4>1, <4>2 DEF S
    <3>3. PICK i \in 1..n : at[i] = j
      BY <1>3, <3>2
    <3>4. i <= k \/ k + 1 <= i
      BY <1>3
    <3>5. i = k \/ i < k \/ i = k + 1 \/ k + 1 < i
      BY <1>3, <3>4
    <3>6. at[i] = at[k] \/ at[i] < at[k] \/ at[i] = at[k+1] \/ at[k+1] < at[i]
      BY <1>3, <2>1, <3>5
    <3>. QED
      BY <3>1, <3>3, <3>6, <2>2
  <2>. QED
    BY <2>2, <2>3
<1>. QED
  BY <1>3, <1>4, <1>5, <1>6, <1>7

LEMMA NumberProperties ==
  ASSUME NEW t, Number(t)
  PROVE  stoi(t) \in 0..11 /\ ToString(stoi(t)) = t
BY Zenon DEF Number, stoi

\* Every value taken from a line stands behind its keyword.
LEMMA LineProperties ==
  ASSUME NEW f \in Files, NEW l \in DOMAIN f
  PROVE  ValuesOf(Words(f[l])) \in Seq(Entries(f))
<1>. DEFINE line == f[l]
            w == Words(line)
            S == {i \in DOMAIN w : w[i] \in KeyWords}
            to == Ascending(S)
            m == Cardinality(S)
            e == [k \in 1..m |-> [word |-> w[to[k]], value |-> stoi(w[to[k] + 1])]]
<1>1. f \in Seq(Seq(STRING)) /\ line \in Seq(STRING)
  BY StagesAssumption
<1>2. \A i \in DOMAIN w : w[i] \in KeyWords => i < Len(w) /\ Number(w[i + 1])
  BY StagesAssumption
<1>. HIDE DEF w
<1>3. PICK n \in Nat : \E at \in [1..n -> DOMAIN line] :
           /\ w = [k \in 1..n |-> line[at[k]]]
           /\ \A k \in 1..n : \A j \in 1..at[k] : line[j] # "#"
           /\ \A k \in 1..n-1 : at[k] < at[k+1]
           /\ \A k \in 1..n-1 : \A j \in at[k]+1..at[k+1]-1 : line[j] = " "
  <2>. HIDE DEF line
  <2>. QED
    BY <1>1, WordsProperties, Zenon DEF w
<1>4. PICK at \in [1..n -> DOMAIN line] :
           /\ w = [k \in 1..n |-> line[at[k]]]
           /\ \A k \in 1..n : \A j \in 1..at[k] : line[j] # "#"
           /\ \A k \in 1..n-1 : at[k] < at[k+1]
           /\ \A k \in 1..n-1 : \A j \in at[k]+1..at[k+1]-1 : line[j] = " "
  BY <1>3, Zenon
<1>5. DOMAIN w = 1..n /\ Len(w) = n /\ \A k \in 1..n : w[k] = line[at[k]]
  <2>1. DOMAIN w = 1..n /\ \A k \in 1..n : w[k] = line[at[k]]
    BY <1>4
  <2>. DEFINE V == {w[k] : k \in 1..n}
  <2>2. w \in [1..n -> V]
    BY <1>4
  <2>. HIDE DEF V, line
  <2>3. w \in Seq(V)
    BY <2>2
  <2>5. Len(w) \in Nat /\ DOMAIN w = 1..Len(w)
    BY <2>3
  <2>. QED
    BY <2>1, <2>5
<1>6. S \subseteq 1..n /\ S \subseteq Nat /\ IsFiniteSet(S)
  <2>1. S \in SUBSET (1..n) /\ S \subseteq Nat
    BY <1>5
  <2>2. IsFiniteSet(1..n)
    BY FS_Interval
  <2>. HIDE DEF S
  <2>. QED
    BY <2>1, <2>2, FS_Subset
<1>. HIDE DEF line
<1>7. /\ to \in [1..m -> S] /\ m \in Nat
  <2>. HIDE DEF S
  <2>. QED
    BY <1>6, AscendingProperties
<1>. HIDE DEF to, m
<1>8. ASSUME NEW k \in 1..m
      PROVE  /\ [word |-> w[to[k]], value |-> stoi(w[to[k] + 1])] \in Entries(f)
  <2>. DEFINE i == to[k]
              v == stoi(w[i+1])
  <2>1. i \in 1..n /\ w[i] \in KeyWords
    BY <1>5, <1>7
  <2>2. i + 1 \in 1..n /\ i \in 1..n-1 /\ Number(w[i+1])
    BY <1>2, <1>5, <2>1
  <2>. HIDE DEF i
  <2>3. v \in 0..11 /\ ToString(v) = w[i+1]
    BY <2>2, NumberProperties
  <2>. HIDE DEF v
  <2>4. at[i] \in DOMAIN f[l] /\ at[i+1] \in DOMAIN f[l]
    BY <1>4, <2>1, <2>2 DEF line
  <2>5. /\ at[i] < at[i+1]
        /\ f[l][at[i]] = w[i] /\ f[l][at[i+1]] = ToString(v)
        /\ \A j \in at[i]+1..at[i+1]-1 : f[l][j] = " "
        /\ \A j \in 1..at[i+1] : f[l][j] # "#"
    BY <1>4, <1>5, <2>1, <2>2, <2>3 DEF line
  <2>6. Says(f, w[i], v)
    BY <2>4, <2>5, Zenon DEF Says
  <2>7. [word |-> w[i], value |-> v] \in Entries(f)
    BY <2>1, <2>3, <2>6 DEF Entries
  <2>. QED
    BY <2>7 DEF i, v
<1>9. ValuesOf(w) = e
  <2>1. ValuesOf(w) = [k \in DOMAIN to |-> [word |-> w[to[k]], value |-> stoi(w[to[k] + 1])]]
    BY Zenon DEF ValuesOf, to
  <2>2. DOMAIN to = 1..m
    BY <1>7
  <2>. QED
    BY <2>1, <2>2
<1>. QED
  BY <1>7, <1>8, <1>9 DEF w, line

\* What readConfigFile makes of a file.
LEMMA ConfigProperties ==
  ASSUME NEW f \in Files
  PROVE  ReadConfigFile(f) \in Seq(Entries(f))
<1>. DEFINE parts == [l \in DOMAIN f |-> ValuesOf(Words(f[l]))]
<1>1. f \in Seq(Seq(STRING)) /\ DOMAIN f = 1..Len(f) /\ Len(f) \in Nat
  BY StagesAssumption
<1>2. \A l \in DOMAIN f : ValuesOf(Words(f[l])) \in Seq(Entries(f))
  BY LineProperties
<1>3. parts \in Seq(Seq(Entries(f)))
  BY <1>1, <1>2
<1>. HIDE DEF parts
<1>4. FlattenSeq(parts) \in Seq(Entries(f))
  BY <1>3, FlattenProperties
<1>. QED
  BY <1>4 DEF ReadConfigFile, parts

-----------------------------------------------------------------------------
(* Types.  A set of open ports is a parameter of the types, so that they grow *)
(* with it.                                                                   *)

Ports(c) == Pids \X (1..Len(c) + 1)

PortMaps(open) == UNION {[D -> open] : D \in SUBSET Pids}

Routers(c, open) ==
  [iConfigReg : 1..Len(c) + 1, iStage : 0..11, iRouteNum : 0..11,
   m_iDropAfter : 0..11, iFPID : Pids \cup {0, 1}, iRouterID : Nat,
   iSockID : open \cup {None}, m_mChildPort : PortMaps(open)]

Frames(c, open) ==
  [rou1Addr : Ports(c) \cup {None}, sockID : open \cup {None}, i : Nat]

Messages(open) == [pid : Pids, from : open]

Shape ==
  /\ file \in Files
  /\ config = ReadConfigFile(file)
  /\ pc \in [Pids -> Phases]
  /\ router \in [Pids -> Routers(config, DOMAIN inbox)]
  /\ frame \in [Pids -> Frames(config, DOMAIN inbox)]
  /\ inbox \in [DOMAIN inbox -> Seq(Messages(DOMAIN inbox))]
  /\ DOMAIN inbox \subseteq Ports(config)
  /\ \A p \in Pids : pc[p] = "registered" => Port(p) \in DOMAIN inbox

LEMMA Growing ==
  ASSUME NEW c, NEW open, NEW more, open \subseteq more
  PROVE  /\ Routers(c, open) \subseteq Routers(c, more)
         /\ Frames(c, open) \subseteq Frames(c, more)
         /\ Seq(Messages(open)) \subseteq Seq(Messages(more))
<1>1. PortMaps(open) \subseteq PortMaps(more)
  BY DEF PortMaps
<1>2. Routers(c, open) \subseteq Routers(c, more)
  BY <1>1 DEF Routers
<1>3. Frames(c, open) \subseteq Frames(c, more)
  BY DEF Frames
<1>4. Messages(open) \subseteq Messages(more)
  BY DEF Messages
<1>5. Seq(Messages(open)) \subseteq Seq(Messages(more))
  BY <1>4
<1>. QED
  BY <1>2, <1>3, <1>5

\* A port is no None.
LEMMA PortIsSome ==
  ASSUME NEW c, NEW a \in Ports(c)
  PROVE  a # None
BY SMTT(30) DEF Ports, None

LEMMA ShapeFacts ==
  ASSUME Shape
  PROVE  /\ config \in Seq(Entries(file))
         /\ \A k \in 1..Len(config) : config[k].word \in KeyWords /\ config[k].value \in 0..11
         /\ Len(config) \in Nat /\ DOMAIN config = 1..Len(config)
         /\ \A p \in Pids : Port(p) \in Ports(config) /\ Port(p) # None
<1>1. config \in Seq(Entries(file))
  BY ConfigProperties DEF Shape
<1>2. Len(config) \in Nat /\ DOMAIN config = 1..Len(config)
  BY <1>1
<1>3. \A k \in 1..Len(config) : config[k] \in Entries(file)
  BY <1>1, ElementOfSeq
<1>4. \A e \in Entries(file) : e.word \in KeyWords /\ e.value \in 0..11
  BY DEF Entries
<1>5. \A p \in Pids : router[p].iConfigReg \in 1..Len(config) + 1
  BY DEF Shape, Routers
<1>6. \A p \in Pids : Port(p) \in Ports(config)
  BY <1>5 DEF Port, Ports
<1>. QED
  BY <1>1, <1>2, <1>3, <1>4, <1>6, PortIsSome

\* The loop counter of a stage function.
LEMMA NextFrame ==
  ASSUME Shape, NEW p \in Pids
  PROVE  [frame EXCEPT ![p].i = @ + 1] \in [Pids -> Frames(config, DOMAIN inbox)]
<1>1. frame[p] \in Frames(config, DOMAIN inbox)
  BY DEF Shape
<1>2. [frame[p] EXCEPT !.i = @ + 1] \in Frames(config, DOMAIN inbox)
  <2>. DEFINE x == frame[p]
              A == Ports(config) \cup {None}
              B == DOMAIN inbox \cup {None}
  <2>1. x \in [rou1Addr : A, sockID : B, i : Nat]
    BY <1>1 DEF Frames
  <2>. HIDE DEF x, A, B
  <2>2. [x EXCEPT !.i = @ + 1] \in [rou1Addr : A, sockID : B, i : Nat]
    BY <2>1
  <2>. QED
    BY <2>2 DEF x, A, B, Frames
<1>. QED
  BY <1>2 DEF Shape

LEMMA ShapeInit == Init => Shape
<1>. SUFFICES ASSUME Init PROVE Shape
  OBVIOUS
<1>1. file \in Files /\ config = ReadConfigFile(file)
  BY DEF Init
<1>2. DOMAIN inbox = {} /\ inbox = [a \in {} |-> <<>>]
  BY DEF Init
<1>3. Len(config) \in Nat
  BY <1>1, ConfigProperties
<1>4. pc \in [Pids -> Phases] /\ \A p \in Pids : pc[p] # "registered"
  BY DEF Init, Phases
<1>5. NewRouter \in Routers(config, {})
  BY <1>3 DEF NewRouter, Routers, PortMaps, None
<1>6. NewFrame \in Frames(config, {})
  BY <1>3 DEF NewFrame, Frames, None
<1>. QED
  BY <1>1, <1>2, <1>4, <1>5, <1>6 DEF Init, Shape

LEMMA ShapeStep == Shape /\ [Next]_vars => Shape'
<1>. SUFFICES ASSUME Shape, [Next]_vars PROVE Shape'
  OBVIOUS
<1>. DEFINE O == DOMAIN inbox
<1>. USE ShapeFacts
<1>0. UNCHANGED vars => Shape'
  BY DEF vars, Shape, Port
<1>1. ASSUME NEW p \in Pids, StageEngine(p)
      PROVE  Shape'
  <2>. DEFINE reg == router[p].iConfigReg
              s == config[reg].value
              n == Needed(s)
  <2>1. /\ pc[p] = "engine" /\ UNCHANGED <<file, config, frame, inbox>>
        /\ reg <= Len(config)
    BY <1>1 DEF StageEngine
  <2>2. reg \in 1..Len(config) /\ s \in 0..11 /\ n \in 1..3
    BY <2>1 DEF Shape, Routers, Needed
  <2>3. pc' \in [Pids -> Phases] /\ \A q \in Pids : pc'[q] = "registered" => q # p /\ pc[q] = "registered"
    BY <1>1 DEF StageEngine, Go, Shape, Phases
  <2>4. router' \in [Pids -> Routers(config, O)]
    <3>1. CASE reg + n - 1 > Len(config)
      BY <3>1, <1>1 DEF StageEngine, Shape
    <3>2. CASE ~(reg + n - 1 > Len(config))
      <4>. DEFINE r == [router[p] EXCEPT
                          !.iConfigReg = reg + n,
                          !.iStage = s,
                          !.iRouteNum = IF n >= 2 THEN config[reg + 1].value ELSE @,
                          !.m_iDropAfter = IF n = 3 THEN config[reg + 2].value ELSE @]
      <4>1. router' = [router EXCEPT ![p] = r]
        BY <3>2, <1>1 DEF StageEngine, Shape
      <4>2. reg + n \in 1..Len(config) + 1
        BY <3>2, <2>2
      <4>3. /\ n >= 2 => config[reg + 1].value \in 0..11
            /\ n = 3 => config[reg + 2].value \in 0..11
        BY <3>2, <2>2
      <4>4. r \in Routers(config, O)
        <5>. DEFINE b == IF n >= 2 THEN config[reg + 1].value ELSE router[p].iRouteNum
                    d == IF n = 3 THEN config[reg + 2].value ELSE router[p].m_iDropAfter
                    e == reg + n
        <5>1. router[p] \in Routers(config, O)
          BY DEF Shape
        <5>2. b \in 0..11 /\ d \in 0..11 /\ s \in 0..11 /\ e \in 1..Len(config) + 1
          BY <5>1, <2>2, <4>2, <4>3 DEF Routers
        <5>3. r = [router[p] EXCEPT !.iConfigReg = e, !.iStage = s, !.iRouteNum = b,
                                    !.m_iDropAfter = d]
          BY <5>1 DEF Routers
        <5>. HIDE DEF b, d, s, r, e
        <5>. QED
          BY <5>1, <5>2, <5>3 DEF Routers
      <4>. QED
        BY <4>1, <4>4 DEF Shape
    <3>. QED
      BY <3>1, <3>2
  <2>5. \A q \in Pids : q # p => router'[q] = router[q]
    BY <1>1 DEF StageEngine, Shape
  <2>. QED
    BY <2>1, <2>3, <2>4, <2>5 DEF Shape, Port
<1>2. ASSUME NEW p \in Pids, Quit(p)
      PROVE  Shape'
  BY <1>2 DEF Quit, Go, Shape, Phases, Port
<1>3. ASSUME NEW p \in Pids, Bind(p)
      PROVE  Shape'
  <2>1. UNCHANGED <<file, config, router>> /\ pc' = [pc EXCEPT ![p] = "fork"]
    BY <1>3 DEF Bind, Go
  <2>2. CASE /\ inbox' = Put(inbox, Port(p), <<>>)
             /\ frame' = [frame EXCEPT ![p] =
                  [rou1Addr |-> Port(p), sockID |-> Port(p), i |-> 0]]
    <3>1. DOMAIN inbox' = O \cup {Port(p)} /\ O \subseteq DOMAIN inbox'
      BY <2>2 DEF Put
    <3>2. inbox' \in [DOMAIN inbox' -> Seq(Messages(DOMAIN inbox'))]
      <4>1. <<>> \in Seq(Messages(DOMAIN inbox'))
        OBVIOUS
      <4>2. \A a \in O : inbox[a] \in Seq(Messages(DOMAIN inbox'))
        BY <3>1, Growing DEF Shape
      <4>. QED
        BY <4>1, <4>2, <2>2, <3>1 DEF Put
    <3>3. frame' \in [Pids -> Frames(config, DOMAIN inbox')]
      <4>1. frame \in [Pids -> Frames(config, DOMAIN inbox')]
        BY <3>1, Growing DEF Shape
      <4>. QED
        BY <4>1, <2>2, <3>1 DEF Frames
    <3>4. router \in [Pids -> Routers(config, DOMAIN inbox')]
      BY <3>1, Growing DEF Shape
    <3>. QED
      BY <2>1, <3>1, <3>2, <3>3, <3>4 DEF Shape, Phases, Port
  <2>3. CASE /\ frame' = [frame EXCEPT ![p] =
                  [rou1Addr |-> Port(p), sockID |-> None, i |-> 0]]
             /\ UNCHANGED inbox
    <3>1. frame' \in [Pids -> Frames(config, O)]
      BY <2>3 DEF Frames, Shape
    <3>. QED
      BY <2>1, <2>3, <3>1 DEF Shape, Phases, Port
  <2>. QED
    BY <1>3, <2>2, <2>3 DEF Bind
<1>4. ASSUME NEW p \in Pids, Fork(p)
      PROVE  Shape'
  <2>1. PICK q \in Pids :
          /\ IsNextPid(q)
          /\ pc' = [pc EXCEPT ![p] = "receive", ![q] = "register"]
          /\ router' = [router EXCEPT ![q] = router[p],
                          ![p].iFPID = q, ![p].iSockID = frame[p].sockID]
          /\ frame' = [frame EXCEPT ![q] = frame[p]]
    BY <1>4 DEF Fork
  <2>2. UNCHANGED <<file, config, inbox>> /\ pc[p] = "fork" /\ q # p
    BY <1>4, <2>1 DEF Fork, IsNextPid
  <2>3. router' \in [Pids -> Routers(config, O)]
    <3>1. [router[p] EXCEPT !.iFPID = q, !.iSockID = frame[p].sockID] \in Routers(config, O)
      BY ZenonT(30) DEF Shape, Routers, Frames
    <3>2. router' = [router EXCEPT ![q] = router[p],
                       ![p] = [router[p] EXCEPT !.iFPID = q, !.iSockID = frame[p].sockID]]
      BY <2>1, <2>2 DEF Shape
    <3>. QED
      BY <3>1, <3>2 DEF Shape
  <2>4. frame' \in [Pids -> Frames(config, O)]
    BY <2>1 DEF Shape
  <2>5. \A o \in Pids : pc'[o] = "registered" => pc[o] = "registered" /\ router'[o] = router[o]
    BY <2>1 DEF Shape
  <2>6. pc' \in [Pids -> Phases]
    BY <2>1 DEF Shape, Phases
  <2>. QED
    BY <2>2, <2>3, <2>4, <2>5, <2>6 DEF Shape, Port
<1>5. ASSUME NEW p \in Pids, ForkFails(p)
      PROVE  Shape'
  <2>1. UNCHANGED <<file, config, router, inbox>>
    BY <1>5 DEF ForkFails
  <2>2. frame' \in [Pids -> Frames(config, O)]
    <3>1. frame' \in {frame, [frame EXCEPT ![p].i = @ + 1]}
      BY <1>5 DEF ForkFails
    <3>. QED
      BY <3>1, NextFrame DEF Shape
  <2>3. pc' \in [Pids -> Phases] /\ \A q \in Pids : pc'[q] = "registered" => pc[q] = "registered"
    BY <1>5 DEF ForkFails, Go, AfterStage1, LoopOrUndefined, Shape, Phases
  <2>. QED
    BY <2>1, <2>2, <2>3 DEF Shape, Port
<1>6. ASSUME NEW p \in Pids, Register(p)
      PROVE  Shape'
  <2>. DEFINE to == frame[p].rou1Addr
              new == Put(inbox, Port(p), <<>>)
              m == [pid |-> p, from |-> Port(p)]
              M == O \cup {Port(p)}
  <2>1. /\ pc' = [pc EXCEPT ![p] = "registered"]
        /\ inbox' = IF to \in O THEN [new EXCEPT ![to] = Append(@, m)] ELSE new
        /\ UNCHANGED <<file, config, router, frame>>
    BY <1>6 DEF Register, Go
  <2>2. DOMAIN new = M /\ O \subseteq M
    BY DEF Put
  <2>3. new \in [M -> Seq(Messages(M))]
    <3>1. <<>> \in Seq(Messages(M))
      OBVIOUS
    <3>2. \A a \in O : inbox[a] \in Seq(Messages(M))
      <4>. HIDE DEF M
      <4>. QED
        BY <2>2, Growing, ZenonT(30) DEF Shape
    <3>. QED
      BY <3>1, <3>2 DEF Put
  <2>4. m \in Messages(M)
    BY DEF Messages
  <2>. HIDE DEF new, m, M
  <2>5. inbox' \in [M -> Seq(Messages(M))] /\ DOMAIN inbox' = M
    <3>1. CASE to \in O
      <4>1. Append(new[to], m) \in Seq(Messages(M))
        BY <2>2, <2>3, <2>4, <3>1
      <4>. QED
        BY <2>1, <2>3, <3>1, <4>1
    <3>2. CASE to \notin O
      BY <2>1, <2>3, <3>2
    <3>. QED
      BY <3>1, <3>2
  <2>6. /\ router \in [Pids -> Routers(config, M)]
        /\ frame \in [Pids -> Frames(config, M)]
    BY <2>2, Growing DEF Shape
  <2>. QED
    BY <2>1, <2>5, <2>6 DEF Shape, Phases, Port, M
<1>7. ASSUME NEW p \in Pids, Registered(p)
      PROVE  Shape'
  <2>. DEFINE r == [router[p] EXCEPT !.iRouterID = IdOf(p), !.iSockID = Port(p), !.iFPID = 0]
  <2>1. /\ pc[p] = "registered" /\ router' = [router EXCEPT ![p] = r]
        /\ UNCHANGED <<file, config, inbox>>
    BY <1>7 DEF Registered, Become
  <2>2. frame' \in [Pids -> Frames(config, O)]
    <3>1. frame' \in {frame, [frame EXCEPT ![p].i = @ + 1]}
      BY <1>7 DEF Registered, Become
    <3>. QED
      BY <3>1, NextFrame DEF Shape
  <2>3. pc' \in [Pids -> Phases] /\ \A q \in Pids : pc'[q] = "registered" => q # p /\ pc[q] = "registered"
    BY <1>7 DEF Registered, Become, Go, AfterStage1, LoopOrUndefined, Shape, Phases
  <2>4. IdOf(p) \in Nat
    BY DEF IdOf, Shape, Frames
  <2>5. r \in Routers(config, O)
    BY <2>1, <2>4, ZenonT(30) DEF Shape, Routers
  <2>6. router' \in [Pids -> Routers(config, O)]
    BY <2>1, <2>5 DEF Shape
  <2>7. \A q \in Pids : q # p => router'[q] = router[q]
    BY <2>1 DEF Shape
  <2>. QED
    BY <2>1, <2>2, <2>3, <2>6, <2>7 DEF Shape, Port
<1>8. ASSUME NEW p \in Pids, Receive(p)
      PROVE  Shape'
  <2>. DEFINE sock == frame[p].sockID
  <2>1. /\ sock # None /\ inbox[sock] # <<>>
        /\ inbox' = [inbox EXCEPT ![sock] = Tail(@)]
        /\ UNCHANGED <<file, config>>
    BY <1>8 DEF Receive
  <2>2. sock \in O /\ inbox[sock] \in Seq(Messages(O))
    BY <2>1 DEF Shape, Frames
  <2>3. Tail(inbox[sock]) \in Seq(Messages(O)) /\ Head(inbox[sock]) \in Messages(O)
    BY <2>1, <2>2, HeadTailProperties
  <2>4. DOMAIN inbox' = O /\ inbox' \in [O -> Seq(Messages(O))]
    BY <2>1, <2>3 DEF Shape
  <2>5. frame' \in [Pids -> Frames(config, O)]
    <3>1. frame' \in {frame, [frame EXCEPT ![p].i = @ + 1]}
      BY <1>8 DEF Receive
    <3>. QED
      BY <3>1, NextFrame DEF Shape
  <2>6. pc' \in [Pids -> Phases] /\ \A q \in Pids : pc'[q] = "registered" => q # p /\ pc[q] = "registered"
    BY <1>8 DEF Receive, Go, AfterStage1, LoopOrUndefined, Shape, Phases
  <2>7. PICK m \in Messages(O) : m = Head(inbox[sock])
    BY <2>3
  <2>8. /\ router' \in [Pids -> Routers(config, O)]
        /\ \A q \in Pids : q # p => router'[q] = router[q]
    <3>1. CASE UNCHANGED router
      BY <3>1 DEF Shape
    <3>2. CASE router' = [router EXCEPT ![p].m_mChildPort = Put(@, m.pid, m.from)]
      <4>1. Put(router[p].m_mChildPort, m.pid, m.from) \in PortMaps(O)
        <5>1. m.pid \in Pids /\ m.from \in O
          BY DEF Messages
        <5>2. router[p].m_mChildPort \in PortMaps(O)
          BY DEF Shape, Routers
        <5>3. PICK D \in SUBSET Pids : router[p].m_mChildPort \in [D -> O]
          BY <5>2 DEF PortMaps
        <5>4. Put(router[p].m_mChildPort, m.pid, m.from) \in [D \cup {m.pid} -> O]
          BY <5>1, <5>3 DEF Put
        <5>5. D \cup {m.pid} \in SUBSET Pids
          BY <5>1
        <5>. QED
          BY <5>4, <5>5 DEF PortMaps
      <4>2. [router[p] EXCEPT !.m_mChildPort = Put(@, m.pid, m.from)] \in Routers(config, O)
        BY <4>1, ZenonT(30) DEF Shape, Routers
      <4>. QED
        BY <3>2, <4>2 DEF Shape
    <3>. QED
      BY <1>8, <2>7, <3>1, <3>2 DEF Receive
  <2>. QED
    BY <2>1, <2>4, <2>5, <2>6, <2>8 DEF Shape, Port
<1>9. ASSUME NEW p \in Pids, EnterLoop(p)
      PROVE  Shape'
  BY <1>9 DEF EnterLoop, Go, LoopOrUndefined, Shape, Phases, Port
<1>10. ASSUME NEW p \in Pids, Leave(p) \/ Fail(p) \/ Finish(p) \/ Reap(p)
       PROVE  Shape'
  BY <1>10 DEF Leave, Fail, Finish, Reap, Go, Shape, Phases, Port
<1>. QED
  BY <1>0, <1>1, <1>2, <1>3, <1>4, <1>5, <1>6, <1>7, <1>8, <1>9, <1>10 DEF Next, Step

-----------------------------------------------------------------------------
(* Registration: ports, and who waits for whom at them                      *)

New == {"none", "register"}

Children(p) == DOMAIN router[p].m_mChildPort

Fresh ==
  \A p \in Pids, k \in 1..Len(config) + 1 : <<p, k>> \in DOMAIN inbox =>
    /\ pc[p] \notin New
    /\ k <= router[p].iConfigReg
    /\ pc[p] = "bind" => k < router[p].iConfigReg

Known ==
  \A p \in Pids : \A q \in Children(p) : pc[q] \notin New

MayFork(p) == Stage(p) <= 5 \/ IsPrimary(p)

Bound ==
  \A p \in Pids : pc[p] = "fork" /\ MayFork(p) =>
    /\ frame[p].rou1Addr = Port(p)
    /\ frame[p].sockID \in {None, Port(p)}
    /\ Port(p) \in DOMAIN inbox => inbox[Port(p)] = <<>>

Awaits(p, q) ==
  /\ q \in Pids \ Children(p) /\ q # p
  /\ frame[p].rou1Addr = Port(p)
  /\ frame[p].sockID \in {None, Port(p)}
  /\ router[p].iSockID = frame[p].sockID
  /\ \/ /\ pc[q] = "register"
        /\ frame[q].rou1Addr = Port(p)
        /\ router[q].iConfigReg = router[p].iConfigReg
        /\ Port(p) \in DOMAIN inbox => inbox[Port(p)] = <<>>
     \/ /\ pc[q] \notin New
        /\ Port(p) \in DOMAIN inbox =>
             inbox[Port(p)] = <<[pid |-> q, from |-> <<q, router[p].iConfigReg>>]>>

Waiting ==
  \A p \in Pids : \A q : pc[p] = "receive" /\ router[p].iFPID = q => Awaits(p, q)

Own ==
  \A q \in Pids : pc[q] = "register" =>
    \E p \in Pids :
      pc[p] = "receive" /\ router[p].iFPID = q /\ frame[q].rou1Addr = Port(p)

Registration == Fresh /\ Known /\ Bound /\ Waiting /\ Own

\* A step of p that touches no port and no registration.
Quiet(p) ==
  /\ inbox' = inbox /\ config' = config
  /\ \A q \in Pids \ {p} :
       router'[q] = router[q] /\ frame'[q] = frame[q] /\ pc'[q] = pc[q]
  /\ {pc[p], pc'[p]} \cap {"none", "register", "receive"} = {}
  /\ router'[p].m_mChildPort = router[p].m_mChildPort
  /\ router'[p].iConfigReg \in Nat
  /\ router'[p].iConfigReg >= router[p].iConfigReg
  /\ pc'[p] = "bind" => router'[p].iConfigReg > router[p].iConfigReg
  /\ pc'[p] = "fork" /\ MayFork(p)' =>
       /\ pc[p] = "fork" /\ MayFork(p)
       /\ router'[p].iConfigReg = router[p].iConfigReg
       /\ frame'[p].rou1Addr = frame[p].rou1Addr
       /\ frame'[p].sockID = frame[p].sockID

LEMMA QuietSteps ==
  ASSUME Shape, NEW p \in Pids,
         \/ StageEngine(p) \/ Quit(p) \/ ForkFails(p) \/ Registered(p)
         \/ EnterLoop(p) \/ Leave(p) \/ Fail(p) \/ Finish(p) \/ Reap(p)
  PROVE  Quiet(p)
<1>0. /\ pc \in [Pids -> Phases] /\ router \in [Pids -> Routers(config, DOMAIN inbox)]
      /\ frame \in [Pids -> Frames(config, DOMAIN inbox)]
  BY DEF Shape
<1>1. router[p].iConfigReg \in Nat
  BY ShapeFacts, <1>0 DEF Routers
<1>2. CASE StageEngine(p)
  <2>. DEFINE reg == router[p].iConfigReg
              n == Needed(config[reg].value)
  <2>1. n \in 1..3
    <3>1. reg \in 1..Len(config)
      <4>1. reg \in 1..Len(config) + 1
        BY <1>0 DEF Routers
      <4>2. reg <= Len(config)
        BY <1>2 DEF StageEngine
      <4>. QED
        BY <4>1, <4>2, ShapeFacts
    <3>2. config[reg].value \in 0..11
      BY <3>1, ShapeFacts
    <3>. QED
      BY <3>2 DEF Needed
  <2>2. /\ pc[p] = "engine" /\ pc'[p] \in {"engine", "bind", "undefined"}
        /\ \A q \in Pids \ {p} : pc'[q] = pc[q]
        /\ inbox' = inbox /\ config' = config /\ frame' = frame
    BY <1>0, <1>2 DEF StageEngine, Go
  <2>3. /\ \A q \in Pids \ {p} : router'[q] = router[q]
        /\ router'[p].m_mChildPort = router[p].m_mChildPort
        /\ \/ pc'[p] = "undefined" /\ router'[p].iConfigReg = reg
           \/ router'[p].iConfigReg = reg + n
    <3>1. \/ pc' = [pc EXCEPT ![p] = "undefined"] /\ router' = router
          \/ router' = [router EXCEPT
               ![p].iConfigReg = reg + n,
               ![p].iStage = config[reg].value,
               ![p].iRouteNum = IF n >= 2 THEN config[reg + 1].value ELSE @,
               ![p].m_iDropAfter = IF n = 3 THEN config[reg + 2].value ELSE @]
      BY <1>2 DEF StageEngine, Go
    <3>2. CASE pc' = [pc EXCEPT ![p] = "undefined"] /\ router' = router
      BY <1>0, <3>2
    <3>. HIDE DEF n, reg
    <3>. QED
      BY <1>0, <3>1, <3>2 DEF Routers
  <2>. HIDE DEF n, reg
  <2>5. /\ router'[p].iConfigReg \in Nat
        /\ router'[p].iConfigReg >= reg
        /\ pc'[p] = "bind" => router'[p].iConfigReg > reg
    BY <1>1, <2>1, <2>3 DEF reg
  <2>. QED
    BY <2>2, <2>3, <2>5 DEF Quiet, reg
<1>3. CASE ForkFails(p)
  <2>1. /\ pc[p] = "fork" /\ pc'[p] \in {"fork", "finish", "loop", "undefined"}
        /\ \A q \in Pids \ {p} : pc'[q] = pc[q]
        /\ inbox' = inbox /\ config' = config /\ router' = router
    BY <1>0, <1>3 DEF ForkFails, Go, AfterStage1, LoopOrUndefined
  <2>2. /\ \A q \in Pids \ {p} : frame'[q] = frame[q]
        /\ frame'[p].rou1Addr = frame[p].rou1Addr
        /\ frame'[p].sockID = frame[p].sockID
    BY <1>0, <1>3 DEF ForkFails, Frames
  <2>3. MayFork(p)' = MayFork(p)
    BY <2>1 DEF MayFork, Stage, IsPrimary
  <2>. QED
    BY <1>1, <2>1, <2>2, <2>3 DEF Quiet
<1>4. CASE Registered(p)
  <2>1. /\ pc[p] = "registered" /\ pc'[p] \in {"fork", "finish", "loop", "undefined"}
        /\ \A q \in Pids \ {p} : pc'[q] = pc[q]
        /\ inbox' = inbox /\ config' = config
        /\ pc'[p] = "fork" => ~(Stage(p) <= 5)
    BY <1>0, <1>4 DEF Registered, Become, Go, AfterStage1, LoopOrUndefined
  <2>2. \A q \in Pids \ {p} : frame'[q] = frame[q]
    BY <1>0, <1>4 DEF Registered, Become, Frames
  <2>3. /\ \A q \in Pids \ {p} : router'[q] = router[q]
        /\ router'[p].m_mChildPort = router[p].m_mChildPort
        /\ router'[p].iConfigReg = router[p].iConfigReg
        /\ router'[p].iStage = router[p].iStage
        /\ router'[p].iFPID = 0
    BY <1>0, <1>4 DEF Registered, Become, Routers
  <2>4. pc'[p] = "fork" => ~MayFork(p)'
    BY <2>1, <2>3 DEF MayFork, Stage, IsPrimary
  <2>. QED
    BY <1>1, <2>1, <2>2, <2>3, <2>4 DEF Quiet
<1>5. CASE EnterLoop(p)
  <2>1. /\ pc[p] = "fork" /\ pc'[p] \in {"loop", "undefined"}
        /\ \A q \in Pids \ {p} : pc'[q] = pc[q]
        /\ inbox' = inbox /\ config' = config /\ router' = router /\ frame' = frame
    BY <1>0, <1>5 DEF EnterLoop, Go, LoopOrUndefined
  <2>. QED
    BY <1>1, <2>1 DEF Quiet
<1>6. CASE Quit(p) \/ Leave(p) \/ Fail(p) \/ Finish(p) \/ Reap(p)
  <2>1. /\ pc[p] \in {"engine", "loop", "finish", "reap"}
        /\ pc'[p] \in {"ended", "engine", "reap"}
        /\ \A q \in Pids \ {p} : pc'[q] = pc[q]
        /\ inbox' = inbox /\ config' = config /\ router' = router /\ frame' = frame
    BY <1>0, <1>6 DEF Quit, Leave, Fail, Finish, Reap, Go
  <2>. QED
    BY <1>1, <2>1 DEF Quiet
<1>. QED
  BY <1>2, <1>3, <1>4, <1>5, <1>6

LEMMA ChildrenType ==
  ASSUME Shape, NEW p \in Pids
  PROVE  Children(p) \subseteq Pids
BY DEF Shape, Routers, PortMaps, Children

LEMMA RegistrationQuiet ==
  ASSUME Shape, Registration, NEW p \in Pids, Quiet(p)
  PROVE  Registration'
<1>. USE DEF Registration
<1>0. /\ \A q \in Pids : Children(q)' = Children(q)
      /\ \A q \in Pids : pc'[q] \in New <=> pc[q] \in New
      /\ \A q \in Pids : pc'[q] = "register" <=> pc[q] = "register"
      /\ \A q \in Pids : pc'[q] = "receive" <=> pc[q] = "receive"
      /\ \A q \in Pids \ {p} : router'[q] = router[q] /\ frame'[q] = frame[q] /\ pc'[q] = pc[q]
      /\ inbox' = inbox /\ config' = config
  BY DEF Quiet, Children, New
<1>00. \A q \in Pids : router[q].iConfigReg \in Nat
  BY ShapeFacts DEF Shape, Routers
<1>1. Fresh'
  <2>. SUFFICES ASSUME NEW q \in Pids, NEW k \in 1..Len(config) + 1, <<q, k>> \in DOMAIN inbox
                PROVE  /\ pc'[q] \notin New
                       /\ k <= router'[q].iConfigReg
                       /\ pc'[q] = "bind" => k < router'[q].iConfigReg
    BY <1>0 DEF Fresh
  <2>1. /\ pc[q] \notin New
        /\ k <= router[q].iConfigReg
        /\ pc[q] = "bind" => k < router[q].iConfigReg
    BY DEF Fresh
  <2>2. k \in Nat
    BY ShapeFacts
  <2>3. CASE q # p
    BY <2>1, <2>3, <1>0
  <2>4. CASE q = p
    <3>1. /\ router'[p].iConfigReg \in Nat
          /\ router'[p].iConfigReg >= router[p].iConfigReg
          /\ pc'[p] = "bind" => router'[p].iConfigReg > router[p].iConfigReg
      BY DEF Quiet
    <3>. QED
      BY <2>1, <2>2, <2>4, <1>0, <1>00, <3>1
  <2>. QED
    BY <2>3, <2>4
<1>2. Known'
  BY <1>0, ChildrenType DEF Known
<1>3. Bound'
  <2>. SUFFICES ASSUME NEW q \in Pids, pc'[q] = "fork", MayFork(q)'
                PROVE  /\ frame'[q].rou1Addr = Port(q)'
                       /\ frame'[q].sockID \in {None, Port(q)'}
                       /\ Port(q)' \in DOMAIN inbox => inbox[Port(q)'] = <<>>
    BY <1>0 DEF Bound
  <2>1. pc[q] = "fork" /\ MayFork(q) /\ Port(q)' = Port(q)
        /\ frame'[q].rou1Addr = frame[q].rou1Addr
        /\ frame'[q].sockID = frame[q].sockID
    BY <1>0 DEF Quiet, Port, MayFork, Stage, IsPrimary
  <2>. QED
    BY <2>1 DEF Bound
<1>4. Waiting'
  <2>. SUFFICES ASSUME NEW q \in Pids, NEW o, pc'[q] = "receive", router'[q].iFPID = o
                PROVE  Awaits(q, o)'
    BY DEF Waiting
  <2>1. q # p /\ pc[q] = "receive" /\ router'[q] = router[q] /\ frame'[q] = frame[q]
    BY <1>0 DEF Quiet
  <2>3. Awaits(q, o)
    BY <2>1 DEF Waiting
  <2>4. pc[o] = "register" => frame'[o] = frame[o] /\ router'[o] = router[o]
    BY <1>0, <2>3 DEF Quiet, Awaits
  <2>5. Port(q)' = Port(q) /\ Children(q)' = Children(q)
    BY <2>1 DEF Port, Children
  <2>6. o \in Pids
    BY <2>3 DEF Awaits
  <2>7. Awaits(q, o)'
    BY <2>1, <2>3, <2>4, <2>5, <2>6, <1>0 DEF Awaits
  <2>. QED
    BY <2>7
<1>5. Own'
  <2>. SUFFICES ASSUME NEW q \in Pids, pc'[q] = "register"
                PROVE  \E o \in Pids : /\ pc'[o] = "receive" /\ router'[o].iFPID = q
                                       /\ frame'[q].rou1Addr = Port(o)'
    BY DEF Own
  <2>1. PICK o \in Pids : pc[o] = "receive" /\ router[o].iFPID = q /\ frame[q].rou1Addr = Port(o)
    BY <1>0 DEF Own
  <2>2. o # p /\ q # p
    BY <2>1, <1>0 DEF Quiet
  <2>. QED
    BY <2>1, <2>2, <1>0 DEF Port
<1>. QED
  BY <1>1, <1>2, <1>3, <1>4, <1>5

LEMMA RegistrationBind ==
  ASSUME Shape, Registration, NEW p \in Pids, Bind(p)
  PROVE  Registration'
<1>. USE DEF Registration
<1>1. /\ pc[p] = "bind" /\ pc'[p] = "fork" /\ \A q \in Pids \ {p} : pc'[q] = pc[q]
      /\ config' = config /\ router' = router
      /\ frame'[p].rou1Addr = Port(p) /\ frame'[p].sockID \in {None, Port(p)}
      /\ \A q \in Pids \ {p} : frame'[q] = frame[q]
  BY DEF Bind, Go, Shape
<1>2. /\ DOMAIN inbox' \subseteq DOMAIN inbox \cup {Port(p)}
      /\ \A a \in DOMAIN inbox' : a # Port(p) => inbox'[a] = inbox[a]
      /\ Port(p) \in DOMAIN inbox' => Port(p) \in DOMAIN inbox \/ inbox'[Port(p)] = <<>>
  <2>1. CASE inbox' = Put(inbox, Port(p), <<>>)
    <3>1. DOMAIN inbox' = DOMAIN inbox \cup {Port(p)} /\ inbox'[Port(p)] = <<>>
      BY <2>1 DEF Put
    <3>2. \A a \in DOMAIN inbox : a # Port(p) => inbox'[a] = inbox[a]
      BY <2>1 DEF Put
    <3>. QED
      BY <3>1, <3>2
  <2>2. CASE inbox' = inbox
    BY <2>2
  <2>. QED
    BY <2>1, <2>2 DEF Bind
<1>3. /\ \A q \in Pids : Children(q)' = Children(q) /\ Port(q)' = Port(q)
      /\ \A q \in Pids : q # p => Port(q) # Port(p)
      /\ \A q \in Pids : pc'[q] \in New <=> pc[q] \in New
      /\ \A q \in Pids : pc'[q] = "register" <=> pc[q] = "register"
  BY <1>1 DEF Children, Port, New
<1>4. Port(p) \notin DOMAIN inbox
  <2>1. router[p].iConfigReg \in 1..Len(config) + 1 /\ router[p].iConfigReg \in Nat
    BY ShapeFacts DEF Shape, Routers
  <2>. QED
    BY <1>1, <2>1 DEF Fresh, Port
<1>5. Fresh'
  <2>. SUFFICES ASSUME NEW q \in Pids, NEW k \in 1..Len(config) + 1, <<q, k>> \in DOMAIN inbox'
                PROVE  /\ pc'[q] \notin New
                       /\ k <= router[q].iConfigReg
                       /\ pc'[q] = "bind" => k < router[q].iConfigReg
    BY <1>1 DEF Fresh
  <2>1. CASE <<q, k>> \in DOMAIN inbox
    BY <2>1, <1>1, <1>3 DEF Fresh
  <2>2. CASE <<q, k>> = Port(p)
    <3>1. q = p /\ k = router[p].iConfigReg
      BY <2>2 DEF Port
    <3>2. router[p].iConfigReg \in Nat
      BY ShapeFacts DEF Shape, Routers
    <3>. QED
      BY <3>1, <3>2, <1>1 DEF New
  <2>. QED
    BY <1>2, <2>1, <2>2
<1>6. Known'
  BY <1>3, ChildrenType DEF Known
<1>7. Bound'
  <2>. SUFFICES ASSUME NEW q \in Pids, pc'[q] = "fork", MayFork(q)
                PROVE  /\ frame'[q].rou1Addr = Port(q)
                       /\ frame'[q].sockID \in {None, Port(q)}
                       /\ Port(q) \in DOMAIN inbox' => inbox'[Port(q)] = <<>>
    BY <1>1, <1>3 DEF Bound, MayFork, Stage, IsPrimary
  <2>1. CASE q = p
    BY <2>1, <1>1, <1>2, <1>4
  <2>2. CASE q # p
    BY <2>2, <1>1, <1>2, <1>3 DEF Bound
  <2>. QED
    BY <2>1, <2>2
<1>8. Waiting'
  <2>. SUFFICES ASSUME NEW q \in Pids, NEW o, pc'[q] = "receive", router'[q].iFPID = o
                PROVE  Awaits(q, o)'
    BY DEF Waiting
  <2>1. q # p /\ pc[q] = "receive" /\ frame'[q] = frame[q]
    BY <1>1
  <2>2. Awaits(q, o)
    BY <1>1, <2>1 DEF Waiting
  <2>3. Awaits(q, o) /\ o \in Pids
    BY <2>2 DEF Awaits
  <2>4. pc[o] = "register" => frame'[o] = frame[o]
    BY <1>1, <2>3
  <2>5. Port(q) \in DOMAIN inbox' => Port(q) \in DOMAIN inbox /\ inbox'[Port(q)] = inbox[Port(q)]
    BY <2>1, <1>2, <1>3
  <2>7. Awaits(q, o)'
    BY <2>1, <2>3, <2>4, <2>5, <1>1, <1>3 DEF Awaits
  <2>. QED
    BY <1>1, <2>2, <2>7
<1>9. Own'
  BY <1>1, <1>3 DEF Own
<1>. QED
  BY <1>5, <1>6, <1>7, <1>8, <1>9

LEMMA RegistrationFork ==
  ASSUME Shape, Registration, NEW p \in Pids, Fork(p)
  PROVE  Registration'
<1>. USE DEF Registration
<1>1. PICK q \in Pids :
        /\ IsNextPid(q)
        /\ pc' = [pc EXCEPT ![p] = "receive", ![q] = "register"]
        /\ router' = [router EXCEPT ![q] = router[p],
                        ![p].iFPID = q, ![p].iSockID = frame[p].sockID]
        /\ frame' = [frame EXCEPT ![q] = frame[p]]
  BY DEF Fork
<1>2. /\ inbox' = inbox /\ config' = config /\ pc[p] = "fork" /\ pc[q] = "none" /\ q # p
      /\ Forks(p)
  BY <1>1 DEF Fork, IsNextPid
<1>3. /\ pc'[p] = "receive" /\ pc'[q] = "register"
      /\ \A o \in Pids \ {p, q} : pc'[o] = pc[o] /\ router'[o] = router[o] /\ frame'[o] = frame[o]
      /\ router'[q] = router[p] /\ frame'[q] = frame[p] /\ frame'[p] = frame[p]
  BY <1>1, <1>2 DEF Shape
<1>4. /\ router'[p].iFPID = q /\ router'[p].iSockID = frame[p].sockID
      /\ router'[p].m_mChildPort = router[p].m_mChildPort
      /\ router'[p].iConfigReg = router[p].iConfigReg
  BY <1>1, <1>2 DEF Shape, Routers
<1>5. /\ frame[p].rou1Addr = Port(p) /\ frame[p].sockID \in {None, Port(p)}
      /\ Port(p) \in DOMAIN inbox => inbox[Port(p)] = <<>>
  BY <1>2 DEF Bound, Forks, MayFork
<1>6. /\ \A o \in Pids \ {q} : Children(o)' = Children(o) /\ Port(o)' = Port(o)
      /\ Children(q)' = Children(p)
      /\ \A o \in Pids \ {q} : pc'[o] \in New <=> pc[o] \in New
      /\ pc[q] \in New
      /\ \A o \in Pids \ {q} : pc'[o] = "register" <=> pc[o] = "register"
  BY <1>2, <1>3, <1>4 DEF Children, Port, New
<1>7. Fresh'
  BY <1>2, <1>3, <1>4, <1>6 DEF Fresh, New
<1>8. Known'
  BY <1>6, ChildrenType DEF Known
<1>9. Bound'
  <2>. SUFFICES ASSUME NEW o \in Pids, pc'[o] = "fork", MayFork(o)'
                PROVE  /\ frame'[o].rou1Addr = Port(o)'
                       /\ frame'[o].sockID \in {None, Port(o)'}
                       /\ Port(o)' \in DOMAIN inbox => inbox[Port(o)'] = <<>>
    BY <1>2 DEF Bound
  <2>1. o \notin {p, q} /\ pc[o] = "fork" /\ MayFork(o) /\ frame'[o] = frame[o] /\ Port(o)' = Port(o)
    BY <1>3, <1>6 DEF MayFork, Stage, IsPrimary
  <2>. QED
    BY <2>1 DEF Bound
<1>10. Waiting'
  <2>. SUFFICES ASSUME NEW o \in Pids, NEW x, pc'[o] = "receive", router'[o].iFPID = x
                PROVE  Awaits(o, x)'
    BY DEF Waiting
  <2>1. CASE o = p
    <3>1. q \notin Children(p)
      BY <1>6 DEF Known
    <3>2. Awaits(p, q)'
      BY <1>2, <1>3, <1>4, <1>5, <1>6, <3>1 DEF Awaits
    <3>. QED
      BY <2>1, <3>2, <1>4
  <2>2. CASE o # p
    <3>1. o \notin {p, q} /\ pc[o] = "receive" /\ frame'[o] = frame[o] /\ router'[o] = router[o]
          /\ Port(o)' = Port(o) /\ Children(o)' = Children(o)
      BY <2>2, <1>3, <1>6
    <3>3. Awaits(o, x)
      BY <3>1 DEF Waiting
    <3>4. x # q
      BY <1>2, <3>3 DEF Awaits, New
    <3>5. x \in Pids /\ (pc[x] = "register" => x # p)
      BY <1>2, <3>3 DEF Awaits
    <3>. QED
      BY <1>2, <1>3, <1>6, <3>1, <3>3, <3>4, <3>5 DEF Awaits
  <2>. QED
    BY <2>1, <2>2
<1>11. Own'
  <2>. SUFFICES ASSUME NEW o \in Pids, pc'[o] = "register"
                PROVE  \E x \in Pids : /\ pc'[x] = "receive" /\ router'[x].iFPID = o
                                       /\ frame'[o].rou1Addr = Port(x)'
    BY DEF Own
  <2>1. CASE o = q
    BY <2>1, <1>2, <1>3, <1>4, <1>5, <1>6
  <2>2. CASE o # q
    <3>1. o # p /\ pc[o] = "register" /\ frame'[o] = frame[o]
      BY <2>2, <1>3
    <3>2. PICK x \in Pids : pc[x] = "receive" /\ router[x].iFPID = o /\ frame[o].rou1Addr = Port(x)
      BY <3>1 DEF Own
    <3>. QED
      BY <3>1, <3>2, <1>2, <1>3, <1>6
  <2>. QED
    BY <2>1, <2>2
<1>. QED
  BY <1>7, <1>8, <1>9, <1>10, <1>11

LEMMA RegistrationRegister ==
  ASSUME Shape, Registration, NEW p \in Pids, Register(p)
  PROVE  Registration'
<1>. USE DEF Registration
<1>. DEFINE m == [pid |-> p, from |-> Port(p)]
            to == frame[p].rou1Addr
            new == Put(inbox, Port(p), <<>>)
<1>1. /\ pc[p] = "register" /\ pc'[p] = "registered"
      /\ \A q \in Pids \ {p} : pc'[q] = pc[q]
      /\ UNCHANGED <<config, router, frame>>
  BY DEF Register, Go, Shape
<1>2. PICK o \in Pids : pc[o] = "receive" /\ router[o].iFPID = p /\ to = Port(o)
  BY <1>1 DEF Own
<1>3. /\ \A q \in Pids : Children(q)' = Children(q) /\ Port(q)' = Port(q)
      /\ \A q, x \in Pids : q # x => Port(q) # Port(x)
      /\ \A q \in Pids : pc'[q] \in New => pc[q] \in New
      /\ o # p
  BY <1>1, <1>2 DEF Children, Port, New
<1>4. Awaits(o, p)
  BY <1>2 DEF Waiting
<1>5. inbox' = IF to \in DOMAIN inbox THEN [new EXCEPT ![to] = Append(@, m)] ELSE new
  BY DEF Register
<1>6. /\ DOMAIN new = DOMAIN inbox \cup {Port(p)}
      /\ \A a \in DOMAIN inbox : a # Port(p) => new[a] = inbox[a]
  BY DEF Put
<1>. HIDE DEF new, m
<1>7. /\ DOMAIN inbox' = DOMAIN inbox \cup {Port(p)}
      /\ \A a \in DOMAIN inbox : a # Port(p) /\ a # Port(o) => inbox'[a] = inbox[a]
      /\ Port(o) \in DOMAIN inbox => inbox'[Port(o)] = Append(inbox[Port(o)], m)
  BY <1>2, <1>3, <1>5, <1>6
<1>8. Port(o) \in DOMAIN inbox => inbox'[Port(o)] = <<[pid |-> p, from |-> <<p, router[o].iConfigReg>>]>>
  <2>1. Port(o) \in DOMAIN inbox => inbox[Port(o)] = <<>>
    BY <1>1, <1>4 DEF Awaits, New
  <2>2. m = [pid |-> p, from |-> <<p, router[o].iConfigReg>>]
    BY <1>1, <1>4 DEF Awaits, New, Port, m
  <2>. QED
    BY <1>7, <2>1, <2>2
<1>9. Fresh'
  <2>. SUFFICES ASSUME NEW q \in Pids, NEW k \in 1..Len(config) + 1, <<q, k>> \in DOMAIN inbox'
                PROVE  /\ pc'[q] \notin New
                       /\ k <= router[q].iConfigReg
                       /\ pc'[q] = "bind" => k < router[q].iConfigReg
    BY <1>1 DEF Fresh
  <2>1. CASE <<q, k>> \in DOMAIN inbox
    BY <2>1, <1>1, <1>3 DEF Fresh
  <2>2. CASE <<q, k>> = Port(p)
    <3>1. q = p /\ k = router[p].iConfigReg
      BY <2>2 DEF Port
    <3>2. router[p].iConfigReg \in Nat
      BY ShapeFacts DEF Shape, Routers
    <3>. QED
      BY <3>1, <3>2, <1>1 DEF New
  <2>. QED
    BY <1>7, <2>1, <2>2
<1>10. Known'
  BY <1>3, ChildrenType DEF Known
<1>11. Bound'
  <2>. SUFFICES ASSUME NEW q \in Pids, pc'[q] = "fork", MayFork(q)
                PROVE  /\ frame[q].rou1Addr = Port(q)
                       /\ frame[q].sockID \in {None, Port(q)}
                       /\ Port(q) \in DOMAIN inbox' => inbox'[Port(q)] = <<>>
    BY <1>1, <1>3 DEF Bound, MayFork, Stage, IsPrimary
  <2>1. q # p /\ q # o /\ pc[q] = "fork"
    BY <1>1, <1>2
  <2>. QED
    BY <2>1, <1>3, <1>7 DEF Bound
<1>12. Waiting'
  <2>. SUFFICES ASSUME NEW q \in Pids, NEW x, pc'[q] = "receive", router'[q].iFPID = x
                PROVE  Awaits(q, x)'
    BY DEF Waiting
  <2>1. q # p /\ pc[q] = "receive" /\ Awaits(q, x) /\ x \in Pids
    BY <1>1 DEF Waiting, Awaits
  <2>2. CASE q = o
    <3>1. x = p /\ pc'[p] \notin New
      BY <2>2, <1>1, <1>2 DEF New
    <3>2. Port(o) # Port(p)
      BY <1>3
    <3>. QED
      BY <2>1, <2>2, <3>1, <3>2, <1>1, <1>3, <1>7, <1>8 DEF Awaits
  <2>3. CASE q # o
    <3>1. x # p
      <4>1. SUFFICES ASSUME x = p PROVE FALSE
        OBVIOUS
      <4>2. frame[p].rou1Addr = Port(q)
        BY <2>1, <4>1, <1>1 DEF Awaits, New
      <4>. QED
        BY <4>2, <1>2, <1>3, <2>3
    <3>2. pc'[x] = pc[x]
      BY <3>1, <2>1, <1>1
    <3>3. Port(q) \in DOMAIN inbox' => Port(q) \in DOMAIN inbox /\ inbox'[Port(q)] = inbox[Port(q)]
      BY <1>3, <1>7, <2>1, <2>3
    <3>. QED
      BY <2>1, <3>2, <3>3, <1>1, <1>3 DEF Awaits
  <2>. QED
    BY <2>2, <2>3
<1>13. Own'
  <2>. SUFFICES ASSUME NEW q \in Pids, pc'[q] = "register"
                PROVE  \E x \in Pids : /\ pc'[x] = "receive" /\ router[x].iFPID = q
                                       /\ frame[q].rou1Addr = Port(x)
    BY <1>1, <1>3 DEF Own
  <2>1. q # p /\ pc[q] = "register"
    BY <1>1
  <2>. QED
    BY <2>1, <1>1 DEF Own
<1>. QED
  BY <1>9, <1>10, <1>11, <1>12, <1>13

\* What a primary that receives has at its port: its child's registration.
LEMMA Received ==
  ASSUME Shape, Registration, NEW p \in Pids, Receive(p)
  PROVE  LET q == router[p].iFPID
         IN  /\ q \in Pids /\ q # p /\ q \notin Children(p) /\ pc[q] \notin New
             /\ frame[p].sockID = Port(p) /\ Port(p) \in DOMAIN inbox
             /\ inbox[Port(p)] = <<[pid |-> q, from |-> <<q, router[p].iConfigReg>>]>>
<1>1. /\ pc[p] = "receive" /\ frame[p].sockID # None /\ inbox[frame[p].sockID] # <<>>
  BY DEF Receive
<1>2. Awaits(p, router[p].iFPID)
  BY <1>1 DEF Registration, Waiting
<1>3. frame[p].sockID = Port(p) /\ Port(p) \in DOMAIN inbox
  BY <1>1, <1>2 DEF Awaits, Shape, Frames
<1>. QED
  BY <1>1, <1>2, <1>3 DEF Awaits

LEMMA RegistrationReceive ==
  ASSUME Shape, Registration, NEW p \in Pids, Receive(p)
  PROVE  Registration'
<1>. USE DEF Registration
<1>1. PICK q : q = router[p].iFPID
  OBVIOUS
<1>2. /\ q \in Pids /\ q # p /\ q \notin Children(p) /\ pc[q] \notin New
      /\ frame[p].sockID = Port(p) /\ Port(p) \in DOMAIN inbox
      /\ inbox[Port(p)] = <<[pid |-> q, from |-> <<q, router[p].iConfigReg>>]>>
  BY <1>1, Received
<1>3. PICK m : m = [pid |-> q, from |-> <<q, router[p].iConfigReg>>]
  OBVIOUS
<1>4. Head(inbox[Port(p)]) = m /\ Tail(inbox[Port(p)]) = <<>>
  BY <1>2, <1>3
<1>5. /\ inbox' = [inbox EXCEPT ![Port(p)] = <<>>]
      /\ pc[p] = "receive" /\ config' = config
  BY <1>2, <1>4 DEF Receive
<1>6. \/ /\ Stage(p) <= 5 /\ pc'[p] \in {"finish", "loop", "undefined"}
         /\ router' = router /\ frame' = frame
      \/ /\ ~(Stage(p) <= 5) /\ pc'[p] = "fork"
         /\ router' = [router EXCEPT ![p].m_mChildPort = Put(@, m.pid, m.from)]
         /\ frame' = [frame EXCEPT ![p].i = @ + 1]
  BY <1>2, <1>4 DEF Receive, Go, AfterStage1, LoopOrUndefined, Shape
<1>7. \A o \in Pids \ {p} : pc'[o] = pc[o]
  BY DEF Receive, Go, AfterStage1, LoopOrUndefined, Shape
<1>8. /\ \A o \in Pids \ {p} : router'[o] = router[o] /\ frame'[o] = frame[o]
      /\ router'[p].iConfigReg = router[p].iConfigReg
      /\ router'[p].iStage = router[p].iStage
      /\ router'[p].iFPID = router[p].iFPID
      /\ frame'[p].rou1Addr = frame[p].rou1Addr
      /\ frame'[p].sockID = frame[p].sockID
  BY <1>6 DEF Shape, Routers, Frames
<1>9. Children(p)' \subseteq Children(p) \cup {q}
  <2>1. CASE router' = router
    BY <2>1 DEF Children
  <2>2. CASE router' = [router EXCEPT ![p].m_mChildPort = Put(@, m.pid, m.from)]
    <3>1. router'[p].m_mChildPort = Put(router[p].m_mChildPort, m.pid, m.from)
      BY <2>2 DEF Shape, Routers
    <3>2. m.pid = q
      BY <1>3
    <3>. QED
      BY <3>1, <3>2 DEF Children, Put
  <2>. QED
    BY <1>6, <2>1, <2>2
<1>10. /\ \A o \in Pids : Port(o)' = Port(o) /\ (o # p => Port(o) # Port(p))
       /\ \A o \in Pids \ {p} : Children(o)' = Children(o)
       /\ \A o \in Pids : pc'[o] \in New <=> pc[o] \in New
       /\ \A o \in Pids : pc'[o] = "register" <=> pc[o] = "register"
       /\ DOMAIN inbox' = DOMAIN inbox
       /\ \A a \in DOMAIN inbox : a # Port(p) => inbox'[a] = inbox[a]
       /\ inbox'[Port(p)] = <<>>
  BY <1>2, <1>5, <1>6, <1>7, <1>8 DEF Children, Port, New
<1>11. Fresh'
  BY <1>5, <1>6, <1>7, <1>8, <1>10 DEF Fresh
<1>12. Known'
  <2>. SUFFICES ASSUME NEW o \in Pids, NEW x \in Children(o)'
                PROVE  pc[x] \notin New /\ x \in Pids
    BY <1>10 DEF Known
  <2>1. CASE x \in Children(o)
    BY <2>1, ChildrenType DEF Known
  <2>2. CASE x = q
    BY <2>2, <1>2
  <2>. QED
    BY <2>1, <2>2, <1>9, <1>10
<1>13. Bound'
  <2>. SUFFICES ASSUME NEW o \in Pids, pc'[o] = "fork", MayFork(o)'
                PROVE  /\ frame'[o].rou1Addr = Port(o)
                       /\ frame'[o].sockID \in {None, Port(o)}
                       /\ Port(o) \in DOMAIN inbox => inbox'[Port(o)] = <<>>
    BY <1>10 DEF Bound
  <2>1. CASE o = p
    <3>1. frame[p].rou1Addr = Port(p)
      BY <1>5 DEF Waiting, Awaits
    <3>. QED
      BY <2>1, <3>1, <1>2, <1>8, <1>10
  <2>2. CASE o # p
    <3>1. pc[o] = "fork" /\ MayFork(o) /\ frame'[o] = frame[o]
      BY <2>2, <1>7, <1>8 DEF MayFork, Stage, IsPrimary
    <3>. QED
      BY <2>2, <3>1, <1>10 DEF Bound
  <2>. QED
    BY <2>1, <2>2
<1>14. Waiting'
  <2>. SUFFICES ASSUME NEW o \in Pids, NEW x, pc'[o] = "receive", router'[o].iFPID = x
                PROVE  Awaits(o, x)'
    BY DEF Waiting
  <2>1. o # p /\ pc[o] = "receive" /\ router'[o] = router[o] /\ frame'[o] = frame[o]
        /\ Children(o)' = Children(o)
    BY <1>6, <1>7, <1>8, <1>10
  <2>2. Awaits(o, x) /\ x \in Pids
    BY <2>1 DEF Waiting, Awaits
  <2>3. pc[x] = "register" => x # p
    BY <1>5
  <2>. QED
    BY <2>1, <2>2, <2>3, <1>7, <1>8, <1>10 DEF Awaits
<1>15. Own'
  <2>. SUFFICES ASSUME NEW x \in Pids, pc'[x] = "register"
                PROVE  \E o \in Pids : /\ pc'[o] = "receive" /\ router'[o].iFPID = x
                                       /\ frame'[x].rou1Addr = Port(o)
    BY <1>10 DEF Own
  <2>1. x # p /\ pc[x] = "register" /\ frame'[x] = frame[x]
    BY <1>6, <1>7, <1>8
  <2>2. PICK o \in Pids : pc[o] = "receive" /\ router[o].iFPID = x /\ frame[x].rou1Addr = Port(o)
    BY <2>1 DEF Own
  <2>3. o # p
    BY <2>1, <2>2, <1>1, <1>2 DEF New
  <2>. QED
    BY <2>1, <2>2, <2>3, <1>7, <1>8
<1>. QED
  BY <1>11, <1>12, <1>13, <1>14, <1>15

LEMMA RegistrationStep == Shape /\ Registration /\ [Next]_vars => Registration'
<1>. SUFFICES ASSUME Shape, Registration, [Next]_vars PROVE Registration'
  OBVIOUS
<1>1. CASE UNCHANGED vars
  BY <1>1 DEF vars, Registration, Fresh, Known, Bound, Waiting, Awaits, Own, Children,
              Port, MayFork, Stage, IsPrimary
<1>2. ASSUME NEW p \in Pids, Step(p)
      PROVE  Registration'
  BY <1>2, QuietSteps, RegistrationQuiet, RegistrationBind, RegistrationFork,
     RegistrationRegister, RegistrationReceive DEF Step
<1>. QED
  BY <1>1, <1>2 DEF Next

LEMMA RegistrationInit == Init => Registration
BY DEF Init, Registration, Fresh, Known, Bound, Waiting, Own, Children, NewRouter, New

\* The types of the program's variables hold throughout.
THEOREM TypeCorrect == Spec => []TypeOK
<1>1. Shape => TypeOK
  <2>. SUFFICES ASSUME Shape PROVE TypeOK
    OBVIOUS
  <2>1. \A p \in Pids : router[p] \in Routers(config, DOMAIN inbox) /\ frame[p] \in Frames(config, DOMAIN inbox)
    BY DEF Shape
  <2>2. \A k \in DOMAIN config : config[k].word \in KeyWords /\ config[k].value \in Nat
    BY ShapeFacts
  <2>3. \A p \in Pids : \A q \in DOMAIN router[p].m_mChildPort :
          q \in Pids /\ router[p].m_mChildPort[q] \in DOMAIN inbox
    BY <2>1 DEF Routers, PortMaps
  <2>4. \A p \in Pids :
       /\ router[p].iConfigReg \in 1..Len(config) + 1
       /\ router[p].iStage \in Nat /\ router[p].iRouteNum \in Nat
       /\ router[p].m_iDropAfter \in Nat
       /\ router[p].iFPID \in Pids \cup {0, 1}
       /\ router[p].iRouterID \in Nat
       /\ router[p].iSockID \in DOMAIN inbox \cup {None}
       /\ frame[p].sockID \in DOMAIN inbox \cup {None}
    BY <2>1, SMTT(30) DEF Routers, Frames
  <2>5. \A a \in DOMAIN inbox : \A i \in DOMAIN inbox[a] : inbox[a][i].pid \in Pids
    <3>. SUFFICES ASSUME NEW a \in DOMAIN inbox, NEW i \in DOMAIN inbox[a]
                  PROVE  inbox[a][i].pid \in Pids
      OBVIOUS
    <3>1. inbox[a] \in Seq(Messages(DOMAIN inbox))
      BY DEF Shape
    <3>2. inbox[a][i] \in Messages(DOMAIN inbox)
      BY <3>1
    <3>. QED
      BY <3>2 DEF Messages
  <2>. QED
    BY <2>2, <2>3, <2>4, <2>5 DEF TypeOK, Shape, Ports
<1>. QED
  BY <1>1, ShapeInit, ShapeStep, PTL DEF Spec

-----------------------------------------------------------------------------
(* Stages and the file *)

TakenFrom(i, r) ==
  /\ r.iStage = config[i].value
  /\ r.iConfigReg = i + SizeOf(r.iStage)
  /\ r.iRouteNum = config[i + 1].value
  /\ r.iStage > 3 => r.m_iDropAfter = config[i + 2].value

\* A process has not taken a stage yet, or has the values of one of the file.
AtStage(r, at) ==
  \/ r.iStage = 0 /\ r.iConfigReg = 1 /\ at \in {"none", "engine", "ended"}
  \/ \E i \in StagesIn(config) : TakenFrom(i, r)

Placed == WellFormed(config) => \A p \in Pids : AtStage(router[p], pc[p])

\* Where a stage ends the next one begins.
LEMMA Aligned ==
  ASSUME NEW c, NEW S, c \in Seq(S), \A k \in 1..Len(c) : c[k].value \in 0..11,
         WellFormed(c), NEW k \in 1..Len(c),
         k = 1 \/ \E i \in StagesIn(c) : k = i + SizeOf(c[i].value)
  PROVE  k \in StagesIn(c)
<1>0. Len(c) \in Nat /\ DOMAIN c = 1..Len(c)
  OBVIOUS
<1>1. PICK j \in StagesIn(c) : k \in j..j + SizeOf(c[j].value) - 1
  BY <1>0 DEF WellFormed
<1>2. \A i \in StagesIn(c) :
        /\ i \in 1..Len(c) /\ i \in Nat /\ SizeOf(c[i].value) \in {2, 3}
        /\ i + SizeOf(c[i].value) - 1 <= Len(c)
        /\ i + 1 \notin StagesIn(c)
        /\ SizeOf(c[i].value) = 3 => i + 2 \notin StagesIn(c)
  <2>. TAKE i \in StagesIn(c)
  <2>1. /\ i \in 1..Len(c) /\ c[i].value \in 1..10
        /\ i + SizeOf(c[i].value) - 1 <= Len(c)
        /\ c[i + 1].word = "num_routers"
        /\ c[i].value > 3 => c[i + 2].word = "drop_after"
    BY <1>0 DEF WellFormed, StagesIn
  <2>2. i + 1 \notin StagesIn(c) /\ (c[i].value > 3 => i + 2 \notin StagesIn(c))
    BY <2>1 DEF StagesIn
  <2>3. SizeOf(c[i].value) \in {2, 3} /\ (SizeOf(c[i].value) = 3 => c[i].value > 3)
    BY <2>1 DEF SizeOf
  <2>. QED
    BY <1>0, <2>1, <2>2, <2>3
<1>3. CASE k = 1
  BY <1>1, <1>2, <1>3
<1>4. CASE \E i \in StagesIn(c) : k = i + SizeOf(c[i].value)
  <2>1. PICK i \in StagesIn(c) : k = i + SizeOf(c[i].value)
    BY <1>4
  <2>. DEFINE m == SizeOf(c[i].value)
              n == SizeOf(c[j].value)
  <2>2. /\ i \in Nat /\ j \in Nat /\ m \in {2, 3} /\ n \in {2, 3}
        /\ i + 1 # j /\ (m = 3 => i + 2 # j)
        /\ j + 1 # i /\ (n = 3 => j + 2 # i)
        /\ (i = j => m = n)
    BY <1>2, <2>1
  <2>3. k = i + m /\ j <= k /\ k <= j + n - 1
    BY <1>1, <1>2, <2>1
  <2>. HIDE DEF m, n
  <2>4. k = j
    BY <2>2, <2>3
  <2>. QED
    BY <2>4
<1>. QED
  BY <1>3, <1>4

\* A process has another process's stage only as its child.
LEMMA StageKept ==
  ASSUME Shape, NEW p \in Pids, Step(p), ~StageEngine(p), NEW q \in Pids
  PROVE  \E o \in Pids :
           /\ router'[q].iStage = router[o].iStage
           /\ router'[q].iConfigReg = router[o].iConfigReg
           /\ router'[q].iRouteNum = router[o].iRouteNum
           /\ router'[q].m_iDropAfter = router[o].m_iDropAfter
           /\ \/ /\ o = q
                 /\ pc[q] \in {"none", "engine", "ended"} => pc'[q] \in {"none", "engine", "ended"}
              \/ o = p /\ pc[p] = "fork" /\ pc[q] = "none" /\ pc'[q] = "register"
<1>0. pc \in [Pids -> Phases] /\ router \in [Pids -> Routers(config, DOMAIN inbox)]
  BY DEF Shape
<1>1. CASE Quit(p) \/ Bind(p) \/ ForkFails(p) \/ EnterLoop(p) \/ Register(p)
           \/ Leave(p) \/ Fail(p) \/ Finish(p) \/ Reap(p)
  <2>1. router' = router
    BY <1>1 DEF Quit, Bind, ForkFails, EnterLoop, Register, Leave, Fail, Finish, Reap
  <2>2. pc[q] \in {"none", "engine", "ended"} => pc'[q] \in {"none", "engine", "ended"}
    BY <1>0, <1>1 DEF Quit, Bind, ForkFails, EnterLoop, Register, Leave, Fail, Finish, Reap,
                      Go, AfterStage1, LoopOrUndefined
  <2>. QED
    BY <2>1, <2>2
<1>2. CASE Fork(p)
  <2>1. PICK o \in Pids :
          /\ IsNextPid(o)
          /\ pc' = [pc EXCEPT ![p] = "receive", ![o] = "register"]
          /\ router' = [router EXCEPT ![o] = router[p],
                          ![p].iFPID = o, ![p].iSockID = frame[p].sockID]
    BY <1>2 DEF Fork
  <2>2. pc[p] = "fork" /\ pc[o] = "none" /\ o # p
    BY <1>2, <2>1 DEF Fork, IsNextPid
  <2>3. CASE q = o
    BY <2>1, <2>2, <2>3, <1>0
  <2>4. CASE q = p
    BY <2>1, <2>2, <2>4, <1>0 DEF Routers
  <2>5. CASE q \notin {o, p}
    BY <2>1, <2>2, <2>5, <1>0
  <2>. QED
    BY <2>3, <2>4, <2>5
<1>3. CASE Registered(p)
  BY <1>0, <1>3 DEF Registered, Become, Go, AfterStage1, LoopOrUndefined, Routers
<1>4. CASE Receive(p)
  <2>1. pc[p] = "receive"
    BY <1>4 DEF Receive
  <2>2. \A o \in Pids \ {p} : pc'[o] = pc[o] /\ router'[o] = router[o]
    BY <1>0, <1>4 DEF Receive, Go, AfterStage1, LoopOrUndefined
  <2>3. /\ router'[p].iStage = router[p].iStage
        /\ router'[p].iConfigReg = router[p].iConfigReg
        /\ router'[p].iRouteNum = router[p].iRouteNum
        /\ router'[p].m_iDropAfter = router[p].m_iDropAfter
    BY <1>0, <1>4 DEF Receive, Routers
  <2>. QED
    BY <2>1, <2>2, <2>3
<1>. QED
  BY <1>1, <1>2, <1>3, <1>4 DEF Step

LEMMA NextStage ==
  ASSUME Shape, Placed, WellFormed(config), NEW p \in Pids, StageEngine(p)
  PROVE  LET i == router[p].iConfigReg
         IN  /\ i \in StagesIn(config) /\ config[i].value \in 1..10
             /\ TakenFrom(i, router'[p]) /\ pc' = [pc EXCEPT ![p] = "bind"]
             /\ \A q \in Pids \ {p} : router'[q] = router[q]
             /\ router'[p].iFPID = router[p].iFPID
             /\ router'[p].iSockID = router[p].iSockID
             /\ router'[p].iRouterID = router[p].iRouterID
             /\ router'[p].m_mChildPort = router[p].m_mChildPort
<1>. DEFINE i == router[p].iConfigReg
            s == config[i].value
            n == Needed(s)
<1>0. /\ router \in [Pids -> Routers(config, DOMAIN inbox)] /\ pc \in [Pids -> Phases]
      /\ i \in 1..Len(config) /\ DOMAIN config = 1..Len(config) /\ Len(config) \in Nat
  BY ShapeFacts DEF Shape, Routers, StageEngine
<1>1. i \in StagesIn(config)
  <2>1. i = 1 \/ \E j \in StagesIn(config) : i = j + SizeOf(config[j].value)
    BY DEF Placed, AtStage, TakenFrom
  <2>2. \A k \in 1..Len(config) : config[k].value \in 0..11
    BY ShapeFacts
  <2>3. config \in Seq(Entries(file))
    BY ShapeFacts
  <2>. QED
    BY <1>0, <2>1, <2>2, <2>3, Aligned
<1>2. s \in 1..10 /\ i + SizeOf(s) - 1 <= Len(config)
  BY <1>1 DEF WellFormed
<1>3. n = SizeOf(s) /\ n \in {2, 3} /\ (s > 3 => n = 3)
  BY <1>2 DEF Needed, SizeOf
<1>4. /\ pc' = [pc EXCEPT ![p] = "bind"]
      /\ router' = [router EXCEPT
                          ![p].iConfigReg = i + n,
                          ![p].iStage = s,
                          ![p].iRouteNum = IF n >= 2 THEN config[i + 1].value ELSE @,
                          ![p].m_iDropAfter = IF n = 3 THEN config[i + 2].value ELSE @]
  <2>1. ~(i + n - 1 > Len(config))
    BY <1>0, <1>2, <1>3
  <2>. QED
    BY <1>2, <2>1 DEF StageEngine, Go
<1>. HIDE DEF n, s
<1>5. /\ router'[p].iConfigReg = i + n
      /\ router'[p].iStage = s
      /\ router'[p].iRouteNum = config[i + 1].value
      /\ n = 3 => router'[p].m_iDropAfter = config[i + 2].value
      /\ \A q \in Pids \ {p} : router'[q] = router[q]
      /\ router'[p].iFPID = router[p].iFPID
      /\ router'[p].iSockID = router[p].iSockID
      /\ router'[p].iRouterID = router[p].iRouterID
      /\ router'[p].m_mChildPort = router[p].m_mChildPort
  BY <1>0, <1>3, <1>4 DEF Routers
<1>. QED
  BY <1>1, <1>2, <1>3, <1>4, <1>5 DEF TakenFrom, s

LEMMA PlacedStep == Shape /\ Placed /\ [Next]_vars => Placed'
<1>. SUFFICES ASSUME Shape, Placed, [Next]_vars, WellFormed(config)' PROVE \A q \in Pids : AtStage(router[q], pc[q])'
  BY DEF Placed
<1>1. config' = config
  BY DEF Next, Step, vars, StageEngine, Quit, Bind, Fork, ForkFails, EnterLoop, Register,
         Registered, Become, Receive, Leave, Fail, Finish, Reap
<1>2. WellFormed(config)
  BY <1>1 DEF WellFormed, StagesIn
<1>3. \A q \in Pids : AtStage(router[q], pc[q])
  BY <1>2 DEF Placed
<1>4. CASE UNCHANGED vars
  BY <1>3, <1>4 DEF vars, AtStage, TakenFrom
<1>5. ASSUME NEW p \in Pids, StageEngine(p), NEW q \in Pids
      PROVE  AtStage(router[q], pc[q])'
  <2>1. /\ router[p].iConfigReg \in StagesIn(config)
        /\ TakenFrom(router[p].iConfigReg, router'[p])
        /\ pc' = [pc EXCEPT ![p] = "bind"]
        /\ \A o \in Pids \ {p} : router'[o] = router[o]
    BY <1>2, <1>5, NextStage
  <2>2. CASE q = p
    BY <1>1, <2>1, <2>2 DEF AtStage, TakenFrom
  <2>3. CASE q # p
    BY <1>1, <1>3, <2>1, <2>3 DEF AtStage, TakenFrom, Shape
  <2>. QED
    BY <2>2, <2>3
<1>6. ASSUME NEW p \in Pids, Step(p), ~StageEngine(p), NEW q \in Pids
      PROVE  AtStage(router[q], pc[q])'
  <2>1. PICK o \in Pids :
           /\ router'[q].iStage = router[o].iStage
           /\ router'[q].iConfigReg = router[o].iConfigReg
           /\ router'[q].iRouteNum = router[o].iRouteNum
           /\ router'[q].m_iDropAfter = router[o].m_iDropAfter
           /\ \/ /\ o = q
                 /\ pc[q] \in {"none", "engine", "ended"} => pc'[q] \in {"none", "engine", "ended"}
              \/ o = p /\ pc[p] = "fork" /\ pc[q] = "none" /\ pc'[q] = "register"
    BY <1>6, StageKept
  <2>2. AtStage(router[o], pc[o])
    BY <1>3
  <2>3. CASE router[o].iStage = 0 /\ router[o].iConfigReg = 1 /\ pc[o] \in {"none", "engine", "ended"}
    BY <2>1, <2>3 DEF AtStage
  <2>4. CASE \E i \in StagesIn(config) : TakenFrom(i, router[o])
    <3>1. PICK i \in StagesIn(config) : TakenFrom(i, router[o])
      BY <2>4
    <3>. QED
      BY <1>1, <2>1, <3>1 DEF AtStage, TakenFrom
  <2>. QED
    BY <2>2, <2>3, <2>4 DEF AtStage
<1>. QED
  BY <1>4, <1>5, <1>6 DEF Next, Step

LEMMA PlacedInit == Init => Placed
BY DEF Init, Placed, AtStage, NewRouter

\* Every process, parent or child, has the values of one stage as the file says
\* them: the words that readConfigFile throws away are those of the values.
THEOREM ValuesAsWritten == Spec => []ReadAsWritten
<1>1. Shape /\ Placed => ReadAsWritten
  <2>. SUFFICES ASSUME Shape, Placed, WellFormed(config), NEW p \in Pids, Stage(p) # 0
                PROVE  \E i \in StagesIn(config) :
                         /\ Stage(p) = config[i].value /\ Says(file, "stage", Stage(p))
                         /\ router[p].iConfigReg = i + SizeOf(Stage(p))
                         /\ router[p].iRouteNum = config[i + 1].value
                         /\ Says(file, "num_routers", router[p].iRouteNum)
                         /\ Stage(p) > 3 => router[p].m_iDropAfter = config[i + 2].value
    BY DEF ReadAsWritten
  <2>1. PICK i \in StagesIn(config) : TakenFrom(i, router[p])
    BY DEF Placed, AtStage, Stage
  <2>2. \A k \in 1..Len(config) : Says(file, config[k].word, config[k].value)
    <3>1. \A k \in 1..Len(config) : config[k] \in Entries(file)
      BY ShapeFacts
    <3>2. \A e \in Entries(file) : Says(file, e.word, e.value)
      BY Zenon DEF Entries
    <3>. QED
      BY <3>1, <3>2
  <2>3. /\ i \in 1..Len(config) /\ i + 1 \in 1..Len(config)
        /\ config[i].word = "stage" /\ config[i + 1].word = "num_routers"
    <3>1. i \in 1..Len(config) /\ Len(config) \in Nat
      BY ShapeFacts DEF StagesIn
    <3>2. config[i].value \in 1..10 /\ i + SizeOf(config[i].value) - 1 <= Len(config)
      BY DEF WellFormed
    <3>3. SizeOf(config[i].value) \in {2, 3}
      BY <3>2 DEF SizeOf
    <3>4. config[i + 1].word = "num_routers"
      BY DEF WellFormed
    <3>. QED
      BY <3>1, <3>2, <3>3, <3>4 DEF StagesIn
  <2>4. Says(file, "stage", config[i].value) /\ Says(file, "num_routers", config[i + 1].value)
    BY <2>2, <2>3
  <2>. QED
    BY <2>1, <2>4 DEF TakenFrom, Stage
<1>. QED
  BY <1>1, ShapeInit, ShapeStep, PlacedInit, PlacedStep, PTL DEF Spec

-----------------------------------------------------------------------------
(* Nothing undefined is done                                                *)

Finite == \A p \in Pids : IsFiniteSet(Children(p))

NoFault == faults \cap {"fork", "bind"} = {}

SaneAt(p) ==
  /\ pc[p] \in {"fork", "receive"} /\ MayFork(p) => frame[p].sockID # None
  /\ pc[p] = "fork" /\ frame[p].i > 0 => router[p].iSockID # None
  /\ ~IsPrimary(p) => router[p].iSockID # None
  /\ pc[p] \in {"fork", "receive"} /\ IsPrimary(p) /\ Stage(p) >= 6 =>
       Cardinality(Children(p)) >= frame[p].i
  /\ WellFormed(config) => pc[p] # "undefined"

Sane == NoFault => \A p \in Pids : SaneAt(p)

LEMMA SaneKept ==
  ASSUME NEW q \in Pids, SaneAt(q), config' = config, router'[q] = router[q],
         pc'[q] = pc[q] \/ pc'[q] \notin {"fork", "receive", "undefined"},
         frame'[q] = frame[q]
  PROVE  SaneAt(q)'
<1>1. MayFork(q)' = MayFork(q) /\ IsPrimary(q)' = IsPrimary(q) /\ Stage(q)' = Stage(q)
      /\ Children(q)' = Children(q)
  BY DEF MayFork, IsPrimary, Stage, Children
<1>2. WellFormed(config)' = WellFormed(config)
  BY DEF WellFormed, StagesIn
<1>. QED
  BY <1>1, <1>2 DEF SaneAt

\* How a map of ports grows.
LEMMA ReceivedMap ==
  ASSUME Shape, Registration, NEW p \in Pids, Receive(p)
  PROVE  /\ UNCHANGED <<config, faults, lastPid, captive, logs>>
         /\ \A o \in Pids \ {p} : pc'[o] = pc[o] /\ router'[o] = router[o] /\ frame'[o] = frame[o]
         /\ \/ /\ Stage(p) <= 5 /\ pc' = [pc EXCEPT ![p] = AfterStage1(router[p])]
               /\ router' = router /\ frame' = frame
            \/ /\ ~(Stage(p) <= 5) /\ pc' = [pc EXCEPT ![p] = "fork"]
               /\ router'[p].m_mChildPort = Put(router[p].m_mChildPort, router[p].iFPID,
                    <<router[p].iFPID, router[p].iConfigReg>>)
               /\ Children(p)' = Children(p) \cup {router[p].iFPID}
               /\ router'[p].iStage = router[p].iStage
               /\ router'[p].iFPID = router[p].iFPID
               /\ router'[p].iSockID = router[p].iSockID
               /\ router'[p].iRouteNum = router[p].iRouteNum
               /\ router'[p].iConfigReg = router[p].iConfigReg
               /\ router'[p].iRouterID = router[p].iRouterID
               /\ frame' = [frame EXCEPT ![p].i = @ + 1]
<1>1. PICK q : q = router[p].iFPID
  OBVIOUS
<1>2. /\ frame[p].sockID = Port(p)
      /\ inbox[Port(p)] = <<[pid |-> q, from |-> <<q, router[p].iConfigReg>>]>>
  BY <1>1, Received
<1>3. PICK m : m = [pid |-> q, from |-> <<q, router[p].iConfigReg>>]
  OBVIOUS
<1>4. Head(inbox[Port(p)]) = m
  BY <1>2, <1>3
<1>5. UNCHANGED <<config, faults, lastPid, captive, logs>>
  BY DEF Receive
<1>6. \/ /\ Stage(p) <= 5 /\ pc' = [pc EXCEPT ![p] = AfterStage1(router[p])]
         /\ router' = router /\ frame' = frame
      \/ /\ ~(Stage(p) <= 5) /\ pc' = [pc EXCEPT ![p] = "fork"]
         /\ router' = [router EXCEPT ![p].m_mChildPort = Put(@, m.pid, m.from)]
         /\ frame' = [frame EXCEPT ![p].i = @ + 1]
  BY <1>2, <1>4 DEF Receive, Go
<1>7. m.pid = q /\ m.from = <<q, router[p].iConfigReg>>
  BY <1>3
<1>8. CASE ~(Stage(p) <= 5)
  <2>1. /\ router'[p].m_mChildPort = Put(router[p].m_mChildPort, q, <<q, router[p].iConfigReg>>)
        /\ router'[p].iStage = router[p].iStage
        /\ router'[p].iFPID = router[p].iFPID
        /\ router'[p].iSockID = router[p].iSockID
        /\ router'[p].iRouteNum = router[p].iRouteNum
        /\ router'[p].iConfigReg = router[p].iConfigReg
        /\ router'[p].iRouterID = router[p].iRouterID
    BY <1>6, <1>7, <1>8 DEF Shape, Routers
  <2>2. Children(p)' = Children(p) \cup {q}
    BY <2>1 DEF Children, Put
  <2>3. \A o \in Pids \ {p} : pc'[o] = pc[o] /\ router'[o] = router[o] /\ frame'[o] = frame[o]
    BY <1>6, <1>8 DEF Shape
  <2>. QED
    BY <1>1, <1>5, <1>6, <1>8, <2>1, <2>2, <2>3
<1>9. CASE Stage(p) <= 5
  BY <1>5, <1>6, <1>9 DEF Shape
<1>. QED
  BY <1>8, <1>9

LEMMA FiniteStep == Shape /\ Registration /\ Finite /\ [Next]_vars => Finite'
<1>. SUFFICES ASSUME Shape, Registration, Finite, [Next]_vars, NEW q \in Pids
              PROVE  IsFiniteSet(Children(q)')
  BY DEF Finite
<1>0. \A o \in Pids : IsFiniteSet(Children(o))
  BY DEF Finite
<1>1. CASE UNCHANGED vars
  BY <1>0, <1>1 DEF vars, Children
<1>2. ASSUME NEW p \in Pids, Quiet(p)
      PROVE  Children(q)' = Children(q)
  BY <1>2 DEF Quiet, Children
<1>3. ASSUME NEW p \in Pids, Bind(p) \/ Register(p)
      PROVE  Children(q)' = Children(q)
  BY <1>3 DEF Bind, Register, Children
<1>4. ASSUME NEW p \in Pids, Fork(p)
      PROVE  Children(q)' \in {Children(q), Children(p)}
  <2>1. PICK o \in Pids :
          router' = [router EXCEPT ![o] = router[p],
                          ![p].iFPID = o, ![p].iSockID = frame[p].sockID]
    BY <1>4 DEF Fork
  <2>2. CASE q \in Pids \ {p, o}
    BY <2>1, <2>2 DEF Shape, Children
  <2>3. CASE q = o
    BY <2>1, <2>3 DEF Shape, Routers, Children
  <2>4. CASE q = p
    BY <2>1, <2>4 DEF Shape, Routers, Children
  <2>. QED
    BY <2>2, <2>3, <2>4
<1>5. ASSUME NEW p \in Pids, Receive(p)
      PROVE  Children(q)' \in {Children(q), Children(p) \cup {router[p].iFPID}}
  BY <1>5, ReceivedMap DEF Children
<1>6. \A p \in Pids : IsFiniteSet(Children(p) \cup {router[p].iFPID})
  BY <1>0, FS_AddElement
<1>7. ASSUME NEW p \in Pids, Step(p)
      PROVE  IsFiniteSet(Children(q)')
  <2>1. CASE Quiet(p)
    BY <2>1, <1>0, <1>2
  <2>2. CASE Bind(p) \/ Register(p)
    BY <2>2, <1>0, <1>3
  <2>3. CASE Fork(p)
    BY <2>3, <1>0, <1>4
  <2>4. CASE Receive(p)
    BY <2>4, <1>0, <1>5, <1>6
  <2>. QED
    BY <1>7, <2>1, <2>2, <2>3, <2>4, QuietSteps DEF Step
<1>. QED
  BY <1>1, <1>7 DEF Next

LEMMA SaneStep ==
  Shape /\ Registration /\ Placed /\ Finite /\ Sane /\ [Next]_vars => Sane'
<1>. SUFFICES ASSUME Shape, Registration, Placed, Finite, Sane, [Next]_vars, NoFault'
              PROVE  \A q \in Pids : SaneAt(q)'
  BY DEF Sane
<1>0. /\ pc \in [Pids -> Phases] /\ router \in [Pids -> Routers(config, DOMAIN inbox)]
      /\ frame \in [Pids -> Frames(config, DOMAIN inbox)]
  BY DEF Shape
<1>00. \A q \in Pids : Stage(q) \in 0..11 /\ frame[q].i \in Nat /\ router[q].iRouteNum \in Nat
  <2>. TAKE q \in Pids
  <2>1. router[q] \in Routers(config, DOMAIN inbox) /\ frame[q] \in Frames(config, DOMAIN inbox)
    BY <1>0
  <2>. QED
    BY <2>1 DEF Routers, Frames, Stage
<1>1. config' = config /\ faults \subseteq faults'
  BY DEF Next, Step, vars, StageEngine, Quit, Bind, Fork, ForkFails, EnterLoop, Register,
         Registered, Become, Receive, Leave, Fail, Finish, Reap
<1>2. NoFault /\ \A q \in Pids : SaneAt(q)
  BY <1>1 DEF NoFault, Sane
<1>3. WellFormed(config)' = WellFormed(config)
  BY <1>1 DEF WellFormed, StagesIn
<1>4. CASE UNCHANGED vars
  BY <1>2, <1>4, SaneKept DEF vars
<1>5. ASSUME NEW p \in Pids, \/ Quit(p) \/ Register(p) \/ Leave(p) \/ Fail(p) \/ Finish(p) \/ Reap(p)
      PROVE  \A q \in Pids : SaneAt(q)'
  <2>1. router' = router /\ frame' = frame
    BY <1>5 DEF Quit, Register, Leave, Fail, Finish, Reap
  <2>2. \A q \in Pids : pc'[q] = pc[q] \/ pc'[q] \notin {"fork", "receive", "undefined"}
    BY <1>0, <1>5 DEF Quit, Register, Leave, Fail, Finish, Reap, Go
  <2>. QED
    BY <1>1, <1>2, <2>1, <2>2, SaneKept
<1>6. ASSUME NEW p \in Pids, StageEngine(p), NEW q \in Pids
      PROVE  SaneAt(q)'
  <2>1. /\ \A o \in Pids \ {p} : router'[o] = router[o] /\ pc'[o] = pc[o]
        /\ frame' = frame /\ pc'[p] \in {"engine", "bind", "undefined"}
        /\ router'[p].iFPID = router[p].iFPID /\ router'[p].iSockID = router[p].iSockID
    BY <1>0, <1>6 DEF StageEngine, Go, Routers
  <2>2. CASE q # p
    BY <2>1, <2>2, <1>1, <1>2, SaneKept
  <2>3. CASE q = p
    <3>1. WellFormed(config) => pc'[p] = "bind"
      BY <1>0, <1>6, NextStage
    <3>2. SaneAt(p)
      BY <1>2
    <3>. QED
      BY <2>1, <2>3, <3>1, <3>2, <1>3 DEF SaneAt, IsPrimary
  <2>. QED
    BY <2>2, <2>3
<1>7. ASSUME NEW p \in Pids, Bind(p), NEW q \in Pids
      PROVE  SaneAt(q)'
  <2>1. /\ router' = router /\ pc' = [pc EXCEPT ![p] = "fork"]
        /\ frame' = [frame EXCEPT ![p] = [rou1Addr |-> Port(p), sockID |-> Port(p), i |-> 0]]
    BY <1>7 DEF Bind, Go, NoFault
  <2>2. CASE q # p
    BY <2>1, <2>2, <1>0, <1>1, <1>2, SaneKept
  <2>3. CASE q = p
    <3>1. /\ pc'[p] = "fork" /\ frame'[p].sockID # None /\ frame'[p].i = 0
      BY <2>1, <1>0, ShapeFacts
    <3>2. IsPrimary(p)' = IsPrimary(p) /\ Children(p)' = Children(p)
      BY <2>1 DEF IsPrimary, Children
    <3>3. Cardinality(Children(p)) \in Nat
      BY FS_CardinalityType DEF Finite
    <3>4. Cardinality(Children(p)) >= 0
      BY <3>3
    <3>5. ~IsPrimary(p) => router[p].iSockID # None
      BY <1>2 DEF SaneAt
    <3>. QED
      BY <2>1, <2>3, <3>1, <3>2, <3>4, <3>5 DEF SaneAt
  <2>. QED
    BY <2>2, <2>3
<1>8. ASSUME NEW p \in Pids, Fork(p), NEW q \in Pids
      PROVE  SaneAt(q)'
  <2>1. PICK o \in Pids :
          /\ IsNextPid(o)
          /\ pc' = [pc EXCEPT ![p] = "receive", ![o] = "register"]
          /\ router' = [router EXCEPT ![o] = router[p],
                          ![p].iFPID = o, ![p].iSockID = frame[p].sockID]
          /\ frame' = [frame EXCEPT ![o] = frame[p]]
    BY <1>8 DEF Fork
  <2>2. pc[p] = "fork" /\ pc[o] = "none" /\ o # p /\ Forks(p)
    BY <1>8, <2>1 DEF Fork, IsNextPid
  <2>3. SaneAt(p)
    BY <1>2
  <2>4. frame[p].sockID # None
    BY <2>2, <2>3 DEF SaneAt, Forks, MayFork
  <2>5. CASE q \notin {p, o}
    <3>1. router'[q] = router[q] /\ frame'[q] = frame[q] /\ pc'[q] = pc[q]
      BY <1>0, <2>1, <2>5
    <3>. QED
      BY <3>1, <1>1, <1>2, SaneKept
  <2>6. CASE q = o
    <3>1. router'[o] = router[p] /\ pc'[o] = "register"
      BY <1>0, <2>1, <2>2
    <3>. QED
      BY <2>3, <2>6, <3>1 DEF SaneAt, IsPrimary
  <2>7. CASE q = p
    <3>1. /\ router'[p].iFPID = o /\ router'[p].iSockID = frame[p].sockID
          /\ router'[p].iStage = router[p].iStage
          /\ router'[p].m_mChildPort = router[p].m_mChildPort
          /\ frame'[p] = frame[p] /\ pc'[p] = "receive"
      BY <1>0, <2>1, <2>2 DEF Routers
    <3>2. o # 0
      BY StagesAssumption
    <3>3. IsPrimary(p)' /\ Children(p)' = Children(p) /\ Stage(p)' = Stage(p)
      BY <3>1, <3>2 DEF IsPrimary, Children, Stage
    <3>4. Stage(p) >= 6 => IsPrimary(p)
      BY <2>2, <1>00 DEF Forks
    <3>. QED
      BY <2>2, <2>3, <2>4, <2>7, <3>1, <3>3, <3>4 DEF SaneAt
  <2>. QED
    BY <2>5, <2>6, <2>7
<1>9. ASSUME NEW p \in Pids
      PROVE  ~ForkFails(p)
  BY DEF ForkFails, NoFault
<1>10. ASSUME NEW p \in Pids, EnterLoop(p), NEW q \in Pids
       PROVE  SaneAt(q)'
  <2>1. /\ router' = router /\ frame' = frame /\ pc[p] = "fork" /\ ~Forks(p)
        /\ pc' = [pc EXCEPT ![p] = LoopOrUndefined(router[p])]
    BY <1>10 DEF EnterLoop, Go
  <2>2. SaneAt(p) /\ SaneAt(q)
    BY <1>2
  <2>3. WellFormed(config) => LoopOrUndefined(router[p]) # "undefined"
    <3>. SUFFICES ASSUME WellFormed(config) PROVE LoopOrUndefined(router[p]) # "undefined"
      OBVIOUS
    <3>1. Stage(p) \in 0..11 /\ ~(Stage(p) <= 5) /\ Stage(p) >= 6
      BY <1>00, <2>1 DEF Forks
    <3>2. PICK i \in StagesIn(config) : TakenFrom(i, router[p])
      BY <2>1 DEF Placed, AtStage
    <3>3. router[p].iRouteNum >= PortsUsed(Stage(p)) /\ Stage(p) = config[i].value
      BY <3>1, <3>2 DEF WellFormed, TakenFrom, Stage
    <3>4. CASE ~IsPrimary(p)
      BY <2>2, <3>4 DEF SaneAt, LoopOrUndefined, IsPrimary
    <3>5. CASE IsPrimary(p)
      <4>1. ~(frame[p].i < router[p].iRouteNum) /\ frame[p].i \in Nat /\ router[p].iRouteNum \in Nat
        BY <1>00, <2>1, <3>5 DEF Forks
      <4>2. frame[p].i >= PortsUsed(Stage(p)) /\ PortsUsed(Stage(p)) \in {2, 3}
        BY <3>3, <4>1 DEF PortsUsed
      <4>3. router[p].iSockID # None
        BY <2>1, <2>2, <4>1, <4>2 DEF SaneAt
      <4>4. Cardinality(Children(p)) \in Nat
        BY FS_CardinalityType DEF Finite
      <4>5. Cardinality(Children(p)) >= frame[p].i
        BY <2>1, <2>2, <3>1, <3>5 DEF SaneAt
      <4>6. ~(Cardinality(Children(p)) < PortsUsed(Stage(p)))
        BY <4>1, <4>2, <4>4, <4>5
      <4>. QED
        BY <4>3, <4>6 DEF LoopOrUndefined, Children, Stage
    <3>. QED
      BY <3>4, <3>5
  <2>4. CASE q = p
    <3>1. pc'[p] = LoopOrUndefined(router[p]) /\ LoopOrUndefined(router[p]) \in {"loop", "undefined"}
      BY <1>0, <2>1 DEF LoopOrUndefined
    <3>. QED
      BY <2>1, <2>2, <2>3, <2>4, <3>1, <1>3 DEF SaneAt, IsPrimary
  <2>5. CASE q # p
    BY <2>1, <2>5, <1>0, <1>1, <1>2, SaneKept
  <2>. QED
    BY <2>4, <2>5
<1>11. ASSUME NEW p \in Pids, Registered(p), NEW q \in Pids
       PROVE  SaneAt(q)'
  <2>. DEFINE r == [router[p] EXCEPT !.iRouterID = IdOf(p), !.iSockID = Port(p), !.iFPID = 0]
  <2>1. /\ pc[p] = "registered" /\ router' = [router EXCEPT ![p] = r]
        /\ IF Stage(p) <= 5
           THEN pc' = [pc EXCEPT ![p] = AfterStage1(r)] /\ frame' = frame
           ELSE pc' = [pc EXCEPT ![p] = "fork"] /\ frame' = [frame EXCEPT ![p].i = @ + 1]
    BY <1>11 DEF Registered, Become, Go
  <2>2. r.iFPID = 0 /\ r.iSockID = Port(p) /\ Port(p) # None /\ r.iStage = Stage(p)
    BY <1>0, ShapeFacts DEF Routers, Stage
  <2>. HIDE DEF r
  <2>3. CASE q # p
    <3>1. router'[q] = router[q] /\ frame'[q] = frame[q] /\ pc'[q] = pc[q]
      BY <1>0, <2>1, <2>3
    <3>. QED
      BY <3>1, <1>1, <1>2, SaneKept
  <2>4. CASE q = p
    <3>1. router'[p] = r /\ Stage(p)' = Stage(p) /\ ~IsPrimary(p)'
      BY <1>0, <2>1, <2>2 DEF Stage, IsPrimary
    <3>2. AfterStage1(r) \in {"finish", "loop"}
      BY <2>2 DEF AfterStage1, LoopOrUndefined
    <3>3. \/ pc'[p] \in {"finish", "loop"}
          \/ pc'[p] = "fork" /\ ~MayFork(p)'
      BY <1>0, <2>1, <3>1, <3>2 DEF MayFork
    <3>. QED
      BY <2>2, <2>4, <3>1, <3>3 DEF SaneAt
  <2>. QED
    BY <2>3, <2>4
<1>12. ASSUME NEW p \in Pids, Receive(p), NEW q \in Pids
       PROVE  SaneAt(q)'
  <2>1. /\ router[p].iFPID \in Pids /\ router[p].iFPID \notin Children(p)
        /\ frame[p].sockID = Port(p) /\ Port(p) # None /\ pc[p] = "receive"
    BY <1>12, Received, ShapeFacts DEF Receive
  <2>2. router[p].iSockID = frame[p].sockID /\ IsPrimary(p)
    BY <2>1, StagesAssumption DEF Registration, Waiting, Awaits, IsPrimary
  <2>3. CASE q # p
    <3>1. router'[q] = router[q] /\ frame'[q] = frame[q] /\ pc'[q] = pc[q]
      BY <1>12, <2>3, ReceivedMap
    <3>. QED
      BY <3>1, <1>1, <1>2, SaneKept
  <2>4. CASE q = p /\ Stage(p) <= 5
    <3>1. pc' = [pc EXCEPT ![p] = AfterStage1(router[p])] /\ router' = router
      BY <1>12, <2>4, ReceivedMap
    <3>2. ~(Stage(p) >= 6)
      BY <1>00, <2>4
    <3>3. AfterStage1(router[p]) \in {"finish", "loop"}
      BY <2>1, <2>2, <3>2 DEF AfterStage1, LoopOrUndefined, Stage
    <3>4. pc'[p] \in {"finish", "loop"} /\ IsPrimary(p)'
      BY <1>0, <2>2, <3>1, <3>3 DEF IsPrimary
    <3>. QED
      BY <2>4, <3>4 DEF SaneAt
  <2>5. CASE q = p /\ ~(Stage(p) <= 5)
    <3>1. /\ pc' = [pc EXCEPT ![p] = "fork"]
          /\ Children(p)' = Children(p) \cup {router[p].iFPID}
          /\ router'[p].iStage = router[p].iStage
          /\ router'[p].iFPID = router[p].iFPID
          /\ router'[p].iSockID = router[p].iSockID
          /\ frame' = [frame EXCEPT ![p].i = @ + 1]
      BY <1>12, <2>5, ReceivedMap
    <3>2. pc'[p] = "fork" /\ frame'[p].i = frame[p].i + 1 /\ frame'[p].sockID = frame[p].sockID
          /\ frame[p].i \in Nat
      BY <1>0, <3>1 DEF Frames
    <3>3. Cardinality(Children(p)') = Cardinality(Children(p)) + 1
          /\ Cardinality(Children(p)) \in Nat
      BY <2>1, <3>1, FS_AddElement, FS_CardinalityType DEF Finite
    <3>4. Stage(p) >= 6
      BY <1>00, <2>5
    <3>5. Cardinality(Children(p)) >= frame[p].i
      BY <2>1, <2>2, <3>4, <1>2 DEF SaneAt
    <3>6. Cardinality(Children(p)') >= frame'[p].i
      BY <3>2, <3>3, <3>5
    <3>. QED
      BY <2>1, <2>2, <2>5, <3>1, <3>2, <3>6 DEF SaneAt
  <2>. QED
    BY <2>3, <2>4, <2>5
<1>. QED
  BY <1>4, <1>5, <1>6, <1>7, <1>8, <1>9, <1>10, <1>11, <1>12 DEF Next, Step

LEMMA SaneInit == Init => Finite /\ Sane
<1>1. IsFiniteSet({})
  BY FS_EmptySet
<1>2. ASSUME Init PROVE Finite /\ Sane
  BY <1>1, <1>2 DEF Init, Finite, Sane, SaneAt, Children, NewRouter, IsPrimary
<1>. QED
  BY <1>2

\* With a complete file, as long as fork and bind succeed, nothing undefined is
\* done: no value is read from before the file, no port from behind the map,
\* and no process uses a socket that is none.
THEOREM NothingIsUndefined == Spec => []NothingUndefined
<1>1. Sane => NothingUndefined
  BY DEF Sane, SaneAt, NoFault, NothingUndefined
<1>. QED
  BY <1>1, ShapeInit, ShapeStep, RegistrationInit, RegistrationStep, PlacedInit, PlacedStep,
     SaneInit, FiniteStep, SaneStep, PTL DEF Spec

-----------------------------------------------------------------------------
(* One primary router                                                       *)

Starting == {"none", "register", "registered"}

\* A secondary router that came into being in this or an earlier stage.
Follower(p) ==
  /\ ~IsPrimary(p) /\ Stage(p) # 0
  /\ pc[p] \notin {"receive", "reap"}
  /\ Stage(p) = 1 => pc[p] \in {"finish", "ended"}
  /\ pc[p] \in {"bind", "fork"} => Stage(p) >= 6

\* r is the process the program was started with.
Root(r) ==
  /\ IsPrimary(r) /\ pc[r] \notin Starting
  /\ \A p \in Pids \ {r} : pc[p] \in Starting \/ Follower(p)

OneRoot == Sound => \E r \in Pids : Root(r)

LEMMA RouterTypes ==
  ASSUME Shape, NEW p \in Pids
  PROVE  /\ router[p] \in Routers(config, DOMAIN inbox)
         /\ frame[p] \in Frames(config, DOMAIN inbox)
         /\ pc[p] \in Phases
         /\ Stage(p) \in 0..11 /\ frame[p].i \in Nat /\ router[p].iRouteNum \in Nat
         /\ router[p].iRouterID \in Nat /\ router[p].iConfigReg \in 1..Len(config) + 1
BY DEF Shape, Routers, Frames, Stage

\* Whose state a step may change.
LEMMA Others ==
  ASSUME Shape, Registration, NEW p \in Pids, Step(p), ~Fork(p), NEW q \in Pids, q # p
  PROVE  pc'[q] = pc[q] /\ router'[q] = router[q] /\ frame'[q] = frame[q]
<1>1. CASE Quiet(p)
  BY <1>1 DEF Quiet
<1>2. CASE Bind(p) \/ Register(p)
  BY <1>2 DEF Bind, Register, Go, Shape
<1>3. CASE Receive(p)
  BY <1>3, ReceivedMap
<1>. QED
  BY <1>1, <1>2, <1>3, QuietSteps DEF Step

\* What Fork does, by process.
LEMMA Forked ==
  ASSUME Shape, Registration, NEW p \in Pids, Fork(p)
  PROVE  \E q \in Pids :
           /\ IsNextPid(q) /\ q # p /\ pc[p] = "fork" /\ pc[q] = "none" /\ Forks(p)
           /\ q \notin Children(p)
           /\ pc'[p] = "receive" /\ pc'[q] = "register"
           /\ \A o \in Pids \ {p, q} : pc'[o] = pc[o] /\ router'[o] = router[o] /\ frame'[o] = frame[o]
           /\ router'[q] = router[p] /\ frame'[q] = frame[p] /\ frame'[p] = frame[p]
           /\ router'[p].iFPID = q /\ router'[p].iSockID = frame[p].sockID
           /\ router'[p].m_mChildPort = router[p].m_mChildPort
           /\ router'[p].iConfigReg = router[p].iConfigReg
           /\ router'[p].iStage = router[p].iStage
           /\ router'[p].iRouteNum = router[p].iRouteNum
           /\ router'[p].iRouterID = router[p].iRouterID
           /\ lastPid' = q /\ inbox' = inbox /\ config' = config
           /\ faults' = IF q < lastPid THEN faults \cup {"order"} ELSE faults
           /\ captive' = captive /\ logs' = logs
<1>1. PICK q \in Pids :
        /\ IsNextPid(q)
        /\ lastPid' = q
        /\ pc' = [pc EXCEPT ![p] = "receive", ![q] = "register"]
        /\ router' = [router EXCEPT ![q] = router[p],
                        ![p].iFPID = q, ![p].iSockID = frame[p].sockID]
        /\ frame' = [frame EXCEPT ![q] = frame[p]]
        /\ faults' = IF q < lastPid THEN faults \cup {"order"} ELSE faults
  BY DEF Fork
<1>2. /\ inbox' = inbox /\ config' = config /\ pc[p] = "fork" /\ pc[q] = "none" /\ q # p
      /\ Forks(p) /\ captive' = captive /\ logs' = logs
  BY <1>1 DEF Fork, IsNextPid
<1>3. /\ pc'[p] = "receive" /\ pc'[q] = "register"
      /\ \A o \in Pids \ {p, q} : pc'[o] = pc[o] /\ router'[o] = router[o] /\ frame'[o] = frame[o]
      /\ router'[q] = router[p] /\ frame'[q] = frame[p] /\ frame'[p] = frame[p]
  BY <1>1, <1>2 DEF Shape
<1>4. /\ router'[p].iFPID = q /\ router'[p].iSockID = frame[p].sockID
      /\ router'[p].m_mChildPort = router[p].m_mChildPort
      /\ router'[p].iConfigReg = router[p].iConfigReg
      /\ router'[p].iStage = router[p].iStage
      /\ router'[p].iRouteNum = router[p].iRouteNum
      /\ router'[p].iRouterID = router[p].iRouterID
  BY <1>1, <1>2 DEF Shape, Routers
<1>5. q \notin Children(p)
  BY <1>2 DEF Registration, Known, New
<1>. QED
  BY <1>1, <1>2, <1>3, <1>4, <1>5

\* What a child becomes.
LEMMA Became ==
  ASSUME Shape, NEW p \in Pids, Registered(p)
  PROVE  /\ pc[p] = "registered"
         /\ router'[p].iFPID = 0 /\ router'[p].iSockID = Port(p)
         /\ router'[p].iRouterID = IdOf(p)
         /\ router'[p].iStage = router[p].iStage
         /\ router'[p].iConfigReg = router[p].iConfigReg
         /\ router'[p].m_mChildPort = router[p].m_mChildPort
         /\ IF Stage(p) <= 5
            THEN pc'[p] = IF Stage(p) = 1 THEN "finish" ELSE "loop"
            ELSE pc'[p] = "fork"
         /\ UNCHANGED <<config, lastPid, inbox, captive, logs, faults>>
<1>. DEFINE r == [router[p] EXCEPT !.iRouterID = IdOf(p), !.iSockID = Port(p), !.iFPID = 0]
<1>1. /\ pc[p] = "registered" /\ router' = [router EXCEPT ![p] = r]
      /\ IF Stage(p) <= 5
         THEN pc' = [pc EXCEPT ![p] = AfterStage1(r)]
         ELSE pc' = [pc EXCEPT ![p] = "fork"]
      /\ UNCHANGED <<config, lastPid, inbox, captive, logs, faults>>
  BY DEF Registered, Become, Go
<1>2. router[p] \in Routers(config, DOMAIN inbox) /\ Port(p) # None
  BY ShapeFacts DEF Shape
<1>3. /\ r.iFPID = 0 /\ r.iSockID = Port(p) /\ r.iRouterID = IdOf(p)
      /\ r.iStage = router[p].iStage /\ r.iConfigReg = router[p].iConfigReg
      /\ r.m_mChildPort = router[p].m_mChildPort
  BY <1>2 DEF Routers
<1>. HIDE DEF r
<1>4. router'[p] = r
  BY <1>1 DEF Shape
<1>5. AfterStage1(r) = IF Stage(p) = 1 THEN "finish" ELSE "loop"
  BY <1>2, <1>3 DEF AfterStage1, LoopOrUndefined, Stage
<1>. QED
  BY <1>1, <1>3, <1>4, <1>5 DEF Shape

LEMMA FollowerStep ==
  ASSUME Shape, Registration, Placed, Sound, NEW p \in Pids, Step(p),
         Follower(p), pc[p] \notin Starting
  PROVE  Follower(p)' /\ ~Fork(p)
<1>0. /\ pc \in [Pids -> Phases] /\ router \in [Pids -> Routers(config, DOMAIN inbox)]
      /\ Stage(p) \in 0..11
  BY RouterTypes DEF Shape
<1>1. ASSUME StageEngine(p) PROVE Follower(p)'
  <2>. DEFINE i == router[p].iConfigReg
  <2>1. /\ i \in StagesIn(config) /\ config[i].value \in 1..10
        /\ TakenFrom(i, router'[p]) /\ pc' = [pc EXCEPT ![p] = "bind"]
        /\ router'[p].iFPID = router[p].iFPID
    BY <1>1, NextStage DEF Sound
  <2>2. pc[p] = "engine"
    BY <1>1 DEF StageEngine
  <2>3. PICK j \in StagesIn(config) : TakenFrom(j, router[p])
    BY DEF Placed, AtStage, Sound, Follower, Stage
  <2>4. config[j].value # 1 /\ j < i
    <3>1. config[j].value = Stage(p)
      BY <2>3 DEF TakenFrom, Stage
    <3>2. i = j + SizeOf(Stage(p)) /\ SizeOf(Stage(p)) \in {2, 3} /\ j \in Nat
      BY <2>3, ShapeFacts DEF TakenFrom, Stage, StagesIn, SizeOf
    <3>. QED
      BY <2>2, <3>1, <3>2 DEF Follower
  <2>5. ~(config[i].value \in 1..5)
    BY <2>1, <2>4 DEF Sound, Sequential
  <2>6. Stage(p)' = config[i].value /\ Stage(p)' >= 6
    BY <2>1, <2>5 DEF TakenFrom, Stage
  <2>7. pc'[p] = "bind" /\ ~IsPrimary(p)'
    BY <1>0, <2>1 DEF Follower, IsPrimary
  <2>. QED
    BY <2>1, <2>6, <2>7 DEF Follower
<1>2. ASSUME Quit(p) \/ Leave(p) \/ Fail(p) \/ Finish(p)
      PROVE  Follower(p)'
  <2>1. router' = router /\ \/ pc[p] = "loop" /\ pc'[p] = "engine"
                            \/ pc'[p] = "ended"
    BY <1>0, <1>2 DEF Quit, Leave, Fail, Finish, Go, Follower
  <2>2. IsPrimary(p)' = IsPrimary(p) /\ Stage(p)' = Stage(p)
    BY <2>1 DEF IsPrimary, Stage
  <2>. QED
    BY <2>1, <2>2 DEF Follower
<1>3. ASSUME Bind(p) PROVE Follower(p)'
  <2>1. router' = router /\ pc[p] = "bind" /\ pc'[p] = "fork"
    BY <1>0, <1>3 DEF Bind, Go
  <2>2. IsPrimary(p)' = IsPrimary(p) /\ Stage(p)' = Stage(p)
    BY <2>1 DEF IsPrimary, Stage
  <2>. QED
    BY <2>1, <2>2 DEF Follower
<1>4. ~Fork(p) /\ ~ForkFails(p)
  BY <1>0 DEF Fork, ForkFails, Forks, Follower
<1>5. ASSUME EnterLoop(p) PROVE Follower(p)'
  <2>1. router' = router /\ pc[p] = "fork" /\ pc'[p] \in {"loop", "undefined"}
    BY <1>0, <1>5 DEF EnterLoop, Go, LoopOrUndefined
  <2>2. IsPrimary(p)' = IsPrimary(p) /\ Stage(p)' = Stage(p)
    BY <2>1 DEF IsPrimary, Stage
  <2>. QED
    BY <2>1, <2>2 DEF Follower
<1>6. ~Register(p) /\ ~Registered(p) /\ ~Receive(p) /\ ~Reap(p)
  BY DEF Register, Registered, Become, Receive, Reap, Follower, Starting
<1>7. ~Fork(p)
  BY <1>4
<1>. QED
  BY <1>1, <1>2, <1>3, <1>4, <1>5, <1>6, <1>7 DEF Step

LEMMA RootKept ==
  ASSUME Shape, Registration, Placed, Sound, [Next]_vars, NEW r \in Pids, Root(r)
  PROVE  Root(r)'
<1>0. /\ pc \in [Pids -> Phases] /\ router \in [Pids -> Routers(config, DOMAIN inbox)]
  BY DEF Shape
<1>1. CASE UNCHANGED vars
  BY <1>1 DEF vars, Root, Follower, IsPrimary, Stage
<1>2. ASSUME NEW p \in Pids, Step(p)
      PROVE  Root(r)'
  <2>1. IsPrimary(r)' /\ pc'[r] \notin Starting
    <3>1. IsPrimary(r) /\ pc[r] \notin Starting
      BY DEF Root
    <3>2. CASE Fork(p)
      <4>1. PICK q \in Pids :
           /\ q # p /\ pc[q] = "none"
           /\ pc'[p] = "receive"
           /\ \A o \in Pids \ {p, q} : pc'[o] = pc[o] /\ router'[o] = router[o]
           /\ router'[p].iFPID = q
        BY <3>2, Forked
      <4>. QED
        BY <3>1, <4>1, StagesAssumption DEF IsPrimary, Starting
    <3>3. CASE ~Fork(p) /\ p # r
      BY <1>2, <3>1, <3>3, Others DEF IsPrimary
    <3>4. CASE ~Fork(p) /\ p = r
      <4>1. ~Register(p) /\ ~Registered(p)
        BY <3>1, <3>4 DEF Register, Registered, Become, Starting
      <4>2. CASE Receive(p)
        BY <1>0, <3>1, <3>4, <4>2, ReceivedMap DEF IsPrimary, AfterStage1, LoopOrUndefined, Starting
      <4>3. CASE StageEngine(p)
        BY <1>0, <3>1, <3>4, <4>3 DEF StageEngine, Go, IsPrimary, Routers, Starting
      <4>4. CASE Quit(p) \/ Bind(p) \/ ForkFails(p) \/ EnterLoop(p)
                 \/ Leave(p) \/ Fail(p) \/ Finish(p) \/ Reap(p)
        BY <1>0, <3>1, <3>4, <4>4 DEF Quit, Bind, ForkFails, EnterLoop, Leave, Fail, Finish, Reap,
           Go, AfterStage1, LoopOrUndefined, IsPrimary, Starting
      <4>. QED
        BY <1>2, <3>4, <4>1, <4>2, <4>3, <4>4 DEF Step
    <3>. QED
      BY <3>2, <3>3, <3>4
  <2>2. ASSUME NEW q \in Pids \ {r}
        PROVE  pc'[q] \in Starting \/ Follower(q)'
    <3>1. pc[q] \in Starting \/ Follower(q)
      BY DEF Root
    <3>2. CASE q # p /\ ~Fork(p)
      <4>1. pc'[q] = pc[q] /\ router'[q] = router[q]
        BY <1>2, <3>2, Others
      <4>. QED
        BY <3>1, <4>1 DEF Follower, IsPrimary, Stage
    <3>3. CASE q # p /\ Fork(p)
      <4>1. PICK o \in Pids :
             /\ pc'[o] = "register"
             /\ \A x \in Pids \ {p, o} : pc'[x] = pc[x] /\ router'[x] = router[x]
        BY <3>3, Forked
      <4>2. CASE q = o
        BY <4>1, <4>2 DEF Starting
      <4>3. CASE q # o
        BY <3>1, <3>3, <4>1, <4>3 DEF Follower, IsPrimary, Stage
      <4>. QED
        BY <4>2, <4>3
    <3>4. CASE q = p /\ pc[p] \notin Starting
      BY <1>2, <3>1, <3>4, FollowerStep
    <3>5. CASE q = p /\ Register(p)
      BY <1>0, <3>5 DEF Register, Go, Starting
    <3>6. CASE q = p /\ Registered(p)
      <4>1. Stage(p) \in 1..10
        <5>1. pc[p] = "registered"
          BY <3>6 DEF Registered, Become
        <5>2. PICK i \in StagesIn(config) : TakenFrom(i, router[p])
          BY <5>1 DEF Placed, AtStage, Sound
        <5>. QED
          BY <5>2 DEF Sound, WellFormed, TakenFrom, Stage
      <4>2. /\ router'[p].iFPID = 0 /\ router'[p].iStage = router[p].iStage
            /\ IF Stage(p) <= 5
               THEN pc'[p] = IF Stage(p) = 1 THEN "finish" ELSE "loop"
               ELSE pc'[p] = "fork"
        BY <3>6, Became
      <4>. QED
        BY <3>6, <4>1, <4>2 DEF Follower, IsPrimary, Stage
    <3>7. CASE q = p /\ pc[p] \in Starting /\ ~Register(p) /\ ~Registered(p)
      BY <1>2, <3>7 DEF Starting, Step, StageEngine, Quit, Bind, Fork, ForkFails, EnterLoop,
                        Receive, Leave, Fail, Finish, Reap
    <3>. QED
      BY <3>2, <3>3, <3>4, <3>5, <3>6, <3>7
  <2>. QED
    BY <2>1, <2>2 DEF Root
<1>. QED
  BY <1>1, <1>2 DEF Next

LEMMA OneRootInit == Init => OneRoot
<1>. SUFFICES ASSUME Init PROVE Root(lastPid) /\ lastPid \in Pids
  BY DEF OneRoot
<1>1. lastPid \in Pids /\ pc[lastPid] = "engine" /\ router[lastPid].iFPID = 1
  BY StagesAssumption DEF Init, NewRouter
<1>2. \A p \in Pids \ {lastPid} : pc[p] = "none"
  BY DEF Init
<1>. QED
  BY <1>1, <1>2 DEF Root, IsPrimary, Starting

LEMMA ConfigKept ==
  [Next]_vars => UNCHANGED <<file, config>> /\ (Sound' <=> Sound)
<1>1. [Next]_vars => UNCHANGED <<file, config>>
  <2>1. ASSUME NEW p \in Pids, Step(p) PROVE UNCHANGED <<file, config>>
    <3>1. CASE StageEngine(p) \/ Quit(p) \/ Bind(p) \/ Fork(p) \/ ForkFails(p)
               \/ Leave(p) \/ Fail(p) \/ Finish(p) \/ Reap(p)
      BY <3>1 DEF StageEngine, Quit, Bind, Fork, ForkFails, Leave, Fail, Finish, Reap
    <3>2. CASE EnterLoop(p) \/ Register(p)
      BY <3>2 DEF EnterLoop, Register
    <3>3. CASE Registered(p) \/ Receive(p)
      BY <3>3 DEF Registered, Become, Receive
    <3>. QED
      BY <2>1, <3>1, <3>2, <3>3 DEF Step
  <2>. QED
    BY <2>1 DEF Next, vars
<1>2. UNCHANGED config => (Sound' <=> Sound)
  BY DEF Sound, WellFormed, Sequential, StagesIn
<1>. QED
  BY <1>1, <1>2

LEMMA OneRootStep == Shape /\ Registration /\ Placed /\ OneRoot /\ [Next]_vars => OneRoot'
<1>. SUFFICES ASSUME Shape, Registration, Placed, OneRoot, [Next]_vars, Sound'
              PROVE  \E r \in Pids : Root(r)'
  BY DEF OneRoot
<1>1. Sound
  BY ConfigKept
<1>2. PICK r \in Pids : Root(r)
  BY <1>1 DEF OneRoot
<1>. QED
  BY <1>1, <1>2, RootKept

\* Children go on to the file's next stage with all of their parent's state: yet
\* only one process acts as the primary router, and reads the tunnel, at a time.
THEOREM OneReadsTheTunnel == Spec => []OnePrimary
<1>1. OneRoot => OnePrimary
  <2>. SUFFICES ASSUME Sound, NEW r \in Pids, Root(r),
                       NEW p \in Pids, InLoop(p)
                PROVE  p = r
    BY DEF OneRoot, OnePrimary
  <2>. QED
    BY DEF Root, InLoop, Follower, Starting
<1>. QED
  BY <1>1, ShapeInit, ShapeStep, RegistrationInit, RegistrationStep, PlacedInit, PlacedStep,
     OneRootInit, OneRootStep, PTL DEF Spec

-----------------------------------------------------------------------------
(* The ports of the primary router                                          *)

\* q reads port a, or is about to.
ReadBy(q, a) ==
  \/ pc[q] = "registered" /\ Port(q) = a
  \/ pc[q] \notin Starting /\ ~IsPrimary(q) /\ router[q].iSockID = a

MapRead(p) ==
  /\ \A q \in Children(p) : ReadBy(q, router[p].m_mChildPort[q])
  /\ pc[p] = "receive" /\ pc[router[p].iFPID] # "register" =>
       ReadBy(router[p].iFPID, <<router[p].iFPID, router[p].iConfigReg>>)

Read == Sound => \A p \in Pids : MapRead(p)

LEMMA SocketKept ==
  ASSUME Shape, NEW p \in Pids, Step(p), ~Fork(p), ~Receive(p), ~Registered(p)
  PROVE  /\ router'[p].iSockID = router[p].iSockID
         /\ router'[p].iRouterID = router[p].iRouterID
         /\ router'[p].iFPID = router[p].iFPID
<1>1. CASE StageEngine(p)
  BY <1>1 DEF StageEngine, Shape, Routers
<1>2. CASE Quit(p) \/ Bind(p) \/ ForkFails(p) \/ EnterLoop(p)
  BY <1>2 DEF Quit, Bind, ForkFails, EnterLoop
<1>3. CASE Register(p) \/ Leave(p) \/ Fail(p) \/ Finish(p) \/ Reap(p)
  BY <1>3 DEF Register, Leave, Fail, Finish, Reap
<1>. QED
  BY <1>1, <1>2, <1>3 DEF Step

LEMMA MapsKept ==
  ASSUME Shape, Registration, NEW p \in Pids, Step(p), ~Fork(p), ~Receive(p), NEW o \in Pids
  PROVE  router'[o].m_mChildPort = router[o].m_mChildPort
<1>1. CASE Quiet(p)
  BY <1>1 DEF Quiet
<1>2. CASE Bind(p) \/ Register(p)
  BY <1>2 DEF Bind, Register
<1>. QED
  BY <1>1, <1>2, QuietSteps DEF Step

\* Who has started does not start again.
LEMMA Started ==
  ASSUME Shape, NEW p \in Pids, Step(p), pc[p] \notin Starting
  PROVE  pc'[p] \notin Starting
<1>0. pc \in [Pids -> Phases]
  BY DEF Shape
<1>1. ~Register(p) /\ ~Registered(p)
  BY DEF Register, Registered, Become, Starting
<1>2. CASE StageEngine(p) \/ Quit(p) \/ Bind(p)
  BY <1>0, <1>2 DEF StageEngine, Quit, Bind, Go, Starting
<1>3. CASE Fork(p)
  <2>1. \E q \in Pids : q # p /\ pc' = [pc EXCEPT ![p] = "receive", ![q] = "register"]
    BY <1>3 DEF Fork, IsNextPid
  <2>. QED
    BY <1>0, <2>1 DEF Starting
<1>4. CASE ForkFails(p) \/ Receive(p)
  BY <1>0, <1>4 DEF ForkFails, Receive, Go, AfterStage1, LoopOrUndefined, Starting
<1>5. CASE EnterLoop(p)
  BY <1>0, <1>5 DEF EnterLoop, Go, LoopOrUndefined, Starting
<1>6. CASE Leave(p) \/ Fail(p) \/ Finish(p) \/ Reap(p)
  BY <1>0, <1>6 DEF Leave, Fail, Finish, Reap, Go, Starting
<1>. QED
  BY <1>1, <1>2, <1>3, <1>4, <1>5, <1>6 DEF Step

LEMMA StartingStep ==
  ASSUME NEW p \in Pids, Step(p), pc[p] \in Starting
  PROVE  Register(p) \/ Registered(p)
BY DEF Starting, Step, StageEngine, Quit, Bind, Fork, ForkFails, EnterLoop,
       Receive, Leave, Fail, Finish, Reap

\* Only Fork makes a process wait for a registration.
LEMMA Awaited ==
  ASSUME Shape, Registration, NEW x \in Pids, Step(x), NEW p \in Pids, pc'[p] = "receive",
         ~(Fork(x) /\ p = x)
  PROVE  /\ p # x /\ pc[p] = "receive" /\ router'[p] = router[p] /\ frame'[p] = frame[p]
<1>1. CASE p # x /\ ~Fork(x)
  BY <1>1, Others
<1>2. CASE p # x /\ Fork(x)
  <2>1. PICK q \in Pids :
           /\ pc'[q] = "register"
           /\ \A o \in Pids \ {x, q} : pc'[o] = pc[o] /\ router'[o] = router[o] /\ frame'[o] = frame[o]
    BY <1>2, Forked
  <2>. QED
    BY <1>2, <2>1
<1>3. ASSUME p = x, ~Fork(x) PROVE FALSE
  <2>1. ~Quiet(x)
    BY <1>3 DEF Quiet
  <2>2. ~Bind(x) /\ ~Register(x)
    BY <1>3 DEF Bind, Register, Go, Shape
  <2>3. ~Receive(x)
    BY <1>3, ReceivedMap DEF AfterStage1, LoopOrUndefined, Shape
  <2>. QED
    BY <1>3, <2>1, <2>2, <2>3, QuietSteps DEF Step
<1>. QED
  BY <1>1, <1>2, <1>3

LEMMA ReadByKept ==
  ASSUME Shape, Registration, Placed, Sound, OneRoot, NEW x \in Pids, Step(x),
         NEW q \in Pids, NEW a, ReadBy(q, a)
  PROVE  ReadBy(q, a)'
<1>1. CASE q # x
  <2>1. pc'[q] = pc[q] /\ router'[q] = router[q]
    <3>1. CASE ~Fork(x)
      BY <1>1, <3>1, Others
    <3>2. CASE Fork(x)
      <4>1. PICK o \in Pids :
              /\ pc[o] = "none"
              /\ \A y \in Pids \ {x, o} : pc'[y] = pc[y] /\ router'[y] = router[y]
        BY <3>2, Forked
      <4>. QED
        BY <1>1, <4>1 DEF ReadBy, Starting
    <3>. QED
      BY <3>1, <3>2
  <2>. QED
    BY <2>1 DEF ReadBy, Port, IsPrimary
<1>2. CASE q = x /\ pc[q] = "registered"
  <2>1. Registered(q)
    BY <1>2, StartingStep DEF Starting, Register
  <2>2. /\ router'[q].iFPID = 0 /\ router'[q].iSockID = Port(q)
        /\ pc'[q] \in {"finish", "loop", "fork"}
    BY <2>1, Became
  <2>. QED
    BY <1>2, <2>2 DEF ReadBy, IsPrimary, Starting
<1>3. CASE q = x /\ pc[q] # "registered"
  <2>1. PICK r \in Pids : Root(r)
    BY DEF OneRoot
  <2>2. pc[q] \notin Starting /\ ~IsPrimary(q) /\ router[q].iSockID = a /\ Follower(q)
    BY <1>3, <2>1 DEF ReadBy, Root
  <2>3. Follower(q)' /\ ~Fork(q) /\ ~Receive(q) /\ ~Registered(q)
    BY <1>3, <2>2, FollowerStep DEF Receive, Registered, Become, Follower
  <2>4. pc'[q] \notin Starting
    BY <1>3, <2>2, Started
  <2>5. router'[q].iSockID = router[q].iSockID
    BY <1>3, <2>3, SocketKept
  <2>. QED
    BY <2>2, <2>3, <2>4, <2>5 DEF ReadBy, Follower
<1>. QED
  BY <1>1, <1>2, <1>3

LEMMA ReadStep ==
  Shape /\ Registration /\ Placed /\ OneRoot /\ Read /\ [Next]_vars => Read'
<1>. SUFFICES ASSUME Shape, Registration, Placed, OneRoot, Read, [Next]_vars, Sound'
              PROVE  \A p \in Pids : MapRead(p)'
  BY DEF Read
<1>0. Sound /\ \A p \in Pids : MapRead(p) /\ Children(p) \subseteq Pids
  BY ConfigKept, ChildrenType DEF Read
<1>1. CASE UNCHANGED vars
  BY <1>0, <1>1 DEF vars, MapRead, ReadBy, Children, Port, IsPrimary
<1>2. ASSUME NEW x \in Pids, Step(x), NEW p \in Pids
      PROVE  MapRead(p)'
  <2>1. ASSUME NEW m, m = router'[p].m_mChildPort, NEW q \in DOMAIN m
        PROVE  \E a : a = m[q] /\ q \in Pids /\ ReadBy(q, a)'
    <3>1. \A o \in Pids : \A y \in Children(o) : y \in Pids /\ ReadBy(y, router[o].m_mChildPort[y])
      BY <1>0 DEF MapRead
    <3>2. CASE ~Fork(x) /\ ~Receive(x)
      <4>1. m = router[p].m_mChildPort
        BY <1>2, <2>1, <3>2, MapsKept
      <4>2. PICK a : a = m[q]
        OBVIOUS
      <4>3. q \in Pids /\ ReadBy(q, a)
        BY <3>1, <4>1, <4>2 DEF Children
      <4>. QED
        BY <1>0, <1>2, <4>2, <4>3, ReadByKept
    <3>3. CASE Fork(x)
      <4>1. \E o \in Pids : m = router[o].m_mChildPort
        <5>1. PICK y \in Pids :
             /\ \A o \in Pids \ {x, y} : router'[o] = router[o]
             /\ router'[y] = router[x]
             /\ router'[x].m_mChildPort = router[x].m_mChildPort
          BY <3>3, Forked
        <5>. QED
          BY <2>1, <5>1
      <4>2. PICK a : a = m[q]
        OBVIOUS
      <4>3. q \in Pids /\ ReadBy(q, a)
        BY <3>1, <4>1, <4>2 DEF Children
      <4>. QED
        BY <1>0, <1>2, <4>2, <4>3, ReadByKept
    <3>4. CASE Receive(x)
      <4>1. PICK f : f = router[x].iFPID
        OBVIOUS
      <4>2. PICK b : b = <<f, router[x].iConfigReg>>
        OBVIOUS
      <4>3. \/ m = router[p].m_mChildPort
            \/ m = Put(router[x].m_mChildPort, f, b)
        <5>1. CASE p # x
          BY <2>1, <3>4, <5>1, ReceivedMap
        <5>2. CASE p = x
          BY <2>1, <3>4, <4>1, <4>2, <5>2, ReceivedMap
        <5>. QED
          BY <5>1, <5>2
      <4>4. f \in Pids /\ ReadBy(f, b)
        <5>1. f \in Pids /\ pc[f] \notin New /\ pc[x] = "receive"
          BY <3>4, <4>1, Received DEF Receive
        <5>. QED
          BY <1>0, <4>1, <4>2, <5>1 DEF MapRead, New
      <4>5. PICK a : a = m[q]
        OBVIOUS
      <4>6. q \in Pids /\ ReadBy(q, a)
        <5>1. CASE m = router[p].m_mChildPort
          BY <3>1, <4>5, <5>1 DEF Children
        <5>2. CASE m = Put(router[x].m_mChildPort, f, b)
          <6>1. \/ q = f /\ a = b
                \/ q \in Children(x) /\ a = router[x].m_mChildPort[q]
            BY <4>5, <5>2 DEF Put, Children
          <6>. QED
            BY <3>1, <4>4, <6>1
        <5>. QED
          BY <4>3, <5>1, <5>2
      <4>. QED
        BY <1>0, <1>2, <4>5, <4>6, ReadByKept
    <3>. QED
      BY <3>2, <3>3, <3>4
  <2>2. ASSUME NEW f, NEW b, f = router'[p].iFPID, b = <<f, router'[p].iConfigReg>>,
               pc'[p] = "receive", pc'[f] # "register"
        PROVE  ReadBy(f, b)'
    <3>1. ~(Fork(x) /\ p = x)
      BY <2>2, Forked
    <3>2. /\ p # x /\ pc[p] = "receive" /\ f = router[p].iFPID
          /\ b = <<f, router[p].iConfigReg>>
      BY <1>2, <2>2, <3>1, Awaited
    <3>3. Awaits(p, f)
      BY <3>2 DEF Registration, Waiting
    <3>4. CASE pc[f] # "register"
      <4>1. ReadBy(f, b)
        BY <1>0, <3>2, <3>4 DEF MapRead
      <4>. QED
        BY <1>0, <1>2, <3>3, <4>1, ReadByKept DEF Awaits
    <3>5. CASE pc[f] = "register"
      <4>1. f = x /\ ~Fork(x)
        <5>1. CASE Fork(x)
          <6>1. PICK o \in Pids :
              /\ pc[o] = "none" /\ pc[x] = "fork"
              /\ \A y \in Pids \ {x, o} : pc'[y] = pc[y]
            BY <5>1, Forked
          <6>. QED
            BY <2>2, <3>3, <3>5, <6>1 DEF Awaits
        <5>2. CASE ~Fork(x)
          BY <1>2, <2>2, <3>3, <3>5, <5>2, Others DEF Awaits
        <5>. QED
          BY <5>1, <5>2
      <4>2. Register(x)
        BY <1>2, <3>5, <4>1 DEF Step, StageEngine, Quit, Bind, Fork, ForkFails, EnterLoop,
           Registered, Become, Receive, Leave, Fail, Finish, Reap
      <4>3. pc'[x] = "registered" /\ router' = router
        BY <4>2 DEF Register, Go, Shape
      <4>4. router[f].iConfigReg = router[p].iConfigReg
        BY <3>3, <3>5 DEF Awaits, New
      <4>5. Port(f)' = b
        BY <3>2, <4>3, <4>4 DEF Port
      <4>. QED
        BY <4>1, <4>3, <4>5 DEF ReadBy
    <3>. QED
      BY <3>4, <3>5
  <2>. QED
    BY <2>1, <2>2 DEF MapRead, Children
<1>. QED
  BY <1>1, <1>2 DEF Next

\* Whatever fails, each port the primary router of stages 6 to 10 sends to is
\* the one its secondary reads, also when a later stage inherits the ports of an
\* earlier one.
THEOREM PortsHaveReaders == Spec => []PortsAreRead
<1>1. Init => Read
  BY DEF Init, Read, MapRead, Children, NewRouter
<1>2. Read => PortsAreRead
  BY DEF Read, MapRead, PortsAreRead, ReadBy, Children
<1>. QED
  BY <1>1, <1>2, ShapeInit, ShapeStep, RegistrationInit, RegistrationStep, PlacedInit,
     PlacedStep, OneRootInit, OneRootStep, ReadStep, PTL DEF Spec

-----------------------------------------------------------------------------
(* The order of the children                                                *)

\* The number q has, or is about to get.
Number0(q) == IF pc[q] \in Starting THEN IdOf(q) ELSE router[q].iRouterID

InOrder ==
  /\ Sound /\ Cardinality(MultiForkStages(config)) = 1
  /\ faults \cap {"fork", "order"} = {}

\* The children of r have their numbers in the order of their process numbers.
Ranked(r) ==
  /\ \A q \in Children(r) :
       /\ q <= lastPid
       /\ Number0(q) \in 1..Cardinality(Children(r))
  /\ \A q, o \in Children(r) : q < o => Number0(q) < Number0(o)
  /\ Stage(r) <= 5 \/ pc[r] = "bind" => Children(r) = {}
  /\ Stage(r) >= 6 /\ pc[r] \in {"fork", "receive"} =>
       Cardinality(Children(r)) = frame[r].i
  /\ Stage(r) >= 6 /\ pc[r] = "receive" =>
       /\ router[r].iFPID = lastPid
       /\ \A q \in Children(r) : q < lastPid
       /\ Number0(lastPid) = frame[r].i + 1

Ranking == InOrder => \A r \in Pids : Root(r) => Ranked(r)

LastPid == lastPid \in Pids

LEMMA NumbersKept ==
  ASSUME Shape, Registration, NEW x \in Pids, Step(x), ~Fork(x), NEW q \in Pids
  PROVE  Number0(q)' = Number0(q)
<1>1. CASE q # x
  <2>1. pc'[q] = pc[q] /\ router'[q] = router[q] /\ frame'[q] = frame[q]
    BY <1>1, Others
  <2>. QED
    BY <2>1 DEF Number0, IdOf, Stage
<1>2. CASE q = x /\ pc[q] \in Starting
  <2>1. Register(q) \/ Registered(q)
    BY <1>2, StartingStep
  <2>2. CASE Register(q)
    <3>1. pc'[q] = "registered" /\ router' = router /\ frame' = frame
      BY <2>2 DEF Register, Go, Shape
    <3>. QED
      BY <1>2, <3>1 DEF Number0, IdOf, Stage, Starting
  <2>3. CASE Registered(q)
    <3>1. router'[q].iRouterID = IdOf(q) /\ pc'[q] \in {"finish", "loop", "fork"}
      BY <2>3, Became
    <3>. QED
      BY <1>2, <3>1 DEF Number0, Starting
  <2>. QED
    BY <2>1, <2>2, <2>3
<1>3. CASE q = x /\ pc[q] \notin Starting
  <2>1. pc'[q] \notin Starting
    BY <1>3, Started
  <2>2. router'[q].iRouterID = router[q].iRouterID
    <3>1. CASE Receive(q)
      BY <3>1, ReceivedMap
    <3>2. CASE ~Receive(q)
      <4>1. ~Registered(q)
        BY <1>3 DEF Registered, Become, Starting
      <4>. QED
        BY <1>3, <3>2, <4>1, SocketKept
    <3>. QED
      BY <3>1, <3>2
  <2>. QED
    BY <1>3, <2>1, <2>2 DEF Number0
<1>. QED
  BY <1>1, <1>2, <1>3

\* Only the root forks.
LEMMA RootForks ==
  ASSUME Shape, Registration, Placed, Sound, NEW r \in Pids, Root(r),
         NEW x \in Pids, Fork(x)
  PROVE  x = r
<1>1. pc[x] = "fork"
  BY DEF Fork
<1>2. ASSUME x # r PROVE FALSE
  <2>1. Follower(x)
    BY <1>1, <1>2 DEF Root, Starting
  <2>. QED
    BY <1>1, <2>1, FollowerStep DEF Step, Starting
<1>. QED
  BY <1>2

LEMMA RootBefore ==
  ASSUME Shape, Registration, Placed, Sound, OneRoot, [Next]_vars, NEW r \in Pids, Root(r)'
  PROVE  Root(r)
<1>1. PICK s \in Pids : Root(s)
  BY DEF OneRoot
<1>2. Root(s)'
  BY <1>1, RootKept
<1>3. s = r
  BY <1>2 DEF Root, Follower
<1>. QED
  BY <1>1, <1>3

\* After its stage with several routers the root takes no other.
LEMMA LastStage ==
  ASSUME Shape, Placed, InOrder, NEW r \in Pids, StageEngine(r)
  PROVE  Stage(r) <= 5
<1>1. SUFFICES ASSUME ~(Stage(r) <= 5) PROVE FALSE
  OBVIOUS
<1>2. Stage(r) \in 6..11 /\ WellFormed(config) /\ Sequential(config)
  BY <1>1, RouterTypes DEF InOrder, Sound
<1>3. PICK i : i = router[r].iConfigReg
  OBVIOUS
<1>4. i \in StagesIn(config) /\ config[i].value \in 1..10
  BY <1>2, <1>3, NextStage
<1>5. PICK j \in StagesIn(config) : TakenFrom(j, router[r])
  BY <1>2 DEF Placed, AtStage, Stage
<1>6. config[j].value = Stage(r) /\ i = j + SizeOf(Stage(r)) /\ i \in Nat /\ j \in Nat
  BY <1>3, <1>4, <1>5, ShapeFacts DEF TakenFrom, Stage, StagesIn
<1>7. j < i /\ i # j
  BY <1>2, <1>6 DEF SizeOf
<1>8. config[i].value > 5 /\ config[j].value > 5
  BY <1>2, <1>4, <1>6, <1>7 DEF Sequential
<1>9. i \in MultiForkStages(config) /\ j \in MultiForkStages(config)
  BY <1>4, <1>8 DEF MultiForkStages
<1>10. IsFiniteSet(MultiForkStages(config))
  <2>1. MultiForkStages(config) \subseteq 1..Len(config) /\ Len(config) \in Nat
    BY ShapeFacts DEF MultiForkStages, StagesIn
  <2>2. IsFiniteSet(1..Len(config))
    BY <2>1, FS_Interval
  <2>. QED
    BY <2>1, <2>2, FS_Subset
<1>11. MultiForkStages(config) = {i}
  <2>. PICK S : S = MultiForkStages(config)
    OBVIOUS
  <2>1. IsFiniteSet(S) /\ Cardinality(S) = 1 /\ i \in S
    BY <1>9, <1>10 DEF InOrder
  <2>. QED
    BY <1>9, <2>1, FS_Singleton
<1>. QED
  BY <1>7, <1>9, <1>11

LEMMA RankedKept ==
  ASSUME NEW r \in Pids, Ranked(r), Children(r)' = Children(r), lastPid' = lastPid,
         Children(r) \subseteq Pids, \A q \in Pids : Number0(q)' = Number0(q),
         \/ router'[r] = router[r] /\ pc'[r] = pc[r] /\ frame'[r] = frame[r]
            /\ lastPid \in Pids
         \/ /\ Stage(r)' <= 5 \/ pc'[r] = "bind" => Children(r) = {}
            /\ Stage(r)' >= 6 /\ pc'[r] \in {"fork", "receive"} =>
                 pc'[r] = "fork" /\ Cardinality(Children(r)) = frame'[r].i
  PROVE  Ranked(r)'
<1>1. \A q \in Children(r) : Number0(q)' = Number0(q)
  OBVIOUS
<1>2. PICK n : n = Cardinality(Children(r))
  OBVIOUS
<1>3. Cardinality(Children(r))' = n
  BY <1>2
<1>4. /\ \A q \in Children(r) : q <= lastPid /\ Number0(q) \in 1..n
      /\ \A q, o \in Children(r) : q < o => Number0(q) < Number0(o)
  BY <1>2 DEF Ranked
<1>5. /\ \A q \in Children(r)' : q <= lastPid' /\ Number0(q)' \in 1..n
      /\ \A q, o \in Children(r)' : q < o => Number0(q)' < Number0(o)'
  BY <1>1, <1>4
<1>6. CASE router'[r] = router[r] /\ pc'[r] = pc[r] /\ frame'[r] = frame[r] /\ lastPid \in Pids
  <2>1. Stage(r)' = Stage(r)
    BY <1>6 DEF Stage
  <2>2. Number0(lastPid)' = Number0(lastPid)
    BY <1>6
  <2>. QED
    BY <1>2, <1>3, <1>5, <1>6, <2>1, <2>2 DEF Ranked
<1>7. CASE /\ Stage(r)' <= 5 \/ pc'[r] = "bind" => Children(r) = {}
           /\ Stage(r)' >= 6 /\ pc'[r] \in {"fork", "receive"} =>
                 pc'[r] = "fork" /\ Cardinality(Children(r)) = frame'[r].i
  BY <1>2, <1>3, <1>5, <1>7 DEF Ranked
<1>. QED
  BY <1>6, <1>7

LEMMA RankedFork ==
  ASSUME Shape, Registration, NEW r \in Pids, Root(r), Ranked(r), Fork(r),
         faults' \cap {"order"} = {}, lastPid \in Pids
  PROVE  Ranked(r)'
<1>1. PICK o \in Pids :
           /\ o # r /\ pc[r] = "fork" /\ pc[o] = "none" /\ o \notin Children(r)
           /\ pc'[r] = "receive" /\ pc'[o] = "register"
           /\ \A q \in Pids \ {r, o} : pc'[q] = pc[q] /\ router'[q] = router[q] /\ frame'[q] = frame[q]
           /\ router'[o] = router[r] /\ frame'[o] = frame[r] /\ frame'[r] = frame[r]
           /\ router'[r].iFPID = o
           /\ router'[r].m_mChildPort = router[r].m_mChildPort
           /\ router'[r].iStage = router[r].iStage
           /\ router'[r].iRouterID = router[r].iRouterID
           /\ lastPid' = o
           /\ faults' = IF o < lastPid THEN faults \cup {"order"} ELSE faults
  BY Forked
<1>2. \A q \in Children(r) : q \in Pids /\ q # o
  BY <1>1, ChildrenType
<1>3. \A q \in Pids : q \in Nat
  BY StagesAssumption
<1>4. o \in Nat /\ lastPid \in Nat /\ ~(o < lastPid)
  BY <1>1, <1>3
<1>00. PICK n : n = Cardinality(Children(r))
  OBVIOUS
<1>01. /\ \A q \in Children(r) : q <= lastPid /\ Number0(q) \in 1..n
       /\ \A q, s \in Children(r) : q < s => Number0(q) < Number0(s)
  BY <1>00 DEF Ranked
<1>5. \A q \in Children(r) : q < o /\ q <= o
  <2>. TAKE q \in Children(r)
  <2>1. q \in Nat /\ q # o /\ q <= lastPid
    BY <1>2, <1>3, <1>01
  <2>. QED
    BY <1>4, <2>1
<1>6. \A q \in Pids \ {o} : Number0(q)' = Number0(q)
  BY <1>1 DEF Number0, IdOf, Stage, Starting
<1>7. Stage(r)' = Stage(r) /\ Children(r)' = Children(r) /\ Stage(o)' = Stage(r)
  BY <1>1 DEF Stage, Children
<1>8. Stage(r) >= 6 => Number0(o)' = frame[r].i + 1
  <2>1. Number0(o)' = IdOf(o)'
    BY <1>1 DEF Number0, Starting
  <2>2. Stage(r) \in 0..11
    BY RouterTypes
  <2>3. Stage(r) >= 6 => IdOf(o)' = frame'[o].i + 1
    BY <1>7, <2>2 DEF IdOf
  <2>. QED
    BY <1>1, <2>1, <2>3
<1>10. /\ Cardinality(Children(r))' = n
       /\ \A q \in Children(r)' : q <= lastPid' /\ Number0(q)' \in 1..n
       /\ \A q, s \in Children(r)' : q < s => Number0(q)' < Number0(s)'
  <2>1. Cardinality(Children(r))' = n
    BY <1>00, <1>7
  <2>3. \A q \in Children(r) : Number0(q)' = Number0(q)
    BY <1>2, <1>6
  <2>. QED
    BY <1>1, <1>5, <1>7, <1>01, <2>1, <2>3
<1>11. Stage(r)' >= 6 => Number0(lastPid)' = frame'[r].i + 1
  BY <1>1, <1>7, <1>8
<1>12. Stage(r)' <= 5 \/ pc'[r] = "bind" => Children(r)' = {}
  BY <1>1, <1>7 DEF Ranked
<1>13. Stage(r)' >= 6 => n = frame'[r].i
  BY <1>1, <1>7, <1>00 DEF Ranked
<1>. QED
  BY <1>1, <1>5, <1>7, <1>10, <1>11, <1>12, <1>13 DEF Ranked

LEMMA RankedReceive ==
  ASSUME Shape, Registration, Finite, NEW r \in Pids, Root(r), Ranked(r), Receive(r),
         lastPid \in Pids
  PROVE  Ranked(r)'
<1>1. pc[r] = "receive" /\ lastPid' = lastPid /\ \A q \in Pids : q \in Nat
  BY StagesAssumption, ReceivedMap DEF Receive
<1>2. \A q \in Pids : Number0(q)' = Number0(q)
  <2>. SUFFICES ASSUME NEW q \in Pids PROVE Number0(q)' = Number0(q)
    OBVIOUS
  <2>1. ~Fork(r)
    BY <1>1 DEF Fork
  <2>. QED
    BY <2>1, NumbersKept DEF Step
<1>3. CASE Stage(r) <= 5
  <2>1. router' = router /\ pc'[r] \in {"finish", "loop", "undefined"}
    BY <1>3, ReceivedMap DEF AfterStage1, LoopOrUndefined, Shape
  <2>2. Children(r)' = Children(r) /\ Stage(r)' = Stage(r) /\ Children(r) = {}
    BY <1>3, <2>1 DEF Children, Stage, Ranked
  <2>3. Ranked(r)'
    BY <2>1, <2>2 DEF Ranked
  <2>. QED
    BY <2>3
<1>4. CASE ~(Stage(r) <= 5)
  <2>1. /\ pc'[r] = "fork" /\ Children(r)' = Children(r) \cup {lastPid}
        /\ Stage(r)' = Stage(r) /\ frame'[r].i = frame[r].i + 1 /\ Stage(r) >= 6
        /\ lastPid \notin Children(r)
    <3>0. Stage(r) \in 0..11
      BY RouterTypes
    <3>1. Stage(r) >= 6 /\ router[r].iFPID = lastPid
      BY <1>1, <1>4, <3>0 DEF Ranked
    <3>2. lastPid \notin Children(r)
      BY <3>1, Received
    <3>3. /\ pc' = [pc EXCEPT ![r] = "fork"]
          /\ Children(r)' = Children(r) \cup {lastPid}
          /\ router'[r].iStage = router[r].iStage
          /\ frame' = [frame EXCEPT ![r].i = @ + 1]
      BY <1>4, <3>1, ReceivedMap
    <3>4. pc'[r] = "fork" /\ Stage(r)' = Stage(r)
      BY <3>3 DEF Stage, Shape
    <3>5. frame'[r].i = frame[r].i + 1
      BY <3>3 DEF Shape, Frames
    <3>. QED
      BY <3>1, <3>2, <3>3, <3>4, <3>5
  <2>2. PICK C : C = Children(r)
    OBVIOUS
  <2>3. /\ IsFiniteSet(C) /\ Cardinality(C) = frame[r].i /\ frame[r].i \in Nat
        /\ C \subseteq Pids /\ Number0(lastPid) = frame[r].i + 1
        /\ \A q \in C : q < lastPid
    BY <1>1, <2>1, <2>2, ChildrenType, RouterTypes DEF Ranked, Finite
  <2>4. Cardinality(C \cup {lastPid}) = frame[r].i + 1
    BY <2>1, <2>2, <2>3, FS_AddElement
  <2>5. Cardinality(Children(r))' = frame[r].i + 1
    BY <2>1, <2>2, <2>4
  <2>6. /\ \A q \in C : Number0(q) \in 1..frame[r].i
        /\ \A q, o \in C : q < o => Number0(q) < Number0(o)
    BY <2>2, <2>3 DEF Ranked
  <2>7. \A q \in Children(r)' : q <= lastPid' /\ Number0(q)' \in 1..frame[r].i + 1
    BY <1>1, <1>2, <2>1, <2>2, <2>3, <2>6
  <2>8. \A q, o \in Children(r)' : q < o => Number0(q)' < Number0(o)'
    <3>. SUFFICES ASSUME NEW q \in C \cup {lastPid}, NEW o \in C \cup {lastPid}, q < o
                  PROVE  Number0(q) < Number0(o)
      BY <1>2, <2>1, <2>2, <2>3
    <3>0. q \in Nat /\ o \in Nat /\ lastPid \in Nat
      BY <1>1, <2>3
    <3>1. CASE q \in C /\ o \in C
      BY <2>6, <3>1
    <3>2. CASE q \in C /\ o = lastPid
      BY <2>3, <2>6, <3>2
    <3>3. q # lastPid
      BY <2>3, <3>0
    <3>. QED
      BY <3>1, <3>2, <3>3
  <2>9. ~(Stage(r)' <= 5) /\ pc'[r] = "fork"
    BY <1>4, <2>1
  <2>10. \A q \in Children(r)' : q <= lastPid' /\ Number0(q)' \in 1..Cardinality(Children(r))'
    BY <2>5, <2>7
  <2>11. Cardinality(Children(r))' = frame'[r].i
    BY <2>1, <2>5
  <2>. QED
    BY <2>8, <2>9, <2>10, <2>11 DEF Ranked
<1>. QED
  BY <1>3, <1>4

LEMMA LastPidKept ==
  ASSUME NEW x \in Pids, Step(x)
  PROVE  /\ ~Fork(x) => lastPid' = lastPid
         /\ lastPid \in Pids => lastPid' \in Pids
         /\ faults \subseteq faults'
<1>1. CASE StageEngine(x) \/ Quit(x) \/ Bind(x) \/ EnterLoop(x)
  BY <1>1 DEF StageEngine, Quit, Bind, EnterLoop
<1>2. CASE Fork(x) \/ ForkFails(x)
  BY <1>2 DEF Fork, ForkFails
<1>3. CASE Register(x) \/ Registered(x) \/ Receive(x)
  BY <1>3 DEF Register, Registered, Become, Receive
<1>4. CASE Leave(x) \/ Fail(x) \/ Finish(x) \/ Reap(x)
  BY <1>4 DEF Leave, Fail, Finish, Reap
<1>. QED
  BY <1>1, <1>2, <1>3, <1>4 DEF Step

LEMMA RankedStep ==
  ASSUME Shape, Registration, Placed, Finite, OneRoot, InOrder, InOrder', lastPid \in Pids,
         NEW r \in Pids, Root(r), Ranked(r), NEW x \in Pids, Step(x)
  PROVE  Ranked(r)'
<1>1. CASE Fork(x)
  <2>1. x = r
    BY <1>1, RootForks DEF InOrder
  <2>. QED
    BY <1>1, <2>1, RankedFork DEF InOrder
<1>2. CASE Receive(x) /\ x = r
  BY <1>2, RankedReceive
<1>. SUFFICES ASSUME ~Fork(x), ~(Receive(x) /\ x = r)
              PROVE  Ranked(r)'
  BY <1>1, <1>2
<1>3. /\ lastPid' = lastPid /\ \A q \in Pids : Number0(q)' = Number0(q)
      /\ Children(r) \subseteq Pids
  BY LastPidKept, NumbersKept, ChildrenType
<1>4. CASE x # r
  <2>1. router'[r] = router[r] /\ pc'[r] = pc[r] /\ frame'[r] = frame[r]
    BY <1>4, Others
  <2>2. Children(r)' = Children(r)
    BY <2>1 DEF Children
  <2>. QED
    BY <1>3, <2>1, <2>2, RankedKept
<1>5. CASE x = r
  <2>1. Children(r)' = Children(r)
    BY <1>5, MapsKept DEF Children
  <2>2. /\ Stage(r)' <= 5 \/ pc'[r] = "bind" => Children(r) = {}
        /\ Stage(r)' >= 6 /\ pc'[r] \in {"fork", "receive"} =>
             pc'[r] = "fork" /\ Cardinality(Children(r)) = frame'[r].i
    <3>0. /\ Stage(r) <= 5 \/ pc[r] = "bind" => Children(r) = {}
          /\ pc[r] \notin Starting
      BY DEF Ranked, Root
    <3>1. CASE StageEngine(r)
      <4>1. Children(r) = {}
        BY <3>0, <3>1, LastStage
      <4>2. pc'[r] \notin {"fork", "receive"}
        BY <3>1 DEF StageEngine, Go, Shape
      <4>. QED
        BY <4>1, <4>2
    <3>2. CASE Bind(r)
      <4>1. pc[r] = "bind" /\ pc'[r] = "fork" /\ frame'[r].i = 0
        BY <3>2 DEF Bind, Go, Shape
      <4>. QED
        BY <3>0, <4>1, FS_EmptySet
    <3>3. ~ForkFails(r)
      BY DEF ForkFails, InOrder
    <3>4. CASE Quit(r) \/ Leave(r) \/ Fail(r) \/ Finish(r) \/ Reap(r)
      <4>1. router' = router /\ pc'[r] \in {"ended", "engine", "reap"}
        BY <3>4 DEF Quit, Leave, Fail, Finish, Reap, Go, Shape
      <4>. QED
        BY <3>0, <4>1 DEF Stage
    <3>5. CASE EnterLoop(r)
      <4>1. router' = router /\ pc'[r] \in {"loop", "undefined"}
        BY <3>5 DEF EnterLoop, Go, LoopOrUndefined, Shape
      <4>. QED
        BY <3>0, <4>1 DEF Stage
    <3>6. ~Register(r) /\ ~Registered(r)
      BY <3>0 DEF Register, Registered, Become, Starting
    <3>. QED
      BY <1>5, <3>1, <3>2, <3>3, <3>4, <3>5, <3>6 DEF Step
  <2>. QED
    BY <1>3, <2>1, <2>2, RankedKept
<1>. QED
  BY <1>4, <1>5

LEMMA InOrderKept ==
  [Next]_vars /\ InOrder' => InOrder
<1>. SUFFICES ASSUME [Next]_vars, InOrder' PROVE InOrder
  OBVIOUS
<1>1. Sound /\ MultiForkStages(config)' = MultiForkStages(config)
  BY ConfigKept DEF InOrder, MultiForkStages, StagesIn
<1>2. faults \subseteq faults'
  BY LastPidKept DEF Next, vars
<1>3. Cardinality(MultiForkStages(config)) = 1
  <2>1. PICK S : S = MultiForkStages(config)
    OBVIOUS
  <2>2. MultiForkStages(config)' = S
    BY <1>1, <2>1
  <2>. QED
    BY <2>1, <2>2 DEF InOrder
<1>. QED
  BY <1>1, <1>2, <1>3 DEF InOrder

LEMMA RankingStep ==
  /\ Shape /\ Registration /\ Placed /\ Finite /\ OneRoot /\ LastPid
  /\ Ranking /\ [Next]_vars
  => Ranking' /\ LastPid'
<1>. SUFFICES ASSUME Shape, Registration, Placed, Finite, OneRoot, lastPid \in Pids,
                     Ranking, [Next]_vars
              PROVE  Ranking' /\ lastPid' \in Pids
  BY DEF LastPid
<1>1. ASSUME InOrder', NEW r \in Pids, Root(r)'
      PROVE  Ranked(r)'
  <2>1. InOrder
    BY <1>1, InOrderKept
  <2>2. Root(r)
    BY <1>1, <2>1, RootBefore DEF InOrder
  <2>3. Ranked(r)
    BY <2>1, <2>2 DEF Ranking
  <2>4. CASE UNCHANGED vars
    <3>1. Children(r)' = Children(r) /\ \A q \in Pids : Number0(q)' = Number0(q)
      BY <2>4 DEF vars, Children, Number0, IdOf, Stage
    <3>2. router' = router /\ pc' = pc /\ frame' = frame /\ lastPid' = lastPid
      BY <2>4 DEF vars
    <3>. QED
      BY <2>3, <3>1, <3>2, ChildrenType, RankedKept
  <2>. QED
    BY <1>1, <2>1, <2>2, <2>3, <2>4, RankedStep DEF Next
<1>2. lastPid' \in Pids
  BY LastPidKept DEF Next, vars
<1>. QED
  BY <1>1, <1>2 DEF Ranking

LEMMA RankingInit == Init => Ranking /\ LastPid
<1>1. ASSUME Init, NEW r \in Pids PROVE Ranked(r)
  <2>1. Children(r) = {} /\ pc[r] \notin {"fork", "receive"}
    BY <1>1 DEF Init, Children, NewRouter
  <2>. QED
    BY <2>1 DEF Ranked
<1>. QED
  BY <1>1, StagesAssumption DEF Init, Ranking, LastPid

\* What the root has done when it enters its loop.
Entered(r) ==
  pc[r] = "loop" /\ Stage(r) >= 6 =>
    /\ Cardinality(Children(r)) >= PortsUsed(Stage(r))
    /\ Stage(r) \in {9, 10} =>
         captive = <<frame[r].rou1Addr>> \o Ordered(router[r].m_mChildPort)

Saved == Sound => \A r \in Pids : Root(r) => Entered(r)

LEMMA SavedStep ==
  Shape /\ Registration /\ Placed /\ Finite /\ OneRoot /\ Saved /\ [Next]_vars => Saved'
<1>. SUFFICES ASSUME Shape, Registration, Placed, Finite, OneRoot, Saved, [Next]_vars, Sound',
                     NEW r \in Pids, Root(r)', pc'[r] = "loop", Stage(r)' >= 6
              PROVE  /\ Cardinality(Children(r))' >= PortsUsed(Stage(r)')
                     /\ Stage(r)' \in {9, 10} =>
                          captive' = <<frame'[r].rou1Addr>> \o Ordered(router'[r].m_mChildPort)
  BY DEF Saved, Entered
<1>1. Sound /\ Root(r) /\ Entered(r)
  BY ConfigKept, RootBefore DEF Saved
<1>2. CASE pc[r] = "loop" /\ router'[r] = router[r] /\ frame'[r] = frame[r] /\ captive' = captive
  <2>1. Stage(r)' = Stage(r) /\ Children(r)' = Children(r)
    BY <1>2 DEF Stage, Children
  <2>2. Cardinality(Children(r))' = Cardinality(Children(r))
    BY <2>1
  <2>. QED
    BY <1>1, <1>2, <2>1, <2>2 DEF Entered
<1>3. CASE UNCHANGED vars
  BY <1>2, <1>3 DEF vars
<1>4. ASSUME NEW x \in Pids, Step(x), x # r
      PROVE  pc[r] = "loop" /\ router'[r] = router[r] /\ frame'[r] = frame[r] /\ captive' = captive
  <2>1. ~Fork(x)
    BY <1>1, <1>4, RootForks
  <2>2. pc[r] = "loop" /\ router'[r] = router[r] /\ frame'[r] = frame[r]
    BY <1>4, <2>1, Others
  <2>3. captive' = captive
    <3>1. CASE EnterLoop(x)
      <4>1. pc[x] = "fork"
        BY <3>1 DEF EnterLoop
      <4>2. ~IsPrimary(x)
        BY <1>1, <1>4, <4>1 DEF Root, Follower, Starting
      <4>. QED
        BY <3>1, <4>2 DEF EnterLoop
    <3>2. CASE StageEngine(x) \/ Quit(x) \/ Bind(x) \/ ForkFails(x)
      BY <3>2 DEF StageEngine, Quit, Bind, ForkFails
    <3>3. CASE Register(x) \/ Registered(x) \/ Receive(x)
      BY <3>3 DEF Register, Registered, Become, Receive
    <3>4. CASE Leave(x) \/ Fail(x) \/ Finish(x) \/ Reap(x)
      BY <3>4 DEF Leave, Fail, Finish, Reap
    <3>. QED
      BY <1>4, <2>1, <3>1, <3>2, <3>3, <3>4 DEF Step
  <2>. QED
    BY <2>2, <2>3
<1>5. ASSUME Step(r)
      PROVE  EnterLoop(r)
  <2>0. /\ pc \in [Pids -> Phases] /\ Stage(r) \in 0..11 /\ pc[r] \notin Starting
        /\ router \in [Pids -> Routers(config, DOMAIN inbox)]
    BY <1>1, RouterTypes DEF Shape, Root
  <2>1. ~StageEngine(r) /\ ~Quit(r) /\ ~Bind(r) /\ ~Fork(r)
    BY <2>0 DEF StageEngine, Quit, Bind, Fork, Go
  <2>2. ~ForkFails(r)
    <3>1. SUFFICES ASSUME ForkFails(r) PROVE FALSE
      OBVIOUS
    <3>2. router' = router /\ Stage(r) > 5 => pc' = pc /\ pc[r] = "fork"
      BY <2>0, <3>1 DEF ForkFails
    <3>3. Stage(r)' = Stage(r)
      BY <3>1 DEF ForkFails, Stage
    <3>. QED
      BY <2>0, <3>1, <3>2, <3>3 DEF ForkFails
  <2>3. ~Register(r) /\ ~Registered(r)
    BY <2>0 DEF Register, Registered, Become, Starting
  <2>4. ~Receive(r)
    <3>1. SUFFICES ASSUME Receive(r) PROVE FALSE
      OBVIOUS
    <3>2. CASE Stage(r) <= 5
      <4>1. router' = router
        BY <3>1, <3>2, ReceivedMap
      <4>. QED
        BY <2>0, <3>2, <4>1 DEF Stage
    <3>3. CASE ~(Stage(r) <= 5)
      BY <2>0, <3>1, <3>3, ReceivedMap
    <3>. QED
      BY <3>2, <3>3
  <2>5. ~Leave(r) /\ ~Fail(r) /\ ~Finish(r) /\ ~Reap(r)
    BY <2>0 DEF Leave, Fail, Finish, Reap, Go
  <2>. QED
    BY <1>5, <2>1, <2>2, <2>3, <2>4, <2>5 DEF Step
<1>6. CASE EnterLoop(r)
  <2>1. /\ router' = router /\ frame' = frame /\ LoopOrUndefined(router[r]) = "loop"
        /\ IsPrimary(r)
        /\ captive' = IF IsPrimary(r) /\ Stage(r) \in {9, 10}
                      THEN <<frame[r].rou1Addr>> \o Ordered(router[r].m_mChildPort)
                      ELSE captive
    BY <1>1, <1>6 DEF EnterLoop, Go, Root, Shape
  <2>2. Stage(r)' = Stage(r) /\ Children(r)' = Children(r)
    BY <2>1 DEF Stage, Children
  <2>3. Cardinality(Children(r))' = Cardinality(Children(r))
    BY <2>2
  <2>4. ~(Cardinality(Children(r)) < PortsUsed(Stage(r)))
    BY <2>1, <2>2 DEF LoopOrUndefined, IsPrimary, Stage, Children
  <2>5. PortsUsed(Stage(r)) \in Nat /\ Cardinality(Children(r)) \in Nat
    BY FS_CardinalityType DEF PortsUsed, Finite
  <2>. QED
    BY <2>1, <2>2, <2>3, <2>4, <2>5
<1>. QED
  BY <1>2, <1>3, <1>4, <1>5, <1>6 DEF Next

\* Numbers 1..n that ascend, n of them, are 1, 2, ..., n.
LEMMA AscendingNumbers ==
  ASSUME NEW n \in Nat, NEW g \in [1..n -> 1..n],
         \A i, j \in 1..n : i < j => g[i] < g[j]
  PROVE  \A k \in 1..n : g[k] = k
<1>1. \A k \in 1..n : g[k] >= k
  <2>. DEFINE T == {k \in 1..n : g[k] < k}
  <2>1. SUFFICES ASSUME T # {} PROVE FALSE
    OBVIOUS
  <2>2. PICK k \in T : \A j \in T : k <= j
    <3>1. T \subseteq Nat
      OBVIOUS
    <3>. HIDE DEF T
    <3>. QED
      BY <2>1, <3>1, LeastNatural
  <2>3. k # 1 /\ k \in 1..n /\ g[k] \in 1..n
    BY <2>2
  <2>4. k - 1 \in 1..n /\ k - 1 \notin T
    BY <2>2, <2>3
  <2>5. g[k - 1] \in 1..n /\ g[k - 1] < g[k] /\ ~(g[k - 1] < k - 1)
    BY <2>3, <2>4
  <2>. QED
    BY <2>2, <2>3, <2>5
<1>2. \A k \in 1..n : g[k] <= k
  <2>. DEFINE T == {m \in 0..n - 1 : \E k \in 1..n : k + m = n /\ g[k] > k}
  <2>1. SUFFICES ASSUME T # {} PROVE FALSE
    <3>1. ASSUME NEW k \in 1..n, g[k] > k PROVE n - k \in T
      <4>1. n - k \in 0..n - 1 /\ k + (n - k) = n
        OBVIOUS
      <4>. QED
        BY <3>1, <4>1
    <3>2. \A k \in 1..n : g[k] \in 1..n
      OBVIOUS
    <3>. HIDE DEF T
    <3>. QED
      BY <3>1, <3>2
  <2>2. PICK m \in T : \A j \in T : m <= j
    <3>1. T \subseteq Nat
      OBVIOUS
    <3>. HIDE DEF T
    <3>. QED
      BY <2>1, <3>1, LeastNatural
  <2>3. PICK k \in 1..n : k + m = n /\ g[k] > k
    BY <2>2
  <2>4. m \in 0..n - 1 /\ g[k] \in 1..n /\ k + 1 \in 1..n /\ g[k + 1] \in 1..n /\ m - 1 \in 0..n - 1
    <3>1. m \in 0..n - 1 /\ g[k] \in 1..n
      BY <2>2
    <3>2. k + 1 \in 1..n /\ m - 1 \in 0..n - 1
      BY <2>3, <3>1
    <3>. QED
      BY <3>1, <3>2
  <2>5. m - 1 \notin T /\ (k + 1) + (m - 1) = n
    <3>1. (k + 1) + (m - 1) = n /\ ~(m <= m - 1)
      BY <2>3, <2>4
    <3>. HIDE DEF T
    <3>. QED
      BY <2>2, <3>1
  <2>6. g[k] < g[k + 1] /\ ~(g[k + 1] > k + 1)
    BY <2>4, <2>5
  <2>. QED
    BY <2>3, <2>4, <2>6
<1>. QED
  BY <1>1, <1>2

\* The primary router tells its secondary routers by the order of their process
\* numbers, they themselves, and so the address they send from, by the order of
\* their creation: these agree if the file has one stage with several routers,
\* no fork fails and process numbers have not wrapped round.  The portal's file
\* has the same order.
THEOREM OrdersAgree == Spec => []RightWayOut
<1>1. Shape /\ Registration /\ Finite /\ OneRoot /\ Read /\ Ranking /\ Saved => RightWayOut
  <2>. SUFFICES ASSUME Shape, Registration, Finite, OneRoot, Read, Ranking, Saved, InOrder,
                       NEW p \in Pids, Registrar(p),
                       NEW n \in 1..PortsUsed(Stage(p))
                PROVE  LET child == Ascending(Children(p))
                       IN  \/ pc[child[n]] = "registered"
                           \/ /\ router[child[n]].iRouterID = n
                              /\ Stage(p) \in {9, 10} =>
                                   captive[n + 1] = router[child[n]].iSockID
    BY DEF RightWayOut, InOrder, Children
  <2>1. Root(p) /\ Ranked(p) /\ Entered(p)
    <3>1. PICK r \in Pids : Root(r)
      BY DEF OneRoot, InOrder
    <3>2. p = r
      BY <3>1 DEF Root, Registrar, InLoop, Follower, Starting
    <3>. QED
      BY <3>1, <3>2 DEF Ranking, Saved, InOrder
  <2>2. PICK C : C = Children(p)
    OBVIOUS
  <2>3. PICK N : N = Cardinality(C)
    OBVIOUS
  <2>4. PICK child : child = Ascending(C)
    OBVIOUS
  <2>5. C \subseteq Pids /\ C \subseteq Nat /\ IsFiniteSet(C)
    BY <2>2, ChildrenType, StagesAssumption DEF Finite
  <2>6. /\ child \in [1..N -> C] /\ N \in Nat
        /\ \A i, j \in 1..N : i < j => child[i] < child[j]
    BY <2>3, <2>4, <2>5, AscendingProperties
  <2>7. n \in 1..N
    <3>1. PortsUsed(Stage(p)) \in Nat /\ N >= PortsUsed(Stage(p))
      BY <2>1, <2>2, <2>3 DEF Entered, Registrar, InLoop, PortsUsed
    <3>. QED
      BY <2>6, <3>1
  <2>8. PICK c : c = child[n]
    OBVIOUS
  <2>9. c \in C
    BY <2>6, <2>7, <2>8
  <2>10. Number0(c) = n
    <3>1. PICK g : g = [k \in 1..N |-> Number0(child[k])]
      OBVIOUS
    <3>2. /\ \A q \in C : Number0(q) \in 1..N
          /\ \A q, o \in C : q < o => Number0(q) < Number0(o)
      BY <2>1, <2>2, <2>3 DEF Ranked
    <3>3. g \in [1..N -> 1..N] /\ \A i, j \in 1..N : i < j => g[i] < g[j]
      BY <2>6, <3>1, <3>2
    <3>. QED
      BY <2>6, <2>7, <2>8, <3>1, <3>3, AscendingNumbers
  <2>11. ASSUME pc[c] # "registered"
         PROVE  /\ router[c].iRouterID = n
                /\ router[c].iSockID = router[p].m_mChildPort[c]
    <3>1. pc[c] \notin Starting
      BY <2>2, <2>9, <2>11 DEF Registration, Known, New, Starting
    <3>2. ReadBy(c, router[p].m_mChildPort[c])
      BY <2>2, <2>9 DEF Read, MapRead, InOrder
    <3>. QED
      BY <2>10, <2>11, <3>1, <3>2 DEF Number0, ReadBy
  <2>12. ASSUME Stage(p) \in {9, 10}
         PROVE  captive[n + 1] = router[p].m_mChildPort[c]
    <3>1. PICK s : s = Ordered(router[p].m_mChildPort)
      OBVIOUS
    <3>2. s = [i \in 1..N |-> router[p].m_mChildPort[child[i]]]
      BY <2>2, <2>4, <2>6, <3>1 DEF Ordered, Children
    <3>3. captive = <<frame[p].rou1Addr>> \o s
      BY <2>1, <2>12, <3>1 DEF Entered, Registrar, InLoop
    <3>4. s[n] = router[p].m_mChildPort[c]
      BY <2>7, <2>8, <3>2
    <3>5. Len(s) = N /\ Len(<<frame[p].rou1Addr>>) = 1
      BY <2>6, <3>2
    <3>6. captive[n + 1] = s[n]
      BY <2>6, <2>7, <3>2, <3>3, <3>5
    <3>. QED
      BY <3>4, <3>6
  <2>. QED
    BY <2>2, <2>4, <2>8, <2>11, <2>12
<1>2. Init => Read /\ Saved
  <2>1. Init => Read
    BY DEF Init, Read, MapRead, Children, NewRouter
  <2>2. Init => Saved
    BY DEF Init, Saved, Entered
  <2>. QED
    BY <2>1, <2>2
<1>. QED
  BY <1>1, <1>2, ShapeInit, ShapeStep, RegistrationInit, RegistrationStep, PlacedInit,
     PlacedStep, SaneInit, FiniteStep, OneRootInit, OneRootStep, ReadStep, RankingInit,
     RankingStep, SavedStep, PTL DEF Spec

-----------------------------------------------------------------------------
(* The log files                                                            *)

OneEach ==
  /\ Sound
  /\ \A i, j \in StagesIn(config) :
       config[i].value # 1 /\ config[j].value # 1 => i = j
  /\ \A i, j \in StagesIn(config) : config[i].value = config[j].value => i = j

\* p came into being in this stage of the root's, with a number that the root
\* has given out, or in an earlier one.
Behind(r, p) ==
  /\ Number0(p) > 0 /\ Stage(p) # 0
  /\ router[p].iConfigReg <= router[r].iConfigReg
  /\ Stage(p) = Stage(r) =>
       /\ pc[r] # "bind"
       /\ pc[r] = "fork" => Stage(r) >= 6 /\ Number0(p) <= frame[r].i
       /\ pc[r] = "receive" /\ Stage(r) >= 6 => Number0(p) <= frame[r].i + 1

Logged(r, l) ==
  IF l.id = 0
  THEN l.by = r
  ELSE /\ l.by \in Pids \ {r} /\ pc[l.by] \notin Starting
       /\ l.stage = Stage(l.by) /\ l.id = router[l.by].iRouterID

AllBehind(r) == \A p \in Pids \ {r} : pc[p] # "none" => Behind(r, p)

Differ(r) ==
  \A p, q \in Pids \ {r} :
    pc[p] # "none" /\ pc[q] # "none" /\ p # q /\ Stage(p) = Stage(q) =>
      Number0(p) # Number0(q)

AllLogged(r) == \A l \in logs : Logged(r, l)

Distinct ==
  OneEach => \A r \in Pids : Root(r) =>
    router[r].iRouterID = 0 /\ AllBehind(r) /\ Differ(r) /\ AllLogged(r)

LEMMA NumberType ==
  ASSUME Shape, NEW q \in Pids
  PROVE  Number0(q) \in Nat
<1>1. router[q].iRouterID \in Nat /\ frame[q].i \in Nat
  BY RouterTypes
<1>. QED
  BY <1>1 DEF Number0, IdOf

LEMMA StageSame ==
  ASSUME Shape, Registration, NEW x \in Pids, Step(x), ~Fork(x), ~StageEngine(x), NEW q \in Pids
  PROVE  /\ Stage(q)' = Stage(q) /\ router'[q].iConfigReg = router[q].iConfigReg
         /\ pc'[q] = "none" <=> pc[q] = "none"
<1>1. PICK o \in Pids :
           /\ router'[q].iStage = router[o].iStage
           /\ router'[q].iConfigReg = router[o].iConfigReg
           /\ o = q \/ (o = x /\ pc[x] = "fork" /\ pc[q] = "none" /\ pc'[q] = "register")
  BY StageKept
<1>2. o = q
  <2>1. CASE q # x
    BY <1>1, <2>1, Others
  <2>2. CASE q = x
    BY <1>1, <2>2
  <2>. QED
    BY <2>1, <2>2
<1>3. pc'[q] = "none" <=> pc[q] = "none"
  <2>1. CASE q # x
    BY <2>1, Others
  <2>2. CASE q = x /\ pc[q] \notin Starting
    BY <2>2, Started DEF Starting
  <2>3. CASE q = x /\ pc[q] \in Starting
    <3>1. Register(q) \/ Registered(q)
      BY <2>3, StartingStep
    <3>2. CASE Register(q)
      BY <3>2 DEF Register, Go, Shape
    <3>3. CASE Registered(q)
      BY <3>3, Became
    <3>. QED
      BY <3>1, <3>2, <3>3
  <2>. QED
    BY <2>1, <2>2, <2>3
<1>. QED
  BY <1>1, <1>2, <1>3 DEF Stage

\* Where there is one such stage, its secondary routers take no other.
LEMMA NoNextStage ==
  ASSUME Shape, Placed, OneEach, NEW p \in Pids, Follower(p)
  PROVE  ~StageEngine(p)
<1>. SUFFICES ASSUME StageEngine(p) PROVE FALSE
  OBVIOUS
<1>1. PICK i : i = router[p].iConfigReg
  OBVIOUS
<1>2. i \in StagesIn(config) /\ config[i].value \in 1..10
  BY <1>1, NextStage DEF OneEach, Sound
<1>3. PICK j \in StagesIn(config) : TakenFrom(j, router[p])
  BY DEF Placed, AtStage, OneEach, Sound, Follower, Stage
<1>4. config[j].value = Stage(p) /\ i = j + SizeOf(Stage(p)) /\ i \in Nat /\ j \in Nat
  BY <1>1, <1>2, <1>3, ShapeFacts DEF TakenFrom, Stage, StagesIn
<1>5. j < i /\ i # j
  BY <1>4 DEF SizeOf
<1>6. config[j].value # 1
  BY <1>4 DEF Follower, StageEngine
<1>7. ~(config[i].value \in 1..5)
  BY <1>2, <1>5, <1>6 DEF OneEach, Sound, Sequential
<1>8. config[i].value # 1
  BY <1>7
<1>. QED
  BY <1>2, <1>5, <1>6, <1>8 DEF OneEach

\* Nor do those of stage 1, or those that start.
LEMMA RootEngine ==
  ASSUME Shape, Placed, OneEach, NEW r \in Pids, Root(r), NEW x \in Pids, StageEngine(x)
  PROVE  x = r
<1>. SUFFICES ASSUME x # r PROVE FALSE
  OBVIOUS
<1>1. pc[x] \in Starting \/ Follower(x)
  BY DEF Root
<1>2. pc[x] \notin Starting
  BY DEF Starting, StageEngine
<1>. QED
  BY <1>1, <1>2, NoNextStage

LEMMA NewLogs ==
  ASSUME NEW x \in Pids, Step(x)
  PROVE  \/ logs' = logs
         \/ /\ pc[x] \in {"loop", "finish"} /\ router' = router
            /\ logs' = logs \cup
                 {[stage |-> Stage(x), id |-> router[x].iRouterID, by |-> x]}
<1>1. CASE StageEngine(x) \/ Quit(x) \/ Bind(x) \/ EnterLoop(x)
  BY <1>1 DEF StageEngine, Quit, Bind, EnterLoop
<1>2. CASE Fork(x) \/ ForkFails(x)
  BY <1>2 DEF Fork, ForkFails
<1>3. CASE Register(x) \/ Registered(x) \/ Receive(x)
  BY <1>3 DEF Register, Registered, Become, Receive
<1>4. CASE Fail(x) \/ Reap(x)
  BY <1>4 DEF Fail, Reap
<1>5. CASE Leave(x) \/ Finish(x)
  BY <1>5 DEF Leave, Finish, Close
<1>. QED
  BY <1>1, <1>2, <1>3, <1>4, <1>5 DEF Step

LEMMA LoggedKept ==
  ASSUME Shape, Registration, Placed, OneEach, NEW r \in Pids, Root(r),
         NEW x \in Pids, Step(x), NEW l, Logged(r, l)
  PROVE  Logged(r, l)'
<1>1. CASE l.id = 0
  BY <1>1 DEF Logged
<1>2. CASE l.id # 0
  <2>1. PICK b : b = l.by
    OBVIOUS
  <2>2. /\ b \in Pids \ {r} /\ pc[b] \notin Starting
        /\ l.stage = Stage(b) /\ l.id = router[b].iRouterID
    BY <1>2, <2>1 DEF Logged
  <2>3. pc'[b] \notin Starting /\ Stage(b)' = Stage(b) /\ router'[b].iRouterID = router[b].iRouterID
    <3>1. CASE b # x /\ ~Fork(x)
      <4>1. pc'[b] = pc[b] /\ router'[b] = router[b]
        BY <2>2, <3>1, Others
      <4>. QED
        BY <2>2, <4>1 DEF Stage
    <3>2. CASE b # x /\ Fork(x)
      <4>1. PICK o \in Pids :
           /\ pc[o] = "none"
           /\ \A y \in Pids \ {x, o} : pc'[y] = pc[y] /\ router'[y] = router[y]
        BY <3>2, Forked
      <4>2. b \in Pids \ {x, o}
        BY <2>2, <3>2, <4>1 DEF Starting
      <4>. QED
        BY <2>2, <4>1, <4>2 DEF Stage
    <3>3. CASE b = x
      <4>1. Follower(b)
        BY <2>2 DEF Root
      <4>2. ~Fork(b) /\ ~StageEngine(b)
        BY <2>2, <3>3, <4>1, FollowerStep, NoNextStage DEF OneEach
      <4>3. pc'[b] \notin Starting
        BY <2>2, <3>3, Started
      <4>4. Stage(b)' = Stage(b)
        BY <2>2, <3>3, <4>2, StageSame
      <4>5. Number0(b)' = Number0(b)
        BY <2>2, <3>3, <4>2, NumbersKept
      <4>. QED
        BY <2>2, <4>3, <4>4, <4>5 DEF Number0
    <3>. QED
      BY <3>1, <3>2, <3>3
  <2>. QED
    BY <1>2, <2>1, <2>2, <2>3 DEF Logged
<1>. QED
  BY <1>1, <1>2

\* What the root's other steps mean for those behind it.
LEMMA BehindKept ==
  ASSUME Shape, Registration, Placed, OneEach, NEW r \in Pids, Root(r),
         NEW x \in Pids, Step(x), ~Fork(x), ~StageEngine(x),
         NEW p \in Pids \ {r}, Behind(r, p)
  PROVE  Behind(r, p)'
<1>1. /\ Stage(p)' = Stage(p) /\ router'[p].iConfigReg = router[p].iConfigReg
      /\ Stage(r)' = Stage(r) /\ router'[r].iConfigReg = router[r].iConfigReg
  BY StageSame
<1>2. Number0(p)' = Number0(p)
  BY NumbersKept
<1>3. PICK n : n = Number0(p)
  OBVIOUS
<1>4. n \in Nat /\ frame[r].i \in Nat /\ Stage(r) \in 0..11
  BY <1>3, NumberType, RouterTypes
<1>5. Stage(p) = Stage(r) =>
       /\ pc'[r] # "bind"
       /\ pc'[r] = "fork" => Stage(r) >= 6 /\ n <= frame'[r].i
       /\ pc'[r] = "receive" /\ Stage(r) >= 6 => n <= frame'[r].i + 1
  <2>. SUFFICES ASSUME Stage(p) = Stage(r)
                PROVE  /\ pc'[r] # "bind"
                       /\ pc'[r] = "fork" => Stage(r) >= 6 /\ n <= frame'[r].i
                       /\ pc'[r] = "receive" /\ Stage(r) >= 6 => n <= frame'[r].i + 1
    OBVIOUS
  <2>1. /\ pc[r] # "bind" /\ pc[r] \notin Starting
        /\ pc[r] = "fork" => Stage(r) >= 6 /\ n <= frame[r].i
        /\ pc[r] = "receive" /\ Stage(r) >= 6 => n <= frame[r].i + 1
    BY <1>3 DEF Behind, Root
  <2>2. CASE x # r
    <3>1. pc'[r] = pc[r] /\ frame'[r] = frame[r]
      BY <2>2, Others
    <3>. QED
      BY <2>1, <3>1
  <2>3. CASE x = r /\ \/ Quit(r) \/ EnterLoop(r) \/ Leave(r) \/ Fail(r) \/ Finish(r) \/ Reap(r)
    <3>1. pc'[r] \notin {"bind", "fork", "receive"}
      BY <2>3 DEF Quit, EnterLoop, Leave, Fail, Finish, Reap, Go, LoopOrUndefined, Shape
    <3>. QED
      BY <3>1
  <2>4. CASE ForkFails(r)
    <3>1. CASE Stage(r) <= 5
      <4>1. pc[r] = "fork"
        BY <2>4 DEF ForkFails
      <4>. QED
        BY <1>4, <2>1, <3>1, <4>1
    <3>2. CASE ~(Stage(r) <= 5)
      <4>1. pc' = pc /\ frame' = [frame EXCEPT ![r].i = @ + 1] /\ pc[r] = "fork"
        BY <2>4, <3>2 DEF ForkFails
      <4>2. frame'[r].i = frame[r].i + 1
        BY <4>1 DEF Shape, Frames
      <4>. QED
        BY <1>4, <2>1, <4>1, <4>2
    <3>. QED
      BY <3>1, <3>2
  <2>5. CASE Receive(r)
    <3>1. CASE Stage(r) <= 5
      <4>1. pc'[r] \in {"finish", "loop", "undefined"}
        BY <2>5, <3>1, ReceivedMap DEF AfterStage1, LoopOrUndefined, Shape
      <4>. QED
        BY <4>1
    <3>2. CASE ~(Stage(r) <= 5)
      <4>1. pc' = [pc EXCEPT ![r] = "fork"] /\ frame' = [frame EXCEPT ![r].i = @ + 1]
        BY <2>5, <3>2, ReceivedMap
      <4>2. frame'[r].i = frame[r].i + 1 /\ pc'[r] = "fork"
        BY <4>1 DEF Shape, Frames
      <4>3. pc[r] = "receive"
        BY <2>5 DEF Receive
      <4>. QED
        BY <1>4, <2>1, <3>2, <4>2, <4>3
    <3>. QED
      BY <3>1, <3>2
  <2>6. ~Bind(r) /\ ~Register(r) /\ ~Registered(r)
    BY <2>1 DEF Bind, Register, Registered, Become, Starting
  <2>. QED
    BY <2>2, <2>3, <2>4, <2>5, <2>6 DEF Step
<1>. QED
  BY <1>1, <1>2, <1>3, <1>5 DEF Behind

LEMMA BehindFork ==
  ASSUME Shape, Registration, Placed, OneEach, NEW r \in Pids, Root(r),
         AllBehind(r), Differ(r), Fork(r)
  PROVE  AllBehind(r)' /\ Differ(r)'
<1>1. PICK o \in Pids :
           /\ o # r /\ pc[r] = "fork" /\ pc[o] = "none"
           /\ pc'[r] = "receive" /\ pc'[o] = "register"
           /\ \A q \in Pids \ {r, o} : pc'[q] = pc[q] /\ router'[q] = router[q] /\ frame'[q] = frame[q]
           /\ router'[o] = router[r] /\ frame'[o] = frame[r] /\ frame'[r] = frame[r]
           /\ router'[r].iConfigReg = router[r].iConfigReg
           /\ router'[r].iStage = router[r].iStage
  BY Forked
<1>2. /\ Stage(r)' = Stage(r) /\ Stage(o)' = Stage(r)
      /\ \A p \in Pids \ {r, o} : /\ Stage(p)' = Stage(p) /\ Number0(p)' = Number0(p)
                                  /\ router'[p].iConfigReg = router[p].iConfigReg
  BY <1>1 DEF Stage, Number0, IdOf
<1>3. /\ Stage(r) \in 0..11 /\ frame[r].i \in Nat /\ router[r].iConfigReg \in Nat
  BY RouterTypes, ShapeFacts
<1>4. PICK n : n = IF Stage(r) <= 5 THEN 1 ELSE frame[r].i + 1
  OBVIOUS
<1>5. Number0(o)' = n /\ n \in Nat /\ n > 0
  BY <1>1, <1>2, <1>3, <1>4 DEF Number0, IdOf, Starting
<1>6. Stage(r) # 0
  <2>1. AtStage(router[r], pc[r])
    BY DEF Placed, OneEach, Sound
  <2>2. CASE \E i \in StagesIn(config) : TakenFrom(i, router[r])
    BY <2>2 DEF OneEach, Sound, WellFormed, TakenFrom, Stage
  <2>. QED
    BY <1>1, <2>1, <2>2 DEF AtStage
\* Who is in the root's stage has a smaller number than the new one.
<1>7. ASSUME NEW p \in Pids \ {r, o}, pc[p] # "none"
      PROVE  /\ Number0(p) > 0 /\ Stage(p) # 0
             /\ router[p].iConfigReg <= router[r].iConfigReg
             /\ Stage(p) = Stage(r) =>
                  Stage(r) >= 6 /\ Number0(p) \in Nat /\ Number0(p) < n /\ n = frame[r].i + 1
  <2>1. Behind(r, p)
    BY <1>7 DEF AllBehind
  <2>2. Number0(p) \in Nat
    BY NumberType
  <2>3. Stage(p) = Stage(r) => Stage(r) >= 6 /\ Number0(p) <= frame[r].i
    BY <1>1, <2>1 DEF Behind
  <2>4. Stage(r) >= 6 => n = frame[r].i + 1
    BY <1>3, <1>4
  <2>5. Number0(p) > 0 /\ Stage(p) # 0 /\ router[p].iConfigReg <= router[r].iConfigReg
    BY <2>1 DEF Behind
  <2>. QED
    BY <1>3, <2>2, <2>3, <2>4, <2>5
<1>8. Behind(r, o)'
  <2>1. Stage(r) >= 6 => n <= frame'[r].i + 1
    BY <1>1, <1>3, <1>4
  <2>2. router'[o].iConfigReg <= router'[r].iConfigReg
    BY <1>1, <1>3
  <2>. QED
    BY <1>1, <1>2, <1>5, <1>6, <2>1, <2>2 DEF Behind
<1>9. ASSUME NEW p \in Pids \ {r, o}, pc[p] # "none"
      PROVE  Behind(r, p)'
  <2>1. PICK m : m = Number0(p)
    OBVIOUS
  <2>2. /\ m > 0 /\ Stage(p) # 0 /\ router[p].iConfigReg <= router[r].iConfigReg
        /\ Stage(p) = Stage(r) => m <= frame[r].i + 1
    BY <1>3, <1>5, <1>7, <1>9, <2>1
  <2>. QED
    BY <1>1, <1>2, <2>1, <2>2 DEF Behind
<1>10. Differ(r)'
  <2>1. \A p, q \in Pids \ {r, o} :
          pc[p] # "none" /\ pc[q] # "none" /\ p # q /\ Stage(p) = Stage(q) =>
            Number0(p) # Number0(q)
    BY DEF Differ
  <2>2. \A p \in Pids \ {r, o} : pc[p] # "none" /\ Stage(p) = Stage(r) => Number0(p) # n
    BY <1>5, <1>7
  <2>3. \A p \in Pids \ {r} : pc'[p] # "none" => p = o \/ (p \in Pids \ {r, o} /\ pc[p] # "none")
    BY <1>1
  <2>. QED
    BY <1>2, <1>5, <2>1, <2>2, <2>3 DEF Differ
<1>. QED
  BY <1>1, <1>8, <1>9, <1>10 DEF AllBehind

LEMMA BehindEngine ==
  ASSUME Shape, Registration, Placed, OneEach, NEW r \in Pids, Root(r),
         AllBehind(r), StageEngine(r)
  PROVE  AllBehind(r)'
<1>. SUFFICES ASSUME NEW p \in Pids \ {r}, pc'[p] # "none"
              PROVE  Behind(r, p)'
  BY DEF AllBehind
<1>1. PICK i : i = router[r].iConfigReg
  OBVIOUS
<1>2. /\ i \in StagesIn(config) /\ config[i].value \in 1..10
      /\ TakenFrom(i, router'[r]) /\ pc' = [pc EXCEPT ![r] = "bind"]
      /\ \A q \in Pids \ {r} : router'[q] = router[q]
  BY <1>1, NextStage DEF OneEach, Sound
<1>3. ~Fork(r) /\ Step(r)
  BY DEF StageEngine, Fork, Step
<1>4. pc'[p] = pc[p] /\ Number0(p)' = Number0(p) /\ Stage(p)' = Stage(p)
  BY <1>2, <1>3, NumbersKept, Others DEF Stage
<1>5. Behind(r, p)
  BY <1>4 DEF AllBehind
<1>6. i \in Nat /\ router[p].iConfigReg \in Nat /\ router[p].iConfigReg <= i
  BY <1>1, <1>5, RouterTypes, ShapeFacts DEF Behind
<1>7. router'[r].iConfigReg >= i /\ router'[r].iConfigReg \in Nat /\ Stage(r)' = config[i].value
  BY <1>2, <1>6 DEF TakenFrom, SizeOf, Stage
<1>8. PICK j \in StagesIn(config) : TakenFrom(j, router[p])
  BY <1>5 DEF Placed, AtStage, OneEach, Sound, Behind, Stage
<1>9. j \in Nat /\ config[j].value = Stage(p) /\ router[p].iConfigReg = j + SizeOf(Stage(p))
      /\ SizeOf(Stage(p)) \in {2, 3}
  BY <1>8, ShapeFacts DEF TakenFrom, Stage, StagesIn, SizeOf
<1>10. j # i
  BY <1>6, <1>9
<1>11. Stage(p) # config[i].value
  BY <1>2, <1>8, <1>9, <1>10 DEF OneEach
<1>12. router'[p].iConfigReg <= router'[r].iConfigReg
  BY <1>2, <1>6, <1>7
<1>13. Number0(p) > 0 /\ Stage(p) # 0
  BY <1>5 DEF Behind
<1>. QED
  BY <1>4, <1>7, <1>11, <1>12, <1>13 DEF Behind

LEMMA DistinctStep ==
  Shape /\ Registration /\ Placed /\ OneRoot /\ Distinct /\ [Next]_vars => Distinct'
<1>. SUFFICES ASSUME Shape, Registration, Placed, OneRoot, Distinct, [Next]_vars, OneEach',
                     NEW r \in Pids, Root(r)'
              PROVE  router'[r].iRouterID = 0 /\ AllBehind(r)' /\ Differ(r)' /\ AllLogged(r)'
  BY DEF Distinct
<1>1. OneEach
  BY ConfigKept DEF OneEach, StagesIn
<1>2. Root(r) /\ Sound
  BY <1>1, RootBefore DEF OneEach
<1>3. router[r].iRouterID = 0 /\ AllBehind(r) /\ Differ(r) /\ AllLogged(r)
  BY <1>1, <1>2 DEF Distinct
<1>4. CASE UNCHANGED vars
  BY <1>3, <1>4 DEF vars, AllBehind, Behind, Differ, AllLogged, Logged, Number0, IdOf, Stage
<1>5. ASSUME NEW x \in Pids, Step(x)
      PROVE  router'[r].iRouterID = 0 /\ AllBehind(r)' /\ Differ(r)' /\ AllLogged(r)'
  <2>1. router'[r].iRouterID = 0
    <3>1. CASE Fork(x)
      <4>1. x = r
        BY <1>2, <3>1, RootForks
      <4>. QED
        BY <1>3, <3>1, <4>1, Forked
    <3>2. CASE ~Fork(x)
      <4>1. Number0(r)' = Number0(r) /\ pc[r] \notin Starting /\ pc'[r] \notin Starting
        BY <1>2, <1>5, <3>2, NumbersKept DEF Root
      <4>. QED
        BY <1>3, <4>1 DEF Number0
    <3>. QED
      BY <3>1, <3>2
  <2>2. AllBehind(r)'
    <3>1. CASE Fork(x)
      BY <1>1, <1>2, <1>3, <3>1, RootForks, BehindFork
    <3>2. CASE StageEngine(x)
      BY <1>1, <1>2, <1>3, <3>2, RootEngine, BehindEngine
    <3>3. CASE ~Fork(x) /\ ~StageEngine(x)
      <4>. SUFFICES ASSUME NEW p \in Pids \ {r}, pc'[p] # "none" PROVE Behind(r, p)'
        BY DEF AllBehind
      <4>1. pc[p] # "none"
        BY <1>5, <3>3, StageSame
      <4>. QED
        BY <1>1, <1>2, <1>3, <1>5, <3>3, <4>1, BehindKept DEF AllBehind
    <3>. QED
      BY <3>1, <3>2, <3>3
  <2>3. Differ(r)'
    <3>1. CASE Fork(x)
      BY <1>1, <1>2, <1>3, <3>1, RootForks, BehindFork
    <3>2. CASE ~Fork(x)
      <4>1. \A p \in Pids \ {r} : /\ Stage(p)' = Stage(p) /\ Number0(p)' = Number0(p)
                                  /\ pc'[p] = "none" <=> pc[p] = "none"
        <5>. TAKE p \in Pids \ {r}
        <5>1. Number0(p)' = Number0(p)
          BY <1>5, <3>2, NumbersKept
        <5>2. CASE StageEngine(x)
          <6>1. p # x
            BY <1>1, <1>2, <5>2, RootEngine
          <6>. QED
            BY <1>5, <3>2, <5>1, <6>1, Others DEF Stage
        <5>3. CASE ~StageEngine(x)
          BY <1>5, <3>2, <5>1, <5>3, StageSame
        <5>. QED
          BY <5>2, <5>3
      <4>. QED
        BY <1>3, <4>1 DEF Differ
    <3>. QED
      BY <3>1, <3>2
  <2>4. AllLogged(r)'
    <3>. SUFFICES ASSUME NEW l \in logs' PROVE Logged(r, l)'
      BY DEF AllLogged
    <3>1. CASE l \in logs
      BY <1>1, <1>2, <1>3, <1>5, <3>1, LoggedKept DEF AllLogged
    <3>2. CASE /\ pc[x] \in {"loop", "finish"} /\ router' = router
               /\ l = [stage |-> Stage(x), id |-> router[x].iRouterID, by |-> x]
      <4>1. l.stage = Stage(x) /\ l.id = router[x].iRouterID /\ l.by = x
        BY <3>2
      <4>2. pc[x] \notin Starting /\ pc'[x] \notin Starting
        BY <1>5, <3>2, Started DEF Starting
      <4>3. CASE x = r
        BY <1>3, <4>1, <4>3 DEF Logged
      <4>4. CASE x # r
        <5>1. Behind(r, x)
          BY <1>3, <4>2, <4>4 DEF AllBehind, Starting
        <5>2. router[x].iRouterID # 0
          BY <4>2, <5>1 DEF Behind, Number0
        <5>3. Stage(x)' = Stage(x)
          BY <3>2 DEF Stage
        <5>. QED
          BY <3>2, <4>1, <4>2, <4>4, <5>2, <5>3 DEF Logged
      <4>. QED
        BY <4>3, <4>4
    <3>. QED
      BY <1>5, <3>1, <3>2, NewLogs
  <2>. QED
    BY <2>1, <2>2, <2>3, <2>4
<1>. QED
  BY <1>4, <1>5 DEF Next

LEMMA DistinctInit == Init => Distinct
<1>. SUFFICES ASSUME Init, NEW r \in Pids, Root(r)
              PROVE  router[r].iRouterID = 0 /\ AllBehind(r) /\ Differ(r) /\ AllLogged(r)
  BY DEF Distinct
<1>1. router[r].iRouterID = 0 /\ logs = {} /\ \A p \in Pids \ {r} : pc[p] = "none"
  BY DEF Init, NewRouter, Root, Starting
<1>. QED
  BY <1>1 DEF AllBehind, Differ, AllLogged

\* No process overwrites the log file of another, if at most one stage of the
\* file keeps its processes.
THEOREM LogsAreOwn == Spec => []OwnLogs
<1>1. Shape /\ OneRoot /\ Distinct => OwnLogs
  <2>. SUFFICES ASSUME Shape, OneRoot, Distinct, OneEach, NEW k \in logs, NEW l \in logs,
                       k.stage = l.stage, k.id = l.id
                PROVE  k.by = l.by
    BY DEF OwnLogs, OneEach
  <2>1. PICK r \in Pids : Root(r)
    BY DEF OneRoot, OneEach
  <2>2. Differ(r) /\ Logged(r, k) /\ Logged(r, l)
    BY <2>1 DEF Distinct, AllLogged
  <2>3. CASE k.id = 0
    BY <2>2, <2>3 DEF Logged
  <2>4. CASE k.id # 0
    <3>1. PICK p : p = k.by
      OBVIOUS
    <3>2. PICK q : q = l.by
      OBVIOUS
    <3>3. /\ p \in Pids \ {r} /\ pc[p] \notin Starting /\ k.stage = Stage(p)
          /\ k.id = Number0(p)
      BY <2>2, <2>4, <3>1 DEF Logged, Number0
    <3>4. /\ q \in Pids \ {r} /\ pc[q] \notin Starting /\ l.stage = Stage(q)
          /\ l.id = Number0(q)
      BY <2>2, <2>4, <3>2 DEF Logged, Number0
    <3>. QED
      BY <2>2, <3>1, <3>2, <3>3, <3>4 DEF Differ, Starting
  <2>. QED
    BY <2>3, <2>4
<1>. QED
  BY <1>1, ShapeInit, ShapeStep, RegistrationInit, RegistrationStep, PlacedInit, PlacedStep,
     OneRootInit, OneRootStep, DistinctInit, DistinctStep, PTL DEF Spec
=============================================================================
