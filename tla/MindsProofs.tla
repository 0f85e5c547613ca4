------------------------------ MODULE MindsProofs ------------------------------
(***************************************************************************)
(* Machine-checked theorems about Minds: a state machine is in one state   *)
(* and moves once in an update, a blackboard keeps the last write of every *)
(* key for its time and tells of writes in their order, and a behaviour    *)
(* tree ticks as its composites say.                                       *)
(***************************************************************************)
EXTENDS Minds, ListLemmas, SequenceTheorems, FiniteSetTheorems, TLAPS

-----------------------------------------------------------------------------
(* The state machine.                                                      *)

LEMMA MachineInitially == MachineInit => MachineInv
  BY StateMachineAssumption
     DEF MachineInit, MachineInv, MachineTypeOK, EnteredIsActive, OneMove

(* What the active state's transitions are.                                *)
LEMMA TransitionsFacts ==
  ASSUME NEW s \in States
  PROVE  /\ Len(Transitions[s]) \in Nat
         /\ \A i \in 1 .. Len(Transitions[s]) : Transitions[s][i] \in States
  BY StateMachineAssumption

LEMMA MachineStays == MachineInv /\ UNCHANGED machineVars => MachineInv'
  BY DEF MachineInv, MachineTypeOK, EnteredIsActive, OneMove, machineVars

LEMMA MachineKeeps == MachineInv /\ MachineNext => MachineInv'
  <1> SUFFICES ASSUME MachineInv, MachineNext PROVE MachineInv'
    OBVIOUS
  <1> USE StateMachineAssumption
      DEF MachineInv, MachineTypeOK, EnteredIsActive, OneMove
  <1>1. CASE BeginUpdate
    <2>1. InitialState # NoState => ActiveState' \in States
      BY <1>1 DEF BeginUpdate
    <2>2. entered' \subseteq {ActiveState'}
      BY <1>1 DEF BeginUpdate
    <2> QED BY <1>1, <2>1, <2>2 DEF BeginUpdate
  <1>2. CASE NotValid
    BY <1>2 DEF NotValid
  <1>3. CASE OnExit
    <2>1. entered' = {}
      BY <1>3 DEF OnExit, Left
    <2>2. at <= Len(Transitions[ActiveState])
      BY <1>3, TransitionsFacts DEF OnExit, IsLast
    <2> QED BY <1>3, <2>1, <2>2 DEF OnExit
  <1>4. CASE OnEnter
    <2>1. ActiveState' \in States
      <3>1. ActiveState \in States /\ at \in 1 .. Len(Transitions[ActiveState])
        BY <1>4, TransitionsFacts DEF OnEnter
      <3> QED BY <1>4, <3>1, TransitionsFacts DEF OnEnter
    <2>2. entered' = {ActiveState'} /\ moves' = 1
      BY <1>4 DEF OnEnter
    <2> QED BY <1>4, <2>1, <2>2 DEF OnEnter, AfterMove
  <1>5. CASE OnUpdate
    BY <1>5 DEF OnUpdate
  <1> QED BY <1>1, <1>2, <1>3, <1>4, <1>5 DEF MachineNext, MachineStep

(* A machine is in one state, also while it goes from one to another, and  *)
(* an update takes one transition at most, for any states and transitions  *)
(* (FSM.cpp:19-38).                                                        *)
THEOREM OneStateOneMove == Spec => []MachineOK
  <1>1. Init => MachineInv
    BY MachineInitially DEF Init
  <1>2. MachineInv /\ [Next]_vars => MachineInv'
    <2> SUFFICES ASSUME MachineInv, [Next]_vars PROVE MachineInv'
      OBVIOUS
    <2>1. MachineNext \/ UNCHANGED machineVars
      BY DEF Next, vars
    <2> QED BY <2>1, MachineStays, MachineKeeps
  <1>3. MachineInv => MachineOK
    BY DEF MachineInv, MachineOK
  <1> QED BY <1>1, <1>2, <1>3, PTL DEF Spec

-----------------------------------------------------------------------------
(* The blackboard.                                                         *)

LEMMA WritesFacts ==
  ASSUME writes \in Nat
  PROVE  \A w \in Writes : /\ w.key \in Keys /\ w.write \in 1 .. writes /\ w.write \in Nat
                           /\ w.ttl \in Lifetimes /\ w.ttl \in Nat
                           /\ w.key[1] \in Names
  <1>1. \A w \in Writes : /\ w.key \in Keys /\ w.write \in 1 .. writes /\ w.write \in Nat
                          /\ w.ttl \in Lifetimes /\ w.ttl \in Nat
    <2>1. Lifetimes \subseteq Nat
      BY BlackboardAssumption
    <2>2. \A w \in Writes : w.key \in Keys /\ w.write \in 1 .. writes /\ w.ttl \in Lifetimes
      BY DEF Writes
    <2>3. 1 .. writes \subseteq Nat
      OBVIOUS
    <2> QED BY <2>1, <2>2, <2>3, Zenon
  <1>2. \A k \in Keys : k[1] \in Names
    BY DEF Names
  <1> QED BY <1>1, <1>2

LEMMA QueueFacts ==
  ASSUME NEW queue \in Seq(Writes)
  PROVE  /\ Len(queue) \in Nat /\ DOMAIN queue = 1 .. Len(queue)
         /\ \A i \in DOMAIN queue : queue[i] \in Writes
  OBVIOUS

LEMMA EmptyQueue == /\ <<>> \in Seq(Writes) /\ DOMAIN <<>> = {} /\ Ascends(<<>>)
                    /\ \A k : ~Pending(<<>>, k)
  <1>1. <<>> \in Seq(Writes) /\ Len(<<>>) = 0
    BY EmptySeq
  <1>2. DOMAIN <<>> = {}
    BY <1>1
  <1> QED BY <1>1, <1>2 DEF Ascends, Pending

LEMMA NoItemFacts == /\ NoItem.write = 0 /\ NoItem.ttl = 0 /\ NoItem.lifetime = 0
                     /\ NoItem.age = 0
  BY DEF NoItem, Item

LEMMA BoardInitially == BoardInit => BoardInv
  <1> SUFFICES ASSUME BoardInit PROVE BoardInv
    OBVIOUS
  <1>1. writes = 0 /\ MaxWrites \in Nat /\ updating = NoBoard /\ local = <<>> /\ notifying = {}
        /\ stagedWriteQueue = [b \in Boards |-> <<>>] /\ NoBoard \notin Boards
        /\ items = [b \in Boards |-> [k \in Keys |-> NoItem]]
        /\ lastSet = [b \in Boards |-> [k \in Keys |-> 0]]
        /\ subscriptions = [b \in Boards |-> {}] /\ MaxSubscriptions \in Nat
        /\ subscriptionId = [b \in Boards |-> 1]
        /\ heard = [b \in Boards |-> [s \in Subscriptions |-> 0]]
    BY BlackboardAssumption DEF BoardInit
  <1>2. NoItem \in Entries
    BY <1>1 DEF Entries, NoItem, Item
  <1>3. BoardShape
    <2>1. subscriptionId \in [Boards -> 1 .. MaxSubscriptions + 1]
      BY <1>1
    <2> QED BY <1>1, <1>2, <2>1, EmptyQueue DEF BoardShape
  <1>4. TimesAddUp
    BY <1>1, NoItemFacts DEF TimesAddUp
  <1>5. WaitInOrder
    BY <1>1, EmptyQueue DEF WaitInOrder
  <1>6. ToldInOrder
    BY <1>1, EmptyQueue DEF ToldInOrder
  <1>7. NoneAfterLast
    BY <1>1, EmptyQueue DEF NoneAfterLast
  <1>8. LastIsSomewhere
    BY <1>1, EmptyQueue, NoItemFacts DEF LastIsSomewhere, LastIsApplied
  <1>9. IdsAreFresh
    BY <1>1 DEF IdsAreFresh
  <1> QED BY <1>3, <1>4, <1>5, <1>6, <1>7, <1>8, <1>9 DEF BoardInv

LEMMA BoardStays == BoardInv /\ UNCHANGED boardVars => BoardInv'
  <1> SUFFICES ASSUME BoardInv, UNCHANGED boardVars PROVE BoardInv'
    OBVIOUS
  <1> USE DEF boardVars, BoardInv
  <1>1. BoardShape'
    BY DEF BoardShape, Writes, Entries
  <1>2. TimesAddUp' /\ WaitInOrder'
    BY DEF TimesAddUp, WaitInOrder, Ascends
  <1>3. ToldInOrder' /\ NoneAfterLast'
    BY DEF ToldInOrder, NoneAfterLast
  <1>4. LastIsSomewhere'
    BY DEF LastIsSomewhere, LastIsStaged, LastIsTaken, LastIsApplied, Pending
  <1>5. IdsAreFresh'
    BY DEF IdsAreFresh
  <1> QED BY <1>1, <1>2, <1>3, <1>4, <1>5

(* What Set leaves on a board's queue.                                     *)
LEMMA SetQueue ==
  ASSUME BoardShape, NEW b \in Boards, NEW k \in Keys, NEW ttl \in Lifetimes, Set(b, k, ttl)
  PROVE  LET q == stagedWriteQueue[b]
             r == stagedWriteQueue'[b]
         IN  /\ writes \in Nat /\ writes' = writes + 1 /\ writes' \in 0 .. MaxWrites
             /\ stagedWriteQueue' \in [Boards -> Seq(Writes')]
             /\ Len(q) \in Nat /\ DOMAIN q = 1 .. Len(q) /\ DOMAIN r = 1 .. Len(q) + 1
             /\ \A i \in DOMAIN q : r[i] = q[i] /\ q[i] \in Writes
             /\ r[Len(q) + 1] = [key |-> k, write |-> writes + 1, ttl |-> ttl]
             /\ \A c \in Boards \ {b} : stagedWriteQueue'[c] = stagedWriteQueue[c]
             /\ local \in Seq(Writes') /\ Writes \subseteq Writes'
             /\ lastSet' \in [Boards -> [Keys -> 0 .. writes']]
             /\ lastSet'[b][k] = writes + 1
             /\ \A c \in Boards, j \in Keys :
                   <<c, j>> # <<b, k>> => lastSet'[c][j] = lastSet[c][j]
  <1> DEFINE q == stagedWriteQueue[b]
             new == [key |-> k, write |-> writes + 1, ttl |-> ttl]
             r == Append(q, new)
  <1>1. writes \in Nat /\ writes' = writes + 1 /\ writes' \in 0 .. MaxWrites
    BY BlackboardAssumption DEF BoardShape, Set
  <1>2. Writes \subseteq Writes' /\ new \in Writes'
    BY <1>1 DEF Writes
  <1>3. q \in Seq(Writes) /\ q \in Seq(Writes') /\ local \in Seq(Writes')
    BY <1>2 DEF BoardShape
  <1>4. /\ r \in Seq(Writes') /\ Len(r) = Len(q) + 1 /\ r[Len(q) + 1] = new
        /\ \A i \in 1 .. Len(q) : r[i] = q[i]
    BY ONLY <1>2, <1>3, AppendProperties
  <1>5. Len(q) \in Nat /\ DOMAIN q = 1 .. Len(q) /\ DOMAIN r = 1 .. Len(q) + 1
        /\ \A i \in DOMAIN q : q[i] \in Writes
    BY <1>3, <1>4
  <1>6. stagedWriteQueue' = [stagedWriteQueue EXCEPT ![b] = r]
    BY DEF Set
  <1> HIDE DEF r, new
  <1>7. /\ stagedWriteQueue' \in [Boards -> Seq(Writes')] /\ stagedWriteQueue'[b] = r
        /\ \A c \in Boards \ {b} : stagedWriteQueue'[c] = stagedWriteQueue[c]
    BY <1>2, <1>4, <1>6 DEF BoardShape
  <1>8. /\ lastSet' \in [Boards -> [Keys -> 0 .. writes']]
        /\ lastSet'[b][k] = writes + 1
        /\ \A c \in Boards, j \in Keys : <<c, j>> # <<b, k>> => lastSet'[c][j] = lastSet[c][j]
    <2>1. lastSet' = [lastSet EXCEPT ![b] = [lastSet[b] EXCEPT ![k] = writes + 1]]
      BY DEF Set
    <2>2. lastSet \in [Boards -> [Keys -> 0 .. writes']]
      BY <1>1 DEF BoardShape
    <2> QED BY <1>1, <2>1, <2>2
  <1> QED BY <1>1, <1>2, <1>3, <1>4, <1>5, <1>7, <1>8 DEF new

LEMMA SetKeeps ==
  ASSUME BoardInv, NEW b \in Boards, NEW k \in Keys, NEW ttl \in Lifetimes, Set(b, k, ttl)
  PROVE  BoardInv'
  <1> DEFINE q == stagedWriteQueue[b]
             r == stagedWriteQueue'[b]
             n == Len(q)
  <1>1. BoardShape /\ TimesAddUp /\ WaitInOrder /\ ToldInOrder /\ IdsAreFresh
        /\ NoneAfterLast /\ LastIsSomewhere
    BY DEF BoardInv
  <1>2. UNCHANGED <<items, local, updating, subscriptions, subscriptionId, notifying, misused,
                    heard>>
    BY DEF Set
  <1>3. /\ writes \in Nat /\ writes' = writes + 1 /\ writes' \in 0 .. MaxWrites
        /\ stagedWriteQueue' \in [Boards -> Seq(Writes')]
        /\ n \in Nat /\ DOMAIN q = 1 .. n /\ DOMAIN r = 1 .. n + 1
        /\ \A i \in DOMAIN q : r[i] = q[i] /\ q[i] \in Writes
        /\ r[n + 1] = [key |-> k, write |-> writes + 1, ttl |-> ttl]
        /\ \A c \in Boards \ {b} : stagedWriteQueue'[c] = stagedWriteQueue[c]
        /\ local \in Seq(Writes') /\ Writes \subseteq Writes'
        /\ lastSet' \in [Boards -> [Keys -> 0 .. writes']]
        /\ lastSet'[b][k] = writes + 1
        /\ \A c \in Boards, j \in Keys : <<c, j>> # <<b, k>> => lastSet'[c][j] = lastSet[c][j]
    BY <1>1, SetQueue
  <1> HIDE DEF q, r, n
  <1>4. /\ r[n + 1].write = writes + 1 /\ r[n + 1].key = k
        /\ \A i \in DOMAIN r : i \in DOMAIN q \/ i = n + 1
        /\ \A i \in DOMAIN q : i < n + 1 /\ i \in DOMAIN r /\ r[i] = q[i]
        /\ n + 1 \in DOMAIN r
    BY <1>3
  <1>5. \A i \in DOMAIN q : q[i].write \in Nat /\ q[i].write <= writes /\ q[i].key \in Keys
    BY <1>3, WritesFacts
  <1>6. \A i \in DOMAIN local : local[i].write \in Nat /\ local[i].write <= writes
                                /\ local[i].key \in Keys
    BY SMTT(30), <1>1, <1>3, WritesFacts, QueueFacts DEF BoardShape
  <1>7. BoardShape'
    <2>1. Entries \subseteq Entries'
      BY <1>3 DEF Entries
    <2>2. items' \in [Boards -> [Keys -> Entries']]
      BY <1>1, <1>2, <2>1 DEF BoardShape
    <2>3. heard' \in [Boards -> [Subscriptions -> 0 .. writes']]
          /\ notifying' \subseteq Subscriptions \X Names \X (1 .. writes')
      BY SMTT(30), <1>1, <1>2, <1>3 DEF BoardShape
    <2> QED BY <1>1, <1>2, <1>3, <2>2, <2>3 DEF BoardShape
  <1>8. TimesAddUp'
    BY <1>1, <1>2 DEF TimesAddUp
  <1>9. WaitInOrder'
    <2>1. Ascends(r)
      <3> SUFFICES ASSUME NEW i \in DOMAIN r, NEW j \in DOMAIN r, i < j
                   PROVE  r[i].write < r[j].write
        BY DEF Ascends
      <3>1. i \in DOMAIN q
        BY <1>3, <1>4
      <3>2. CASE j \in DOMAIN q
        BY <1>1, <1>4, <3>1, <3>2 DEF WaitInOrder, Ascends, q
      <3>3. CASE j = n + 1
        BY <1>3, <1>4, <1>5, <3>1, <3>3
      <3> QED BY <1>4, <3>2, <3>3
    <2>2. \A c \in Boards : Ascends(stagedWriteQueue'[c])
      BY <1>1, <1>3, <2>1 DEF WaitInOrder, r
    <2>3. ASSUME updating # NoBoard, NEW i \in DOMAIN local,
                 NEW j \in DOMAIN stagedWriteQueue'[updating]
          PROVE  local[i].write < stagedWriteQueue'[updating][j].write
      <3>1. CASE updating # b \/ j \in DOMAIN q
        BY <1>1, <1>3, <1>4, <2>3, <3>1 DEF WaitInOrder, BoardShape, q, r
      <3>2. CASE updating = b /\ j = n + 1
        BY <1>3, <1>4, <1>6, <3>2 DEF r
      <3> QED BY <1>4, <2>3, <3>1, <3>2 DEF r
    <2> QED BY <1>1, <1>2, <2>2, <2>3 DEF WaitInOrder, Ascends
  <1>10. ToldInOrder'
    <2>1. \A c \in Boards, s \in Subscriptions : heard[c][s] \in Nat /\ heard[c][s] <= writes
      BY <1>1, <1>3 DEF BoardShape
    <2>2. \A m \in notifying : m[3] \in Nat /\ m[3] <= writes
      BY <1>1, <1>3 DEF BoardShape
    <2>3. ASSUME NEW c \in Boards, NEW s \in Subscriptions, NEW j \in DOMAIN stagedWriteQueue'[c]
          PROVE  heard[c][s] < stagedWriteQueue'[c][j].write
      <3>1. CASE c # b \/ j \in DOMAIN q
        BY <1>1, <1>3, <1>4, <2>3, <3>1 DEF ToldInOrder, q, r
      <3>2. CASE c = b /\ j = n + 1
        BY <1>3, <1>4, <2>1, <3>2 DEF r
      <3> QED BY <1>4, <2>3, <3>1, <3>2 DEF r
    <2>4. ASSUME NEW m \in notifying, NEW j \in DOMAIN stagedWriteQueue'[updating]
          PROVE  m[3] < stagedWriteQueue'[updating][j].write
      <3>0. updating \in Boards
        BY <1>1 DEF BoardShape
      <3>1. CASE updating # b \/ j \in DOMAIN q
        BY <1>1, <1>3, <1>4, <2>4, <3>0, <3>1 DEF ToldInOrder, q, r
      <3>2. CASE updating = b /\ j = n + 1
        BY <1>3, <1>4, <2>2, <3>2 DEF r
      <3> QED BY <1>4, <2>4, <3>1, <3>2 DEF r
    <2> QED BY <1>1, <1>2, <2>3, <2>4 DEF ToldInOrder
  <1>11. NoneAfterLast'
    <2>1. \A c \in Boards, x \in Keys : lastSet[c][x] <= lastSet'[c][x]
      <3>1. \A c \in Boards, x \in Keys : lastSet[c][x] \in Nat /\ lastSet[c][x] <= writes
        BY <1>1, <1>3 DEF BoardShape
      <3> SUFFICES ASSUME NEW c \in Boards, NEW x \in Keys
                   PROVE  lastSet[c][x] <= lastSet'[c][x]
        OBVIOUS
      <3>2. CASE <<c, x>> = <<b, k>>
        BY <1>3, <3>1, <3>2
      <3>3. CASE <<c, x>> # <<b, k>>
        BY <1>3, <3>1, <3>3
      <3> QED BY <3>2, <3>3
    <2>2. ASSUME NEW c \in Boards, NEW i \in DOMAIN stagedWriteQueue'[c]
          PROVE  stagedWriteQueue'[c][i].write <= lastSet'[c][stagedWriteQueue'[c][i].key]
      <3>1. CASE c = b /\ i = n + 1
        BY <1>3, <1>4, <3>1 DEF r
      <3>2. CASE c # b \/ i \in DOMAIN q
        <4>1. /\ i \in DOMAIN stagedWriteQueue[c]
              /\ stagedWriteQueue'[c][i] = stagedWriteQueue[c][i]
          BY <1>3, <1>4, <2>2, <3>2 DEF q, r
        <4>2. stagedWriteQueue[c][i] \in Writes
          BY <1>1, <4>1, QueueFacts DEF BoardShape
        <4> DEFINE w == stagedWriteQueue[c][i]
        <4>3. w.key \in Keys /\ w.write \in Nat /\ w.write <= lastSet[c][w.key]
          BY <1>1, <1>3, <4>1, <4>2, WritesFacts DEF NoneAfterLast
        <4>4. lastSet[c][w.key] \in Nat /\ lastSet'[c][w.key] \in Nat
          BY SMTT(30), <1>1, <1>3, <4>3 DEF BoardShape
        <4> HIDE DEF w
        <4>5. w.write <= lastSet'[c][w.key]
          BY <2>1, <4>3, <4>4
        <4> QED BY <4>1, <4>5 DEF w
      <3> QED BY <1>4, <2>2, <3>1, <3>2 DEF r
    <2>3. ASSUME updating # NoBoard, NEW i \in DOMAIN local
          PROVE  local[i].write <= lastSet'[updating][local[i].key]
      <3>1. updating \in Boards /\ local[i].write <= lastSet[updating][local[i].key]
        BY <1>1, <2>3 DEF BoardShape, NoneAfterLast
      <3>2. lastSet[updating][local[i].key] \in Nat /\ lastSet'[updating][local[i].key] \in Nat
        BY SMTT(30), <1>1, <1>3, <1>6, <3>1 DEF BoardShape
      <3> QED BY <1>6, <2>1, <3>1, <3>2
    <2> QED BY <1>2, <2>2, <2>3 DEF NoneAfterLast
  <1>12. LastIsSomewhere'
    <2> SUFFICES ASSUME NEW c \in Boards, NEW x \in Keys
                 PROVE  LastIsStaged(c, x)' \/ LastIsTaken(c, x)' \/ LastIsApplied(c, x)'
      BY DEF LastIsSomewhere
    <2>1. CASE <<c, x>> = <<b, k>>
      BY <1>3, <1>4, <2>1 DEF LastIsStaged, r
    <2>2. CASE c # b
      <3>1. stagedWriteQueue'[c] = stagedWriteQueue[c] /\ lastSet'[c][x] = lastSet[c][x]
        BY <1>3, <2>2
      <3> QED BY <1>1, <1>2, <3>1
              DEF LastIsSomewhere, LastIsStaged, LastIsTaken, LastIsApplied, Pending
    <2>3. CASE c = b /\ x # k
      <3>1. lastSet'[c][x] = lastSet[c][x]
        BY <1>3, <2>3
      <3>2. Pending(stagedWriteQueue'[c], x) => Pending(stagedWriteQueue[c], x)
        BY <1>4, <2>3 DEF Pending, q, r
      <3>3. LastIsStaged(c, x) => LastIsStaged(c, x)'
        BY <1>4, <2>3, <3>1 DEF LastIsStaged, q, r
      <3>4. LastIsTaken(c, x) => LastIsTaken(c, x)'
        BY <1>2, <3>1, <3>2 DEF LastIsTaken
      <3>5. LastIsApplied(c, x) => LastIsApplied(c, x)'
        BY <1>2, <3>1, <3>2 DEF LastIsApplied
      <3> QED BY <1>1, <3>3, <3>4, <3>5 DEF LastIsSomewhere
    <2> QED BY <2>1, <2>2, <2>3
  <1>13. IdsAreFresh'
    BY <1>1, <1>2 DEF IdsAreFresh
  <1> QED BY <1>7, <1>8, <1>9, <1>10, <1>11, <1>12, <1>13 DEF BoardInv

(* Update takes what is staged.                                            *)
LEMMA TakeKeeps ==
  ASSUME BoardInv, NEW b \in Boards, TakeStaged(b)
  PROVE  BoardInv'
  <1>1. BoardShape /\ TimesAddUp /\ WaitInOrder /\ ToldInOrder /\ IdsAreFresh
        /\ NoneAfterLast /\ LastIsSomewhere
    BY DEF BoardInv
  <1>2. UNCHANGED <<items, subscriptions, subscriptionId, notifying, misused, lastSet, writes,
                    heard>>
        /\ updating = NoBoard /\ updating' = b /\ local' = stagedWriteQueue[b]
        /\ b # NoBoard
    BY BlackboardAssumption DEF TakeStaged
  <1>3. local = <<>> /\ notifying = {}
    BY <1>1, <1>2 DEF BoardShape
  <1>4. /\ stagedWriteQueue' \in [Boards -> Seq(Writes)] /\ stagedWriteQueue'[b] = <<>>
        /\ \A c \in Boards \ {b} : stagedWriteQueue'[c] = stagedWriteQueue[c]
    BY <1>1, EmptyQueue DEF TakeStaged, BoardShape
  <1>5. Writes' = Writes /\ Entries' = Entries
    BY <1>2 DEF Writes, Entries
  <1>6. BoardShape'
    BY <1>1, <1>2, <1>3, <1>4, <1>5 DEF BoardShape
  <1>7. TimesAddUp'
    BY <1>1, <1>2 DEF TimesAddUp
  <1>8. WaitInOrder'
    <2>1. \A c \in Boards : Ascends(stagedWriteQueue'[c])
      BY <1>1, <1>4, EmptyQueue DEF WaitInOrder
    <2>2. Ascends(local') /\ DOMAIN stagedWriteQueue'[updating'] = {}
      BY <1>1, <1>2, <1>4, EmptyQueue DEF WaitInOrder
    <2> QED BY <2>1, <2>2 DEF WaitInOrder, Ascends
  <1>9. ToldInOrder'
    <2>1. ASSUME NEW c \in Boards, NEW s \in Subscriptions, NEW j \in DOMAIN stagedWriteQueue'[c]
          PROVE  heard[c][s] < stagedWriteQueue'[c][j].write
      BY <1>1, <1>4, <2>1, EmptyQueue DEF ToldInOrder
    <2>2. \A s \in Subscriptions : \A i \in DOMAIN local' : heard[b][s] < local'[i].write
      BY <1>1, <1>2 DEF ToldInOrder
    <2> QED BY <1>2, <1>3, <2>1, <2>2 DEF ToldInOrder
  <1>10. NoneAfterLast'
    <2>1. \A c \in Boards : \A i \in DOMAIN stagedWriteQueue'[c] :
             stagedWriteQueue'[c][i].write <= lastSet[c][stagedWriteQueue'[c][i].key]
      BY <1>1, <1>4, EmptyQueue DEF NoneAfterLast
    <2>2. \A i \in DOMAIN local' : local'[i].write <= lastSet[b][local'[i].key]
      BY <1>1, <1>2 DEF NoneAfterLast
    <2> QED BY <1>2, <2>1, <2>2 DEF NoneAfterLast
  <1>11. LastIsSomewhere'
    <2> SUFFICES ASSUME NEW c \in Boards, NEW k \in Keys
                 PROVE  LastIsStaged(c, k)' \/ LastIsTaken(c, k)' \/ LastIsApplied(c, k)'
      BY DEF LastIsSomewhere
    <2>1. LastIsStaged(c, k) \/ LastIsApplied(c, k)
      BY <1>1, <1>2, BlackboardAssumption DEF LastIsSomewhere, LastIsTaken
    <2>2. CASE c = b
      <3>1. ~Pending(stagedWriteQueue'[b], k)
        BY <1>4, EmptyQueue
      <3>2. LastIsStaged(b, k) => LastIsTaken(b, k)'
        BY <1>2, <3>1 DEF LastIsStaged, LastIsTaken
      <3>3. LastIsApplied(b, k) => LastIsApplied(b, k)'
        BY <1>2, <3>1 DEF LastIsApplied
      <3> QED BY <2>1, <2>2, <3>2, <3>3
    <2>3. CASE c # b
      BY <1>2, <1>4, <2>1, <2>3 DEF LastIsStaged, LastIsApplied
    <2> QED BY <2>2, <2>3
  <1>12. IdsAreFresh'
    BY <1>1, <1>2, <1>3 DEF IdsAreFresh
  <1> QED BY <1>6, <1>7, <1>8, <1>9, <1>10, <1>11, <1>12 DEF BoardInv

(* What applying the first write leaves.                                   *)
LEMMA AppliedQueue ==
  ASSUME BoardShape, ApplyNext
  PROVE  /\ updating \in Boards /\ writes \in Nat /\ Len(local) \in Nat /\ Len(local) > 0
         /\ local[1] \in Writes
         /\ local' \in Seq(Writes) /\ DOMAIN local = 1 .. Len(local)
         /\ DOMAIN local' = 1 .. Len(local) - 1
         /\ \A i \in 1 .. Len(local) - 1 : local'[i] = local[i + 1]
  <1>1. local \in Seq(Writes) /\ local # <<>> /\ updating \in Boards /\ writes \in Nat
    BY DEF ApplyNext, InUpdate, BoardShape
  <1>2. Len(local) \in Nat /\ Len(local) > 0
    BY <1>1, EmptySeq
  <1>3. 1 \in 1 .. Len(local) /\ local' = RemoveAt(local, 1)
    BY <1>2 DEF ApplyNext, NextOf
  <1>4. /\ local' \in Seq(Writes) /\ Len(local') = Len(local) - 1
        /\ \A i \in 1 .. Len(local) - 1 : local'[i] = local[IF i < 1 THEN i ELSE i + 1]
    BY <1>1, <1>3, RemoveAtFacts
  <1>5. \A i \in 1 .. Len(local) - 1 : local'[i] = local[i + 1]
    BY <1>2, <1>4
  <1> QED BY <1>1, <1>2, <1>3, <1>4, <1>5

LEMMA ApplyKeeps ==
  ASSUME BoardInv, ApplyNext
  PROVE  BoardInv'
  <1> DEFINE b == updating
             w == local[1]
             n == Len(local)
  <1>1. BoardShape /\ TimesAddUp /\ WaitInOrder /\ ToldInOrder /\ IdsAreFresh
        /\ NoneAfterLast /\ LastIsSomewhere
    BY DEF BoardInv
  <1>2. UNCHANGED <<stagedWriteQueue, updating, subscriptions, subscriptionId, misused, lastSet,
                    writes, heard>>
        /\ notifying = {} /\ updating # NoBoard
    BY DEF ApplyNext, InUpdate
  <1>3. /\ b \in Boards /\ writes \in Nat /\ n \in Nat /\ n > 0 /\ w \in Writes
        /\ local' \in Seq(Writes) /\ DOMAIN local = 1 .. n
        /\ DOMAIN local' = 1 .. n - 1
        /\ \A i \in 1 .. n - 1 : local'[i] = local[i + 1]
    BY <1>1, AppliedQueue
  <1>4. /\ items' = [items EXCEPT ![b] = [items[b] EXCEPT ![w.key] = Item(w.write, w.ttl)]]
        /\ notifying' = {<<m[1], m[2], w.write>> : m \in {x \in subscriptions[b] : x[2] = w.key[1]}}
    BY DEF ApplyNext, NextOf, Entry
  <1> HIDE DEF b, w, n
  <1>5. /\ w.key \in Keys /\ w.write \in 1 .. writes /\ w.ttl \in Lifetimes /\ w.ttl \in Nat
    BY <1>3, WritesFacts
  <1>6. /\ 1 \in DOMAIN local
        /\ \A i \in DOMAIN local' : /\ i + 1 \in DOMAIN local /\ 1 < i + 1
                                    /\ local'[i] = local[i + 1]
    BY <1>3
  <1>7. Writes' = Writes /\ Entries' = Entries
    BY <1>2 DEF Writes, Entries
  <1>8. Item(w.write, w.ttl) \in Entries
    BY <1>3, <1>5 DEF Item, Entries
  <1>9. /\ items' \in [Boards -> [Keys -> Entries]]
        /\ items'[b][w.key] = Item(w.write, w.ttl)
        /\ \A c \in Boards, k \in Keys : <<c, k>> # <<b, w.key>> => items'[c][k] = items[c][k]
    <2>1. items \in [Boards -> [Keys -> Entries]]
      BY <1>1 DEF BoardShape
    <2> QED BY <1>3, <1>4, <1>5, <1>8, <2>1
  <1>10. /\ notifying' \subseteq Subscriptions \X Names \X (1 .. writes)
         /\ \A m \in notifying' : m[3] = w.write
    <2>1. subscriptions[b] \subseteq Subscriptions \X Names
      BY <1>1, <1>3 DEF BoardShape
    <2> QED BY <1>4, <1>5, <2>1
  <1>11. BoardShape'
    BY <1>1, <1>2, <1>3, <1>7, <1>9, <1>10 DEF BoardShape
  <1>12. TimesAddUp'
    <2> SUFFICES ASSUME NEW c \in Boards, NEW k \in Keys
                 PROVE  LET i == items'[c][k] IN
                        IF i = NoItem \/ i.lifetime = 0 THEN i.ttl = 0
                        ELSE i.ttl > 0 /\ i.ttl + i.age = i.lifetime
      BY DEF TimesAddUp
    <2>1. CASE <<c, k>> = <<b, w.key>>
      <3>1. items'[c][k] = [write |-> w.write, ttl |-> w.ttl, lifetime |-> w.ttl, age |-> 0]
        BY <1>9, <2>1 DEF Item
      <3> QED BY <1>5, <3>1, NoItemFacts
    <2>2. CASE <<c, k>> # <<b, w.key>>
      BY <1>1, <1>9, <2>2 DEF TimesAddUp
    <2> QED BY <2>1, <2>2
  <1>13. WaitInOrder'
    <2>1. \A i, j \in DOMAIN local' : i < j => local'[i].write < local'[j].write
      <3> SUFFICES ASSUME NEW i \in DOMAIN local', NEW j \in DOMAIN local', i < j
                   PROVE  local'[i].write < local'[j].write
        OBVIOUS
      <3>1. i + 1 < j + 1 /\ i + 1 \in DOMAIN local /\ j + 1 \in DOMAIN local
        BY <1>3, <1>6
      <3> QED BY <1>1, <1>6, <3>1 DEF WaitInOrder, Ascends
    <2>2. \A i \in DOMAIN local', j \in DOMAIN stagedWriteQueue[b] :
             local'[i].write < stagedWriteQueue[b][j].write
      BY <1>1, <1>2, <1>6 DEF WaitInOrder, b
    <2>3. \A c \in Boards : Ascends(stagedWriteQueue'[c])
      BY <1>1, <1>2 DEF WaitInOrder
    <2> QED BY <1>2, <2>1, <2>2, <2>3 DEF WaitInOrder, Ascends, b
  <1>14. ToldInOrder'
    <2>1. \A s \in Subscriptions : \A i \in DOMAIN local : heard[b][s] < local[i].write
      BY <1>1, <1>3 DEF ToldInOrder, b
    <2>2. \A i \in DOMAIN local' : w.write < local'[i].write
      BY <1>1, <1>6 DEF WaitInOrder, Ascends, w
    <2>3. \A j \in DOMAIN stagedWriteQueue[b] : w.write < stagedWriteQueue[b][j].write
      BY <1>1, <1>2, <1>6 DEF WaitInOrder, b, w
    <2>4. \A s \in Subscriptions : heard[b][s] <= w.write
      <3>1. \A s \in Subscriptions : heard[b][s] \in Nat
        BY <1>1, <1>3 DEF BoardShape
      <3> QED BY <1>5, <1>6, <2>1, <3>1 DEF w
    <2>5. ASSUME NEW c \in Boards, NEW s \in Subscriptions
          PROVE  /\ \A j \in DOMAIN stagedWriteQueue'[c] :
                       heard'[c][s] < stagedWriteQueue'[c][j].write
                 /\ updating' = c => \A i \in DOMAIN local' : heard'[c][s] < local'[i].write
      BY <1>1, <1>2, <1>6, <2>1 DEF ToldInOrder, b
    <2>6. ASSUME NEW m \in notifying'
          PROVE  /\ \A x \in notifying' : x[3] = m[3]
                 /\ \A s \in Subscriptions : heard'[updating'][s] <= m[3]
                 /\ \A i \in DOMAIN local' : m[3] < local'[i].write
                 /\ \A j \in DOMAIN stagedWriteQueue'[updating'] :
                       m[3] < stagedWriteQueue'[updating'][j].write
      BY <1>2, <1>10, <2>2, <2>3, <2>4, <2>6 DEF b
    <2> QED BY <2>5, <2>6 DEF ToldInOrder
  <1>15. NoneAfterLast'
    BY <1>1, <1>2, <1>6 DEF NoneAfterLast
  <1>16. LastIsSomewhere'
    <2> SUFFICES ASSUME NEW c \in Boards, NEW k \in Keys
                 PROVE  LastIsStaged(c, k)' \/ LastIsTaken(c, k)' \/ LastIsApplied(c, k)'
      BY DEF LastIsSomewhere
    <2>1. LastIsStaged(c, k) => LastIsStaged(c, k)'
      BY <1>2 DEF LastIsStaged
    <2>2. Pending(local', k) => Pending(local, k)
      BY <1>6 DEF Pending
    <2>3. ASSUME LastIsApplied(c, k) PROVE LastIsApplied(c, k)'
      <3>1. <<c, k>> # <<b, w.key>>
        BY <1>6, <2>3 DEF LastIsApplied, Pending, b, w
      <3> QED BY <1>2, <1>9, <2>2, <2>3, <3>1 DEF LastIsApplied
    <2>4. ASSUME LastIsTaken(c, k) PROVE LastIsTaken(c, k)' \/ LastIsApplied(c, k)'
      <3>1. PICK i \in DOMAIN local : local[i].key = k /\ local[i].write = lastSet[c][k]
        BY <2>4 DEF LastIsTaken
      <3>2. c = b /\ ~Pending(stagedWriteQueue[c], k)
        BY <2>4 DEF LastIsTaken, b
      <3>3. CASE i = 1
        <4>1. w.key = k /\ w.write = lastSet[c][k]
          BY <3>1, <3>3 DEF w
        <4>2. items'[c][k].write = lastSet[c][k]
          BY <1>9, <3>2, <4>1 DEF Item
        <4>3. ASSUME NEW j \in DOMAIN local', local'[j].key = k PROVE FALSE
          <5>1. j + 1 \in DOMAIN local /\ 1 < j + 1 /\ local[j + 1].key = k
            BY <1>6, <4>3
          <5>2. w.write < local[j + 1].write
            BY <1>1, <1>6, <5>1 DEF WaitInOrder, Ascends, w
          <5>3. local[j + 1].write <= lastSet[c][k]
            BY <1>1, <1>2, <3>2, <5>1 DEF NoneAfterLast, b
          <5>4. local[j + 1].write \in Nat
            BY <1>1, <1>3, <5>1, QueueFacts, WritesFacts DEF BoardShape
          <5> QED BY <1>5, <4>1, <5>2, <5>3, <5>4
        <4> QED BY <1>2, <3>2, <4>2, <4>3 DEF LastIsApplied, Pending
      <3>4. CASE i # 1
        <4>1. i - 1 \in DOMAIN local' /\ (i - 1) + 1 = i
          BY <1>3, <3>1, <3>4
        <4>2. local'[i - 1] = local[i]
          BY <1>6, <4>1
        <4> QED BY <1>2, <2>4, <3>1, <4>1, <4>2 DEF LastIsTaken
      <3> QED BY <3>3, <3>4
    <2> QED BY <1>1, <2>1, <2>3, <2>4 DEF LastIsSomewhere
  <1>17. IdsAreFresh'
    <2>1. \A s \in Subscriptions : heard[b][s] < w.write
      BY <1>1, <1>3, <1>6 DEF ToldInOrder, b, w
    <2>2. subscriptions[b] \subseteq Subscriptions \X Names
      BY <1>1, <1>3 DEF BoardShape
    <2>3. \A x \in subscriptions[b] : x[1] < subscriptionId[b]
      BY <1>1, <1>3 DEF IdsAreFresh
    <2>4. ASSUME NEW m \in notifying'
          PROVE  /\ m[1] < subscriptionId[b] /\ heard[b][m[1]] < m[3]
                 /\ m[2] = w.key[1]
      <3>1. PICK x \in subscriptions[b] : x[2] = w.key[1] /\ m = <<x[1], x[2], w.write>>
        BY <1>4, <2>4
      <3> QED BY <2>1, <2>2, <2>3, <3>1
    <2> QED BY <1>1, <1>2, <2>4 DEF IdsAreFresh, b
  <1> QED BY <1>11, <1>12, <1>13, <1>14, <1>15, <1>16, <1>17 DEF BoardInv

(* Callbacks, and what they do to the table of subscriptions.                *)
LEMMA HearKeeps ==
  ASSUME BoardInv, NEW n \in notifying, Hear(n),
         subscriptions' \in [Boards -> SUBSET (Subscriptions \X Names)],
         subscriptionId' \in [Boards -> 1 .. MaxSubscriptions + 1],
         \A b \in Boards : /\ subscriptionId[b] <= subscriptionId'[b]
                            /\ \A x \in subscriptions'[b] : x[1] < subscriptionId'[b],
         notifying' \subseteq Subscriptions \X Names \X (1 .. writes),
         \A m \in notifying' : /\ m[1] # n[1] /\ m[2] = n[2] /\ m[3] = n[3]
                               /\ m[1] < subscriptionId'[updating]
                               /\ heard[updating][m[1]] < n[3]
  PROVE  BoardInv'
  <1>1. BoardShape /\ TimesAddUp /\ WaitInOrder /\ ToldInOrder /\ IdsAreFresh
        /\ NoneAfterLast /\ LastIsSomewhere
    BY DEF BoardInv
  <1>2. UNCHANGED <<items, stagedWriteQueue, local, updating, lastSet, writes>>
    BY DEF Hear
  <1>3. /\ updating \in Boards /\ n[1] \in Subscriptions /\ n[3] \in 1 .. writes /\ n[3] \in Nat
        /\ writes \in Nat
    BY <1>1 DEF BoardShape
  <1>4. /\ heard' \in [Boards -> [Subscriptions -> 0 .. writes]]
        /\ heard'[updating][n[1]] = n[3]
        /\ \A c \in Boards, s \in Subscriptions :
              <<c, s>> # <<updating, n[1]>> => heard'[c][s] = heard[c][s]
    <2>1. heard' = [heard EXCEPT ![updating] = [heard[updating] EXCEPT ![n[1]] = n[3]]]
      BY DEF Hear
    <2>2. heard \in [Boards -> [Subscriptions -> 0 .. writes]] /\ n[3] \in 0 .. writes
      BY <1>1, <1>3 DEF BoardShape
    <2> QED BY <1>3, <2>1, <2>2
  <1>5. Writes' = Writes /\ Entries' = Entries
    BY <1>2 DEF Writes, Entries
  <1>6. BoardShape'
    <2>1. updating' # NoBoard
      BY <1>2, <1>3, BlackboardAssumption
    <2> QED BY <1>1, <1>2, <1>4, <1>5, <2>1 DEF BoardShape
  <1>7. TimesAddUp' /\ WaitInOrder' /\ NoneAfterLast'
    BY <1>1, <1>2 DEF TimesAddUp, WaitInOrder, NoneAfterLast, Ascends
  <1>8. LastIsSomewhere'
    BY <1>1, <1>2 DEF LastIsSomewhere, LastIsStaged, LastIsTaken, LastIsApplied, Pending
  <1>9. ToldInOrder'
    <2>1. /\ \A i \in DOMAIN local : n[3] < local[i].write
          /\ \A j \in DOMAIN stagedWriteQueue[updating] :
                n[3] < stagedWriteQueue[updating][j].write
          /\ \A s \in Subscriptions : heard[updating][s] <= n[3]
      BY <1>1 DEF ToldInOrder
    <2>2. \A s \in Subscriptions : heard'[updating][s] <= n[3]
      <3> SUFFICES ASSUME NEW s \in Subscriptions PROVE heard'[updating][s] <= n[3]
        OBVIOUS
      <3>1. CASE s = n[1]
        BY <1>3, <1>4, <3>1
      <3>2. CASE s # n[1]
        BY <1>3, <1>4, <2>1, <3>2
      <3> QED BY <3>1, <3>2
    <2>3. ASSUME NEW c \in Boards, NEW s \in Subscriptions
          PROVE  /\ \A j \in DOMAIN stagedWriteQueue[c] :
                       heard'[c][s] < stagedWriteQueue[c][j].write
                 /\ updating = c => \A i \in DOMAIN local : heard'[c][s] < local[i].write
      <3>1. CASE <<c, s>> = <<updating, n[1]>>
        BY <1>4, <2>1, <3>1
      <3>2. CASE <<c, s>> # <<updating, n[1]>>
        BY <1>1, <1>4, <3>2 DEF ToldInOrder
      <3> QED BY <3>1, <3>2
    <2>4. ASSUME NEW m \in notifying'
          PROVE  /\ \A x \in notifying' : x[3] = m[3]
                 /\ \A s \in Subscriptions : heard'[updating][s] <= m[3]
                 /\ \A i \in DOMAIN local : m[3] < local[i].write
                 /\ \A j \in DOMAIN stagedWriteQueue[updating] :
                       m[3] < stagedWriteQueue[updating][j].write
      <3>1. m[3] = n[3]
        OBVIOUS
      <3> QED BY <2>1, <2>2, <3>1
    <2> QED BY <1>2, <2>3, <2>4 DEF ToldInOrder
  <1>10. IdsAreFresh'
    <2>1. \A c \in Boards : subscriptionId[c] \in Nat /\ subscriptionId'[c] \in Nat
      BY <1>1, BlackboardAssumption DEF BoardShape
    <2>2. ASSUME NEW c \in Boards, NEW s \in Subscriptions, s >= subscriptionId'[c]
          PROVE  heard'[c][s] = 0
      <3>1. s \in Nat /\ s >= subscriptionId[c]
        BY <2>1, <2>2, BlackboardAssumption DEF Subscriptions
      <3>2. n[1] < subscriptionId[updating]
        BY <1>1 DEF IdsAreFresh
      <3>3. <<c, s>> # <<updating, n[1]>>
        BY <1>3, <2>1, <3>1, <3>2
      <3> QED BY <1>1, <1>4, <3>1, <3>3 DEF IdsAreFresh
    <2>3. ASSUME NEW m \in notifying'
          PROVE  /\ m[1] < subscriptionId'[updating] /\ heard'[updating][m[1]] < m[3]
                 /\ \A x \in notifying' : x[2] = m[2]
      <3>1. m[1] \in Subscriptions /\ m[1] # n[1] /\ m[3] = n[3]
        OBVIOUS
      <3>2. heard'[updating][m[1]] = heard[updating][m[1]]
        BY <1>3, <1>4, <3>1
      <3> QED BY <3>1, <3>2
    <2> QED BY <1>2, <2>2, <2>3 DEF IdsAreFresh
  <1> QED BY <1>6, <1>7, <1>8, <1>9, <1>10 DEF BoardInv

(* What the invariant says of whom notify has yet to call.                 *)
LEMMA Waiting ==
  ASSUME BoardInv, NEW n \in notifying
  PROVE  /\ notifying \subseteq Subscriptions \X Names \X (1 .. writes)
         /\ subscriptions \in [Boards -> SUBSET (Subscriptions \X Names)]
         /\ subscriptionId \in [Boards -> 1 .. MaxSubscriptions + 1]
         /\ \A b \in Boards : /\ subscriptionId[b] \in Nat
                               /\ \A x \in subscriptions[b] : x[1] < subscriptionId[b]
         /\ updating \in Boards
         /\ \A m \in notifying : /\ m[2] = n[2] /\ m[3] = n[3]
                                 /\ m[1] < subscriptionId[updating]
                                 /\ heard[updating][m[1]] < n[3]
                                 /\ m # n => m[1] # n[1]
  <1>1. /\ notifying \subseteq Subscriptions \X Names \X (1 .. writes)
        /\ subscriptions \in [Boards -> SUBSET (Subscriptions \X Names)]
        /\ subscriptionId \in [Boards -> 1 .. MaxSubscriptions + 1]
        /\ updating \in Boards
    BY DEF BoardInv, BoardShape
  <1>2. \A b \in Boards : /\ subscriptionId[b] \in Nat
                          /\ \A x \in subscriptions[b] : x[1] < subscriptionId[b]
    BY <1>1, BlackboardAssumption DEF BoardInv, IdsAreFresh
  <1>3. ASSUME NEW m \in notifying
        PROVE  /\ m[2] = n[2] /\ m[3] = n[3] /\ m[1] < subscriptionId[updating]
               /\ heard[updating][m[1]] < n[3]
    BY DEF BoardInv, ToldInOrder, IdsAreFresh
  <1>4. ASSUME NEW m \in notifying, m # n PROVE m[1] # n[1]
    <2>1. m = <<m[1], m[2], m[3]>> /\ n = <<n[1], n[2], n[3]>>
      BY <1>1
    <2> QED BY <1>3, <1>4, <2>1
  <1> QED BY <1>1, <1>2, <1>3, <1>4

LEMMA CallBackKeeps ==
  ASSUME BoardInv, NEW n \in notifying, CallBack(n)
  PROVE  BoardInv'
  <1>1. /\ Hear(n) /\ notifying' = notifying \ {n} /\ subscriptions' = subscriptions
        /\ subscriptionId' = subscriptionId
    BY DEF CallBack
  <1>2. \A m \in notifying' : /\ m[1] # n[1] /\ m[2] = n[2] /\ m[3] = n[3]
                              /\ m[1] < subscriptionId'[updating]
                              /\ heard[updating][m[1]] < n[3]
    BY <1>1, Waiting
  <1>3. /\ subscriptions' \in [Boards -> SUBSET (Subscriptions \X Names)]
        /\ subscriptionId' \in [Boards -> 1 .. MaxSubscriptions + 1]
        /\ notifying' \subseteq Subscriptions \X Names \X (1 .. writes)
    BY <1>1, Waiting
  <1>4. \A b \in Boards : /\ subscriptionId[b] <= subscriptionId'[b]
                          /\ \A x \in subscriptions'[b] : x[1] < subscriptionId'[b]
    BY <1>1, Waiting
  <1> QED BY <1>1, <1>2, <1>3, <1>4, HearKeeps

LEMMA CallBackUnsubscribesKeeps ==
  ASSUME BoardInv, NEW n \in notifying, NEW s \in Subscriptions, NEW name \in Names,
         CallBackUnsubscribes(n, s, name)
  PROVE  BoardInv'
  <1>1. /\ Hear(n) /\ notifying' \subseteq notifying \ {n}
        /\ subscriptions' = [subscriptions EXCEPT ![updating] = @ \ {<<s, name>>}]
        /\ subscriptionId' = subscriptionId
    BY DEF CallBackUnsubscribes
  <1>2. \A m \in notifying' : /\ m[1] # n[1] /\ m[2] = n[2] /\ m[3] = n[3]
                              /\ m[1] < subscriptionId'[updating]
                              /\ heard[updating][m[1]] < n[3]
    BY <1>1, Waiting
  <1>3. /\ subscriptions' \in [Boards -> SUBSET (Subscriptions \X Names)]
        /\ \A b \in Boards : subscriptions'[b] \subseteq subscriptions[b]
    BY <1>1, Waiting
  <1>4. /\ subscriptionId' \in [Boards -> 1 .. MaxSubscriptions + 1]
        /\ notifying' \subseteq Subscriptions \X Names \X (1 .. writes)
    BY <1>1, Waiting
  <1>5. \A b \in Boards : /\ subscriptionId[b] <= subscriptionId'[b]
                          /\ \A x \in subscriptions'[b] : x[1] < subscriptionId'[b]
    BY <1>1, <1>3, Waiting
  <1> QED BY <1>1, <1>2, <1>3, <1>4, <1>5, HearKeeps

(* What a new subscription leaves of the table.                            *)
LEMMA NewSubscriptionFacts ==
  ASSUME NEW b \in Boards, NEW name \in Names, NewSubscription(b, name),
         subscriptions \in [Boards -> SUBSET (Subscriptions \X Names)],
         subscriptionId \in [Boards -> 1 .. MaxSubscriptions + 1],
         \A c \in Boards : \A x \in subscriptions[c] : x[1] < subscriptionId[c]
  PROVE  /\ subscriptions' \in [Boards -> SUBSET (Subscriptions \X Names)]
         /\ subscriptionId' \in [Boards -> 1 .. MaxSubscriptions + 1]
         /\ subscriptionId[b] \in Subscriptions /\ subscriptionId'[b] = subscriptionId[b] + 1
         /\ \A c \in Boards : /\ subscriptionId[c] <= subscriptionId'[c]
                              /\ \A x \in subscriptions'[c] : x[1] < subscriptionId'[c]
  <1>1. /\ MaxSubscriptions \in Nat /\ subscriptionId[b] \in Subscriptions
        /\ subscriptionId[b] \in Nat
    BY BlackboardAssumption DEF NewSubscription, Subscriptions
  <1>2. /\ subscriptionId' = [subscriptionId EXCEPT ![b] = subscriptionId[b] + 1]
        /\ subscriptionId[b] + 1 \in 1 .. MaxSubscriptions + 1
    BY <1>1 DEF NewSubscription, Subscriptions
  <1>3. subscriptions' = [subscriptions EXCEPT ![b] =
                             subscriptions[b] \cup {<<subscriptionId[b], name>>}]
    BY DEF NewSubscription
  <1>4. /\ subscriptions' \in [Boards -> SUBSET (Subscriptions \X Names)]
        /\ subscriptionId' \in [Boards -> 1 .. MaxSubscriptions + 1]
    BY <1>1, <1>2, <1>3
  <1>5. ASSUME NEW c \in Boards
        PROVE  /\ subscriptionId[c] <= subscriptionId'[c]
               /\ \A x \in subscriptions'[c] : x[1] < subscriptionId'[c]
    <2>1. CASE c # b
      <3>1. subscriptionId[c] \in Nat
        BY <1>1
      <3> QED BY <1>2, <1>3, <2>1, <3>1
    <2>2. CASE c = b
      <3>1. \A x \in subscriptions[b] : x[1] \in Nat /\ x[1] < subscriptionId[b]
        BY DEF Subscriptions
      <3> QED BY <1>1, <1>2, <1>3, <2>2, <3>1
    <2> QED BY <2>1, <2>2
  <1> QED BY <1>1, <1>2, <1>4, <1>5

LEMMA CallBackSubscribesKeeps ==
  ASSUME BoardInv, NEW n \in notifying, NEW name \in Names, CallBackSubscribes(n, name)
  PROVE  BoardInv'
  <1> DEFINE id == subscriptionId[updating]
  <1>1. Hear(n) /\ NewSubscription(updating, name) /\ updating \in Boards
    BY Waiting DEF CallBackSubscribes
  <1>2. PICK more \in SUBSET ({name} \cap {n[2]}) :
           notifying' = (notifying \ {n}) \cup {<<id, x, n[3]>> : x \in more}
    BY DEF CallBackSubscribes
  <1>3. /\ subscriptions \in [Boards -> SUBSET (Subscriptions \X Names)]
        /\ subscriptionId \in [Boards -> 1 .. MaxSubscriptions + 1]
        /\ \A c \in Boards : \A x \in subscriptions[c] : x[1] < subscriptionId[c]
    BY Waiting
  <1>4. /\ subscriptions' \in [Boards -> SUBSET (Subscriptions \X Names)]
        /\ subscriptionId' \in [Boards -> 1 .. MaxSubscriptions + 1]
        /\ id \in Subscriptions /\ subscriptionId'[updating] = id + 1
        /\ \A c \in Boards : /\ subscriptionId[c] <= subscriptionId'[c]
                             /\ \A x \in subscriptions'[c] : x[1] < subscriptionId'[c]
    BY <1>1, <1>3, NewSubscriptionFacts
  <1>5. /\ id \in Nat /\ n[1] \in Nat /\ n[1] < id /\ n[3] \in 1 .. writes
        /\ notifying \subseteq Subscriptions \X Names \X (1 .. writes)
    BY Waiting DEF Subscriptions
  <1>6. heard[updating][id] = 0
    BY <1>1, <1>4, <1>5 DEF BoardInv, IdsAreFresh
  <1> HIDE DEF id
  <1>7. ASSUME NEW m \in notifying'
        PROVE  /\ m \in Subscriptions \X Names \X (1 .. writes)
               /\ m[1] # n[1] /\ m[2] = n[2] /\ m[3] = n[3]
               /\ m[1] < id + 1 /\ heard[updating][m[1]] < n[3]
    <2>1. CASE m \in notifying \ {n}
      <3>1. /\ m[2] = n[2] /\ m[3] = n[3] /\ m[1] < id /\ heard[updating][m[1]] < n[3]
            /\ m[1] # n[1]
        BY <2>1, Waiting DEF id
      <3>2. m \in Subscriptions \X Names \X (1 .. writes) /\ m[1] \in Nat
        BY <1>5, <2>1 DEF Subscriptions
      <3> QED BY <1>5, <3>1, <3>2
    <2>2. CASE \E x \in more : m = <<id, x, n[3]>>
      <3>1. m = <<id, n[2], n[3]>> /\ n[2] = name
        BY <2>2
      <3>2. /\ m[1] = id /\ m[2] = n[2] /\ m[3] = n[3]
            /\ m \in Subscriptions \X Names \X (1 .. writes)
        BY <1>4, <1>5, <3>1
      <3> QED BY <1>5, <1>6, <3>2
    <2> QED BY <1>2, <2>1, <2>2
  <1>8. notifying' \subseteq Subscriptions \X Names \X (1 .. writes)
    BY <1>7
  <1>9. \A m \in notifying' : /\ m[1] # n[1] /\ m[2] = n[2] /\ m[3] = n[3]
                              /\ m[1] < subscriptionId'[updating]
                              /\ heard[updating][m[1]] < n[3]
    BY <1>4, <1>7
  <1> QED BY <1>1, <1>4, <1>8, <1>9, HearKeeps

LEMMA SubscriptionsKeep ==
  ASSUME BoardInv, NEW b \in Boards, NEW name \in Names,
         Subscribe(b, name) \/ \E s \in Subscriptions : Unsubscribe(b, s, name)
  PROVE  BoardInv'
  <1>1. /\ UNCHANGED <<items, stagedWriteQueue, local, updating, notifying, misused, lastSet,
                       writes, heard>>
        /\ updating = NoBoard /\ notifying = {}
    BY DEF Subscribe, Unsubscribe, BoardInv, BoardShape
  <1>2. /\ subscriptions \in [Boards -> SUBSET (Subscriptions \X Names)]
        /\ subscriptionId \in [Boards -> 1 .. MaxSubscriptions + 1]
        /\ \A c \in Boards : \A x \in subscriptions[c] : x[1] < subscriptionId[c]
    BY DEF BoardInv, BoardShape, IdsAreFresh
  <1>3. /\ subscriptions' \in [Boards -> SUBSET (Subscriptions \X Names)]
        /\ subscriptionId' \in [Boards -> 1 .. MaxSubscriptions + 1]
        /\ \A c \in Boards : /\ subscriptionId[c] <= subscriptionId'[c]
                             /\ \A x \in subscriptions'[c] : x[1] < subscriptionId'[c]
    <2>1. CASE Subscribe(b, name)
      <3>1. NewSubscription(b, name)
        BY <2>1 DEF Subscribe
      <3> QED BY <1>2, <3>1, NewSubscriptionFacts
    <2>2. CASE \E s \in Subscriptions : Unsubscribe(b, s, name)
      <3>1. PICK s \in Subscriptions :
               /\ subscriptions' = [subscriptions EXCEPT ![b] = @ \ {<<s, name>>}]
               /\ subscriptionId' = subscriptionId
        BY <2>2 DEF Unsubscribe
      <3>2. /\ subscriptions' \in [Boards -> SUBSET (Subscriptions \X Names)]
            /\ \A c \in Boards : subscriptions'[c] \subseteq subscriptions[c]
        BY <1>2, <3>1
      <3>3. \A c \in Boards : subscriptionId[c] \in Nat
        BY <1>2, BlackboardAssumption
      <3> QED BY <1>2, <3>1, <3>2, <3>3
    <2> QED BY <2>1, <2>2
  <1>4. BoardShape'
    BY <1>1, <1>3 DEF BoardInv, BoardShape, Writes, Entries
  <1>5. TimesAddUp' /\ WaitInOrder'
    BY <1>1 DEF BoardInv, TimesAddUp, WaitInOrder, Ascends
  <1>6. ToldInOrder' /\ NoneAfterLast'
    BY <1>1 DEF BoardInv, ToldInOrder, NoneAfterLast
  <1>7. LastIsSomewhere'
    BY <1>1 DEF BoardInv, LastIsSomewhere, LastIsStaged, LastIsTaken, LastIsApplied, Pending
  <1>8. IdsAreFresh'
    <2>1. \A c \in Boards : subscriptionId[c] \in Nat /\ subscriptionId'[c] \in Nat
      BY <1>2, <1>3, BlackboardAssumption
    <2>2. ASSUME NEW c \in Boards, NEW s \in Subscriptions, s >= subscriptionId'[c]
          PROVE  heard'[c][s] = 0
      <3>1. s \in Nat /\ s >= subscriptionId[c]
        BY <1>3, <2>1, <2>2, BlackboardAssumption DEF Subscriptions
      <3> QED BY <1>1, <3>1 DEF BoardInv, IdsAreFresh
    <2> QED BY <1>1, <1>3, <2>2 DEF IdsAreFresh
  <1> QED BY <1>4, <1>5, <1>6, <1>7, <1>8 DEF BoardInv

-----------------------------------------------------------------------------
(* Decay.                                                                  *)

TimeAddsUp(i) ==
    IF i = NoItem \/ i.lifetime = 0 THEN i.ttl = 0 ELSE i.ttl > 0 /\ i.ttl + i.age = i.lifetime

LEMMA NoItemType == writes \in Nat => NoItem \in Entries
  BY DEF NoItem, Item, Entries

(* An entry that loses time keeps its account, and goes when it is up.     *)
LEMMA DecayedFacts ==
  ASSUME writes \in Nat, Lifetimes \subseteq Nat, NEW i \in Entries, TimeAddsUp(i)
  PROVE  /\ Decayed(i) \in Entries /\ TimeAddsUp(Decayed(i))
         /\ Decayed(i).write \in {0, i.write}
         /\ i # NoItem /\ Decayed(i) = NoItem => i.lifetime > 0 /\ i.age + 1 = i.lifetime
  <1>1. /\ i.write \in 0 .. writes /\ i.ttl \in Nat /\ i.lifetime \in Nat /\ i.age \in Nat
        /\ i.lifetime \in Lifetimes \cup {0}
    <2>1. /\ i.write \in 0 .. writes /\ i.ttl \in Nat /\ i.age \in Nat
          /\ i.lifetime \in Lifetimes \cup {0}
      BY DEF Entries
    <2>2. Lifetimes \cup {0} \subseteq Nat
      OBVIOUS
    <2> QED BY <2>1, <2>2, Zenon
  <1>2. CASE i = NoItem \/ i.ttl = 0
    BY <1>2 DEF Decayed
  <1>3. CASE i # NoItem /\ i.ttl = 1
    <2>1. Decayed(i) = NoItem
      BY <1>3 DEF Decayed
    <2>2. i.lifetime > 0 /\ i.age + 1 = i.lifetime
      BY <1>1, <1>3 DEF TimeAddsUp
    <2> QED BY <2>1, <2>2, NoItemType, NoItemFacts DEF TimeAddsUp
  <1>4. CASE i # NoItem /\ i.ttl # 0 /\ i.ttl # 1
    <2> DEFINE d == [write |-> i.write, ttl |-> i.ttl - 1, lifetime |-> i.lifetime,
                     age |-> i.age + 1]
    <2>1. Decayed(i) = d
      BY <1>4 DEF Decayed, Entries
    <2>2. d \in Entries
      BY <1>1, <1>4 DEF Entries
    <2>3. i.lifetime # 0 /\ i.ttl + i.age = i.lifetime
      BY <1>1, <1>4 DEF TimeAddsUp
    <2>4. d.ttl > 0 /\ d.ttl + d.age = d.lifetime /\ d.lifetime # 0
      BY <1>1, <1>4, <2>3
    <2>5. d # NoItem
      BY <2>4, NoItemFacts
    <2> HIDE DEF d
    <2>6. TimeAddsUp(d)
      BY <2>4, <2>5 DEF TimeAddsUp
    <2> QED BY <2>1, <2>2, <2>5, <2>6 DEF d
  <1> QED BY <1>2, <1>3, <1>4

LEMMA DecayItems ==
  ASSUME BoardInv, Decay
  PROVE  /\ updating \in Boards /\ writes \in Nat
         /\ items' \in [Boards -> [Keys -> Entries]]
         /\ \A k \in Keys : items'[updating][k] = Decayed(items[updating][k])
         /\ \A c \in Boards \ {updating} : items'[c] = items[c]
         /\ \A c \in Boards, k \in Keys : items[c][k] \in Entries /\ TimeAddsUp(items[c][k])
  <1>1. updating \in Boards /\ writes \in Nat /\ items \in [Boards -> [Keys -> Entries]]
    BY DEF BoardInv, BoardShape, Decay, InUpdate
  <1>2. \A c \in Boards, k \in Keys : items[c][k] \in Entries /\ TimeAddsUp(items[c][k])
    BY <1>1 DEF BoardInv, TimesAddUp, TimeAddsUp
  <1>3. \A k \in Keys : Decayed(items[updating][k]) \in Entries
    BY <1>1, <1>2, DecayedFacts, BlackboardAssumption
  <1>4. items' = [items EXCEPT ![updating] = [k \in Keys |-> Decayed(items[updating][k])]]
    BY DEF Decay
  <1> QED BY <1>1, <1>2, <1>3, <1>4

LEMMA DecayKeeps ==
  ASSUME BoardInv, Decay
  PROVE  BoardInv'
  <1>1. BoardShape /\ WaitInOrder /\ ToldInOrder /\ IdsAreFresh /\ NoneAfterLast
        /\ LastIsSomewhere
    BY DEF BoardInv
  <1>2. UNCHANGED <<stagedWriteQueue, local, subscriptions, subscriptionId, notifying, misused,
                    lastSet, writes, heard>>
        /\ updating' = NoBoard /\ local = <<>> /\ notifying = {} /\ NoBoard \notin Boards
    BY BlackboardAssumption DEF Decay, InUpdate
  <1>3. /\ updating \in Boards /\ writes \in Nat
        /\ items' \in [Boards -> [Keys -> Entries]]
        /\ \A k \in Keys : items'[updating][k] = Decayed(items[updating][k])
        /\ \A c \in Boards \ {updating} : items'[c] = items[c]
        /\ \A c \in Boards, k \in Keys : items[c][k] \in Entries /\ TimeAddsUp(items[c][k])
    BY DecayItems
  <1>4. Writes' = Writes /\ Entries' = Entries
    BY <1>2 DEF Writes, Entries
  <1>5. BoardShape'
    BY <1>1, <1>2, <1>3, <1>4 DEF BoardShape
  <1>6. TimesAddUp'
    <2>1. \A c \in Boards, k \in Keys : TimeAddsUp(items'[c][k])
      BY <1>3, DecayedFacts, BlackboardAssumption
    <2> QED BY <2>1 DEF TimesAddUp, TimeAddsUp
  <1>7. WaitInOrder'
    BY <1>1, <1>2 DEF WaitInOrder, Ascends
  <1>8. ToldInOrder' /\ NoneAfterLast' /\ IdsAreFresh'
    BY <1>1, <1>2 DEF ToldInOrder, NoneAfterLast, IdsAreFresh
  <1>9. LastIsSomewhere'
    <2> SUFFICES ASSUME NEW c \in Boards, NEW k \in Keys
                 PROVE  LastIsStaged(c, k)' \/ LastIsApplied(c, k)'
      BY DEF LastIsSomewhere
    <2>1. LastIsStaged(c, k) => LastIsStaged(c, k)'
      BY <1>2 DEF LastIsStaged
    <2>2. ~LastIsTaken(c, k)
      BY <1>2, EmptyQueue DEF LastIsTaken
    <2>3. items'[c][k].write \in {0, items[c][k].write}
      BY <1>3, DecayedFacts, BlackboardAssumption
    <2>4. LastIsApplied(c, k) => LastIsApplied(c, k)'
      BY <1>2, <2>3 DEF LastIsApplied
    <2> QED BY <1>1, <2>1, <2>2, <2>4 DEF LastIsSomewhere
  <1> QED BY <1>5, <1>6, <1>7, <1>8, <1>9 DEF BoardInv

LEMMA BoardKeeps == BoardInv /\ BoardNext => BoardInv'
  <1> SUFFICES ASSUME BoardInv, BoardNext PROVE BoardInv'
    OBVIOUS
  <1>1. CASE ApplyNext \/ Decay
    BY <1>1, ApplyKeeps, DecayKeeps
  <1>2. CASE \E n \in notifying : CallBack(n)
    BY <1>2, CallBackKeeps
  <1>3. CASE \E b \in Boards : TakeStaged(b)
    BY <1>3, TakeKeeps
  <1>4. CASE \E b \in Boards, k \in Keys, ttl \in Lifetimes : Set(b, k, ttl)
    BY <1>4, SetKeeps
  <1>5. CASE \E b \in Boards, name \in Names :
                Subscribe(b, name) \/ \E s \in Subscriptions : Unsubscribe(b, s, name)
    BY <1>5, SubscriptionsKeep
  <1>6. CASE \E n \in notifying, name \in Names :
                \/ CallBackSubscribes(n, name)
                \/ \E s \in Subscriptions : CallBackUnsubscribes(n, s, name)
    BY <1>6, CallBackSubscribesKeeps, CallBackUnsubscribesKeeps
  <1> QED BY <1>1, <1>2, <1>3, <1>4, <1>5, <1>6 DEF BoardNext

LEMMA BoardInvariant == Spec => []BoardInv
  <1>1. Init => BoardInv
    BY BoardInitially DEF Init
  <1>2. BoardInv /\ [Next]_vars => BoardInv'
    <2> SUFFICES ASSUME BoardInv, [Next]_vars PROVE BoardInv'
      OBVIOUS
    <2>1. BoardNext \/ UNCHANGED boardVars
      BY DEF Next, vars
    <2> QED BY <2>1, BoardStays, BoardKeeps
  <1> QED BY <1>1, <1>2, PTL DEF Spec

-----------------------------------------------------------------------------
(* Get, which asks a board's parent, and the parent's.                     *)

(* Hypothesis: the chains of parents end.  (Get would recurse for ever     *)
(* where SetParent has made a circle.)                                     *)
ParentsEnd ==
    \E n \in Nat : \E depth \in [Boards -> 0 .. n] :
        \A b \in Boards : Parent[b] # NoBoard => depth[Parent[b]] < depth[b]

(* There is a function that gives a board of Answering its own and every   *)
(* other what it gives its parent, level by level.                         *)
LEMMA ChainsResolve ==
  ASSUME ParentsEnd
  PROVE  \A V : \A own \in [Boards -> V], Answering \in SUBSET Boards :
            (\A c \in Boards : Parent[c] = NoBoard => c \in Answering) =>
               \E g \in [Boards -> V] :
                  \A c \in Boards : g[c] = IF c \in Answering THEN own[c] ELSE g[Parent[c]]
  <1> SUFFICES ASSUME NEW V, NEW own \in [Boards -> V], NEW Answering \in SUBSET Boards,
                      \A c \in Boards : Parent[c] = NoBoard => c \in Answering
               PROVE  \E g \in [Boards -> V] : \A c \in Boards :
                         g[c] = IF c \in Answering THEN own[c] ELSE g[Parent[c]]
    OBVIOUS
  <1>1. PICK n \in Nat : \E depth \in [Boards -> 0 .. n] :
           \A b \in Boards : Parent[b] # NoBoard => depth[Parent[b]] < depth[b]
    BY DEF ParentsEnd
  <1>2. PICK depth \in [Boards -> 0 .. n] :
           \A b \in Boards : Parent[b] # NoBoard => depth[Parent[b]] < depth[b]
    BY <1>1
  <1>3. \A b \in Boards : depth[b] \in Nat /\ depth[b] < n + 1
    BY <1>2
  <1>4. \A b \in Boards \ Answering : Parent[b] \in Boards /\ depth[Parent[b]] < depth[b]
    BY <1>2, BlackboardAssumption
  <1> DEFINE Value(g, c) == IF c \in Answering THEN own[c] ELSE g[Parent[c]]
             Solved(m) == \E g \in [Boards -> V] :
                            \A c \in Boards : depth[c] < m => g[c] = Value(g, c)
             Unsolved == {m \in Nat : ~Solved(m)}
  <1>5. Unsolved = {}
    <2> SUFFICES ASSUME Unsolved # {} PROVE FALSE
      OBVIOUS
    <2>1. PICK m \in Unsolved : \A k \in Unsolved : m <= k
      <3>1. Unsolved \in SUBSET Nat
        OBVIOUS
      <3> HIDE DEF Unsolved
      <3> QED BY <3>1, LeastOf
    <2>2. m \in Nat /\ ~Solved(m)
      BY <2>1
    <2>3. m # 0
      <3>1. \A c \in Boards : ~(depth[c] < 0)
        BY <1>3
      <3>2. Solved(0)
        BY <3>1
      <3> QED BY <2>2, <3>2
    <2>4. m - 1 \in Nat /\ m - 1 < m
      BY <2>2, <2>3
    <2>5. Solved(m - 1)
      BY <2>1, <2>2, <2>4
    <2>6. PICK g \in [Boards -> V] : \A c \in Boards : depth[c] < m - 1 => g[c] = Value(g, c)
      BY <2>5
    <2> DEFINE h == [c \in Boards |-> Value(g, c)]
    <2>7. ASSUME NEW c \in Boards, depth[c] < m PROVE h[c] = Value(h, c)
      <3>1. CASE c \in Answering
        BY <3>1
      <3>2. CASE c \notin Answering
        <4>1. Parent[c] \in Boards /\ depth[Parent[c]] < m - 1
          BY <1>3, <1>4, <2>2, <2>7, <3>2
        <4>2. g[Parent[c]] = Value(g, Parent[c])
          BY <2>6, <4>1
        <4>3. h[Parent[c]] = Value(g, Parent[c]) /\ h[c] = g[Parent[c]]
          BY <3>2, <4>1
        <4> QED BY <3>2, <4>2, <4>3
      <3> QED BY <3>1, <3>2
    <2>8. h \in [Boards -> V]
      BY <1>4
    <2>9. Solved(m)
      <3> HIDE DEF h, Value
      <3> QED BY <2>7, <2>8
    <2> QED BY <2>2, <2>9
  <1>6. PICK g \in [Boards -> V] : \A c \in Boards : depth[c] < n + 1 => g[c] = Value(g, c)
    <2>1. Solved(n + 1)
      <3> HIDE DEF Solved
      <3> QED BY <1>5
    <2> QED BY <2>1
  <1> QED BY <1>3, <1>6

(* What Get answers is what some board holds.                              *)
LEMMA GetAnswers ==
  ASSUME ParentsEnd, NEW b \in Boards, NEW k \in Keys
  PROVE  \E c \in Boards : Get(b, k) = items[c][k]
  <1> DEFINE own == [c \in Boards |-> items[c][k]]
             Answering == {c \in Boards : items[c][k] # NoItem \/ Parent[c] = NoBoard}
             Def(g) == [c \in Boards |->
                           IF items[c][k] # NoItem \/ Parent[c] = NoBoard
                           THEN items[c][k] ELSE g[Parent[c]]]
             G == CHOOSE g : g = Def(g)
  <1>1. \E g : g = Def(g)
    <2>1. Answering \in SUBSET Boards /\ \A c \in Boards : Parent[c] = NoBoard => c \in Answering
      OBVIOUS
    <2> DEFINE V == {items[c][k] : c \in Boards}
    <2>2. PICK g \in [Boards -> V] :
             \A c \in Boards : g[c] = IF c \in Answering THEN own[c] ELSE g[Parent[c]]
      <3>1. own \in [Boards -> V]
        OBVIOUS
      <3> HIDE DEF Answering, own, V
      <3> QED BY <2>1, <3>1, ChainsResolve
    <2>3. \A c \in Boards : g[c] = IF items[c][k] # NoItem \/ Parent[c] = NoBoard
                                   THEN items[c][k] ELSE g[Parent[c]]
      BY <2>2
    <2> HIDE DEF V
    <2>4. g = Def(g)
      BY <2>3
    <2> HIDE DEF Def
    <2> QED BY <2>4
  <1>2. G = Def(G)
    <2> HIDE DEF Def
    <2> QED BY <1>1
  <1>3. Get(b, k) = G[b]
    BY DEF Get
  <1>4. \A c \in Boards : G[c] = IF items[c][k] # NoItem \/ Parent[c] = NoBoard
                                 THEN items[c][k] ELSE G[Parent[c]]
    <2> HIDE DEF G
    <2> QED BY <1>2
  <1> HIDE DEF G, Def
  <1>5. PICK n \in Nat : \E depth \in [Boards -> 0 .. n] :
           \A c \in Boards : Parent[c] # NoBoard => depth[Parent[c]] < depth[c]
    BY DEF ParentsEnd
  <1>6. PICK depth \in [Boards -> 0 .. n] :
           \A c \in Boards : Parent[c] # NoBoard => depth[Parent[c]] < depth[c]
    BY <1>5
  <1> DEFINE Found(c) == \E d \in Boards : G[c] = items[d][k]
             Lost == {depth[c] : c \in {x \in Boards : ~Found(x)}}
  <1>7. Lost = {}
    <2> SUFFICES ASSUME Lost # {} PROVE FALSE
      OBVIOUS
    <2>1. PICK m \in Lost : \A j \in Lost : m <= j
      <3>1. Lost \in SUBSET Nat
        BY <1>6
      <3> HIDE DEF Lost
      <3> QED BY <3>1, LeastOf
    <2>2. PICK c \in Boards : ~Found(c) /\ depth[c] = m
      BY <2>1
    <2>3. ~(items[c][k] # NoItem \/ Parent[c] = NoBoard)
      BY <1>4, <2>2
    <2>4. G[c] = G[Parent[c]] /\ Parent[c] \in Boards /\ depth[Parent[c]] < depth[c]
      BY <1>4, <1>6, <2>3, BlackboardAssumption
    <2>5. ~Found(Parent[c])
      BY <2>2, <2>4
    <2>6. depth[Parent[c]] \in Lost /\ depth[Parent[c]] \in Nat /\ m \in Nat
      BY <1>6, <2>2, <2>4, <2>5
    <2> HIDE DEF Lost
    <2> QED BY <2>1, <2>2, <2>4, <2>6
  <1> QED BY <1>3, <1>7

-----------------------------------------------------------------------------
(* A board holds and answers the last that was set, while it lives: no Set *)
(* that comes during Update or from a callback is lost or applied out of   *)
(* order, for any boards, keys, lifetimes and number of writes             *)
(* (Blackboard.cpp:35-64, 123-213).                                        *)
THEOREM HoldsTheLastSet ==
  ASSUME ParentsEnd
  PROVE  Spec => []BoardOK
  <1>1. BoardInv => BoardOK
    <2> SUFFICES ASSUME BoardInv PROVE BoardOK
      OBVIOUS
    <2>1. BoardShape /\ TimesAddUp /\ LastIsSomewhere
      BY DEF BoardInv
    <2>2. /\ writes \in Nat /\ MaxWrites \in Nat /\ writes <= MaxWrites
          /\ \A b \in Boards, k \in Keys : /\ items[b][k] \in Entries
                                          /\ lastSet[b][k] \in 0 .. writes
      BY <2>1, BlackboardAssumption DEF BoardShape
    <2>3. ASSUME NEW b \in Boards, NEW k \in Keys
          PROVE  LET i == items[b][k] IN
                 /\ i.write \in 0 .. MaxWrites /\ i.lifetime \in Lifetimes \cup {0}
                 /\ i.ttl \in 0 .. i.lifetime
                 /\ i # NoItem => i.lifetime = 0 \/ i.age < i.lifetime
      <3> DEFINE i == items[b][k]
      <3>1. i \in Entries /\ TimeAddsUp(i)
        BY <2>1, <2>2 DEF TimesAddUp, TimeAddsUp
      <3> HIDE DEF i
      <3>2. /\ i.write \in 0 .. writes /\ i.ttl \in Nat /\ i.age \in Nat
            /\ i.lifetime \in Lifetimes \cup {0}
        BY <3>1 DEF Entries
      <3>3. Lifetimes \cup {0} \subseteq Nat
        BY BlackboardAssumption
      <3>4. i.lifetime \in Nat
        BY <3>2, <3>3, Zenon
      <3>5. i.write \in 0 .. MaxWrites
        BY <2>2, <3>2
      <3>6. CASE i = NoItem \/ i.lifetime = 0
        BY <3>1, <3>2, <3>4, <3>5, <3>6, NoItemFacts DEF TimeAddsUp, i
      <3>7. CASE ~(i = NoItem \/ i.lifetime = 0)
        <4>1. i.ttl > 0 /\ i.ttl + i.age = i.lifetime
          BY <3>1, <3>7 DEF TimeAddsUp
        <4>2. i.ttl \in 0 .. i.lifetime /\ i.age < i.lifetime
          BY <3>2, <3>4, <4>1
        <4> QED BY <3>2, <3>5, <4>2 DEF i
      <3> QED BY <3>6, <3>7
    <2>4. BoardTypeOK
      <3>1. notifying \subseteq Subscriptions \X Names \X (1 .. MaxWrites)
        BY <2>1, <2>2 DEF BoardShape
      <3> QED BY <2>1, <2>2, <2>3, <3>1 DEF BoardTypeOK, BoardShape
    <2>5. LastSetWins
      BY <2>1 DEF LastIsSomewhere, LastIsStaged, LastIsTaken, LastIsApplied, LastSetWins
    <2>6. AnswersAreAlive
      <3> SUFFICES ASSUME NEW b \in Boards, NEW k \in Keys
                   PROVE  LET i == Get(b, k) IN i # NoItem => i.lifetime = 0 \/ i.age < i.lifetime
        BY DEF AnswersAreAlive
      <3>1. PICK c \in Boards : Get(b, k) = items[c][k]
        BY GetAnswers
      <3> QED BY <2>3, <3>1
    <2> QED BY <2>4, <2>5, <2>6 DEF BoardOK
  <1> QED BY <1>1, BoardInvariant, PTL

(* What a step may do to an entry and to what a subscriber has heard.      *)
LEMMA BoardStep ==
  ASSUME BoardInv, BoardNext
  PROVE  /\ \A b \in Boards, k \in Keys :
               items[b][k] # NoItem /\ items'[b][k] = NoItem =>
                  items[b][k].lifetime > 0 /\ items[b][k].age + 1 = items[b][k].lifetime
         /\ \A b \in Boards, s \in Subscriptions : heard'[b][s] >= heard[b][s]
  <1>1. BoardShape /\ ToldInOrder
    BY DEF BoardInv
  <1>2. \A b \in Boards, s \in Subscriptions : heard[b][s] \in Nat
    BY <1>1 DEF BoardShape
  <1>3. CASE ApplyNext
    <2> DEFINE w == local[1]
    <2>1. updating \in Boards /\ writes \in Nat /\ w \in Writes
      BY <1>1, <1>3, AppliedQueue
    <2>2. w.key \in Keys /\ w.write \in 1 .. writes
      BY <2>1, WritesFacts
    <2>3. items' = [items EXCEPT ![updating] =
                       [items[updating] EXCEPT ![w.key] = Item(w.write, w.ttl)]]
          /\ heard' = heard
      BY <1>3 DEF ApplyNext, NextOf, Entry
    <2> HIDE DEF w
    <2>4. Item(w.write, w.ttl) # NoItem
      BY <2>2, NoItemFacts DEF Item
    <2>5. items \in [Boards -> [Keys -> Entries]]
      BY <1>1 DEF BoardShape
    <2>6. \A b \in Boards, k \in Keys :
             items'[b][k] = items[b][k] \/ items'[b][k] = Item(w.write, w.ttl)
      BY <2>1, <2>2, <2>3, <2>5
    <2> QED BY <1>2, <2>3, <2>4, <2>6
  <1>4. CASE Decay
    <2>1. /\ \A k \in Keys : items'[updating][k] = Decayed(items[updating][k])
          /\ \A c \in Boards \ {updating} : items'[c] = items[c]
          /\ \A c \in Boards, k \in Keys : items[c][k] \in Entries /\ TimeAddsUp(items[c][k])
          /\ writes \in Nat
      BY <1>4, DecayItems
    <2>2. heard' = heard
      BY <1>4 DEF Decay
    <2> QED BY <1>2, <2>1, <2>2, DecayedFacts, BlackboardAssumption
  <1>5. ASSUME NEW n \in notifying, Hear(n)
        PROVE  items' = items /\ \A b \in Boards, s \in Subscriptions : heard'[b][s] >= heard[b][s]
    <2>1. heard' = [heard EXCEPT ![updating] = [heard[updating] EXCEPT ![n[1]] = n[3]]]
          /\ items' = items
      BY <1>5 DEF Hear
    <2>2. /\ updating \in Boards /\ n[3] \in Nat
          /\ heard \in [Boards -> [Subscriptions -> 0 .. writes]]
      BY <1>1 DEF BoardShape
    <2>3. \A s \in Subscriptions : heard[updating][s] <= n[3]
      BY <1>1 DEF ToldInOrder
    <2> SUFFICES ASSUME NEW b \in Boards, NEW s \in Subscriptions
                 PROVE  heard'[b][s] >= heard[b][s]
      BY <2>1
    <2>4. CASE <<b, s>> = <<updating, n[1]>>
      BY <1>2, <2>1, <2>2, <2>3, <2>4
    <2>5. CASE <<b, s>> # <<updating, n[1]>>
      BY <1>2, <2>1, <2>2, <2>5
    <2> QED BY <2>4, <2>5
  <1>6. CASE \/ \E n \in notifying : CallBack(n)
             \/ \E n \in notifying, name \in Names :
                   \/ CallBackSubscribes(n, name)
                   \/ \E s \in Subscriptions : CallBackUnsubscribes(n, s, name)
    <2>1. \E n \in notifying : Hear(n)
      BY <1>6 DEF CallBack, CallBackUnsubscribes, CallBackSubscribes
    <2> QED BY <1>5, <2>1
  <1>7. CASE \/ \E b \in Boards : TakeStaged(b)
             \/ \E b \in Boards, k \in Keys, ttl \in Lifetimes : Set(b, k, ttl)
             \/ \E b \in Boards, name \in Names :
                   Subscribe(b, name) \/ \E s \in Subscriptions : Unsubscribe(b, s, name)
    <2>1. items' = items /\ heard' = heard
      BY <1>7 DEF TakeStaged, Set, Subscribe, Unsubscribe
    <2> QED BY <1>2, <2>1
  <1> QED BY <1>3, <1>4, <1>6, <1>7 DEF BoardNext

(* A board drops nothing before its time and calls no subscription late or *)
(* twice for a write, whatever callbacks subscribe and unsubscribe and     *)
(* other threads set meanwhile (Blackboard.cpp:35-64, 179-200, 215-262).   *)
THEOREM KeepsAndTells == Spec => BoardKeepsAndTells
  <1> DEFINE Lives == \A b \in Boards, k \in Keys :
                         items[b][k] # NoItem /\ items'[b][k] = NoItem =>
                            items[b][k].lifetime > 0 /\ items[b][k].age + 1 = items[b][k].lifetime
             Told == \A b \in Boards, s \in Subscriptions : heard'[b][s] >= heard[b][s]
             NotTold == \A n \in notifying : heard[updating][n[1]] < n[3]
  <1>1. BoardInv /\ [Next]_vars => [Lives]_boardVars /\ [Told]_boardVars
    <2> SUFFICES ASSUME BoardInv, [Next]_vars PROVE [Lives]_boardVars /\ [Told]_boardVars
      OBVIOUS
    <2>1. BoardNext \/ UNCHANGED boardVars
      BY DEF Next, vars
    <2>2. BoardNext => Lives /\ Told
      BY BoardStep
    <2> HIDE DEF Lives, Told
    <2> QED BY <2>1, <2>2
  <1>2. LivesItsTime <=> [][Lives]_boardVars
    BY DEF LivesItsTime
  <1>3. HeardOnce <=> []NotTold /\ [][Told]_boardVars
    BY DEF HeardOnce
  <1>4. BoardInv => NotTold
    BY DEF BoardInv, IdsAreFresh
  <1> HIDE DEF Lives, Told, NotTold
  <1> QED BY <1>1, <1>2, <1>3, <1>4, BoardInvariant, PTL DEF Spec, BoardKeepsAndTells

-----------------------------------------------------------------------------
(* The behaviour tree.                                                     *)

LEMMA NodeFacts ==
  ASSUME TreeShape
  PROVE  /\ Len(kind) \in Nat /\ Nodes = 1 .. Len(kind) /\ Nodes \subseteq Nat
         /\ DOMAIN children = Nodes
         /\ \A n \in Nodes :
              /\ kind[n] \in AllComposites \cup AllLeaves
              /\ children[n] \in Seq(Nodes) /\ Len(children[n]) \in Nat
              /\ DOMAIN children[n] = 1 .. Len(children[n])
              /\ \A i \in DOMAIN children[n] :
                    children[n][i] \in Nodes /\ children[n][i] > n
  <1>1. Len(kind) \in Nat /\ Nodes = 1 .. Len(kind)
    BY DEF TreeShape, Nodes
  <1>2. \A n \in Nodes : children[n] \in Seq(Nodes) /\ Len(children[n]) \in Nat
                         /\ DOMAIN children[n] = 1 .. Len(children[n])
    BY DEF TreeShape
  <1>3. \A n \in Nodes : \A i \in DOMAIN children[n] : children[n][i] \in Nodes /\ children[n][i] > n
    BY <1>2 DEF TreeShape
  <1>4. \A n \in Nodes : kind[n] \in AllComposites \cup AllLeaves
    BY DEF TreeShape, Nodes
  <1> QED BY <1>1, <1>2, <1>3, <1>4 DEF TreeShape

(* A child has one parent, and the root none.                              *)
LEMMA ParentFacts ==
  ASSUME TreeShape, NEW n \in Nodes, NEW i \in DOMAIN children[n]
  PROVE  /\ children[n][i] # 1
         /\ \A m \in Nodes : \A j \in DOMAIN children[m] :
              children[m][j] = children[n][i] => m = n /\ j = i
  <1>1. children[n][i] > n /\ n \in Nat /\ n >= 1
    BY NodeFacts
  <1>2. children[n][i] # 1
    BY <1>1, NodeFacts
  <1>3. \A m \in Nodes : \A j \in DOMAIN children[m] :
              children[m][j] = children[n][i] => m = n /\ j = i
    BY DEF TreeShape
  <1> QED BY <1>2, <1>3

LEMMA KindFacts ==
  /\ AllComposites = Lists \cup {"Parallel all", "Parallel one", "Parallel both", "Monitor"}
  /\ \A n : IsParallel(n) => kind[n] \in AllComposites \ Lists
  /\ \A n : kind[n] \in AllComposites => kind[n] \in Lists \/ IsParallel(n)
  BY DEF AllComposites, Lists, IsParallel

(* What aborting a node reaches: itself and what runs below it.            *)
LEMMA AbortFacts ==
  ASSUME TreeShape, NEW n \in Nodes
  PROVE  /\ n \in AbortedWith(n) /\ AbortedWith(n) \subseteq Nodes
         /\ \A x \in AbortedWith(n) : AbortedBy(x) \subseteq AbortedWith(n)
         /\ \A x \in AbortedWith(n) : x = n \/ status[x] = "Running"
         /\ \A x \in AbortedWith(n) : x >= n
  <1>1. \A x \in Nodes : AbortedBy(x) \subseteq Nodes
    BY NodeFacts DEF AbortedBy, ToSet
  <1>2. n \in AbortedWith(n) /\ AbortedWith(n) \subseteq Nodes
    BY DEF AbortedWith
  <1>3. ASSUME NEW x \in AbortedWith(n), NEW y \in AbortedBy(x)
        PROVE  y \in AbortedWith(n)
    <2>1. y \in Nodes
      BY <1>1, <1>2, <1>3
    <2>2. ASSUME NEW S \in SUBSET Nodes, n \in S, \A z \in S : AbortedBy(z) \subseteq S
          PROVE  y \in S
      <3>1. x \in S
        BY <2>2, <1>3 DEF AbortedWith
      <3> QED BY <1>3, <2>2, <3>1
    <2> QED BY <2>1, <2>2 DEF AbortedWith
  <1>4. ASSUME NEW x \in AbortedWith(n)
        PROVE  x = n \/ status[x] = "Running"
    <2> DEFINE S == {z \in Nodes : z = n \/ status[z] = "Running"}
    <2>1. S \in SUBSET Nodes /\ n \in S
      OBVIOUS
    <2>2. \A z \in S : AbortedBy(z) \subseteq S
      BY <1>1 DEF AbortedBy
    <2>3. x \in S
      <3> HIDE DEF S
      <3> QED BY <2>1, <2>2 DEF AbortedWith
    <2> QED BY <2>3
  <1>5. ASSUME NEW x \in AbortedWith(n)
        PROVE  x >= n
    <2> DEFINE S == {z \in Nodes : z >= n}
    <2>1. S \in SUBSET Nodes /\ n \in S
      BY NodeFacts
    <2>2. ASSUME NEW z \in S, NEW y \in AbortedBy(z) PROVE y \in S
      <3>1. y \in Nodes /\ y > z /\ z \in Nat /\ y \in Nat /\ n \in Nat /\ z >= n
        BY NodeFacts, <1>1 DEF AbortedBy, ToSet
      <3> QED BY <3>1
    <2>3. x \in S
      <3> HIDE DEF S
      <3> QED BY <2>1, <2>2 DEF AbortedWith
    <2> QED BY <2>3
  <1> QED BY <1>2, <1>3, <1>4, <1>5

LEMMA TreeInitially == TreeInit => TreeInv
  <1> SUFFICES ASSUME TreeInit PROVE TreeInv
    OBVIOUS
  <1>1. /\ kind = <<>> /\ children = <<>> /\ open = <<>> /\ status = <<>> /\ current = <<>>
        /\ count = <<>> /\ stack = <<>> /\ result = NoResult /\ setup \in Setups
        /\ begun = {} /\ twice = {} /\ updated = {} /\ again = {}
    BY DEF TreeInit
  <1>2. /\ \A T : <<>> \in Seq(T)
        /\ DOMAIN <<>> = {} /\ Len(<<>>) = 0 /\ <<>> \in [{} -> Nat] /\ <<>> \in [{} -> Statuses]
    <2>1. <<>> \in Seq(Nat) /\ Len(<<>>) = 0 /\ \A T : <<>> \in Seq(T)
      BY EmptySeq
    <2>2. DOMAIN <<>> = {}
      BY <2>1
    <2>3. <<>> = [x \in {} |-> 0]
      BY <2>2
    <2> QED BY <2>1, <2>2, <2>3
  <1>3. Nodes = {}
    BY <1>1, <1>2 DEF Nodes
  <1>4. Building
    BY <1>1, <1>2 DEF Building, NoBuilder
  <1>5. TreeShape
    BY <1>1, <1>2, <1>3, <1>4 DEF TreeShape
  <1>6. NodesKept
    BY <1>1, <1>2, <1>3, <1>4 DEF NodesKept
  <1>7. StackIsPath
    BY <1>1, <1>2, <1>3 DEF StackIsPath
  <1>8. NotUpdatedYet
    BY <1>1, <1>2, <1>3 DEF NotUpdatedYet
  <1>9. SequencesGoOn /\ ParallelsEnd /\ ScriptsStay /\ RootRunsOne
    BY <1>1, <1>2, <1>3, <1>4 DEF SequencesGoOn, ParallelsEnd, ScriptsStay, RootRunsOne, ScriptsCloseOnce
  <1> QED BY <1>5, <1>6, <1>7, <1>8, <1>9 DEF TreeInv
(* The stack, and the node whose turn it is.                               *)
LEMMA StackFacts ==
  ASSUME TreeShape, StackIsPath
  PROVE  /\ stack \in Seq(Frames) /\ Len(stack) \in Nat /\ DOMAIN stack = 1 .. Len(stack)
         /\ \A i \in DOMAIN stack :
              /\ stack[i] \in Frames /\ stack[i].node \in Nodes /\ stack[i].node \in Nat
              /\ stack[i].at \in Nat
         /\ stack = <<>> => Len(stack) = 0
         /\ stack # <<>> => /\ Len(stack) \in DOMAIN stack /\ Top = stack[Len(stack)]
                            /\ 1 \in DOMAIN stack
  <1>1. stack \in Seq(Frames) /\ Len(stack) \in Nat /\ DOMAIN stack = 1 .. Len(stack)
    BY DEF StackIsPath
  <1>2. \A i \in DOMAIN stack : stack[i] \in Frames
    BY <1>1
  <1>3. \A i \in DOMAIN stack : /\ stack[i].node \in Nodes /\ stack[i].node \in Nat
                                /\ stack[i].at \in Nat
    BY <1>2, NodeFacts DEF Frames
  <1>4. stack # <<>> => Len(stack) # 0
    BY <1>1, EmptySeq
  <1>5. stack = <<>> => Len(stack) = 0
    OBVIOUS
  <1> QED BY <1>1, <1>2, <1>3, <1>4, <1>5 DEF Top, Last

(* A called node is a child of the one on top, or the root.                *)
IsCalled(n) ==
  \/ stack = <<>> /\ n = 1
  \/ stack # <<>> /\ Calls(Top) /\ result = NoResult /\ n = ChildOf(Top.node, Slot(Top))

LEMMA CalledFacts ==
  ASSUME TreeShape, StackIsPath, ~Building, NEW n, IsCalled(n)
  PROVE  /\ n \in Nodes
         /\ \A i \in DOMAIN stack : stack[i].node < n
         /\ \A m \in Nodes : \A j \in DOMAIN children[m] :
              children[m][j] = n => stack # <<>> /\ m = Top.node /\ j = Slot(Top)
  <1>1. CASE stack = <<>> /\ n = 1
    <2>1. 1 \in Nodes
      <3>1. Len(kind) # 0
        BY NodeFacts, EmptySeq DEF TreeShape
      <3> QED BY <3>1, NodeFacts
    <2>2. DOMAIN stack = {}
      BY <1>1, StackFacts
    <2> QED BY <1>1, <2>1, <2>2, ParentFacts
  <1>2. CASE /\ stack # <<>> /\ Calls(Top) /\ result = NoResult
             /\ n = ChildOf(Top.node, Slot(Top))
    <2>1. /\ Top = stack[Len(stack)] /\ Len(stack) \in DOMAIN stack /\ Top.node \in Nodes
          /\ Slot(Top) \in DOMAIN children[Top.node]
          /\ n = children[Top.node][Slot(Top)]
      BY <1>2, StackFacts DEF Calls, ChildOf
    <2>2. n \in Nodes /\ n > Top.node /\ n \in Nat /\ Top.node \in Nat
      BY <2>1, NodeFacts
    <2>3. ASSUME NEW i \in DOMAIN stack PROVE stack[i].node < n
      <3>1. stack[i].node \in Nat /\ (i = Len(stack) \/ i < Len(stack))
        BY StackFacts
      <3>2. CASE i = Len(stack)
        BY <2>1, <2>2, <3>2
      <3>3. CASE i < Len(stack)
        <4>1. stack[i].node < Top.node
          BY <2>1, <3>3 DEF StackIsPath
        <4> QED BY <2>2, <3>1, <4>1
      <3> QED BY <3>1, <3>2, <3>3
    <2>4. ASSUME NEW m \in Nodes, NEW j \in DOMAIN children[m], children[m][j] = n
          PROVE  m = Top.node /\ j = Slot(Top)
      BY <2>1, <2>4, ParentFacts
    <2> QED BY <1>2, <2>2, <2>3, <2>4
  <1> QED BY <1>1, <1>2 DEF IsCalled

(* What a call changes.                                                    *)
LEMMA CallFacts ==
  ASSUME TreeInv, NEW n \in Nodes, Call(n, stack)
  PROVE  /\ setup' = setup /\ kind' = kind /\ open' = open /\ status' = status /\ twice' = twice
         /\ Nodes' = Nodes /\ Building' = Building
         /\ stack' = Append(stack, [node |-> n, prev |-> StartOf(n), at |-> 1,
                                    successes |-> 0, failures |-> 0])
         /\ result' = NoResult /\ begun' = begun \cup {n} /\ updated' = updated \cup {n}
         /\ again' = IF n \in updated /\ ~UnderRepeat THEN {n} ELSE {}
  <1>1. /\ setup' = setup /\ kind' = kind /\ open' = open /\ status' = status /\ twice' = twice
        /\ Nodes' = Nodes /\ Building' = Building /\ result' = NoResult
        /\ stack' = Append(stack, [node |-> n, prev |-> StartOf(n), at |-> 1,
                                    successes |-> 0, failures |-> 0])
        /\ updated' = updated \cup {n}
        /\ again' = IF n \in updated /\ ~UnderRepeat THEN {n} ELSE {}
    BY DEF Call, Nodes, Building
  <1>2. begun' = begun \cup {n}
    <2>1. begun' = IF status[n] # "Running" THEN begun \cup {n} ELSE begun
      BY DEF Call
    <2>2. status[n] = "Running" => n \in begun
      BY DEF TreeInv, NodesKept
    <2> QED BY <2>1, <2>2
  <1> QED BY <1>1, <1>2

LEMMA CallCurrent ==
  ASSUME TreeInv, NEW n \in Nodes, Call(n, stack)
  PROVE  /\ current' \in [Nodes -> Nat] /\ count' \in [Nodes -> Nat]
         /\ \A m \in Nodes \ {n} : current'[m] = current[m]
         /\ \A m \in Nodes \ {n} : count'[m] = count[m]
         /\ current'[n] = IF kind[n] = "ActiveSelector" THEN 1 ELSE StartOf(n)
         /\ count'[n] \in {0, count[n]}
         /\ StartOf(n) \in 1 .. Len(children[n]) + 1 /\ StartOf(n) \in Nat
         /\ StartOf(n) = IF status[n] = "Running" THEN current[n] ELSE 1
  <1>1. Len(children[n]) \in Nat
    BY NodeFacts DEF TreeInv
  <1>2. /\ current \in [Nodes -> Nat] /\ count \in [Nodes -> Nat]
        /\ current[n] \in 1 .. Len(children[n]) + 1
    BY DEF TreeInv, NodesKept
  <1>3. /\ StartOf(n) = IF status[n] = "Running" THEN current[n] ELSE 1
        /\ StartOf(n) \in 1 .. Len(children[n]) + 1 /\ StartOf(n) \in Nat
    BY <1>1, <1>2 DEF StartOf
  <1>4. /\ current' \in [Nodes -> Nat]
        /\ \A m \in Nodes \ {n} : current'[m] = current[m]
        /\ current'[n] = IF kind[n] = "ActiveSelector" THEN 1 ELSE StartOf(n)
    <2>1. current' = [current EXCEPT ![n] = IF kind[n] = "ActiveSelector" THEN 1 ELSE StartOf(n)]
      BY DEF Call
    <2> QED BY <1>2, <1>3, <2>1
  <1>5. /\ count' \in [Nodes -> Nat] /\ \A m \in Nodes \ {n} : count'[m] = count[m]
        /\ count'[n] \in {0, count[n]}
    <2>1. count' = [count EXCEPT ![n] = IF status[n] # "Running" THEN 0 ELSE count[n]]
      BY DEF Call
    <2> QED BY <1>2, <2>1
  <1> QED BY <1>3, <1>4, <1>5

LEMMA CallChildren ==
  ASSUME TreeInv, NEW n \in Nodes, Call(n, stack)
  PROVE  /\ children' \in [Nodes -> Seq(Nodes)]
         /\ \A m \in Nodes \ {n} : children'[m] = children[m]
         /\ children'[n] \in Seq(Nodes) /\ Len(children'[n]) = Len(children[n])
         /\ DOMAIN children'[n] = DOMAIN children[n]
         /\ \A i \in DOMAIN children[n] :
              \E j \in DOMAIN children[n] : children'[n][i] = children[n][j]
         /\ \A i, j \in DOMAIN children[n] : children'[n][i] = children'[n][j] => i = j
         /\ kind[n] # "UtilitySelector" => children'[n] = children[n]
  <1>1. TreeShape
    BY DEF TreeInv
  <1>2. /\ children \in [Nodes -> Seq(Nodes)]
        /\ Len(children[n]) \in Nat /\ DOMAIN children[n] = 1 .. Len(children[n])
        /\ \A i \in DOMAIN children[n] : children[n][i] \in Nodes
        /\ children[n] \in Seq(Nodes)
    BY <1>1, NodeFacts DEF TreeShape
  <1>9. PICK p \in Orders(n) : children' = [children EXCEPT ![n] = p]
    BY DEF Call
  <1>10. /\ p \in Seq(Nodes) /\ Len(p) = Len(children[n])
         /\ \A i \in DOMAIN children[n] : \E j \in DOMAIN children[n] : p[i] = children[n][j]
         /\ \A i, j \in DOMAIN children[n] : p[i] = p[j] => i = j
         /\ kind[n] # "UtilitySelector" => p = children[n]
    <2>1. \A i, j \in DOMAIN children[n] : children[n][i] = children[n][j] => i = j
      BY <1>1, <1>2, ParentFacts
    <2>2. CASE kind[n] # "UtilitySelector"
      <3>1. p = children[n]
        BY <2>2 DEF Orders
      <3> QED BY <1>2, <2>1, <3>1
    <2>3. CASE kind[n] = "UtilitySelector"
      <3> DEFINE D == DOMAIN children[n]
      <3>1. PICK q \in Bijection(D, D) : p = [i \in D |-> ChildOf(n, q[i])]
        BY <2>3 DEF Orders
      <3>2. q \in [D -> D] /\ \A i, j \in D : q[i] = q[j] => i = j
        BY DEF Bijection, Injection, IsInjective
      <3>3. /\ \A i \in D : q[i] \in D /\ p[i] = children[n][q[i]] /\ p[i] \in Nodes
            /\ p = [i \in D |-> p[i]]
        BY <1>2, <3>1, <3>2 DEF ChildOf
      <3>4. p \in Seq(Nodes) /\ Len(p) = Len(children[n])
        BY <1>2, <3>3
      <3>5. ASSUME NEW i \in D, NEW j \in D, p[i] = p[j] PROVE i = j
        <4>1. q[i] \in D /\ q[j] \in D /\ children[n][q[i]] = children[n][q[j]]
          BY <3>3, <3>5
        <4>2. q[i] = q[j]
          BY <2>1, <4>1
        <4> QED BY <3>2, <4>2
      <3> QED BY <2>3, <3>3, <3>4, <3>5
    <2> QED BY <2>2, <2>3
  <1>11. /\ children' \in [Nodes -> Seq(Nodes)] /\ children'[n] = p
         /\ \A m \in Nodes \ {n} : children'[m] = children[m]
    BY <1>2, <1>9, <1>10
  <1>12. DOMAIN p = DOMAIN children[n]
    BY <1>2, <1>10
  <1> QED BY <1>10, <1>11, <1>12

LEMMA CallShape ==
  ASSUME TreeInv, ~Building, NEW n, IsCalled(n), Call(n, stack)
  PROVE  TreeShape'
  <1>1. TreeShape /\ StackIsPath /\ n \in Nodes
    BY CalledFacts DEF TreeInv
  <1>2. /\ setup' = setup /\ kind' = kind /\ Nodes' = Nodes /\ Building' = Building
        /\ children' \in [Nodes -> Seq(Nodes)]
    BY <1>1, CallFacts, CallChildren
  <1>3. ASSUME NEW m \in Nodes
        PROVE  /\ DOMAIN children'[m] = DOMAIN children[m] /\ children'[m] \in Seq(Nodes)
               /\ Len(children'[m]) = Len(children[m])
    <2>1. CASE m = n
      BY <1>1, <2>1, CallChildren
    <2>2. CASE m # n
      <3>1. children'[m] = children[m]
        BY <1>1, <2>2, CallChildren
      <3> QED BY <1>1, <3>1, NodeFacts
    <2> QED BY <2>1, <2>2
  <1>4. ASSUME NEW m \in Nodes, NEW i \in DOMAIN children'[m]
        PROVE  \E j \in DOMAIN children[m] : children'[m][i] = children[m][j]
    <2>1. CASE m = n
      BY <1>1, <2>1, CallChildren
    <2>2. CASE m # n
      BY <1>1, <1>3, <2>2, CallChildren
    <2> QED BY <2>1, <2>2
  <1>5. ASSUME NEW m \in Nodes, NEW i \in DOMAIN children'[m]
        PROVE  children'[m][i] > m
    BY <1>1, <1>4, NodeFacts
  <1>6. ASSUME NEW m \in Nodes, NEW k \in Nodes, NEW i \in DOMAIN children'[m],
               NEW j \in DOMAIN children'[k], children'[m][i] = children'[k][j]
        PROVE  m = k /\ i = j
    <2>1. PICK a \in DOMAIN children[m] : children'[m][i] = children[m][a]
      BY <1>4
    <2>2. PICK b \in DOMAIN children[k] : children'[k][j] = children[k][b]
      BY <1>4
    <2>3. m = k
      <3>1. children[m][a] = children[k][b]
        BY <1>6, <2>1, <2>2
      <3> QED BY <1>1, <3>1, ParentFacts
    <2>4. CASE m = n
      <3>1. i \in DOMAIN children[n] /\ j \in DOMAIN children[n] /\ children'[n][i] = children'[n][j]
        BY <1>3, <1>6, <2>3, <2>4
      <3> QED BY <1>1, <2>3, <3>1, CallChildren
    <2>5. CASE m # n
      <3>1. children'[m] = children[m] /\ i \in DOMAIN children[m] /\ j \in DOMAIN children[m]
        BY <1>1, <1>3, <2>3, <2>5, CallChildren
      <3>2. children[m][i] = children[m][j]
        BY <1>6, <2>3, <3>1
      <3> QED BY <1>1, <2>3, <3>1, <3>2, ParentFacts
    <2> QED BY <2>3, <2>4, <2>5
  <1>7. \A m \in Nodes : kind'[m] = "Repeat" => Len(children'[m]) = 1
    BY <1>1, <1>2, <1>3 DEF TreeShape
  <1>8. setup \in Setups /\ kind \in Seq(AllComposites \cup AllLeaves) /\ kind # <<>>
    BY <1>1 DEF TreeShape
  <1> QED BY <1>2, <1>3, <1>5, <1>6, <1>7, <1>8 DEF TreeShape

LEMMA CallKept ==
  ASSUME TreeInv, ~Building, NEW n, IsCalled(n), Call(n, stack)
  PROVE  NodesKept'
  <1>1. TreeShape /\ StackIsPath /\ n \in Nodes /\ NodesKept
    BY CalledFacts DEF TreeInv
  <1>2. /\ Building' = Building /\ Nodes' = Nodes /\ kind' = kind /\ status' = status
        /\ twice' = twice /\ begun' = begun \cup {n} /\ updated' = updated \cup {n}
        /\ current' \in [Nodes -> Nat] /\ count' \in [Nodes -> Nat]
    BY <1>1, CallFacts, CallCurrent
  <1>3. \A m \in Nodes : current'[m] \in 1 .. Len(children'[m]) + 1
    <2>1. current'[n] \in 1 .. Len(children'[n]) + 1
      <3>1. current'[n] = 1 \/ current'[n] = StartOf(n)
        BY <1>1, CallCurrent
      <3>2. StartOf(n) \in 1 .. Len(children[n]) + 1 /\ Len(children'[n]) = Len(children[n])
        BY <1>1, CallCurrent, CallChildren
      <3> QED BY <1>1, <3>1, <3>2, NodeFacts
    <2>2. ASSUME NEW m \in Nodes \ {n} PROVE current'[m] \in 1 .. Len(children'[m]) + 1
      <3>1. current'[m] = current[m] /\ children'[m] = children[m]
        BY <1>1, CallCurrent, CallChildren
      <3> QED BY <1>1, <3>1 DEF NodesKept
    <2> QED BY <2>1, <2>2
  <1>4. ASSUME NEW m \in Nodes, RepeatCount # 0 PROVE count'[m] < RepeatCount
    <2>1. count'[m] \in {0, count[m]}
      BY <1>1, CallCurrent
    <2>2. RepeatCount \in Nat /\ count[m] < RepeatCount
      BY <1>1, <1>4, BehaviorTreeAssumption DEF NodesKept
    <2> QED BY <1>4, <2>1, <2>2
  <1> QED BY <1>1, <1>2, <1>3, <1>4 DEF NodesKept, Statuses, Results

(* What stays of the stack under the new call.                             *)
LEMMA CallStack ==
  ASSUME TreeInv, ~Building, NEW n, IsCalled(n), Call(n, stack)
  PROVE  /\ stack' \in Seq(Frames) /\ Len(stack') = Len(stack) + 1 /\ stack' # <<>>
         /\ DOMAIN stack' = 1 .. Len(stack) + 1
         /\ \A i \in 1 .. Len(stack) : stack'[i] = stack[i]
         /\ stack'[Len(stack) + 1].node = n /\ stack'[Len(stack) + 1].prev = StartOf(n)
         /\ stack'[Len(stack) + 1].at = 1
         /\ \A i \in 1 .. Len(stack) : Slot(stack[i])' = Slot(stack[i])
         /\ \A i \in 1 .. Len(stack) : children'[stack[i].node] = children[stack[i].node]
  <1>1. TreeShape /\ StackIsPath /\ n \in Nodes
    BY CalledFacts DEF TreeInv
  <1>2. StartOf(n) \in Nat \ {0}
    BY <1>1, CallCurrent
  <1> DEFINE f == [node |-> n, prev |-> StartOf(n), at |-> 1, successes |-> 0, failures |-> 0]
  <1>3. f \in Frames /\ f.node = n /\ f.prev = StartOf(n) /\ f.at = 1
    BY <1>1, <1>2 DEF Frames
  <1>4. stack' = Append(stack, f)
    BY <1>1, CallFacts
  <1> HIDE DEF f
  <1>5. /\ stack' \in Seq(Frames) /\ Len(stack') = Len(stack) + 1 /\ stack' # <<>>
        /\ \A i \in 1 .. Len(stack) : stack'[i] = stack[i]
        /\ stack'[Len(stack) + 1] = f
    BY <1>1, <1>3, <1>4, StackFacts, AppendProperties
  <1>6. DOMAIN stack' = 1 .. Len(stack) + 1
    BY <1>5
  <1>7. ASSUME NEW i \in 1 .. Len(stack)
        PROVE  Slot(stack[i])' = Slot(stack[i]) /\ children'[stack[i].node] = children[stack[i].node]
    <2>1. stack[i].node \in Nodes /\ stack[i].node # n
      BY <1>1, CalledFacts, StackFacts
    <2>2. kind' = kind /\ current'[stack[i].node] = current[stack[i].node]
          /\ children'[stack[i].node] = children[stack[i].node]
      <3>1. kind' = kind
        BY <1>1, CallFacts
      <3>2. \A m \in Nodes \ {n} : current'[m] = current[m]
        BY <1>1, CallCurrent
      <3>3. \A m \in Nodes \ {n} : children'[m] = children[m]
        BY <1>1, CallChildren
      <3> QED BY ONLY <2>1, <3>1, <3>2, <3>3
    <2>3. stack'[i] = stack[i]
      BY <1>5
    <2>4. Slot(stack[i])' = Slot(stack[i])
      <3> DEFINE m == stack[i].node
      <3>1. stack'[i].node = m /\ stack'[i].at = stack[i].at /\ kind' = kind /\ current'[m] = current[m]
        BY <2>2, <2>3
      <3>2. Slot(stack[i])' = IF kind[m] \in Lists THEN current[m]
                              ELSE IF IsParallel(m) THEN stack[i].at ELSE 1
        BY <3>1 DEF Slot, IsParallel
      <3> QED BY <3>2 DEF Slot
    <2> QED BY <2>2, <2>4
  <1> QED BY <1>3, <1>5, <1>6, <1>7

LEMMA CallPath ==
  ASSUME TreeInv, ~Building, NEW n, IsCalled(n), Call(n, stack)
  PROVE  StackIsPath'
  <1> DEFINE L == Len(stack)
  <1>1. TreeShape /\ StackIsPath /\ n \in Nodes /\ L \in Nat /\ DOMAIN stack = 1 .. L
    BY CalledFacts, StackFacts DEF TreeInv
  <1>2. /\ stack' \in Seq(Frames) /\ Len(stack') = L + 1 /\ stack' # <<>>
        /\ DOMAIN stack' = 1 .. L + 1
        /\ \A i \in 1 .. L : stack'[i] = stack[i]
        /\ stack'[L + 1].node = n /\ stack'[L + 1].at = 1
        /\ \A i \in 1 .. L : Slot(stack[i])' = Slot(stack[i])
        /\ \A i \in 1 .. L : children'[stack[i].node] = children[stack[i].node]
    BY CallStack
  <1>3. /\ kind' = kind /\ Nodes' = Nodes /\ status' = status /\ result' = NoResult
        /\ begun' = begun \cup {n} /\ updated' = updated \cup {n}
        /\ Len(children'[n]) = Len(children[n])
    BY <1>1, CallFacts, CallChildren
  <1>4. stack'[1].node = 1
    <2>1. CASE L = 0
      <3>1. stack = <<>>
        BY <1>1, <2>1, EmptySeq DEF StackIsPath
      <3>2. n = 1
        BY <3>1 DEF IsCalled
      <3> QED BY <1>2, <2>1, <3>2
    <2>2. CASE L # 0
      <3>1. stack # <<>> /\ 1 \in 1 .. L
        BY <1>1, <2>2, StackFacts
      <3> QED BY <1>1, <1>2, <3>1 DEF StackIsPath
    <2> QED BY <2>1, <2>2
  <1>5. ASSUME NEW i \in 1 .. L + 1
        PROVE  /\ stack'[i].node \in begun' \cap updated'
               /\ stack'[i].at \in 1 .. Len(children'[stack'[i].node]) + 1
    <2>1. CASE i = L + 1
      <3>1. Len(children'[n]) \in Nat
        BY <1>1, <1>3, NodeFacts
      <3> QED BY <1>2, <1>3, <2>1, <3>1
    <2>2. CASE i # L + 1
      <3>1. i \in 1 .. L
        BY <1>1, <2>2
      <3> QED BY <1>1, <1>2, <1>3, <3>1 DEF StackIsPath
    <2> QED BY <2>1, <2>2
  <1>6. ASSUME NEW i \in 1 .. L + 1, NEW j \in 1 .. L + 1, i < j
        PROVE  stack'[i].node < stack'[j].node
    <2>1. i \in 1 .. L
      BY <1>1, <1>6
    <2>2. CASE j = L + 1
      BY <1>1, <1>2, <2>1, <2>2, CalledFacts
    <2>3. CASE j # L + 1
      <3>1. j \in 1 .. L
        BY <1>1, <2>3
      <3> QED BY <1>1, <1>2, <1>6, <2>1, <3>1 DEF StackIsPath
    <2> QED BY <2>2, <2>3
  <1>7. ASSUME NEW i \in 1 .. L + 1, i < L + 1
        PROVE  /\ Calls(stack[i])'
               /\ stack'[i + 1].node = children'[stack'[i].node][Slot(stack[i])']
    <2>1. i \in 1 .. L
      BY <1>1, <1>7
    <2>2. Calls(stack[i]) /\ stack'[i + 1].node = children[stack[i].node][Slot(stack[i])]
      <3>1. CASE i = L
        <4>1. stack # <<>> /\ Top = stack[L]
          BY <1>1, <2>1, <3>1, StackFacts
        <4>2. Calls(Top) /\ n = ChildOf(Top.node, Slot(Top))
          BY <4>1 DEF IsCalled
        <4> QED BY <1>2, <3>1, <4>1, <4>2 DEF ChildOf
      <3>2. CASE i # L
        <4>1. \A x \in Nat : \A y \in 1 .. x : y # x => y + 1 \in 1 .. x /\ y < x
          BY ONLY TRUE
        <4>2. L \in Nat
          BY <1>1
        <4>3. i + 1 \in 1 .. L /\ i < L
          BY ONLY <2>1, <3>2, <4>1, <4>2, Zenon
        <4> QED BY <1>1, <1>2, <2>1, <4>3 DEF StackIsPath, ChildOf
      <3> QED BY ONLY <3>1, <3>2
    <2>3. /\ stack'[i] = stack[i] /\ Slot(stack[i])' = Slot(stack[i])
          /\ children'[stack[i].node] = children[stack[i].node]
      BY <1>2, <2>1
    <2>4. Calls(stack[i])'
      <3>1. stack'[i].node = stack[i].node /\ kind' = kind
        BY <1>3, <2>3
      <3> QED BY <2>2, <2>3, <3>1 DEF Calls
    <2> QED BY <2>2, <2>3, <2>4
  <1> HIDE DEF L
  <1>8. result' \in (Statuses \ {"Aborted"}) \cup {NoResult}
    BY <1>3
  <1>9. \A i \in DOMAIN stack' : i < Len(stack') =>
          /\ Calls(stack[i])'
          /\ stack'[i + 1].node = ChildOf(stack[i].node, Slot(stack[i]))'
    BY <1>2, <1>7 DEF ChildOf
  <1>10. /\ \A i \in DOMAIN stack' : /\ stack'[i].node \in begun' \cap updated'
                                     /\ stack'[i].at \in 1 .. Len(children'[stack'[i].node]) + 1
         /\ \A i, j \in DOMAIN stack' : i < j => stack'[i].node < stack'[j].node
    BY <1>2, <1>5, <1>6
  <1>11. stack' \in Seq(Frames)'
    BY <1>2, <1>3 DEF Frames
  <1> QED BY <1>3, <1>4, <1>8, <1>9, <1>10, <1>11 DEF StackIsPath
(* The nodes the new call leaves alone.                                    *)
LEMMA CallElsewhere ==
  ASSUME TreeInv, ~Building, NEW n, IsCalled(n), Call(n, stack)
  PROVE  /\ \A m \in Nodes \ {n} : current'[m] = current[m] /\ children'[m] = children[m]
         /\ \A m : OnStack(m)' <=> OnStack(m) \/ m = n
         /\ \A m \in Nodes : \A i \in DOMAIN children'[m] :
               i \in DOMAIN children[m] /\ \E j \in DOMAIN children[m] : children'[m][i] = children[m][j]
  <1>1. TreeShape /\ StackIsPath /\ n \in Nodes /\ Len(stack) \in Nat /\ DOMAIN stack = 1 .. Len(stack)
    BY CalledFacts, StackFacts DEF TreeInv
  <1>2. /\ \A m \in Nodes \ {n} : current'[m] = current[m]
        /\ \A m \in Nodes \ {n} : children'[m] = children[m]
    BY <1>1, CallCurrent, CallChildren
  <1>3. /\ DOMAIN stack' = 1 .. Len(stack) + 1
        /\ \A i \in 1 .. Len(stack) : stack'[i] = stack[i]
        /\ stack'[Len(stack) + 1].node = n
    BY CallStack
  <1>4. ASSUME NEW m PROVE OnStack(m)' <=> OnStack(m) \/ m = n
    <2>1. ASSUME NEW i \in DOMAIN stack' PROVE i = Len(stack) + 1 \/ i \in DOMAIN stack
      BY <1>1, <1>3
    <2>2. OnStack(m)' => OnStack(m) \/ m = n
      BY <1>1, <1>3, <2>1 DEF OnStack
    <2>3. OnStack(m) => OnStack(m)'
      <3>1. ASSUME NEW i \in DOMAIN stack PROVE i \in DOMAIN stack' /\ stack'[i] = stack[i]
        BY <1>1, <1>3
      <3> QED BY <3>1 DEF OnStack
    <2>4. OnStack(n)'
      <3>1. Len(stack) + 1 \in DOMAIN stack'
        BY <1>1, <1>3
      <3> QED BY <1>3, <3>1 DEF OnStack
    <2> QED BY <2>2, <2>3, <2>4
  <1>5. ASSUME NEW m \in Nodes, NEW i \in DOMAIN children'[m]
        PROVE  i \in DOMAIN children[m] /\ \E j \in DOMAIN children[m] : children'[m][i] = children[m][j]
    <2>1. CASE m = n
      BY <1>1, <2>1, CallChildren
    <2>2. CASE m # n
      BY <1>2, <2>2
    <2> QED BY <2>1, <2>2
  <1> QED BY <1>2, <1>4, <1>5

LEMMA CallUpdated ==
  ASSUME TreeInv, ~Building, NEW n, IsCalled(n), Call(n, stack)
  PROVE  NotUpdatedYet'
  <1> DEFINE L == Len(stack)
  <1>1. TreeShape /\ StackIsPath /\ n \in Nodes /\ NotUpdatedYet /\ L \in Nat /\ DOMAIN stack = 1 .. L
    BY CalledFacts, StackFacts DEF TreeInv
  <1>2. /\ DOMAIN stack' = 1 .. L + 1 /\ stack' # <<>> /\ stack'[L + 1].node = n
        /\ Len(stack') = L + 1
        /\ \A i \in 1 .. L : stack'[i] = stack[i]
        /\ \A i \in 1 .. L : Slot(stack[i])' = Slot(stack[i])
    BY CallStack
  <1>3. /\ kind' = kind /\ Nodes' = Nodes /\ result' = NoResult /\ updated' = updated \cup {n}
        /\ again' = IF n \in updated /\ ~UnderRepeat THEN {n} ELSE {}
    BY <1>1, CallFacts
  <1>4. n \in updated => UnderRepeat
    <2>1. CASE stack = <<>>
      BY <1>1, <2>1 DEF NotUpdatedYet
    <2>2. CASE stack # <<>>
      <3>1. /\ L \in DOMAIN stack /\ Top = stack[L] /\ Calls(Top) /\ result = NoResult
            /\ n = ChildOf(Top.node, Slot(Top))
        BY <1>1, <2>2, StackFacts DEF IsCalled
      <3>2. IsToCome(L, Slot(Top)) /\ Slot(Top) \in DOMAIN children[stack[L].node]
        BY <3>1 DEF IsToCome, Calls
      <3>3. (\A k \in 1 .. L : kind[stack[k].node] # "Repeat") => n \notin updated
        BY <1>1, <3>1, <3>2 DEF NotUpdatedYet
      <3> QED BY <1>1, <3>3 DEF UnderRepeat
    <2> QED BY <2>1, <2>2
  <1>5. again' = {}
    BY <1>3, <1>4
  <1>6. ASSUME NEW m \in Nodes, NEW i \in DOMAIN children'[m], children'[m][i] \in updated'
        PROVE  m \in updated'
    <2>1. PICK j \in DOMAIN children[m] : children'[m][i] = children[m][j]
      BY CallElsewhere
    <2>2. CASE children[m][j] = n
      <3>1. stack # <<>> /\ m = Top.node
        BY <1>1, <2>2, CalledFacts
      <3>2. L \in DOMAIN stack /\ Top = stack[L]
        BY <1>1, <3>1, StackFacts
      <3> QED BY <1>1, <1>3, <3>1, <3>2 DEF StackIsPath
    <2>3. CASE children[m][j] # n
      <3>1. children[m][j] \in updated
        BY <1>3, <1>6, <2>1, <2>3
      <3>2. children[m][j] \in ToSet(children[m])
        BY DEF ToSet
      <3> QED BY <1>1, <1>3, <3>1, <3>2 DEF NotUpdatedYet
    <2> QED BY <2>2, <2>3
  <1>7. ASSUME NEW i \in DOMAIN stack', \A k \in 1 .. i : kind'[stack'[k].node] # "Repeat",
               NEW j \in DOMAIN children'[stack'[i].node], IsToCome(i, j)'
        PROVE  children'[stack'[i].node][j] \notin updated'
    <2>1. CASE i = L + 1
      <3>1. stack'[i].node = n
        BY <1>2, <2>1
      <3>2. n \notin updated
        <4>1. \A k \in 1 .. L : k \in 1 .. i /\ stack'[k] = stack[k]
          BY <1>1, <1>2, <2>1
        <4>2. ~UnderRepeat
          BY <1>1, <1>3, <1>7, <4>1 DEF UnderRepeat
        <4> QED BY <1>4, <4>2
      <3>3. PICK a \in DOMAIN children[n] : children'[n][j] = children[n][a]
        BY <1>1, <3>1, CallElsewhere
      <3>4. children[n][a] \notin updated
        <4>1. children[n][a] \in ToSet(children[n])
          BY DEF ToSet
        <4> QED BY <1>1, <3>2, <4>1 DEF NotUpdatedYet
      <3>5. children[n][a] # n
        <4>1. children[n][a] > n /\ n \in Nat
          BY <1>1, NodeFacts
        <4> QED BY <4>1
      <3> QED BY <1>3, <3>1, <3>3, <3>4, <3>5
    <2>2. CASE i # L + 1
      <3> DEFINE m == stack[i].node
      <3>1. i \in 1 .. L /\ i \in DOMAIN stack /\ stack'[i] = stack[i]
        BY <1>1, <1>2, <2>2
      <3>2. m \in Nodes /\ m < n /\ m \in Nat /\ m # n
        BY <1>1, <3>1, CalledFacts, StackFacts, NodeFacts
      <3>3. children'[m] = children[m] /\ j \in DOMAIN children[m]
        <4>1. \A x \in Nodes \ {n} : children'[x] = children[x]
          BY CallElsewhere
        <4> QED BY <3>1, <3>2, <4>1
      <3>4. j > Slot(stack[i])
        <4>1. j > Slot(stack[i])' \/ i = Len(stack')
          BY <1>7 DEF IsToCome
        <4> QED BY <1>2, <2>2, <3>1, <4>1
      <3>5. children[m][j] \notin updated
        <4>1. IsToCome(i, j)
          BY <3>4 DEF IsToCome
        <4>2. \A k \in 1 .. i : kind[stack[k].node] # "Repeat"
          <5>1. \A k \in 1 .. i : k \in 1 .. L /\ stack'[k] = stack[k]
            BY <1>1, <1>2, <3>1
          <5> QED BY <1>3, <1>7, <5>1
        <4> QED BY <1>1, <3>1, <3>3, <4>1, <4>2 DEF NotUpdatedYet, ChildOf
      <3>6. children[m][j] # n
        <4>1. SUFFICES ASSUME children[m][j] = n PROVE FALSE
          OBVIOUS
        <4>2. stack # <<>> /\ m = Top.node /\ j = Slot(Top)
          BY <1>1, <3>2, <3>3, <4>1, CalledFacts
        <4>3. Top = stack[L] /\ L \in DOMAIN stack
          BY <1>1, <4>2, StackFacts
        <4>4. i = L
          <5>1. i < L => stack[i].node < stack[L].node
            BY <1>1, <3>1, <4>3 DEF StackIsPath
          <5> QED BY <1>1, <3>1, <3>2, <4>2, <4>3, <5>1
        <4>5. Slot(stack[i]) \in DOMAIN children[m]
          BY <4>2, <4>3, <4>4, <3>3
        <4>6. Slot(stack[i]) \in Nat
          BY <1>1, <3>2, <4>5, NodeFacts
        <4> QED BY <3>4, <4>2, <4>3, <4>4, <4>6
      <3> QED BY <1>3, <3>1, <3>3, <3>5, <3>6
    <2> QED BY <2>1, <2>2
  <1> HIDE DEF L
  <1>8. \A m \in Nodes' : (ToSet(children[m]) \cap updated)' # {} => m \in updated'
    <2>1. \A m \in Nodes : \A x \in ToSet(children'[m]) : x \in updated' => m \in updated'
      BY <1>6 DEF ToSet
    <2> QED BY <1>3, <2>1
  <1>9. \A i \in DOMAIN stack' :
          (\A k \in 1 .. i : kind'[stack'[k].node] # "Repeat") =>
             \A j \in DOMAIN children'[stack'[i].node] :
                IsToCome(i, j)' => children'[stack'[i].node][j] \notin updated'
    BY <1>7
  <1> QED BY <1>2, <1>5, <1>8, <1>9 DEF NotUpdatedYet, ChildOf

LEMMA CallSequences ==
  ASSUME TreeInv, ~Building, NEW n, IsCalled(n), Call(n, stack)
  PROVE  SequencesGoOn'
  <1>1. TreeShape /\ StackIsPath /\ n \in Nodes /\ NodesKept /\ SequencesGoOn
    BY CalledFacts DEF TreeInv
  <1>2. kind' = kind /\ Nodes' = Nodes /\ status' = status
    BY <1>1, CallFacts
  <1>3. ASSUME NEW m \in Nodes, kind[m] = "Sequence", status[m] = "Running" \/ OnStack(m)',
               NEW j \in 1 .. current'[m] - 1
        PROVE  status[children'[m][j]] = "Success"
    <2>1. CASE m # n
      <3>1. current'[m] = current[m] /\ children'[m] = children[m]
        BY <2>1, CallElsewhere
      <3>2. status[m] = "Running" \/ OnStack(m)
        BY <1>3, <2>1, CallElsewhere
      <3> QED BY <1>1, <1>3, <3>1, <3>2 DEF SequencesGoOn, ChildOf
    <2>2. CASE m = n
      <3>1. children'[n] = children[n] /\ current'[n] = StartOf(n)
        BY <1>1, <1>3, <2>2, CallChildren, CallCurrent
      <3>2. StartOf(n) = IF status[n] = "Running" THEN current[n] ELSE 1
        BY <1>1, CallCurrent
      <3>3. status[n] = "Running"
        BY <1>3, <2>2, <3>1, <3>2
      <3> QED BY <1>1, <1>3, <2>2, <3>1, <3>2, <3>3 DEF SequencesGoOn, ChildOf
    <2> QED BY <2>1, <2>2
  <1> QED BY <1>2, <1>3 DEF SequencesGoOn, ChildOf

LEMMA CallRoot ==
  ASSUME TreeInv, ~Building, NEW n, IsCalled(n), Call(n, stack)
  PROVE  RootRunsOne'
  <1>1. TreeShape /\ StackIsPath /\ n \in Nodes /\ NodesKept /\ RootRunsOne
    BY CalledFacts DEF TreeInv
  <1>2. kind' = kind /\ status' = status /\ Building' = Building
    BY <1>1, CallFacts
  <1>3. /\ stack' # <<>> /\ Len(stack) \in Nat
        /\ \A i \in 1 .. Len(stack) : stack'[i] = stack[i]
        /\ stack'[Len(stack) + 1].prev = StartOf(n)
    BY <1>1, CallStack, StackFacts
  <1>4. ASSUME kind[1] \in {"Sequence", "Selector", "ActiveSelector"},
               NEW j \in DOMAIN children'[1], status[children'[1][j]] = "Running"
        PROVE  j = current'[1] \/ (kind[1] = "ActiveSelector" /\ j = stack'[1].prev)
    <2>1. CASE stack = <<>>
      <3>1. n = 1 /\ Len(stack) = 0
        BY <2>1, StackFacts, <1>1 DEF IsCalled
      <3>2. children'[1] = children[1]
        BY <1>1, <1>4, <3>1, CallChildren
      <3>3. j = current[1] /\ status[1] = "Running"
        BY <1>1, <1>4, <2>1, <3>2 DEF RootRunsOne, ChildOf
      <3>4. StartOf(1) = current[1]
        BY <3>3 DEF StartOf
      <3>5. kind[1] # "ActiveSelector" => current'[1] = StartOf(1)
        BY <1>1, <3>1, CallCurrent
      <3>6. stack'[1].prev = StartOf(1)
        BY <1>3, <3>1
      <3> QED BY <3>3, <3>4, <3>5, <3>6
    <2>2. CASE stack # <<>>
      <3>1. 1 \in 1 .. Len(stack) /\ stack[1].node = 1
        BY <1>1, <2>2, StackFacts DEF StackIsPath
      <3>2. 1 \in Nodes \ {n}
        <4>1. 1 \in DOMAIN stack
          BY <1>1, <2>2, StackFacts
        <4>2. stack[1].node \in Nodes /\ stack[1].node < n
          BY <1>1, <4>1, StackFacts, CalledFacts
        <4> QED BY <3>1, <4>2
      <3>3. children'[1] = children[1] /\ current'[1] = current[1]
        BY <3>2, CallElsewhere
      <3> QED BY <1>1, <1>3, <1>4, <2>2, <3>1, <3>3 DEF RootRunsOne, ChildOf
    <2> QED BY <2>1, <2>2
  <1> QED BY <1>2, <1>3, <1>4 DEF RootRunsOne, ChildOf

LEMMA CallRest ==
  ASSUME TreeInv, ~Building, NEW n, IsCalled(n), Call(n, stack)
  PROVE  ParallelsEnd' /\ ScriptsStay'
  <1> DEFINE L == Len(stack)
  <1>1. TreeShape /\ StackIsPath /\ n \in Nodes /\ NodesKept /\ ParallelsEnd /\ ScriptsStay
        /\ L \in Nat
    BY CalledFacts, StackFacts DEF TreeInv
  <1>2. kind' = kind /\ Nodes' = Nodes /\ status' = status /\ twice' = twice
    BY <1>1, CallFacts
  <1>3. ASSUME NEW m \in Nodes, ~OnStack(m)'
        PROVE  m # n /\ ~OnStack(m) /\ children'[m] = children[m] /\ current'[m] = current[m]
    BY <1>3, CallElsewhere
  <1>4. ParallelsEnd'
    BY <1>1, <1>2, <1>3 DEF ParallelsEnd, IsParallel
  <1>5. \A m \in Nodes : kind[m] = "ActiveSelector" /\ status[m] = "Running" /\ ~OnStack(m)' =>
          current'[m] \in DOMAIN children'[m] /\ kind[children'[m][current'[m]]] # "Script"
    BY <1>1, <1>3 DEF ScriptsStay, ChildOf
  <1>6. ASSUME NEW i \in DOMAIN stack', kind[stack'[i].node] = "ActiveSelector",
               stack'[i].prev \in DOMAIN children'[stack'[i].node],
               kind[children'[stack'[i].node][stack'[i].prev]] = "Script"
        PROVE  current'[stack'[i].node] = stack'[i].prev
    <2>1. /\ DOMAIN stack' = 1 .. L + 1 /\ DOMAIN stack = 1 .. L
          /\ \A k \in 1 .. L : stack'[k] = stack[k]
          /\ stack'[L + 1].node = n /\ stack'[L + 1].prev = StartOf(n)
      BY <1>1, CallStack, StackFacts
    <2>2. CASE i = L + 1
      <3>1. kind[n] = "ActiveSelector" /\ children'[n] = children[n]
        BY <1>1, <1>6, <2>1, <2>2, CallChildren
      <3>2. current'[n] = 1 /\ StartOf(n) = IF status[n] = "Running" THEN current[n] ELSE 1
        BY <1>1, <3>1, CallCurrent
      <3>3. status[n] # "Running"
        <4>1. ~OnStack(n)
          <5>1. \A k \in DOMAIN stack : stack[k].node < n /\ stack[k].node \in Nat
            BY <1>1, CalledFacts, StackFacts
          <5> QED BY <5>1 DEF OnStack
        <4>2. SUFFICES ASSUME status[n] = "Running" PROVE FALSE
          OBVIOUS
        <4>3. kind[children[n][current[n]]] # "Script"
          BY <1>1, <3>1, <4>1, <4>2 DEF ScriptsStay, ChildOf
        <4> QED BY <1>6, <2>1, <2>2, <3>1, <3>2, <4>2, <4>3
      <3> QED BY <2>1, <2>2, <3>2, <3>3
    <2>3. CASE i # L + 1
      <3> DEFINE m == stack[i].node
      <3>1. i \in DOMAIN stack /\ stack'[i] = stack[i]
        BY <1>1, <2>1, <2>3
      <3>2. m \in Nodes \ {n}
        <4>1. stack[i].node \in Nodes /\ stack[i].node < n
          BY <1>1, <3>1, CalledFacts, StackFacts
        <4> QED BY <1>1, <4>1, NodeFacts
      <3>3. children'[m] = children[m] /\ current'[m] = current[m]
        BY <3>2, CallElsewhere
      <3> QED BY <1>1, <1>6, <3>1, <3>3 DEF ScriptsStay, ChildOf
    <2> QED BY <2>2, <2>3
  <1>7. ScriptsStay'
    BY <1>1, <1>2, <1>5, <1>6 DEF ScriptsStay, ChildOf, ScriptsCloseOnce
  <1> QED BY <1>4, <1>7

LEMMA CallKeeps ==
  ASSUME TreeInv, ~Building, NEW n, IsCalled(n), Call(n, stack)
  PROVE  TreeInv'
  BY CallShape, CallKept, CallPath, CallUpdated, CallSequences, CallRoot, CallRest DEF TreeInv
(* The nodes that the return of n aborts, and what n may return.           *)
LeftBy(n, r) ==
  (IF IsParallel(n) /\ r # "Running" THEN AbortedWith(n) \ {n} ELSE {}) \cup Overtaken

CanReturn(n, r) ==
  /\ ~Building /\ stack # <<>> /\ n = Top.node /\ r \in Results
  /\ kind[n] = "Script" => r = "Success"
  /\ kind[n] \in Lists => (r = "Running" <=> /\ current[n] \in DOMAIN children[n]
                                             /\ status[ChildOf(n, current[n])] = "Running")

LEMMA TopFacts ==
  ASSUME TreeInv, stack # <<>>
  PROVE  /\ Len(stack) \in Nat \ {0} /\ DOMAIN stack = 1 .. Len(stack)
         /\ Top = stack[Len(stack)] /\ Top.node \in Nodes /\ Top.node \in begun \cap updated
         /\ Top.prev \in Nat \ {0} /\ Top.at \in 1 .. Len(children[Top.node]) + 1
         /\ \A i \in 1 .. Len(stack) - 1 : stack[i].node < Top.node
         /\ Len(stack) = 1 <=> Top.node = 1
         /\ \A m \in Nodes : \A j \in DOMAIN children[m] :
              children[m][j] = Top.node =>
                 /\ Len(stack) > 1 /\ Len(stack) - 1 \in DOMAIN stack
                 /\ m = stack[Len(stack) - 1].node /\ j = Slot(stack[Len(stack) - 1])
  <1> DEFINE L == Len(stack)
  <1>1. TreeShape /\ StackIsPath
    BY DEF TreeInv
  <1>2. /\ L \in Nat \ {0} /\ DOMAIN stack = 1 .. L /\ Top = stack[L] /\ L \in DOMAIN stack
        /\ stack[L].node \in Nodes /\ stack[L] \in Frames
    <2>1. L \in Nat /\ DOMAIN stack = 1 .. L /\ L \in DOMAIN stack /\ Top = stack[L]
      BY <1>1, StackFacts
    <2>2. stack[L] \in Frames /\ stack[L].node \in Nodes
      BY <1>1, <2>1, StackFacts
    <2> QED BY <2>1, <2>2
  <1> HIDE DEF L
  <1>3. /\ Top.node \in begun \cap updated /\ Top.at \in 1 .. Len(children[Top.node]) + 1
        /\ Top.prev \in Nat \ {0}
    BY <1>1, <1>2 DEF StackIsPath, Frames
  <1>4. ASSUME NEW i \in 1 .. L - 1 PROVE stack[i].node < Top.node
    BY <1>1, <1>2, <1>4 DEF StackIsPath
  <1>5. stack[1].node = 1
    BY <1>1 DEF StackIsPath
  <1>6. L = 1 <=> Top.node = 1
    <2>1. L # 1 => 1 \in 1 .. L - 1
      BY <1>2
    <2> QED BY <1>2, <1>4, <1>5, <2>1
  <1>7. ASSUME NEW m \in Nodes, NEW j \in DOMAIN children[m], children[m][j] = Top.node
        PROVE  L > 1 /\ L - 1 \in DOMAIN stack /\ m = stack[L - 1].node /\ j = Slot(stack[L - 1])
    <2>1. L # 1
      BY <1>1, <1>6, <1>7, ParentFacts
    <2>2. L > 1 /\ L - 1 \in DOMAIN stack /\ (L - 1) + 1 = L /\ L - 1 < L
      BY <1>2, <2>1
    <2> DEFINE f == stack[L - 1]
    <2>3. Slot(f) \in DOMAIN children[f.node] /\ Top.node = children[f.node][Slot(f)] /\ f.node \in Nodes
      <3>1. Calls(stack[L - 1]) /\ stack[(L - 1) + 1].node = ChildOf(stack[L - 1].node, Slot(stack[L - 1]))
        BY <1>1, <2>2 DEF StackIsPath, L
      <3>2. stack[L - 1].node \in Nodes
        BY <1>1, <2>2, StackFacts
      <3> QED BY <1>2, <2>2, <3>1, <3>2 DEF Calls, ChildOf
    <2> HIDE DEF f
    <2>4. m = f.node /\ j = Slot(f)
      BY <1>1, <1>7, <2>3, ParentFacts
    <2> QED BY <2>2, <2>4 DEF f
  <1> QED BY <1>2, <1>3, <1>4, <1>6, <1>7 DEF L

(* Who is aborted: what runs below, and the child an ActiveSelector ran.   *)
LEMMA LeftFacts ==
  ASSUME TreeInv, NEW n, NEW r, CanReturn(n, r)
  PROVE  /\ LeftBy(n, r) \subseteq Nodes /\ n \in Nodes
         /\ \A x \in LeftBy(n, r) : x > n /\ AbortedBy(x) \subseteq LeftBy(n, r)
         /\ \A x \in LeftBy(n, r) : status[x] = "Running"
              \/ /\ kind[n] = "ActiveSelector" /\ Top.prev \in DOMAIN children[n]
                 /\ x = children[n][Top.prev] /\ current[n] # Top.prev
         /\ IsParallel(n) /\ r # "Running" => AbortedBy(n) \subseteq LeftBy(n, r)
         /\ kind[n] = "ActiveSelector" /\ Top.prev \in DOMAIN children[n] /\ current[n] # Top.prev
              => children[n][Top.prev] \in LeftBy(n, r)
  <1>1. TreeShape /\ stack # <<>> /\ n = Top.node /\ n \in Nodes /\ n \in Nat
    BY TopFacts, NodeFacts DEF CanReturn, TreeInv
  <1>2. AbortedBy(n) \subseteq Nodes /\ \A x \in AbortedBy(n) : x > n
    BY <1>1, NodeFacts DEF AbortedBy, ToSet
  <1>3. \A x \in Nodes : \A c \in AbortedBy(x) : c \in Nodes /\ c > x
    BY <1>1, NodeFacts DEF AbortedBy, ToSet
  <1>4. CASE IsParallel(n)
    <2>1. Overtaken = {}
      BY <1>1, <1>4 DEF Overtaken, IsParallel
    <2>2. CASE r = "Running"
      <3>1. LeftBy(n, r) = {}
        BY <2>1, <2>2 DEF LeftBy
      <3> QED BY <1>1, <1>4, <2>2, <3>1 DEF IsParallel
    <2>3. CASE r # "Running"
      <3> DEFINE W == AbortedWith(n)
      <3>1. LeftBy(n, r) = W \ {n}
        BY <1>4, <2>1, <2>3 DEF LeftBy
      <3>2. /\ n \in W /\ W \subseteq Nodes /\ \A x \in W : AbortedBy(x) \subseteq W
            /\ \A x \in W : x = n \/ status[x] = "Running"
            /\ \A x \in W : x >= n
        BY <1>1, AbortFacts
      <3> HIDE DEF W
      <3>3. \A x \in W \ {n} : x > n
        BY <1>1, <3>2, NodeFacts
      <3>4. \A x \in W : \A c \in AbortedBy(x) : c # n
        <4>1. ASSUME NEW x \in W, NEW c \in AbortedBy(x) PROVE c # n
          <5>1. c > x /\ x >= n /\ x \in Nat /\ c \in Nat
            BY <1>1, <1>3, <3>2, NodeFacts
          <5> QED BY <1>1, <5>1
        <4> QED BY <4>1
      <3>5. kind[n] # "ActiveSelector"
        BY <1>4 DEF IsParallel
      <3> QED BY <1>1, <3>1, <3>2, <3>3, <3>4, <3>5
    <2> QED BY <2>2, <2>3
  <1>5. CASE ~IsParallel(n)
    <2>1. LeftBy(n, r) = Overtaken
      BY <1>5 DEF LeftBy
    <2> DEFINE over == kind[n] = "ActiveSelector" /\ Top.prev <= Len(children[n]) /\ current[n] # Top.prev
               p == Top.prev
               W == AbortedWith(children[n][p])
    <2>2. Overtaken = IF over THEN W ELSE {}
      BY <1>1 DEF Overtaken, ChildOf
    <2>3. CASE ~over
      <3>1. ~(kind[n] = "ActiveSelector" /\ p \in DOMAIN children[n] /\ current[n] # p)
        BY <1>1, <2>3, NodeFacts
      <3> QED BY <1>1, <1>5, <2>1, <2>2, <2>3, <3>1
    <2>4. CASE over
      <3>1. p \in DOMAIN children[n]
        <4>1. p \in Nat \ {0} /\ Len(children[n]) \in Nat /\ DOMAIN children[n] = 1 .. Len(children[n])
          BY <1>1, TopFacts, NodeFacts
        <4> QED BY <2>4, <4>1
      <3> DEFINE c == children[n][p]
      <3>2. c \in Nodes /\ c > n /\ c \in Nat
        BY <1>1, <3>1, NodeFacts
      <3>3. /\ c \in W /\ W \subseteq Nodes /\ \A x \in W : AbortedBy(x) \subseteq W
            /\ \A x \in W : x = c \/ status[x] = "Running"
            /\ \A x \in W : x >= c
        BY <1>1, <3>2, AbortFacts
      <3> HIDE DEF W, c
      <3>4. \A x \in W : x > n
        <4>1. ASSUME NEW x \in W PROVE x > n
          <5>1. x \in Nat /\ x >= c
            BY <1>1, <3>3, NodeFacts
          <5> QED BY <1>1, <3>2, <5>1
        <4> QED BY <4>1
      <3>5. LeftBy(n, r) = W
        BY <2>1, <2>2, <2>4
      <3> QED BY <1>1, <1>5, <2>4, <3>1, <3>3, <3>4, <3>5 DEF c
    <2> QED BY <2>3, <2>4
  <1> QED BY <1>4, <1>5
(* What a return changes: the statuses first, then the stack.              *)
LEMMA ReturnStatus ==
  ASSUME TreeInv, NEW n, NEW r, CanReturn(n, r), ReturnAfter(n, r, Overtaken)
  PROVE  /\ setup' = setup /\ kind' = kind /\ children' = children /\ open' = open
         /\ current' = current /\ count' = count /\ again' = again
         /\ Nodes' = Nodes /\ Building' = Building
         /\ status' \in [Nodes -> Statuses] /\ status'[n] = r
         /\ \A x \in LeftBy(n, r) : status'[x] = "Aborted"
         /\ \A x \in Nodes : x = n \/ x \in LeftBy(n, r) \/ status'[x] = status[x]
         /\ twice' \subseteq LeftBy(n, r) \ begun
         /\ begun' \subseteq begun
         /\ \A x \in begun : x \in begun' \/ x \in LeftBy(n, r) \/ (x = n /\ r # "Running")
  <1> DEFINE A == LeftBy(n, r)
             S == IF r = "Running" THEN {} ELSE {n}
  <1>1. TreeShape /\ NodesKept /\ n \in Nodes /\ n \in begun /\ A \subseteq Nodes /\ n \in Nat
    BY LeftFacts, TopFacts, NodeFacts DEF TreeInv, CanReturn
  <1>2. n \notin A
    BY <1>1, LeftFacts
  <1>3. r \in Statuses
    BY DEF CanReturn, Statuses
  <1>4. /\ setup' = setup /\ kind' = kind /\ children' = children /\ open' = open
        /\ current' = current /\ count' = count /\ again' = again
        /\ Nodes' = Nodes /\ Building' = Building
    BY DEF ReturnAfter, nodeVars, Nodes, Building
  <1>5. /\ status' = [x \in Nodes |-> IF x \in A THEN "Aborted" ELSE IF x = n THEN r ELSE status[x]]
        /\ begun' = begun \ (S \cup A) /\ twice' = (S \cup A) \ begun
    BY DEF ReturnAfter, LeftBy
  <1>6. S \subseteq {n} /\ (r = "Running" => S = {})
    OBVIOUS
  <1> HIDE DEF A, S
  <1>7. status \in [Nodes -> Statuses] /\ "Aborted" \in Statuses
    BY <1>1 DEF NodesKept, Statuses
  <1>8. /\ status' \in [Nodes -> Statuses] /\ status'[n] = r
        /\ \A x \in A : status'[x] = "Aborted"
        /\ \A x \in Nodes : x = n \/ x \in A \/ status'[x] = status[x]
    BY <1>1, <1>2, <1>3, <1>5, <1>7
  <1>9. /\ twice' \subseteq A \ begun
        /\ begun' \subseteq begun
        /\ \A x \in begun : x \in begun' \/ x \in A \/ (x = n /\ r # "Running")
    BY <1>1, <1>5, <1>6
  <1> QED BY <1>4, <1>8, <1>9 DEF A

LEMMA ReturnStack ==
  ASSUME TreeInv, NEW n, NEW r, CanReturn(n, r), ReturnAfter(n, r, Overtaken)
  PROVE  /\ stack' \in Seq(Frames) /\ Len(stack') = Len(stack) - 1
         /\ DOMAIN stack' = 1 .. Len(stack) - 1
         /\ \A i \in 1 .. Len(stack) - 1 :
              stack'[i] = stack[i] /\ stack[i].node # n /\ stack[i].node \notin LeftBy(n, r)
         /\ Len(stack) = 1 => result' = NoResult /\ updated' = {} /\ stack' = <<>>
         /\ Len(stack) # 1 => /\ result' = r /\ updated' = updated /\ stack' # <<>>
                              /\ Len(stack) - 1 \in DOMAIN stack' /\ Top' = stack[Len(stack) - 1]
         /\ \A m : OnStack(m)' <=> OnStack(m) /\ m # n
         /\ \A i \in 1 .. Len(stack) - 1 : Slot(stack[i])' = Slot(stack[i])
  <1> DEFINE L == Len(stack)
  <1>1. /\ TreeShape /\ StackIsPath /\ stack # <<>> /\ n = Top.node /\ n \in Nodes /\ n \in Nat
        /\ L \in Nat \ {0} /\ DOMAIN stack = 1 .. L /\ Top = stack[L] /\ stack \in Seq(Frames)
    <2>1. TreeShape /\ StackIsPath /\ stack # <<>> /\ n = Top.node /\ stack \in Seq(Frames)
      BY DEF TreeInv, CanReturn, StackIsPath
    <2> QED BY <2>1, TopFacts, NodeFacts
  <1>2. stack' = Front(stack)
    BY DEF ReturnAfter
  <1>3. /\ stack' \in Seq(Frames) /\ Len(stack') = L - 1
        /\ \A i \in 1 .. L - 1 : stack'[i] = stack[i]
    BY <1>1, <1>2, FrontFacts
  <1>4. /\ L = 1 => result' = NoResult /\ updated' = {}
        /\ L # 1 => result' = r /\ updated' = updated
    BY DEF ReturnAfter
  <1>5. kind' = kind /\ children' = children /\ current' = current
    BY ReturnStatus
  <1>6. ASSUME NEW i \in 1 .. L - 1
        PROVE  stack[i].node # n /\ stack[i].node \notin LeftBy(n, r)
    <2>1. stack[i].node < n
      BY <1>1, TopFacts
    <2>2. stack[i].node \in Nat
      BY <1>1, StackFacts
    <2>3. \A x \in LeftBy(n, r) : x > n
      BY LeftFacts
    <2> QED BY <1>1, <2>1, <2>2, <2>3
  <1> HIDE DEF L
  <1>7. DOMAIN stack' = 1 .. L - 1
    BY <1>1, <1>3
  <1>8. L = 1 => stack' = <<>>
    BY <1>3, EmptySeq
  <1>9. L # 1 => stack' # <<>> /\ L - 1 \in DOMAIN stack' /\ Top' = stack[L - 1]
    <2> SUFFICES ASSUME L # 1 PROVE stack' # <<>> /\ L - 1 \in DOMAIN stack' /\ Top' = stack[L - 1]
      OBVIOUS
    <2>1. L - 1 \in DOMAIN stack' /\ L - 1 \in 1 .. L - 1
      BY <1>1, <1>7
    <2>2. stack' # <<>>
      BY <1>1, <1>3, EmptySeq
    <2>3. Top' = stack'[Len(stack')]
      BY DEF Top, Last
    <2> QED BY <1>3, <2>1, <2>2, <2>3
  <1>10. ASSUME NEW m PROVE OnStack(m)' <=> OnStack(m) /\ m # n
    <2>1. OnStack(m)' <=> \E i \in 1 .. L - 1 : stack[i].node = m
      BY <1>3, <1>7 DEF OnStack
    <2>2. OnStack(m) <=> \E i \in 1 .. L : stack[i].node = m
      BY <1>1 DEF OnStack
    <2>3. \A i \in 1 .. L : i = L \/ i \in 1 .. L - 1
      BY <1>1
    <2>4. stack[L].node = n /\ 1 .. L - 1 \subseteq 1 .. L
      BY <1>1
    <2> QED BY <1>6, <2>1, <2>2, <2>3, <2>4
  <1>11. ASSUME NEW i \in 1 .. L - 1 PROVE Slot(stack[i])' = Slot(stack[i])
    BY <1>3, <1>5, <1>11 DEF Slot, IsParallel
  <1> QED BY <1>3, <1>4, <1>6, <1>7, <1>8, <1>9, <1>10, <1>11 DEF L

(* The children of a node that a return does not end, as they are left.    *)
LEMMA ReturnedChild ==
  ASSUME TreeInv, NEW n, NEW r, CanReturn(n, r), ReturnAfter(n, r, Overtaken),
         NEW m \in Nodes, NEW j \in DOMAIN children[m]
  PROVE  /\ children[m][j] \in Nodes
         /\ \/ status'[children[m][j]] = status[children[m][j]]
            \/ status'[children[m][j]] = "Aborted" /\ children[m][j] \in LeftBy(n, r)
            \/ /\ children[m][j] = n /\ Len(stack) > 1 /\ Len(stack) - 1 \in DOMAIN stack
               /\ m = stack[Len(stack) - 1].node /\ j = Slot(stack[Len(stack) - 1])
               /\ OnStack(m)' /\ OnStack(m)
  <1>1. TreeShape /\ stack # <<>> /\ n = Top.node /\ children[m][j] \in Nodes
    BY NodeFacts DEF TreeInv, CanReturn
  <1> DEFINE c == children[m][j]
  <1>2. CASE c # n
    <2>1. /\ \A x \in Nodes : x = n \/ x \in LeftBy(n, r) \/ status'[x] = status[x]
          /\ \A x \in LeftBy(n, r) : status'[x] = "Aborted"
      BY ReturnStatus
    <2> QED BY <1>1, <1>2, <2>1
  <1>3. CASE c = n
    <2>1. /\ Len(stack) > 1 /\ Len(stack) - 1 \in DOMAIN stack
          /\ m = stack[Len(stack) - 1].node /\ j = Slot(stack[Len(stack) - 1])
      BY <1>1, <1>3, TopFacts
    <2>2. m # n
      BY <1>1, <1>3, NodeFacts
    <2>3. OnStack(m)
      BY <2>1 DEF OnStack
    <2>4. OnStack(m)'
      BY <2>2, <2>3, ReturnStack
    <2> QED BY <1>1, <1>3, <2>1, <2>3, <2>4
  <1> QED BY <1>2, <1>3

LEMMA ReturnKept ==
  ASSUME TreeInv, NEW n, NEW r, CanReturn(n, r), ReturnAfter(n, r, Overtaken)
  PROVE  TreeShape' /\ NodesKept'
  <1>1. TreeShape /\ NodesKept /\ ~Building /\ n \in Nodes
    BY LeftFacts DEF TreeInv, CanReturn
  <1>2. /\ setup' = setup /\ kind' = kind /\ children' = children /\ open' = open
        /\ current' = current /\ count' = count /\ Nodes' = Nodes /\ Building' = Building
        /\ status' \in [Nodes -> Statuses]
    BY ReturnStatus
  <1>3. TreeShape'
    BY <1>1, <1>2 DEF TreeShape
  <1>4. updated' \subseteq Nodes
    <2>1. updated' = {} \/ updated' = updated
      BY ReturnStack
    <2> QED BY <1>1, <2>1 DEF NodesKept
  <1>5. begun' \subseteq Nodes /\ twice' \subseteq Nodes
    <2>1. begun' \subseteq begun /\ twice' \subseteq LeftBy(n, r)
      BY ReturnStatus
    <2>2. LeftBy(n, r) \subseteq Nodes
      BY LeftFacts
    <2> QED BY <1>1, <2>1, <2>2 DEF NodesKept
  <1>6. ASSUME NEW x \in Nodes, kind[x] = "Script"
        PROVE  status'[x] \in {"Invalid", "Success", "Aborted"}
    <2>1. status[x] \in {"Invalid", "Success", "Aborted"}
      BY <1>1, <1>6 DEF NodesKept
    <2>2. x = n => status'[x] = "Success"
      BY <1>6, ReturnStatus DEF CanReturn
    <2>3. /\ \A y \in Nodes : y = n \/ y \in LeftBy(n, r) \/ status'[y] = status[y]
          /\ \A y \in LeftBy(n, r) : status'[y] = "Aborted"
      BY ReturnStatus
    <2> QED BY <2>1, <2>2, <2>3
  <1>7. ASSUME NEW x \in Nodes, status'[x] = "Running" PROVE x \in begun'
    <2>1. /\ \A y \in Nodes : y = n \/ y \in LeftBy(n, r) \/ status'[y] = status[y]
          /\ \A y \in LeftBy(n, r) : status'[y] = "Aborted"
          /\ \A y \in begun : y \in begun' \/ y \in LeftBy(n, r) \/ (y = n /\ r # "Running")
          /\ status'[n] = r
      BY ReturnStatus
    <2>2. n \in begun
      BY TopFacts DEF CanReturn
    <2>3. status[x] = "Running" => x \in begun
      BY <1>1 DEF NodesKept
    <2>4. x \in begun /\ x \notin LeftBy(n, r) /\ (x = n => r = "Running")
      BY <1>7, <2>1, <2>2, <2>3
    <2> QED BY <2>1, <2>4
  <1>8. \A x \in Nodes : /\ current[x] \in 1 .. Len(children[x]) + 1
                         /\ RepeatCount # 0 => count[x] < RepeatCount
    BY <1>1 DEF NodesKept
  <1>9. current \in [Nodes -> Nat] /\ count \in [Nodes -> Nat]
    BY <1>1 DEF NodesKept
  <1>10. NodesKept'
    BY <1>1, <1>2, <1>4, <1>5, <1>6, <1>7, <1>8, <1>9 DEF NodesKept, Statuses, Results
  <1> QED BY <1>3, <1>10

LEMMA ReturnPath ==
  ASSUME TreeInv, NEW n, NEW r, CanReturn(n, r), ReturnAfter(n, r, Overtaken)
  PROVE  StackIsPath'
  <1> DEFINE L == Len(stack)
  <1>1. /\ TreeShape /\ StackIsPath /\ stack # <<>> /\ n = Top.node
        /\ L \in Nat \ {0} /\ DOMAIN stack = 1 .. L /\ Top = stack[L]
    BY TopFacts DEF TreeInv, CanReturn
  <1>2. /\ stack' \in Seq(Frames) /\ Len(stack') = L - 1 /\ DOMAIN stack' = 1 .. L - 1
        /\ \A i \in 1 .. L - 1 : stack'[i] = stack[i] /\ stack[i].node # n
                                 /\ stack[i].node \notin LeftBy(n, r)
        /\ \A i \in 1 .. L - 1 : Slot(stack[i])' = Slot(stack[i])
        /\ L = 1 => result' = NoResult /\ updated' = {} /\ stack' = <<>>
        /\ L # 1 => result' = r /\ updated' = updated /\ stack' # <<>> /\ Top' = stack[L - 1]
    BY ReturnStack
  <1>3. /\ kind' = kind /\ children' = children /\ Nodes' = Nodes
        /\ \A x \in begun : x \in begun' \/ x \in LeftBy(n, r) \/ (x = n /\ r # "Running")
        /\ status'[n] = r
    BY ReturnStatus
  <1> HIDE DEF L
  <1>4. \A i \in 1 .. L - 1 : i \in 1 .. L /\ i < L /\ L # 1 /\ 1 \in 1 .. L - 1
    BY <1>1
  <1>5. /\ stack[1].node = 1
        /\ \A i \in 1 .. L - 1 : /\ stack[i].node \in begun \cap updated
                                 /\ stack[i].at \in 1 .. Len(children[stack[i].node]) + 1
        /\ \A i, j \in 1 .. L - 1 : i < j => stack[i].node < stack[j].node
        /\ \A i \in 1 .. L - 1 : /\ Calls(stack[i])
                                 /\ stack[i + 1].node = ChildOf(stack[i].node, Slot(stack[i]))
    BY <1>1, <1>4 DEF StackIsPath, L
  <1>6. stack' # <<>> => stack'[1].node = 1
    <2>1. stack' # <<>> => 1 \in 1 .. L - 1
      BY <1>1, <1>2
    <2> QED BY <1>2, <1>5, <2>1
  <1>7. \A i \in 1 .. L - 1 : /\ stack'[i].node \in begun' \cap updated'
                              /\ stack'[i].at \in 1 .. Len(children'[stack'[i].node]) + 1
    BY <1>2, <1>3, <1>4, <1>5
  <1>8. \A i, j \in 1 .. L - 1 : i < j => stack'[i].node < stack'[j].node
    BY <1>2, <1>5
  <1>9. \A i \in 1 .. L - 1 : Calls(stack[i])'
    BY <1>2, <1>3, <1>5 DEF Calls
  <1>10. ASSUME NEW i \in 1 .. L - 1, i < L - 1
         PROVE  stack'[i + 1].node = ChildOf(stack[i].node, Slot(stack[i]))'
    <2>1. i + 1 \in 1 .. L - 1
      BY <1>1, <1>10
    <2>2. stack'[i + 1] = stack[i + 1] /\ stack'[i] = stack[i] /\ Slot(stack[i])' = Slot(stack[i])
      BY <1>2, <2>1
    <2> QED BY <1>3, <1>5, <2>2 DEF ChildOf
  <1>11. result' \in (Statuses \ {"Aborted"}) \cup {NoResult}
    BY <1>2 DEF CanReturn, Statuses, Results
  <1>12. ASSUME result' # NoResult
         PROVE  stack' # <<>> /\ Calls(Top)' /\ status'[ChildOf(Top.node, Slot(Top))'] = result'
    <2>1. L # 1 /\ stack' # <<>> /\ L - 1 \in 1 .. L - 1
      BY <1>1, <1>2, <1>12
    <2> PICK k \in 1 .. L - 1 : k = L - 1
      BY <2>1
    <2>2. Top' = stack'[k] /\ stack'[k] = stack[k] /\ result' = r
      BY <1>2, <2>1
    <2>3. Calls(Top)'
      <3>1. Calls(stack[k])'
        BY <1>9
      <3> QED BY <2>2, <3>1 DEF Calls, Slot, IsParallel
    <2>4. Slot(Top)' = Slot(stack[k])
      <3>1. Slot(stack[k])' = Slot(stack[k])
        BY <1>2
      <3> QED BY <2>2, <3>1 DEF Slot, IsParallel
    <2>5. ChildOf(Top.node, Slot(Top))' = n
      <3>1. stack[k + 1].node = ChildOf(stack[k].node, Slot(stack[k])) /\ k + 1 = L
        BY <1>1, <1>5
      <3> QED BY <1>1, <1>3, <2>2, <2>4, <3>1 DEF ChildOf
    <2> QED BY <1>3, <2>1, <2>2, <2>3, <2>5
  <1>13. stack' \in Seq(Frames)'
    BY <1>2, <1>3 DEF Frames
  <1> QED BY <1>2, <1>6, <1>7, <1>8, <1>9, <1>10, <1>11, <1>12, <1>13 DEF StackIsPath

LEMMA ReturnUpdated ==
  ASSUME TreeInv, NEW n, NEW r, CanReturn(n, r), ReturnAfter(n, r, Overtaken)
  PROVE  NotUpdatedYet'
  <1> DEFINE L == Len(stack)
  <1>1. /\ NotUpdatedYet /\ stack # <<>> /\ L \in Nat \ {0} /\ DOMAIN stack = 1 .. L
    BY TopFacts DEF TreeInv, CanReturn
  <1>2. /\ kind' = kind /\ children' = children /\ Nodes' = Nodes /\ again' = again
    BY ReturnStatus
  <1>3. /\ Len(stack') = L - 1 /\ DOMAIN stack' = 1 .. L - 1
        /\ \A i \in 1 .. L - 1 : stack'[i] = stack[i]
        /\ \A i \in 1 .. L - 1 : Slot(stack[i])' = Slot(stack[i])
        /\ L = 1 => updated' = {}
        /\ L # 1 => result' = r /\ updated' = updated /\ stack' # <<>>
    BY ReturnStack
  <1> HIDE DEF L
  <1>4. CASE L = 1
    BY <1>1, <1>2, <1>3, <1>4 DEF NotUpdatedYet
  <1>5. CASE L # 1
    <2>1. result' # NoResult
      BY <1>3, <1>5 DEF CanReturn, Results, NoResult
    <2>2. ASSUME NEW i \in 1 .. L - 1, \A k \in 1 .. i : kind'[stack'[k].node] # "Repeat",
                 NEW j \in DOMAIN children[stack[i].node], IsToCome(i, j)'
          PROVE  children[stack[i].node][j] \notin updated
      <3>1. IsToCome(i, j)
        BY <1>3, <2>1, <2>2 DEF IsToCome
      <3>2. \A k \in 1 .. i : kind[stack[k].node] # "Repeat"
        <4>1. \A k \in 1 .. i : k \in 1 .. L - 1
          BY <1>1
        <4> QED BY <1>2, <1>3, <2>2, <4>1
      <3>3. i \in DOMAIN stack
        BY <1>1
      <3> QED BY <1>1, <3>1, <3>2, <3>3 DEF NotUpdatedYet, ChildOf
    <2> QED BY <1>1, <1>2, <1>3, <1>5, <2>2 DEF NotUpdatedYet, ChildOf
  <1> QED BY <1>4, <1>5
(* The other parts of the invariant, when a call returns.                  *)
LEMMA ReturnSequences ==
  ASSUME TreeInv, NEW n, NEW r, CanReturn(n, r), ReturnAfter(n, r, Overtaken)
  PROVE  SequencesGoOn'
  <1>1. /\ TreeShape /\ NodesKept /\ StackIsPath /\ SequencesGoOn /\ stack # <<>> /\ n = Top.node
        /\ n \in Nodes
    BY TopFacts DEF TreeInv, CanReturn
  <1>2. kind' = kind /\ children' = children /\ current' = current /\ Nodes' = Nodes
    BY ReturnStatus
  <1>3. ASSUME NEW m \in Nodes, kind[m] = "Sequence", status'[m] = "Running" \/ OnStack(m)',
               NEW j \in 1 .. current[m] - 1
        PROVE  status'[children[m][j]] = "Success"
    <2>1. status[m] = "Running" \/ OnStack(m)
      <3>1. /\ status'[m] = status[m] \/ m = n \/ status'[m] = "Aborted"
        BY ReturnStatus
      <3>2. OnStack(m)' => OnStack(m)
        BY ReturnStack
      <3>3. OnStack(n)
        <4>1. Len(stack) \in DOMAIN stack /\ stack[Len(stack)].node = n
          BY <1>1, TopFacts
        <4> QED BY <4>1 DEF OnStack
      <3> QED BY <1>3, <3>1, <3>2, <3>3
    <2>2. j \in DOMAIN children[m] /\ j < current[m] /\ current[m] \in Nat
      <3>1. current[m] \in 1 .. Len(children[m]) + 1 /\ Len(children[m]) \in Nat
            /\ DOMAIN children[m] = 1 .. Len(children[m])
        BY <1>1, NodeFacts DEF NodesKept
      <3> QED BY <3>1
    <2>3. status[children[m][j]] = "Success"
      BY <1>1, <1>3, <2>1 DEF SequencesGoOn, ChildOf
    <2> DEFINE c == children[m][j]
    <2>4. c \notin LeftBy(n, r)
      <3>1. SUFFICES ASSUME c \in LeftBy(n, r) PROVE FALSE
        OBVIOUS
      <3>2. kind[n] = "ActiveSelector" /\ Top.prev \in DOMAIN children[n] /\ c = children[n][Top.prev]
        <4>1. \A x \in LeftBy(n, r) : status[x] = "Running"
              \/ /\ kind[n] = "ActiveSelector" /\ Top.prev \in DOMAIN children[n]
                 /\ x = children[n][Top.prev] /\ current[n] # Top.prev
          BY LeftFacts
        <4> QED BY <2>3, <3>1, <4>1
      <3>3. m = n
        BY <1>1, <2>2, <3>2, ParentFacts
      <3> QED BY <1>3, <3>2, <3>3
    <2>5. c # n
      <3>1. SUFFICES ASSUME c = n PROVE FALSE
        OBVIOUS
      <3>2. Len(stack) - 1 \in DOMAIN stack /\ m = stack[Len(stack) - 1].node
            /\ j = Slot(stack[Len(stack) - 1])
        BY <1>1, <2>2, <3>1, TopFacts
      <3>3. j = current[m]
        BY <1>3, <3>2 DEF Slot, Lists
      <3> QED BY <2>2, <3>3
    <2>6. c \in Nodes
      BY <1>1, <2>2, NodeFacts
    <2>7. status'[c] = status[c]
      <3>1. \A x \in Nodes : x = n \/ x \in LeftBy(n, r) \/ status'[x] = status[x]
        BY ReturnStatus
      <3> QED BY <2>4, <2>5, <2>6, <3>1
    <2> QED BY <2>3, <2>7
  <1> QED BY <1>2, <1>3 DEF SequencesGoOn, ChildOf

LEMMA ReturnRoot ==
  ASSUME TreeInv, NEW n, NEW r, CanReturn(n, r), ReturnAfter(n, r, Overtaken)
  PROVE  RootRunsOne'
  <1> DEFINE L == Len(stack)
  <1>1. /\ TreeShape /\ NodesKept /\ StackIsPath /\ RootRunsOne /\ stack # <<>> /\ n = Top.node
        /\ n \in Nodes /\ ~Building /\ L \in Nat \ {0} /\ Top = stack[L] /\ DOMAIN stack = 1 .. L
        /\ L = 1 <=> n = 1
    BY TopFacts DEF TreeInv, CanReturn
  <1>2. /\ kind' = kind /\ children' = children /\ current' = current /\ Building' = Building
        /\ status'[n] = r
    BY ReturnStatus
  <1>3. /\ \A i \in 1 .. L - 1 : stack'[i] = stack[i]
        /\ L = 1 => stack' = <<>>
        /\ L # 1 => stack' # <<>>
    BY ReturnStack
  <1>4. 1 \in Nodes
    <2>1. Len(kind) \in Nat /\ Nodes = 1 .. Len(kind)
      BY <1>1, NodeFacts
    <2> QED BY <1>1, <2>1
  <1>5. L # 1 => stack'[1] = stack[1]
    <2>1. L # 1 => 1 \in 1 .. L - 1
      BY <1>1
    <2> QED BY <1>3, <2>1
  <1> DEFINE Mine(j) == \/ j = current[1] /\ (stack' = <<>> => status'[1] = "Running")
                        \/ stack' # <<>> /\ kind[1] = "ActiveSelector" /\ j = stack'[1].prev
  <1>6. ASSUME kind[1] \in {"Sequence", "Selector", "ActiveSelector"},
               NEW j \in DOMAIN children[1], status'[children[1][j]] = "Running"
        PROVE  Mine(j)
    <2> DEFINE c == children[1][j]
    <2>1. CASE status'[c] = status[c]
      <3>1. \/ j = current[1]
            \/ kind[1] = "ActiveSelector" /\ j = stack[1].prev
        BY <1>1, <1>6, <2>1 DEF RootRunsOne, ChildOf
      <3>2. CASE L # 1
        BY <1>3, <1>5, <3>1, <3>2
      <3>3. CASE L = 1
        <4>1. n = 1 /\ kind[1] \in Lists /\ Top = stack[1]
          BY <1>1, <1>6, <3>3 DEF Lists
        <4>2. CASE j = current[1]
          <5>1. r = "Running"
            BY <1>6, <2>1, <4>1, <4>2 DEF CanReturn, ChildOf
          <5> QED BY <1>2, <4>1, <4>2, <5>1
        <4>3. CASE kind[1] = "ActiveSelector" /\ j = stack[1].prev /\ j # current[1]
          <5>1. children[1][j] \in LeftBy(n, r)
            BY <4>1, <4>3, LeftFacts
          <5>2. status'[children[1][j]] = "Aborted"
            BY <5>1, ReturnStatus
          <5> QED BY <1>6, <5>2
        <4> QED BY <3>1, <4>2, <4>3
      <3> QED BY <3>2, <3>3
    <2>2. CASE /\ c = n /\ L > 1 /\ L - 1 \in DOMAIN stack
               /\ 1 = stack[L - 1].node /\ j = Slot(stack[L - 1])
      <3>1. j = current[1]
        BY <1>6, <2>2 DEF Slot, Lists
      <3> QED BY <1>1, <1>3, <2>2, <3>1
    <2>3. status'[c] = status[c] \/ status'[c] = "Aborted"
          \/ /\ c = n /\ L > 1 /\ L - 1 \in DOMAIN stack
             /\ 1 = stack[L - 1].node /\ j = Slot(stack[L - 1])
      BY <1>4, ReturnedChild
    <2> QED BY <1>6, <2>1, <2>2, <2>3
  <1> QED BY <1>1, <1>2, <1>6 DEF RootRunsOne, ChildOf

LEMMA ReturnParallels ==
  ASSUME TreeInv, NEW n, NEW r, CanReturn(n, r), ReturnAfter(n, r, Overtaken)
  PROVE  ParallelsEnd'
  <1>1. TreeShape /\ ParallelsEnd /\ stack # <<>> /\ n = Top.node /\ n \in Nodes
    BY TopFacts DEF TreeInv, CanReturn
  <1>2. kind' = kind /\ children' = children /\ Nodes' = Nodes /\ status'[n] = r
    BY ReturnStatus
  <1>3. ASSUME NEW m \in Nodes, IsParallel(m), status'[m] # "Running", ~OnStack(m)',
               NEW j \in DOMAIN children[m], status'[children[m][j]] = "Running"
        PROVE  FALSE
    <2> DEFINE c == children[m][j]
    <2>1. c \in Nodes /\ status[c] = "Running" /\ c \in ToSet(children[m])
      BY <1>3, ReturnedChild DEF ToSet
    <2>2. c \in AbortedBy(m)
      BY <1>3, <2>1 DEF AbortedBy
    <2>3. c \notin LeftBy(n, r)
      BY <1>3, ReturnStatus
    <2>4. CASE m = n
      <3>1. AbortedBy(n) \subseteq LeftBy(n, r)
        BY <1>2, <1>3, <2>4, LeftFacts
      <3> QED BY <2>2, <2>3, <2>4, <3>1
    <2>5. CASE m \in LeftBy(n, r)
      <3>1. AbortedBy(m) \subseteq LeftBy(n, r)
        BY <2>5, LeftFacts
      <3> QED BY <2>2, <2>3, <3>1
    <2>6. CASE m # n /\ m \notin LeftBy(n, r)
      <3>1. status[m] # "Running"
        BY <1>3, <2>6, ReturnStatus
      <3>2. ~OnStack(m)
        BY <1>3, <2>6, ReturnStack
      <3> QED BY <1>1, <1>3, <2>1, <3>1, <3>2 DEF ParallelsEnd
    <2> QED BY <2>4, <2>5, <2>6
  <1> QED BY <1>2, <1>3 DEF ParallelsEnd, IsParallel, ToSet

LEMMA ReturnScripts ==
  ASSUME TreeInv, NEW n, NEW r, CanReturn(n, r), ReturnAfter(n, r, Overtaken)
  PROVE  ScriptsStay'
  <1> DEFINE L == Len(stack)
  <1>1. /\ TreeShape /\ NodesKept /\ ScriptsStay /\ stack # <<>> /\ n = Top.node /\ n \in Nodes
        /\ L \in Nat \ {0} /\ Top = stack[L] /\ DOMAIN stack = 1 .. L
    BY TopFacts DEF TreeInv, CanReturn
  <1>2. kind' = kind /\ children' = children /\ current' = current /\ Nodes' = Nodes /\ status'[n] = r
        /\ twice' \subseteq LeftBy(n, r) \ begun
    BY ReturnStatus
  <1>3. DOMAIN stack' = 1 .. L - 1 /\ \A i \in 1 .. L - 1 : stack'[i] = stack[i]
    BY ReturnStack
  <1>4. ASSUME NEW m \in Nodes, kind[m] = "ActiveSelector", status'[m] = "Running", ~OnStack(m)'
        PROVE  current[m] \in DOMAIN children[m] /\ kind[children[m][current[m]]] # "Script"
    <2>1. CASE m = n
      <3>1. current[n] \in DOMAIN children[n] /\ status[children[n][current[n]]] = "Running"
        BY <1>2, <1>4, <2>1 DEF CanReturn, Lists, ChildOf
      <3>2. children[n][current[n]] \in Nodes
        BY <1>1, <3>1, NodeFacts
      <3> QED BY <1>1, <2>1, <3>1, <3>2 DEF NodesKept
    <2>2. CASE m # n
      <3>1. status[m] = "Running"
        <4>1. /\ \A x \in Nodes : x = n \/ x \in LeftBy(n, r) \/ status'[x] = status[x]
              /\ \A x \in LeftBy(n, r) : status'[x] = "Aborted"
          BY ReturnStatus
        <4> QED BY <1>4, <2>2, <4>1
      <3>2. ~OnStack(m)
        BY <1>4, <2>2, ReturnStack
      <3> QED BY <1>1, <1>4, <3>1, <3>2 DEF ScriptsStay, ChildOf
    <2> QED BY <2>1, <2>2
  <1>5. ASSUME NEW i \in DOMAIN stack', kind[stack'[i].node] = "ActiveSelector",
               stack'[i].prev \in DOMAIN children[stack'[i].node],
               kind[children[stack'[i].node][stack'[i].prev]] = "Script"
        PROVE  current[stack'[i].node] = stack'[i].prev
    <2>1. i \in DOMAIN stack /\ stack'[i] = stack[i]
      BY <1>1, <1>3
    <2> QED BY <1>1, <1>5, <2>1 DEF ScriptsStay, ChildOf
  <1>6. ASSUME NEW x \in twice' PROVE kind[x] # "Script"
    <2>1. x \in LeftBy(n, r) /\ x \notin begun /\ x \in Nodes
      BY <1>2, LeftFacts
    <2>2. status[x] # "Running"
      BY <1>1, <2>1 DEF NodesKept
    <2>3. /\ kind[n] = "ActiveSelector" /\ Top.prev \in DOMAIN children[n]
          /\ x = children[n][Top.prev] /\ current[n] # Top.prev
      <3>1. \A y \in LeftBy(n, r) : status[y] = "Running"
              \/ /\ kind[n] = "ActiveSelector" /\ Top.prev \in DOMAIN children[n]
                 /\ y = children[n][Top.prev] /\ current[n] # Top.prev
        BY LeftFacts
      <3> QED BY <2>1, <2>2, <3>1
    <2>4. L \in DOMAIN stack
      BY <1>1
    <2> QED BY <1>1, <2>3, <2>4 DEF ScriptsStay, ChildOf
  <1> QED BY <1>2, <1>4, <1>5, <1>6 DEF ScriptsStay, ChildOf, ScriptsCloseOnce

LEMMA ReturnKeeps ==
  ASSUME TreeInv, NEW n, NEW r, CanReturn(n, r), ReturnAfter(n, r, Overtaken)
  PROVE  TreeInv'
  BY ReturnKept, ReturnPath, ReturnUpdated, ReturnSequences, ReturnRoot, ReturnParallels,
     ReturnScripts DEF TreeInv
(* What came back to the node on top is what the child it called keeps.    *)
LEMMA BackFacts ==
  ASSUME TreeInv, stack # <<>>, result # NoResult
  PROVE  /\ Calls(Top) /\ Slot(Top) \in DOMAIN children[Top.node]
         /\ ChildOf(Top.node, Slot(Top)) \in Nodes
         /\ status[ChildOf(Top.node, Slot(Top))] = result
  <1>1. TreeShape /\ Calls(Top) /\ status[ChildOf(Top.node, Slot(Top))] = result
    BY DEF TreeInv, StackIsPath
  <1>2. Slot(Top) \in DOMAIN children[Top.node]
    BY <1>1 DEF Calls
  <1> QED BY <1>1, <1>2, TopFacts, NodeFacts DEF ChildOf

LEMMA NextChildKeeps ==
  ASSUME TreeInv, NextChild
  PROVE  TreeInv'
  <1> DEFINE n == Top.node
             L == Len(stack)
             p == current[n]
             c == children[n][p]
  <1>1. /\ ~Building /\ stack # <<>> /\ result # NoResult /\ result = GoesOn(kind[n])
        /\ kind[n] \in Lists /\ result' = NoResult
        /\ UNCHANGED <<nodeVars, status, count, stack, begun, twice, updated, again>>
        /\ current' = [current EXCEPT ![n] = @ + 1]
    BY DEF NextChild, Back
  <1>2. /\ TreeShape /\ NodesKept /\ StackIsPath /\ NotUpdatedYet /\ SequencesGoOn /\ RootRunsOne
        /\ ParallelsEnd /\ ScriptsStay
    BY DEF TreeInv
  <1>3. /\ L \in Nat \ {0} /\ DOMAIN stack = 1 .. L /\ Top = stack[L] /\ n \in Nodes
        /\ L = 1 <=> n = 1
        /\ \A i \in 1 .. L - 1 : stack[i].node < n
    BY <1>1, TopFacts
  <1>4. /\ kind' = kind /\ children' = children /\ open' = open /\ setup' = setup
        /\ status' = status /\ count' = count /\ stack' = stack /\ begun' = begun
        /\ twice' = twice /\ updated' = updated /\ again' = again
        /\ Nodes' = Nodes /\ Building' = Building /\ Top' = Top
    BY <1>1 DEF nodeVars, Nodes, Building, Top
  <1>5. /\ p \in DOMAIN children[n] /\ status[c] = result /\ c \in Nodes
        /\ p \in Nat /\ p <= Len(children[n]) /\ Len(children[n]) \in Nat
    <2>1. Slot(Top) = p
      BY <1>1 DEF Slot
    <2>2. p \in DOMAIN children[n] /\ status[c] = result /\ c \in Nodes
      BY <1>1, <2>1, BackFacts DEF ChildOf
    <2> QED BY <1>2, <1>3, <2>2, NodeFacts
  <1>6. /\ current' \in [Nodes -> Nat] /\ current'[n] = p + 1
        /\ \A m \in Nodes \ {n} : current'[m] = current[m]
    BY <1>1, <1>2, <1>3, <1>5 DEF NodesKept
  <1> HIDE DEF n, L, p, c
  <1>7. \A m : OnStack(m)' <=> OnStack(m)
    BY <1>4 DEF OnStack
  <1>8. OnStack(n)
    BY <1>3 DEF OnStack, n, L
  <1>9. \A i \in 1 .. L : stack[i].node \in Nodes /\ (stack[i].node = n => i = L)
    <2>1. ASSUME NEW i \in 1 .. L PROVE stack[i].node \in Nodes /\ (stack[i].node = n => i = L)
      <3>1. stack[i].node \in Nodes /\ stack[i].node \in Nat
        BY <1>2, <1>3, StackFacts
      <3>2. i = L \/ i \in 1 .. L - 1
        BY <1>3
      <3> QED BY <1>2, <1>3, <3>1, <3>2, NodeFacts
    <2> QED BY <2>1
  <1>10. ASSUME NEW i \in 1 .. L, stack[i].node # n PROVE Slot(stack[i])' = Slot(stack[i])
    BY <1>4, <1>6, <1>9, <1>10 DEF Slot, IsParallel
  <1>11. TreeShape'
    BY <1>2, <1>4 DEF TreeShape
  <1>12. NodesKept'
    <2>1. \A m \in Nodes : current'[m] \in 1 .. Len(children[m]) + 1
      <3>1. current'[n] \in 1 .. Len(children[n]) + 1
        BY <1>5, <1>6
      <3>2. \A m \in Nodes \ {n} : current'[m] \in 1 .. Len(children[m]) + 1
        BY <1>2, <1>6 DEF NodesKept
      <3> QED BY <3>1, <3>2
    <2> QED BY <1>2, <1>4, <1>6, <2>1 DEF NodesKept
  <1>13. StackIsPath'
    <2>1. \A i \in 1 .. L : i < L => Slot(stack[i])' = Slot(stack[i])
      BY <1>3, <1>9, <1>10
    <2>2. \A i \in DOMAIN stack : i < Len(stack) => Calls(stack[i])' /\ Slot(stack[i])' = Slot(stack[i])
      BY <1>2, <1>3, <1>4, <2>1 DEF StackIsPath, Calls, L
    <2> QED BY <1>1, <1>2, <1>4, <2>2 DEF StackIsPath, ChildOf, Frames, Statuses
  <1>14. NotUpdatedYet'
    <2>1. ASSUME NEW i \in 1 .. L, NEW j \in DOMAIN children[stack[i].node], IsToCome(i, j)'
          PROVE  IsToCome(i, j)
      <3>1. Slot(stack[i])' = Slot(stack[i]) \/ (Slot(stack[i])' = Slot(stack[i]) + 1 /\ stack[i].node = n)
        <4>1. CASE stack[i].node = n
          <5>1. Slot(stack[i])' = p + 1 /\ Slot(stack[i]) = p
            BY <1>1, <1>4, <1>6, <4>1 DEF Slot, n, p
          <5> QED BY <4>1, <5>1
        <4> QED BY <1>10, <4>1
      <3>2. CASE Slot(stack[i])' = Slot(stack[i])
        <4>1. stack[i].node = n => Slot(stack[i])' = p + 1 /\ Slot(stack[i]) = p
          BY <1>1, <1>4, <1>6 DEF Slot, n, p
        <4>2. stack[i].node # n
          BY <1>5, <3>2, <4>1
        <4>3. i # L
          BY <1>3, <4>2 DEF n
        <4> QED BY <1>4, <2>1, <3>2, <4>3 DEF IsToCome, L
      <3>3. CASE Slot(stack[i])' = Slot(stack[i]) + 1 /\ stack[i].node = n
        <4>1. Slot(stack[i]) = p
          BY <1>1, <3>3 DEF Slot, n, p
        <4>2. j \in Nat
          BY <1>2, <1>3, <3>3, NodeFacts
        <4>3. j > p
          BY <1>5, <2>1, <3>3, <4>1, <4>2 DEF IsToCome
        <4> QED BY <4>1, <4>3 DEF IsToCome
      <3> QED BY <3>1, <3>2, <3>3
    <2> QED BY <1>2, <1>3, <1>4, <2>1 DEF NotUpdatedYet, ChildOf
  <1>15. SequencesGoOn'
    <2>1. ASSUME NEW m \in Nodes, kind[m] = "Sequence", status[m] = "Running" \/ OnStack(m),
                 NEW j \in 1 .. current'[m] - 1
          PROVE  status[children[m][j]] = "Success"
      <3>1. CASE m # n
        BY <1>2, <1>6, <2>1, <3>1 DEF SequencesGoOn, ChildOf
      <3>2. CASE m = n
        <4>1. j = p \/ j \in 1 .. p - 1
          BY <1>5, <1>6, <3>2
        <4>2. status[c] = "Success"
          BY <1>1, <1>5, <2>1, <3>2 DEF GoesOn, n
        <4>3. j \in 1 .. p - 1 => status[children[m][j]] = "Success"
          BY <1>2, <2>1, <3>2 DEF SequencesGoOn, ChildOf, p
        <4> QED BY <3>2, <4>1, <4>2, <4>3 DEF c
      <3> QED BY <3>1, <3>2
    <2> QED BY <1>4, <1>7, <2>1 DEF SequencesGoOn, ChildOf
  <1>16. RootRunsOne'
    <2>1. status[c] # "Running"
      BY <1>1, <1>5 DEF GoesOn
    <2>2. ASSUME kind[1] \in {"Sequence", "Selector", "ActiveSelector"},
                 NEW j \in DOMAIN children[1], status[children[1][j]] = "Running"
          PROVE  j = current'[1] \/ (kind[1] = "ActiveSelector" /\ j = stack[1].prev)
      <3>1. j = current[1] \/ (kind[1] = "ActiveSelector" /\ j = stack[1].prev)
        BY <1>1, <1>2, <2>2 DEF RootRunsOne, ChildOf
      <3>2. j = current[1] => n # 1
        BY <2>1, <2>2 DEF c, p
      <3>3. 1 \in Nodes
        <4>1. Len(kind) \in Nat /\ Nodes = 1 .. Len(kind)
          BY <1>2, NodeFacts
        <4> QED BY <1>3, <4>1
      <3> QED BY <1>6, <3>1, <3>2, <3>3
    <2> QED BY <1>1, <1>4, <2>2 DEF RootRunsOne, ChildOf
  <1>17. ParallelsEnd'
    BY <1>2, <1>4, <1>7 DEF ParallelsEnd, IsParallel
  <1>18. ScriptsStay'
    <2>1. ASSUME NEW m \in Nodes, kind[m] = "ActiveSelector", status[m] = "Running", ~OnStack(m)
          PROVE  current'[m] \in DOMAIN children[m] /\ kind[children[m][current'[m]]] # "Script"
      BY <1>2, <1>6, <1>8, <2>1 DEF ScriptsStay, ChildOf
    <2>2. ASSUME NEW i \in DOMAIN stack, kind[stack[i].node] = "ActiveSelector",
                 stack[i].prev \in DOMAIN children[stack[i].node],
                 kind[children[stack[i].node][stack[i].prev]] = "Script"
          PROVE  current'[stack[i].node] = stack[i].prev
      <3>1. current[stack[i].node] = stack[i].prev
        BY <1>2, <2>2 DEF ScriptsStay, ChildOf
      <3>2. stack[i].node # n
        <4>1. SUFFICES ASSUME stack[i].node = n PROVE FALSE
          OBVIOUS
        <4>2. kind[c] = "Script" /\ kind[n] = "ActiveSelector"
          BY <2>2, <3>1, <4>1 DEF c, p
        <4>3. status[c] = "Failure"
          BY <1>1, <1>5, <4>2 DEF GoesOn, n
        <4> QED BY <1>2, <1>5, <4>2, <4>3 DEF NodesKept
      <3>3. stack[i].node \in Nodes
        BY <1>3, <1>9
      <3> QED BY <1>6, <3>1, <3>2, <3>3
    <2> QED BY <1>2, <1>4, <1>7, <2>1, <2>2 DEF ScriptsStay, ChildOf, ScriptsCloseOnce
  <1> QED BY <1>11, <1>12, <1>13, <1>14, <1>15, <1>16, <1>17, <1>18 DEF TreeInv
(* A Parallel has counted a child, and goes to the next.                   *)
CountOn(s) ==
  /\ ~Building /\ stack # <<>> /\ IsParallel(Top.node)
  /\ Top.at <= Len(children[Top.node])
  /\ stack' = Append(Front(stack),
                     [Top EXCEPT !.at = @ + 1,
                                 !.successes = IF s = "Success" THEN @ + 1 ELSE @,
                                 !.failures = IF s = "Failure" THEN @ + 1 ELSE @])
  /\ result' = NoResult
  /\ UNCHANGED <<nodeVars, status, current, count, begun, twice, updated, again>>

LEMMA CountOnStack ==
  ASSUME TreeInv, NEW s, CountOn(s)
  PROVE  /\ stack' \in Seq(Frames) /\ stack' # <<>> /\ DOMAIN stack' = DOMAIN stack
         /\ Len(stack') = Len(stack)
         /\ \A i \in DOMAIN stack :
              /\ stack'[i].node = stack[i].node /\ stack'[i].prev = stack[i].prev
              /\ i < Len(stack) => stack'[i] = stack[i]
              /\ i = Len(stack) => stack'[i].at = stack[i].at + 1
  <1> DEFINE L == Len(stack)
             g == [Top EXCEPT !.at = @ + 1,
                              !.successes = IF s = "Success" THEN @ + 1 ELSE @,
                              !.failures = IF s = "Failure" THEN @ + 1 ELSE @]
             F == Front(stack)
  <1>1. /\ stack \in Seq(Frames) /\ stack # <<>> /\ L \in Nat \ {0} /\ DOMAIN stack = 1 .. L
        /\ Top = stack[L] /\ Top \in Frames
    <2>1. stack \in Seq(Frames) /\ stack # <<>>
      BY DEF TreeInv, StackIsPath, CountOn
    <2>2. L \in Nat \ {0} /\ DOMAIN stack = 1 .. L /\ Top = stack[L]
      BY <2>1, TopFacts
    <2> QED BY <2>1, <2>2
  <1>2. g \in Frames /\ g.node = Top.node /\ g.prev = Top.prev /\ g.at = Top.at + 1
    <2> DEFINE a == IF s = "Success" THEN Top.successes + 1 ELSE Top.successes
               b == IF s = "Failure" THEN Top.failures + 1 ELSE Top.failures
    <2>1. a \in Nat /\ b \in Nat
      BY <1>1 DEF Frames
    <2>2. g = [Top EXCEPT !.at = Top.at + 1, !.successes = a, !.failures = b]
      OBVIOUS
    <2> HIDE DEF a, b, g
    <2>3. /\ Top = [node |-> Top.node, prev |-> Top.prev, at |-> Top.at,
                    successes |-> Top.successes, failures |-> Top.failures]
          /\ Top.node \in Nodes /\ Top.prev \in Nat \ {0} /\ Top.at \in Nat
      BY <1>1 DEF Frames
    <2>4. g = [node |-> Top.node, prev |-> Top.prev, at |-> Top.at + 1,
               successes |-> a, failures |-> b]
      BY <2>2, <2>3
    <2>5. g.node = Top.node /\ g.prev = Top.prev /\ g.at = Top.at + 1
      BY <2>4
    <2>6. Top.at + 1 \in Nat
      BY <2>3
    <2> QED BY <2>1, <2>3, <2>4, <2>5, <2>6 DEF Frames
  <1>3. /\ F \in Seq(Frames) /\ Len(F) = L - 1
        /\ \A i \in 1 .. L - 1 : F[i] = stack[i]
    BY <1>1, FrontFacts
  <1>4. stack' = Append(F, g)
    BY DEF CountOn
  <1> HIDE DEF g, F, L
  <1>5. /\ stack' \in Seq(Frames) /\ Len(stack') = Len(F) + 1
        /\ \A i \in 1 .. Len(F) : stack'[i] = F[i]
        /\ stack'[Len(F) + 1] = g
    BY <1>2, <1>3, <1>4, AppendProperties
  <1>6. Len(F) + 1 = L
    BY <1>1, <1>3
  <1>7. /\ Len(stack') = L /\ stack'[L] = g /\ DOMAIN stack' = 1 .. L
        /\ \A i \in 1 .. L - 1 : stack'[i] = stack[i]
    BY <1>1, <1>3, <1>5, <1>6
  <1>8. stack' # <<>>
    BY <1>1, <1>7, EmptySeq
  <1>9. \A i \in 1 .. L : i = L \/ (i \in 1 .. L - 1 /\ i < L)
    BY <1>1
  <1>10. ASSUME NEW i \in 1 .. L
         PROVE  /\ stack'[i].node = stack[i].node /\ stack'[i].prev = stack[i].prev
                /\ i < L => stack'[i] = stack[i]
                /\ i = L => stack'[i].at = stack[i].at + 1
    <2>1. CASE i = L
      BY <1>1, <1>2, <1>7, <2>1
    <2>2. CASE i \in 1 .. L - 1
      BY <1>1, <1>7, <2>2
    <2> QED BY <1>9, <2>1, <2>2
  <1> QED BY <1>1, <1>5, <1>7, <1>8, <1>10 DEF L

LEMMA CountOnKeeps ==
  ASSUME TreeInv, NEW s, CountOn(s)
  PROVE  TreeInv'
  <1> DEFINE L == Len(stack)
             n == Top.node
  <1>1. /\ ~Building /\ stack # <<>> /\ result' = NoResult /\ IsParallel(n)
        /\ Top.at <= Len(children[n])
        /\ kind' = kind /\ children' = children /\ open' = open /\ setup' = setup
        /\ status' = status /\ count' = count /\ current' = current /\ begun' = begun
        /\ twice' = twice /\ updated' = updated /\ again' = again
        /\ Nodes' = Nodes /\ Building' = Building
    BY DEF CountOn, nodeVars, Nodes, Building
  <1>2. /\ TreeShape /\ NodesKept /\ StackIsPath /\ NotUpdatedYet /\ SequencesGoOn /\ RootRunsOne
        /\ ParallelsEnd /\ ScriptsStay
    BY DEF TreeInv
  <1>3. /\ L \in Nat \ {0} /\ DOMAIN stack = 1 .. L /\ Top = stack[L] /\ n \in Nodes
        /\ Top.at \in 1 .. Len(children[n]) + 1 /\ Len(children[n]) \in Nat
    BY <1>1, <1>2, TopFacts, NodeFacts
  <1>4. /\ stack' \in Seq(Frames) /\ stack' # <<>> /\ DOMAIN stack' = DOMAIN stack
        /\ Len(stack') = Len(stack)
        /\ \A i \in DOMAIN stack :
              /\ stack'[i].node = stack[i].node /\ stack'[i].prev = stack[i].prev
              /\ i < Len(stack) => stack'[i] = stack[i]
              /\ i = Len(stack) => stack'[i].at = stack[i].at + 1
    BY CountOnStack
  <1>5. \A m : OnStack(m)' <=> OnStack(m)
    BY <1>4 DEF OnStack
  <1> HIDE DEF L, n
  <1>6. ASSUME NEW i \in DOMAIN stack, i < L
        PROVE  Slot(stack[i])' = Slot(stack[i]) /\ (Calls(stack[i])' <=> Calls(stack[i]))
    <2>1. stack'[i] = stack[i]
      BY <1>4, <1>6 DEF L
    <2> QED BY <1>1, <2>1 DEF Slot, Calls, IsParallel
  <1>7. ASSUME NEW i \in DOMAIN stack, i = L
        PROVE  Slot(stack[i]) = Top.at /\ Slot(stack[i])' = Top.at + 1
    <2>1. stack[i].node = n /\ kind[n] \notin Lists /\ stack'[i].node = n /\ stack'[i].at = Top.at + 1
          /\ stack[i].at = Top.at
      BY <1>1, <1>3, <1>4, <1>7 DEF IsParallel, Lists, n, L
    <2> QED BY <1>1, <2>1 DEF Slot, IsParallel
  <1>8. TreeShape' /\ NodesKept'
    BY <1>1, <1>2 DEF TreeShape, NodesKept
  <1>9. StackIsPath'
    <2>1. \A i \in DOMAIN stack' : stack'[i].node \in begun' \cap updated'
      BY <1>1, <1>2, <1>4 DEF StackIsPath
    <2>2. ASSUME NEW i \in DOMAIN stack'
          PROVE  stack'[i].at \in 1 .. Len(children'[stack'[i].node]) + 1
      <3>1. i \in DOMAIN stack /\ stack'[i].node = stack[i].node
        BY <1>4
      <3>2. CASE i = L
        <4>1. stack'[i].at = Top.at + 1 /\ stack[i].node = n
          BY <1>3, <1>4, <3>1, <3>2 DEF n, L
        <4> QED BY <1>1, <1>3, <3>1, <4>1
      <3>3. CASE i # L
        <4>1. stack'[i] = stack[i]
          BY <1>3, <1>4, <3>1, <3>3 DEF L
        <4> QED BY <1>1, <1>2, <3>1, <4>1 DEF StackIsPath
      <3> QED BY <3>2, <3>3
    <2>3. \A i, j \in DOMAIN stack' : i < j => stack'[i].node < stack'[j].node
      BY <1>2, <1>4 DEF StackIsPath
    <2>4. ASSUME NEW i \in DOMAIN stack', i < Len(stack')
          PROVE  Calls(stack[i])' /\ stack'[i + 1].node = ChildOf(stack[i].node, Slot(stack[i]))'
      <3>1. i \in DOMAIN stack /\ i < L /\ i + 1 \in DOMAIN stack
        BY <1>3, <1>4, <2>4 DEF L
      <3>2. Calls(stack[i]) /\ stack[i + 1].node = ChildOf(stack[i].node, Slot(stack[i]))
        BY <1>2, <3>1 DEF StackIsPath, L
      <3> QED BY <1>1, <1>4, <1>6, <3>1, <3>2 DEF ChildOf
    <2>5. stack'[1].node = 1
      <3>1. 1 \in DOMAIN stack
        BY <1>3
      <3> QED BY <1>1, <1>2, <1>4, <3>1 DEF StackIsPath
    <2>6. stack' \in Seq(Frames)'
      BY <1>1, <1>4 DEF Frames
    <2> QED BY <1>1, <2>1, <2>2, <2>3, <2>4, <2>5, <2>6 DEF StackIsPath
  <1>10. NotUpdatedYet'
    <2>1. ASSUME NEW i \in DOMAIN stack, NEW j \in DOMAIN children[stack[i].node], IsToCome(i, j)'
          PROVE  IsToCome(i, j)
      <3>1. CASE i = L
        <4>1. j \in Nat /\ Top.at \in Nat
          BY <1>2, <1>3, <3>1, NodeFacts DEF n
        <4>2. j > Top.at
          BY <1>7, <2>1, <3>1, <4>1 DEF IsToCome
        <4> QED BY <1>7, <3>1, <4>2 DEF IsToCome
      <3>2. CASE i # L
        <4>1. i < L
          BY <1>3, <3>2
        <4> QED BY <1>4, <1>6, <2>1, <3>2, <4>1 DEF IsToCome, L
      <3> QED BY <3>1, <3>2
    <2>2. ASSUME NEW i \in DOMAIN stack, \A k \in 1 .. i : kind[stack'[k].node] # "Repeat"
          PROVE  \A k \in 1 .. i : kind[stack[k].node] # "Repeat"
      <3>1. \A k \in 1 .. i : k \in DOMAIN stack
        BY <1>3
      <3> QED BY <1>4, <2>2, <3>1
    <2>3. ASSUME NEW i \in DOMAIN stack, \A k \in 1 .. i : kind[stack'[k].node] # "Repeat",
                 NEW j \in DOMAIN children[stack[i].node], IsToCome(i, j)'
          PROVE  children[stack[i].node][j] \notin updated
      BY <1>2, <2>1, <2>2, <2>3 DEF NotUpdatedYet, ChildOf
    <2>4. \A i \in DOMAIN stack' :
             (\A k \in 1 .. i : kind'[stack'[k].node] # "Repeat") =>
                \A j \in DOMAIN children'[stack'[i].node] :
                   IsToCome(i, j)' => children'[stack'[i].node][j] \notin updated'
      BY <1>1, <1>4, <2>3
    <2> QED BY <1>1, <1>2, <1>4, <2>4 DEF NotUpdatedYet, ChildOf
  <1>11. SequencesGoOn' /\ ParallelsEnd'
    BY <1>1, <1>2, <1>5 DEF SequencesGoOn, ParallelsEnd, IsParallel, ChildOf
  <1>12. RootRunsOne'
    <2>1. stack'[1].prev = stack[1].prev
      <3>1. 1 \in DOMAIN stack
        BY <1>3
      <3> QED BY <1>4, <3>1
    <2> QED BY <1>1, <1>2, <1>4, <2>1 DEF RootRunsOne, ChildOf
  <1>13. ScriptsStay'
    BY <1>1, <1>2, <1>4, <1>5 DEF ScriptsStay, ChildOf, ScriptsCloseOnce
  <1> QED BY <1>8, <1>9, <1>10, <1>11, <1>12, <1>13 DEF TreeInv

LEMMA RepeatAgainKeeps ==
  ASSUME TreeInv, RepeatAgain
  PROVE  TreeInv'
  <1> DEFINE L == Len(stack)
             n == Top.node
             c == children[n][1]
  <1>1. /\ ~Building /\ stack # <<>> /\ result \in Repeated /\ result # NoResult /\ result' = NoResult
        /\ kind[n] = "Repeat" /\ count[n] + 1 # RepeatCount
        /\ count' = [count EXCEPT ![n] = count[n] + 1]
        /\ status' = [status EXCEPT ![c] = "Invalid"]
        /\ kind' = kind /\ children' = children /\ open' = open /\ setup' = setup
        /\ current' = current /\ stack' = stack /\ begun' = begun
        /\ twice' = twice /\ updated' = updated /\ again' = again
        /\ Nodes' = Nodes /\ Building' = Building
    BY DEF RepeatAgain, Back, ChildOf, Counted, nodeVars, Nodes, Building
  <1>2. /\ TreeShape /\ NodesKept /\ StackIsPath /\ NotUpdatedYet /\ SequencesGoOn /\ RootRunsOne
        /\ ParallelsEnd /\ ScriptsStay
    BY DEF TreeInv
  <1>3. /\ L \in Nat \ {0} /\ DOMAIN stack = 1 .. L /\ Top = stack[L] /\ n \in Nodes
    BY <1>1, TopFacts
  <1>4. c \in Nodes /\ status[c] \in Repeated /\ 1 \in DOMAIN children[n]
    <2>1. Slot(Top) = 1
      BY <1>1 DEF Slot, Lists, IsParallel
    <2> QED BY <1>1, <2>1, BackFacts DEF ChildOf
  <1> HIDE DEF n, c, L
  <1>5. /\ status' \in [Nodes -> Statuses] /\ status'[c] = "Invalid"
        /\ \A m \in Nodes \ {c} : status'[m] = status[m]
    BY <1>1, <1>2, <1>4 DEF NodesKept, Statuses, Results
  <1>6. /\ count' \in [Nodes -> Nat] /\ \A m \in Nodes : RepeatCount # 0 => count'[m] < RepeatCount
    <2>1. count \in [Nodes -> Nat] /\ RepeatCount \in Nat
          /\ \A m \in Nodes : RepeatCount # 0 => count[m] < RepeatCount
      BY <1>2, BehaviorTreeAssumption DEF NodesKept
    <2>2. count[n] + 1 \in Nat /\ (RepeatCount # 0 => count[n] + 1 < RepeatCount)
      BY <1>1, <1>3, <2>1
    <2> QED BY <1>1, <1>3, <2>1, <2>2
  <1>7. \A m \in Nodes : status'[m] = "Running" <=> status[m] = "Running"
    BY <1>4, <1>5 DEF Repeated
  <1>8. ASSUME NEW m \in Nodes, NEW j \in DOMAIN children[m], kind[m] # "Repeat"
        PROVE  children[m][j] \in Nodes /\ status'[children[m][j]] = status[children[m][j]]
    <2>1. children[m][j] \in Nodes
      BY <1>2, NodeFacts
    <2>2. children[m][j] # c
      BY <1>1, <1>2, <1>3, <1>4, <1>8, ParentFacts DEF c, n
    <2> QED BY <1>5, <2>1, <2>2
  <1>9. TreeShape'
    BY <1>1, <1>2 DEF TreeShape
  <1>10. NodesKept'
    <2>1. \A m \in Nodes : kind[m] = "Script" => status'[m] \in {"Invalid", "Success", "Aborted"}
      BY <1>2, <1>5 DEF NodesKept
    <2> QED BY <1>1, <1>2, <1>5, <1>6, <1>7, <2>1 DEF NodesKept
  <1>11. StackIsPath'
    <2>1. \A i \in DOMAIN stack : Slot(stack[i])' = Slot(stack[i])
      BY <1>1 DEF Slot, IsParallel
    <2>2. \A i \in DOMAIN stack : i < Len(stack) => Calls(stack[i])'
      BY <1>1, <1>2, <2>1 DEF StackIsPath, Calls
    <2> QED BY <1>1, <1>2, <2>1, <2>2 DEF StackIsPath, ChildOf, Frames
  <1>12. NotUpdatedYet'
    <2>1. \A i \in DOMAIN stack : Slot(stack[i])' = Slot(stack[i])
      BY <1>1 DEF Slot, IsParallel
    <2>2. ASSUME NEW i \in DOMAIN stack, \A k \in 1 .. i : kind[stack[k].node] # "Repeat",
                 NEW j \in DOMAIN children[stack[i].node], IsToCome(i, j)'
          PROVE  children[stack[i].node][j] \notin updated
      <3>1. i # L
        <4>1. L \in 1 .. L /\ stack[L].node = n
          BY <1>3 DEF n
        <4> QED BY <1>1, <2>2, <4>1
      <3>2. IsToCome(i, j)
        BY <1>1, <2>1, <2>2, <3>1 DEF IsToCome, L
      <3> QED BY <1>2, <2>2, <3>2 DEF NotUpdatedYet, ChildOf
    <2> QED BY <1>1, <1>2, <2>2 DEF NotUpdatedYet, ChildOf
  <1>13. SequencesGoOn'
    <2>1. ASSUME NEW m \in Nodes, kind[m] = "Sequence", status'[m] = "Running" \/ OnStack(m),
                 NEW j \in 1 .. current[m] - 1
          PROVE  status'[children[m][j]] = "Success"
      <3>1. j \in DOMAIN children[m]
        <4>1. current[m] \in 1 .. Len(children[m]) + 1 /\ Len(children[m]) \in Nat
              /\ DOMAIN children[m] = 1 .. Len(children[m])
          BY <1>2, NodeFacts DEF NodesKept
        <4> QED BY <4>1
      <3>2. status[children[m][j]] = "Success"
        BY <1>2, <1>7, <2>1 DEF SequencesGoOn, ChildOf
      <3> QED BY <1>8, <2>1, <3>1, <3>2
    <2>2. \A m : OnStack(m)' <=> OnStack(m)
      BY <1>1 DEF OnStack
    <2> QED BY <1>1, <2>1, <2>2 DEF SequencesGoOn, ChildOf
  <1>14. RootRunsOne'
    <2>1. 1 \in Nodes
      <3>1. Len(kind) \in Nat /\ Nodes = 1 .. Len(kind)
        BY <1>2, NodeFacts
      <3> QED BY <1>3, <3>1
    <2>2. \A j \in DOMAIN children[1] : children[1][j] \in Nodes
      BY <1>2, <2>1, NodeFacts
    <2>3. \A j \in DOMAIN children[1] : status'[children[1][j]] = "Running" => status[children[1][j]] = "Running"
      BY <1>7, <2>2
    <2> QED BY <1>1, <1>2, <2>3 DEF RootRunsOne, ChildOf
  <1>15. ParallelsEnd'
    <2>1. ASSUME NEW m \in Nodes, NEW x \in ToSet(children[m])
          PROVE  x \in Nodes
      BY <1>2, NodeFacts DEF ToSet
    <2>2. \A m : OnStack(m)' <=> OnStack(m)
      BY <1>1 DEF OnStack
    <2> QED BY <1>1, <1>2, <1>7, <2>1, <2>2 DEF ParallelsEnd, IsParallel
  <1>16. ScriptsStay'
    <2>1. \A m : OnStack(m)' <=> OnStack(m)
      BY <1>1 DEF OnStack
    <2> QED BY <1>1, <1>2, <1>7, <2>1 DEF ScriptsStay, ChildOf, ScriptsCloseOnce
  <1> QED BY <1>9, <1>10, <1>11, <1>12, <1>13, <1>14, <1>15, <1>16 DEF TreeInv
LEMMA ReturnsKeep ==
  ASSUME TreeInv, NEW r, CanReturn(Top.node, r), kind[Top.node] # "ActiveSelector",
         Return(Top.node, r)
  PROVE  TreeInv'
  <1>1. Overtaken = {}
    BY DEF Overtaken
  <1>2. ReturnAfter(Top.node, r, Overtaken)
    BY <1>1 DEF Return
  <1> QED BY <1>2, ReturnKeeps

LEMMA TreeStep ==
  ASSUME TreeInv, TickRoot \/ Step
  PROVE  TreeInv'
  <1> DEFINE n == Top.node
  <1>1. TreeShape /\ NodesKept /\ StackIsPath
    BY DEF TreeInv
  <1>2. stack # <<>> => /\ n \in Nodes /\ Len(children[n]) \in Nat
                        /\ DOMAIN children[n] = 1 .. Len(children[n])
                        /\ current[n] \in 1 .. Len(children[n]) + 1
                        /\ Top.at \in 1 .. Len(children[n]) + 1
    BY <1>1, TopFacts, NodeFacts DEF NodesKept
  <1>3. ASSUME NEW c, IsCalled(c), ~Building, Call(c, stack) PROVE TreeInv'
    BY <1>3, CallKeeps
  <1>4. ASSUME NEW r, CanReturn(n, r), kind[n] # "ActiveSelector", Return(n, r) PROVE TreeInv'
    BY <1>4, ReturnsKeep
  <1>5. ASSUME NEW r, CanReturn(n, r), ReturnAfter(n, r, Overtaken) PROVE TreeInv'
    BY <1>5, ReturnKeeps
  <1> HIDE DEF n
  <1>6. CASE TickRoot
    <2>1. IsCalled(1) /\ ~Building /\ Call(1, stack)
      BY <1>6 DEF TickRoot, IsCalled
    <2> QED BY <1>3, <2>1
  <1>7. CASE UpdateLeaf
    <2>1. /\ ~Building /\ stack # <<>> /\ kind[n] \in AllLeaves \ {"Repeat"}
      BY <1>7 DEF UpdateLeaf, Ready, n
    <2>2. PICK r \in LeafResults(kind[n]) : Return(n, r)
      BY <1>7 DEF UpdateLeaf, n
    <2>3. r \in Results /\ (kind[n] = "Script" => r = "Success")
      <3>5. setup.results \subseteq Results
        BY <1>1, BehaviorTreeAssumption DEF TreeShape, Results
      <3>1. CASE kind[n] = "Action"
        BY <2>2, <3>1, <3>5 DEF LeafResults
      <3>2. CASE kind[n] = "Condition"
        BY <2>2, <3>2, <3>5 DEF LeafResults
      <3>3. CASE kind[n] = "Not"
        <4>1. LeafResults("Not") = {Inverted(x) : x \in setup.results}
          BY DEF LeafResults
        <4>2. \A x \in Results : Inverted(x) \in Results
          BY DEF Inverted, Results
        <4> QED BY <2>2, <3>3, <3>5, <4>1, <4>2
      <3>4. CASE kind[n] = "Script"
        BY <2>2, <3>4 DEF LeafResults, ScriptResults, Results
      <3> QED BY <2>1, <3>1, <3>2, <3>3, <3>4 DEF AllLeaves
    <2>4. CanReturn(n, r) /\ kind[n] # "ActiveSelector"
      BY <2>1, <2>3 DEF CanReturn, AllLeaves, Lists, n
    <2> QED BY <1>4, <2>2, <2>4
  <1>8. CASE RunChild
    <2>1. /\ ~Building /\ stack # <<>> /\ result = NoResult /\ kind[n] \in Lists
          /\ current[n] <= Len(children[n]) /\ Call(ChildOf(n, current[n]), stack)
      BY <1>8 DEF RunChild, Ready, n
    <2>2. Slot(Top) = current[n] /\ current[n] \in DOMAIN children[n]
      BY <1>2, <2>1 DEF Slot, n
    <2>3. IsCalled(ChildOf(n, current[n]))
      BY <2>1, <2>2, KindFacts DEF IsCalled, Calls, n
    <2> QED BY <1>3, <2>1, <2>3
  <1>9. CASE NextChild
    BY <1>9, NextChildKeeps
  <1>10. CASE StopAtChild
    <2>1. /\ ~Building /\ stack # <<>> /\ result # NoResult /\ kind[n] \in Lists
          /\ result \in Results
          /\ ReturnAfter(n, result, Overtaken)
      BY <1>10 DEF StopAtChild, Back, n
    <2>2. /\ current[n] \in DOMAIN children[n] /\ status[ChildOf(n, current[n])] = result
      BY <2>1, BackFacts DEF Slot, n
    <2>3. CanReturn(n, result)
      BY <2>1, <2>2 DEF CanReturn, Results, Lists, n
    <2> QED BY <1>5, <2>1, <2>3
  <1>11. CASE NoChildLeft
    <2>1. /\ ~Building /\ stack # <<>> /\ kind[n] \in Lists
          /\ current[n] > Len(children[n])
          /\ ReturnAfter(n, GoesOn(kind[n]), Overtaken)
      BY <1>11 DEF NoChildLeft, Ready, n
    <2>2. current[n] \notin DOMAIN children[n]
      BY <1>2, <2>1
    <2>3. GoesOn(kind[n]) \in {"Success", "Failure"}
      BY DEF GoesOn
    <2>4. CanReturn(n, GoesOn(kind[n]))
      BY <2>1, <2>2, <2>3 DEF CanReturn, Results, Lists, n
    <2> QED BY <1>5, <2>1, <2>4
  <1>12. CASE RunParallelChild
    <2>1. /\ ~Building /\ stack # <<>> /\ result = NoResult /\ IsParallel(n)
          /\ Top.at <= Len(children[n]) /\ Call(ChildOf(n, Top.at), stack)
      BY <1>12 DEF RunParallelChild, Ready, n
    <2>2. Slot(Top) = Top.at /\ Top.at \in DOMAIN children[n]
      <3>1. kind[n] \notin Lists
        BY <2>1, KindFacts
      <3> QED BY <1>2, <2>1, <3>1 DEF Slot, n
    <2>3. IsCalled(ChildOf(n, Top.at))
      BY <2>1, <2>2, KindFacts DEF IsCalled, Calls, n
    <2> QED BY <1>3, <2>1, <2>3
  <1>13. CASE CountResult
    <2> DEFINE s == status[ChildOf(n, Top.at)]
    <2>1. /\ ~Building /\ stack # <<>> /\ IsParallel(n) /\ Top.at <= Len(children[n])
      BY <1>13 DEF CountResult, n
    <2>2. kind[n] \notin Lists /\ kind[n] \notin AllLeaves /\ kind[n] # "ActiveSelector"
      BY <2>1 DEF IsParallel, Lists, AllLeaves
    <2>3. CASE Decides(n, s)
      <3>1. Return(n, s)
        BY <1>13, <2>3 DEF CountResult, n
      <3>2. s \in Results
        BY <2>3 DEF Decides, Results
      <3>3. CanReturn(n, s)
        BY <2>1, <2>2, <3>2 DEF CanReturn, AllLeaves, n
      <3> HIDE DEF s
      <3> QED BY <1>4, <2>2, <3>1, <3>3
    <2>4. CASE ~Decides(n, s)
      <3>1. CountOn(s)
        BY <1>13, <2>1, <2>4 DEF CountResult, CountOn, n
      <3> QED BY <3>1, CountOnKeeps
    <2> QED BY <2>3, <2>4
  <1>14. CASE EndParallel
    <2> DEFINE r == IF ~OneFails(n) /\ Top.failures = Len(children[n]) THEN "Failure"
                    ELSE IF ~OneSucceeds(n) /\ Top.successes = Len(children[n]) THEN "Success"
                    ELSE "Running"
    <2>1. /\ ~Building /\ stack # <<>> /\ IsParallel(n) /\ Return(n, r)
      BY <1>14 DEF EndParallel, Ready, n
    <2>2. kind[n] \notin Lists /\ kind[n] \notin AllLeaves /\ kind[n] # "ActiveSelector"
      BY <2>1 DEF IsParallel, Lists, AllLeaves
    <2>3. r \in Results
      BY DEF Results
    <2> HIDE DEF r
    <2>4. CanReturn(n, r)
      BY <2>1, <2>2, <2>3 DEF CanReturn, AllLeaves, n
    <2> QED BY <1>4, <2>1, <2>2, <2>4
  <1>15. CASE RunRepeated
    <2>1. /\ ~Building /\ stack # <<>> /\ result = NoResult /\ kind[n] = "Repeat"
          /\ Call(ChildOf(n, 1), stack)
      BY <1>15 DEF RunRepeated, Ready, n
    <2>2. Slot(Top) = 1 /\ 1 \in DOMAIN children[n]
      <3>1. Len(children[n]) = 1
        BY <1>1, <1>2, <2>1 DEF TreeShape
      <3> QED BY <1>2, <2>1, <3>1 DEF Slot, Lists, IsParallel, n
    <2>3. IsCalled(ChildOf(n, 1))
      BY <2>1, <2>2 DEF IsCalled, Calls, n
    <2> QED BY <1>3, <2>1, <2>3
  <1>16. CASE StopRepeating
    <2>1. PICK r \in Results \ {"Running"} :
             ~Building /\ stack # <<>> /\ kind[n] = "Repeat" /\ Return(n, r)
      BY <1>16 DEF StopRepeating, Back, Results, n
    <2>2. CanReturn(n, r) /\ kind[n] # "ActiveSelector"
      BY <2>1 DEF CanReturn, Results, Lists, n
    <2> QED BY <1>4, <2>1, <2>2
  <1>17. CASE RepeatAgain
    BY <1>17, RepeatAgainKeeps
  <1> QED BY <1>6, <1>7, <1>8, <1>9, <1>10, <1>11, <1>12, <1>13, <1>14, <1>15, <1>16, <1>17
          DEF Step
(* What the builder adds to, while nothing runs.                           *)
Fit(kinds, kids, N, K) ==
  /\ kids \in [1 .. N + K -> Seq(1 .. N + K)]
  /\ \A n \in 1 .. N + K : \A i \in DOMAIN kids[n] : kids[n][i] > n
  /\ \A k \in 1 .. K : kinds[k] = "Repeat" => Len(kids[N + k]) = 1
  /\ \A m, n \in 1 .. N + K : \A i \in DOMAIN kids[m], j \in DOMAIN kids[n] :
        kids[m][i] = kids[n][j] => m = n /\ i = j
  /\ \A n \in Nodes : Len(kids[n]) >= Len(children[n])
  /\ \A n \in Nodes : kind[n] = "Repeat" => kids[n] = children[n]

Opened(N, K) ==
  Building' => /\ open' \in Seq(1 .. N + K)
               /\ \A i \in DOMAIN open' : kind'[open'[i]] \in AllComposites

LEMMA GrowKeeps ==
  ASSUME TreeInv, Building, NEW K \in Nat, NEW kinds \in [1 .. K -> AllComposites \cup AllLeaves],
         NEW kids, Grow(kinds, kids), NEW N \in Nat, N = Len(kind), N + K # 0,
         Fit(kinds, kids, N, K), Opened(N, K)
  PROVE  TreeInv'
  <1>1. /\ TreeShape /\ NodesKept /\ StackIsPath /\ NotUpdatedYet /\ Nodes = 1 .. N
    BY NodeFacts DEF TreeInv
  <1>2. /\ stack = <<>> /\ begun = {} /\ updated = {} /\ again = {} /\ result = NoResult
        /\ \A n \in Nodes : status[n] = "Invalid"
    BY <1>1 DEF NodesKept, NotUpdatedYet, StackIsPath
  <1>3. /\ setup' = setup /\ stack' = <<>> /\ result' = NoResult /\ begun' = {} /\ updated' = {}
        /\ again' = {} /\ twice' = twice /\ children' = kids
    BY <1>2 DEF Grow
  <1>4. DOMAIN kinds = 1 .. K
    OBVIOUS
  <1>5. kind' = kind \o kinds
    BY DEF Grow
  <1>6. /\ kind \in Seq(AllComposites \cup AllLeaves) /\ kinds \in Seq(AllComposites \cup AllLeaves)
        /\ Len(kinds) = K
    BY <1>1 DEF TreeShape
  <1>7. /\ kind' \in Seq(AllComposites \cup AllLeaves) /\ Len(kind') = N + K
        /\ \A i \in 1 .. N : kind'[i] = kind[i]
        /\ \A i \in 1 .. K : kind'[N + i] = kinds[i]
    <2> DEFINE T == AllComposites \cup AllLeaves
    <2>1. kind \in Seq(T) /\ kinds \in Seq(T)
      BY <1>6
    <2> HIDE DEF T
    <2>2. kind' \in Seq(T) /\ Len(kind') = Len(kind) + Len(kinds)
      BY ONLY <1>5, <2>1
    <2>3. \A i \in 1 .. Len(kind) : kind'[i] = kind[i]
      BY ONLY <1>5, <2>1
    <2>4. \A i \in 1 .. Len(kinds) : kind'[Len(kind) + i] = kinds[i]
      BY ONLY <1>5, <2>1
    <2> QED BY <1>6, <2>2, <2>3, <2>4 DEF T
  <1>8. kind' \in [1 .. N + K -> AllComposites \cup AllLeaves] /\ Nodes' = 1 .. N + K
    BY <1>7 DEF Nodes
  <1>9. /\ status \in [1 .. N -> Statuses] /\ current \in [1 .. N -> Nat]
        /\ count \in [1 .. N -> Nat] /\ "Invalid" \in Statuses
    BY <1>1 DEF NodesKept, Statuses, Results
  <1>10. /\ status' \in [1 .. N + K -> Statuses]
         /\ \A i \in 1 .. N : status'[i] = status[i]
         /\ \A i \in 1 .. K : status'[N + i] = "Invalid"
    <2> DEFINE g == [k \in 1 .. K |-> "Invalid"]
    <2>1. status \in Seq(Statuses) /\ Len(status) = N
      BY <1>9
    <2>2. g \in Seq(Statuses) /\ Len(g) = K /\ \A k \in 1 .. K : g[k] = "Invalid"
      BY <1>9
    <2>3. status' = status \o g
      BY <1>4 DEF Grow
    <2> HIDE DEF g
    <2>4. status' \in Seq(Statuses) /\ Len(status') = N + K
      <3>1. status' \in Seq(Statuses)
        BY ONLY <2>1, <2>2, <2>3
      <3>2. Len(status') = Len(status) + Len(g)
        BY ONLY <2>1, <2>2, <2>3
      <3> QED BY <2>1, <2>2, <3>1, <3>2
    <2>5. status' \in [1 .. N + K -> Statuses]
      BY <2>4
    <2>6. \A i \in 1 .. N : status'[i] = status[i]
      BY <2>1, <2>2, <2>3
    <2>7. \A i \in 1 .. K : status'[N + i] = "Invalid"
      BY <2>1, <2>2, <2>3
    <2> QED BY <2>5, <2>6, <2>7
  <1>11. /\ current' \in [1 .. N + K -> Nat]
         /\ \A i \in 1 .. N : current'[i] = current[i]
         /\ \A i \in 1 .. K : current'[N + i] = 1
    <2> DEFINE g == [k \in 1 .. K |-> 1]
    <2>1. current \in Seq(Nat) /\ Len(current) = N
      BY <1>9
    <2>2. g \in Seq(Nat) /\ Len(g) = K /\ \A k \in 1 .. K : g[k] = 1
      BY <1>9
    <2>3. current' = current \o g
      BY <1>4 DEF Grow
    <2> HIDE DEF g
    <2>4. current' \in Seq(Nat) /\ Len(current') = N + K
      BY <2>1, <2>2, <2>3
    <2>5. current' \in [1 .. N + K -> Nat]
      BY <2>4
    <2>6. \A i \in 1 .. N : current'[i] = current[i]
      BY <2>1, <2>2, <2>3
    <2>7. \A i \in 1 .. K : current'[N + i] = 1
      BY <2>1, <2>2, <2>3
    <2> QED BY <2>5, <2>6, <2>7
  <1>12. /\ count' \in [1 .. N + K -> Nat]
         /\ \A i \in 1 .. N : count'[i] = count[i]
         /\ \A i \in 1 .. K : count'[N + i] = 0
    <2> DEFINE g == [k \in 1 .. K |-> 0]
    <2>1. count \in Seq(Nat) /\ Len(count) = N
      BY <1>9
    <2>2. g \in Seq(Nat) /\ Len(g) = K /\ \A k \in 1 .. K : g[k] = 0
      BY <1>9
    <2>3. count' = count \o g
      BY <1>4 DEF Grow
    <2> HIDE DEF g
    <2>4. count' \in Seq(Nat) /\ Len(count') = N + K
      BY <2>1, <2>2, <2>3
    <2>5. count' \in [1 .. N + K -> Nat]
      BY <2>4
    <2>6. \A i \in 1 .. N : count'[i] = count[i]
      BY <2>1, <2>2, <2>3
    <2>7. \A i \in 1 .. K : count'[N + i] = 0
      BY <2>1, <2>2, <2>3
    <2> QED BY <2>5, <2>6, <2>7
  <1>13. \A i \in 1 .. N + K : status'[i] = "Invalid"
    <2>1. ASSUME NEW i \in 1 .. N + K PROVE i \in 1 .. N \/ (\E k \in 1 .. K : i = N + k)
      <3>1. i \in 1 .. N \/ (i - N \in 1 .. K /\ i = N + (i - N))
        OBVIOUS
      <3> QED BY <3>1
    <2>2. \A i \in 1 .. N : status'[i] = "Invalid"
      BY <1>1, <1>2, <1>10
    <2> QED BY <1>10, <2>1, <2>2
  <1>21. /\ TreeShape /\ NodesKept /\ ScriptsCloseOnce /\ Nodes = 1 .. N
    BY NodeFacts DEF TreeInv, ScriptsStay
  <1>22. /\ kind' \in [1 .. N + K -> AllComposites \cup AllLeaves] /\ Nodes' = 1 .. N + K
         /\ status' \in [1 .. N + K -> Statuses] /\ current' \in [1 .. N + K -> Nat]
         /\ count' \in [1 .. N + K -> Nat]
         /\ \A i \in 1 .. N + K : status'[i] = "Invalid"
         /\ setup' = setup /\ stack' = <<>> /\ result' = NoResult /\ begun' = {} /\ updated' = {}
         /\ again' = {} /\ twice' = twice /\ children' = kids
    BY <1>3, <1>8, <1>10, <1>11, <1>12, <1>13
  <1>23. /\ \A i \in 1 .. N : kind'[i] = kind[i]
         /\ \A i \in 1 .. N : current'[i] = current[i]
         /\ \A i \in 1 .. N : count'[i] = count[i]
         /\ \A i \in 1 .. K : kind'[N + i] = kinds[i]
         /\ \A i \in 1 .. K : current'[N + i] = 1
         /\ \A i \in 1 .. K : count'[N + i] = 0
    BY <1>7, <1>11, <1>12
  <1>24. /\ kids \in [1 .. N + K -> Seq(1 .. N + K)]
         /\ \A n \in 1 .. N + K : \A i \in DOMAIN kids[n] : kids[n][i] > n
         /\ \A m, n \in 1 .. N + K : \A i \in DOMAIN kids[m], j \in DOMAIN kids[n] :
               kids[m][i] = kids[n][j] => m = n /\ i = j
    BY DEF Fit
  <1>25. ASSUME NEW n \in 1 .. N + K
        PROVE  /\ current'[n] \in 1 .. Len(kids[n]) + 1
               /\ (RepeatCount # 0 => count'[n] < RepeatCount)
               /\ (kind'[n] = "Repeat" => Len(kids[n]) = 1)
    <2>1. Len(kids[n]) \in Nat /\ RepeatCount \in Nat
      BY <1>24, BehaviorTreeAssumption
    <2>2. CASE n \in 1 .. N
      <3>1. Len(kids[n]) >= Len(children[n]) /\ Len(children[n]) \in Nat
        BY <1>21, <2>2, NodeFacts DEF Fit
      <3>2. /\ current[n] \in 1 .. Len(children[n]) + 1
            /\ (RepeatCount # 0 => count[n] < RepeatCount)
        BY <1>21, <2>2 DEF NodesKept
      <3>3. kind[n] = "Repeat" => Len(kids[n]) = 1
        BY <1>21, <2>2 DEF TreeShape, Fit
      <3> QED BY SMTT(30), <1>23, <2>1, <2>2, <3>1, <3>2, <3>3
    <2>3. CASE \E k \in 1 .. K : n = N + k
      <3>1. PICK k \in 1 .. K : n = N + k
        BY <2>3
      <3>2. kinds[k] = "Repeat" => Len(kids[N + k]) = 1
        BY DEF Fit
      <3>3. kind'[N + k] = kinds[k] /\ current'[N + k] = 1 /\ count'[N + k] = 0
        BY <1>23
      <3> QED BY <2>1, <3>1, <3>2, <3>3
    <2>4. n \in 1 .. N \/ (n - N \in 1 .. K /\ n = N + (n - N))
      OBVIOUS
    <2> QED BY <2>2, <2>3, <2>4
  <1>26. kind' \in Seq(AllComposites \cup AllLeaves) /\ Len(kind') = N + K
    BY <1>7
  <1>27. kind' # <<>>
    BY <1>26, EmptySeq
  <1>28. TreeShape'
    <2>1. Building' => /\ open' \in Seq(Nodes')
                       /\ \A i \in DOMAIN open' : kind'[open'[i]] \in AllComposites
      BY <1>22 DEF Opened
    <2>2. setup' \in Setups
      BY <1>21, <1>22 DEF TreeShape
    <2>3. children' \in [Nodes' -> Seq(Nodes')]
      BY <1>22, <1>24
    <2>4. \A n \in Nodes' : /\ \A i \in DOMAIN children'[n] : children'[n][i] > n
                            /\ kind'[n] = "Repeat" => Len(children'[n]) = 1
      BY <1>22, <1>24, <1>25
    <2>5. \A m, n \in Nodes' : \A i \in DOMAIN children'[m], j \in DOMAIN children'[n] :
              children'[m][i] = children'[n][j] => m = n /\ i = j
      BY <1>22, <1>24
    <2> QED BY <1>26, <1>27, <2>1, <2>2, <2>3, <2>4, <2>5 DEF TreeShape
  <1>29. NodesKept'
    <2>1. twice' \subseteq Nodes'
      BY <1>21, <1>22 DEF NodesKept
    <2>2. \A n \in Nodes' : /\ current'[n] \in 1 .. Len(children'[n]) + 1
                            /\ RepeatCount # 0 => count'[n] < RepeatCount
                            /\ status'[n] = "Invalid"
      BY <1>22, <1>25
    <2>3. status' \in [Nodes' -> Statuses'] /\ current' \in [Nodes' -> Nat] /\ count' \in [Nodes' -> Nat]
      BY <1>22 DEF Statuses, Results
    <2>4. stack' = <<>> /\ begun' = {} /\ updated' = {}
      BY <1>22
    <2> QED BY ONLY <2>1, <2>2, <2>3, <2>4 DEF NodesKept
  <1>30. DOMAIN stack' = {} /\ stack' \in Seq(Frames)' /\ stack' = <<>>
    <2>1. stack' = <<>>
      BY <1>22
    <2>2. <<>> \in Seq(Nat) /\ Len(<<>>) = 0 /\ <<>> \in Seq(Frames)'
      BY EmptySeq
    <2>3. DOMAIN <<>> = {}
      BY <2>2
    <2> QED BY <2>1, <2>2, <2>3
  <1>31. StackIsPath'
    <2>1. result' = NoResult
      BY <1>22
    <2> QED BY ONLY <2>1, <1>30 DEF StackIsPath
  <1>32. NotUpdatedYet'
    <2>1. updated' = {} /\ again' = {}
      BY <1>22
    <2> QED BY ONLY <2>1, <1>30 DEF NotUpdatedYet
  <1>33. \A m : ~OnStack(m)'
    BY <1>30 DEF OnStack
  <1>34. \A m \in Nodes' : status'[m] # "Running"
    BY <1>22
  <1>35. SequencesGoOn'
    BY ONLY <1>33, <1>34 DEF SequencesGoOn
  <1>36. \A m \in Nodes' : \A i \in DOMAIN children'[m] : children'[m][i] \in Nodes'
    <2>1. ASSUME NEW m \in 1 .. N + K, NEW i \in DOMAIN kids[m] PROVE kids[m][i] \in 1 .. N + K
      <3>1. kids[m] \in Seq(1 .. N + K)
        BY ONLY <1>24
      <3> QED BY ONLY <2>1, <3>1
    <2> QED BY ONLY <1>22, <2>1
  <1>37. ParallelsEnd'
    BY ONLY <1>34, <1>36 DEF ParallelsEnd, ToSet
  <1>38. RootRunsOne'
    <2>1. 1 \in Nodes'
      BY <1>22
    <2> QED BY ONLY <1>34, <1>36, <2>1 DEF RootRunsOne, ChildOf
  <1>39. ScriptsStay'
    <2>1. \A x \in twice : x \in Nodes /\ kind[x] # "Script"
      BY <1>21 DEF NodesKept, ScriptsCloseOnce
    <2>2. \A x \in twice' : kind'[x] # "Script"
      BY <1>21, <1>22, <1>23, <2>1
    <2> QED BY ONLY <1>30, <1>34, <2>2 DEF ScriptsStay, ScriptsCloseOnce
  <1> QED BY <1>28, <1>29, <1>31, <1>32, <1>35, <1>37, <1>38, <1>39 DEF TreeInv
(* The children once the composite that is open has adopted N + 1.         *)
Adopted(kids, N) ==
  /\ kids \in [1 .. N -> Seq(1 .. N + 1)]
  /\ \A n \in 1 .. N : \A i \in DOMAIN kids[n] : kids[n][i] > n
  /\ \A m, n \in 1 .. N : \A i \in DOMAIN kids[m], j \in DOMAIN kids[n] :
        kids[m][i] = kids[n][j] => m = n /\ i = j
  /\ \A n \in Nodes : Len(kids[n]) >= Len(children[n])
  /\ \A n \in Nodes : kind[n] = "Repeat" => kids[n] = children[n]

LEMMA AdoptFacts ==
  ASSUME TreeShape, Building, NEW N \in Nat, N = Len(kind), open = <<>> => kind = <<>>
  PROVE  Adopted(Adopt(children, N + 1), N)
  <1> DEFINE A == Adopt(children, N + 1)
  <1>1. /\ Nodes = 1 .. N /\ children \in [Nodes -> Seq(Nodes)]
        /\ \A n \in Nodes : /\ Len(children[n]) \in Nat
                            /\ DOMAIN children[n] = 1 .. Len(children[n])
                            /\ \A i \in DOMAIN children[n] :
                                  children[n][i] \in Nodes /\ children[n][i] > n
    BY NodeFacts DEF TreeShape
  <1>2. ASSUME NEW n \in Nodes PROVE children[n] \in Seq(1 .. N + 1)
    <2>1. \A i \in 1 .. Len(children[n]) : children[n][i] \in 1 .. N + 1
      BY <1>1
    <2> QED BY <1>1, <2>1
  <1>3. CASE open = <<>>
    <2>1. N = 0
      BY <1>3, EmptySeq
    <2>2. A = children /\ Nodes = {}
      BY <1>1, <1>3, <2>1 DEF Adopt
    <2> QED BY <1>1, <1>2, <2>2 DEF Adopted
  <1>4. CASE open # <<>>
    <2> DEFINE o == Last(open)
    <2>1. o \in Nodes /\ kind[o] \in AllComposites /\ kind[o] # "Repeat"
      <3>1. open \in Seq(Nodes) /\ \A i \in DOMAIN open : kind[open[i]] \in AllComposites
        BY DEF TreeShape
      <3>2. Len(open) \in DOMAIN open /\ o = open[Len(open)]
        <4>1. Len(open) \in Nat /\ Len(open) # 0
          BY <1>4, <3>1, EmptySeq
        <4> QED BY <3>1, <4>1 DEF Last
      <3>3. "Repeat" \notin AllComposites
        BY DEF AllComposites
      <3> HIDE DEF o
      <3>4. kind[o] \in AllComposites
        BY <3>1, <3>2
      <3> QED BY <3>1, <3>2, <3>3, <3>4
    <2>2. A = [children EXCEPT ![o] = Append(children[o], N + 1)]
      BY <1>4 DEF Adopt
    <2> HIDE DEF A, o
    <2> DEFINE K == Append(children[o], N + 1)
    <2>3. /\ K \in Seq(1 .. N + 1) /\ Len(K) = Len(children[o]) + 1
          /\ \A i \in 1 .. Len(children[o]) : K[i] = children[o][i]
          /\ K[Len(children[o]) + 1] = N + 1
      <3>1. children[o] \in Seq(1 .. N + 1) /\ N + 1 \in 1 .. N + 1
        BY <1>2, <2>1
      <3> QED BY <3>1, AppendProperties
    <2> HIDE DEF K
    <2>4. A[o] = K /\ \A n \in Nodes \ {o} : A[n] = children[n]
      BY <1>1, <2>1, <2>2 DEF K
    <2>5. A \in [1 .. N -> Seq(1 .. N + 1)]
      <3>1. \A n \in Nodes : A[n] \in Seq(1 .. N + 1)
        BY <1>2, <2>3, <2>4
      <3>2. A = [n \in Nodes |-> A[n]]
        BY <1>1, <2>2 DEF K
      <3> QED BY <1>1, <3>1, <3>2
    <2>6. ASSUME NEW n \in Nodes, NEW i \in DOMAIN A[n]
          PROVE  \/ i \in DOMAIN children[n] /\ A[n][i] = children[n][i]
                 \/ n = o /\ i = Len(children[o]) + 1 /\ A[n][i] = N + 1
      <3>1. CASE n # o
        BY <2>4, <2>6, <3>1
      <3>2. CASE n = o
        <4>1. i \in 1 .. Len(children[o]) + 1
          BY <2>3, <2>4, <2>6, <3>2
        <4>2. i = Len(children[o]) + 1 \/ i \in 1 .. Len(children[o])
          BY <1>1, <2>1, <4>1
        <4> QED BY <1>1, <2>1, <2>3, <2>4, <3>2, <4>2
      <3> QED BY <3>1, <3>2
    <2>7. ASSUME NEW n \in Nodes, NEW i \in DOMAIN A[n] PROVE A[n][i] > n
      <3>1. i \in DOMAIN children[n] => children[n][i] > n
        BY <1>1
      <3>2. N + 1 > n
        BY <1>1
      <3> QED BY <2>6, <3>1, <3>2
    <2>8. ASSUME NEW m \in Nodes, NEW n \in Nodes, NEW i \in DOMAIN A[m], NEW j \in DOMAIN A[n],
                 A[m][i] = A[n][j]
          PROVE  m = n /\ i = j
      <3>1. \A x \in Nodes : \A y \in DOMAIN children[x] : children[x][y] # N + 1
        BY <1>1
      <3>2. CASE i \in DOMAIN children[m] /\ A[m][i] = children[m][i]
        <4>1. j \in DOMAIN children[n] /\ A[n][j] = children[n][j]
          BY <2>6, <2>8, <3>1, <3>2
        <4>2. children[m][i] = children[n][j]
          BY <2>8, <3>2, <4>1
        <4> QED BY <3>2, <4>1, <4>2 DEF TreeShape
      <3>3. CASE m = o /\ i = Len(children[o]) + 1 /\ A[m][i] = N + 1
        <4>1. n = o /\ j = Len(children[o]) + 1
          BY <2>6, <2>8, <3>1, <3>3
        <4> QED BY <3>3, <4>1
      <3> QED BY <2>6, <3>2, <3>3
    <2>9. ASSUME NEW n \in Nodes
          PROVE  Len(A[n]) >= Len(children[n]) /\ (kind[n] = "Repeat" => A[n] = children[n])
      <3>1. CASE n # o
        BY <1>1, <2>4, <3>1
      <3>2. CASE n = o
        <4>1. Len(A[n]) = Len(children[n]) + 1
          BY <2>3, <2>4, <3>2
        <4> QED BY <1>1, <2>1, <3>2, <4>1
      <3> QED BY <3>1, <3>2
    <2>10. Adopted(A, N)
      BY <1>1, <2>5, <2>7, <2>8, <2>9 DEF Adopted
    <2> QED BY <2>10 DEF A
  <1> QED BY <1>3, <1>4

(* A node without children is added, and one with one child.               *)
LEMMA FitOne ==
  ASSUME TreeShape, NEW N \in Nat, N = Len(kind), NEW A, Adopted(A, N), NEW k, k # "Repeat"
  PROVE  Fit(<<k>>, Append(A, <<>>), N, 1)
  <1> DEFINE B == Append(A, <<>>)
  <1>1. /\ A \in [1 .. N -> Seq(1 .. N + 1)] /\ Nodes = 1 .. N
    BY NodeFacts DEF Adopted
  <1>2. A \in Seq(Seq(1 .. N + 1)) /\ Len(A) = N /\ <<>> \in Seq(1 .. N + 1)
    BY <1>1, EmptySeq
  <1>3. /\ B \in Seq(Seq(1 .. N + 1)) /\ Len(B) = N + 1
        /\ \A i \in 1 .. N : B[i] = A[i]
        /\ B[N + 1] = <<>>
    <2>1. /\ B \in Seq(Seq(1 .. N + 1)) /\ Len(B) = Len(A) + 1
          /\ \A i \in 1 .. Len(A) : B[i] = A[i]
          /\ B[Len(A) + 1] = <<>>
      BY <1>2, AppendProperties
    <2> QED BY <1>2, <2>1
  <1> HIDE DEF B
  <1>4. B \in [1 .. N + 1 -> Seq(1 .. N + 1)] /\ DOMAIN B[N + 1] = {}
    <2>1. B \in [1 .. N + 1 -> Seq(1 .. N + 1)]
      BY <1>3
    <2>2. <<>> \in Seq(Nat) /\ Len(<<>>) = 0
      BY EmptySeq
    <2>3. DOMAIN <<>> = {}
      BY <2>2
    <2> QED BY <1>3, <2>1, <2>3
  <1>5. \A n \in 1 .. N + 1 : n \in 1 .. N \/ n = N + 1
    OBVIOUS
  <1>6. ASSUME NEW n \in 1 .. N + 1, NEW i \in DOMAIN B[n]
        PROVE  n \in 1 .. N /\ B[n] = A[n]
    BY <1>3, <1>4, <1>5
  <1>7. \A n \in 1 .. N + 1 : \A i \in DOMAIN B[n] : B[n][i] > n
    BY <1>6 DEF Adopted
  <1>8. \A m, n \in 1 .. N + 1 : \A i \in DOMAIN B[m], j \in DOMAIN B[n] :
          B[m][i] = B[n][j] => m = n /\ i = j
    <2>1. \A m, n \in 1 .. N : \A i \in DOMAIN A[m], j \in DOMAIN A[n] :
            A[m][i] = A[n][j] => m = n /\ i = j
      BY DEF Adopted
    <2> QED BY <1>6, <2>1
  <1>9. /\ \A n \in Nodes : Len(B[n]) >= Len(children[n])
        /\ \A n \in Nodes : kind[n] = "Repeat" => B[n] = children[n]
    BY <1>1, <1>3 DEF Adopted
  <1>10. \A i \in 1 .. 1 : <<k>>[i] # "Repeat"
    OBVIOUS
  <1>11. Fit(<<k>>, B, N, 1)
    BY <1>4, <1>7, <1>8, <1>9, <1>10 DEF Fit
  <1> QED BY <1>11 DEF B

LEMMA FitTwo ==
  ASSUME TreeShape, NEW N \in Nat, N = Len(kind), NEW A, Adopted(A, N),
         NEW c \in AllLeaves \ {"Repeat"}
  PROVE  Fit(<<"Repeat", c>>, A \o <<<<N + 2>>, <<>>>>, N, 2)
  <1> DEFINE T == Seq(1 .. N + 2)
             D == <<<<N + 2>>, <<>>>>
             B == A \o D
  <1>1. /\ A \in [1 .. N -> Seq(1 .. N + 1)] /\ Nodes = 1 .. N
    BY NodeFacts DEF Adopted
  <1>2. A \in Seq(T) /\ Len(A) = N
    <2>1. \A n \in 1 .. N : A[n] \in Seq(1 .. N + 1)
      BY <1>1
    <2>2. \A n \in 1 .. N : A[n] \in T
      <3>1. ASSUME NEW n \in 1 .. N PROVE A[n] \in T
        <4>1. A[n] \in Seq(1 .. N + 1)
          BY <2>1
        <4>2. \A i \in 1 .. Len(A[n]) : A[n][i] \in 1 .. N + 2
          BY <4>1
        <4> QED BY <4>1, <4>2
      <3> QED BY <3>1
    <2> QED BY <1>1, <2>2
  <1>3. D \in Seq(T) /\ Len(D) = 2 /\ D[1] = <<N + 2>> /\ D[2] = <<>>
    <2>1. <<N + 2>> \in T /\ <<>> \in T
      BY EmptySeq
    <2> HIDE DEF T
    <2> QED BY <2>1
  <1>4. Len(D[1]) = 1 /\ DOMAIN D[1] = {1} /\ D[1][1] = N + 2 /\ DOMAIN D[2] = {}
    <2>1. <<>> \in Seq(Nat) /\ Len(<<>>) = 0
      BY EmptySeq
    <2>2. DOMAIN <<>> = {}
      BY <2>1
    <2>3. Len(<<N + 2>>) = 1 /\ DOMAIN <<N + 2>> = {1} /\ <<N + 2>>[1] = N + 2
      OBVIOUS
    <2> QED BY <1>3, <2>2, <2>3
  <1> HIDE DEF D
  <1>5. /\ B \in Seq(T) /\ Len(B) = N + 2
        /\ \A i \in 1 .. N : B[i] = A[i]
        /\ B[N + 1] = D[1] /\ B[N + 2] = D[2]
    <2> HIDE DEF T
    <2>1. A \in Seq(T) /\ D \in Seq(T)
      BY <1>2, <1>3
    <2>2. B \in Seq(T) /\ Len(B) = Len(A) + Len(D)
      BY ONLY <2>1
    <2>3. \A i \in 1 .. Len(A) : B[i] = A[i]
      BY ONLY <2>1
    <2>4. \A i \in 1 .. Len(D) : B[Len(A) + i] = D[i]
      BY ONLY <2>1
    <2>5. 1 \in 1 .. Len(D) /\ 2 \in 1 .. Len(D)
      BY <1>3
    <2> HIDE DEF B
    <2> QED BY <1>2, <1>3, <2>2, <2>3, <2>4, <2>5
  <1>6. B \in [1 .. N + 2 -> Seq(1 .. N + 2)]
    <2> HIDE DEF B
    <2> QED BY <1>5
  <1> HIDE DEF B, T
  <1>7. \A n \in 1 .. N + 2 : n \in 1 .. N \/ n = N + 1 \/ n = N + 2
    OBVIOUS
  <1>8. ASSUME NEW n \in 1 .. N + 2, NEW i \in DOMAIN B[n]
        PROVE  \/ n \in 1 .. N /\ B[n] = A[n] /\ i \in DOMAIN A[n] /\ B[n][i] \in 1 .. N + 1
               \/ n = N + 1 /\ i = 1 /\ B[n][i] = N + 2
    <2>1. CASE n \in 1 .. N
      <3>1. B[n] = A[n] /\ A[n] \in Seq(1 .. N + 1) /\ i \in DOMAIN A[n]
        BY <1>1, <1>5, <1>8, <2>1
      <3>2. A[n][i] \in 1 .. N + 1
        BY <3>1
      <3> QED BY <2>1, <3>1, <3>2
    <2>2. CASE n = N + 1
      BY <1>4, <1>5, <1>8, <2>2
    <2>3. CASE n = N + 2
      BY <1>4, <1>5, <1>8, <2>3
    <2> QED BY <1>7, <2>1, <2>2, <2>3
  <1>9. \A n \in 1 .. N + 2 : \A i \in DOMAIN B[n] : B[n][i] > n
    <2>1. \A n \in 1 .. N : \A i \in DOMAIN A[n] : A[n][i] > n
      BY DEF Adopted
    <2> QED BY <1>8, <2>1
  <1>10. ASSUME NEW m \in 1 .. N + 2, NEW n \in 1 .. N + 2, NEW i \in DOMAIN B[m],
                NEW j \in DOMAIN B[n], B[m][i] = B[n][j]
         PROVE  m = n /\ i = j
    <2>1. \A x, y \in 1 .. N : \A a \in DOMAIN A[x], b \in DOMAIN A[y] :
            A[x][a] = A[y][b] => x = y /\ a = b
      BY DEF Adopted
    <2>2. N + 2 \notin 1 .. N + 1
      OBVIOUS
    <2> QED BY <1>8, <1>10, <2>1, <2>2
  <1>11. /\ \A n \in Nodes : Len(B[n]) >= Len(children[n])
         /\ \A n \in Nodes : kind[n] = "Repeat" => B[n] = children[n]
    BY <1>1, <1>5 DEF Adopted
  <1>12. \A k \in 1 .. 2 : <<"Repeat", c>>[k] = "Repeat" => k = 1
    OBVIOUS
  <1>13. \A k \in 1 .. 2 : <<"Repeat", c>>[k] = "Repeat" => Len(B[N + k]) = 1
    BY <1>4, <1>5, <1>12
  <1>14. Fit(<<"Repeat", c>>, B, N, 2)
    BY <1>6, <1>9, <1>10, <1>11, <1>13 DEF Fit
  <1> QED BY <1>14 DEF B, D
LEMMA TreeBuilds ==
  ASSUME TreeInv, Build
  PROVE  TreeInv'
  <1> DEFINE N == Len(kind)
             A == Adopt(children, N + 1)
  <1>1. TreeShape /\ NodesKept /\ N \in Nat /\ Nodes = 1 .. N
    BY NodeFacts DEF TreeInv
  <1>2. setup.composites \subseteq AllComposites /\ setup.leaves \subseteq AllLeaves
    BY <1>1, BehaviorTreeAssumption DEF TreeShape
  <1> HIDE DEF N, A
  <1>3. ASSUME NEW k \in setup.composites, Open(k)
        PROVE  TreeInv'
    <2>1. /\ Building /\ (open = <<>> => kind = <<>>) /\ Grow(<<k>>, Append(A, <<>>))
          /\ open' = Append(open, N + 1)
      BY <1>3 DEF Open, A, N
    <2>2. k \in AllComposites /\ k # "Repeat" /\ <<k>> \in [1 .. 1 -> AllComposites \cup AllLeaves]
      <3>1. k \in AllComposites
        BY <1>2, <1>3
      <3>2. k # "Repeat"
        BY <3>1 DEF AllComposites
      <3>3. <<k>> = [i \in 1 .. 1 |-> k]
        OBVIOUS
      <3> QED BY <3>1, <3>2, <3>3
    <2>3. Adopted(A, N)
      BY <1>1, <2>1, AdoptFacts DEF A, N
    <2>4. Fit(<<k>>, Append(A, <<>>), N, 1)
      BY <1>1, <2>2, <2>3, FitOne DEF N
    <2>5. Opened(N, 1)
      <3>1. open \in Seq(1 .. N) /\ \A i \in DOMAIN open : kind[open[i]] \in AllComposites
        BY <1>1, <2>1 DEF TreeShape
      <3>2. open \in Seq(1 .. N + 1) /\ N + 1 \in 1 .. N + 1 /\ Len(open) \in Nat
            /\ \A i \in 1 .. Len(open) : open[i] \in 1 .. N
        <4> DEFINE T == 1 .. N
        <4>1. \A i \in 1 .. Len(open) : open[i] \in 1 .. N
          <5>1. open \in Seq(T)
            BY <3>1
          <5> HIDE DEF T
          <5>2. \A i \in 1 .. Len(open) : open[i] \in T
            BY ONLY <5>1
          <5> QED BY <5>2 DEF T
        <4>2. \A i \in 1 .. Len(open) : open[i] \in 1 .. N + 1
          BY <1>1, <4>1
        <4> QED BY <1>1, <3>1, <4>1, <4>2
      <3>3. /\ open' \in Seq(1 .. N + 1) /\ Len(open') = Len(open) + 1
            /\ \A i \in 1 .. Len(open) : open'[i] = open[i]
            /\ open'[Len(open) + 1] = N + 1
        BY <2>1, <3>2, AppendProperties
      <3>4. kind' = kind \o <<k>>
        BY <2>1 DEF Grow
      <3>5. /\ \A i \in 1 .. N : kind'[i] = kind[i]
            /\ kind'[N + 1] = k
        <4> DEFINE T == AllComposites \cup AllLeaves
        <4>1. kind \in Seq(T) /\ k \in T
          BY <1>1, <2>2 DEF TreeShape
        <4> HIDE DEF T
        <4>2. <<k>> \in Seq(T) /\ Len(<<k>>) = 1 /\ <<k>>[1] = k
          BY <4>1
        <4>3. \A i \in 1 .. Len(kind) : (kind \o <<k>>)[i] = kind[i]
          BY ONLY <4>1, <4>2
        <4>4. (kind \o <<k>>)[Len(kind) + 1] = k
          BY ONLY <4>1, <4>2
        <4> QED BY <3>4, <4>3, <4>4 DEF N
      <3>6. ASSUME NEW i \in DOMAIN open' PROVE kind'[open'[i]] \in AllComposites
        <4>1. i \in 1 .. Len(open) \/ i = Len(open) + 1
          BY <3>2, <3>3
        <4>2. CASE i \in 1 .. Len(open)
          <5>1. open'[i] = open[i] /\ open[i] \in 1 .. N /\ kind[open[i]] \in AllComposites
            BY <3>1, <3>2, <3>3, <4>2
          <5> QED BY <3>5, <5>1
        <4>3. CASE i = Len(open) + 1
          BY <2>2, <3>3, <3>5, <4>3
        <4> QED BY <4>1, <4>2, <4>3
      <3> QED BY <3>3, <3>6 DEF Opened
    <2> DEFINE K == 1
               ks == <<k>>
               B == Append(A, <<>>)
    <2>6. K \in Nat /\ ks \in [1 .. K -> AllComposites \cup AllLeaves] /\ N + K # 0
          /\ Grow(ks, B) /\ Fit(ks, B, N, K) /\ Opened(N, K)
      BY <1>1, <2>1, <2>2, <2>4, <2>5
    <2> HIDE DEF K, ks, B
    <2> QED BY <1>1, <2>1, <2>6, GrowKeeps DEF N
  <1>4. ASSUME NEW k \in setup.leaves, AddLeaf(k)
        PROVE  TreeInv'
    <2>1. /\ Building /\ open # <<>> /\ open' = open
          /\ k = "Repeat" =>
                \E c \in setup.repeated : Grow(<<k, c>>, A \o <<<<N + 2>>, <<>>>>)
          /\ k # "Repeat" => Grow(<<k>>, Append(A, <<>>))
      BY <1>1, <1>4 DEF AddLeaf, A, N
    <2>2. k \in AllLeaves /\ Adopted(A, N)
      BY <1>1, <1>2, <1>4, <2>1, AdoptFacts DEF A, N
    <2>3. open \in Seq(1 .. N) /\ \A i \in DOMAIN open : kind[open[i]] \in AllComposites
      BY <1>1, <2>1 DEF TreeShape
    <2>4. ASSUME NEW K \in Nat, NEW ks, ks \in [1 .. K -> AllComposites \cup AllLeaves],
                 kind' = kind \o ks
          PROVE  Opened(N, K)
      <3>1. \A i \in 1 .. Len(open) : open[i] \in 1 .. N /\ open[i] \in 1 .. N + K
        BY <1>1, <2>3
      <3>2. open \in Seq(1 .. N + K)
        <4> DEFINE T == 1 .. N + K
                   S == 1 .. N
        <4>1. open \in Seq(S) /\ \A i \in 1 .. Len(open) : open[i] \in T
          BY <2>3, <3>1
        <4> HIDE DEF T, S
        <4>2. open \in Seq(T)
          BY ONLY <4>1
        <4> QED BY <4>2 DEF T
      <3>3. \A i \in 1 .. N : kind'[i] = kind[i]
        <4> DEFINE T == AllComposites \cup AllLeaves
        <4>1. kind \in Seq(T) /\ K \in Nat /\ ks \in [1 .. K -> T]
          BY <1>1, <2>4 DEF TreeShape
        <4> HIDE DEF T
        <4>2. ks \in Seq(T)
          BY ONLY <4>1
        <4>3. \A i \in 1 .. Len(kind) : (kind \o ks)[i] = kind[i]
          BY ONLY <4>1, <4>2
        <4> QED BY <2>4, <4>3 DEF N
      <3>4. \A i \in DOMAIN open : kind'[open[i]] \in AllComposites
        BY <2>3, <3>1, <3>3
      <3> QED BY <2>1, <3>2, <3>4 DEF Opened
    <2>5. CASE k # "Repeat"
      <3> DEFINE K == 1
                 ks == <<k>>
                 B == Append(A, <<>>)
      <3>1. Fit(ks, B, N, K)
        BY <1>1, <2>2, <2>5, FitOne DEF N
      <3>2. ks \in [1 .. K -> AllComposites \cup AllLeaves]
        <4>1. ks = [i \in 1 .. 1 |-> k]
          OBVIOUS
        <4> QED BY <2>2, <4>1
      <3>3. K \in Nat /\ N + K # 0 /\ Grow(ks, B)
        BY <1>1, <2>1, <2>5
      <3> HIDE DEF K, ks, B
      <3>4. kind' = kind \o ks
        BY <3>3 DEF Grow
      <3>5. Opened(N, K)
        BY <2>4, <3>2, <3>3, <3>4
      <3> QED BY <1>1, <2>1, <3>1, <3>2, <3>3, <3>5, GrowKeeps DEF N
    <2>6. CASE k = "Repeat"
      <3>6. PICK c \in setup.repeated : Grow(<<"Repeat", c>>, A \o <<<<N + 2>>, <<>>>>)
        BY <2>1, <2>6
      <3>7. c \in AllLeaves \ {"Repeat"}
        BY <1>1, BehaviorTreeAssumption DEF TreeShape
      <3> DEFINE K == 2
                 ks == <<"Repeat", c>>
                 B == A \o <<<<N + 2>>, <<>>>>
      <3>1. Fit(ks, B, N, K)
        BY <1>1, <2>2, <3>7, FitTwo DEF N
      <3>2. ks \in [1 .. K -> AllComposites \cup AllLeaves]
        <4>1. ks = [i \in 1 .. 2 |-> IF i = 1 THEN "Repeat" ELSE c]
          OBVIOUS
        <4>2. "Repeat" \in AllLeaves /\ c \in AllLeaves
          BY <3>7 DEF AllLeaves
        <4> QED BY <4>1, <4>2
      <3>3. K \in Nat /\ N + K # 0 /\ Grow(ks, B)
        BY <1>1, <3>6
      <3> HIDE DEF K, ks, B
      <3>4. kind' = kind \o ks
        BY <3>3 DEF Grow
      <3>5. Opened(N, K)
        BY <2>4, <3>2, <3>3, <3>4
      <3> QED BY <1>1, <2>1, <3>1, <3>2, <3>3, <3>5, GrowKeeps DEF N
    <2> QED BY <2>5, <2>6
  <1>5. ASSUME Building, kind # <<>>,
               /\ setup' = setup /\ kind' = kind /\ children' = children /\ status' = status
               /\ current' = current /\ count' = count /\ stack' = stack /\ result' = result
               /\ begun' = begun /\ twice' = twice /\ updated' = updated /\ again' = again,
               Building' => /\ open' \in Seq(Nodes)
                            /\ \A i \in DOMAIN open' : kind[open'[i]] \in AllComposites
        PROVE  TreeInv'
    <2>1. Nodes' = Nodes
      BY <1>5 DEF Nodes
    <2>2. \A n \in Nodes : status[n] # "Running"
      BY <1>1, <1>5 DEF NodesKept
    <2>3. TreeShape'
      BY <1>1, <1>5, <2>1 DEF TreeShape
    <2>4. NodesKept'
      BY <1>1, <1>5, <2>1 DEF NodesKept, Statuses
    <2>5. StackIsPath'
      <3>1. stack = <<>> /\ result = NoResult
        BY <1>1, <1>5 DEF TreeInv, NodesKept, StackIsPath
      <3>2. stack' \in Seq(Frames)' /\ DOMAIN stack' = {} /\ stack' = <<>> /\ result' = NoResult
        <4>1. <<>> \in Seq(Nat) /\ Len(<<>>) = 0 /\ <<>> \in Seq(Frames)'
          BY EmptySeq
        <4>2. DOMAIN <<>> = {}
          BY <4>1
        <4> QED BY <1>5, <3>1, <4>1, <4>2
      <3> QED BY ONLY <3>2 DEF StackIsPath
    <2>6. NotUpdatedYet'
      <3>1. \A i, j : IsToCome(i, j)' <=> IsToCome(i, j)
        BY <1>5 DEF IsToCome, Slot, IsParallel
      <3> QED BY <1>5, <2>1, <3>1 DEF TreeInv, NotUpdatedYet, ChildOf
    <2>7. \A m : OnStack(m)' <=> OnStack(m)
      BY <1>5 DEF OnStack
    <2>8. SequencesGoOn' /\ ParallelsEnd' /\ ScriptsStay'
      BY <1>5, <2>1, <2>7 DEF TreeInv, SequencesGoOn, ParallelsEnd, ScriptsStay, ScriptsCloseOnce,
                              ChildOf, IsParallel
    <2>9. RootRunsOne'
      <3>1. 1 \in Nodes
        BY <1>1, <1>5, EmptySeq DEF TreeShape, N
      <3>2. \A j \in DOMAIN children[1] : children[1][j] \in Nodes
        BY <1>1, <3>1, NodeFacts
      <3> QED BY <1>5, <2>2, <3>2 DEF RootRunsOne, ChildOf
    <2> QED BY <2>3, <2>4, <2>5, <2>6, <2>8, <2>9 DEF TreeInv
  <1>6. CASE Finish
    <2>1. Building /\ open # <<>> /\ open' = Front(open) /\ open \in Seq(Nodes)
          /\ \A i \in DOMAIN open : kind[open[i]] \in AllComposites
      BY <1>1, <1>6 DEF Finish, TreeShape
    <2>2. /\ Len(open) \in Nat \ {0} /\ Front(open) \in Seq(Nodes)
          /\ Len(Front(open)) = Len(open) - 1
          /\ \A i \in 1 .. Len(open) - 1 : Front(open)[i] = open[i]
      BY <2>1, FrontFacts
    <2>3. kind # <<>>
      <3>1. open[1] \in Nodes
        BY <2>1, <2>2
      <3>2. N # 0
        BY <1>1, <3>1
      <3>3. kind = <<>> => Len(kind) = 0
        BY EmptySeq
      <3> QED BY <3>2, <3>3 DEF N
    <2>4. open' \in Seq(Nodes) /\ \A i \in DOMAIN open' : kind[open'[i]] \in AllComposites
      <3>1. open' \in Seq(Nodes) /\ DOMAIN open' = 1 .. Len(open) - 1
        BY <2>1, <2>2
      <3>2. \A i \in 1 .. Len(open) - 1 : i \in DOMAIN open /\ open'[i] = open[i]
        BY <2>1, <2>2
      <3> QED BY <2>1, <3>1, <3>2
    <2>5. /\ setup' = setup /\ kind' = kind /\ children' = children /\ status' = status
          /\ current' = current /\ count' = count /\ stack' = stack /\ result' = result
          /\ begun' = begun /\ twice' = twice /\ updated' = updated /\ again' = again
      BY <1>6 DEF Finish
    <2> QED BY <1>5, <2>1, <2>3, <2>4, <2>5
  <1>7. CASE End
    <2>1. Building /\ kind # <<>> /\ ~Building'
      BY <1>7 DEF End, Building
    <2>2. /\ setup' = setup /\ kind' = kind /\ children' = children /\ status' = status
          /\ current' = current /\ count' = count /\ stack' = stack /\ result' = result
          /\ begun' = begun /\ twice' = twice /\ updated' = updated /\ again' = again
      BY <1>7 DEF End
    <2> QED BY <1>5, <2>1, <2>2
  <1> QED BY <1>3, <1>4, <1>6, <1>7 DEF Build

LEMMA TreeStays == TreeInv /\ UNCHANGED treeVars => TreeInv'
  <1> SUFFICES ASSUME TreeInv, UNCHANGED treeVars PROVE TreeInv'
    OBVIOUS
  <1>1. /\ setup' = setup /\ kind' = kind /\ children' = children /\ open' = open
        /\ status' = status /\ current' = current /\ count' = count /\ stack' = stack
        /\ result' = result /\ begun' = begun /\ twice' = twice /\ updated' = updated
        /\ again' = again
    BY DEF treeVars, nodeVars
  <1>2. TreeShape' /\ NodesKept'
    BY <1>1 DEF TreeInv, TreeShape, NodesKept, Nodes, Building
  <1>3. StackIsPath'
    BY <1>1 DEF TreeInv, StackIsPath, Frames, Nodes, Calls, Slot, IsParallel, ChildOf, Top
  <1>4. NotUpdatedYet' /\ SequencesGoOn'
    BY <1>1 DEF TreeInv, NotUpdatedYet, SequencesGoOn, Nodes, IsToCome, Slot, IsParallel, ChildOf,
                OnStack
  <1>5. RootRunsOne' /\ ParallelsEnd' /\ ScriptsStay'
    BY <1>1 DEF TreeInv, RootRunsOne, ParallelsEnd, ScriptsStay, ScriptsCloseOnce, Nodes, Building,
                IsParallel, ChildOf, OnStack
  <1> QED BY <1>2, <1>3, <1>4, <1>5 DEF TreeInv

LEMMA TreeAsPromised == TreeInv => TreeOK
  <1> SUFFICES ASSUME TreeInv PROVE TreeOK
    OBVIOUS
  <1>1. /\ TreeShape /\ NodesKept /\ StackIsPath /\ NotUpdatedYet /\ SequencesGoOn /\ RootRunsOne
        /\ ParallelsEnd /\ ScriptsStay
    BY DEF TreeInv
  <1>2. TreeTypeOK
    <2>1. ASSUME NEW n \in Nodes
          PROVE  /\ kind[n] \in AllComposites \cup AllLeaves
                 /\ ToSet(children[n]) \subseteq n + 1 .. Len(kind)
                 /\ status[n] \in Statuses
                 /\ count[n] \in Nat /\ (RepeatCount # 0 => count[n] < RepeatCount)
                 /\ current[n] \in 1 .. Len(children[n]) + 1
      <3>1. \A i \in DOMAIN children[n] : children[n][i] \in n + 1 .. Len(kind)
        <4>1. Nodes = 1 .. Len(kind) /\ Len(kind) \in Nat /\ n \in Nat
              /\ \A i \in DOMAIN children[n] : children[n][i] \in Nodes /\ children[n][i] > n
          BY <1>1, NodeFacts
        <4> QED BY <4>1
      <3>2. ToSet(children[n]) \subseteq n + 1 .. Len(kind)
        BY <3>1 DEF ToSet
      <3> QED BY <1>1, <3>2, NodeFacts DEF NodesKept
    <2>2. ASSUME NEW i \in DOMAIN stack
          PROVE  /\ stack[i].node \in Nodes
                 /\ i > 1 => stack[i].node \in ToSet(children[stack[i - 1].node])
      <3>1. stack[i].node \in Nodes /\ Len(stack) \in Nat /\ DOMAIN stack = 1 .. Len(stack)
        BY <1>1, StackFacts
      <3>2. ASSUME i > 1 PROVE stack[i].node \in ToSet(children[stack[i - 1].node])
        <4>1. i - 1 \in DOMAIN stack /\ i - 1 < Len(stack) /\ (i - 1) + 1 = i
          BY <3>1, <3>2
        <4>2. /\ Slot(stack[i - 1]) \in DOMAIN children[stack[i - 1].node]
              /\ stack[(i - 1) + 1].node = children[stack[i - 1].node][Slot(stack[i - 1])]
          BY <1>1, <4>1 DEF StackIsPath, Calls, ChildOf
        <4> QED BY <4>1, <4>2 DEF ToSet
      <3> QED BY <3>1, <3>2
    <2>3. setup \in Setups /\ result \in Statuses \cup {NoResult}
      BY <1>1 DEF TreeShape, StackIsPath
    <2>4. twice \cup begun \cup updated \subseteq Nodes /\ again \subseteq Nodes
      BY <1>1 DEF NodesKept, NotUpdatedYet
    <2> QED BY <2>1, <2>2, <2>3, <2>4 DEF TreeTypeOK
  <1>3. UpdatedOnce /\ ScriptsCloseOnce
    BY <1>1 DEF NotUpdatedYet, UpdatedOnce, ScriptsStay
  <1>4. SequenceInOrder
    <2>1. \A i \in DOMAIN stack : stack[i].node \in Nodes /\ OnStack(stack[i].node)
      BY <1>1, StackFacts DEF OnStack
    <2> QED BY <1>1, <2>1 DEF SequencesGoOn, SequenceInOrder
  <1>5. OneChildRuns
    <2> DEFINE R == {c \in ToSet(children[1]) : status[c] = "Running"}
    <2> SUFFICES ASSUME ~Building, stack = <<>>, kind[1] \in {"Sequence", "Selector", "ActiveSelector"}
                 PROVE  Cardinality(R) <= 1
      BY DEF OneChildRuns
    <2>1. \A c \in R : c = children[1][current[1]]
      BY <1>1 DEF RootRunsOne, ChildOf, ToSet
    <2> HIDE DEF R
    <2> DEFINE x == children[1][current[1]]
    <2>2. R \in SUBSET {x}
      BY <2>1
    <2>3. IsFiniteSet({x}) /\ Cardinality({x}) = 1
      BY FS_Singleton
    <2>4. Cardinality(R) <= Cardinality({x})
      BY <2>2, <2>3, FS_Subset
    <2> QED BY <2>3, <2>4
  <1>6. ParallelLeavesNone
    <2>1. stack = <<>> => \A n : ~OnStack(n)
      BY <1>1, StackFacts DEF OnStack
    <2> QED BY <1>1, <2>1 DEF ParallelsEnd, ParallelLeavesNone
  <1> QED BY <1>2, <1>3, <1>4, <1>5, <1>6 DEF TreeOK

(* Whatever tree is built and however its leaves answer, over any number   *)
(* of ticks: the iterators stay inside their children, no node is updated  *)
(* twice in a tick but by a Repeat, sequences go in order, one child of    *)
(* the root runs, an ended Parallel leaves none running, and no script is  *)
(* closed twice (ai/BehaviorTree.cpp, ai/Behavior.h and the composites).   *)
THEOREM TicksAsComposed == Spec => []TreeOK
  <1>1. Init => TreeInv
    BY TreeInitially DEF Init
  <1>2. TreeInv /\ [Next]_vars => TreeInv'
    <2> SUFFICES ASSUME TreeInv, [Next]_vars PROVE TreeInv'
      OBVIOUS
    <2>1. TreeNext \/ UNCHANGED treeVars
      BY DEF Next, vars
    <2> QED BY <2>1, TreeStays, TreeBuilds, TreeStep DEF TreeNext
  <1> QED BY <1>1, <1>2, TreeAsPromised, PTL DEF Spec
=============================================================================
