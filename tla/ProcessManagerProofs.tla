------------------------- MODULE ProcessManagerProofs -------------------------
(***************************************************************************)
(* Proofs about ProcessManager: UpdateProcesses visits every process that  *)
(* was in the list when it began, each process ends once, and the counts   *)
(* of the frames add up to the chains that are gone, for any processes,    *)
(* children and delays.                                                    *)
(***************************************************************************)
EXTENDS ProcessManager, ListLemmas, FiniteSetTheorems, SequenceTheorems, TLAPS

-----------------------------------------------------------------------------
(* The list as a visit leaves it.                                          *)

(* A sequence with one, or no, element after another. *)
LEMMA PlaceFacts ==
  ASSUME NEW s \in Seq(Processes), NEW p \in Processes \cup {NoProcess}
  PROVE  /\ s \o Place(p) \in Seq(Processes)
         /\ p = NoProcess => Len(s \o Place(p)) = Len(s)
         /\ p # NoProcess => Len(s \o Place(p)) = Len(s) + 1
         /\ \A i \in 1 .. Len(s) : (s \o Place(p))[i] = s[i]
         /\ p # NoProcess => (s \o Place(p))[Len(s) + 1] = p
  <1>1. CASE p = NoProcess
    <2>1. s \o Place(p) = s
      BY <1>1, ConcatEmptySeq DEF Place
    <2> QED BY <1>1, <2>1
  <1>2. CASE p # NoProcess
    <2>1. s \o Place(p) = Append(s, p)
      BY <1>2, AppendIsConcat DEF Place
    <2> QED BY <1>2, <2>1, AppendProperties
  <1> QED BY <1>1, <1>2

(* The list after a visit: the others stay in order, this one too unless   *)
(* it is dead, and the new ones follow.                                    *)
LEMMA VisitedList ==
  ASSUME TypeOK, Updating, NEW new \in Processes \cup {NoProcess},
         NEW s \in States, NEW child \in Processes \cup {NoProcess}
  PROVE  LET after == EraseDead(s) \o Place(new) \o Place(child)
             n == Len(EraseDead(s)) IN
         /\ after \in Seq(Processes) /\ n \in Nat
         /\ Dead(s) => n = Len(list) - 1
         /\ ~Dead(s) => n = Len(list)
         /\ new = NoProcess /\ child = NoProcess => Len(after) = n
         /\ new # NoProcess /\ child = NoProcess => Len(after) = n + 1
         /\ new = NoProcess /\ child # NoProcess => Len(after) = n + 1
         /\ new # NoProcess /\ child # NoProcess => Len(after) = n + 2
         /\ \A i \in 1 .. n : after[i] = list[IF Dead(s) /\ i >= next THEN i + 1 ELSE i]
         /\ \A i \in 1 .. Len(after) :
               i > n => \/ after[i] = new /\ new # NoProcess /\ i = n + 1
                        \/ after[i] = child /\ child # NoProcess /\ i = Len(after)
  <1> DEFINE old == list
             rest == EraseDead(s)
             two == rest \o Place(new)
             after == two \o Place(child)
  <1>1. old \in Seq(Processes) /\ next \in 1 .. Len(old) /\ Len(old) \in Nat
    BY DEF TypeOK, Updating, AtEnd
  <1>2. /\ rest \in Seq(Processes) /\ Len(rest) = (IF Dead(s) THEN Len(list) - 1 ELSE Len(list))
        /\ \A i \in 1 .. Len(rest) : rest[i] = list[IF Dead(s) /\ i >= next THEN i + 1 ELSE i]
    <2>1. CASE Dead(s)
      <3> HIDE DEF old
      <3>1. /\ RemoveAt(old, next) \in Seq(Processes) /\ Len(RemoveAt(old, next)) = Len(old) - 1
            /\ \A i \in 1 .. Len(old) - 1 : RemoveAt(old, next)[i] = old[IF i < next THEN i ELSE i + 1]
        BY <1>1, RemoveAtFacts
      <3>2. rest = RemoveAt(old, next)
        BY <2>1 DEF EraseDead, old
      <3>3. \A i \in 1 .. Len(old) - 1 : (i >= next <=> ~(i < next))
        BY <1>1
      <3> QED BY <2>1, <3>1, <3>2, <3>3 DEF old
    <2>2. CASE ~Dead(s)
      BY <1>1, <2>2 DEF EraseDead
    <2> QED BY <2>1, <2>2
  <1>3. Len(rest) \in Nat
    BY <1>2
  <1> HIDE DEF rest
  <1>4. /\ two \in Seq(Processes) /\ Len(two) \in Nat
        /\ new = NoProcess => Len(two) = Len(rest)
        /\ new # NoProcess => Len(two) = Len(rest) + 1
        /\ \A i \in 1 .. Len(rest) : two[i] = rest[i]
        /\ new # NoProcess => two[Len(rest) + 1] = new
    BY <1>2, PlaceFacts
  <1> HIDE DEF two
  <1>5. /\ after \in Seq(Processes) /\ Len(after) \in Nat
        /\ child = NoProcess => Len(after) = Len(two)
        /\ child # NoProcess => Len(after) = Len(two) + 1
        /\ \A i \in 1 .. Len(two) : after[i] = two[i]
        /\ child # NoProcess => after[Len(two) + 1] = child
    BY <1>4, PlaceFacts
  <1> HIDE DEF after
  <1>6. ASSUME NEW i \in 1 .. Len(rest)
        PROVE  i \in 1 .. Len(two) /\ after[i] = rest[i]
    <2>1. Len(two) = Len(rest) \/ Len(two) = Len(rest) + 1
      BY <1>4
    <2>2. i \in 1 .. Len(two)
      BY <1>3, <2>1
    <2> QED BY <1>4, <1>5, <2>2
  <1>7. ASSUME NEW i \in 1 .. Len(after), i > Len(rest)
        PROVE  \/ after[i] = new /\ new # NoProcess /\ i = Len(rest) + 1
               \/ after[i] = child /\ child # NoProcess /\ i = Len(after)
    <2>1. CASE i <= Len(two)
      <3>1. new # NoProcess /\ i = Len(rest) + 1 /\ i \in 1 .. Len(two)
        BY <1>3, <1>4, <1>5, <1>7, <2>1
      <3> QED BY <1>4, <1>5, <3>1
    <2>2. CASE ~(i <= Len(two))
      <3>1. Len(two) \in Nat
        BY <1>4
      <3>2. child # NoProcess
        BY <1>5, <1>7, <2>2, <3>1
      <3>3. Len(after) = Len(two) + 1
        BY <1>5, <3>2
      <3>4. i = Len(two) + 1 /\ i = Len(after)
        BY <2>2, <3>1, <3>3
      <3> QED BY <1>5, <3>2, <3>4
    <2> QED BY <2>1, <2>2
  <1>8. /\ new = NoProcess /\ child = NoProcess => Len(after) = Len(rest)
        /\ new # NoProcess /\ child = NoProcess => Len(after) = Len(rest) + 1
        /\ new = NoProcess /\ child # NoProcess => Len(after) = Len(rest) + 1
        /\ new # NoProcess /\ child # NoProcess => Len(after) = Len(rest) + 2
    BY <1>3, <1>4, <1>5
  <1>9. /\ after \in Seq(Processes) /\ Len(rest) \in Nat
        /\ Dead(s) => Len(rest) = Len(list) - 1
        /\ ~Dead(s) => Len(rest) = Len(list)
    BY <1>2, <1>3, <1>5
  <1>10. \A i \in 1 .. Len(rest) : after[i] = list[IF Dead(s) /\ i >= next THEN i + 1 ELSE i]
    BY <1>2, <1>6
  <1> QED BY <1>7, <1>8, <1>9, <1>10 DEF after, two, rest

-----------------------------------------------------------------------------
(* What one turn of the loop does, by the state s it leaves p in.          *)
Turn(new, p, s) ==
    /\ Updating /\ p = list[next] /\ p \in Processes
    /\ Successor(p, s) \in Processes \cup {NoProcess}
    /\ new = NoProcess \/ (MayAttach(new) /\ new # p)
    /\ state' = [state EXCEPT ![p] = s] /\ delayed' \in [Processes -> Nat]
    /\ list' = EraseDead(s) \o Place(new) \o Place(Successor(p, s))
    /\ next' = Advance(s) /\ delta' = delta
    /\ counts' = Count(p, s, counts) /\ totals' = Count(p, s, totals)
    /\ outcome' = [outcome EXCEPT ![p] = CountAlways(p, s, @)]
    /\ attached' = attached \cup ({new} \ {NoProcess})
    /\ due' = due \ {p}

LEMMA VisitStep ==
  ASSUME TypeOK, NEW new \in Processes \cup {NoProcess}, Visit(new)
  PROVE  \E s \in States : Turn(new, list[next], s)
  <1> DEFINE p == list[next]
  <1>1. Updating /\ p \in Processes
    BY DEF Visit, TypeOK, Updating, AtEnd
  <1>2. PICK s0 \in Initialised(p) : \E s \in Updated(p, s0) :
          /\ new = NoProcess \/ (MayAttach(new) /\ new # p /\ p \notin Delays)
          /\ state' = [state EXCEPT ![p] = s]
          /\ delayed' = IF p \in Delays /\ s0 = "running"
                        THEN [delayed EXCEPT ![p] = Delayed(p)] ELSE delayed
          /\ list' = EraseDead(s) \o Place(new) \o Place(Successor(p, s))
          /\ next' = Advance(s)
          /\ counts' = Count(p, s, counts)
          /\ totals' = Count(p, s, totals)
          /\ outcome' = [outcome EXCEPT ![p] = CountAlways(p, s, @)]
          /\ attached' = attached \cup ({new} \ {NoProcess})
          /\ due' = due \ {p}
    BY DEF Visit
  <1>3. PICK s \in Updated(p, s0) :
          /\ new = NoProcess \/ (MayAttach(new) /\ new # p /\ p \notin Delays)
          /\ state' = [state EXCEPT ![p] = s]
          /\ delayed' = IF p \in Delays /\ s0 = "running"
                        THEN [delayed EXCEPT ![p] = Delayed(p)] ELSE delayed
          /\ list' = EraseDead(s) \o Place(new) \o Place(Successor(p, s))
          /\ next' = Advance(s)
          /\ counts' = Count(p, s, counts)
          /\ totals' = Count(p, s, totals)
          /\ outcome' = [outcome EXCEPT ![p] = CountAlways(p, s, @)]
          /\ attached' = attached \cup ({new} \ {NoProcess})
          /\ due' = due \ {p}
    BY <1>2
  <1>4. s0 \in States /\ s \in States
    <2>1. s0 \in States
      BY <1>1 DEF Initialised, TypeOK, States
    <2> QED BY <2>1 DEF Updated, States
  <1>5. Successor(p, s) \in Processes \cup {NoProcess}
    BY <1>1, ProcessManagerAssumption DEF Successor
  <1>6. delayed' \in [Processes -> Nat]
    <2> HIDE DEF p
    <2>1. /\ delayed \in [Processes -> Nat] /\ delta \in Deltas \cup {0}
          /\ Deltas \subseteq Nat
      BY ProcessManagerAssumption DEF TypeOK
    <2>2. delayed[p] \in Nat /\ delta \in Nat
      BY <1>1, <2>1
    <2>3. Delayed(p) \in Nat
      BY <2>2 DEF Delayed
    <2> QED BY <1>3, <2>1, <2>3
  <1>7. delta' = delta
    BY DEF Visit
  <1> QED BY <1>1, <1>3, <1>4, <1>5, <1>6, <1>7 DEF Turn

LEMMA CountFacts ==
  ASSUME NEW p \in Processes, NEW s \in States, NEW c \in Counts
  PROVE  /\ Count(p, s, c) \in Counts /\ CountAlways(p, s, c) \in Counts
         /\ Dead(s) /\ Successor(p, s) = NoProcess =>
               Count(p, s, c).success + Count(p, s, c).fail = c.success + c.fail + 1
         /\ ~(Dead(s) /\ Successor(p, s) = NoProcess) =>
               Count(p, s, c).success + Count(p, s, c).fail = c.success + c.fail
         /\ s = "succeeded" => CountAlways(p, s, c).success = c.success + 1
         /\ s # "succeeded" => CountAlways(p, s, c).success = c.success
         /\ Dead(s) => CountAlways(p, s, c).success + CountAlways(p, s, c).fail = c.success + c.fail + 1
         /\ ~Dead(s) => CountAlways(p, s, c) = c
         /\ s # "succeeded" => Successor(p, s) = NoProcess
         /\ ~Dead(s) => Successor(p, s) = NoProcess
  <1>1. c.success \in Nat /\ c.fail \in Nat
    BY DEF Counts
  <1>2. CASE s = "succeeded"
    BY <1>1, <1>2 DEF Count, CountAlways, Counts, Dead
  <1>3. CASE s = "failed"
    BY <1>1, <1>3 DEF Count, CountAlways, Counts, Dead, Successor
  <1>4. CASE s \notin {"succeeded", "failed"}
    BY <1>1, <1>4 DEF Count, CountAlways, Counts, Dead, Successor
  <1> QED BY <1>2, <1>3, <1>4

LEMMA TypeNext == TypeOK /\ [Next]_vars => TypeOK'
  <1> SUFFICES ASSUME TypeOK, [Next]_vars PROVE TypeOK'
    OBVIOUS
  <1>1. ASSUME NEW p \in Processes, AttachProcess(p) PROVE TypeOK'
    <2>1. list' \in Seq(Processes) /\ Len(list') = Len(list) + 1
      BY <1>1, AppendProperties DEF TypeOK, AttachProcess
    <2>2. next' \in 0 .. Len(list')
      BY <1>1, <2>1 DEF TypeOK, AttachProcess
    <2> QED BY <1>1, <2>1, <2>2 DEF TypeOK, AttachProcess
  <1>2. ASSUME NEW p \in Processes, NEW s \in States, Steer(p, s) PROVE TypeOK'
    BY <1>2 DEF TypeOK, Steer, observers
  <1>3. ASSUME NEW d \in Deltas, BeginUpdate(d) PROVE TypeOK'
    <2>1. Len(list) \in Nat /\ Len(list) # 0 /\ Range(list) \subseteq Processes
      BY <1>3, EmptySeq, RangeOfSeq DEF TypeOK, BeginUpdate
    <2>2. next' \in 0 .. Len(list') /\ due' \subseteq Processes
      BY <1>3, <2>1 DEF BeginUpdate
    <2>3. counts' \in Counts
      BY <1>3 DEF BeginUpdate, Counts
    <2> QED BY <1>3, <2>2, <2>3 DEF TypeOK, BeginUpdate
  <1>4. ASSUME NEW new \in Processes \cup {NoProcess}, Visit(new) PROVE TypeOK'
    <2>1. PICK s \in States : Turn(new, list[next], s)
      BY <1>4, VisitStep
    <2> DEFINE p == list[next]
               child == Successor(p, s)
               n == Len(EraseDead(s))
    <2>2. p \in Processes /\ child \in Processes \cup {NoProcess} /\ Updating
      BY <2>1 DEF Turn
    <2>3. /\ list' \in Seq(Processes) /\ n \in Nat
          /\ Dead(s) => n = Len(list) - 1
          /\ ~Dead(s) => n = Len(list)
          /\ new = NoProcess /\ child = NoProcess => Len(list') = n
          /\ new # NoProcess /\ child = NoProcess => Len(list') = n + 1
          /\ new = NoProcess /\ child # NoProcess => Len(list') = n + 1
          /\ new # NoProcess /\ child # NoProcess => Len(list') = n + 2
      <3>1. list' = EraseDead(s) \o Place(new) \o Place(child)
        BY <2>1 DEF Turn
      <3> HIDE DEF child
      <3> QED BY <2>2, <3>1, VisitedList
    <2> HIDE DEF child, n
    <2>4. next' \in 0 .. Len(list')
      <3>a. next \in 1 .. Len(list) /\ Len(list) \in Nat
        BY <2>2 DEF TypeOK, Updating, AtEnd
      <3>b. Len(list') \in Nat /\ n <= Len(list')
        BY <2>3
      <3>1. next \in 1 .. Len(list) /\ Len(list) \in Nat /\ Len(list') \in Nat /\ n <= Len(list')
        BY <3>a, <3>b
      <3>2. CASE next = Len(list)
        BY <2>1, <3>1, <3>2 DEF Advance, Turn, AtEnd
      <3>3. CASE next # Len(list) /\ Dead(s)
        <4>1. next' = next
          BY <2>1, <3>3 DEF Advance, Turn
        <4> QED BY <2>3, <3>1, <3>3, <4>1
      <3>4. CASE next # Len(list) /\ ~Dead(s)
        <4>1. next' = next + 1
          BY <2>1, <3>4 DEF Advance, Turn
        <4> QED BY <2>3, <3>1, <3>4, <4>1
      <3> QED BY <3>2, <3>3, <3>4
    <2>5. counts' \in Counts /\ totals' \in Counts /\ outcome' \in [Processes -> Counts]
      <3>1. counts \in Counts /\ totals \in Counts /\ outcome[p] \in Counts
        BY <2>2 DEF TypeOK
      <3>2. /\ Count(p, s, counts) \in Counts /\ Count(p, s, totals) \in Counts
            /\ CountAlways(p, s, outcome[p]) \in Counts
        BY <2>2, <3>1, CountFacts
      <3> QED BY <2>1, <3>2 DEF TypeOK, Turn
    <2> HIDE DEF p
    <2>6. state' \in [Processes -> States] /\ delayed' \in [Processes -> Nat] /\ delta' \in Deltas \cup {0}
      BY <2>1 DEF TypeOK, Turn
    <2>7. attached' \subseteq Processes /\ due' \subseteq Processes
      BY <2>1 DEF TypeOK, Turn
    <2> QED BY <2>3, <2>4, <2>5, <2>6, <2>7 DEF TypeOK
  <1>5. CASE UNCHANGED vars
    BY <1>5 DEF TypeOK, vars, observers
  <1> QED BY <1>1, <1>2, <1>3, <1>4, <1>5 DEF Next, Update

-----------------------------------------------------------------------------
(* UpdateProcesses visits everyone: who is due stays ahead of the iterator.*)
LEMMA DueNext == TypeOK /\ DueInv /\ [Next]_vars => DueInv'
  <1> SUFFICES ASSUME TypeOK, DueInv, [Next]_vars PROVE DueInv'
    OBVIOUS
  <1>0. list \in Seq(Processes) /\ Len(list) \in Nat /\ next \in 0 .. Len(list)
    BY DEF TypeOK
  <1>1. ASSUME NEW p \in Processes, AttachProcess(p) PROVE DueInv'
    BY <1>1 DEF AttachProcess, DueInv, Updating
  <1>2. ASSUME NEW p \in Processes, NEW s \in States, Steer(p, s) PROVE DueInv'
    BY <1>2 DEF Steer, DueInv, Updating, observers
  <1>3. ASSUME NEW d \in Deltas, BeginUpdate(d) PROVE DueInv'
    <2>1. Updating'
      BY <1>3 DEF BeginUpdate, Updating, AtEnd
    <2>2. \A x \in Range(list) : \E i \in 1 .. Len(list) : x = list[i]
      BY <1>0 DEF Range
    <2>3. due' \subseteq {list'[i] : i \in next' .. Len(list')}
      BY <1>3, <2>2 DEF BeginUpdate
    <2> QED BY <2>1, <2>3 DEF DueInv
  <1>4. ASSUME NEW new \in Processes \cup {NoProcess}, Visit(new) PROVE DueInv'
    <2>1. PICK s \in States : Turn(new, list[next], s)
      BY <1>4, VisitStep
    <2>2. /\ Updating /\ next' = Advance(s) /\ due' = due \ {list[next]}
          /\ list' = EraseDead(s) \o Place(new) \o Place(Successor(list[next], s))
          /\ Successor(list[next], s) \in Processes \cup {NoProcess}
      BY <2>1 DEF Turn
    <2>3. next \in 1 .. Len(list) /\ due \subseteq {list[i] : i \in next .. Len(list)}
      <3>1. next # 0
        BY <2>2 DEF Updating, AtEnd
      <3>2. due \subseteq {list[i] : i \in next .. Len(list)}
        BY <2>2 DEF DueInv
      <3> QED BY <1>0, <3>1, <3>2
    <2>4. CASE next = Len(list)
      <3>1. next' = AtEnd
        BY <2>2, <2>4 DEF Advance
      <3>2. due' = {}
        BY <1>0, <2>2, <2>3, <2>4
      <3> QED BY <3>1, <3>2 DEF DueInv, Updating
    <2>5. CASE next # Len(list)
      <3> DEFINE child == Successor(list[next], s)
                 n == Len(EraseDead(s))
      <3>1. list' = EraseDead(s) \o Place(new) \o Place(child) /\ child \in Processes \cup {NoProcess}
        BY <2>2
      <3> HIDE DEF child
      <3>2. /\ n \in Nat
            /\ Dead(s) => n = Len(list) - 1
            /\ ~Dead(s) => n = Len(list)
            /\ n <= Len(list') /\ Len(list') \in Nat
            /\ \A i \in 1 .. n : list'[i] = list[IF Dead(s) /\ i >= next THEN i + 1 ELSE i]
        BY <2>2, <3>1, VisitedList
      <3> HIDE DEF n
      <3>3. Updating' /\ next' = (IF Dead(s) THEN next ELSE next + 1)
        BY <2>2, <2>3, <2>5 DEF Advance, Updating, AtEnd
      <3>4. ASSUME NEW x \in due' PROVE \E j \in next' .. Len(list') : x = list'[j]
        <4>1. PICK i \in next .. Len(list) : x = list[i]
          BY <2>2, <2>3
        <4>2. x # list[next] /\ i # next /\ i \in next + 1 .. Len(list)
          BY <1>0, <2>2, <2>3, <4>1
        <4>3. CASE Dead(s)
          <5>1. i - 1 \in 1 .. n /\ i - 1 >= next /\ i - 1 \in next .. Len(list') /\ (i - 1) + 1 = i
            BY <1>0, <2>3, <3>2, <4>2, <4>3
          <5>2. list'[i - 1] = list[i]
            BY <3>2, <4>3, <5>1
          <5> QED BY <3>3, <4>1, <4>3, <5>1, <5>2
        <4>4. CASE ~Dead(s)
          <5>1. i \in 1 .. n /\ i \in next + 1 .. Len(list')
            BY <1>0, <2>3, <3>2, <4>2, <4>4
          <5>2. list'[i] = list[i]
            BY <3>2, <4>4, <5>1
          <5> QED BY <3>3, <4>1, <4>4, <5>1, <5>2
        <4> QED BY <4>3, <4>4
      <3> QED BY <3>3, <3>4 DEF DueInv
    <2> QED BY <2>4, <2>5
  <1>5. CASE UNCHANGED vars
    BY <1>5 DEF DueInv, Updating, vars, observers
  <1> QED BY <1>1, <1>2, <1>3, <1>4, <1>5 DEF Next, Update

LEMMA TypeInit == Init => TypeOK
  <1> SUFFICES ASSUME Init PROVE TypeOK
    OBVIOUS
  <1>1. list \in Seq(Processes) /\ Len(list) = 0
    BY EmptySeq DEF Init
  <1>2. [success |-> 0, fail |-> 0] \in Counts
    BY DEF Counts
  <1> QED BY <1>1, <1>2 DEF Init, TypeOK, States, AtEnd

(* Between two frames no process of the last one is left unvisited,        *)
(* whatever was erased and appended during it                              *)
(* (ProcessManager::UpdateProcesses, ++it before the erasure).             *)
THEOREM EveryProcessIsVisited == Spec => []EveryoneIsVisited
  <1>1. Init => TypeOK /\ DueInv
    BY TypeInit DEF Init, DueInv, Updating
  <1>2. TypeOK /\ DueInv /\ [Next]_vars => (TypeOK /\ DueInv)'
    BY TypeNext, DueNext
  <1>3. TypeOK /\ DueInv => EveryoneIsVisited
    BY DEF DueInv, EveryoneIsVisited
  <1> QED BY <1>1, <1>2, <1>3, PTL DEF Spec

-----------------------------------------------------------------------------
(* The chains.  What a turn leaves in the list was there and lives on, is  *)
(* the process an override attached, or is the child of one that succeeded.*)
LEMMA TurnLists ==
  ASSUME TypeOK, NEW new \in Processes \cup {NoProcess}, NEW s \in States, Turn(new, list[next], s)
  PROVE  LET child == Successor(list[next], s)
             n == Len(EraseDead(s)) IN
         /\ list' \in Seq(Processes) /\ n \in Nat /\ n <= Len(list') /\ next \in 1 .. Len(list)
         /\ Dead(s) => n = Len(list) - 1
         /\ ~Dead(s) => n = Len(list)
         /\ new = NoProcess /\ child = NoProcess => Len(list') = n
         /\ new # NoProcess /\ child = NoProcess => Len(list') = n + 1
         /\ new = NoProcess /\ child # NoProcess => Len(list') = n + 1
         /\ new # NoProcess /\ child # NoProcess => Len(list') = n + 2
         /\ \A i \in 1 .. n :
               LET k == IF Dead(s) /\ i >= next THEN i + 1 ELSE i IN
               list'[i] = list[k] /\ k \in 1 .. Len(list) /\ (Dead(s) => k # next)
         /\ \A i \in 1 .. Len(list') :
               i > n => \/ list'[i] = new /\ new # NoProcess /\ i = n + 1
                        \/ list'[i] = child /\ child # NoProcess /\ i = Len(list')
  <1> DEFINE child == Successor(list[next], s)
             n == Len(EraseDead(s))
  <1>1. list' = EraseDead(s) \o Place(new) \o Place(child) /\ child \in Processes \cup {NoProcess} /\ Updating
    BY DEF Turn
  <1>2. next \in 1 .. Len(list) /\ Len(list) \in Nat
    <2>1. next # 0
      BY <1>1 DEF Updating, AtEnd
    <2> QED BY <2>1 DEF TypeOK
  <1> HIDE DEF child
  <1>3. /\ list' \in Seq(Processes) /\ n \in Nat
        /\ Dead(s) => n = Len(list) - 1
        /\ ~Dead(s) => n = Len(list)
        /\ new = NoProcess /\ child = NoProcess => Len(list') = n
        /\ new # NoProcess /\ child = NoProcess => Len(list') = n + 1
        /\ new = NoProcess /\ child # NoProcess => Len(list') = n + 1
        /\ new # NoProcess /\ child # NoProcess => Len(list') = n + 2
        /\ \A i \in 1 .. n : list'[i] = list[IF Dead(s) /\ i >= next THEN i + 1 ELSE i]
        /\ \A i \in 1 .. Len(list') :
               i > n => \/ list'[i] = new /\ new # NoProcess /\ i = n + 1
                        \/ list'[i] = child /\ child # NoProcess /\ i = Len(list')
    BY <1>1, VisitedList
  <1> HIDE DEF n
  <1>5. n <= Len(list')
    BY <1>3
  <1>4. ASSUME NEW i \in 1 .. n
        PROVE  LET k == IF Dead(s) /\ i >= next THEN i + 1 ELSE i IN
               list'[i] = list[k] /\ k \in 1 .. Len(list) /\ (Dead(s) => k # next)
    <2>1. CASE Dead(s) /\ i >= next
      <3>1. i + 1 \in 1 .. Len(list) /\ i + 1 # next
        BY <1>2, <1>3, <2>1
      <3> QED BY <1>3, <2>1, <3>1
    <2>2. CASE ~(Dead(s) /\ i >= next)
      <3>1. i \in 1 .. Len(list) /\ (Dead(s) => i # next)
        BY <1>2, <1>3, <2>2
      <3> QED BY <1>3, <2>2, <3>1
    <2> QED BY <2>1, <2>2
  <1> QED BY <1>2, <1>3, <1>4, <1>5 DEF child, n

(* A turn ends the process it leaves dead, and no other.                   *)
LEMMA TurnEnds ==
  ASSUME TypeOK, NEW new \in Processes \cup {NoProcess}, NEW p \in Processes, NEW s \in States,
         Turn(new, p, s)
  PROVE  /\ \A x \in Processes : x # p => outcome'[x] = outcome[x]
         /\ ~Dead(s) => outcome' = outcome
         /\ s = "succeeded" => outcome'[p].success = outcome[p].success + 1
         /\ s # "succeeded" => outcome'[p].success = outcome[p].success
         /\ Dead(s) => outcome'[p].success + outcome'[p].fail = outcome[p].success + outcome[p].fail + 1
         /\ \A x \in Processes : outcome[x].success > 0 => outcome'[x].success > 0
         /\ \A x \in Processes : outcome[x] \in Counts /\ outcome'[x] \in Counts
  <1>1. outcome \in [Processes -> Counts] /\ outcome[p] \in Counts
    BY DEF TypeOK
  <1>2. /\ outcome' = [outcome EXCEPT ![p] = CountAlways(p, s, outcome[p])]
        /\ outcome'[p] = CountAlways(p, s, outcome[p])
        /\ \A x \in Processes : x # p => outcome'[x] = outcome[x]
    BY <1>1 DEF Turn
  <1>3. /\ outcome'[p] \in Counts
        /\ s = "succeeded" => outcome'[p].success = outcome[p].success + 1
        /\ s # "succeeded" => outcome'[p].success = outcome[p].success
        /\ Dead(s) => outcome'[p].success + outcome'[p].fail = outcome[p].success + outcome[p].fail + 1
        /\ ~Dead(s) => outcome'[p] = outcome[p]
    BY <1>1, <1>2, CountFacts
  <1>4. ~Dead(s) => outcome' = outcome
    BY <1>1, <1>2, <1>3
  <1>5. ASSUME NEW x \in Processes, outcome[x].success > 0 PROVE outcome'[x].success > 0
    <2>1. CASE x # p
      BY <1>2, <1>5, <2>1
    <2>2. CASE x = p
      <3>1. outcome[p].success \in Nat
        BY <1>1 DEF Counts
      <3> QED BY <1>3, <1>5, <2>2, <3>1
    <2> QED BY <2>1, <2>2
  <1>6. \A x \in Processes : outcome[x] \in Counts /\ outcome'[x] \in Counts
    BY <1>1, <1>2, <1>3
  <1> QED BY <1>2, <1>3, <1>4, <1>5, <1>6

(* The child of the process under way, and what an override attaches, were *)
(* never in the list and never ended.                                      *)
LEMMA TurnIsNew ==
  ASSUME ChainsInv, NEW new \in Processes \cup {NoProcess}, NEW p \in Processes, NEW s \in States,
         Turn(new, p, s)
  PROVE  LET child == Successor(p, s) IN
         /\ p \in Range(list) /\ ~Ended(p)
         /\ new # NoProcess =>
               new \notin attached /\ ~IsChild(new) /\ new \notin Range(list) /\ ~Ended(new) /\ new # p
         /\ child # NoProcess =>
               /\ child \in Processes /\ Children[p] = child /\ s = "succeeded"
               /\ child \notin Range(list) /\ ~Ended(child) /\ child # p /\ child # new
  <1> DEFINE child == Successor(p, s)
  <1>1. p = list[next] /\ Updating /\ child \in Processes \cup {NoProcess}
        /\ (new = NoProcess \/ (MayAttach(new) /\ new # p))
    BY DEF Turn
  <1>2. next \in DOMAIN list /\ DOMAIN list = 1 .. Len(list)
    <2>1. next # 0
      BY <1>1 DEF Updating, AtEnd
    <2> QED BY <2>1 DEF ChainsInv, TypeOK
  <1>3. p \in Range(list) /\ ~Ended(p)
    BY <1>1, <1>2 DEF ChainsInv, NotEnded, Range
  <1>4. ASSUME new # NoProcess
        PROVE  new \notin attached /\ ~IsChild(new) /\ new \notin Range(list) /\ ~Ended(new) /\ new # p
    BY <1>1, <1>4 DEF MayAttach, ChainsInv, Known
  <1>5. ASSUME child # NoProcess
        PROVE  /\ child \in Processes /\ Children[p] = child /\ s = "succeeded"
               /\ child \notin Range(list) /\ ~Ended(child) /\ child # p /\ child # new
    <2>1. child \in Processes /\ Children[p] = child /\ s = "succeeded"
      BY <1>1, <1>5 DEF Successor
    <2>2. ~(outcome[p].success > 0)
      BY <1>3 DEF Ended, ChainsInv, TypeOK, Counts
    <2>3. child \notin Range(list) /\ ~Ended(child)
      BY <2>1, <2>2 DEF ChainsInv, Known
    <2>4. IsChild(child)
      BY <2>1 DEF IsChild
    <2> HIDE DEF child
    <2> QED BY <1>3, <1>4, <1>5, <2>1, <2>3, <2>4
  <1> QED BY <1>3, <1>4, <1>5

LEMMA ChainsTurn ==
  ASSUME ChildrenApart, ChainsInv, TypeOK',
         NEW new \in Processes \cup {NoProcess}, NEW s \in States, Turn(new, list[next], s)
  PROVE  ChainsInv'
  <1> DEFINE p == list[next]
             child == Successor(p, s)
             n == Len(EraseDead(s))
  <1>1. /\ p \in Processes /\ child \in Processes \cup {NoProcess}
        /\ totals' = Count(p, s, totals) /\ attached' = attached \cup ({new} \ {NoProcess})
    BY DEF Turn
  <1>2. TypeOK /\ list \in Seq(Processes)
    BY DEF ChainsInv, TypeOK
  <1>3. /\ list' \in Seq(Processes) /\ n \in Nat /\ n <= Len(list') /\ next \in 1 .. Len(list)
        /\ Dead(s) => n = Len(list) - 1
        /\ ~Dead(s) => n = Len(list)
        /\ new = NoProcess /\ child = NoProcess => Len(list') = n
        /\ new # NoProcess /\ child = NoProcess => Len(list') = n + 1
        /\ new = NoProcess /\ child # NoProcess => Len(list') = n + 1
        /\ new # NoProcess /\ child # NoProcess => Len(list') = n + 2
    BY <1>2, TurnLists
  <1>4. \A i \in 1 .. n :
           LET k == IF Dead(s) /\ i >= next THEN i + 1 ELSE i IN
           list'[i] = list[k] /\ k \in 1 .. Len(list) /\ (Dead(s) => k # next)
    BY <1>2, TurnLists
  <1>5. \A i \in 1 .. Len(list') :
           i > n => \/ list'[i] = new /\ new # NoProcess /\ i = n + 1
                    \/ list'[i] = child /\ child # NoProcess /\ i = Len(list')
    BY <1>2, TurnLists
  <1>6. /\ \A x \in Processes : x # p => outcome'[x] = outcome[x]
        /\ ~Dead(s) => outcome' = outcome
        /\ s = "succeeded" => outcome'[p].success = outcome[p].success + 1
        /\ Dead(s) => outcome'[p].success + outcome'[p].fail = outcome[p].success + outcome[p].fail + 1
        /\ \A x \in Processes : outcome[x].success > 0 => outcome'[x].success > 0
        /\ \A x \in Processes : outcome[x] \in Counts /\ outcome'[x] \in Counts
    BY <1>1, <1>2, TurnEnds
  <1>7. /\ p \in Range(list) /\ ~Ended(p)
        /\ new # NoProcess =>
              new \notin attached /\ ~IsChild(new) /\ new \notin Range(list) /\ ~Ended(new) /\ new # p
        /\ child # NoProcess =>
              /\ child \in Processes /\ Children[p] = child /\ s = "succeeded"
              /\ child \notin Range(list) /\ ~Ended(child) /\ child # p /\ child # new
    BY <1>1, TurnIsNew
  <1>8. DOMAIN list = 1 .. Len(list) /\ DOMAIN list' = 1 .. Len(list')
    BY <1>2, <1>3
  <1>9. \A k \in 1 .. Len(list) : list[k] = p => k = next
    BY <1>3, <1>8 DEF ChainsInv, ListedOnce
  <1>10. child # NoProcess => Dead(s)
    BY <1>7 DEF Dead
  <1>a. /\ Dead(s) /\ child = NoProcess => totals'.success + totals'.fail = totals.success + totals.fail + 1
        /\ ~(Dead(s) /\ child = NoProcess) => totals'.success + totals'.fail = totals.success + totals.fail
    <2>1. totals \in Counts
      BY <1>2 DEF TypeOK
    <2> QED BY <1>1, <2>1, CountFacts
  <1> HIDE DEF child, n, p
  <1>11. IsFiniteSet(attached') /\ ChainsAreCounted'
    <2> DEFINE c == Cardinality(attached)
               l == Len(list)
               w == totals.success
               f == totals.fail
               lNext == Len(list')
               wNext == totals'.success
               fNext == totals'.fail
               a == Cardinality(attached')
    <2>1. IsFiniteSet(attached) /\ c \in Nat /\ c = l + w + f
      BY FS_CardinalityType DEF ChainsInv, ChainsAreCounted
    <2>2. w \in Nat /\ f \in Nat /\ wNext \in Nat /\ fNext \in Nat
      <3>1. totals \in Counts /\ totals' \in Counts
        BY <1>2 DEF TypeOK
      <3> QED BY <3>1 DEF Counts
    <2>3. l \in Nat /\ lNext \in Nat
      BY <1>2, <1>3
    <2>4. /\ new = NoProcess => attached' = attached
          /\ new # NoProcess => attached' = attached \cup {new}
      BY <1>1
    <2>5. /\ IsFiniteSet(attached')
          /\ new = NoProcess => a = c
          /\ new # NoProcess => a = c + 1
      BY <1>7, <2>1, <2>4, FS_AddElement
    <2>6. /\ Dead(s) => n = l - 1
          /\ ~Dead(s) => n = l
          /\ new = NoProcess /\ child = NoProcess => lNext = n
          /\ new # NoProcess /\ child = NoProcess => lNext = n + 1
          /\ new = NoProcess /\ child # NoProcess => lNext = n + 1
          /\ new # NoProcess /\ child # NoProcess => lNext = n + 2
      BY <1>3
    <2>7. /\ Dead(s) /\ child = NoProcess => wNext + fNext = w + f + 1
          /\ ~(Dead(s) /\ child = NoProcess) => wNext + fNext = w + f
      BY <1>a
    <2>8. n \in Nat
      BY <1>3
    <2> HIDE DEF c, l, w, f, lNext, wNext, fNext, a
    <2>9. a = lNext + wNext + fNext
      <3>1. CASE Dead(s) /\ child = NoProcess
        BY <2>1, <2>2, <2>3, <2>5, <2>6, <2>7, <2>8, <3>1
      <3>2. CASE Dead(s) /\ child # NoProcess
        BY <2>1, <2>2, <2>3, <2>5, <2>6, <2>7, <2>8, <3>2
      <3>3. CASE ~Dead(s)
        BY <1>10, <2>1, <2>2, <2>3, <2>5, <2>6, <2>7, <2>8, <3>3
      <3> QED BY <3>1, <3>2, <3>3
    <2> QED BY <2>5, <2>9 DEF ChainsAreCounted, a, lNext, wNext, fNext
  <1>12. ASSUME NEW i \in 1 .. Len(list')
         PROVE  \/ i <= n /\ \E k \in 1 .. Len(list) : list'[i] = list[k] /\ (Dead(s) => k # next)
                \/ i > n /\ list'[i] = new /\ new # NoProcess
                \/ i > n /\ list'[i] = child /\ child # NoProcess
    <2>1. CASE i <= n
      BY <1>3, <1>4, <2>1
    <2>2. CASE ~(i <= n)
      BY <1>3, <1>5, <2>2
    <2> QED BY <2>1, <2>2
  <1>13. ListedOnce'
    <2> SUFFICES \A i, j \in 1 .. Len(list') : list'[i] = list'[j] => ~(i < j)
      <3>1. Len(list') \in Nat
        BY <1>3
      <3>2. ASSUME NEW i \in 1 .. Len(list'), NEW j \in 1 .. Len(list'), list'[i] = list'[j],
                   \A k, m \in 1 .. Len(list') : list'[k] = list'[m] => ~(k < m)
            PROVE  i = j
        <4>1. ~(i < j) /\ ~(j < i)
          BY <3>2
        <4> QED BY <3>1, <4>1
      <3> QED BY <1>8, <3>2 DEF ListedOnce
    <2> SUFFICES ASSUME NEW i \in 1 .. Len(list'), NEW j \in 1 .. Len(list'), list'[i] = list'[j], i < j
                 PROVE  FALSE
      OBVIOUS
    <2>1. CASE j <= n
      <3> DEFINE k == IF Dead(s) /\ i >= next THEN i + 1 ELSE i
                 m == IF Dead(s) /\ j >= next THEN j + 1 ELSE j
      <3>1. i \in 1 .. n /\ j \in 1 .. n
        BY <1>3, <2>1
      <3>2. list'[i] = list[k] /\ k \in 1 .. Len(list) /\ list'[j] = list[m] /\ m \in 1 .. Len(list)
        BY <1>4, <3>1
      <3>3. k # m
        BY <1>3, <3>1
      <3> HIDE DEF k, m
      <3> QED BY <1>8, <3>2, <3>3 DEF ChainsInv, ListedOnce
    <2>2. CASE i <= n /\ j > n
      <3>1. list'[i] \in Range(list)
        <4>1. PICK k \in 1 .. Len(list) : list'[i] = list[k]
          BY <1>3, <1>12, <2>2
        <4> QED BY <1>8, <4>1 DEF Range
      <3> QED BY <1>3, <1>7, <1>12, <2>2, <3>1
    <2>3. CASE i > n
      <3>1. \/ list'[i] = new /\ new # NoProcess /\ i = n + 1
            \/ list'[i] = child /\ child # NoProcess /\ i = Len(list')
        BY <1>5, <2>3
      <3>2. \/ list'[j] = new /\ new # NoProcess /\ j = n + 1
            \/ list'[j] = child /\ child # NoProcess /\ j = Len(list')
        BY <1>3, <1>5, <2>3
      <3>3. list'[i] = new /\ new # NoProcess /\ i = n + 1
        BY <1>3, <3>1
      <3>4. list'[j] = child /\ child # NoProcess
        BY <1>3, <3>2, <3>3
      <3> QED BY <1>7, <3>3, <3>4
    <2> QED BY <1>3, <2>1, <2>2, <2>3
  <1>14. NotEnded'
    <2> SUFFICES \A i \in 1 .. Len(list') : ~(outcome'[list'[i]].success + outcome'[list'[i]].fail > 0)
      BY <1>8 DEF NotEnded, Ended
    <2> SUFFICES ASSUME NEW i \in 1 .. Len(list'), NEW y \in Processes, y = list'[i] PROVE ~Ended(y)'
      BY <1>3 DEF Ended
    <2>1. ASSUME NEW x \in Processes, ~Ended(x), x # p \/ ~Dead(s) PROVE ~Ended(x)'
      <3>1. outcome'[x] = outcome[x]
        BY <1>6, <2>1
      <3> QED BY <2>1, <3>1 DEF Ended
    <2>3. ASSUME NEW k \in 1 .. Len(list), y = list[k], Dead(s) => k # next PROVE ~Ended(y)'
      <3>1. ~Ended(y)
        BY <1>8, <2>3 DEF ChainsInv, NotEnded
      <3>2. y # p \/ ~Dead(s)
        BY <1>9, <2>3
      <3> QED BY <2>1, <3>1, <3>2
    <2>4. CASE y = new /\ new # NoProcess
      BY <1>7, <2>1, <2>4
    <2>5. CASE y = child /\ child # NoProcess
      BY <1>7, <2>1, <2>5
    <2> QED BY <1>12, <2>3, <2>4, <2>5
  <1>15. Known'
    <2> SUFFICES ASSUME NEW x \in Processes, x \in Range(list') \/ Ended(x)'
                 PROVE  /\ x \in attached' \/ IsChild(x)
                        /\ \A q \in Processes : Children[q] = x => outcome'[q].success > 0
      BY DEF Known, Ended, IsChild
    <2>1. \/ x \in Range(list) \/ Ended(x)
          \/ x = new /\ new # NoProcess
          \/ x = child /\ child # NoProcess
      <3>1. CASE x \in Range(list')
        <4>1. PICK i \in 1 .. Len(list') : x = list'[i]
          BY <1>8, <3>1 DEF Range
        <4> QED BY <1>8, <1>12, <4>1 DEF Range
      <3>2. CASE Ended(x)'
        <4>1. CASE x = p
          BY <1>7, <4>1
        <4>2. CASE x # p
          <5>1. outcome'[x] = outcome[x]
            BY <1>6, <4>2
          <5> QED BY <3>2, <5>1 DEF Ended
        <4> QED BY <4>1, <4>2
      <3> QED BY <3>1, <3>2
    <2>2. CASE x \in Range(list) \/ Ended(x)
      <3>1. /\ x \in attached \/ IsChild(x)
            /\ \A q \in Processes : Children[q] = x => outcome[q].success > 0
        BY <2>2 DEF ChainsInv, Known
      <3> QED BY <1>1, <1>6, <3>1
    <2>3. CASE x = new /\ new # NoProcess
      <3>1. x \in attached'
        BY <1>1, <2>3
      <3>2. ~(\E q \in Processes : Children[q] = x)
        BY <1>7, <2>3 DEF IsChild
      <3> QED BY <3>1, <3>2
    <2>4. CASE x = child /\ child # NoProcess
      <3>1. Children[p] = x /\ IsChild(x)
        BY <1>1, <1>7, <2>4 DEF IsChild
      <3>2. \A q \in Processes : Children[q] = x => q = p
        BY <1>1, <1>7, <2>4, <3>1 DEF ChildrenApart
      <3>3. outcome'[p].success > 0
        <4>1. outcome[p].success \in Nat /\ outcome'[p].success = outcome[p].success + 1
          BY <1>1, <1>6, <1>7, <2>4 DEF Counts
        <4> QED BY <4>1
      <3> QED BY <3>1, <3>2, <3>3
    <2> QED BY <2>1, <2>2, <2>3, <2>4
  <1>16. EndsOnce'
    <2> SUFFICES ASSUME NEW x \in Processes PROVE outcome'[x].success + outcome'[x].fail <= 1
      BY DEF EndsOnce
    <2>1. CASE x # p \/ ~Dead(s)
      <3>1. outcome'[x] = outcome[x]
        BY <1>6, <2>1
      <3> QED BY <3>1 DEF ChainsInv, EndsOnce
    <2>2. CASE x = p /\ Dead(s)
      <3>1. outcome[p].success \in Nat /\ outcome[p].fail \in Nat
        BY <1>1, <1>6 DEF Counts
      <3>2. outcome[p].success + outcome[p].fail = 0
        BY <1>7, <3>1 DEF Ended
      <3>3. outcome'[x].success + outcome'[x].fail = outcome[p].success + outcome[p].fail + 1
        BY <1>6, <2>2
      <3> QED BY <3>2, <3>3
    <2> QED BY <2>1, <2>2
  <1> QED BY <1>11, <1>13, <1>14, <1>15, <1>16 DEF ChainsInv

LEMMA ChainsAttach ==
  ASSUME ChainsInv, TypeOK', NEW p \in Processes, AttachProcess(p)
  PROVE  ChainsInv'
  <1>1. /\ MayAttach(p) /\ list' = Append(list, p) /\ attached' = attached \cup {p}
        /\ outcome' = outcome /\ totals' = totals
    BY DEF AttachProcess
  <1>2. list \in Seq(Processes) /\ Len(list) \in Nat
    BY DEF ChainsInv, TypeOK
  <1>3. /\ list' \in Seq(Processes) /\ Len(list') = Len(list) + 1
        /\ \A i \in 1 .. Len(list) : list'[i] = list[i]
        /\ list'[Len(list) + 1] = p
    BY <1>1, <1>2, AppendProperties
  <1>4. DOMAIN list = 1 .. Len(list) /\ DOMAIN list' = 1 .. Len(list')
    BY <1>2, <1>3
  <1>5. p \notin attached /\ ~IsChild(p) /\ p \notin Range(list) /\ ~Ended(p)
    BY <1>1 DEF MayAttach, ChainsInv, Known
  <1>6. \A i \in 1 .. Len(list') :
           \/ i \in 1 .. Len(list) /\ list'[i] = list[i] /\ list[i] \in Range(list)
           \/ i = Len(list) + 1 /\ list'[i] = p
    <2> SUFFICES ASSUME NEW i \in 1 .. Len(list')
                 PROVE  \/ i \in 1 .. Len(list) /\ list'[i] = list[i] /\ list[i] \in Range(list)
                        \/ i = Len(list) + 1 /\ list'[i] = p
      OBVIOUS
    <2>1. i \in 1 .. Len(list) \/ i = Len(list) + 1
      BY <1>2, <1>3
    <2>2. i \in 1 .. Len(list) => list[i] \in Range(list)
      BY <1>4 DEF Range
    <2> QED BY <1>3, <2>1, <2>2
  <1>7. IsFiniteSet(attached') /\ ChainsAreCounted'
    <2> DEFINE c == Cardinality(attached)
               l == Len(list)
               w == totals.success
               f == totals.fail
               lNext == Len(list')
               a == Cardinality(attached')
    <2>1. IsFiniteSet(attached) /\ c \in Nat /\ c = l + w + f
      BY FS_CardinalityType DEF ChainsInv, ChainsAreCounted
    <2>2. w \in Nat /\ f \in Nat
      <3>1. totals \in Counts
        BY DEF ChainsInv, TypeOK
      <3> QED BY <3>1 DEF Counts
    <2>3. IsFiniteSet(attached') /\ a = c + 1
      BY <1>1, <1>5, <2>1, FS_AddElement
    <2>4. l \in Nat /\ lNext = l + 1
      BY <1>2, <1>3
    <2> HIDE DEF c, l, w, f, lNext, a
    <2>5. a = lNext + w + f
      BY <2>1, <2>2, <2>3, <2>4
    <2> QED BY <1>1, <2>3, <2>5 DEF ChainsAreCounted, a, lNext, w, f
  <1>8. ListedOnce'
    <2> SUFFICES ASSUME NEW i \in 1 .. Len(list'), NEW j \in 1 .. Len(list'), list'[i] = list'[j]
                 PROVE  i = j
      BY <1>4 DEF ListedOnce
    <2> QED BY <1>4, <1>5, <1>6 DEF ChainsInv, ListedOnce
  <1>9. NotEnded'
    <2> SUFFICES \A i \in 1 .. Len(list') : ~(outcome[list'[i]].success + outcome[list'[i]].fail > 0)
      BY <1>1, <1>4 DEF NotEnded, Ended
    <2> QED BY <1>4, <1>5, <1>6 DEF ChainsInv, NotEnded, Ended
  <1>10. Known'
    <2> SUFFICES ASSUME NEW x \in Processes, x \in Range(list') \/ Ended(x)
                 PROVE  /\ x \in attached' \/ IsChild(x)
                        /\ \A q \in Processes : Children[q] = x => outcome[q].success > 0
      BY <1>1 DEF Known, Ended, IsChild
    <2>1. x \in Range(list) \/ x = p \/ Ended(x)
      BY <1>4, <1>6 DEF Range
    <2>2. CASE x = p
      BY <1>1, <1>5, <2>2 DEF IsChild
    <2>3. CASE x \in Range(list) \/ Ended(x)
      BY <1>1, <2>3 DEF ChainsInv, Known
    <2> QED BY <2>1, <2>2, <2>3
  <1>11. EndsOnce'
    BY <1>1 DEF ChainsInv, EndsOnce
  <1> QED BY <1>7, <1>8, <1>9, <1>10, <1>11 DEF ChainsInv

LEMMA ChainsStand ==
  ASSUME ChainsInv, TypeOK', UNCHANGED <<list, attached, outcome, totals>>
  PROVE  ChainsInv'
  BY DEF ChainsInv, ChainsAreCounted, ListedOnce, NotEnded, Known, EndsOnce, Ended, IsChild

LEMMA ChainsNext ==
  ASSUME ChildrenApart, ChainsInv, [Next]_vars
  PROVE  ChainsInv'
  <1>1. TypeOK /\ TypeOK'
    BY TypeNext DEF ChainsInv
  <1>2. ASSUME NEW p \in Processes, AttachProcess(p) PROVE ChainsInv'
    BY <1>1, <1>2, ChainsAttach
  <1>3. ASSUME NEW p \in Processes, NEW s \in States, Steer(p, s) PROVE ChainsInv'
    BY <1>1, <1>3, ChainsStand DEF Steer, observers
  <1>4. ASSUME NEW d \in Deltas, BeginUpdate(d) PROVE ChainsInv'
    BY <1>1, <1>4, ChainsStand DEF BeginUpdate
  <1>5. ASSUME NEW new \in Processes \cup {NoProcess}, Visit(new) PROVE ChainsInv'
    <2>1. PICK s \in States : Turn(new, list[next], s)
      BY <1>1, <1>5, VisitStep
    <2> QED BY <1>1, <2>1, ChainsTurn
  <1>6. CASE UNCHANGED vars
    BY <1>1, <1>6, ChainsStand DEF vars, observers
  <1> QED BY <1>2, <1>3, <1>4, <1>5, <1>6 DEF Next, Update

LEMMA ChainsInit == Init => ChainsInv
  <1> SUFFICES ASSUME Init PROVE ChainsInv
    OBVIOUS
  <1>1. TypeOK
    BY TypeInit
  <1>2. list = <<>> /\ Len(list) = 0 /\ DOMAIN list = {} /\ Range(list) = {}
    <2>1. list = <<>> /\ list \in Seq(Processes) /\ Len(list) = 0
      BY EmptySeq DEF Init
    <2>2. DOMAIN list = 1 .. 0
      BY <2>1
    <2> QED BY <2>1, <2>2 DEF Range
  <1>3. IsFiniteSet(attached) /\ Cardinality(attached) = 0
    BY FS_EmptySet DEF Init
  <1>4. totals.success = 0 /\ totals.fail = 0 /\ \A p \in Processes : outcome[p].success + outcome[p].fail = 0
    BY DEF Init
  <1> QED BY <1>1, <1>2, <1>3, <1>4 DEF ChainsInv, ChainsAreCounted, ListedOnce, NotEnded, Known, EndsOnce, Ended

LEMMA ChainsHold == ChainsInv => ChainsOK
  <1> SUFFICES ASSUME ChainsInv, NEW p \in Processes, Children[p] \in Range(list) PROVE outcome[p].success > 0
    BY DEF ChainsInv, ChainsOK, ChildAfterSuccess
  <1>1. Range(list) \subseteq Processes
    BY RangeOfSeq DEF ChainsInv, TypeOK
  <1> QED BY <1>1 DEF ChainsInv, Known

(* When no process is the child of two, the list of processes stays in     *)
(* order for any processes, children and overrides: each process ends once,*)
(* a child runs only after its parent succeeded, and what UpdateProcesses  *)
(* reports adds up to the chains that are gone (ProcessManager.cpp:14-49). *)
THEOREM ChainsAddUp ==
  ASSUME ChildrenApart
  PROVE  Spec => []ChainsOK
  <1>1. Init => ChainsInv
    BY ChainsInit
  <1>2. ChainsInv /\ [Next]_vars => ChainsInv'
    BY ChainsNext
  <1>3. ChainsInv => ChainsOK
    BY ChainsHold
  <1> QED BY <1>1, <1>2, <1>3, PTL DEF Spec
=============================================================================
