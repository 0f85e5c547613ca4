---------------------------- MODULE ProcessManager ----------------------------
(***************************************************************************)
(* gamelib::ProcessManager (processes/ProcessManager.cpp) and the state    *)
(* machine of a Process: a list of cooperative processes that              *)
(* UpdateProcesses visits once a frame, each of which may carry a child    *)
(* that takes its place when it succeeds.                                  *)
(*                                                                         *)
(* One Visit is one turn of the loop of UpdateProcesses: OnInit, OnUpdate  *)
(* and what follows from the state they leave.  Their overrides, and the   *)
(* game between two frames, may change the state of a process and attach   *)
(* others.  Delays are the library's DelayProcess objects.                 *)
(*                                                                         *)
(* State::aborted is never assigned: AbortAllProcesses calls OnAbort,      *)
(* which does nothing, and SetState is private and unused.                 *)
(***************************************************************************)
EXTENDS Naturals, Sequences, SequencesExt, FiniteSets

CONSTANTS
    Processes,
    NoProcess,
    Children,   \* Children[p]: what AttachChild gave p, or NoProcess
    Delays,     \* the processes that are DelayProcesses
    DelayTarget,\* delayTargetMs
    Deltas      \* the deltaMs of a frame

ASSUME ProcessManagerAssumption ==
    /\ NoProcess \notin Processes
    /\ Children \in [Processes -> Processes \cup {NoProcess}]
    /\ Delays \subseteq Processes /\ DelayTarget \in Nat /\ Deltas \subseteq Nat

States == {"uninitialized", "running", "paused", "succeeded", "failed"}

VARIABLES
    state,      \* state[p]
    delayed,    \* delayed[p]: delayedMs of a DelayProcess
    list,       \* processes
    next,       \* the iterator after ++it: a position of list, or AtEnd
    delta,      \* the deltaMs of the UpdateProcesses under way
    counts,     \* successCount and failCount of the UpdateProcesses under way
    attached,   \* observer: the processes the game attached
    outcome,    \* observer: how often OnSuccess and OnFail of p were called
    totals,     \* observer: the sums of the counts over all frames
    due         \* observer: the processes of the list not visited this frame

observers == <<attached, outcome, totals, due>>
vars == <<state, delayed, list, next, delta, counts, observers>>

AtEnd == 0

Init ==
    /\ state = [p \in Processes |-> "uninitialized"]
    /\ delayed = [p \in Processes |-> 0]
    /\ list = <<>> /\ next = AtEnd /\ delta = 0
    /\ counts = [success |-> 0, fail |-> 0]
    /\ attached = {}
    /\ outcome = [p \in Processes |-> [success |-> 0, fail |-> 0]]
    /\ totals = [success |-> 0, fail |-> 0]
    /\ due = {}

Updating == next # AtEnd

IsChild(p) == \E q \in Processes : Children[q] = p

(* A process is attached once, by the game or in place of its parent. *)
MayAttach(p) == p \notin attached /\ ~IsChild(p)

AttachProcess(p) ==
    /\ ~Updating
    /\ MayAttach(p)
    /\ list' = Append(list, p)
    /\ attached' = attached \cup {p}
    /\ UNCHANGED <<state, delayed, next, delta, counts, outcome, totals, due>>

(* Succeed, Fail and Pause are public: the game calls them when it likes,  *)
(* but does not take back the end of a process.                            *)
Steer(p, s) ==
    /\ ~Updating
    /\ p \notin Delays
    /\ state[p] \in {"uninitialized", "running", "paused"}
    /\ s \in {"succeeded", "failed", "paused"}
    /\ state' = [state EXCEPT ![p] = s]
    /\ UNCHANGED <<delayed, list, next, delta, counts, observers>>

BeginUpdate(d) ==
    /\ ~Updating
    /\ list # <<>>
    /\ next' = 1
    /\ delta' = d
    /\ counts' = [success |-> 0, fail |-> 0]
    /\ due' = Range(list)
    /\ UNCHANGED <<state, delayed, list, attached, outcome, totals>>

(* The state after OnInit, which an override may leave failed. *)
Initialised(p) ==
    IF state[p] # "uninitialized" THEN {state[p]}
    ELSE IF p \in Delays THEN {"running"} ELSE {"running", "failed"}

(* Mutant: a DelayProcess counts the last frame only. *)
DelayedNow(p) == delta

Delayed(p) == delayed[p] + delta

(* The state after OnUpdate. *)
Updated(p, s) ==
    IF s # "running" THEN {s}
    ELSE IF p \in Delays
         THEN {IF Delayed(p) >= DelayTarget THEN "succeeded" ELSE "running"}
         ELSE {"running", "paused", "succeeded", "failed"}

Dead(s) == s \in {"succeeded", "failed"}

(* The child of a process that succeeded is attached in its place. *)
Successor(p, s) == IF s = "succeeded" THEN Children[p] ELSE NoProcess

(* Mutant: the end is counted whether a child goes on or not. *)
CountAlways(p, s, c) ==
    [success |-> c.success + (IF s = "succeeded" THEN 1 ELSE 0),
     fail    |-> c.fail + (IF s = "failed" THEN 1 ELSE 0)]

Count(p, s, c) ==
    [success |-> c.success + (IF s = "succeeded" /\ Successor(p, s) = NoProcess THEN 1 ELSE 0),
     fail    |-> c.fail + (IF s = "failed" THEN 1 ELSE 0)]

(* Mutant: the iterator is advanced after the erasure. *)
AdvanceLate(s) ==
    IF next + (IF Dead(s) THEN 1 ELSE 0) >= Len(list) THEN AtEnd ELSE next + 1

(* ++it comes first: the iterator is at the node that follows, which moves *)
(* one place down when this one is erased, or at the end of the list,      *)
(* where it stays when processes are appended.                             *)
Advance(s) ==
    IF next = Len(list) THEN AtEnd ELSE IF Dead(s) THEN next ELSE next + 1

EraseDead(s) == IF Dead(s) THEN RemoveAt(list, next) ELSE list

Place(p) == IF p = NoProcess THEN <<>> ELSE <<p>>

(* One turn of the loop.  new: what the overrides attach. *)
Visit(new) ==
    /\ Updating
    /\ LET p == list[next] IN
       \E s0 \in Initialised(p) : \E s \in Updated(p, s0) :
          /\ new = NoProcess \/ (MayAttach(new) /\ new # p /\ p \notin Delays)
          /\ state' = [state EXCEPT ![p] = s]
          /\ delayed' = IF p \in Delays /\ s0 = "running"
                        THEN [delayed EXCEPT ![p] = Delayed(p)] ELSE delayed
          /\ list' = EraseDead(s) \o Place(new) \o Place(Successor(p, s))
          /\ next' = Advance(s)
          /\ counts' = Count(p, s, counts)
          /\ totals' = Count(p, s, totals)
          /\ outcome' = [outcome EXCEPT ![p] = CountAlways(p, s, @)]
          /\ attached' = attached \cup ({new} \ {NoProcess})
          /\ due' = due \ {p}
    /\ UNCHANGED delta

Update == (\E d \in Deltas : BeginUpdate(d)) \/ (\E p \in Processes \cup {NoProcess} : Visit(p))

Next ==
    \/ Update
    \/ \E p \in Processes : AttachProcess(p) \/ \E s \in States : Steer(p, s)

(* GameStructure::Update dispatches UpdateProcesses in every frame. *)
Spec == Init /\ [][Next]_vars /\ WF_vars(Update)

-----------------------------------------------------------------------------
Counts == [success : Nat, fail : Nat]

(* Every variable keeps its type: the iterator stays within the list that  *)
(* the visits shorten and lengthen under it.                               *)
TypeOK ==
    /\ state \in [Processes -> States] /\ delayed \in [Processes -> Nat]
    /\ list \in Seq(Processes) /\ next \in 0 .. Len(list) /\ delta \in Deltas \cup {0}
    /\ attached \subseteq Processes /\ due \subseteq Processes
    /\ counts \in Counts /\ totals \in Counts /\ outcome \in [Processes -> Counts]

(* UpdateProcesses visits everything that was in the list when it began,   *)
(* whatever is erased and appended on the way.                             *)
EveryoneIsVisited == ~Updating => due = {}

(* What UpdateProcesses reports adds up: every chain of processes that was *)
(* attached is still in the list or was counted once, as succeeded when    *)
(* its last process succeeded or as failed when one of them failed.        *)
ChainsAreCounted ==
    Cardinality(attached) = Len(list) + totals.success + totals.fail

(* A child is started only after its parent succeeded.                     *)
ChildAfterSuccess ==
    \A p \in Processes : Children[p] \in Range(list) => outcome[p].success > 0

(* OnSuccess or OnFail of a process is called once.                        *)
EndsOnce == \A p \in Processes : outcome[p].success + outcome[p].fail <= 1

(* Every delay comes to its end, whatever other processes do.              *)
DelaysEnd == \A p \in Delays : p \in Range(list) ~> p \notin Range(list)

(* The list of processes is in order: its iterator stays inside, a process *)
(* ends once, its child follows success only, and the counts of the frames *)
(* add up to the chains that are gone (ProcessManager.cpp:14-49).          *)
ChainsOK == TypeOK /\ ChainsAreCounted /\ ChildAfterSuccess /\ EndsOnce

-----------------------------------------------------------------------------
(* The invariants behind ChainsOK and EveryoneIsVisited.                   *)

(* No process is the child of two. *)
ChildrenApart ==
    \A p, q \in Processes : Children[p] = Children[q] /\ Children[p] # NoProcess => p = q

Ended(p) == outcome[p].success + outcome[p].fail > 0

(* The list has a process once, and never again when it ended; what is, or *)
(* was, in it was attached by the game or by its parent's success.         *)
ListedOnce == \A i, j \in DOMAIN list : list[i] = list[j] => i = j
NotEnded == \A i \in DOMAIN list : ~Ended(list[i])
Known ==
    \A p \in Processes : p \in Range(list) \/ Ended(p) =>
        /\ p \in attached \/ IsChild(p)
        /\ \A q \in Processes : Children[q] = p => outcome[q].success > 0

ChainsInv ==
    /\ TypeOK /\ IsFiniteSet(attached) /\ ChainsAreCounted
    /\ ListedOnce /\ NotEnded /\ Known /\ EndsOnce

(* Who is not visited yet is where the iterator is still to come. *)
DueInv == IF Updating THEN due \subseteq {list[i] : i \in next .. Len(list)} ELSE due = {}
=============================================================================
