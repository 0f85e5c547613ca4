----------------------------- MODULE BehaviorTree -----------------------------
(***************************************************************************)
(* The behaviour trees of ai/: BehaviorTreeBuilder puts a tree together,   *)
(* and BehaviorTree::Update ticks its root.  A tick is a recursive call;   *)
(* its stack is a variable, so that every call, return and abort of the    *)
(* composites is a step.                                                   *)
(*                                                                         *)
(* A node's number is its address.  A node that is added has a greater     *)
(* number than its parent.  What an action, a condition or a utility       *)
(* computes is the game's: any value.                                      *)
(***************************************************************************)
EXTENDS Naturals, Sequences, SequencesExt, FiniteSets

CONSTANTS
    Setups,      \* what a game builds with, how much, and what its functions return
    RepeatCount  \* Repeat::SetCount; 0, the default, never ends by itself

AllComposites == {"Sequence", "Selector", "ActiveSelector", "UtilitySelector",
                  "Parallel all", "Parallel one", "Parallel both", "Monitor"}
AllLeaves == {"Action", "Condition", "Not", "Script", "Repeat"}

ASSUME BehaviorTreeAssumption ==
    /\ \A s \in Setups : /\ s.composites \subseteq AllComposites
                          /\ s.leaves \subseteq AllLeaves
                          /\ s.repeated \subseteq AllLeaves \ {"Repeat"}
                          /\ s.results \subseteq {"Success", "Failure", "Running", "Invalid"}
                          /\ s.maxNodes \in Nat  \* bound: the nodes of a tree
    /\ RepeatCount \in Nat

VARIABLES
    setup,     \* one of Setups; it never changes
    kind,      \* kind[n]: the class of node n
    children,  \* children[n]
    open,      \* the builder's stack of composites, or NoBuilder after End
    status,    \* status[n]
    current,   \* current[n]: the position of the iterator child, currentChild
    count,     \* count[n]: Repeat's counter
    stack,     \* the calls of Update under way, the root's first
    result,    \* what the call that just returned returned, or NoResult
    begun,     \* observer: OnInitialize was called, and OnTerminate not since
    twice,     \* observer: nodes the last return called OnTerminate for, not begun
    updated,   \* observer: the nodes updated in this tick
    again      \* observer: one the last call updated again, outside a Repeat

nodeVars == <<setup, kind, children, open>>
treeVars == <<nodeVars, status, current, count, stack, result, begun, twice, updated, again>>

Nodes == DOMAIN kind
NoBuilder == <<0>>
NoResult == "none"
Results == {"Success", "Failure", "Running", "Invalid"}

TreeInit ==
    /\ setup \in Setups
    /\ kind = <<>> /\ children = <<>> /\ open = <<>>
    /\ status = <<>> /\ current = <<>> /\ count = <<>>
    /\ stack = <<>> /\ result = NoResult
    /\ begun = {} /\ twice = {} /\ updated = {} /\ again = {}

-----------------------------------------------------------------------------
(* The builder.                                                            *)

IsParallel(n) == kind[n] \in {"Parallel all", "Parallel one", "Parallel both", "Monitor"}

(* The policies of a Parallel.  A Monitor's are require_one by default. *)
OneSucceeds(n) == kind[n] \in {"Parallel one", "Monitor"}
OneFails(n)    == kind[n] \in {"Parallel all", "Monitor"}

Building == open # NoBuilder

(* AddChild of the composite the builder is in; the first node is the root. *)
Adopt(kids, n) ==
    IF open = <<>> THEN kids ELSE [kids EXCEPT ![Last(open)] = Append(@, n)]

Grow(kinds, kids) ==
    /\ kind' = kind \o kinds
    /\ children' = kids
    /\ status' = status \o [i \in DOMAIN kinds |-> "Invalid"]
    /\ current' = current \o [i \in DOMAIN kinds |-> 1]
    /\ count' = count \o [i \in DOMAIN kinds |-> 0]
    /\ UNCHANGED <<setup, stack, result, begun, twice, updated, again>>

(* ActiveSelector(), Sequence(), Filter(), Parallel(), Monitor(): the new  *)
(* composite is the one the next calls add to.  Once the root is finished  *)
(* the stack is empty and top() undefined; no program may go on from there. *)
Open(k) ==
    /\ Building /\ Len(kind) < setup.maxNodes /\ (open = <<>> => kind = <<>>)
    /\ Grow(<<k>>, Append(Adopt(children, Len(kind) + 1), <<>>))
    /\ open' = Append(open, Len(kind) + 1)

(* Action(), Condition(), Not().  A Repeat brings the leaf it repeats along. *)
AddLeaf(k) ==
    /\ Building /\ open # <<>>
    /\ IF k = "Repeat"
       THEN /\ Len(kind) + 1 < setup.maxNodes
            /\ \E c \in setup.repeated :
                  Grow(<<k, c>>, Adopt(children, Len(kind) + 1) \o <<<<Len(kind) + 2>>, <<>>>>)
       ELSE /\ Len(kind) < setup.maxNodes
            /\ Grow(<<k>>, Append(Adopt(children, Len(kind) + 1), <<>>))
    /\ UNCHANGED open

Finish ==
    /\ Building /\ open # <<>>
    /\ open' = Front(open)
    /\ UNCHANGED <<setup, kind, children, status, current, count, stack, result, begun, twice,
                   updated, again>>

(* End makes the tree, whether its composites are finished or not. *)
End ==
    /\ Building /\ kind # <<>>
    /\ open' = NoBuilder
    /\ UNCHANGED <<setup, kind, children, status, current, count, stack, result, begun, twice,
                   updated, again>>

-----------------------------------------------------------------------------
(* Tick: OnInitialize unless the node is running, then Update.             *)

Top == Last(stack)

ChildOf(n, i) == children[n][i]

UnderRepeat == \E i \in DOMAIN stack : kind[stack[i].node] = "Repeat"

(* Where the iterator stands after OnInitialize. *)
StartOf(n) == IF status[n] = "Running" THEN current[n] ELSE 1

Orders(n) ==
    IF kind[n] = "UtilitySelector"
    THEN {[i \in DOMAIN children[n] |-> ChildOf(n, p[i])] :
             p \in Bijection(DOMAIN children[n], DOMAIN children[n])}
    ELSE {children[n]}

(* The call of Tick.  ActiveSelector keeps the old position and starts     *)
(* again at the first child; UtilitySelector sorts its children first.     *)
Call(n, frames) ==
    LET fresh == status[n] # "Running" IN
    /\ stack' = Append(frames, [node |-> n, prev |-> StartOf(n), at |-> 1,
                                successes |-> 0, failures |-> 0])
    /\ result' = NoResult
    /\ current' = [current EXCEPT ![n] =
                       IF kind[n] = "ActiveSelector" THEN 1 ELSE StartOf(n)]
    /\ count' = [count EXCEPT ![n] = IF fresh THEN 0 ELSE @]
    /\ \E p \in Orders(n) : children' = [children EXCEPT ![n] = p]
    /\ begun' = IF fresh THEN begun \cup {n} ELSE begun
    /\ updated' = updated \cup {n}
    /\ again' = IF n \in updated /\ ~UnderRepeat THEN {n} ELSE {}
    /\ UNCHANGED <<setup, kind, open, status, twice>>

Ready == ~Building /\ stack # <<>> /\ result = NoResult
Back(r) == ~Building /\ stack # <<>> /\ result # NoResult /\ result \in r

(* The nodes Abort(n) aborts: a Parallel's OnTerminate aborts its running  *)
(* children; the OnTerminate of the others does nothing.                   *)
AbortedBy(x) ==
    {c \in ToSet(children[x]) : IsParallel(x) /\ status[c] = "Running"}
AbortedWith(n) ==
    {x \in Nodes : \A S \in SUBSET Nodes :
                      n \in S /\ (\A y \in S : AbortedBy(y) \subseteq S) => x \in S}

(* The end of Tick: n returns r, after the nodes of gone were aborted. *)
ReturnAfter(n, r, gone) ==
    LET stopped == IF r = "Running" THEN {} ELSE {n}
        left    == IF IsParallel(n) /\ r # "Running"
                   THEN AbortedWith(n) \ {n} ELSE {}
        over    == stopped \cup left \cup gone
    IN
    /\ status' = [x \in Nodes |->
                     IF x \in left \cup gone THEN "Aborted" ELSE IF x = n THEN r ELSE status[x]]
    /\ begun' = begun \ over
    /\ twice' = over \ begun
    /\ stack' = Front(stack)
    /\ result' = IF Len(stack) = 1 THEN NoResult ELSE r
    /\ updated' = IF Len(stack) = 1 THEN {} ELSE updated
    /\ UNCHANGED <<nodeVars, current, count, again>>

Return(n, r) == ReturnAfter(n, r, {})

(* BehaviorTree::Update. *)
TickRoot ==
    /\ ~Building /\ stack = <<>>
    /\ Call(1, <<>>)

-----------------------------------------------------------------------------
(* Leaves.                                                                 *)

Inverted(r) == IF r = "Success" THEN "Failure" ELSE IF r = "Failure" THEN "Success" ELSE r

(* ScriptedBehavior::Update; OnInitialize opens the Lua state it runs in   *)
(* and OnTerminate closes it.                                              *)
ScriptResults == {"Success"}

(* InlineAction: what its function returns, Invalid if there is none.      *)
(* Condition calls Update, not Tick, of the behaviour it holds, whose own  *)
(* status never changes.                                                   *)
LeafResults(k) ==
    CASE k = "Action"    -> setup.results
      [] k = "Condition" -> setup.results
      [] k = "Not"       -> {Inverted(r) : r \in setup.results}
      [] k = "Script"    -> ScriptResults

UpdateLeaf ==
    /\ Ready /\ kind[Top.node] \in AllLeaves \ {"Repeat"}
    /\ \E r \in LeafResults(kind[Top.node]) : Return(Top.node, r)

-----------------------------------------------------------------------------
(* Sequence, and the three selectors: run the child the iterator is at.    *)

Lists == {"Sequence", "Selector", "ActiveSelector", "UtilitySelector"}

GoesOn(k) == IF k = "Sequence" THEN "Success" ELSE "Failure"

(* Mutant: the child that lost its turn goes on running. *)
OvertakenIsLeft == {}

(* ActiveSelector aborts the child it ran before, if the iterator is no    *)
(* longer there: one that was overtaken, and one that has just failed.     *)
Overtaken ==
    LET n == Top.node IN
    IF kind[n] = "ActiveSelector" /\ Top.prev <= Len(children[n]) /\ current[n] # Top.prev
    THEN AbortedWith(ChildOf(n, Top.prev)) ELSE {}

RunChild ==
    LET n == Top.node IN
    /\ Ready /\ kind[n] \in Lists
    /\ current[n] <= Len(children[n])
    /\ Call(ChildOf(n, current[n]), stack)

(* A sequence goes on after success, a selector after failure. *)
NextChild ==
    LET n == Top.node IN
    /\ Back({GoesOn(kind[n])}) /\ kind[n] \in Lists
    /\ current' = [current EXCEPT ![n] = @ + 1]
    /\ result' = NoResult
    /\ UNCHANGED <<nodeVars, status, count, stack, begun, twice, updated, again>>

StopAtChild ==
    LET n == Top.node IN
    /\ Back(Results \ {GoesOn(kind[n])})
    /\ kind[n] \in Lists
    /\ ReturnAfter(n, result, Overtaken)

NoChildLeft ==
    LET n == Top.node IN
    /\ Ready /\ kind[n] \in Lists
    /\ current[n] > Len(children[n])
    /\ ReturnAfter(n, GoesOn(kind[n]), Overtaken)

-----------------------------------------------------------------------------
(* Parallel: every child in the same tick, but those that have terminated, *)
(* in this run or an earlier one.                                          *)

Terminated(n) == status[n] \in {"Success", "Failure"}

RunParallelChild ==
    LET n == Top.node IN
    /\ Ready /\ IsParallel(n)
    /\ Top.at <= Len(children[n])
    /\ ~Terminated(ChildOf(n, Top.at))
    /\ Call(ChildOf(n, Top.at), stack)

(* One success or one failure may be enough. *)
Decides(n, r) ==
    \/ r = "Success" /\ OneSucceeds(n)
    \/ r = "Failure" /\ OneFails(n)

CountResult ==
    LET n == Top.node
        s == status[ChildOf(n, Top.at)]
    IN
    /\ ~Building /\ stack # <<>> /\ IsParallel(n)
    /\ Top.at <= Len(children[n])
    /\ result # NoResult \/ Terminated(ChildOf(n, Top.at))
    /\ IF Decides(n, s)
       THEN Return(n, s)
       ELSE /\ stack' = Append(Front(stack),
                          [Top EXCEPT !.at = @ + 1,
                                      !.successes = IF s = "Success" THEN @ + 1 ELSE @,
                                      !.failures = IF s = "Failure" THEN @ + 1 ELSE @])
            /\ result' = NoResult
            /\ UNCHANGED <<nodeVars, status, current, count, begun, twice, updated, again>>

EndParallel ==
    LET n == Top.node
        all == Len(children[n])
    IN
    /\ Ready /\ IsParallel(n)
    /\ Top.at > all
    /\ Return(n, IF ~OneFails(n) /\ Top.failures = all THEN "Failure"
                 ELSE IF ~OneSucceeds(n) /\ Top.successes = all THEN "Success"
                 ELSE "Running")

-----------------------------------------------------------------------------
(* Repeat.                                                                 *)

RunRepeated ==
    /\ Ready /\ kind[Top.node] = "Repeat"
    /\ Call(ChildOf(Top.node, 1), stack)

(* A child that is still running makes it return Invalid, which is not     *)
(* Running: OnInitialize is called, and count 0, in the next tick.  One    *)
(* that returned Invalid itself counts as one that succeeded.              *)
Repeated == {"Success", "Invalid"}

StopRepeating ==
    LET n == Top.node IN
    \/ Back({"Running"}) /\ kind[n] = "Repeat" /\ Return(n, "Invalid")
    \/ Back({"Failure"}) /\ kind[n] = "Repeat" /\ Return(n, "Failure")
    \/ Back(Repeated) /\ kind[n] = "Repeat" /\ count[n] + 1 = RepeatCount
          /\ Return(n, "Success")

(* Mutant: the counter stands still. *)
NotCounted(n) == count[n]

Counted(n) == count[n] + 1

RepeatAgain ==
    LET n == Top.node IN
    /\ Back(Repeated) /\ kind[n] = "Repeat" /\ count[n] + 1 # RepeatCount
    /\ count' = [count EXCEPT ![n] = Counted(n)]
    /\ status' = [status EXCEPT ![ChildOf(n, 1)] = "Invalid"]
    /\ result' = NoResult
    /\ UNCHANGED <<nodeVars, current, stack, begun, twice, updated, again>>

-----------------------------------------------------------------------------
Build == \/ \E k \in setup.composites : Open(k)
         \/ \E k \in setup.leaves : AddLeaf(k)
         \/ Finish \/ End

Step == \/ UpdateLeaf \/ RunChild \/ NextChild \/ StopAtChild \/ NoChildLeft
        \/ RunParallelChild \/ CountResult \/ EndParallel
        \/ RunRepeated \/ StopRepeating \/ RepeatAgain

TreeNext == Build \/ TickRoot \/ Step

-----------------------------------------------------------------------------
Statuses == Results \cup {"Aborted"}

(* No order of calls leaves an iterator past the end of its children       *)
(* (currentChild, child), and every call was made by the node's parent.    *)
TreeTypeOK ==
    /\ setup \in Setups
    /\ \A n \in Nodes :
          /\ kind[n] \in AllComposites \cup AllLeaves
          /\ ToSet(children[n]) \subseteq n + 1 .. Len(kind)
          /\ status[n] \in Statuses
          /\ count[n] \in Nat /\ (RepeatCount # 0 => count[n] < RepeatCount)
          /\ current[n] \in 1 .. Len(children[n]) + 1
    /\ \A i \in DOMAIN stack :
          /\ stack[i].node \in Nodes
          /\ i > 1 => stack[i].node \in ToSet(children[stack[i - 1].node])
    /\ result \in Statuses \cup {NoResult}
    /\ twice \cup begun \cup updated \subseteq Nodes 
    /\ again \subseteq Nodes

(* A tick updates no node more than once, whatever was aborted, resumed or *)
(* sorted, unless a Repeat does.  (Behavior.h: Update is "Called exactly   *)
(* once each time the behaviour tree is updated".)                         *)
UpdatedOnce == again = {}

(* A child of a sequence runs when all before it have succeeded since the  *)
(* sequence began, also when it goes on in a later tick or was aborted in  *)
(* between.  ("A sequence composite runs each child behavior in order      *)
(* until one fails.")                                                      *)
SequenceInOrder ==
    \A i \in DOMAIN stack :
        LET n == stack[i].node IN
        kind[n] = "Sequence" =>
            \A j \in 1 .. current[n] - 1 : status[ChildOf(n, j)] = "Success"

(* Between two ticks at most one child of the root runs, if the root is a  *)
(* sequence or a selector: a child that a more urgent one overtakes is     *)
(* aborted.                                                                *)
OneChildRuns ==
    ~Building /\ stack = <<>> /\ kind[1] \in {"Sequence", "Selector", "ActiveSelector"} =>
        Cardinality({c \in ToSet(children[1]) : status[c] = "Running"}) <= 1

(* A Parallel that has ended, or was aborted, has no child that runs: the  *)
(* abort reaches the Parallels below it.                                   *)
ParallelLeavesNone ==
    \A n \in Nodes :
        ~Building /\ stack = <<>> /\ IsParallel(n) /\ status[n] # "Running" =>
            \A c \in ToSet(children[n]) : status[c] # "Running"

(* The Lua state of a script is closed once for every time it is opened,   *)
(* although OnTerminate is called a second time for children that fail     *)
(* (ScriptedBehavior.h: OnTerminate closes it without looking).            *)
ScriptsCloseOnce == \A n \in twice : kind[n] # "Script"

(* Every tick of the tree ends: no composite waits for a child for ever,   *)
(* and a Repeat with a count comes to it.                                  *)
TickEnds == stack # <<>> ~> stack = <<>>

(* A tree runs as its composites say, over any number of ticks and aborts, *)
(* with every iterator inside its children                                 *)
(* (Sequence.h, Selector.h, ActiveSelector.h, Parallel.h, Behavior.h).     *)
TreeOK == /\ TreeTypeOK /\ UpdatedOnce /\ SequenceInOrder /\ OneChildRuns
          /\ ParallelLeavesNone /\ ScriptsCloseOnce

-----------------------------------------------------------------------------
(* The invariant behind TreeOK.                                            *)

OnStack(n) == \E i \in DOMAIN stack : stack[i].node = n

(* The builder makes a tree: a node has one parent, and one place there.   *)
TreeShape ==
    /\ setup \in Setups
    /\ kind \in Seq(AllComposites \cup AllLeaves)
    /\ children \in [Nodes -> Seq(Nodes)]
    /\ \A n \in Nodes : /\ \A i \in DOMAIN children[n] : children[n][i] > n
                        /\ kind[n] = "Repeat" => Len(children[n]) = 1
    /\ \A m, n \in Nodes : \A i \in DOMAIN children[m], j \in DOMAIN children[n] :
          children[m][i] = children[n][j] => m = n /\ i = j
    /\ Building => /\ open \in Seq(Nodes)
                   /\ \A i \in DOMAIN open : kind[open[i]] \in AllComposites
    /\ ~Building => kind # <<>>

(* What a node is told and keeps.  While the tree is built nothing runs.   *)
NodesKept ==
    /\ status \in [Nodes -> Statuses] /\ current \in [Nodes -> Nat] /\ count \in [Nodes -> Nat]
    /\ \A n \in Nodes : /\ current[n] \in 1 .. Len(children[n]) + 1
                        /\ RepeatCount # 0 => count[n] < RepeatCount
                        /\ kind[n] = "Script" => status[n] \in {"Invalid", "Success", "Aborted"}
    /\ Building => /\ stack = <<>> /\ begun = {}
                   /\ \A n \in Nodes : status[n] = "Invalid"
    /\ twice \cup begun \cup updated \subseteq Nodes
    /\ {n \in Nodes : status[n] = "Running"} \subseteq begun

(* The child of a call's node that is called from there.                   *)
Slot(f) == IF kind[f.node] \in Lists THEN current[f.node]
           ELSE IF IsParallel(f.node) THEN f.at ELSE 1

Calls(f) == /\ kind[f.node] \in AllComposites \cup {"Repeat"}
            /\ Slot(f) \in DOMAIN children[f.node]
Frames == [node : Nodes, prev : Nat \ {0}, at : Nat, successes : Nat, failures : Nat]

(* The stack is a path from the root, and what returned is on its end.     *)
StackIsPath ==
    /\ stack \in Seq(Frames)
    /\ stack # <<>> => stack[1].node = 1
    /\ \A i \in DOMAIN stack : /\ stack[i].node \in begun \cap updated
                               /\ stack[i].at \in 1 .. Len(children[stack[i].node]) + 1
    /\ \A i, j \in DOMAIN stack : i < j => stack[i].node < stack[j].node
    /\ \A i \in DOMAIN stack : i < Len(stack) =>
          /\ Calls(stack[i])
          /\ stack[i + 1].node = ChildOf(stack[i].node, Slot(stack[i]))
    /\ result \in (Statuses \ {"Aborted"}) \cup {NoResult}
    /\ result # NoResult =>
          /\ stack # <<>> /\ Calls(Top)
          /\ status[ChildOf(Top.node, Slot(Top))] = result

IsToCome(i, j) == \/ j > Slot(stack[i])
                  \/ j = Slot(stack[i]) /\ i = Len(stack) /\ result = NoResult

(* Outside a Repeat, the children whose turn is to come are not updated.   *)
NotUpdatedYet ==
    /\ again = {}
    /\ stack = <<>> => updated = {}
    /\ \A n \in Nodes : ToSet(children[n]) \cap updated # {} => n \in updated
    /\ \A i \in DOMAIN stack :
          (\A k \in 1 .. i : kind[stack[k].node] # "Repeat") =>
             \A j \in DOMAIN children[stack[i].node] :
                IsToCome(i, j) => ChildOf(stack[i].node, j) \notin updated

(* A sequence that is called, or will go on, has been successful so far.   *)
SequencesGoOn ==
    \A n \in Nodes : kind[n] = "Sequence" /\ (status[n] = "Running" \/ OnStack(n)) =>
        \A j \in 1 .. current[n] - 1 : status[ChildOf(n, j)] = "Success"

(* At most one child of the root runs, but an ActiveSelector's old one     *)
(* may, until the call ends.                                               *)
RootRunsOne ==
    ~Building /\ kind[1] \in {"Sequence", "Selector", "ActiveSelector"} =>
        \A j \in DOMAIN children[1] : status[ChildOf(1, j)] = "Running" =>
            \/ j = current[1] /\ (stack = <<>> => status[1] = "Running")
            \/ stack # <<>> /\ kind[1] = "ActiveSelector" /\ j = stack[1].prev

(* A Parallel whose turn is over has no child that runs.                   *)
ParallelsEnd ==
    \A n \in Nodes : IsParallel(n) /\ status[n] # "Running" /\ ~OnStack(n) =>
        \A c \in ToSet(children[n]) : status[c] # "Running"

(* No script is an ActiveSelector's old child once the iterator has moved. *)
ScriptsStay ==
    /\ \A n \in Nodes : kind[n] = "ActiveSelector" /\ status[n] = "Running" /\ ~OnStack(n) =>
          /\ current[n] \in DOMAIN children[n]
          /\ kind[ChildOf(n, current[n])] # "Script"
    /\ \A i \in DOMAIN stack : LET f == stack[i] IN
          /\ kind[f.node] = "ActiveSelector"
          /\ f.prev \in DOMAIN children[f.node] /\ kind[ChildOf(f.node, f.prev)] = "Script"
          => current[f.node] = f.prev
    /\ ScriptsCloseOnce

TreeInv == /\ TreeShape /\ NodesKept /\ StackIsPath /\ NotUpdatedYet /\ SequencesGoOn
           /\ RootRunsOne /\ ParallelsEnd /\ ScriptsStay
=============================================================================
