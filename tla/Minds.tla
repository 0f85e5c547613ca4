-------------------------------- MODULE Minds --------------------------------
(***************************************************************************)
(* What a game gives its characters to think with: a behaviour tree, a     *)
(* blackboard and a state machine.  They share no state in this library,   *)
(* so one of them is looked at in a behaviour, and the others stay.        *)
(***************************************************************************)
EXTENDS BehaviorTree, Blackboard, StateMachine

VARIABLE mind  \* the one that is looked at; it never changes

vars == <<mind, treeVars, boardVars, machineVars>>

Init ==
    /\ mind \in {"tree", "board", "machine"} /\ TreeInit /\ BoardInit /\ MachineInit
    /\ mind # "tree" => setup = CHOOSE s \in Setups : TRUE

Next ==
    \/ mind = "tree" /\ TreeNext /\ UNCHANGED <<mind, boardVars, machineVars>>
    \/ mind = "board" /\ BoardNext /\ UNCHANGED <<mind, treeVars, machineVars>>
    \/ mind = "machine" /\ MachineNext /\ UNCHANGED <<mind, treeVars, boardVars>>

(* A tick that began goes on: it runs in the game's thread. *)
Fairness == WF_treeVars(mind = "tree" /\ Step)

Spec == Init /\ [][Next]_vars /\ Fairness
=============================================================================
