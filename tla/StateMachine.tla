----------------------------- MODULE StateMachine -----------------------------
(***************************************************************************)
(* gamelib::FSM (ai/FSM.h, .cpp, FSMState, FSMTransition): one Update looks*)
(* through the active state's transitions for the first whose condition    *)
(* holds, takes it, and then updates the active state.  What a condition   *)
(* says is the game's: any value, at every look.                           *)
(***************************************************************************)
EXTENDS Naturals, Sequences

CONSTANTS
    States,
    NoState,      \* a null FSMState*
    InitialState,
    Transitions   \* Transitions[s]: what GetNextState returns for each of its
                  \* transitions, in order

ASSUME StateMachineAssumption ==
    /\ NoState \notin States /\ InitialState \in States \cup {NoState}
    /\ Transitions \in [States -> Seq(States)]

VARIABLES
    ActiveState,
    at,        \* the transition Update looks at, 0 outside Update
    step,      \* what Update does next
    machine,   \* "runs", or "threw": THROW(12, "No valid initial state ...")
    entered,   \* observer: the states that OnEnter was called for, and OnExit not since
    moves      \* observer: the transitions this Update took

machineVars == <<ActiveState, at, step, machine, entered, moves>>

MachineInit ==
    /\ ActiveState = NoState
    /\ at = 0 /\ step = "idle" /\ machine = "runs"
    /\ entered = {} /\ moves = 0

(* The initial state becomes active without OnEnter. *)
BeginUpdate ==
    /\ machine = "runs" /\ step = "idle"
    /\ ActiveState' = IF ActiveState = NoState THEN InitialState ELSE ActiveState
    /\ IF InitialState = NoState
       THEN machine' = "threw" /\ UNCHANGED <<at, step>>
       ELSE at' = 1 /\ step' = "look" /\ UNCHANGED machine
    /\ moves' = 0
    /\ UNCHANGED entered

IsLast == at > Len(Transitions[ActiveState])

NotValid ==
    /\ step = "look" /\ ~IsLast
    /\ at' = at + 1
    /\ UNCHANGED <<ActiveState, step, machine, entered, moves>>

Left == ActiveState

(* IsValid: OnExit, and then OnTransition, before the state changes. *)
OnExit ==
    /\ step = "look" /\ ~IsLast
    /\ entered' = entered \ {Left}
    /\ step' = "move"
    /\ UNCHANGED <<ActiveState, at, machine, moves>>

(* Mutant: the search goes on after a transition. *)
AfterMoveLooks == "look"

AfterMove == "update"

OnEnter ==
    /\ step = "move"
    /\ ActiveState' = Transitions[ActiveState][at]
    /\ entered' = entered \cup {ActiveState'}
    /\ moves' = moves + 1
    /\ step' = AfterMove
    /\ at' = 1
    /\ UNCHANGED machine

OnUpdate ==
    /\ step = "update" \/ (step = "look" /\ IsLast)
    /\ step' = "idle" /\ at' = 0
    /\ UNCHANGED <<ActiveState, machine, entered, moves>>

MachineStep == NotValid \/ OnExit \/ OnEnter \/ OnUpdate
MachineNext == BeginUpdate \/ MachineStep

MachineTypeOK ==
    /\ ActiveState \in States \cup {NoState}
    /\ at \in Nat /\ step \in {"idle", "look", "move", "update"}
    /\ machine \in {"runs", "threw"}
    /\ entered \subseteq States

(* The machine is in one state: no state was entered but the active one,   *)
(* whatever the order of its transitions; and between two updates a state  *)
(* that was left was left by OnExit.                                       *)
EnteredIsActive == entered \subseteq {ActiveState}

(* An update takes one transition at most, also when the state it comes to *)
(* would go on at once.  (FSM.cpp: "Set the next active state to the       *)
(* transitioning state", and break.)                                       *)
OneMove == moves <= 1

(* The machine is in one state, and an update moves it once                *)
(* (FSM.cpp:19-38).                                                        *)
MachineOK == MachineTypeOK /\ EnteredIsActive /\ OneMove

-----------------------------------------------------------------------------
(* The inductive invariant behind MachineOK: a state that is being left is *)
(* entered no more, and until an update moves it has not moved.            *)
MachineInv ==
    /\ MachineTypeOK /\ EnteredIsActive /\ OneMove
    /\ moves \in Nat
    /\ step # "idle" => ActiveState \in States
    /\ step \in {"look", "move"} => moves = 0 /\ at > 0
    /\ step = "move" => entered = {} /\ at <= Len(Transitions[ActiveState])
=============================================================================
