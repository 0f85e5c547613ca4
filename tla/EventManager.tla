----------------------------- MODULE EventManager -----------------------------
(***************************************************************************)
(* gamelib::EventManager (events/EventManager.cpp) as GameStructure::Update*)
(* drives it: the table of subscribers, the primary and the secondary      *)
(* queue, and the dispatch of one event to its subscribers, whose handlers *)
(* call back into the manager while it iterates over its own table.        *)
(*                                                                         *)
(* A frame is: the input and the network (phase 0), ProcessAllEvents       *)
(* (phase 1), then one direct dispatch for each of FrameTypes.             *)
(*                                                                         *)
(* An event is an object shared by pointer: it may be in a queue more than *)
(* once, and Processed belongs to the object.  An event that is dispatched *)
(* directly is made for that dispatch and is in no queue (Transient).      *)
(* Every call of a handler does at most one of the setup's reactions.      *)
(***************************************************************************)
EXTENDS Naturals, Sequences, SequencesExt, FiniteSets

CONSTANTS
    Subscribers,
    GameObjects,   \* the subscribers whose GetSubscriberId is a fixed id
    Types,         \* EventIds
    SameNumber,    \* pairs of a game object and a type: Id equals PrimaryId
    FrameTypes,    \* the types GameStructure::Update dispatches directly
    Setups         \* what the handlers of a run do, and its bounds

AllReactions == {"return", "pass on", "raise", "raise again", "subscribe",
                 "unsubscribe", "clear", "reset"}

ASSUME EventManagerAssumption ==
    /\ GameObjects \subseteq Subscribers /\ SameNumber \subseteq GameObjects \X Types
    /\ FrameTypes \in Seq(Types)
    /\ \A s \in Setups :
        /\ s.reactions \subseteq AllReactions
        /\ s.targets \in BOOLEAN  \* whether the network delivers events for one subscriber
        /\ s.maxEvents \in Nat    \* bound: the events that are created for the queues

VARIABLES
    setup,        \* one of Setups; it never changes
    made,         \* made[e]: the type of event e
    processed,    \* the events whose Processed is set
    primary,      \* primaryEventQueue
    secondary,    \* secondaryEventQueue
    keys,         \* the types that are keys of eventSubscribers
    subs,         \* subs[t]: eventSubscribers[t]
    phase,
    dispatch,     \* the loop of DispatchEventToSubscriber, or Idle
    broken,       \* the program used a freed queue element or vector
    handled,      \* observer: the pairs <<event, subscriber>> of HandleEvent
    twice,        \* observer: those that happened a second time
    missed,       \* observer: those a dispatch owed and never did
    returnedNow   \* observer: events returned by handlers in this frame

tables    == <<keys, subs>>
queues    == <<primary, secondary>>
observers == <<handled, twice, missed, returnedNow>>
vars == <<setup, made, processed, queues, tables, phase, dispatch, broken, observers>>

Transient == 0
NoTarget  == "no target"

Idle == [event |-> Transient, type |-> NoTarget, pos |-> 0, end |-> 0,
         target |-> NoTarget, moved |-> FALSE, owed |-> {}]

Init ==
    /\ setup \in Setups
    /\ made = <<>> /\ processed = {}
    /\ primary = <<>> /\ secondary = <<>>
    /\ keys = {} /\ subs = [t \in Types |-> <<>>]
    /\ phase = 0 /\ dispatch = Idle /\ broken = FALSE
    /\ handled = {} /\ twice = {} /\ missed = {} /\ returnedNow = {}

-----------------------------------------------------------------------------
(* The operations of the table.                                            *)

WithSubscriber(s, t) ==
    IF s \in Range(subs[t]) THEN subs ELSE [subs EXCEPT ![t] = Append(@, s)]

(* erase(find_if(...)): the first of the list for which the test holds. *)
WithoutFirst(list, S) ==
    IF \E i \in DOMAIN list : list[i] \in S
    THEN RemoveAt(list, CHOOSE i \in DOMAIN list :
                            list[i] \in S /\ \A j \in 1 .. i - 1 : list[j] \notin S)
    ELSE list

(* Unsubscribe(t.PrimaryId), which is what UnsubscribeSubscribeToEvent(t)  *)
(* calls: from the list of EVERY type goes the first subscriber whose id   *)
(* is the number of the type.  The id of a subscriber that is not a game   *)
(* object is random in every call and taken never to match.                *)
Unsubscribe(t) ==
    [k \in Types |-> WithoutFirst(subs[k], {s \in GameObjects : <<s, t>> \in SameNumber})]

(* RemoveEventSubscription(s->GetSubscriberId(), t): the second call of    *)
(* GetSubscriberId, in the search, finds a game object only.               *)
RemoveEventSubscription(s, t) ==
    [subs EXCEPT ![t] = WithoutFirst(@, {s} \cap GameObjects)]

ClearSubscribers ==
    /\ keys' = {}
    /\ subs' = [t \in Types |-> <<>>]

-----------------------------------------------------------------------------
(* Outside the dispatch: phase 0.                                          *)

Outside == ~broken /\ phase = 0 /\ dispatch = Idle

NewEvent == Len(made) + 1

(* RaiseEvent: the game's input function raises an event. *)
Raise(t) ==
    /\ Outside
    /\ Len(made) < setup.maxEvents
    /\ made' = Append(made, t)
    /\ primary' = Append(primary, NewEvent)
    /\ UNCHANGED <<setup, processed, secondary, tables, phase, dispatch, broken, observers>>

SubscribeToEvent(s, t) ==
    /\ Outside
    /\ subs' = WithSubscriber(s, t)
    /\ keys' = keys \cup {t}
    /\ UNCHANGED <<setup, made, processed, queues, phase, dispatch, broken, observers>>

RemoveSubscription(s, t) ==
    /\ Outside
    /\ "unsubscribe" \in setup.reactions
    /\ subs' = RemoveEventSubscription(s, t)
    /\ UNCHANGED <<setup, made, processed, queues, keys, phase, dispatch, broken, observers>>

(* Two swaps with one queue that was empty before the first: what was in   *)
(* the primary queue is in the secondary one, and what was there is gone.  *)
SwapQueues == primary' = <<>> /\ secondary' = primary

Reset ==
    /\ Outside
    /\ "reset" \in setup.reactions
    /\ SwapQueues
    /\ UNCHANGED <<setup, made, processed, tables, phase, dispatch, broken, observers>>

-----------------------------------------------------------------------------
(* The dispatch of one event.                                              *)

Begin(e, t, target) ==
    /\ keys' = keys \cup {t}
    /\ dispatch' = [event |-> e, type |-> t, pos |-> 1, end |-> Len(subs[t]),
                    target |-> target, moved |-> FALSE,
                    owed |-> Range(subs[t]) \cap
                                 (IF target = NoTarget THEN Subscribers ELSE {target})]
    /\ handled' = IF e = Transient THEN {h \in handled : h[1] # Transient} ELSE handled

(* The network delivers an event for one subscriber, by name. *)
DispatchToTarget(t, target) ==
    /\ Outside
    /\ setup.targets
    /\ Begin(Transient, t, target)
    /\ UNCHANGED <<setup, made, processed, queues, subs, phase, broken, twice, missed, returnedNow>>

(* Mutant: the first event is dispatched whether Processed is set or not. *)
IsProcessedNever(e) == FALSE

IsProcessed(e) == e \in processed

(* ProcessAllEvents: the next event, which is dispatched unless an earlier *)
(* dispatch of the same object already was.                                *)
Take ==
    /\ ~broken /\ phase = 1 /\ dispatch = Idle /\ primary # <<>>
    /\ ~IsProcessed(Head(primary))
    /\ Begin(Head(primary), made[Head(primary)], NoTarget)
    /\ UNCHANGED <<setup, made, processed, queues, subs, phase, broken, twice, missed, returnedNow>>

SkipProcessed ==
    /\ ~broken /\ phase = 1 /\ dispatch = Idle /\ primary # <<>>
    /\ IsProcessed(Head(primary))
    /\ primary' = Tail(primary)
    /\ UNCHANGED <<setup, made, processed, secondary, tables, phase, dispatch, broken, observers>>

(* GameStructure::Update dispatches the frame's own events. *)
DispatchDirectly ==
    /\ ~broken /\ phase \in 2 .. Len(FrameTypes) + 1 /\ dispatch = Idle
    /\ Begin(Transient, FrameTypes[phase - 1], NoTarget)
    /\ UNCHANGED <<setup, made, processed, queues, subs, phase, broken, twice, missed, returnedNow>>

(* Mutant: a returned event goes to the primary queue. *)
ReturnAtOnce(t) ==
    /\ "return" \in setup.reactions /\ Len(made) < setup.maxEvents
    /\ made' = Append(made, t)
    /\ primary' = Append(primary, NewEvent)
    /\ returnedNow' = returnedNow \cup {NewEvent}
    /\ UNCHANGED <<secondary, tables, broken>>

(* What a handler does.  Its returned events go to the secondary queue.    *)
(* push_back on the vector under iteration may reallocate it.  Reset moves *)
(* the queue element the dispatch holds a reference to with its queue, and *)
(* a second Reset in the same dispatch frees it.                           *)
ReturnNew(t) ==
    /\ "return" \in setup.reactions /\ Len(made) < setup.maxEvents
    /\ made' = Append(made, t)
    /\ secondary' = Append(secondary, NewEvent)
    /\ returnedNow' = returnedNow \cup {NewEvent}
    /\ UNCHANGED <<primary, tables, broken>>

PassOn ==
    /\ "pass on" \in setup.reactions /\ dispatch.event # Transient
    /\ secondary' = Append(secondary, dispatch.event)
    /\ UNCHANGED <<made, primary, tables, broken, returnedNow>>

RaiseNew(t) ==
    /\ "raise" \in setup.reactions /\ Len(made) < setup.maxEvents
    /\ made' = Append(made, t)
    /\ primary' = Append(primary, NewEvent)
    /\ UNCHANGED <<secondary, tables, broken, returnedNow>>

RaiseAgain ==
    /\ "raise again" \in setup.reactions /\ dispatch.event # Transient
    /\ primary' = Append(primary, dispatch.event)
    /\ UNCHANGED <<made, secondary, tables, broken, returnedNow>>

Subscribe(s, t) ==
    /\ "subscribe" \in setup.reactions
    /\ subs' = WithSubscriber(s, t)
    /\ keys' = keys \cup {t}
    /\ broken' \in IF t = dispatch.type /\ s \notin Range(subs[t]) THEN BOOLEAN ELSE {FALSE}
    /\ UNCHANGED <<made, queues, returnedNow>>

UnsubscribeSubscribeToEvent(t) ==
    /\ "unsubscribe" \in setup.reactions
    /\ subs' = Unsubscribe(t)
    /\ UNCHANGED <<made, queues, keys, broken, returnedNow>>

Clear ==
    /\ "clear" \in setup.reactions
    /\ ClearSubscribers
    /\ UNCHANGED <<made, queues, broken, returnedNow>>

ResetDuringDispatch ==
    /\ "reset" \in setup.reactions
    /\ SwapQueues
    /\ broken' = (dispatch.event # Transient /\ dispatch.moved)
    /\ UNCHANGED <<made, tables, returnedNow>>

React ==
    \/ UNCHANGED <<made, queues, tables, broken, returnedNow>>
    \/ \E t \in Types : ReturnNew(t) \/ RaiseNew(t) \/ UnsubscribeSubscribeToEvent(t)
    \/ \E s \in Subscribers, t \in Types : Subscribe(s, t)
    \/ PassOn \/ RaiseAgain \/ Clear \/ ResetDuringDispatch

InLoop == ~broken /\ dispatch # Idle /\ dispatch.pos <= dispatch.end

Current == subs[dispatch.type][dispatch.pos]

(* The element of the event under dispatch is the first of the primary     *)
(* queue, which only Reset empties during the dispatch.                    *)
ItsElementMoved == dispatch.moved \/ (dispatch.event # Transient /\ primary' = <<>>)

(* Send: HandleEvent of the next subscriber, then its returned events. *)
Send ==
    /\ InLoop
    /\ keys # {} /\ dispatch.pos <= Len(subs[dispatch.type])
    /\ dispatch.target \in {NoTarget, Current}
    /\ React
    /\ LET delivery == <<dispatch.event, Current>> IN
       /\ handled' = handled \cup {delivery}
       /\ twice' = IF delivery \in handled THEN twice \cup {delivery} ELSE twice
    /\ dispatch' = [dispatch EXCEPT !.pos = @ + 1, !.moved = ItsElementMoved]
    /\ UNCHANGED <<setup, processed, phase, missed>>

(* The vector shrank under the iteration, which goes on to its old end. *)
RunOffTheEnd ==
    /\ InLoop
    /\ keys # {} /\ dispatch.pos > Len(subs[dispatch.type])
    /\ broken' = TRUE
    /\ UNCHANGED <<setup, made, processed, queues, tables, phase, dispatch, observers>>

(* After the loop, and after an early return from it.  A dispatch from the *)
(* primary queue is followed by a pop, also when a handler's Reset moved   *)
(* the event away: then the pop takes one that was raised after the Reset. *)
Over ==
    /\ dispatch' = Idle
    /\ missed' = missed \cup {<<dispatch.event, s>> : s \in
                     {s \in dispatch.owed \cap Range(subs[dispatch.type]) :
                         <<dispatch.event, s>> \notin handled}}
    /\ primary' = IF phase = 1 /\ primary # <<>> THEN Tail(primary) ELSE primary
    /\ phase' = IF phase <= 1 THEN phase ELSE (phase + 1) % (Len(FrameTypes) + 2)
    /\ UNCHANGED <<setup, made, secondary, tables, broken, handled, twice, returnedNow>>

(* The table was cleared: return, and Processed stays as it was. *)
ReturnAfterClear ==
    /\ InLoop
    /\ keys = {}
    /\ Over
    /\ UNCHANGED processed

(* The overload with a target returns at the first other subscriber. *)
ReturnAtOther ==
    /\ InLoop
    /\ keys # {} /\ dispatch.pos <= Len(subs[dispatch.type])
    /\ dispatch.target \notin {NoTarget, Current}
    /\ Over
    /\ UNCHANGED processed

(* Mutant: the loop ends before the last subscriber. *)
FinishEarly ==
    /\ ~broken /\ dispatch # Idle /\ dispatch.pos >= dispatch.end
    /\ Over
    /\ processed' = processed \cup ({dispatch.event} \ {Transient})

Finish ==
    /\ ~broken /\ dispatch # Idle /\ dispatch.pos > dispatch.end
    /\ Over
    /\ processed' = processed \cup ({dispatch.event} \ {Transient})

-----------------------------------------------------------------------------
BeginProcessing ==
    /\ Outside
    /\ phase' = 1
    /\ UNCHANGED <<setup, made, processed, queues, tables, dispatch, broken, observers>>

(* Mutant: the secondary queue is left where it is. *)
PrimaryAfterFrameForgets == primary

PrimaryAfterFrame == primary \o secondary

(* The end of ProcessAllEvents: what was returned waits for the next call. *)
EndProcessing ==
    /\ ~broken /\ phase = 1 /\ dispatch = Idle /\ primary = <<>>
    /\ primary' = PrimaryAfterFrame
    /\ secondary' = <<>>
    /\ phase' = 2 % (Len(FrameTypes) + 2)
    /\ returnedNow' = {}
    /\ UNCHANGED <<setup, made, processed, tables, dispatch, broken, handled, twice, missed>>

Loop == \/ BeginProcessing \/ EndProcessing \/ Take \/ SkipProcessed \/ DispatchDirectly
        \/ Send \/ RunOffTheEnd \/ ReturnAfterClear \/ ReturnAtOther \/ Finish

Next ==
    \/ Loop
    \/ Reset
    \/ \E t \in Types : Raise(t) \/ \E s \in Subscribers : DispatchToTarget(t, s)
    \/ \E s \in Subscribers, t \in Types : SubscribeToEvent(s, t) \/ RemoveSubscription(s, t)

(* The game loop goes on for as long as the program runs, and every call   *)
(* of a handler returns.                                                   *)
Spec == Init /\ [][Next]_vars /\ WF_vars(Loop)

-----------------------------------------------------------------------------
Events == 1 .. Len(made)

Deliveries == (Events \cup {Transient}) \X Subscribers

Dispatches ==
    [event : Events \cup {Transient}, type : Types, pos : Nat \ {0}, end : Nat,
     target : Subscribers \cup {NoTarget}, moved : BOOLEAN, owed : SUBSET Subscribers]

(* Every variable keeps its type: no handler's call leaves a queue with an *)
(* event nobody made, or a table or a loop with a subscriber nobody knows. *)
TypeOK ==
    /\ setup \in Setups
    /\ made \in Seq(Types) /\ Len(made) <= setup.maxEvents
    /\ processed \subseteq Events /\ returnedNow \subseteq Events
    /\ primary \in Seq(Events) /\ secondary \in Seq(Events)
    /\ keys \subseteq Types /\ subs \in [Types -> Seq(Subscribers)]
    /\ \A t \in Types : subs[t] # <<>> => t \in keys
    /\ phase \in 0 .. Len(FrameTypes) + 1
    /\ dispatch = Idle \/ (dispatch \in Dispatches /\ dispatch.pos <= dispatch.end + 1)
    /\ dispatch.event # Transient => phase = 1 /\ (primary # <<>> \/ dispatch.moved)
    /\ broken \in BOOLEAN
    /\ handled \subseteq Deliveries /\ twice \subseteq Deliveries /\ missed \subseteq Deliveries

(* What brings an event back to a subscriber that handled it: a handler    *)
(* takes its subscription away and another renews it behind the iterator,  *)
(* or one puts the event on the secondary queue, by passing it on or by a  *)
(* Reset, and another empties the table, so that the dispatch returns and  *)
(* the event stays unprocessed until the next frame dispatches it again.   *)
NoComeback(s) ==
    /\ ~({"unsubscribe", "subscribe"} \subseteq s.reactions)
    /\ ~({"clear", "pass on"} \subseteq s.reactions)
    /\ ~({"clear", "reset"} \subseteq s.reactions)

(* A subscriber handles an event object once, however often handlers raise *)
(* or return that object again, whoever subscribes meanwhile, and when     *)
(* Reset moves it back into a queue, unless handlers do both of what brings*)
(* it back (EventManager.cpp:41-46, 88-108, 132-160, 202-228).             *)
AtMostOnce == NoComeback(setup) => twice = {}

(* No handler takes a subscription away, or empties the tables or queues. *)
HandlersOnlyAdd == setup.reactions \cap {"unsubscribe", "clear", "reset"} = {}

(* While handlers only add, a dispatch reaches everyone it is for: who was *)
(* subscribed when it began and still is when it ends has handled the      *)
(* event.  ("Send event to each subscriber who has subscribed to that      *)
(* event.")                                                                *)
EveryoneHears == HandlersOnlyAdd /\ ~setup.targets => missed = {}

(* What a handler returns is handled in a later frame ("for next cycle of  *)
(* processing"), never in the ProcessAllEvents that produced it.           *)
ReturnedWaits == dispatch.event \notin returnedNow

(* While handlers only add, every event that is queued is dispatched some  *)
(* time, also when handlers queue the same object again, or the program    *)
(* has used freed memory.                                                  *)
QueuedIsProcessed ==
    \A e \in 1 .. Max({s.maxEvents : s \in Setups}) :
        HandlersOnlyAdd /\ e \in Range(primary \o secondary) ~> e \in processed \/ broken

(* ProcessAllEvents holds a reference to an element of a queue while the   *)
(* event is dispatched: the first of the primary queue, or one that Reset  *)
(* moved to the secondary queue.  It is freed by no handler, but by a      *)
(* second Reset in the same dispatch (broken).                             *)
ReferenceHolds ==
    dispatch.event # Transient /\ ~broken =>
        IF dispatch.moved THEN dispatch.event \in Range(secondary)
        ELSE primary # <<>> /\ Head(primary) = dispatch.event

(* The queues and tables hold what was made for them, what a handler       *)
(* returned is not in its turn yet, and the event under dispatch is in a   *)
(* queue, whatever handlers do (EventManager.cpp:41-46, 110-228).          *)
QueuesOK == TypeOK /\ ReturnedWaits /\ ReferenceHolds

-----------------------------------------------------------------------------
(* The invariants behind QueuesOK, EveryoneHears and AtMostOnce.           *)

(* What was returned in this frame is neither dispatched nor next in turn. *)
WaitsInv == returnedNow \cap (Range(primary) \cup {dispatch.event}) = {}

(* While handlers only add, the loop has everyone it is for before it, or  *)
(* behind it where they handled the event.                                 *)
HearInv ==
    HandlersOnlyAdd /\ ~setup.targets =>
        /\ missed = {}
        /\ dispatch # Idle =>
            /\ dispatch.target = NoTarget
            /\ dispatch.type \in keys
            /\ dispatch.end <= Len(subs[dispatch.type])
            /\ dispatch.owed \subseteq {subs[dispatch.type][i] : i \in 1 .. dispatch.end}
            /\ \A i \in 1 .. dispatch.pos - 1 : <<dispatch.event, subs[dispatch.type][i]>> \in handled

Heard(e) == \E s \in Subscribers : <<e, s>> \in handled
NoSubscribers == \A t \in Types : subs[t] = <<>>

(* A list has a subscriber once. *)
ListedOnce ==
    \A t \in Types : \A i, j \in DOMAIN subs[t] : subs[t][i] = subs[t][j] => i = j

(* Who is still before the loop has not handled its event; and who handled *)
(* it stays in the list, where a new subscription finds it.                *)
StillToHear ==
    dispatch # Idle =>
        \A j \in dispatch.pos .. Len(subs[dispatch.type]) :
            <<dispatch.event, subs[dispatch.type][j]>> \notin handled
HeardAreListed ==
    dispatch # Idle /\ "unsubscribe" \notin setup.reactions =>
        \/ NoSubscribers
        \/ \A s \in Subscribers :
               <<dispatch.event, s>> \in handled => s \in Range(subs[dispatch.type])

(* An event that may be dispatched again was never handled, unless the     *)
(* table was emptied and stays empty until the event has left the queue.   *)
PrimaryUnheard ==
    \A e \in Range(primary) \ processed :
        e # dispatch.event /\ Heard(e) => phase = 1 /\ NoSubscribers
SecondaryUnheard ==
    \A e \in Range(secondary) \ processed :
        /\ Heard(e) => e = dispatch.event
        /\ "clear" \in setup.reactions => e \notin Range(primary) \cup {dispatch.event}

(* Only a handler that empties the table ends a dispatch before its time.  *)
KeyStays == dispatch # Idle /\ "clear" \notin setup.reactions => dispatch.type \in keys

(* Only what is dispatched directly has one receiver. *)
TargetsAreDirect == dispatch.target # NoTarget => dispatch.event = Transient

OnceInv ==
    /\ ListedOnce /\ KeyStays /\ TargetsAreDirect
    /\ NoComeback(setup) =>
        twice = {} /\ StillToHear /\ HeardAreListed /\ PrimaryUnheard /\ SecondaryUnheard
=============================================================================
