-------------------------- MODULE EventManagerProofs --------------------------
(***************************************************************************)
(* Proofs about EventManager, for any subscribers, types, handlers and     *)
(* bounds: the queues and tables stay in order, a dispatch reaches everyone*)
(* it is for while handlers only add, and no event is handled twice by one *)
(* subscriber unless the handlers' reactions bring it back.                *)
(***************************************************************************)
EXTENDS EventManager, ListLemmas, FiniteSetTheorems, SequenceTheorems, TLAPS

-----------------------------------------------------------------------------
(* The operations of the table.                                            *)

(* The list new is old, or old without one of its elements. *)
Thinned(new, old) ==
    \/ new = old
    \/ \E k \in 1 .. Len(old) :
          /\ Len(new) = Len(old) - 1
          /\ \A i \in 1 .. Len(old) - 1 : new[i] = old[IF i < k THEN i ELSE i + 1]

LEMMA WithoutFirstFacts ==
  ASSUME NEW old \in Seq(Subscribers), NEW S
  PROVE  WithoutFirst(old, S) \in Seq(Subscribers) /\ Thinned(WithoutFirst(old, S), old)
  <1>1. CASE \E i \in DOMAIN old : old[i] \in S
    <2> DEFINE k == CHOOSE i \in DOMAIN old : old[i] \in S /\ \A j \in 1 .. i - 1 : old[j] \notin S
    <2>1. \E i \in DOMAIN old : old[i] \in S /\ \A j \in 1 .. i - 1 : old[j] \notin S
      BY <1>1, FirstOf
    <2>2. k \in 1 .. Len(old)
      BY <2>1
    <2>3. WithoutFirst(old, S) = RemoveAt(old, k)
      BY <1>1 DEF WithoutFirst
    <2> HIDE DEF k
    <2>4. /\ RemoveAt(old, k) \in Seq(Subscribers)
          /\ Len(RemoveAt(old, k)) = Len(old) - 1
          /\ \A i \in 1 .. Len(old) - 1 : RemoveAt(old, k)[i] = old[IF i < k THEN i ELSE i + 1]
      BY <2>2, RemoveAtFacts
    <2> QED BY <2>2, <2>3, <2>4 DEF Thinned
  <1>2. CASE ~(\E i \in DOMAIN old : old[i] \in S)
    BY <1>2 DEF WithoutFirst, Thinned
  <1> QED BY <1>1, <1>2

(* What is in the thinner list was in the other at its place or one later, *)
(* and once if it was there once.                                          *)
LEMMA ThinnedFacts ==
  ASSUME NEW old \in Seq(Subscribers), NEW new \in Seq(Subscribers), Thinned(new, old)
  PROVE  /\ Len(new) <= Len(old)
         /\ \A j \in 1 .. Len(new) :
               new[j] = old[j] \/ (j + 1 \in 1 .. Len(old) /\ new[j] = old[j + 1])
         /\ (\A i, j \in 1 .. Len(old) : old[i] = old[j] => i = j) =>
               \A i, j \in 1 .. Len(new) : new[i] = new[j] => i = j
         /\ old = <<>> => new = <<>>
  <1>1. Len(old) \in Nat /\ Len(new) \in Nat
    OBVIOUS
  <1>2. CASE new = old
    BY <1>1, <1>2
  <1>3. CASE new # old
    <2>1. PICK k \in 1 .. Len(old) :
             /\ Len(new) = Len(old) - 1
             /\ \A i \in 1 .. Len(old) - 1 : new[i] = old[IF i < k THEN i ELSE i + 1]
      BY <1>3 DEF Thinned
    <2>2. ASSUME NEW i \in 1 .. Len(new)
          PROVE  /\ i < k => i \in 1 .. Len(old) /\ new[i] = old[i]
                 /\ ~(i < k) => i + 1 \in 1 .. Len(old) /\ new[i] = old[i + 1]
      <3>1. i \in 1 .. Len(old) - 1 /\ i \in 1 .. Len(old) /\ i + 1 \in 1 .. Len(old)
        BY <1>1, <2>1
      <3>2. new[i] = old[IF i < k THEN i ELSE i + 1]
        BY <2>1, <3>1
      <3> QED BY <3>1, <3>2
    <2>3. ASSUME \A i, j \in 1 .. Len(old) : old[i] = old[j] => i = j,
                 NEW i \in 1 .. Len(new), NEW j \in 1 .. Len(new), new[i] = new[j]
          PROVE  i = j
      <3>1. CASE i < k /\ j < k
        BY <2>2, <2>3, <3>1
      <3>2. CASE i < k /\ ~(j < k)
        <4>1. i = j + 1
          BY <2>2, <2>3, <3>2
        <4> QED BY <1>1, <2>1, <3>2, <4>1
      <3>3. CASE ~(i < k) /\ j < k
        <4>1. i + 1 = j
          BY <2>2, <2>3, <3>3
        <4> QED BY <1>1, <2>1, <3>3, <4>1
      <3>4. CASE ~(i < k) /\ ~(j < k)
        <4>1. i + 1 = j + 1
          BY <2>2, <2>3, <3>4
        <4> QED BY <1>1, <4>1
      <3> QED BY <3>1, <3>2, <3>3, <3>4
    <2>4. Len(new) <= Len(old)
      BY <1>1, <2>1
    <2>5. old # <<>>
      BY <1>1, <2>1, EmptySeq
    <2> QED BY <2>2, <2>3, <2>4, <2>5
  <1> QED BY <1>2, <1>3

(* The table is thinned: what every removal does, and what none does to the*)
(* types without subscribers.                                              *)
LEMMA TableThinned ==
  ASSUME TypeOK, NEW t \in Types
  PROVE  /\ Unsubscribe(t) \in [Types -> Seq(Subscribers)]
         /\ \A k \in Types : Thinned(Unsubscribe(t)[k], subs[k])
         /\ \A s \in Subscribers :
               /\ RemoveEventSubscription(s, t) \in [Types -> Seq(Subscribers)]
               /\ \A k \in Types : Thinned(RemoveEventSubscription(s, t)[k], subs[k])
  <1>1. subs \in [Types -> Seq(Subscribers)]
    BY DEF TypeOK
  <1>2. ASSUME NEW k \in Types, NEW S
        PROVE  WithoutFirst(subs[k], S) \in Seq(Subscribers) /\ Thinned(WithoutFirst(subs[k], S), subs[k])
    <2> DEFINE old == subs[k]
    <2>1. old \in Seq(Subscribers)
      BY <1>1
    <2> HIDE DEF old
    <2>2. WithoutFirst(old, S) \in Seq(Subscribers) /\ Thinned(WithoutFirst(old, S), old)
      BY <2>1, WithoutFirstFacts
    <2> QED BY <2>2 DEF old
  <1>3. /\ Unsubscribe(t) \in [Types -> Seq(Subscribers)]
        /\ \A k \in Types : Thinned(Unsubscribe(t)[k], subs[k])
    BY <1>2 DEF Unsubscribe
  <1>4. ASSUME NEW s \in Subscribers
        PROVE  /\ RemoveEventSubscription(s, t) \in [Types -> Seq(Subscribers)]
               /\ \A k \in Types : Thinned(RemoveEventSubscription(s, t)[k], subs[k])
    <2>1. RemoveEventSubscription(s, t) \in [Types -> Seq(Subscribers)]
      BY <1>1, <1>2 DEF RemoveEventSubscription
    <2>2. ASSUME NEW k \in Types PROVE Thinned(RemoveEventSubscription(s, t)[k], subs[k])
      <3>1. CASE k = t
        <4>1. RemoveEventSubscription(s, t)[k] = WithoutFirst(subs[k], {s} \cap GameObjects)
          BY <1>1, <3>1 DEF RemoveEventSubscription
        <4> QED BY <1>2, <4>1
      <3>2. CASE k # t
        <4>1. RemoveEventSubscription(s, t)[k] = subs[k]
          BY <1>1, <3>2 DEF RemoveEventSubscription
        <4> QED BY <4>1 DEF Thinned
      <3> QED BY <3>1, <3>2
    <2> QED BY <2>1, <2>2
  <1> QED BY <1>3, <1>4

(* A new subscription goes to the end of its list, if it is not there yet. *)
LEMMA TableLengthened ==
  ASSUME TypeOK, NEW s \in Subscribers, NEW t \in Types
  PROVE  /\ WithSubscriber(s, t) \in [Types -> Seq(Subscribers)]
         /\ \A k \in Types :
               \/ WithSubscriber(s, t)[k] = subs[k]
               \/ k = t /\ s \notin Range(subs[t]) /\ WithSubscriber(s, t)[k] = Append(subs[k], s)
  <1>1. subs \in [Types -> Seq(Subscribers)]
    BY DEF TypeOK
  <1>2. Append(subs[t], s) \in Seq(Subscribers)
    BY <1>1, AppendProperties
  <1> QED BY <1>1, <1>2 DEF WithSubscriber

-----------------------------------------------------------------------------
(* What a handler may do, in one statement: events only become more; the   *)
(* queues get new events and the one under dispatch; the table is thinned, *)
(* lengthened or emptied.                                                  *)
Fresh == Events' \ Events
Present == {dispatch.event} \ {Transient}

TableStep ==
    \/ subs' = subs /\ keys' = keys
    \/ /\ "unsubscribe" \in setup.reactions
       /\ keys' = keys /\ \A k \in Types : Thinned(subs'[k], subs[k])
    \/ /\ "subscribe" \in setup.reactions
       /\ keys \subseteq keys'
       /\ \E s \in Subscribers : \A k \in Types :
             subs'[k] = subs[k] \/ (s \notin Range(subs[k]) /\ subs'[k] = Append(subs[k], s))
    \/ /\ "clear" \in setup.reactions
       /\ keys' = {} /\ \A k \in Types : subs'[k] = <<>>

QueueStep ==
    /\ made' \in Seq(Types) /\ Len(made') <= setup.maxEvents /\ Events \subseteq Events'
    /\ primary' \in Seq(Events') /\ secondary' \in Seq(Events') /\ returnedNow' \subseteq Events'
    /\ Range(primary') \subseteq Range(primary) \cup Present \cup Fresh
    /\ Range(secondary') \subseteq
          Range(secondary) \cup (IF "pass on" \in setup.reactions THEN Present ELSE {}) \cup Fresh
              \cup (IF "reset" \in setup.reactions THEN Range(primary) ELSE {})
    /\ returnedNow' \subseteq returnedNow \cup Fresh
    /\ Range(primary') \cap (Range(secondary') \cup returnedNow') \cap Fresh = {}

(* An event is made: it is in no queue yet.                                *)
LEMMA Making ==
  ASSUME TypeOK, NEW t \in Types, made' = Append(made, t), Len(made) < setup.maxEvents
  PROVE  /\ made' \in Seq(Types) /\ Len(made') <= setup.maxEvents /\ Events \subseteq Events'
         /\ NewEvent \in Fresh /\ NewEvent \in Events'
         /\ primary \in Seq(Events') /\ secondary \in Seq(Events')
         /\ Range(primary) \subseteq Events /\ Range(secondary) \subseteq Events
  <1>0. setup.maxEvents \in Nat
    BY EventManagerAssumption DEF TypeOK
  <1>1. made \in Seq(Types) /\ made' \in Seq(Types) /\ Len(made') = Len(made) + 1 /\ Len(made) \in Nat
    BY AppendProperties DEF TypeOK
  <1>2. Events \subseteq Events' /\ NewEvent \in Fresh /\ NewEvent \in Events' /\ Len(made') <= setup.maxEvents
    BY <1>0, <1>1 DEF Events, NewEvent, Fresh
  <1>3. primary \in Seq(Events) /\ secondary \in Seq(Events)
    BY DEF TypeOK
  <1>4. primary \in Seq(Events') /\ secondary \in Seq(Events')
    <2> HIDE DEF Events
    <2> QED BY <1>2, <1>3, SeqMonotonic
  <1>5. Range(primary) \subseteq Events /\ Range(secondary) \subseteq Events
    BY <1>3, RangeOfSeq
  <1> QED BY <1>1, <1>2, <1>4, <1>5

LEMMA Unmade ==
  ASSUME TypeOK, UNCHANGED made
  PROVE  /\ Events' = Events /\ Fresh = {}
         /\ made' \in Seq(Types) /\ Len(made') <= setup.maxEvents
         /\ primary \in Seq(Events') /\ secondary \in Seq(Events')
  BY DEF TypeOK, Events, Fresh

LEMMA ReactQueues ==
  ASSUME TypeOK, React
  PROVE  QueueStep
  <1>1. /\ primary \in Seq(Events) /\ secondary \in Seq(Events) /\ returnedNow \subseteq Events
        /\ Range(primary) \subseteq Events /\ Range(secondary) \subseteq Events
        /\ dispatch.event # Transient => dispatch.event \in Events /\ Present = {dispatch.event}
    <2>1. primary \in Seq(Events) /\ secondary \in Seq(Events) /\ returnedNow \subseteq Events
      BY DEF TypeOK
    <2>2. Range(primary) \subseteq Events /\ Range(secondary) \subseteq Events
      BY <2>1, RangeOfSeq
    <2>3. dispatch.event # Transient => dispatch.event \in Events
      BY DEF TypeOK, Dispatches, Idle
    <2> QED BY <2>1, <2>2, <2>3 DEF Present
  <1>2. CASE UNCHANGED <<made, queues, returnedNow>>
    BY <1>1, <1>2, Unmade DEF QueueStep, queues
  <1>3. ASSUME NEW t \in Types, ReturnNew(t) PROVE QueueStep
    <2>1. /\ made' = Append(made, t) /\ Len(made) < setup.maxEvents
          /\ primary' = primary /\ secondary' = Append(secondary, NewEvent)
          /\ returnedNow' = returnedNow \cup {NewEvent}
      BY <1>3 DEF ReturnNew
    <2>2. /\ made' \in Seq(Types) /\ Len(made') <= setup.maxEvents /\ Events \subseteq Events'
          /\ NewEvent \in Fresh /\ NewEvent \in Events'
          /\ primary \in Seq(Events') /\ secondary \in Seq(Events')
      BY <2>1, Making
    <2>3. secondary' \in Seq(Events') /\ Range(secondary') = Range(secondary) \cup {NewEvent}
      BY <2>1, <2>2, AppendRange
    <2>4. Range(primary) \cap Fresh = {}
      BY <1>1 DEF Fresh
    <2> HIDE DEF Events, Fresh, Present, NewEvent
    <2> QED BY <1>1, <2>1, <2>2, <2>3, <2>4 DEF QueueStep
  <1>4. ASSUME NEW t \in Types, RaiseNew(t) PROVE QueueStep
    <2>1. /\ made' = Append(made, t) /\ Len(made) < setup.maxEvents
          /\ primary' = Append(primary, NewEvent) /\ secondary' = secondary
          /\ returnedNow' = returnedNow
      BY <1>4 DEF RaiseNew
    <2>2. /\ made' \in Seq(Types) /\ Len(made') <= setup.maxEvents /\ Events \subseteq Events'
          /\ NewEvent \in Fresh /\ NewEvent \in Events'
          /\ primary \in Seq(Events') /\ secondary \in Seq(Events')
      BY <2>1, Making
    <2>3. primary' \in Seq(Events') /\ Range(primary') = Range(primary) \cup {NewEvent}
      BY <2>1, <2>2, AppendRange
    <2>4. (Range(secondary) \cup returnedNow) \cap Fresh = {}
      BY <1>1 DEF Fresh
    <2> HIDE DEF Events, Fresh, Present, NewEvent
    <2> QED BY <1>1, <2>1, <2>2, <2>3, <2>4 DEF QueueStep
  <1>5. CASE PassOn
    <2>1. /\ "pass on" \in setup.reactions /\ dispatch.event # Transient
          /\ secondary' = Append(secondary, dispatch.event)
          /\ UNCHANGED <<made, primary, returnedNow>>
      BY <1>5 DEF PassOn
    <2>a. secondary \in Seq(Events) /\ dispatch.event \in Events /\ secondary' = Append(secondary, dispatch.event)
      BY <1>1, <2>1
    <2>2. secondary' \in Seq(Events) /\ Range(secondary') = Range(secondary) \cup {dispatch.event}
      <3> HIDE DEF Events
      <3> QED BY <2>a, AppendRange
    <2>3. Events' = Events /\ Fresh = {} /\ made' \in Seq(Types) /\ Len(made') <= setup.maxEvents
      BY <2>1, Unmade
    <2> HIDE DEF Events, Fresh, Present
    <2> QED BY <1>1, <2>1, <2>2, <2>3 DEF QueueStep
  <1>6. CASE RaiseAgain
    <2>1. /\ dispatch.event # Transient
          /\ primary' = Append(primary, dispatch.event)
          /\ UNCHANGED <<made, secondary, returnedNow>>
      BY <1>6 DEF RaiseAgain
    <2>2. primary' \in Seq(Events) /\ Range(primary') = Range(primary) \cup {dispatch.event}
      BY <1>1, <2>1, AppendRange
    <2>3. Events' = Events /\ Fresh = {} /\ made' \in Seq(Types) /\ Len(made') <= setup.maxEvents
      BY <2>1, Unmade
    <2> HIDE DEF Events, Fresh, Present
    <2> QED BY <1>1, <2>1, <2>2, <2>3 DEF QueueStep
  <1>7. CASE ResetDuringDispatch
    <2>1. /\ "reset" \in setup.reactions /\ primary' = <<>> /\ secondary' = primary
          /\ UNCHANGED <<made, returnedNow>>
      BY <1>7 DEF ResetDuringDispatch, SwapQueues
    <2>2. Events' = Events /\ Fresh = {} /\ made' \in Seq(Types) /\ Len(made') <= setup.maxEvents
      BY <2>1, Unmade
    <2>3. primary' \in Seq(Events) /\ secondary' \in Seq(Events) /\ Range(primary') = {}
      BY <1>1, <2>1, EmptyRange
    <2> HIDE DEF Events, Fresh, Present
    <2> QED BY <1>1, <2>1, <2>2, <2>3 DEF QueueStep
  <1>8. \/ UNCHANGED <<made, queues, returnedNow>>
        \/ \E t \in Types : ReturnNew(t) \/ RaiseNew(t)
        \/ PassOn \/ RaiseAgain \/ ResetDuringDispatch
    BY DEF React, Subscribe, UnsubscribeSubscribeToEvent, Clear
  <1> QED BY <1>2, <1>3, <1>4, <1>5, <1>6, <1>7, <1>8

LEMMA ReactTable ==
  ASSUME TypeOK, React
  PROVE  /\ TableStep /\ broken' \in BOOLEAN
         /\ keys' \subseteq Types /\ subs' \in [Types -> Seq(Subscribers)]
         /\ \A t \in Types : subs'[t] # <<>> => t \in keys'
  <1>1. /\ keys \subseteq Types /\ subs \in [Types -> Seq(Subscribers)] /\ broken \in BOOLEAN
        /\ \A t \in Types : subs[t] # <<>> => t \in keys
    BY DEF TypeOK
  <1>2. CASE UNCHANGED tables /\ broken' \in BOOLEAN
    BY <1>1, <1>2 DEF TableStep, tables
  <1>3. ASSUME NEW t \in Types, UnsubscribeSubscribeToEvent(t)
        PROVE  /\ TableStep /\ broken' \in BOOLEAN
               /\ keys' \subseteq Types /\ subs' \in [Types -> Seq(Subscribers)]
               /\ \A k \in Types : subs'[k] # <<>> => k \in keys'
    <2>1. /\ "unsubscribe" \in setup.reactions
          /\ subs' = Unsubscribe(t) /\ keys' = keys /\ broken' = broken
      BY <1>3 DEF UnsubscribeSubscribeToEvent
    <2>2. subs' \in [Types -> Seq(Subscribers)] /\ \A k \in Types : Thinned(subs'[k], subs[k])
      <3>1. /\ Unsubscribe(t) \in [Types -> Seq(Subscribers)]
            /\ \A k \in Types : Thinned(Unsubscribe(t)[k], subs[k])
        BY TableThinned
      <3> QED BY <2>1, <3>1
    <2>3. \A k \in Types : subs[k] = <<>> => subs'[k] = <<>>
      BY <1>1, <2>2, ThinnedFacts
    <2> QED BY <1>1, <2>1, <2>2, <2>3 DEF TableStep
  <1>4. ASSUME NEW s \in Subscribers, NEW t \in Types, Subscribe(s, t)
        PROVE  /\ TableStep /\ broken' \in BOOLEAN
               /\ keys' \subseteq Types /\ subs' \in [Types -> Seq(Subscribers)]
               /\ \A k \in Types : subs'[k] # <<>> => k \in keys'
    <2>1. /\ "subscribe" \in setup.reactions /\ broken' \in BOOLEAN
          /\ subs' = WithSubscriber(s, t) /\ keys' = keys \cup {t}
      BY <1>4 DEF Subscribe
    <2>2. /\ subs' \in [Types -> Seq(Subscribers)]
          /\ \A k \in Types :
               \/ subs'[k] = subs[k]
               \/ k = t /\ s \notin Range(subs[t]) /\ subs'[k] = Append(subs[k], s)
      BY <2>1, TableLengthened
    <2>3. \A k \in Types : subs'[k] = subs[k] \/ (s \notin Range(subs[k]) /\ subs'[k] = Append(subs[k], s))
      BY <2>2
    <2>4. TableStep
      BY <2>1, <2>3 DEF TableStep
    <2>5. \A k \in Types : subs'[k] # <<>> => k \in keys'
      BY <1>1, <2>1, <2>2
    <2> QED BY <1>1, <2>1, <2>2, <2>4, <2>5
  <1>5. CASE Clear
    <2>1. /\ "clear" \in setup.reactions /\ broken' = broken
          /\ keys' = {} /\ subs' = [t \in Types |-> <<>>]
      BY <1>5 DEF Clear, ClearSubscribers
    <2>2. \A t \in Types : subs'[t] = <<>>
      BY <2>1
    <2>3. subs' \in [Types -> Seq(Subscribers)]
      BY <2>1, EmptySeq
    <2> QED BY <1>1, <2>1, <2>2, <2>3 DEF TableStep
  <1>6. \/ UNCHANGED tables /\ broken' \in BOOLEAN
        \/ \E t \in Types : UnsubscribeSubscribeToEvent(t)
        \/ \E s \in Subscribers, t \in Types : Subscribe(s, t)
        \/ Clear
    BY <1>1 DEF React, ReturnNew, RaiseNew, PassOn, RaiseAgain, ResetDuringDispatch, tables
  <1> QED BY <1>2, <1>3, <1>4, <1>5, <1>6

(* A dispatch begins before the first of the list.                         *)
LEMMA BeginFacts ==
  ASSUME TypeOK, NEW e \in Events \cup {Transient}, NEW t \in Types,
         NEW target \in Subscribers \cup {NoTarget}, Begin(e, t, target)
  PROVE  /\ dispatch' \in Dispatches /\ dispatch' # Idle
         /\ dispatch'.event = e /\ dispatch'.type = t /\ dispatch'.target = target
         /\ dispatch'.pos = 1 /\ dispatch'.end = Len(subs[t]) /\ dispatch'.pos <= dispatch'.end + 1
         /\ dispatch'.owed \subseteq Range(subs[t])
         /\ keys' = keys \cup {t} /\ handled' \subseteq handled
         /\ \A s \in Subscribers : <<Transient, s>> \in handled' => e # Transient
         /\ e # Transient => handled' = handled
  <1>1. subs[t] \in Seq(Subscribers) /\ Len(subs[t]) \in Nat
    BY DEF TypeOK
  <1>2. Range(subs[t]) \subseteq Subscribers
    BY <1>1, RangeOfSeq
  <1> DEFINE owed == Range(subs[t]) \cap (IF target = NoTarget THEN Subscribers ELSE {target})
             d == [event |-> e, type |-> t, pos |-> 1, end |-> Len(subs[t]),
                   target |-> target, moved |-> FALSE, owed |-> owed]
  <1>3. dispatch' = d
    BY DEF Begin
  <1>4. owed \subseteq Range(subs[t]) /\ owed \in SUBSET Subscribers
    BY <1>2
  <1> HIDE DEF owed
  <1>5. d \in Dispatches /\ d.pos <= d.end + 1
    BY <1>1, <1>4 DEF Dispatches
  <1>6. d # Idle
    BY DEF Idle
  <1>7. /\ keys' = keys \cup {t}
        /\ handled' = IF e = Transient THEN {h \in handled : h[1] # Transient} ELSE handled
    BY DEF Begin
  <1>8. \A s \in Subscribers : <<Transient, s>> \in handled' => e # Transient
    BY <1>7
  <1> QED BY <1>3, <1>4, <1>5, <1>6, <1>7, <1>8

-----------------------------------------------------------------------------
(* The types.                                                              *)
LEMMA Widened ==
  ASSUME Events \subseteq Events'
  PROVE  Dispatches \subseteq Dispatches' /\ Deliveries \subseteq Deliveries'
  <1>1. Dispatches' = [event : Events' \cup {Transient}, type : Types, pos : Nat \ {0}, end : Nat,
                       target : Subscribers \cup {NoTarget}, moved : BOOLEAN, owed : SUBSET Subscribers]
    BY DEF Dispatches
  <1>2. Deliveries' = (Events' \cup {Transient}) \X Subscribers
    BY DEF Deliveries
  <1> HIDE DEF Events
  <1>3. Dispatches \subseteq Dispatches'
    BY <1>1 DEF Dispatches
  <1>4. Deliveries \subseteq Deliveries'
    BY <1>2 DEF Deliveries
  <1> QED BY <1>3, <1>4

LEMMA TypeOutside ==
  ASSUME TypeOK, Outside,
         \/ Reset
         \/ \E t \in Types : Raise(t)
         \/ \E s \in Subscribers, t \in Types : SubscribeToEvent(s, t) \/ RemoveSubscription(s, t)
         \/ BeginProcessing
  PROVE  TypeOK'
  <1>1. dispatch = Idle /\ Idle.event = Transient /\ dispatch.event = Transient
    BY DEF Outside, Idle
  <1>2. CASE Reset
    <2>1. <<>> \in Seq(Events)
      BY EmptySeq
    <2> HIDE DEF Events
    <2> QED BY <1>1, <1>2, <2>1 DEF TypeOK, Reset, SwapQueues, tables, observers, Events, Dispatches, Deliveries
  <1>3. ASSUME NEW t \in Types, Raise(t) PROVE TypeOK'
    <2>1. made' = Append(made, t) /\ Len(made) < setup.maxEvents /\ primary' = Append(primary, NewEvent)
      BY <1>3 DEF Raise
    <2>2. /\ made' \in Seq(Types) /\ Len(made') <= setup.maxEvents /\ Events \subseteq Events'
          /\ NewEvent \in Events' /\ primary \in Seq(Events') /\ secondary \in Seq(Events')
      BY <2>1, Making
    <2>3. primary' \in Seq(Events')
      BY <2>1, <2>2, AppendProperties
    <2>4. Deliveries \subseteq Deliveries'
      BY <2>2, Widened
    <2>5. UNCHANGED <<setup, processed, secondary, tables, phase, dispatch, broken, observers>>
      BY <1>3 DEF Raise
    <2> HIDE DEF Events, Deliveries
    <2> QED BY <1>1, <2>2, <2>3, <2>4, <2>5 DEF TypeOK, tables, observers
  <1>4. ASSUME NEW s \in Subscribers, NEW t \in Types, SubscribeToEvent(s, t) PROVE TypeOK'
    <2>1. /\ subs' = WithSubscriber(s, t) /\ keys' = keys \cup {t}
          /\ UNCHANGED <<setup, made, processed, queues, phase, dispatch, broken, observers>>
      BY <1>4 DEF SubscribeToEvent
    <2>2. /\ subs' \in [Types -> Seq(Subscribers)]
          /\ \A k \in Types :
               \/ subs'[k] = subs[k]
               \/ k = t /\ s \notin Range(subs[t]) /\ subs'[k] = Append(subs[k], s)
      BY SMTT(30), <2>1, TableLengthened
    <2>3. keys' \subseteq Types /\ \A k \in Types : subs'[k] # <<>> => k \in keys'
      BY <2>1, <2>2 DEF TypeOK
    <2> QED BY <1>1, <2>1, <2>2, <2>3 DEF TypeOK, queues, observers, Events, Dispatches, Deliveries
  <1>5. ASSUME NEW s \in Subscribers, NEW t \in Types, RemoveSubscription(s, t) PROVE TypeOK'
    <2>1. /\ subs' = RemoveEventSubscription(s, t)
          /\ UNCHANGED <<setup, made, processed, queues, keys, phase, dispatch, broken, observers>>
      BY <1>5 DEF RemoveSubscription
    <2>2. subs' \in [Types -> Seq(Subscribers)] /\ \A k \in Types : Thinned(subs'[k], subs[k])
      BY <2>1, TableThinned
    <2>3. \A k \in Types : subs'[k] # <<>> => k \in keys'
      BY <2>1, <2>2, ThinnedFacts DEF TypeOK
    <2> QED BY <1>1, <2>1, <2>2, <2>3 DEF TypeOK, queues, observers, Events, Dispatches, Deliveries
  <1>6. CASE BeginProcessing
    <2>1. 1 \in 0 .. Len(FrameTypes) + 1
      BY EventManagerAssumption
    <2> QED BY <1>1, <1>6, <2>1
          DEF TypeOK, BeginProcessing, queues, tables, observers, Events, Dispatches, Deliveries
  <1> QED BY <1>2, <1>3, <1>4, <1>5, <1>6

LEMMA TypeBegin ==
  ASSUME TypeOK, NEW e \in Events \cup {Transient}, NEW t \in Types,
         NEW target \in Subscribers \cup {NoTarget}, Begin(e, t, target),
         e # Transient => phase = 1 /\ primary # <<>>,
         UNCHANGED <<setup, made, processed, queues, subs, phase, broken, twice, missed, returnedNow>>
  PROVE  TypeOK'
  <1>1. /\ dispatch' \in Dispatches /\ dispatch'.event = e /\ dispatch'.pos <= dispatch'.end + 1
        /\ keys' = keys \cup {t} /\ handled' \subseteq handled
    BY BeginFacts
  <1> HIDE DEF Begin
  <1> QED BY <1>1 DEF TypeOK, queues, Events, Dispatches, Deliveries

LEMMA TypeSend == TypeOK /\ Send => TypeOK'
  <1> SUFFICES ASSUME TypeOK, Send PROVE TypeOK'
    OBVIOUS
  <1>1. /\ React /\ InLoop /\ dispatch.pos <= Len(subs[dispatch.type])
        /\ handled' = handled \cup {<<dispatch.event, Current>>}
        /\ twice' \subseteq twice \cup {<<dispatch.event, Current>>}
        /\ dispatch' = [dispatch EXCEPT !.pos = @ + 1, !.moved = ItsElementMoved]
        /\ UNCHANGED <<setup, processed, phase, missed>>
    BY DEF Send
  <1>2. QueueStep
    BY <1>1, ReactQueues
  <1>3. /\ broken' \in BOOLEAN /\ keys' \subseteq Types /\ subs' \in [Types -> Seq(Subscribers)]
        /\ \A t \in Types : subs'[t] # <<>> => t \in keys'
    BY <1>1, ReactTable
  <1>4. /\ dispatch \in Dispatches /\ dispatch.pos <= dispatch.end
        /\ dispatch.event \in Events \cup {Transient}
    BY <1>1 DEF InLoop, TypeOK, Dispatches
  <1>5. Current \in Subscribers
    <2>1. subs[dispatch.type] \in Seq(Subscribers) /\ dispatch.pos \in Nat \ {0}
      BY <1>4 DEF TypeOK, Dispatches
    <2>2. dispatch.pos \in 1 .. Len(subs[dispatch.type])
      BY <1>1, <2>1
    <2> QED BY <2>1, <2>2 DEF Current
  <1>6. Dispatches \subseteq Dispatches' /\ Deliveries \subseteq Deliveries' /\ Events \subseteq Events'
    BY <1>2, Widened DEF QueueStep
  <1>7. /\ dispatch' \in Dispatches /\ dispatch'.event = dispatch.event /\ dispatch'.pos <= dispatch'.end + 1
        /\ dispatch'.moved = ItsElementMoved
    <2>1. ItsElementMoved \in BOOLEAN
      BY <1>4 DEF ItsElementMoved, Dispatches
    <2> DEFINE moved == ItsElementMoved
    <2>2. moved \in BOOLEAN /\ dispatch' = [dispatch EXCEPT !.pos = @ + 1, !.moved = moved]
      BY <1>1, <2>1
    <2> HIDE DEF moved
    <2> DEFINE next == dispatch.pos + 1
               stepped == [dispatch EXCEPT !.pos = next]
    <2>3. next \in Nat \ {0} /\ next <= dispatch.end + 1 /\ dispatch.end \in Nat
      BY <1>4 DEF Dispatches
    <2>4. dispatch' = [stepped EXCEPT !.moved = moved]
      BY <2>2
    <2> HIDE DEF next
    <2>5. /\ stepped \in Dispatches /\ stepped.event = dispatch.event
          /\ stepped.pos = next /\ stepped.end = dispatch.end
      BY <1>4, <2>3 DEF Dispatches
    <2> HIDE DEF stepped
    <2>6. /\ dispatch' \in Dispatches /\ dispatch'.event = stepped.event
          /\ dispatch'.pos = stepped.pos /\ dispatch'.end = stepped.end /\ dispatch'.moved = moved
      BY <2>2, <2>4, <2>5 DEF Dispatches
    <2> QED BY <2>3, <2>5, <2>6 DEF moved
  <1>8. <<dispatch.event, Current>> \in Deliveries
    BY <1>4, <1>5 DEF Deliveries
  <1>9. handled' \subseteq Deliveries' /\ twice' \subseteq Deliveries' /\ missed' \subseteq Deliveries'
    BY <1>1, <1>6, <1>8 DEF TypeOK
  <1>10. dispatch'.event # Transient => phase' = 1 /\ (primary' # <<>> \/ dispatch'.moved)
    BY <1>1, <1>7 DEF TypeOK, InLoop, ItsElementMoved
  <1>11. dispatch' \in Dispatches' /\ processed' \subseteq Events'
    BY <1>1, <1>6, <1>7 DEF TypeOK
  <1> HIDE DEF Events, Dispatches, Deliveries
  <1> QED BY <1>1, <1>2, <1>3, <1>7, <1>9, <1>10, <1>11 DEF TypeOK, QueueStep

LEMMA TypeOver ==
  ASSUME TypeOK, ~broken, dispatch # Idle, Over,
         processed' = processed \/ processed' = processed \cup ({dispatch.event} \ {Transient})
  PROVE  TypeOK'
  <1>1. /\ dispatch' = Idle /\ Idle.event = Transient
        /\ primary' = IF phase = 1 /\ primary # <<>> THEN Tail(primary) ELSE primary
        /\ phase' = IF phase <= 1 THEN phase ELSE (phase + 1) % (Len(FrameTypes) + 2)
        /\ UNCHANGED <<setup, made, secondary, tables, broken, handled, twice, returnedNow>>
    BY DEF Over, Idle
  <1>2. primary' \in Seq(Events)
    BY <1>1, TailRange DEF TypeOK
  <1>3. phase' \in 0 .. Len(FrameTypes) + 1
    <2>1. Len(FrameTypes) \in Nat
      BY EventManagerAssumption
    <2>2. (phase + 1) % (Len(FrameTypes) + 2) \in 0 .. Len(FrameTypes) + 1
      BY <2>1 DEF TypeOK
    <2> QED BY <1>1, <2>2 DEF TypeOK
  <1>4. dispatch \in Dispatches /\ dispatch.event \in Events \cup {Transient} /\ dispatch.owed \subseteq Subscribers
    BY DEF TypeOK, Dispatches
  <1>5. missed' \subseteq Deliveries
    <2> DEFINE e == dispatch.event
               waiting == dispatch.owed
    <2>1. e \in Events \cup {Transient} /\ waiting \subseteq Subscribers /\ missed \subseteq Deliveries
      BY <1>4 DEF TypeOK
    <2>2. missed' \subseteq missed \cup {<<e, s>> : s \in waiting}
      BY DEF Over
    <2> HIDE DEF e, waiting, Events
    <2>3. {<<e, s>> : s \in waiting} \subseteq Deliveries
      BY <2>1 DEF Deliveries
    <2> QED BY <2>1, <2>2, <2>3
  <1>6. processed' \subseteq Events
    BY <1>4 DEF TypeOK
  <1> QED BY <1>1, <1>2, <1>3, <1>5, <1>6 DEF TypeOK, tables, Events, Dispatches, Deliveries

LEMMA TypeNext == TypeOK /\ [Next]_vars => TypeOK'
  <1> SUFFICES ASSUME TypeOK, [Next]_vars PROVE TypeOK'
    OBVIOUS
  <1>0. made \in Seq(Types) /\ primary \in Seq(Events) /\ secondary \in Seq(Events)
    BY DEF TypeOK
  <1>1. CASE \/ Reset \/ \E t \in Types : Raise(t)
             \/ \E s \in Subscribers, t \in Types : SubscribeToEvent(s, t) \/ RemoveSubscription(s, t)
             \/ BeginProcessing
    <2>1. Outside
      BY <1>1 DEF Reset, Raise, SubscribeToEvent, RemoveSubscription, BeginProcessing
    <2> QED BY <1>1, <2>1, TypeOutside
  <1>2. ASSUME NEW t \in Types, NEW s \in Subscribers, DispatchToTarget(t, s) PROVE TypeOK'
    BY <1>2, TypeBegin DEF DispatchToTarget
  <1>3. CASE Take
    <2> DEFINE e == Head(primary)
    <2>1. e \in Events
      BY <1>0, <1>3, HeadTailProperties DEF Take
    <2>2. made[e] \in Types
      BY <1>0, <2>1 DEF Events
    <2>3. /\ Begin(e, made[e], NoTarget) /\ phase = 1 /\ primary # <<>>
          /\ UNCHANGED <<setup, made, processed, queues, subs, phase, broken, twice, missed, returnedNow>>
      BY <1>3 DEF Take
    <2> HIDE DEF e
    <2> QED BY <2>1, <2>2, <2>3, TypeBegin
  <1>4. CASE SkipProcessed
    <2>1. primary' \in Seq(Events)
      BY <1>0, <1>4, TailRange DEF SkipProcessed
    <2>2. dispatch.event = Transient
      BY <1>4 DEF SkipProcessed, Idle
    <2> QED BY <1>4, <2>1, <2>2 DEF TypeOK, SkipProcessed, tables, observers, Events, Dispatches, Deliveries
  <1>5. CASE DispatchDirectly
    <2> DEFINE t == FrameTypes[phase - 1]
    <2>1. t \in Types
      BY <1>5, EventManagerAssumption DEF DispatchDirectly
    <2>2. /\ Begin(Transient, t, NoTarget)
          /\ UNCHANGED <<setup, made, processed, queues, subs, phase, broken, twice, missed, returnedNow>>
      BY <1>5 DEF DispatchDirectly
    <2> HIDE DEF t
    <2> QED BY <2>1, <2>2, TypeBegin
  <1>6. CASE Send
    BY <1>6, TypeSend
  <1>7. CASE RunOffTheEnd
    BY <1>7 DEF TypeOK, RunOffTheEnd, queues, tables, observers, Events, Dispatches, Deliveries
  <1>8. CASE ReturnAfterClear \/ ReturnAtOther \/ Finish
    <2>1. ~broken /\ dispatch # Idle /\ Over
      BY <1>8 DEF ReturnAfterClear, ReturnAtOther, Finish, InLoop
    <2>2. processed' = processed \/ processed' = processed \cup ({dispatch.event} \ {Transient})
      BY <1>8 DEF ReturnAfterClear, ReturnAtOther, Finish
    <2> QED BY <2>1, <2>2, TypeOver
  <1>9. CASE EndProcessing
    <2>1. primary' \in Seq(Events) /\ secondary' \in Seq(Events)
      BY <1>0, <1>9, ConcatProperties, EmptySeq DEF EndProcessing, PrimaryAfterFrame
    <2>2. phase' \in 0 .. Len(FrameTypes) + 1
      <3>1. Len(FrameTypes) \in Nat
        BY EventManagerAssumption
      <3>2. 2 % (Len(FrameTypes) + 2) \in 0 .. Len(FrameTypes) + 1
        BY <3>1
      <3> QED BY <1>9, <3>2 DEF EndProcessing
    <2>3. dispatch.event = Transient /\ dispatch' = dispatch
      BY <1>9 DEF EndProcessing, Idle
    <2> QED BY <1>9, <2>1, <2>2, <2>3 DEF TypeOK, EndProcessing, tables, Events, Dispatches, Deliveries
  <1>10. CASE UNCHANGED vars
    BY <1>10 DEF TypeOK, vars, queues, tables, observers, Events, Dispatches, Deliveries
  <1> QED BY <1>1, <1>2, <1>3, <1>4, <1>5, <1>6, <1>7, <1>8, <1>9, <1>10 DEF Next, Loop

LEMMA TypeInit == Init => TypeOK
  <1> SUFFICES ASSUME Init PROVE TypeOK
    OBVIOUS
  <1>1. \A T : <<>> \in Seq(T)
    BY EmptyRange
  <1>2. made \in Seq(Types) /\ Len(made) = 0 /\ primary \in Seq(Events) /\ secondary \in Seq(Events)
    BY <1>1 DEF Init
  <1>3. subs \in [Types -> Seq(Subscribers)] /\ \A t \in Types : subs[t] = <<>>
    BY <1>1 DEF Init
  <1>4. Len(FrameTypes) \in Nat /\ setup \in Setups /\ setup.maxEvents \in Nat
    BY EventManagerAssumption DEF Init
  <1>5. dispatch = Idle /\ dispatch.event = Transient
    BY DEF Init, Idle
  <1>6. /\ Len(made) <= setup.maxEvents /\ phase \in 0 .. Len(FrameTypes) + 1 /\ broken \in BOOLEAN
        /\ \A t \in Types : subs[t] # <<>> => t \in keys
    <2>1. Len(made) <= setup.maxEvents
      BY <1>2, <1>4
    <2>2. phase \in 0 .. Len(FrameTypes) + 1
      BY <1>4 DEF Init
    <2>3. broken \in BOOLEAN
      BY DEF Init
    <2> QED BY <1>3, <2>1, <2>2, <2>3
  <1>7. /\ processed \subseteq Events /\ returnedNow \subseteq Events /\ keys \subseteq Types
        /\ handled \subseteq Deliveries /\ twice \subseteq Deliveries /\ missed \subseteq Deliveries
    BY DEF Init
  <1> HIDE DEF Init, Events
  <1> QED BY <1>2, <1>3, <1>4, <1>5, <1>6, <1>7 DEF TypeOK

-----------------------------------------------------------------------------
(* What handlers return waits for the next frame.                          *)
LEMMA WaitsNext == TypeOK /\ WaitsInv /\ [Next]_vars => WaitsInv'
  <1> SUFFICES ASSUME TypeOK, WaitsInv, [Next]_vars PROVE WaitsInv'
    OBVIOUS
  <1>0. /\ primary \in Seq(Events) /\ secondary \in Seq(Events) /\ returnedNow \subseteq Events
        /\ Range(primary) \subseteq Events /\ Transient \notin Events /\ Transient \notin Events'
        /\ dispatch.event \in Events \cup {Transient}
    <2>1. primary \in Seq(Events) /\ secondary \in Seq(Events) /\ returnedNow \subseteq Events
      BY DEF TypeOK
    <2>2. Range(primary) \subseteq Events
      BY <2>1, RangeOfSeq
    <2>3. Transient \notin Events /\ Transient \notin Events'
      BY DEF Events, Transient
    <2>4. dispatch.event \in Events \cup {Transient}
      BY DEF TypeOK, Dispatches, Idle
    <2> QED BY <2>1, <2>2, <2>3, <2>4
  <1>1. ASSUME Range(primary') \subseteq Range(primary), returnedNow' \subseteq returnedNow,
               dispatch'.event \in {dispatch.event, Transient}
        PROVE  WaitsInv'
    <2> HIDE DEF Events
    <2> QED BY <1>0, <1>1 DEF WaitsInv
  <1>2. CASE Reset
    BY <1>1, <1>2, EmptyRange DEF Reset, SwapQueues, observers
  <1>3. ASSUME NEW t \in Types, Raise(t) PROVE WaitsInv'
    <2>1. made' = Append(made, t) /\ Len(made) < setup.maxEvents /\ primary' = Append(primary, NewEvent)
          /\ returnedNow' = returnedNow /\ dispatch' = dispatch
      BY <1>3 DEF Raise, observers
    <2>2. NewEvent \in Events' /\ primary \in Seq(Events') /\ NewEvent \in Fresh
      BY <2>1, Making
    <2>3. Range(primary') = Range(primary) \cup {NewEvent}
      BY <2>1, <2>2, AppendRange
    <2>4. NewEvent \notin returnedNow
      BY <1>0, <2>2 DEF Fresh
    <2> HIDE DEF NewEvent, Events
    <2> QED BY <2>1, <2>3, <2>4 DEF WaitsInv
  <1>4. ASSUME NEW s \in Subscribers, NEW t \in Types, SubscribeToEvent(s, t) \/ RemoveSubscription(s, t)
        PROVE  WaitsInv'
    BY <1>1, <1>4 DEF SubscribeToEvent, RemoveSubscription, queues, observers
  <1>5. ASSUME NEW t \in Types, NEW s \in Subscribers, DispatchToTarget(t, s) PROVE WaitsInv'
    BY <1>1, <1>5 DEF DispatchToTarget, Begin, queues
  <1>6. CASE Take
    <2> DEFINE e == Head(primary)
    <2>1. e \in Range(primary) /\ dispatch'.event = e /\ UNCHANGED <<primary, returnedNow>>
      BY <1>0, <1>6, TailRange DEF Take, Begin, queues
    <2> HIDE DEF e, Events
    <2> QED BY <2>1 DEF WaitsInv
  <1>7. CASE SkipProcessed
    BY <1>0, <1>1, <1>7, TailRange DEF SkipProcessed, observers
  <1>8. CASE DispatchDirectly
    BY <1>1, <1>8 DEF DispatchDirectly, Begin, queues
  <1>9. CASE Send
    <2>1. QueueStep
      BY <1>9, ReactQueues DEF Send
    <2>2. dispatch'.event = dispatch.event
      <3>1. dispatch # Idle
        BY <1>9 DEF Send, InLoop
      <3> QED BY <1>9, <3>1 DEF Send, TypeOK, Dispatches
    <2>3. /\ Range(primary') \subseteq Range(primary) \cup {dispatch.event} \cup Fresh
          /\ returnedNow' \subseteq returnedNow \cup Fresh
          /\ Range(primary') \cap returnedNow' \cap Fresh = {}
      BY <2>1 DEF QueueStep, Present
    <2>4. Fresh \cap (Events \cup {Transient}) = {}
      BY <1>0 DEF Fresh
    <2> HIDE DEF Fresh, Events
    <2>5. dispatch.event \notin returnedNow'
      BY <1>0, <2>3, <2>4 DEF WaitsInv
    <2> QED BY <1>0, <2>2, <2>3, <2>4, <2>5 DEF WaitsInv
  <1>10. CASE RunOffTheEnd \/ BeginProcessing
    BY <1>1, <1>10 DEF RunOffTheEnd, BeginProcessing, queues, observers
  <1>11. CASE ReturnAfterClear \/ ReturnAtOther \/ Finish
    <2>1. Over
      BY <1>11 DEF ReturnAfterClear, ReturnAtOther, Finish
    <2>2. Range(primary') \subseteq Range(primary)
      BY <1>0, <2>1, TailRange DEF Over
    <2>3. dispatch'.event = Transient /\ returnedNow' = returnedNow
      BY <2>1 DEF Over, Idle
    <2> QED BY <1>1, <2>2, <2>3
  <1>12. CASE EndProcessing
    <2>1. returnedNow' = {}
      BY <1>12 DEF EndProcessing
    <2> QED BY <2>1 DEF WaitsInv
  <1>13. CASE UNCHANGED vars
    BY <1>1, <1>13 DEF vars, queues, observers
  <1> QED BY <1>2, <1>3, <1>4, <1>5, <1>6, <1>7, <1>8, <1>9, <1>10, <1>11, <1>12, <1>13 DEF Next, Loop

-----------------------------------------------------------------------------
(* The kinds of steps, and what the dispatch refers to.                    *)
LEMMA SetupStays == [Next]_vars => setup' = setup
  BY DEF Next, Loop, vars, BeginProcessing, EndProcessing, Take, SkipProcessed, DispatchDirectly, Send,
         RunOffTheEnd, ReturnAfterClear, ReturnAtOther, Finish, Over, Reset, Raise, DispatchToTarget,
         SubscribeToEvent, RemoveSubscription

(* The steps that are outside every dispatch.                              *)
StaysIdle ==
    \/ Reset \/ BeginProcessing \/ EndProcessing \/ SkipProcessed
    \/ \E t \in Types : Raise(t)
    \/ \E s \in Subscribers, t \in Types : SubscribeToEvent(s, t) \/ RemoveSubscription(s, t)

(* The steps that begin a dispatch.                                        *)
Begins(e, t, target) ==
    /\ dispatch = Idle
    /\ e \in Events \cup {Transient} /\ t \in Types /\ target \in Subscribers \cup {NoTarget}
    /\ Begin(e, t, target)
    /\ UNCHANGED <<setup, made, processed, queues, subs, phase, broken, twice, missed, returnedNow>>
    /\ \/ e \in Range(primary) /\ e \notin processed /\ phase = 1 /\ target = NoTarget
       \/ e = Transient

LEMMA StepCases ==
  ASSUME TypeOK, [Next]_vars
  PROVE  \/ StaysIdle
         \/ \E e \in Events \cup {Transient}, t \in Types, target \in Subscribers \cup {NoTarget} :
               Begins(e, t, target) /\ (target # NoTarget => setup.targets)
         \/ Send \/ RunOffTheEnd \/ ReturnAfterClear \/ ReturnAtOther \/ Finish
         \/ UNCHANGED vars
  <1>1. ASSUME NEW t \in Types, NEW s \in Subscribers, DispatchToTarget(t, s)
        PROVE  Begins(Transient, t, s) /\ setup.targets
    BY <1>1 DEF DispatchToTarget, Begins, Outside
  <1>2. CASE Take
    <2> DEFINE e == Head(primary)
    <2>1. primary \in Seq(Events) /\ made \in Seq(Types)
      BY DEF TypeOK
    <2>2. e \in Events /\ e \in Range(primary)
      BY <1>2, <2>1, HeadTailProperties, TailRange DEF Take
    <2>3. made[e] \in Types
      BY <2>1, <2>2 DEF Events
    <2>4. /\ Begin(e, made[e], NoTarget) /\ phase = 1 /\ dispatch = Idle /\ e \notin processed
          /\ UNCHANGED <<setup, made, processed, queues, subs, phase, broken, twice, missed, returnedNow>>
      BY <1>2 DEF Take, IsProcessed
    <2> HIDE DEF e
    <2>5. Begins(e, made[e], NoTarget)
      BY <2>2, <2>3, <2>4 DEF Begins
    <2> QED BY <2>2, <2>3, <2>5
  <1>3. CASE DispatchDirectly
    <2> DEFINE t == FrameTypes[phase - 1]
    <2>1. t \in Types
      BY <1>3, EventManagerAssumption DEF DispatchDirectly
    <2>2. /\ Begin(Transient, t, NoTarget) /\ dispatch = Idle
          /\ UNCHANGED <<setup, made, processed, queues, subs, phase, broken, twice, missed, returnedNow>>
      BY <1>3 DEF DispatchDirectly
    <2> HIDE DEF t
    <2>3. Begins(Transient, t, NoTarget)
      BY <2>1, <2>2 DEF Begins
    <2> QED BY <2>1, <2>3
  <1> QED BY <1>1, <1>2, <1>3 DEF Next, Loop, StaysIdle

LEMMA IdleStays ==
  ASSUME StaysIdle
  PROVE  dispatch = Idle /\ dispatch' = Idle /\ UNCHANGED <<handled, twice, missed, processed>>
  BY DEF StaysIdle, Reset, BeginProcessing, EndProcessing, SkipProcessed, Raise, SubscribeToEvent,
         RemoveSubscription, Outside, observers

(* What a subscription leaves of a list: the list, and perhaps one more.   *)
LEMMA AppendKeeps ==
  ASSUME NEW T, NEW old \in Seq(T), NEW new, NEW s \in T, new = old \/ new = Append(old, s)
  PROVE  /\ new \in Seq(T) /\ Len(old) <= Len(new) /\ Len(new) <= Len(old) + 1
         /\ \A i \in 1 .. Len(old) : new[i] = old[i]
         /\ \A i \in 1 .. Len(new) : i \in 1 .. Len(old) \/ (i = Len(old) + 1 /\ new[i] = s /\ new = Append(old, s))
  <1>1. Len(old) \in Nat
    OBVIOUS
  <1>2. CASE new = old
    BY <1>1, <1>2
  <1>3. CASE new = Append(old, s)
    <2>1. /\ new \in Seq(T) /\ Len(new) = Len(old) + 1 /\ new[Len(old) + 1] = s
          /\ \A i \in 1 .. Len(old) : new[i] = old[i]
      BY <1>3, AppendProperties
    <2> QED BY <1>1, <1>3, <2>1
  <1> QED BY <1>2, <1>3

(* Where the loop is, while it is in the list.                             *)
LEMMA LoopFacts ==
  ASSUME TypeOK, dispatch # Idle
  PROVE  /\ dispatch \in Dispatches /\ dispatch.type \in Types
         /\ dispatch.pos \in Nat \ {0} /\ dispatch.end \in Nat /\ dispatch.pos <= dispatch.end + 1
         /\ dispatch.event \in Events \cup {Transient} /\ dispatch.owed \subseteq Subscribers
         /\ subs[dispatch.type] \in Seq(Subscribers) /\ Len(subs[dispatch.type]) \in Nat
         /\ dispatch.pos <= Len(subs[dispatch.type]) => Current \in Subscribers
  <1>1. /\ dispatch \in Dispatches /\ dispatch.type \in Types
        /\ dispatch.pos \in Nat \ {0} /\ dispatch.end \in Nat /\ dispatch.pos <= dispatch.end + 1
        /\ dispatch.event \in Events \cup {Transient} /\ dispatch.owed \subseteq Subscribers
    BY DEF TypeOK, Dispatches
  <1>2. subs[dispatch.type] \in Seq(Subscribers) /\ Len(subs[dispatch.type]) \in Nat
    BY <1>1 DEF TypeOK
  <1>3. dispatch.pos <= Len(subs[dispatch.type]) => dispatch.pos \in 1 .. Len(subs[dispatch.type])
    BY <1>1, <1>2
  <1> QED BY <1>1, <1>2, <1>3 DEF Current

(* What every Send does to the loop.                                       *)
LEMMA SendFacts ==
  ASSUME TypeOK, Send
  PROVE  /\ React /\ TableStep /\ ~broken /\ dispatch # Idle /\ dispatch' # Idle /\ keys # {}
         /\ dispatch.pos <= dispatch.end /\ dispatch.pos <= Len(subs[dispatch.type])
         /\ dispatch'.event = dispatch.event /\ dispatch'.type = dispatch.type
         /\ dispatch'.target = dispatch.target /\ dispatch'.end = dispatch.end
         /\ dispatch'.owed = dispatch.owed /\ dispatch'.pos = dispatch.pos + 1 /\ dispatch'.moved = ItsElementMoved
         /\ handled' = handled \cup {<<dispatch.event, Current>>}
         /\ twice' = (IF <<dispatch.event, Current>> \in handled
                      THEN twice \cup {<<dispatch.event, Current>>} ELSE twice)
         /\ UNCHANGED <<setup, processed, phase, missed>>
  <1>1. /\ React /\ ~broken /\ dispatch # Idle /\ keys # {}
        /\ dispatch.pos <= dispatch.end /\ dispatch.pos <= Len(subs[dispatch.type])
        /\ dispatch' = [dispatch EXCEPT !.pos = dispatch.pos + 1, !.moved = ItsElementMoved]
        /\ handled' = handled \cup {<<dispatch.event, Current>>}
        /\ twice' = (IF <<dispatch.event, Current>> \in handled
                     THEN twice \cup {<<dispatch.event, Current>>} ELSE twice)
        /\ UNCHANGED <<setup, processed, phase, missed>>
    BY DEF Send, InLoop
  <1>2. TableStep
    BY <1>1, ReactTable
  <1>3. dispatch \in Dispatches /\ dispatch.pos \in Nat
    BY <1>1, LoopFacts
  <1>4. /\ dispatch'.event = dispatch.event /\ dispatch'.type = dispatch.type
        /\ dispatch'.target = dispatch.target /\ dispatch'.end = dispatch.end
        /\ dispatch'.owed = dispatch.owed /\ dispatch'.pos = dispatch.pos + 1 /\ dispatch'.moved = ItsElementMoved
    BY <1>1, <1>3 DEF Dispatches
  <1>5. dispatch'.pos # Idle.pos
    BY <1>3, <1>4 DEF Idle
  <1> QED BY <1>1, <1>2, <1>4, <1>5

(* A handler's queue operations lengthen the queues, or move the primary   *)
(* queue: what the dispatch refers to stays in one, or broken says not.    *)
LEMMA ReactHolds ==
  ASSUME TypeOK, React, dispatch.event # Transient
  PROVE  \/ /\ Range(secondary) \subseteq Range(secondary')
            /\ primary # <<>> => primary' # <<>> /\ Head(primary') = Head(primary)
         \/ primary' = <<>> /\ secondary' = primary /\ broken' = dispatch.moved
  <1>1. primary \in Seq(Events) /\ secondary \in Seq(Events) /\ dispatch.event \in Events
    BY DEF TypeOK, Dispatches, Idle
  <1>2. ASSUME NEW T, NEW q \in Seq(T), NEW x \in T
        PROVE  /\ Range(q) \subseteq Range(Append(q, x))
               /\ q # <<>> => Append(q, x) # <<>> /\ Head(Append(q, x)) = Head(q)
    <2>1. Range(Append(q, x)) = Range(q) \cup {x}
      BY AppendRange
    <2>2. /\ Append(q, x) \in Seq(T) /\ Append(q, x) # <<>>
          /\ q # <<>> => Append(q, x)[1] = q[1]
      BY AppendProperties, EmptySeq
    <2> QED BY <2>1, <2>2
  <1>3. ASSUME NEW t \in Types, ReturnNew(t) \/ RaiseNew(t)
        PROVE  /\ Range(secondary) \subseteq Range(secondary')
               /\ primary # <<>> => primary' # <<>> /\ Head(primary') = Head(primary)
    <2>1. /\ made' = Append(made, t) /\ Len(made) < setup.maxEvents
          /\ \/ primary' = primary /\ secondary' = Append(secondary, NewEvent)
             \/ primary' = Append(primary, NewEvent) /\ secondary' = secondary
      BY <1>3 DEF ReturnNew, RaiseNew
    <2>2. NewEvent \in Events' /\ primary \in Seq(Events') /\ secondary \in Seq(Events')
      BY <2>1, Making
    <2> HIDE DEF Events, NewEvent
    <2>3. Range(secondary) \subseteq Range(Append(secondary, NewEvent))
      BY <1>2, <2>2
    <2>4. primary # <<>> => Append(primary, NewEvent) # <<>> /\ Head(Append(primary, NewEvent)) = Head(primary)
      BY <1>2, <2>2
    <2> QED BY <2>1, <2>3, <2>4
  <1>4. CASE PassOn \/ RaiseAgain
    <2>1. \/ primary' = primary /\ secondary' = Append(secondary, dispatch.event)
          \/ primary' = Append(primary, dispatch.event) /\ secondary' = secondary
      BY <1>4 DEF PassOn, RaiseAgain
    <2> HIDE DEF Events
    <2> QED BY <1>1, <1>2, <2>1
  <1>5. CASE ResetDuringDispatch
    BY <1>5 DEF ResetDuringDispatch, SwapQueues, TypeOK, Dispatches, Idle
  <1>6. CASE UNCHANGED queues
    BY <1>6 DEF queues
  <1> QED BY <1>3, <1>4, <1>5, <1>6 DEF React, Subscribe, UnsubscribeSubscribeToEvent, Clear

LEMMA HoldsNext == TypeOK /\ ReferenceHolds /\ [Next]_vars => ReferenceHolds'
  <1> SUFFICES ASSUME TypeOK, ReferenceHolds, [Next]_vars PROVE ReferenceHolds'
    OBVIOUS
  <1>1. CASE dispatch' = Idle
    BY <1>1 DEF ReferenceHolds, Idle
  <1>2. CASE UNCHANGED <<primary, secondary, dispatch, broken>>
    BY <1>2 DEF ReferenceHolds
  <1>3. ASSUME broken' PROVE ReferenceHolds'
    BY <1>3 DEF ReferenceHolds
  <1>4. ASSUME NEW e \in Events \cup {Transient}, NEW t \in Types, NEW target \in Subscribers \cup {NoTarget},
               Begin(e, t, target), e # Transient => primary # <<>> /\ Head(primary) = e,
               UNCHANGED queues
        PROVE  ReferenceHolds'
    <2>1. dispatch'.event = e /\ dispatch'.moved = FALSE
      BY <1>4 DEF Begin
    <2> QED BY <1>4, <2>1 DEF ReferenceHolds, queues
  <1>5. CASE Take
    <2> DEFINE e == Head(primary)
    <2>1. primary \in Seq(Events) /\ primary # <<>> /\ made \in Seq(Types)
      BY <1>5 DEF TypeOK, Take
    <2>2. e \in Events
      BY <2>1, HeadTailProperties
    <2>3. made[e] \in Types
      BY <2>1, <2>2 DEF Events
    <2>4. Begin(e, made[e], NoTarget) /\ UNCHANGED queues
      BY <1>5 DEF Take, queues
    <2> HIDE DEF Begin, Events
    <2> QED BY <1>4, <2>1, <2>2, <2>3, <2>4
  <1>6. CASE Send
    <2>1. /\ React /\ ~broken /\ dispatch'.event = dispatch.event /\ dispatch'.moved = ItsElementMoved
      BY <1>6, SendFacts
    <2> SUFFICES ASSUME dispatch.event # Transient, ~broken' PROVE ReferenceHolds'
      BY <2>1 DEF ReferenceHolds
    <2>2. /\ dispatch.moved \in BOOLEAN
          /\ IF dispatch.moved THEN dispatch.event \in Range(secondary)
             ELSE primary # <<>> /\ Head(primary) = dispatch.event
      BY <2>1 DEF ReferenceHolds, TypeOK, Dispatches, Idle
    <2>3. CASE /\ Range(secondary) \subseteq Range(secondary')
               /\ primary # <<>> => primary' # <<>> /\ Head(primary') = Head(primary)
      <3>1. CASE dispatch.moved
        BY <2>1, <2>2, <2>3, <3>1 DEF ReferenceHolds, ItsElementMoved
      <3>2. CASE ~dispatch.moved
        BY <2>1, <2>2, <2>3, <3>2 DEF ReferenceHolds, ItsElementMoved
      <3> QED BY <2>2, <3>1, <3>2
    <2>4. CASE primary' = <<>> /\ secondary' = primary /\ broken' = dispatch.moved
      <3>1. primary # <<>> /\ Head(primary) = dispatch.event /\ primary \in Seq(Events)
        BY <2>2, <2>4 DEF TypeOK
      <3>2. dispatch.event \in Range(primary)
        <4> HIDE DEF Events
        <4> QED BY <3>1, TailRange
      <3> QED BY <2>1, <2>4, <3>2 DEF ReferenceHolds, ItsElementMoved
    <2> QED BY <2>1, <2>3, <2>4, ReactHolds
  <1>7. CASE RunOffTheEnd
    BY <1>3, <1>7 DEF RunOffTheEnd
  <1>8. CASE ReturnAfterClear \/ ReturnAtOther \/ Finish
    BY <1>1, <1>8 DEF ReturnAfterClear, ReturnAtOther, Finish, Over
  <1>9. CASE DispatchDirectly \/ \E s \in Subscribers, t \in Types : DispatchToTarget(t, s)
    <2>1. dispatch'.event = Transient
      BY <1>9 DEF DispatchDirectly, DispatchToTarget, Begin
    <2> QED BY <2>1 DEF ReferenceHolds
  <1>10. CASE StaysIdle
    BY <1>1, <1>10, IdleStays
  <1>11. CASE UNCHANGED vars
    BY <1>2, <1>11 DEF vars, queues
  <1> QED BY <1>5, <1>6, <1>7, <1>8, <1>9, <1>10, <1>11 DEF Next, Loop, StaysIdle

(* Whatever the handlers do, the queues hold events that were made, the    *)
(* table and the loop hold subscribers, what a handler returned is not     *)
(* dispatched in the ProcessAllEvents that produced it, and the event under*)
(* dispatch stays in a queue until the dispatch is over or the program     *)
(* broken by a second Reset (EventManager.cpp:41-46, 110-228).             *)
THEOREM QueuesStayInOrder == Spec => []QueuesOK
  <1>1. Init => TypeOK /\ WaitsInv /\ ReferenceHolds
    <2>1. Init => WaitsInv /\ ReferenceHolds
      BY DEF Init, WaitsInv, ReferenceHolds, Idle
    <2> QED BY <2>1, TypeInit
  <1>2. TypeOK /\ WaitsInv /\ ReferenceHolds /\ [Next]_vars => (TypeOK /\ WaitsInv /\ ReferenceHolds)'
    BY TypeNext, WaitsNext, HoldsNext
  <1>3. TypeOK /\ WaitsInv /\ ReferenceHolds => QueuesOK
    BY DEF WaitsInv, QueuesOK, ReturnedWaits
  <1> QED BY <1>1, <1>2, <1>3, PTL DEF Spec

-----------------------------------------------------------------------------
(* While handlers only add, everyone hears.                                *)
LEMMA HearNext == TypeOK /\ HearInv /\ [Next]_vars => HearInv'
  <1> SUFFICES ASSUME TypeOK, HearInv, [Next]_vars, HandlersOnlyAdd, ~setup.targets
               PROVE  /\ missed' = {}
                      /\ dispatch' # Idle =>
                          /\ dispatch'.target = NoTarget
                          /\ dispatch'.type \in keys'
                          /\ dispatch'.end <= Len(subs'[dispatch'.type])
                          /\ dispatch'.owed \subseteq {subs'[dispatch'.type][i] : i \in 1 .. dispatch'.end}
                          /\ \A i \in 1 .. dispatch'.pos - 1 :
                                <<dispatch'.event, subs'[dispatch'.type][i]>> \in handled'
    <2>1. [Next]_vars => setup' = setup
      BY SetupStays
    <2> QED BY <2>1 DEF HearInv, HandlersOnlyAdd
  <1>0. missed = {} /\ setup.reactions \cap {"unsubscribe", "clear", "reset"} = {}
    BY DEF HearInv, HandlersOnlyAdd
  <1>1. CASE StaysIdle
    BY <1>0, <1>1, IdleStays
  <1>2. ASSUME NEW e \in Events \cup {Transient}, NEW t \in Types, NEW target \in Subscribers \cup {NoTarget},
               Begins(e, t, target), target # NoTarget => setup.targets
        PROVE  /\ missed' = {}
               /\ dispatch'.target = NoTarget /\ dispatch'.type \in keys'
               /\ dispatch'.end <= Len(subs'[dispatch'.type])
               /\ dispatch'.owed \subseteq {subs'[dispatch'.type][i] : i \in 1 .. dispatch'.end}
               /\ \A i \in 1 .. dispatch'.pos - 1 :
                     <<dispatch'.event, subs'[dispatch'.type][i]>> \in handled'
    <2>1. Begin(e, t, target) /\ subs' = subs /\ missed' = missed
      BY <1>2 DEF Begins
    <2>2. /\ dispatch'.type = t /\ dispatch'.target = target
          /\ dispatch'.pos = 1 /\ dispatch'.end = Len(subs[t])
          /\ dispatch'.owed \subseteq Range(subs[t]) /\ keys' = keys \cup {t}
      BY <2>1, BeginFacts
    <2>3. subs[t] \in Seq(Subscribers) /\ Len(subs[t]) \in Nat
      BY DEF TypeOK
    <2>4. \A x \in Range(subs[t]) : \E i \in 1 .. Len(subs[t]) : x = subs[t][i]
      BY <2>3, InRange
    <2>5. \A i \in 1 .. dispatch'.pos - 1 : FALSE
      BY <2>2
    <2> QED BY <1>0, <1>2, <2>1, <2>2, <2>3, <2>4, <2>5
  <1>3. CASE Send
    <2> DEFINE old == subs[dispatch.type]
               new == subs'[dispatch.type]
    <2>1. /\ TableStep /\ dispatch # Idle
          /\ dispatch.pos <= dispatch.end
          /\ dispatch'.event = dispatch.event /\ dispatch'.type = dispatch.type
          /\ dispatch'.target = dispatch.target /\ dispatch'.end = dispatch.end
          /\ dispatch'.owed = dispatch.owed /\ dispatch'.pos = dispatch.pos + 1
          /\ handled' = handled \cup {<<dispatch.event, Current>>} /\ missed' = missed
      BY <1>3, SendFacts
    <2>2. /\ dispatch.target = NoTarget /\ dispatch.type \in keys /\ dispatch.end <= Len(old)
          /\ dispatch.owed \subseteq {old[i] : i \in 1 .. dispatch.end}
          /\ \A i \in 1 .. dispatch.pos - 1 : <<dispatch.event, old[i]>> \in handled
      BY <2>1 DEF HearInv
    <2>3. /\ dispatch.type \in Types /\ dispatch.pos \in Nat \ {0} /\ dispatch.end \in Nat
          /\ old \in Seq(Subscribers) /\ Len(old) \in Nat
      BY <2>1, LoopFacts
    <2>4. Current = old[dispatch.pos]
      BY DEF Current
    <2>5. keys \subseteq keys' /\ (new = old \/ \E s \in Subscribers : new = Append(old, s))
      BY <1>0, <2>1, <2>3 DEF TableStep
    <2> HIDE DEF new, old
    <2>6. /\ Len(old) <= Len(new) /\ Len(new) \in Nat
          /\ \A i \in 1 .. Len(old) : new[i] = old[i]
      <3>1. CASE new = old
        BY <2>3, <3>1
      <3>2. ASSUME NEW s \in Subscribers, new = Append(old, s)
            PROVE  /\ Len(old) <= Len(new) /\ Len(new) \in Nat
                   /\ \A i \in 1 .. Len(old) : new[i] = old[i]
        BY <2>3, <3>2, AppendKeeps
      <3> QED BY <2>5, <3>1, <3>2
    <2>7. ASSUME NEW i \in 1 .. dispatch.end PROVE new[i] = old[i]
      <3>1. i \in 1 .. Len(old)
        BY <2>2, <2>3
      <3> QED BY <2>6, <3>1
    <2>8. ASSUME NEW i \in 1 .. (dispatch.pos + 1) - 1 PROVE <<dispatch.event, new[i]>> \in handled'
      <3>1. i \in 1 .. dispatch.end /\ (i \in 1 .. dispatch.pos - 1 \/ i = dispatch.pos)
        BY <2>1, <2>3
      <3>2. new[i] = old[i]
        BY <2>7, <3>1
      <3> QED BY <2>1, <2>2, <2>4, <3>1, <3>2
    <2>9. dispatch.end <= Len(new)
      BY <2>2, <2>3, <2>6
    <2>10. dispatch.owed \subseteq {new[i] : i \in 1 .. dispatch.end}
      BY <2>2, <2>7
    <2>11. new = subs'[dispatch'.type]
      BY <2>1 DEF new
    <2> QED BY <1>0, <2>1, <2>2, <2>5, <2>8, <2>9, <2>10, <2>11
  <1>4. CASE RunOffTheEnd \/ UNCHANGED vars
    <2>1. UNCHANGED <<dispatch, missed, keys, subs, handled>>
      BY <1>4 DEF RunOffTheEnd, vars, tables, observers
    <2> QED BY <2>1 DEF HearInv
  <1>5. CASE ReturnAfterClear \/ ReturnAtOther \/ Finish
    <2>1. Over /\ dispatch # Idle /\ dispatch' = Idle
      BY <1>5 DEF ReturnAfterClear, ReturnAtOther, Finish, InLoop, Over
    <2>2. /\ dispatch.target = NoTarget /\ dispatch.type \in keys
          /\ dispatch.owed \subseteq {subs[dispatch.type][i] : i \in 1 .. dispatch.end}
          /\ \A i \in 1 .. dispatch.pos - 1 : <<dispatch.event, subs[dispatch.type][i]>> \in handled
      BY <2>1 DEF HearInv
    <2>3. dispatch.pos > dispatch.end
      BY <1>5, <2>2 DEF ReturnAfterClear, ReturnAtOther, Finish
    <2>4. dispatch.pos \in Nat /\ dispatch.end \in Nat
      BY <2>1, LoopFacts
    <2>5. \A s \in dispatch.owed : <<dispatch.event, s>> \in handled
      <3>1. \A i \in 1 .. dispatch.end : i \in 1 .. dispatch.pos - 1
        BY <2>3, <2>4
      <3> QED BY <2>2, <3>1
    <2>6. missed' = missed
      BY <2>1, <2>5 DEF Over
    <2> QED BY <1>0, <2>1, <2>6
  <1> QED BY <1>1, <1>2, <1>3, <1>4, <1>5, StepCases

(* While handlers only add, every dispatch of a queued event, and of the   *)
(* frame's own events, reaches everyone who was subscribed when it began   *)
(* and still is when it ends (DispatchEventToSubscriber).                  *)
THEOREM EveryoneIsReached == Spec => []EveryoneHears
  <1>1. Init => TypeOK /\ HearInv
    <2>1. Init => HearInv
      BY DEF Init, HearInv
    <2> QED BY <2>1, TypeInit
  <1>2. TypeOK /\ HearInv /\ [Next]_vars => (TypeOK /\ HearInv)'
    BY TypeNext, HearNext
  <1>3. TypeOK /\ HearInv => EveryoneHears
    BY DEF HearInv, EveryoneHears
  <1> QED BY <1>1, <1>2, <1>3, PTL DEF Spec

-----------------------------------------------------------------------------
(* No subscriber hears twice.  First the table and the loop.               *)
Once(list) == \A i, j \in 1 .. Len(list) : list[i] = list[j] => i = j

LEMMA AppendOnce ==
  ASSUME NEW T, NEW old \in Seq(T), NEW s \in T, s \notin Range(old), Once(old)
  PROVE  Once(Append(old, s))
  <1> DEFINE new == Append(old, s)
  <1>1. /\ new \in Seq(T) /\ Len(new) = Len(old) + 1 /\ new[Len(old) + 1] = s
        /\ \A i \in 1 .. Len(old) : new[i] = old[i] /\ old[i] \in Range(old)
    BY AppendProperties, InRange
  <1>2. Len(old) \in Nat
    OBVIOUS
  <1> HIDE DEF new
  <1>3. \A i \in 1 .. Len(new) : i \in 1 .. Len(old) \/ i = Len(old) + 1
    BY <1>1, <1>2
  <1>4. ASSUME NEW i \in 1 .. Len(new), NEW j \in 1 .. Len(new), new[i] = new[j] PROVE i = j
    <2>1. CASE i \in 1 .. Len(old) /\ j \in 1 .. Len(old)
      BY <1>1, <1>4, <2>1 DEF Once
    <2>2. CASE ~(i \in 1 .. Len(old) /\ j \in 1 .. Len(old))
      BY <1>1, <1>3, <1>4, <2>2
    <2> QED BY <2>1, <2>2
  <1> QED BY <1>4 DEF Once, new

LEMMA OnceTable ==
  ASSUME TypeOK, ListedOnce, subs' \in [Types -> Seq(Subscribers)],
         TableStep \/ subs' = subs
  PROVE  ListedOnce'
  <1>1. subs \in [Types -> Seq(Subscribers)]
    BY DEF TypeOK
  <1> SUFFICES \A t \in Types : Once(subs'[t])
    <2>1. \A t \in Types : DOMAIN subs'[t] = 1 .. Len(subs'[t])
      OBVIOUS
    <2> QED BY <2>1 DEF ListedOnce, Once
  <1> SUFFICES ASSUME NEW t \in Types PROVE Once(subs'[t])
    OBVIOUS
  <1> DEFINE old == subs[t]
             new == subs'[t]
  <1>2. old \in Seq(Subscribers) /\ new \in Seq(Subscribers) /\ Once(old)
    BY <1>1 DEF ListedOnce, Once
  <1>3. \/ new = old \/ Thinned(new, old) \/ new = <<>>
        \/ \E s \in Subscribers : s \notin Range(old) /\ new = Append(old, s)
    BY DEF TableStep
  <1> HIDE DEF old, new
  <1> SUFFICES Once(new)
    BY DEF new
  <1>4. CASE Thinned(new, old)
    BY <1>2, <1>4, ThinnedFacts DEF Once
  <1>5. CASE new = <<>>
    <2>1. Len(new) = 0
      BY <1>5, EmptySeq
    <2> QED BY <2>1 DEF Once
  <1>6. ASSUME NEW s \in Subscribers, s \notin Range(old), new = Append(old, s) PROVE Once(new)
    BY <1>2, <1>6, AppendOnce
  <1> QED BY <1>2, <1>3, <1>4, <1>5, <1>6

LoopInv == ListedOnce /\ KeyStays /\ TargetsAreDirect

LEMMA LoopNext == TypeOK /\ LoopInv /\ [Next]_vars => LoopInv'
  <1> SUFFICES ASSUME TypeOK, LoopInv, [Next]_vars PROVE LoopInv'
    OBVIOUS
  <1>0. ListedOnce /\ KeyStays /\ TargetsAreDirect /\ setup' = setup
    BY SetupStays DEF LoopInv
  <1>a. subs' \in [Types -> Seq(Subscribers)]
    BY TypeNext DEF TypeOK
  <1>1. CASE StaysIdle
    <2>1. dispatch' = Idle
      BY <1>1, IdleStays
    <2>2. KeyStays' /\ TargetsAreDirect'
      BY <2>1 DEF KeyStays, TargetsAreDirect, Idle
    <2>3. CASE subs' = subs
      BY <1>0, <1>a, <2>2, <2>3, OnceTable DEF LoopInv
    <2>4. ASSUME NEW s \in Subscribers, NEW t \in Types, SubscribeToEvent(s, t) \/ RemoveSubscription(s, t)
          PROVE  ListedOnce'
      <3> SUFFICES \A k \in Types : Once(subs'[k])
        <4>1. \A k \in Types : DOMAIN subs'[k] = 1 .. Len(subs'[k])
          BY <1>a
        <4> QED BY <4>1 DEF ListedOnce, Once
      <3> SUFFICES ASSUME NEW k \in Types PROVE Once(subs'[k])
        OBVIOUS
      <3> DEFINE old == subs[k]
                 new == subs'[k]
      <3>1. old \in Seq(Subscribers) /\ new \in Seq(Subscribers) /\ Once(old)
        BY <1>0, <1>a DEF TypeOK, ListedOnce, Once
      <3>2. CASE SubscribeToEvent(s, t)
        <4>1. new = old \/ (s \notin Range(old) /\ new = Append(old, s))
          BY <3>2, TableLengthened DEF SubscribeToEvent
        <4> HIDE DEF old, new
        <4>2. Once(new)
          BY <3>1, <4>1, AppendOnce
        <4> QED BY <4>2 DEF new
      <3>3. CASE RemoveSubscription(s, t)
        <4>1. Thinned(new, old)
          BY <3>3, TableThinned DEF RemoveSubscription
        <4> HIDE DEF old, new
        <4>2. Once(new)
          BY <3>1, <4>1, ThinnedFacts DEF Once
        <4> QED BY <4>2 DEF new
      <3> QED BY <2>4, <3>2, <3>3
    <2>5. subs' = subs \/ \E s \in Subscribers, t \in Types : SubscribeToEvent(s, t) \/ RemoveSubscription(s, t)
      BY <1>1 DEF StaysIdle, Reset, BeginProcessing, EndProcessing, SkipProcessed, Raise, tables
    <2> QED BY <2>2, <2>3, <2>4, <2>5 DEF LoopInv
  <1>2. ASSUME NEW e \in Events \cup {Transient}, NEW t \in Types, NEW target \in Subscribers \cup {NoTarget},
               Begins(e, t, target)
        PROVE  LoopInv'
    <2>1. Begin(e, t, target) /\ subs' = subs /\ (target = NoTarget \/ e = Transient)
      BY <1>2 DEF Begins
    <2>2. dispatch'.type = t /\ dispatch'.target = target /\ dispatch'.event = e /\ keys' = keys \cup {t}
      BY <2>1, BeginFacts
    <2>3. ListedOnce'
      BY <1>0, <1>a, <2>1, OnceTable
    <2> QED BY <2>1, <2>2, <2>3 DEF LoopInv, KeyStays, TargetsAreDirect
  <1>3. CASE Send
    <2>1. /\ TableStep /\ dispatch # Idle
          /\ dispatch'.event = dispatch.event /\ dispatch'.type = dispatch.type
          /\ dispatch'.target = dispatch.target
      BY <1>3, SendFacts
    <2>2. ListedOnce'
      BY <1>0, <1>a, <2>1, OnceTable
    <2>3. KeyStays'
      BY <1>0, <2>1 DEF KeyStays, TableStep
    <2>4. TargetsAreDirect'
      BY <1>0, <2>1 DEF TargetsAreDirect
    <2> QED BY <2>2, <2>3, <2>4 DEF LoopInv
  <1>4. CASE RunOffTheEnd \/ UNCHANGED vars
    <2>1. UNCHANGED <<dispatch, keys, subs, setup>>
      BY <1>4 DEF RunOffTheEnd, vars, tables
    <2> QED BY <1>0, <2>1 DEF LoopInv, ListedOnce, KeyStays, TargetsAreDirect
  <1>5. CASE ReturnAfterClear \/ ReturnAtOther \/ Finish
    <2>1. subs' = subs /\ dispatch' = Idle
      BY <1>5 DEF ReturnAfterClear, ReturnAtOther, Finish, Over, tables
    <2>2. ListedOnce'
      BY <1>0, <1>a, <2>1, OnceTable
    <2> QED BY <2>1, <2>2 DEF LoopInv, KeyStays, TargetsAreDirect, Idle
  <1> QED BY <1>1, <1>2, <1>3, <1>4, <1>5, StepCases

(* Then who handled what.                                                  *)
HeardInv == twice = {} /\ StillToHear /\ HeardAreListed /\ PrimaryUnheard /\ SecondaryUnheard

LEMMA EventFacts ==
  ASSUME TypeOK
  PROVE  /\ Range(primary) \subseteq Events /\ Range(secondary) \subseteq Events
         /\ Transient \notin Events /\ Idle.event = Transient
         /\ dispatch.event \in Events \cup {Transient}
         /\ \A e : Heard(e) => e \in Events \cup {Transient}
  <1>1. Range(primary) \subseteq Events /\ Range(secondary) \subseteq Events
    BY RangeOfSeq DEF TypeOK
  <1>2. Transient \notin Events /\ Idle.event = Transient
    BY DEF Events, Transient, Idle
  <1>3. dispatch.event \in Events \cup {Transient}
    BY <1>2 DEF TypeOK, Dispatches
  <1>4. \A e : Heard(e) => e \in Events \cup {Transient}
    BY DEF TypeOK, Deliveries, Heard
  <1> QED BY <1>1, <1>2, <1>3, <1>4

LEMMA HeardIdle ==
  ASSUME TypeOK, HeardInv, StaysIdle, setup' = setup
  PROVE  HeardInv'
  <1>1. /\ dispatch = Idle /\ dispatch' = Idle
        /\ handled' = handled /\ twice' = twice /\ processed' = processed
    BY IdleStays
  <1>2. /\ Range(primary) \subseteq Events /\ Range(secondary) \subseteq Events
        /\ Transient \notin Events /\ dispatch.event = Transient /\ dispatch'.event = Transient
        /\ \A e : Heard(e) => e \in Events \cup {Transient}
    BY <1>1, EventFacts
  <1>3. twice' = {} /\ StillToHear' /\ HeardAreListed'
    BY <1>1 DEF HeardInv, StillToHear, HeardAreListed
  <1>4. /\ \A e \in Range(primary) \ processed : Heard(e) => phase = 1 /\ NoSubscribers
        /\ \A e \in Range(secondary) \ processed : ~Heard(e)
        /\ "clear" \in setup.reactions => \A e \in Range(secondary) \ processed : e \notin Range(primary)
    <2> HIDE DEF Events
    <2> QED BY <1>2 DEF HeardInv, PrimaryUnheard, SecondaryUnheard
  <1>5. ASSUME /\ \A e \in Range(primary') \ processed : Heard(e) => phase' = 1 /\ NoSubscribers'
               /\ \A e \in Range(secondary') \ processed : ~Heard(e)
               /\ "clear" \in setup.reactions =>
                     \A e \in Range(secondary') \ processed : e \notin Range(primary') \cup {Transient}
        PROVE  HeardInv'
    <2>1. PrimaryUnheard'
      BY <1>1, <1>5 DEF PrimaryUnheard, Heard
    <2>2. SecondaryUnheard'
      BY <1>1, <1>2, <1>5 DEF SecondaryUnheard, Heard
    <2> QED BY <1>3, <2>1, <2>2 DEF HeardInv
  <1>6. CASE Reset
    <2>1. Range(primary') = {} /\ secondary' = primary /\ phase # 1
      BY <1>6, EmptyRange DEF Reset, SwapQueues, Outside
    <2> HIDE DEF Events
    <2> QED BY <1>2, <1>4, <1>5, <2>1
  <1>7. ASSUME NEW t \in Types, Raise(t) PROVE HeardInv'
    <2>1. /\ made' = Append(made, t) /\ Len(made) < setup.maxEvents /\ primary' = Append(primary, NewEvent)
          /\ secondary' = secondary /\ phase' = phase /\ subs' = subs
      BY <1>7 DEF Raise, tables
    <2>2. NewEvent \in Fresh /\ NewEvent \in Events' /\ primary \in Seq(Events')
      BY <2>1, Making
    <2>3. Range(primary') = Range(primary) \cup {NewEvent}
      BY <2>1, <2>2, AppendRange
    <2>4. NewEvent \notin Events \cup {Transient}
      BY <2>2 DEF Fresh, Events, Transient
    <2>5. NoSubscribers' = NoSubscribers
      BY <2>1 DEF NoSubscribers
    <2>6. \A e \in Range(secondary) \ processed : e # NewEvent /\ e # Transient
      BY <1>2, <2>4
    <2> HIDE DEF NewEvent, Events
    <2> QED BY <1>2, <1>4, <1>5, <2>1, <2>3, <2>4, <2>5, <2>6
  <1>8. CASE \/ BeginProcessing
             \/ \E s \in Subscribers, t \in Types : SubscribeToEvent(s, t) \/ RemoveSubscription(s, t)
    <2>1. phase # 1 /\ primary' = primary /\ secondary' = secondary
      BY <1>8 DEF BeginProcessing, SubscribeToEvent, RemoveSubscription, Outside, queues
    <2> HIDE DEF Events
    <2> QED BY <1>2, <1>4, <1>5, <2>1
  <1>9. CASE EndProcessing
    <2>1. primary' = primary \o secondary /\ primary = <<>> /\ secondary' = <<>>
      BY <1>9 DEF EndProcessing, PrimaryAfterFrame
    <2>2. Range(primary') = Range(primary) \cup Range(secondary) /\ Range(primary) = {} /\ Range(secondary') = {}
      <3>1. primary \in Seq(Events) /\ secondary \in Seq(Events)
        BY DEF TypeOK
      <3> HIDE DEF Events
      <3> QED BY <2>1, <3>1, RangeConcatenation, EmptyRange
    <2> QED BY <1>4, <1>5, <2>2
  <1>10. CASE SkipProcessed
    <2>1. Range(primary') \subseteq Range(primary) /\ secondary' = secondary /\ phase' = phase /\ subs' = subs
      BY <1>10, TailRange DEF SkipProcessed, TypeOK, tables
    <2>2. NoSubscribers' = NoSubscribers
      BY <2>1 DEF NoSubscribers
    <2> HIDE DEF Events
    <2> QED BY <1>2, <1>4, <1>5, <2>1, <2>2
  <1> QED BY <1>6, <1>7, <1>8, <1>9, <1>10 DEF StaysIdle

LEMMA HeardBegins ==
  ASSUME TypeOK, HeardInv, NEW e \in Events \cup {Transient}, NEW t \in Types,
         NEW target \in Subscribers \cup {NoTarget}, Begins(e, t, target)
  PROVE  HeardInv'
  <1>1. /\ Begin(e, t, target) /\ dispatch = Idle
        /\ UNCHANGED <<setup, processed, primary, secondary, subs, phase, twice>>
        /\ (e \in Range(primary) /\ e \notin processed) \/ e = Transient
    BY DEF Begins, queues
  <1>2. /\ dispatch' # Idle /\ dispatch'.event = e /\ dispatch'.type = t /\ dispatch'.pos = 1
        /\ handled' \subseteq handled
        /\ \A s \in Subscribers : <<Transient, s>> \in handled' => e # Transient
        /\ e # Transient => handled' = handled
    BY <1>1, BeginFacts
  <1>3. /\ Range(primary) \subseteq Events /\ Range(secondary) \subseteq Events
        /\ Transient \notin Events /\ dispatch.event = Transient
    BY <1>1, EventFacts
  <1>4. NoSubscribers' = NoSubscribers
    BY <1>1 DEF NoSubscribers
  <1>5. \A s \in Subscribers : <<e, s>> \in handled' => NoSubscribers
    <2>1. CASE e = Transient
      BY <1>2, <2>1
    <2>2. CASE e # Transient
      <3>1. e \in Range(primary) \ processed /\ e # dispatch.event
        BY <1>1, <1>3, <2>2
      <3> QED BY <1>2, <3>1 DEF HeardInv, PrimaryUnheard, Heard
    <2> QED BY <2>1, <2>2
  <1>6. StillToHear'
    <2>1. subs[t] \in Seq(Subscribers) /\ Len(subs[t]) \in Nat
      BY DEF TypeOK
    <2>2. ASSUME NEW j \in 1 .. Len(subs[t]) PROVE <<e, subs[t][j]>> \notin handled'
      <3>1. subs[t][j] \in Subscribers
        BY <2>1
      <3>2. subs[t] # <<>>
        BY <2>1, EmptySeq
      <3> QED BY <1>5, <3>1, <3>2 DEF NoSubscribers
    <2> QED BY <1>1, <1>2, <2>2 DEF StillToHear
  <1>7. HeardAreListed'
    BY <1>1, <1>2, <1>4, <1>5 DEF HeardAreListed
  <1>8. \A x : Heard(x)' => Heard(x)
    BY <1>2 DEF Heard
  <1>9. PrimaryUnheard'
    <2> SUFFICES ASSUME NEW x \in Range(primary) \ processed, Heard(x)' PROVE phase = 1 /\ NoSubscribers
      BY <1>1, <1>4 DEF PrimaryUnheard, Heard
    <2>1. x # dispatch.event
      BY <1>3
    <2> QED BY <1>8, <2>1 DEF HeardInv, PrimaryUnheard
  <1>10. SecondaryUnheard'
    <2> SUFFICES ASSUME NEW x \in Range(secondary) \ processed
                 PROVE  /\ ~Heard(x)'
                        /\ "clear" \in setup.reactions => x \notin Range(primary) \cup {e}
      BY <1>1, <1>2 DEF SecondaryUnheard, Heard
    <2>1. x # dispatch.event /\ x # Transient
      BY <1>3
    <2>2. ~Heard(x)
      BY <2>1 DEF HeardInv, SecondaryUnheard
    <2>3. "clear" \in setup.reactions => x \notin Range(primary)
      BY DEF HeardInv, SecondaryUnheard
    <2> QED BY <1>1, <1>8, <2>1, <2>2, <2>3
  <1> QED BY <1>1, <1>6, <1>7, <1>9, <1>10 DEF HeardInv

LEMMA HeardSend ==
  ASSUME TypeOK, LoopInv, HeardInv, NoComeback(setup), Send
  PROVE  HeardInv'
  <1> DEFINE e == dispatch.event
             t == dispatch.type
             old == subs[t]
             new == subs'[t]
             pos == dispatch.pos
             here == Current
  <1>1. /\ React /\ TableStep /\ dispatch # Idle /\ dispatch' # Idle
        /\ pos <= Len(old)
        /\ dispatch'.event = e /\ dispatch'.type = t /\ dispatch'.pos = pos + 1
        /\ handled' = handled \cup {<<e, here>>}
        /\ twice' = (IF <<e, here>> \in handled THEN twice \cup {<<e, here>>} ELSE twice)
        /\ UNCHANGED <<setup, processed, phase>>
    BY SendFacts
  <1>2. /\ t \in Types /\ pos \in Nat \ {0} /\ old \in Seq(Subscribers) /\ Len(old) \in Nat
        /\ here \in Subscribers /\ here = old[pos] /\ e \in Events \cup {Transient}
    BY <1>1, LoopFacts DEF Current
  <1>3. pos \in 1 .. Len(old) /\ here \in Range(old)
    <2>1. pos \in 1 .. Len(old)
      BY <1>1, <1>2
    <2> HIDE DEF old, here
    <2> QED BY <1>2, <2>1, InRange
  <1>4. ~NoSubscribers
    <2>1. old # <<>>
      BY <1>2, <1>3, EmptySeq
    <2> QED BY <1>2, <2>1 DEF NoSubscribers
  <1>5. QueueStep
    BY <1>1, ReactQueues
  <1>6. new \in Seq(Subscribers)
    BY <1>1, <1>2, ReactTable
  <1>7. \A i, j \in 1 .. Len(old) : old[i] = old[j] => i = j
    BY <1>2 DEF LoopInv, ListedOnce
  <1>8. \A j \in pos .. Len(old) : <<e, old[j]>> \notin handled
    BY <1>1 DEF HeardInv, StillToHear
  <1>9. "unsubscribe" \notin setup.reactions =>
           \A s \in Subscribers : <<e, s>> \in handled => s \in Range(old)
    BY <1>1, <1>4 DEF HeardInv, HeardAreListed
  <1>10. \/ new = old
         \/ "unsubscribe" \in setup.reactions /\ Thinned(new, old)
         \/ /\ "subscribe" \in setup.reactions
            /\ \E s \in Subscribers : s \notin Range(old) /\ new = Append(old, s)
         \/ new = <<>> /\ \A k \in Types : subs'[k] = <<>>
    BY <1>1, <1>2 DEF TableStep
  <1>a. ~({"unsubscribe", "subscribe"} \subseteq setup.reactions)
    BY DEF NoComeback
  <1>11. twice' = {}
    <2>1. <<e, here>> \notin handled
      BY <1>2, <1>3, <1>8
    <2> QED BY <1>1, <2>1 DEF HeardInv
  <1> HIDE DEF e, t, old, new, pos, here
  <1>12. \A j \in pos + 1 .. Len(old) : <<e, old[j]>> \notin handled'
    <2> SUFFICES ASSUME NEW j \in pos + 1 .. Len(old) PROVE <<e, old[j]>> \notin handled'
      OBVIOUS
    <2>1. j \in pos .. Len(old) /\ j \in 1 .. Len(old) /\ j # pos
      BY <1>2
    <2>2. old[j] # here
      BY <1>2, <1>3, <1>7, <2>1
    <2> QED BY <1>1, <1>8, <2>1, <2>2
  <1>13. \A j \in pos + 1 .. Len(new) : <<e, new[j]>> \notin handled'
    <2>1. CASE new = old
      BY <1>12, <2>1
    <2>2. CASE Thinned(new, old)
      <3> SUFFICES ASSUME NEW j \in pos + 1 .. Len(new) PROVE <<e, new[j]>> \notin handled'
        OBVIOUS
      <3>1. /\ Len(new) <= Len(old) /\ Len(new) \in Nat
            /\ \A i \in 1 .. Len(new) : new[i] = old[i] \/ (i + 1 \in 1 .. Len(old) /\ new[i] = old[i + 1])
        BY <1>2, <1>6, <2>2, ThinnedFacts
      <3>2. j \in 1 .. Len(new) /\ j \in pos + 1 .. Len(old)
        BY <1>2, <3>1
      <3>3. j + 1 \in 1 .. Len(old) => j + 1 \in pos + 1 .. Len(old)
        BY <1>2, <3>2
      <3> QED BY <1>12, <3>1, <3>2, <3>3
    <2>3. ASSUME "subscribe" \in setup.reactions, NEW s \in Subscribers, s \notin Range(old), new = Append(old, s)
          PROVE  \A j \in pos + 1 .. Len(new) : <<e, new[j]>> \notin handled'
      <3> SUFFICES ASSUME NEW j \in pos + 1 .. Len(new) PROVE <<e, new[j]>> \notin handled'
        OBVIOUS
      <3>1. /\ Len(new) = Len(old) + 1 /\ new[Len(old) + 1] = s
            /\ \A i \in 1 .. Len(old) : new[i] = old[i]
        BY <1>2, <2>3, AppendProperties
      <3>2. CASE j = Len(old) + 1
        <4>1. <<e, s>> \notin handled
          BY <1>9, <1>a, <2>3
        <4>2. s # here
          BY <1>3, <2>3
        <4> QED BY <1>1, <3>1, <3>2, <4>1, <4>2
      <3>3. CASE j # Len(old) + 1
        <4>1. j \in 1 .. Len(old) /\ j \in pos + 1 .. Len(old)
          BY <1>2, <3>1, <3>3
        <4> QED BY <1>12, <3>1, <4>1
      <3> QED BY <3>2, <3>3
    <2>4. CASE new = <<>>
      <3>1. Len(new) = 0
        BY <2>4, EmptySeq
      <3>2. \A j \in pos + 1 .. Len(new) : FALSE
        BY <1>2, <3>1
      <3> QED BY <3>2
    <2> QED BY <1>10, <2>1, <2>2, <2>3, <2>4
  <1>14. StillToHear'
    BY <1>1, <1>13 DEF StillToHear, new
  <1>15. HeardAreListed'
    <2> SUFFICES ASSUME "unsubscribe" \notin setup.reactions
                 PROVE  NoSubscribers' \/ \A s \in Subscribers : <<e, s>> \in handled' => s \in Range(new)
      BY <1>1 DEF HeardAreListed, new
    <2>1. \A s \in Subscribers : <<e, s>> \in handled' => s \in Range(old)
      BY <1>1, <1>3, <1>9
    <2>2. CASE new = old
      BY <2>1, <2>2
    <2>3. ASSUME NEW s \in Subscribers, new = Append(old, s)
          PROVE  \A x \in Subscribers : <<e, x>> \in handled' => x \in Range(new)
      <3>1. Range(new) = Range(old) \cup {s}
        BY <1>2, <2>3, AppendRange
      <3> QED BY <2>1, <3>1
    <2>4. CASE \A k \in Types : subs'[k] = <<>>
      BY <2>4 DEF NoSubscribers
    <2> QED BY <1>10, <2>2, <2>3, <2>4
  <1>16. \A x : x # e => (Heard(x)' <=> Heard(x))
    BY <1>1 DEF Heard
  <1>17. /\ Range(primary) \subseteq Events /\ Range(secondary) \subseteq Events
         /\ \A x : Heard(x) => x \in Events \cup {Transient}
    BY EventFacts
  <1>18. Fresh \cap (Events \cup {Transient}) = {}
    BY DEF Fresh, Events, Transient
  <1>19. /\ Range(primary') \subseteq Range(primary) \cup {e} \cup Fresh
         /\ Range(secondary') \subseteq
               Range(secondary) \cup (IF "pass on" \in setup.reactions THEN {e} ELSE {}) \cup Fresh
                   \cup (IF "reset" \in setup.reactions THEN Range(primary) ELSE {})
         /\ Range(primary') \cap Range(secondary') \cap Fresh = {}
    BY <1>5 DEF QueueStep, Present, e
  <1>20. \A x \in Range(primary) \ processed : x # e => ~Heard(x)
    BY <1>4 DEF HeardInv, PrimaryUnheard, e
  <1>21. /\ \A x \in Range(secondary) \ processed : Heard(x) => x = e
         /\ "clear" \in setup.reactions => \A x \in Range(secondary) \ processed : x \notin Range(primary) \cup {e}
    BY DEF HeardInv, SecondaryUnheard, e
  <1> HIDE DEF Fresh, Events
  <1>22. PrimaryUnheard'
    <2> SUFFICES ASSUME NEW x \in Range(primary') \ processed, x # e, Heard(x)' PROVE FALSE
      BY <1>1 DEF PrimaryUnheard, Heard
    <2>1. Heard(x) /\ x \notin Fresh
      BY <1>16, <1>17, <1>18
    <2> QED BY <1>19, <1>20, <2>1
  <1>23. SecondaryUnheard'
    <2> SUFFICES ASSUME NEW x \in Range(secondary') \ processed
                 PROVE  /\ Heard(x)' => x = e
                        /\ "clear" \in setup.reactions => x \notin Range(primary') \cup {e}
      BY <1>1 DEF SecondaryUnheard, Heard
    <2>1. ASSUME Heard(x)', x # e PROVE FALSE
      <3>1. Heard(x) /\ x \notin Fresh
        BY <1>16, <1>17, <1>18, <2>1
      <3>2. x \in Range(secondary) \cup Range(primary)
        BY <1>19, <2>1, <3>1
      <3> QED BY <1>20, <1>21, <2>1, <3>1, <3>2
    <2>2. ASSUME "clear" \in setup.reactions PROVE x \notin Range(primary') \cup {e}
      <3>0. "pass on" \notin setup.reactions /\ "reset" \notin setup.reactions
        BY <2>2 DEF NoComeback
      <3>1. x \in Range(secondary) \/ x \in Fresh
        BY <1>19, <3>0
      <3>2. CASE x \in Fresh
        BY <1>2, <1>18, <1>19, <3>2
      <3>3. CASE x \in Range(secondary)
        <4>1. x \notin Range(primary) \cup {e} /\ x \notin Fresh
          BY <1>17, <1>18, <1>21, <2>2, <3>3
        <4> QED BY <1>19, <4>1
      <3> QED BY <3>1, <3>2, <3>3
    <2> QED BY <2>1, <2>2
  <1> QED BY <1>11, <1>14, <1>15, <1>22, <1>23 DEF HeardInv

LEMMA HeardOver ==
  ASSUME TypeOK, LoopInv, HeardInv, NoComeback(setup), ReturnAfterClear \/ ReturnAtOther \/ Finish
  PROVE  HeardInv'
  <1> DEFINE e == dispatch.event
  <1>1. /\ dispatch # Idle /\ dispatch' = Idle /\ Idle.event = Transient
        /\ UNCHANGED <<setup, handled, twice, secondary, subs>>
        /\ phase <= 1 => phase' = phase
        /\ processed \subseteq processed'
    BY DEF ReturnAfterClear, ReturnAtOther, Finish, InLoop, Over, tables, Idle
  <1>2. Range(primary') \subseteq Range(primary)
    <2>1. primary' = IF phase = 1 /\ primary # <<>> THEN Tail(primary) ELSE primary
      BY DEF ReturnAfterClear, ReturnAtOther, Finish, Over
    <2>2. primary \in Seq(Events)
      BY DEF TypeOK
    <2> QED BY <2>1, <2>2, TailRange
  <1>3. /\ Range(primary) \subseteq Events /\ Range(secondary) \subseteq Events
        /\ Transient \notin Events /\ e \in Events \cup {Transient}
    BY EventFacts
  <1>4. e # Transient => phase = 1 /\ dispatch.target = NoTarget
    BY DEF TypeOK, LoopInv, TargetsAreDirect
  <1>5. e # Transient => e \in processed' \/ (NoSubscribers /\ "clear" \in setup.reactions)
    <2>1. CASE Finish
      BY <2>1 DEF Finish
    <2>2. CASE ReturnAtOther
      BY <1>4, <2>2 DEF ReturnAtOther
    <2>3. CASE ReturnAfterClear
      <3>1. keys = {}
        BY <2>3 DEF ReturnAfterClear
      <3>2. NoSubscribers
        BY <3>1 DEF NoSubscribers, TypeOK
      <3>3. "clear" \in setup.reactions
        BY <1>1, <3>1 DEF LoopInv, KeyStays
      <3> QED BY <3>2, <3>3
    <2> QED BY <2>1, <2>2, <2>3
  <1>6. NoSubscribers' = NoSubscribers
    BY <1>1 DEF NoSubscribers
  <1>7. twice' = {} /\ StillToHear' /\ HeardAreListed'
    BY <1>1 DEF HeardInv, StillToHear, HeardAreListed
  <1> HIDE DEF Events
  <1>8. PrimaryUnheard'
    <2> SUFFICES ASSUME NEW x \in Range(primary') \ processed', Heard(x) PROVE phase' = 1 /\ NoSubscribers
      BY <1>1, <1>6 DEF PrimaryUnheard, Heard
    <2>1. x \in Range(primary) \ processed /\ x # Transient
      BY <1>1, <1>2, <1>3
    <2>2. CASE x # e
      <3>1. phase = 1 /\ NoSubscribers
        BY <2>1, <2>2 DEF HeardInv, PrimaryUnheard
      <3> QED BY <1>1, <3>1
    <2>3. CASE x = e
      <3>1. phase = 1 /\ NoSubscribers
        BY <1>4, <1>5, <2>1, <2>3
      <3> QED BY <1>1, <3>1
    <2> QED BY <2>2, <2>3
  <1>9. SecondaryUnheard'
    <2> SUFFICES ASSUME NEW x \in Range(secondary) \ processed'
                 PROVE  /\ ~Heard(x)
                        /\ "clear" \in setup.reactions => x \notin Range(primary') \cup {Transient}
      BY <1>1 DEF SecondaryUnheard, Heard
    <2>1. x \in Range(secondary) \ processed /\ x # Transient
      BY <1>1, <1>3
    <2>2. /\ Heard(x) => x = e
          /\ "clear" \in setup.reactions => x \notin Range(primary) \cup {e}
      BY <2>1 DEF HeardInv, SecondaryUnheard
    <2>3. ~Heard(x)
      BY <1>5, <2>1, <2>2
    <2> QED BY <1>2, <2>1, <2>2, <2>3
  <1> QED BY <1>7, <1>8, <1>9 DEF HeardInv

LEMMA OnceNext == TypeOK /\ OnceInv /\ [Next]_vars => OnceInv'
  <1> SUFFICES ASSUME TypeOK, OnceInv, [Next]_vars PROVE OnceInv'
    OBVIOUS
  <1>1. LoopInv /\ LoopInv'
    <2>1. LoopInv
      BY DEF OnceInv, LoopInv
    <2> QED BY <2>1, LoopNext
  <1>2. setup' = setup
    BY SetupStays
  <1>3. ASSUME NoComeback(setup) PROVE HeardInv'
    <2>1. HeardInv
      BY <1>3 DEF OnceInv, HeardInv
    <2>2. CASE StaysIdle
      BY <1>2, <2>1, <2>2, HeardIdle
    <2>3. ASSUME NEW e \in Events \cup {Transient}, NEW t \in Types, NEW target \in Subscribers \cup {NoTarget},
                 Begins(e, t, target)
          PROVE  HeardInv'
      BY <2>1, <2>3, HeardBegins
    <2>4. CASE Send
      BY <1>1, <1>3, <2>1, <2>4, HeardSend
    <2>5. CASE ReturnAfterClear \/ ReturnAtOther \/ Finish
      BY <1>1, <1>3, <2>1, <2>5, HeardOver
    <2>6. CASE RunOffTheEnd \/ UNCHANGED vars
      <3>1. UNCHANGED <<setup, processed, primary, secondary, subs, phase, dispatch, handled, twice>>
        BY <2>6 DEF RunOffTheEnd, vars, queues, tables, observers
      <3> QED BY <2>1, <3>1 DEF HeardInv, StillToHear, HeardAreListed, PrimaryUnheard, SecondaryUnheard,
                                Heard, NoSubscribers
    <2> QED BY <2>2, <2>3, <2>4, <2>5, <2>6, StepCases
  <1>4. NoComeback(setup)' <=> NoComeback(setup)
    BY <1>2
  <1> QED BY <1>1, <1>3, <1>4 DEF OnceInv, LoopInv, HeardInv

(* However often handlers raise or return the same event object, subscribe *)
(* during its dispatch, or empty the queues, no subscriber handles it twice*)
(* unless the reactions of the handlers bring it back: one takes a         *)
(* subscription away that another renews, or one passes the event on and   *)
(* another empties the table under the dispatch                            *)
(* (ProcessAllEvents, DispatchEventToSubscriber, SubscribeToEvent).        *)
THEOREM NobodyHearsTwice == Spec => []AtMostOnce
  <1>1. Init => TypeOK /\ OnceInv
    <2> SUFFICES ASSUME Init PROVE OnceInv
      BY TypeInit
    <2>1. /\ dispatch = Idle /\ Idle.target = NoTarget /\ handled = {} /\ twice = {}
          /\ primary = <<>> /\ secondary = <<>> /\ subs = [t \in Types |-> <<>>]
      BY DEF Init, Idle
    <2>2. Range(primary) = {} /\ Range(secondary) = {}
      BY <2>1, EmptyRange
    <2>3. ListedOnce
      <3>1. DOMAIN <<>> = {}
        <4>1. Len(<<>>) = 0 /\ <<>> \in Seq({})
          BY EmptySeq
        <4> QED BY <4>1
      <3>2. \A t \in Types : subs[t] = <<>>
        BY <2>1
      <3> QED BY <3>1, <3>2 DEF ListedOnce
    <2> QED BY <2>1, <2>2, <2>3 DEF OnceInv, KeyStays, TargetsAreDirect, StillToHear, HeardAreListed,
                                    PrimaryUnheard, SecondaryUnheard
  <1>2. TypeOK /\ OnceInv /\ [Next]_vars => (TypeOK /\ OnceInv)'
    BY TypeNext, OnceNext
  <1>3. TypeOK /\ OnceInv => AtMostOnce
    BY DEF OnceInv, AtMostOnce
  <1> QED BY <1>1, <1>2, <1>3, PTL DEF Spec
=============================================================================
