------------------------------ MODULE Blackboard ------------------------------
(***************************************************************************)
(* gamelib::Blackboard (ai/Blackboard.h, .cpp): values by typed key, that  *)
(* any thread stages and Update applies, with a time to live, subscribers, *)
(* and a parent board that answers for what a board does not hold.         *)
(*                                                                         *)
(* A key is a pair of a name and a type: BlackboardKeyRegistry gives keys  *)
(* of one name one id, and the bucket depends on the type.  A value is the *)
(* number of the Set that wrote it.  A subscription is known by the id that*)
(* Subscribe returns, which is given out once: whoever subscribes again    *)
(* gets another.  Update takes several steps, since other threads may Set, *)
(* and callbacks subscribe and unsubscribe, in between; time is counted in *)
(* calls of Update.                                                        *)
(***************************************************************************)
EXTENDS Naturals, Sequences, SequencesExt

CONSTANTS
    Boards,
    Parent,       \* Parent[b]: the board SetParent named, or NoBoard
    NoBoard,
    Keys,         \* pairs of a name and a type
    Lifetimes,    \* the times to live that values are set with; 0 is infinite
    Watched,      \* the boards that somebody subscribes to
    MaxSubscriptions, \* bound: the calls of Subscribe on such a board
    MaxWrites         \* bound: the calls of Set

ASSUME BlackboardAssumption ==
    /\ NoBoard \notin Boards /\ Parent \in [Boards -> Boards \cup {NoBoard}]
    /\ Watched \subseteq Boards
    /\ Lifetimes \subseteq Nat /\ MaxSubscriptions \in Nat /\ MaxWrites \in Nat

VARIABLES
    items,       \* items[b][k]: the entry of k in its bucket, or NoItem
    stagedWriteQueue,
    local,       \* the writes Update took off the queue
    updating,    \* the board whose Update is under way, or NoBoard
    subscriptions, \* subscriptions[b]: pairs of an id and a name
    subscriptionId, \* subscriptionId[b]: the id of the next subscription
    notifying,   \* the subscriptions notify has yet to call: id, name, write
    misused,     \* notify went on from an iterator that is not valid any more
    lastSet,     \* observer: lastSet[b][k]: the last Set's number, or 0
    writes,      \* observer: the calls of Set so far
    heard        \* observer: heard[b][s]: the last write subscription s was told of, or 0

boardVars == <<items, stagedWriteQueue, local, updating, subscriptions, subscriptionId,
               notifying, misused, lastSet, writes, heard>>

Names == {k[1] : k \in Keys}
Subscriptions == 1 .. MaxSubscriptions

(* ttl is what is left, lifetime what it was set with, age the Updates since. *)
Item(n, ttl) == [write |-> n, ttl |-> ttl, lifetime |-> ttl, age |-> 0]
NoItem == Item(0, 0)

BoardInit ==
    /\ items = [b \in Boards |-> [k \in Keys |-> NoItem]]
    /\ stagedWriteQueue = [b \in Boards |-> <<>>]
    /\ local = <<>> /\ updating = NoBoard
    /\ subscriptions = [b \in Boards |-> {}] /\ subscriptionId = [b \in Boards |-> 1]
    /\ notifying = {} /\ misused = FALSE
    /\ lastSet = [b \in Boards |-> [k \in Keys |-> 0]] /\ writes = 0
    /\ heard = [b \in Boards |-> [s \in Subscriptions |-> 0]]

(* Set stages the write under the lock, in any thread and at any time. *)
Set(b, k, ttl) ==
    /\ writes < MaxWrites
    /\ writes' = writes + 1
    /\ stagedWriteQueue' = [stagedWriteQueue EXCEPT ![b] =
                                Append(@, [key |-> k, write |-> writes + 1, ttl |-> ttl])]
    /\ lastSet' = [lastSet EXCEPT ![b][k] = writes + 1]
    /\ UNCHANGED <<items, local, updating, subscriptions, subscriptionId, notifying, misused,
                   heard>>

(* Get: the board's own value, or its parent's. *)
Get(b, k) ==
    LET G[c \in Boards] ==
            IF items[c][k] # NoItem \/ Parent[c] = NoBoard THEN items[c][k] ELSE G[Parent[c]]
    IN G[b]

NewSubscription(b, name) ==
    /\ b \in Watched /\ subscriptionId[b] <= MaxSubscriptions
    /\ subscriptions' = [subscriptions EXCEPT ![b] = @ \cup {<<subscriptionId[b], name>>}]
    /\ subscriptionId' = [subscriptionId EXCEPT ![b] = @ + 1]

Subscribe(b, name) ==
    /\ ~misused /\ updating = NoBoard
    /\ NewSubscription(b, name)
    /\ UNCHANGED <<items, stagedWriteQueue, local, updating, notifying, misused, lastSet,
                   writes, heard>>

Unsubscribe(b, s, name) ==
    /\ ~misused /\ updating = NoBoard /\ <<s, name>> \in subscriptions[b]
    /\ subscriptions' = [subscriptions EXCEPT ![b] = @ \ {<<s, name>>}]
    /\ UNCHANGED <<items, stagedWriteQueue, local, updating, subscriptionId, notifying, misused,
                   lastSet, writes, heard>>

-----------------------------------------------------------------------------
(* Update.                                                                 *)

(* ApplyStaged: the lock is held for the swap only. *)
TakeStaged(b) ==
    /\ ~misused /\ updating = NoBoard
    /\ updating' = b
    /\ local' = stagedWriteQueue[b]
    /\ stagedWriteQueue' = [stagedWriteQueue EXCEPT ![b] = <<>>]
    /\ UNCHANGED <<items, subscriptions, subscriptionId, notifying, misused, lastSet, writes,
                   heard>>

(* Mutants: the newest write first; a value keeps the time it had left. *)
NewestOf(queue) == Len(queue)
EntryKeepingTime(w, old) ==
    [Item(w.write, w.ttl) EXCEPT !.ttl = IF old.ttl > 0 THEN old.ttl ELSE w.ttl]

(* The position of the write that is applied next. *)
NextOf(queue) == 1

(* Bucket::set overwrites the whole entry. *)
Entry(w, old) == Item(w.write, w.ttl)

InUpdate == ~misused /\ updating # NoBoard /\ notifying = {}

ApplyNext ==
    LET w == local[NextOf(local)]
        b == updating
    IN
    /\ InUpdate /\ local # <<>>
    /\ items' = [items EXCEPT ![b][w.key] = Entry(w, @)]
    /\ notifying' = {<<n[1], n[2], w.write>> : n \in {x \in subscriptions[b] : x[2] = w.key[1]}}
    /\ local' = RemoveAt(local, NextOf(local))
    /\ UNCHANGED <<stagedWriteQueue, updating, subscriptions, subscriptionId, misused, lastSet,
                   writes, heard>>

(* notify calls a subscription that is still in the table. *)
Hear(n) ==
    /\ ~misused /\ n \in notifying
    /\ heard' = [heard EXCEPT ![updating][n[1]] = n[3]]
    /\ UNCHANGED <<items, stagedWriteQueue, local, updating, lastSet, writes>>

CallBack(n) ==
    /\ Hear(n)
    /\ notifying' = notifying \ {n}
    /\ UNCHANGED <<subscriptions, subscriptionId, misused>>

(* The callback unsubscribes itself, and notify increments the iterator    *)
(* that Unsubscribe erased; or another, which then is not called.  One of  *)
(* another name may be the end that notify's loop compares with.           *)
CallBackUnsubscribes(n, s, name) ==
    /\ Hear(n)
    /\ <<s, name>> \in subscriptions[updating]
    /\ subscriptions' = [subscriptions EXCEPT ![updating] = @ \ {<<s, name>>}]
    /\ notifying' = notifying \ {n, <<s, name, n[3]>>}
    /\ misused' \in IF <<s, name>> = <<n[1], n[2]>> THEN {TRUE}
                   ELSE IF name = n[2] THEN {FALSE} ELSE BOOLEAN
    /\ UNCHANGED subscriptionId

(* The callback subscribes, itself or another: notify may or may not come  *)
(* by the new subscription, and a rehash may have made its iterators       *)
(* invalid.                                                                *)
CallBackSubscribes(n, name) ==
    /\ Hear(n)
    /\ NewSubscription(updating, name)
    /\ \E more \in SUBSET ({name} \cap {n[2]}) :
          notifying' = (notifying \ {n}) \cup
                           {<<subscriptionId[updating], x, n[3]>> : x \in more}
    /\ misused' \in BOOLEAN

(* Bucket::decay: also what was written in this Update loses time. *)
Decayed(i) ==
    IF i = NoItem \/ i.ttl = 0 THEN i
    ELSE IF i.ttl = 1 THEN NoItem
    ELSE [i EXCEPT !.ttl = @ - 1, !.age = @ + 1]

Decay ==
    /\ InUpdate /\ local = <<>>
    /\ items' = [items EXCEPT ![updating] = [k \in Keys |-> Decayed(@[k])]]
    /\ updating' = NoBoard
    /\ UNCHANGED <<stagedWriteQueue, local, subscriptions, subscriptionId, notifying, misused,
                   lastSet, writes, heard>>

-----------------------------------------------------------------------------
BoardNext ==
    \/ ApplyNext \/ Decay
    \/ \E n \in notifying : CallBack(n)
    \/ \E b \in Boards : TakeStaged(b)
    \/ \E b \in Boards, k \in Keys, ttl \in Lifetimes : Set(b, k, ttl)
    \/ \E b \in Boards, name \in Names :
          Subscribe(b, name) \/ \E s \in Subscriptions : Unsubscribe(b, s, name)
    \/ \E n \in notifying, name \in Names :
          \/ CallBackSubscribes(n, name)
          \/ \E s \in Subscriptions : CallBackUnsubscribes(n, s, name)

BoardTypeOK ==
    /\ \A b \in Boards, k \in Keys :
          /\ items[b][k].write \in 0 .. MaxWrites
          /\ items[b][k].lifetime \in Lifetimes \cup {0}
          /\ items[b][k].ttl \in 0 .. items[b][k].lifetime
          /\ lastSet[b][k] \in 0 .. writes
    /\ updating \in Boards \cup {NoBoard}
    /\ notifying \subseteq Subscriptions \X Names \X (1 .. MaxWrites)
    /\ updating = NoBoard => local = <<>> /\ notifying = {}

(* When a board has applied what was staged for a key, it holds the value  *)
(* of the last Set, or nothing because that value's time is over: no Set   *)
(* that comes during Update is lost or applied out of order.               *)
LastSetWins ==
    \A b \in Boards, k \in Keys :
        \/ \E i \in DOMAIN stagedWriteQueue[b] : stagedWriteQueue[b][i].key = k
        \/ updating = b /\ \E i \in DOMAIN local : local[i].key = k
        \/ items[b][k].write \in {0, lastSet[b][k]}

(* What Get answers between two Updates still has time to live, whether it *)
(* is the board's own or its parent's.                                     *)
AnswersAreAlive ==
    updating = NoBoard =>
        \A b \in Boards, k \in Keys :
            LET i == Get(b, k) IN i # NoItem => i.lifetime = 0 \/ i.age < i.lifetime

(* A value is dropped only when its own time is over: one that overwrites  *)
(* another has its whole lifetime, and one set for ever stays.             *)
LivesItsTime ==
    [][\A b \in Boards, k \in Keys :
          items[b][k] # NoItem /\ items'[b][k] = NoItem =>
              items[b][k].lifetime > 0 /\ items[b][k].age + 1 = items[b][k].lifetime]_boardVars

(* A subscription hears of writes in the order they were made, and of none *)
(* twice: whom notify has yet to call knows nothing of this write, whatever*)
(* callbacks unsubscribe and subscribe meanwhile (Blackboard.cpp:215-262). *)
(* A callback that was called may be again, if it subscribed another time. *)
HeardOnce ==
    /\ [](\A n \in notifying : heard[updating][n[1]] < n[3])
    /\ [][\A b \in Boards, s \in Subscriptions : heard'[b][s] >= heard[b][s]]_boardVars

(* What a board holds and answers is the last that was set, while it lives *)
(* (Blackboard.cpp:35-64, 123-213).                                        *)
BoardOK == BoardTypeOK /\ LastSetWins /\ AnswersAreAlive

(* A board drops nothing before its time and tells nobody of a write twice *)
(* or after a later one (Blackboard.cpp:35-64, 179-200, 215-262).          *)
BoardKeepsAndTells == LivesItsTime /\ HeardOnce

-----------------------------------------------------------------------------
(* The inductive invariant behind BoardOK and BoardKeepsAndTells.          *)

Writes == [key : Keys, write : 1 .. writes, ttl : Lifetimes]
Entries == [write : 0 .. writes, ttl : Nat, lifetime : Lifetimes \cup {0}, age : Nat]
Ascends(queue) == \A i, j \in DOMAIN queue : i < j => queue[i].write < queue[j].write
Pending(queue, k) == \E i \in DOMAIN queue : queue[i].key = k

BoardShape ==
    /\ writes \in 0 .. MaxWrites
    /\ items \in [Boards -> [Keys -> Entries]]
    /\ lastSet \in [Boards -> [Keys -> 0 .. writes]]
    /\ stagedWriteQueue \in [Boards -> Seq(Writes)] /\ local \in Seq(Writes)
    /\ updating \in Boards \cup {NoBoard}
    /\ updating = NoBoard => local = <<>> /\ notifying = {}
    /\ subscriptions \in [Boards -> SUBSET (Subscriptions \X Names)]
    /\ subscriptionId \in [Boards -> 1 .. MaxSubscriptions + 1]
    /\ notifying \subseteq Subscriptions \X Names \X (1 .. writes)
    /\ heard \in [Boards -> [Subscriptions -> 0 .. writes]]

(* What an entry has left and what it has lived make up its lifetime. *)
TimesAddUp ==
    \A b \in Boards, k \in Keys :
        LET i == items[b][k] IN
        IF i = NoItem \/ i.lifetime = 0 THEN i.ttl = 0
        ELSE i.ttl > 0 /\ i.ttl + i.age = i.lifetime

(* Writes wait in the order they were made, those of a queue behind those  *)
(* that Update took from it.                                               *)
WaitInOrder ==
    /\ \A b \in Boards : Ascends(stagedWriteQueue[b])
    /\ Ascends(local)
    /\ updating # NoBoard =>
          \A i \in DOMAIN local, j \in DOMAIN stagedWriteQueue[updating] :
              local[i].write < stagedWriteQueue[updating][j].write

(* Nobody has heard of a write later than the one that callbacks are told  *)
(* of, and that one is before what waits.                                  *)
ToldInOrder ==
    /\ \A b \in Boards, s \in Subscriptions :
          /\ \A j \in DOMAIN stagedWriteQueue[b] : heard[b][s] < stagedWriteQueue[b][j].write
          /\ updating = b => \A i \in DOMAIN local : heard[b][s] < local[i].write
    /\ \A n \in notifying :
          /\ \A m \in notifying : m[3] = n[3]
          /\ \A s \in Subscriptions : heard[updating][s] <= n[3]
          /\ \A i \in DOMAIN local : n[3] < local[i].write
          /\ \A j \in DOMAIN stagedWriteQueue[updating] :
                n[3] < stagedWriteQueue[updating][j].write

(* An id that is not given out yet is nobody's and has heard nothing; all  *)
(* that notify has yet to call are of one name and have not heard of this. *)
IdsAreFresh ==
    /\ \A b \in Boards :
          /\ \A x \in subscriptions[b] : x[1] < subscriptionId[b]
          /\ \A s \in Subscriptions : s >= subscriptionId[b] => heard[b][s] = 0
    /\ \A n \in notifying :
          /\ n[1] < subscriptionId[updating] /\ heard[updating][n[1]] < n[3]
          /\ \A m \in notifying : m[2] = n[2]

(* No write that waits is later than the last Set of its key. *)
NoneAfterLast ==
    /\ \A b \in Boards : \A i \in DOMAIN stagedWriteQueue[b] :
          stagedWriteQueue[b][i].write <= lastSet[b][stagedWriteQueue[b][i].key]
    /\ updating # NoBoard =>
          \A i \in DOMAIN local : local[i].write <= lastSet[updating][local[i].key]

(* Where the last Set of a key is: staged, or being applied, or applied.   *)
LastIsStaged(b, k) ==
    \E i \in DOMAIN stagedWriteQueue[b] :
        stagedWriteQueue[b][i].key = k /\ stagedWriteQueue[b][i].write = lastSet[b][k]
LastIsTaken(b, k) ==
    /\ ~Pending(stagedWriteQueue[b], k) /\ updating = b
    /\ \E i \in DOMAIN local : local[i].key = k /\ local[i].write = lastSet[b][k]
LastIsApplied(b, k) ==
    /\ ~Pending(stagedWriteQueue[b], k) /\ (updating = b => ~Pending(local, k))
    /\ items[b][k].write \in {0, lastSet[b][k]}

LastIsSomewhere ==
    \A b \in Boards, k \in Keys :
        LastIsStaged(b, k) \/ LastIsTaken(b, k) \/ LastIsApplied(b, k)

BoardInv ==
    /\ BoardShape /\ TimesAddUp /\ WaitInOrder /\ ToldInOrder /\ IdsAreFresh /\ NoneAfterLast
    /\ LastIsSomewhere
=============================================================================
