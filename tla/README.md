# CppGameLib: specifications, checks and proofs

A TLA+ development of the game library in `src/`. It says what the library's
stateful parts do, what must hold of them, which of it TLC checked on small
instances, and which of it TLAPS proved for all instances. Paths below are
relative to `src/`.

1. [The system](#1-the-system)
2. [Modules](#2-modules)
3. [Correspondence with the code](#3-correspondence-with-the-code)
4. [Runs](#4-runs)
5. [Where the code and its words disagree](#5-where-the-code-and-its-words-disagree)
6. [Bounds](#6-bounds)
7. [Fairness and deadlock](#7-fairness-and-deadlock)
8. [Proofs](#8-proofs)
9. [Not modelled](#9-not-modelled)
10. [Plan](#10-plan)

## 1. The system

The library is nearly single threaded: a game loop calls
`GameStructure::Update`, which reads input, lets the network code poll its
sockets, runs `EventManager::ProcessAllEvents`, and then dispatches a few events
of its own (`UpdateAllGameObjects`, `UpdateProcesses`, ...); only a blackboard
is written by other threads. Everything else hangs off that loop by callbacks:
subscribers' handlers, overrides of processes, actions of behaviour trees and
state machines. What is hard about the program is therefore not threads but
three other things: callbacks that change the structure that is calling them, a
network that loses, repeats, reorders and cuts up, and long sequences of calls
that are each legal.

| Component | State | Operations | Interacts with | Hard part | What makes it correct |
|---|---|---|---|---|---|
| Ring buffer (`utils/RingBuffer.h`) | slots with a tag and a datum; tags uninitialised | `Put`, `Get` | both buffers of `ReliableUdp` | overwriting, garbage tags | `Get` finds only what was put |
| Reliable UDP endpoint (`net/ReliableUdp.cpp`) | next number, newest number received, send and receive ring | `MarkSent`, `MarkReceived`, `GenerateAcknowledgedBits` | both sides of a connection | loss, repetition, reordering, wraparound, full rings and messages | an acknowledged datum was received; an unacknowledged one is sent again; no null lookup |
| Reliable session (`net/ReliableUdpProtocolManager.cpp`, `ReliableUdpGameServerConnection.cpp`) | a client's endpoint, flag and keys; ONE endpoint and ONE session of the server for all clients | `Connect`, `Send`, `Receive`, `CheckForPlayerTraffic` | events to the game | key exchange over an unreliable network, keys with a 0 byte, shared state | keys match unless one was cut, no data in the clear, a session in the end |
| Wire format (`net/BitPacker.h`, `BitfieldReader.h`, `Message.cpp`, `crc.h`) | a scratch unit and a cursor on each side | pack, finish, read, checksum | endpoint, pings | unit boundaries, bytes among bits, damage | what is read is what was written; damage is noticed |
| Game servers and clients (`net/GameServer.cpp`, `GameClient.cpp`, `*GameServerConnection.cpp`, `Networking.cpp`) | players, sockets, ports, nicknames, receive buffers | connect, name, forward, ping, disconnect | event manager, sockets | order of connects, ends of streams, repeated datagrams, equal ports, descriptors past `select`'s limit, split records | a player is listed once under its own name; traffic goes to the others |
| Unix sockets (`net/LocalSocket*.cpp`) | one path that everyone binds | connect, greet, answer | sockets | every client takes the path | clients speak to the server |
| Events on the wire (`file/SerializationManager.cpp`, `Encoding/*`) | none | serialise, read | servers, clients | encodings that only one side knows | an event arrives as it was or not at all |
| Event manager (`events/EventManager.cpp`) | table of subscribers, two queues | subscribe, raise, dispatch, `ProcessAllEvents`, `Reset` | every other component | handlers call back into it | everyone hears an event, once; returned events wait a frame |
| Processes (`processes/ProcessManager.cpp`) | list of processes, states, children | attach, update, abort | overrides of `Process` | the list changes under the iteration | everyone is visited, ends once, chains are counted once, delays end |
| Game frame (`structure/GameStructure.cpp`) | what is started, the managers | `Initialize`, `Update`, `Draw`, `Unload` | resources, scenes | exceptions halfway | everything is unloaded |
| Resources (`resource/ResourceManager.cpp`, assets) | index by scene, name and id; counters; handles | index, load a scene, unload | scene changes | assets that do not say they are loaded | in memory is what the scene needs, and no more |
| Scenes and objects (`scene/*`, `objects/*`) | ordered layers of weak pointers | add, remove, load, update, draw | events, resources | layers that stay, pointers that expire, `remove_if` without `erase` | the scene's layers come first, objects are there once |
| Behaviour trees (`ai/BehaviorTree.h`, composites) | status and position of every node | build, tick, abort | game callbacks | running children, aborts, several ticks | children run in order, once a tick |
| Blackboard (`ai/Blackboard.cpp`) | values with a life, staged writes, subscriptions, parent | set, update, get, subscribe | other threads, trees | writes and subscriptions during an update | the last write wins, lives its time and is told once |
| State machines (`ai/FSM.cpp`) | active state, transitions | `Update` | game callbacks | transitions into transitions | one state, one move |
| Game loops (`structure/*GameLoop.cpp`) | lag, two times | update, draw | everything | frames that take too long | updates match the time |
| Timers, pusher, monitor (`time/*`, `net/GameStatePusher.cpp`, `NetworkingActivityMonitor.cpp`) | elapsed time, counters | update, fire, save | loops, events | what falls on a boundary | neither early nor late; everything counted once |
| Characters (`character/*`) | position, direction, key frame, hotspot | move, turn, update | loops, game | keys pressed at once, groups of frames | looks where it goes, shows that |

Settings, log files, encryption, drawing and the vendored `json11` are
I/O, libraries or lookups (section 9). `PROJECT.json` lists the components with
their sources, and the hazards with the line at which each bites.

## 2. Modules

```
RingBuffer --> ReliableUdp --+--> ReliableUdpLink --(implements)--> ReliableDelivery
                             |         ^
                             |         +-- ReliableUdpProofs --+
                             |                                 v
                             +--> ReliableUdpSession --(implements)--> Handshake
                                       ^
                                       +-- ReliableUdpSessionProofs
BitPacking, Serialization          --> Wire        <--+
GameNetwork, Records, LocalSockets --> GameServers <--+-- NetworkProofs     <--+
EventManager                                       <-- EventManagerProofs   <--+
ProcessManager                                     <-- ProcessManagerProofs <--+-- ListLemmas
BehaviorTree, Blackboard, StateMachine --> Minds   <-- MindsProofs          <--+
Resources --> Scenes --> Game                      <-- GameProofs           <--+
Timers --> GameLoops --+--> Simulation             <-----+
           Character --+
```

- `RingBuffer`, `ReliableUdp`: the objects as records and operators on them, so
  that the link and the session use the same definitions.
- `ReliableUdpLink`: two endpoints and a UDP network, nothing else: the
  composition the tests of `ReliableUdpTests.cpp` build by hand.
- `ReliableDelivery`: what such a pair promises, without numbers, rings or bits.
- `ReliableUdpSession`: clients and the server with keys, data and acks.
- `Handshake`: the key exchange of the session alone; finite, so liveness can be
  asked of it. It is shown to be implemented by `ReliableUdpSession`.
- `BitPacking`: packer and reader as functions of their fields. `Serialization`:
  events as texts. `Wire`: buffers and messages built from both, with damage.
- `GameNetwork`: servers and clients message by message, over TCP and UDP.
  `Records`: one TCP connection byte by byte, which is why `GameNetwork` may take
  a record as one step. `LocalSockets`: the Unix variant.
- `EventManager`, `ProcessManager`: the two dispatchers of a frame.
- `Game`: start, frames and end with both managers; its event queue is the part
  of `EventManager` that the managers see.
- `Simulation`: a loop, the timers that its updates drive and a character.
- `GameServers` and `Minds` put side by side what shares no state; a behaviour
  looks at one part (`look`, `mind`), so that one run checks all.
- `MC*`: constants for TLC. `*Proofs`: theorems; `GameProofs` has those about a game's
  time beside those about its scenes, `NetworkProofs` those of `GameServers` and of
  `Wire`. `ListLemmas`: what removing, appending, taking the
  first and flattening do to a list, and that a set of numbers has a least one; the
  proofs about lists, queues, layers and streams share them.

Definitions commented `Mutant:` (or, next to the definition they vary, named for
what they leave out) state a plausible bug of the definition that follows them.
No action or property uses them; they are there to show, by putting each in
place of the definition it precedes, that a property fails when the code has
that bug. There is one for each property of each run.

## 3. Correspondence with the code

**RingBuffer / ReliableUdp.** `Put` stores over whatever the slot holds; `Get`
returns the datum only if the tag is the number asked for (`Holds`). The
constructor does not initialise the tags, so a fresh buffer may hold any small
number from `Garbage` in any slot with a default datum (`FreshBuffers`).
`MarkSent` is `AfterMarkSent` (the object) and `MessageOf` (the message):
`Visited` is the range of its loop, from the datum before the new one down to
`lastAcked + 1`, where `lastAcked` numbers the *peer's* messages; `Attached`
keeps what fits. `MarkReceived` is `MarkLast`, the loop over bits (`MarkAcked`,
or `DereferencesNull` when a named number is no longer held), `Store` and
`NewLastAcked`. The acknowledgement word is the set of its set bits; a datum's
contents are its number for the observer (`payload`).
Numbers are `uint16_t`: additions are `% SeqModulus`, comparisons are plain.

**ReliableUdpLink.** `net` only grows and a message may be received any number
of times or never, which is loss, repetition and reordering at once. `sent` and
`delivered` are observers. A null dereference is undefined behaviour and stops
the endpoint (`undefined`).

**ReliableUdpSession.** One action per branch of the handlers.
`Connect`, `SendKeyInstead` (a `Send` without session sends the public key and
drops the caller's data), `SendData`; the client's `ReceiveInternal` is
`ClientReceiveAck`, `ClientReceiveKey`, `ClientCrash`. `Ghost` is the first
half of `SendAck`: it numbers and stores a pre-acknowledged datum whose message
is thrown away, then `SendInternal` sends an empty one. The server's
`CheckForPlayerTraffic` is `ServerReceiveAck`, `ServerReceiveData`,
`ServerReceiveKey`, `ServerCrash`; a key is acknowledged, then answered under
the *old* session keys, and the new keys are derived last. Keys are names, and
a sealed message opens with equal keys only (libsodium's `secretbox`, external).
A public key is sent as a C string, cut at its first 0 byte, and 32 bytes are read
all the same: `cutKeys` of a setup names the owners of such keys, and `ClientDerives`
and `ServerDerives` give the two sides different keys then. `memory` is what the rings
of new endpoints hold.

**Handshake.** The same without numbers and buffers; a packet is a client, a
direction, a type and a seal. `Heard` lets a packet leave the wire or stay
(a repeat); `Lose` loses it.

**BitPacking / Wire.** A unit is a function from its bits, and a bit is a token
that says which bit of which value it is; bits that nobody wrote or that two
values share are `Garbage`. `Pack`, `PushBytes`, `Flush` and `Finish` change the
packer's fields as the methods do, the cut of a value at the end of a unit and
the skip to the next unit before bytes included; `ReadNext`, `FetchBytes` and
`Finish` the reader's. Counters have the widths of the code (`UInt8`,
`UIntT`). `Wire` packs all values of a layout (`Send`), flips bits of what is
sent (`Flip`) and reads (`Receive`); `MessageValues` is `Message::Write` with
its header and packets (`HeaderValues`, `PacketDatumValues`), `GenerateCheckSum` packs the message again without the
checksum, and `Elements` rounds the received length down to units as the
receivers do. A CRC is taken to differ for any two buffers. Which values there are, on
units of which width, how many bits may flip and what the last string holds is a layout.
Beside the code's operators stand the ones that say where a value has to lie, whatever
packs it: a place is a unit and a bit of it, and `EndOf` is where the first values end.
`WireAssumption` uses it to say that a layout fits its buffer (section 8).

**Serialization.** A text is a record with the syntax that can parse it: pings
differ by encoding, events are JSON in all three. `Deserialize` is the other side's
`Deserialize`, which throws on what is not JSON and knows two types.

**GameNetwork.** A message is a type, a target (the `nickname` in the text), its
sender and a length. A network says how: over which transport, which port the server
sees each client at (`port`), and how many players' sockets `select` can look at
(`watched`). Over UDP a client is known by its port alone, so traffic is looked up by
port (`PlayersAt`). Over TCP `accept` gives the lowest free descriptor (`GetsWatched`), and only
those below `select`'s literal 5 are ever ready (`InSelect`). `Connect`, `ClientSends`, `Read`, `ReadReset`, `Leave` are
`GameClient`'s; over TCP `Listen` accepts one connection and takes the ready
players into `frame`, and each `CheckPlayer` is one round of the loop of
`CheckForPlayerTraffic`; over UDP `Datagram` is `Listen`. `FromPlayer` and
`FromDatagram` are `ParseReceivedPlayerPayload`. Receive buffers of 512 bytes that
nobody clears are `longest`, the longest message each has held: a shorter message
is parsed with that one's tail (`Parses`). `frame` is the set of the ready players that are still
to be looked at. `ServerSends` takes the sockets of the players that a call of `send` is
made for, with the outcome of writing to one that is gone. `Taken` and `Lose` are
the network: order and copies of datagrams; a stream keeps order.

**Records.** `SendLength` and `SendData` are the two calls of `send` of
`netSendVRec`; the reader is the state of one `netReadVRec` with its `netReadn`
(`Recv` returns any number of bytes that are there); the loop that throws away a
long record is `HaveLength`, `Discarded` and `LenLeft`.

**LocalSockets.** `ConnectThenBind` is `netLocalSocketClient`: connect, unlink the
path, bind to it. The kernel (external, `Accepts`) refuses a connection to a
socket that has a peer of its own.

**EventManager.** The frame is `phase`: 0 the input function and the network
(`Raise`, `SubscribeToEvent`, `RemoveSubscription`, `Reset`,
`DispatchToTarget`), 1 `ProcessAllEvents` (`Take`, `SkipProcessed`,
`EndProcessing`), then the direct dispatches (`DispatchDirectly`). One `Send` is
one turn of the loop of `DispatchEventToSubscriber`; `React` is what the handler
does before it returns: return an event, pass its own event on, raise a new one
or its own again, subscribe somebody, unsubscribe, clear, reset. The loop goes on
with the end it computed at its start, so a vector that shrinks is overrun
(`RunOffTheEnd`), and one that grows may be reallocated (`broken'` is chosen in
`Subscribe`). `Reset` is two swaps with one queue (`SwapQueues`): the events of the
primary queue move to the secondary one, and only those that were there are dropped. The
queue element to which the loop holds a reference moves with its queue (`moved`), and only a
second `Reset` in the same dispatch frees it. The pop after the dispatch (`Over`) then
takes whatever was raised after the `Reset`.
`UnsubscribeSubscribeToEvent` removes whoever has the *event's number* as its id
(`SameNumber`). `owed`, `handled`, `twice`, `missed`, `returnedNow` are observers.

**ProcessManager.** One `Visit` is one turn of the loop of `UpdateProcesses`:
`OnInit`, `OnUpdate` (their overrides choose a state and may attach a process),
then the ending, with the erasure, the child and the counts. `next` is the
iterator after `++it`; the list is a `std::list`, so an append does not move it.

**Resources / Scenes / Game.** `Readings` are what the elements of a resource file
can be read as: attributes that are absent are 0, refused, or uninitialised,
depending on the factory. `LoadSceneAssets` folds `SwapAsset` over the assets in
the order of the map; each kind's `Load` and `Unload` are operators of their own,
since a font never sets `IsLoadedInMemory`, a missing picture is only logged, a
missing script throws, and a sound loads what is found by its *name*. `Scenes` keeps
layers as lists of pointers. A new scene's come first and those of earlier scenes are
never cleared; `from` says which element of which file a layer came from, and an object is
added to the last layer of all. What a scene file creates is owned by nobody and
`Expired` at once. `RemoveIf` is `remove_if` without `erase`: what stays moves to the
front, what was moved from is empty, the rest is as it was. `Game` is the order of
a frame: `ReadInput`, `ProcessEvent` (resources before scenes, as they subscribe),
`UpdateAllGameObjects`, `Draw`; exceptions end in `thrown`, undefined behaviour in `crashed`.

**Timers / GameLoops / Character.** `PeriodicUpdate`, `Start`, `Reset`, `DoIfReady`
are the two timer classes; `SendGameState` and `SaveAndReset` are what the pusher's
and the monitor's processes do in an update. In `GameLoops` a frame is `BeginFrame`
(the clock is read), `Update` while `Due`, `EndFrame` (the network game's rule and
the drawing); updates and drawing take a time from `Costs`. `MoveNpc` moves a
character by `AtSpeedBy` or `StatefulBy` and turns it to the movement's direction;
`NpcUpdate` moves sprite, hotspot and bounds along and changes the frame;
`SkipUnsupportedAnimationGroupFrames` is one round of the loop of that name.

**BehaviorTree.** A node's number is its address. `Open`, `AddLeaf`, `Finish` and
`End` are the builder. A tick is recursive, so its calls are a variable, `stack`,
and `result` is what the last returned: `RunChild`, `NextChild`, `StopAtChild`,
`NoChildLeft` are the loop of sequences and selectors; `RunParallelChild`,
`CountResult`, `EndParallel` and `RunRepeated`, `StopRepeating`, `RepeatAgain` those of
the others. `ReturnAfter` is the end of `Behavior::Tick`, with `OnTerminate` of the
node and the aborts below it. What actions, conditions and utilities return is any
status of the setup's `results`, `Invalid` included, which a `Repeat` takes for a success. A
`Repeat` holds what the builder can give it: one leaf (`repeated` says which).

**Blackboard.** `Set` stages, `TakeStaged` swaps the queue under the lock,
`ApplyNext` applies one write and begins its notifications, `CallBack*` calls one
subscription's callback. That may subscribe once more (`notify` then comes to the new entry
or has passed it) and unsubscribe itself or others; `misused` says that one of `notify`'s
iterators is invalid after it. `Decay` ends the update.

**StateMachine.** `BeginUpdate`, then one look at a transition per `NotValid`, or
`OnExit` and `OnEnter` (with `OnTransition` between), and `OnUpdate`.

## 4. Runs

What each shows; the longest takes two to three minutes. A property whose name ends
in `OK` is a conjunction of named parts, each with its own comment in the module:
the type invariant of its component and the statements listed after it.

| Run | Instance | Shows |
|---|---|---|
| `link` | 2 senders, 3 datums each of size 1 or 3, rings of 2 slots with garbage in them, messages of 5 bytes, numbers mod 4 | `NoFalseAck`: what counts as acknowledged arrived. `LeftOutOnlyIfFull`: above the acknowledged number a message leaves out only what the ring no longer has, what arrived or does not fit. `LastAckedIsNewest`. `NoNullDereference`: a lookup finds nothing only for a number that the ring has overwritten since, which happens (section 5). `DeliverySpec`: each step is one of `ReliableDelivery`, where an acknowledgement is forgotten with its datum. |
| `session` | 1 client with encryption and 1 without, with repeats; 2 clients with encryption; keys with a 0 byte, the client's, the server's, one client's of two; memory that holds a client's numbers | `KeysAgree`: no order of repeated keys and replies leaves sides with keys of different exchanges, and the keys differ exactly when one was cut. `NoDataInTheClear`. `AloneAckedDataWasRaised`: what a client counts as acknowledged reached the game, unless the server found a ghost of this client in memory it never wrote (`FindsGhost`). `EndpointsOK`: no lookup fails (`ServerStaysUp`; `ClientsStayUp` with encryption and no repeats). `HandshakeSafety`: the classes do no more with sessions than `Handshake`. |
| `handshake` | 2 clients, loss and repeats, with and without encryption | `SessionsOK`: a client with a session is the one client of the server (`ServerHasSession`). `SessionsLast`: no late or repeated packet takes a session back. `SessionEventually`, without encryption. |
| `wire` | every order of up to 3 values on units of 8 and 16 bits; messages of up to 3 packets; flipped bits; every event in every encoding | `BitsOK`: packer and reader agree on the value and the place (`ReadsBack`, `EndsInStep`, `CountsWhatIsWritten`). `MessagesOK`: the checksum accepts what was sent and nothing else (`IntactIsAccepted`, `AcceptedIsIntact`), and `EventsSurvive`. |
| `servers` | 2 clients over TCP, with one and with two descriptors watched, over UDP with copies, from two ports and from one, and over UDP with two lengths; one stream of 3 records; 2 clients on a Unix path | `PlayersOK`: `RegisteredOnce`, `NamesAreOwn`, `ServerStaysUp`, `GivesUpRightly`. `TrafficOK`: `UdpOthersHear`, `NeverEchoed`, `HeardInOrder`. `RecordsOK`: records are whole however `recv` cuts (`RecordsWhole`). `LocalOK`: `SpeaksToServer`, `ExitsForTheGone`. `ServesWhoIsThere`: `EveryoneIsNamed`, `RecordsArrive`, `ForgottenStaysSilent`. |
| `events` | 2 subscribers, 2 types; handlers that return, pass on, raise, re-raise, subscribe; handlers that return, re-raise, unsubscribe, clear, with targeted events; handlers that pass on, raise, re-raise, unsubscribe, reset | `EveryoneHears`: whoever was subscribed from the start of a dispatch to its end handled the event. `AtMostOnce`: nobody handles an event object twice, where handlers have none of the three pairs of reactions that `NoComeback` names (no setup has one). `QueuesOK`: a returned event waits for the next call (`ReturnedWaits`), and the event under dispatch is in a queue until a second `Reset` frees it (`ReferenceHolds`). `QueuedIsProcessed`: every queued event is dispatched in the end, or freed memory was used first. |
| `processes` | 5 processes: a chain of two, a chain of two delays of 2 frames, one alone | `EveryoneIsVisited`. `ChainsOK`: successes and failures reported add up to the chains that left (`ChainsAreCounted`), `ChildAfterSuccess`, `EndsOnce`. `DelaysEnd`. |
| `game` | 4 resource files, 2 scene files of 3 scenes, 2 objects, 4 events | `WhatIsShown`: between events the assets in memory are those of the scene and no others (`SceneIsResident`), the two managers agree on the scene's name (`ManagersAgree`), its layers come first, each as its file says (`SceneIsFirst`), and the layers behind them count down to 0 (`LayersInOrder`). `AssetsOK`: `CountsAgree`, `OnlyFontsAreLost`, `UnloadFreesAll`. `ObjectsAreTraced`: no object appears or disappears but by its own event (`AddedOnce`, `OthersStay`), no layer of an earlier scene goes or changes (`EarlierLayersStay`), and `DrawnWasUpdated`. |
| `minds` | every tree of up to 5 nodes the builder can make of three sets of classes; two blackboards; a machine of three states | `TreeOK`: `UpdatedOnce`, `SequenceInOrder`, `OneChildRuns`, `ParallelLeavesNone`, `ScriptsCloseOnce`. `TickEnds`. `BoardOK`: `LastSetWins`, `AnswersAreAlive`. `BoardKeepsAndTells`: `LivesItsTime`, `HeardOnce`: of each write a subscription hears once, in the order of the writes, whatever callbacks subscribe and unsubscribe. `MachineOK`: `EnteredIsActive`, `OneMove`. |
| `time` | both loops, networked or not, against every cost; traffic or moves | `LoopsOK`: `NoTimeLost` (fixed loop), `OneUpdateATick` (variable loop), `NetworkGameIsPrompt` (an update of a networked game makes up for the frame before and one tick at most, which bounds nothing but what is handed on). `FramesEnd`. `TimersOK`: `NeverEarly`, `NeverOverdue`, `NothingUncounted`. `CharacterOK`: `LooksWhereItGoes`, `FrameIsOfTheGroup`, `HotspotCentred`. |
| `session_shared` | 2 clients, no encryption | ends in a counterexample to `AckedDataWasRaised` (section 5) |
| `servers_tcp` | 2 clients over TCP | ends in a counterexample to `OthersHear` (section 5) |

`session` checks `AckedDataWasRaised` for setups of one client and
`session_shared` for two: what breaks it is the endpoint the clients share.
`servers` checks `OthersHear` over UDP and `servers_tcp` over TCP: what breaks it is
the socket that the TCP server writes to.

## 5. Where the code and its words disagree

Two runs end in a counterexample to a sentence of the repository (quoted in
`PROJECT.json`, "findings"):

- `session_shared`: two clients share the server's one endpoint, so data of one
  acknowledges data of the other, which is then not sent again.
- `servers_tcp`: what a player sends is sent to that player, once for each of the
  others (`net/TcpGameServerConnection.cpp:226`), and to nobody else.

Others were met while modelling. The properties say where they except them, or can
be given other constants to see them.

The reliable transport:

- The server raises datums as they come, late and repeated ones too, where
  `Tests/Tests/ReliableUdpTests.cpp:319` says that ordered transmission is
  guaranteed.
- `LastAckedIsNewest` with `SeqModulus = 3`: after the numbers wrap, `Sequence >
  lastAcked` (`net/ReliableUdp.cpp:93`) is false for newer messages and `lastAcked` stands
  still.
- `ClientsStayUp` without its premises: `CalculateRttStats`
  (`net/PacketDatumUtils.h:39`) looks the *server's* number of an ack up in the
  client's own send buffer and dereferences the result; after a repeated key the
  server's numbers are ahead and the result is null. Without encryption the network
  need not repeat anything: the client sends its key again by itself. With encryption
  the second key is sealed or no longer opens, and the premise suffices (section 8).
- The exception of `AloneAckedDataWasRaised` (`FindsGhost`): an ack carries the datums not
  yet acknowledged, and whoever receives it stores them without raising them. What keeps
  them from being acknowledged is the gap before it: `SendAck` numbers a datum of its own
  and throws its message away, and the bits stop at the number the receiver never heard.
  When a tag in memory never written looks like that number, they go on, and data counts
  as acknowledged that the game was never given. The setup with noisy memory gets there.
- An endpoint that has sent `bufferSize` more datums meets an acknowledgement of one that
  its ring no longer has: `Get` returns a null pointer (`utils/RingBuffer.h:33`), and
  `MarkReceived` dereferences it (`net/ReliableUdp.cpp:71`). In `link`, whose rings have 2
  slots, endpoints do end so; `NoNullDereference` says that this is the only way.
- A public key is 32 random bytes, and is sent as a C string: the constructor of a datum
  takes a `const char*` (`net/PacketDatum.cpp:9`; `net/ReliableUdpProtocolManager.cpp:42`,
  `57` and `69`; `net/ReliableUdpGameServerConnection.cpp:147` and `168`), so a key with a 0
  byte is cut there. Its receiver copies 32 bytes all the same (`139` there,
  `ReliableUdpProtocolManager.cpp:181`) and the two sides derive different keys. Neither
  notices: both have a session, and none of the sealed messages opens. About one key in nine
  has such a byte.
- `SessionEventually` with encryption: when the server's one answer is
  lost, the client's next key, in the clear, no longer opens, and there is never a
  session; with two clients the second never gets one, loss or not.
- `GenerateAcknowledgedBits` stops at the first number that was not received, which
  is right if whoever received a number received all before it. The loop of
  `MarkSent` (`net/ReliableUdp.cpp:19`) stops at `lastAcked`, a number of the *other*
  direction, so when both sides send, earlier datums may be neither bundled nor
  acknowledged.
- The size limit of a message (`net/ReliableUdp.cpp:16`) does not count the datum
  being sent.

The wire:

- `BitfieldReader` does not mask a value that ends one bit into the next unit
  (`net/BitfieldReader.h:159-168`; 31 bits, then 2); its comment there is mistaken.
- After bytes that end within a unit, a `Finish` right after skips too few bits
  (`net/BitfieldReader.h:89`). No message of the library does either of the two;
  `ReadsBack` excepts them (`unmasked`, `FinishAfterBytes`).
- The packer counts its units in 8 bits (`net/BitPacker.h:191`) and starts over at
  the beginning of the buffer after 1020 bytes, although `net/Message.h:126` has
  room for 1200.
- A ping in XML or bits is not JSON, so that its receiver throws
  (`file/SerializationManager.cpp:52`); `ControllerMove` is sent and nobody knows it.

Servers:

- A UDP server parses its whole buffer, which nobody clears: a shorter message
  after a longer one is not JSON, and the exception ends the server
  (`net/UdpGameServerConnection.cpp:84`).
- A UDP client is told from others by its port alone
  (`net/UdpGameServerConnection.cpp:95`, `174`). Of two clients on two hosts that have the
  same port, the second is never a player: it hears nothing of the others, and what it sends
  is reported under the first one's name. `NamesAreOwn` promises no more than that.
- `select` is given 5 as its first argument (`net/TcpGameServerConnection.cpp:36`, `53`;
  the comment takes it for a number of pending connections). Descriptors from 5 on are not
  looked at on POSIX. With stdio and the listener open one player's is below 5, and the
  second player, once accepted, is never read from: it gets no name, and its events reach
  nobody. `EveryoneIsNamed` excepts it. On Windows the argument is ignored.
- A TCP player whose stream ends stays connected, and writing to it raises
  `SIGPIPE` (`net/TcpGameServerConnection.cpp:154`). A client that stops halfway
  through a record stops the whole server in `netReadn` (`net/Networking.cpp:59`).
- Of the local clients only the first gets a socket: it unlinks the server's path and
  binds it itself (`net/Networking.cpp:285`), and the kernel refuses whoever connects
  there next.

Events, scenes and the rest:

- `AtMostOnce` without `NoComeback`: with three subscribers, one handler takes a
  subscription away and another renews it behind the iterator, so that its owner handles
  the same event again; or one puts its event on the secondary queue, by passing it on or by
  a `Reset`, and another empties the table, so that the dispatch returns, nothing is
  marked processed, and the event is dispatched again in a later frame.
- A handler that unsubscribes shrinks the vector under the loop, which reads past its end,
  and one that subscribes may move it (`broken`): `EveryoneHears` is about handlers that
  only add, and nothing is promised to whom a removal leaves out.
- `EveryoneHears` with targeted events: `DispatchEventToSubscriber` with a target
  returns at the first subscriber of another name (`events/EventManager.cpp:193`),
  so a targeted event may be given to nobody.
- `Reset` neither clears the subscribers nor both queues, as `events/EventManager.h:27`
  says: its two swaps (`events/EventManager.cpp:41-46`) leave the subscribers alone and
  move the events of the primary queue to the secondary one, where they are dispatched in
  the next frame. The pop after a dispatch whose handler did this takes an event that was
  raised since, and loses it; and two `Reset`s in one dispatch free the event under dispatch
  (`broken`).
- `ProcessAllEvents` leaves returned events waiting in the primary queue, where
  `events/EventManager.h:36` says both queues are gone through.
- Layers are sorted by `Zorder` with the largest first (the comparison at
  `scene/SceneManager.cpp:261` names its first argument `rhs`), where a comment
  says that drawing begins at zero (`scene/SceneManager.cpp:307`).
- A new scene's layers are put beside those of all scenes before, which are never cleared
  (`scene/SceneManager.cpp:219-320`) and are drawn over them; going back to a scene gives
  its layers a second time. An object that is added goes to the last layer
  (`scene/SceneManager.cpp:33`), that of the first scene that was read. When the file of a
  scene cannot be read, its assets are loaded and shown with the layers of the scenes before.
- An object that is removed stays in its layer when others were behind it
  (`scene/SceneManager.cpp:108`), and is drawn on. The objects that a scene file
  creates expire as they are made (`scene/SceneManager.cpp:297`) and are never
  drawn.
- Looking up an unknown name plants a null pointer that `Unload` follows
  (`resource/ResourceManager.cpp:307`). Fonts are loaded again by every change of
  scene, and the handle they had is lost (`OnlyFontsAreLost`).
- `OnTerminate` of a child of an `ActiveSelector` that failed is called twice
  (`ai/ActiveSelector.h:24`). `Abort` of a composite sets its own status and leaves its
  children `Running` (`ai/Behavior.h:74`), so that they resume in the middle when it is
  ticked again; and a `Repeat` takes a child's `Invalid` for a success. A `Repeat` without
  a count never ends its tick while its child succeeds at once, and one whose child is
  still running returns `Invalid` and starts its count again (`ai/Repeat.h:43`).
- `StatefulMove` asked for a direction takes a key it never heard of for a pressed
  one; with two opposing keys position and direction disagree. A hotspot's height is
  computed from its parent's width (`character/Hotspot.cpp:16`). A sprite none of whose
  frames is of the group it looks for goes round its frames for ever
  (`character/AnimatedSprite.cpp:78`), which `FramesEnd` excepts (`Hangs`).
- A networked game forgets at the end of each frame all it owes but a tick
  (`structure/VariableGameLoop.cpp:110`): what `max_loops` updates do not make up for is never
  made up for, and the next frame still begins late by a tick and by what this one took.

## 6. Bounds

- `SeqModulus` stands for 65536. It is 4 in `link`, where with at most 3 datums
  every number is used and none twice, the premise of the proofs; it is 32 in the
  sessions, which do not come to the edge. Numbers that have wrapped are left to
  section 5, since the code is wrong there.
- `BufferSize` is 2 in `link`, where the third datum overwrites the first, acknowledged or
  not; it is 8 in the sessions, which overwrite nothing. `AckBits` (31 in the code) is 2 or
  3: enough for a first, a middle and a last bit, and for more numbers than bits.
- `MaxSent` = 3 datums per peer: one to be lost, one to carry it, one to
  acknowledge; with both sides sending these are up to six interleaved messages,
  each received any number of times. The two peers are alike (`PeersAreAlike`).
- `MaxBytes` and `Sizes` are such that a message has room for one small datum
  and not always for two.
- `maxClientSeq`, `maxServerSeq` (4 to 7) of a session's setup cap the numbers: enough
  for a key, a repeated key, both replies, an ack (which takes two numbers) and two
  datums. `Garbage` = {3, 5}: numbers that a client's ghosts have and others that its datums
  have; the setup with noisy memory finds both in every new ring.
- `wire`: three values reach every phase of a unit from every other, on units of 8 and
  16 bits; the code's units are 32 bits wide, as in the messages. Packets hold 0 to 7
  bytes: less than, exactly, and more than a unit. `BufferUnits` = 32 is never reached, as
  `WireAssumption` asks of every layout (`Fits`).
- `servers`: two clients are enough for one to be the other's "other". `maxSends` = 2
  messages after the registrations (1 where there are two lengths or one port) and one
  repeated datagram; of two players one or both have a descriptor that is watched; `MaxRecords` = 3 records of 1 to 5 bytes into a buffer of 2 (`Room`): shorter,
  as long, and longer by one, by half and by more than twice. `MaxGreetings` = 3.
- `events`: 2 events are created for the queues, plus any number dispatched directly;
  every call of a handler does at most one reaction, and any subscriber may do any of
  them at any call. Two subscribers suffice for an iteration to be changed before, at
  and after its position. The second setup has 1 event because its reactions and the
  targeted events multiply; re-raising gives it several places in the queue. The third has 2
  for a `Reset` to move one under dispatch and one that waits.
- `processes`: 5 processes, `DelayTarget` = 2 frames: a chain, a chain of delays and a
  process alone; all orders of attaching.
- `game`: `MaxRaised` = 4 events or re-readings: to add both objects, remove one and
  change the scene, or to go to a scene and back. The files have what loads, what does
  not, what is missing, two of one name, and one that is refused.
- `minds`: trees of 5 nodes hold a composite below a composite with two children each;
  rarer classes, and `Invalid`, are in trees of 4, where a `Repeat` holds an action or a
  script. `MaxWrites` = 3 staged writes over two keys of one name on two boards, with lives of
  0 (for ever) and 2 updates. `MaxSubscriptions` = 3, all on one board: one that has been
  called, one that unsubscribes or subscribes, and one that is still to be called.
- `time`: a tick of 3 on a clock to 13 (`MaxClock`), updates and drawing that cost 0, 2
  or 11: on time, nearly a tick, and more ticks than a frame may catch up
  (`maxLoops` = 2). Of the timers' rates 4 and 5 are no
  multiples of the tick and 6 is one. Two events or two moves a behaviour.
- Observers (`sent`, `delivered`, `raised`, `handled`, `owed`, `told`, ...) never
  influence a step.

## 7. Fairness and deadlock

- `Handshake`: a client keeps sending (the game's loop calls `Send`: weak
  fairness of `ClientSend`), and of the packets that are sent again and again
  some are heard (strong fairness of `ServerHearKey` and `ClientHearKey`): without
  the latter UDP could lose everything. No fairness is assumed of acks or data,
  which are heard or not.
- `EventManager`: weak fairness of `Loop`, the steps of `GameStructure::Update`
  and of the dispatch: the game loop goes on and handlers return.
- `ProcessManager`: weak fairness of `Update`: the frame's `UpdateProcesses` is
  dispatched again and again.
- `GameServers`: weak fairness of the server's `Listen` and of the rounds of its loop
  (the game loop calls it in every frame), and of the reader of a stream (`recv` returns
  what there is). None of the clients, which may stop at any time, and none of UDP.
- `Simulation`: weak fairness of an update, of a round of the sprite's loop and of the
  end of a frame: what has begun runs on. Nothing makes a frame begin.
- `Minds`: weak fairness of the steps of a tick, which runs in the game's thread.
- `link`, `session`, `game` and `wire` assume none.

`CHECK_DEADLOCK FALSE` is set where the system may stop: endpoints that have
dereferenced a null pointer, sessions whose caps are used up, a handshake whose clients crashed, an event manager after `broken` (undefined
behaviour, of which nothing is claimed), processes when all have ended, a game that has
unloaded or thrown, servers and clients that have ended, a clock at its bound, a machine
that threw, a message that has been read.

## 8. Proofs

Everything below is proved for every value of the constants that satisfies the named
assumptions of the modules (`...Assumption`) and, where it says so, the hypotheses of
the theorem. `PROJECT.json` lists the theorems with the property each states.

**`ReliableUdpLink`**: any ring size, any number of acknowledgement bits up to it, any
limit, sizes and number of datums.

- `TypeCorrect`: every variable of the link keeps its type. One lemma per operator of
  `RingBuffer` and `ReliableUdp`, one per action.
- `AckInvariant`, `AckedWasDelivered`, `AcknowledgesNewest`, under `NoWraparound`
  (fewer datums than numbers). `NoFalseAck` is not inductive: whether marking a
  datum is right depends on the message that names it, and that on the receive
  buffer it was built from. `AckInv` adds exactly that chain: numbers are not
  reused (`Numbering`), a real datum sits under its own number
  (`SendBuffersGenuine`), an acknowledged slot of a receive buffer was received
  (`ReceiveBuffersGenuine`: garbage tags are never acknowledged), `lastAcked` is
  the newest received (`LastAckedGenuine`), and what a message in flight says
  stays true (`NetGenuine`), since `delivered` only grows.
- `NeverDereferencesNull` and `ImplementsDelivery`, under `NoWraparound` alone: rings may be
  overwritten any number of times. `HeldInv` says what a ring holds then: the slot of a
  number that was sent has it or a later one, with that one's datum, the last `BufferSize`
  numbers are all there, and only numbers sent travel; so a named number, which was
  delivered and hence sent, is found or was overwritten. With it each `Send` is a `Submit`,
  which forgets the acknowledgement of the datum it overwrites, and each `Receive` a `Hear`
  of `ReliableDelivery`, or the endpoint ends.
- `BundlesWhatFits` (`LeftOutOnlyIfFull`), under the same hypothesis; it is
  inductive once `AckInv` and `HeldInv` are known. The bytes of a message are counted as a
  set (`BodyBytes`), and the size by which the loop decides is the header and the bytes
  of all that it attached so far; so a datum that the loop left out did not fit, and one
  that it never came to is not above the acknowledged number or arrived.

**`Handshake`**: any set of clients, with and without loss; no hypothesis.

- `SessionsAgree` (`SessionsOK`) from `HandshakeInv`, which adds to it what the packets
  under way stand for: a key of the server travels only once the server has a session, in
  the clear to nobody but its client, and what reaches the server is sealed by its sender.
- `SessionsAreKept` (`SessionsLast`), action by action, from the same invariant.

**`ReliableUdpSession`**: any clients, settings and bounds.

- `SessionInvariant`, `KeysAlwaysAgree`, `NothingInTheClear`, under `NoWraparound`.
  Whether a packet leaks data or gives away the wrong key depends on what the object that
  bundled it kept; so `SessionInv` follows texts from the buffers (`OwnTexts`: each side
  keeps its own texts, under their own numbers, and no data without a session) to the
  packets (`OwnPackets`) and the keys derived from them (`OwnKeys`,
  `KeysInTheClear`). `NoDataInTheClear` is then a consequence. `KeysAlwaysAgree` says of keys
  that were cut no more than the code gives: the two sides' keys are of one exchange, and equal
  if and only if neither public key was cut on its way.
- `EndpointsStayUp` (`EndpointsOK`), also under `NoOverwriting`. `ServerHolds` and
  `SessionClientHolds` are the link's argument: all that was sent is held and
  only that is named. It does not cover `CalculateRttStats`, which looks the peer's
  numbers up in one's own ring; for that, `ClientIsAhead` counts: with encryption and no
  repeats the client of the session has always used more numbers than the server, three
  against two for the key and one against one for each datum, those under way included.
- `SessionImplementsHandshake`: with `SessionInv` and `StaysUpInv` each action is an
  action of `Handshake` or changes nothing of it.
- `AloneNothingIsLost` (`AloneAckedDataWasRaised`), for any content of memory never
  written: the argument ends where the server finds a ghost in it, from which step on
  the property promises nothing (`LogOf`). `AloneInv` adds what the server raised to the chain of the acknowledgements: what its receive
  buffer holds below the first gap was raised, what a packet names was, and so what a
  client counts as acknowledged. The gaps matter, since datums bundled in an
  *ack* are stored and not raised (section 5).

**`ProcessManager`**: any processes, children and delays, any finite number of
attachments.

- `EveryProcessIsVisited` (no hypothesis) from `DueInv`: whoever has not been visited in
  this update stands at or behind the iterator. `TurnLists` and `RemoveAtFacts` follow the
  list through an erasure and an append in one turn.
- `ChainsAddUp` (`ChainsOK`), under `ChildrenApart`. A child enters the list when its
  parent ends, so "ends once" needs that the parent ends once and that nothing else
  attaches the child: `ListedOnce`, `NotEnded` and `Known` say where a process is in its
  life. The counts are cardinalities of sets of processes, and a turn changes them
  by one.

**`EventManager`**: any subscribers, types, frame types and reactions, targeted events
included; no hypothesis.

- `QueuesStayInOrder` (`QueuesOK`) from `WaitsInv`: what was returned in this frame is in
  the secondary queue only, until the frame is over. `ReferenceHolds` is inductive as it
  stands: handlers append to queues, and a first `Reset` moves the primary one as a whole.
- `EveryoneIsReached` (`EveryoneHears`) from `HearInv`: while handlers only add, who is
  still owed the event stands between the iterator and the end that the loop computed
  at its start; appending moves nobody.
- `NobodyHearsTwice` (`AtMostOnce`) from `OnceInv`. During a dispatch whoever stands
  behind the iterator has not handled the event (`StillToHear`), and whoever has is
  still in the table (`HeardAreListed`), so that no subscription puts it
  behind the iterator again; between dispatches an event of a queue that is not processed
  was handled by nobody (`PrimaryUnheard`, `SecondaryUnheard`). A `Reset` moves unheard
  events from one queue to the other, and the one under dispatch is marked processed at the
  end, since nobody clears the table. All
  fail without `NoComeback` (section 5), and TLC has the counterexamples.

**`Simulation`** (`GameLoops`, `Timers`, `Character`): any tick, costs, rates, intervals,
movements and key frames; no hypothesis.

- `LoopsKeepTime` (`LoopsOK`) from `LoopsInv`: `t0` is the time of the updates made, and a
  frame that is over left less than a tick undone or was cut off by `maxLoops`; a networked
  game is, throughout a frame, at most a tick behind the beginning of the frame before.
- `TimersKeepTheirRate` (`TimersOK`). `SenderInv` says that the pusher's timer holds the
  time since it last sent. `NothingUncounted` is inductive, once it is known what a sum over
  a list does when something is appended or replaced; the sum is a fold, and
  lemmas about it go over the least place where two sums differ (see below).
- `CharacterIsShownOneWay` (`CharacterOK`) from `CharacterInv`: while the sprite skips
  frames, the group it looks for is the one it had when the frame was due.

**`Game`** (`Resources`, `Scenes`): any resource files, scene files, objects and number of
events; no hypothesis.

- `AssetsBalance` (`AssetsOK`) and `ShownIsWhatWasRead` (`WhatIsShown`) from `GameInv`. To the
  parts of the two properties it adds that the lists by scene hold each asset of the scene
  and that the name of every asset leads to an asset (`IndexInv`: so a load reaches all, and
  a sound finds the file of its name); that a loaded asset is one that can be loaded and knows
  it, and that a handle which would be overwritten belongs to a loaded asset or to a font
  (`MemoryInv`); and where each layer stands (`LayersInv`): a new scene numbers its layers by
  how many there are, so orders count down to 0 and the new ones come first.
  `LoadSceneAssets` is a function along the assets in the order of the map. `LoadStep`
  carries what holds of it (`LoadInv`) over one asset, `LoadResult` to the end, and
  `LoadOrderFacts` says that this order has every asset. A sorted layer's place is the
  number of layers before it (`RankIs`), which for falling old and rising new orders is
  known (`SortFacts`).
- `ObjectsKeepTheirPlaces` (`ObjectsAreTraced`), by action. How often an object occurs is the
  number of its places, and a step maps places to places: one to one by `remove_if`
  (`RemoveIfFacts`, `RemoveFacts`: what stays moves, what was moved from is empty) and by the
  sorting, and all but one by `AddGameObjectToScene`. `DrawInv` keeps what was updated until
  it is drawn.

**`GameServers`**: any clients, names, ports, lengths and bounds; no hypothesis.

- `OnePlaysOnThePath` (`LocalOK`) from `LocalInv`: at most one client has a socket, it is
  the one on the path, and what waits for the server is from it.
- `RecordsAreWhole` (`RecordsOK`) from `RecordsInv`: there are places at which the records
  begin in the stream (`LaidOut`), the first of them behind the reader by what the reader
  has already taken (`Reading`). Each `recv`, of any number of bytes, moves all of them.
- `EachPlaysAsItself` (`PlayersOK`) and `HeardAsSent` (`TrafficOK`) from `NetworkInv`.
  What a client sends has its own name (`OwnMessages`); a TCP connection waits or is a
  player, a UDP player has its name (`Listed`); while the server is up, a link ends by its
  client only (`LinksHold`), so a client that gives up is right to; what a client
  heard, what is on its way and what will be raised are in order (`EventsInOrder`).
- `TheForgottenHearNothing` (`ForgottenStaysSilent`), by action, from the same invariant: the
  players a `send` goes to are connected.

**`Wire`** (`BitPacking`, `Serialization`): any values in any order on units of 8, 16 or 32
bits, messages of any number of packets of any lengths, any number of flipped bits, any
event in any encoding.

- `BitsAreReadBack` (`BitsOK`) and `MessagesArriveIntact` (`MessagesOK`) from `WireInv`: the
  packer that has sent stands where the last value ends, and a buffer in which no bit
  was flipped holds every value where the layout puts it (`IsIntact`). The argument is about
  places. `EndOf` never goes back, so values lie one behind the other; `Standing` is a
  packer at a place, whose unit is empty from there on; and `PackAcross`, `PackInside`,
  `Flush` and `PushBytes` each take it to the place where the value ends, put
  the bits of the value between (`Lies`) and leave everything before as it was
  (`Same`), so that it still holds when all is packed (`IsPackedTo`). `ReaderAt` is a
  reader at a place, and `MergedUnit`, `NextWithinUnit` and `FetchBytes` take it over the
  same places and return what lies there (`IsReadTo`). Bits that the code leaves unmasked, and
  the skip after bytes that end within a unit, are where the second half needs the two
  exceptions of section 5.
- `MessagesOK` adds that the number of units, rounded down from the bytes received, is
  enough (a message ends within the unit of the last byte that counts); that the message
  without its checksum is packed the same way, what followed the checksum a unit earlier
  (`Rest`, `Earlier`); and that two lists of values which pack to the same buffer are the same
  values, since each is found where it lies. With a CRC that tells any two buffers apart,
  an accepted message is therefore the one that was sent.

**`Minds`** (`StateMachine`, `Blackboard`, `BehaviorTree`): any states and transitions, boards,
keys, lifetimes and numbers of writes, any tree the builder can make, any setups of the
composites and any repeat count.

- `OneStateOneMove` (`MachineOK`) from `MachineInv`.
- `HoldsTheLastSet` (`BoardOK`), under `ParentsEnd`, and `KeepsAndTells`
  (`BoardKeepsAndTells`, no hypothesis) from `BoardInv`. Sets come while an update applies
  others, and from callbacks. `LastIsSomewhere` follows the last one of each key through
  the three places it can be in: staged, taken by the update, applied. For "applied"
  to be stable, no earlier write may still wait behind it: `WaitInOrder`,
  `NoneAfterLast`. `ToldInOrder` puts what subscribers heard before all that waits, and
  `TimesAddUp` makes "time left" and "time lived" the two halves of a lifetime.
- `TicksAsComposed` (`TreeOK`) from `TreeInv`. The builder makes a tree in which a node has
  one parent and its children greater numbers (`TreeShape`). During a tick the stack is the
  path from the root to the node that runs, by the children in turn, and what was
  returned is the status of the last one's child (`StackIsPath`). So the whole argument
  about a recursive tick is about a step at one end of a path. Nothing whose turn is to
  come was updated, outside a `Repeat` (`NotUpdatedYet`); children of a sequence
  succeeded up to the iterator, also between ticks (`SequencesGoOn`); and three parts say
  what may still run: below the root (`RootRunsOne`), below a `Parallel` whose turn is over
  (`ParallelsEnd`), and which script may be aborted (`ScriptsStay`). The proof has one lemma
  for a call, one for a return with whatever it aborts, one for each step that does neither,
  and one for the builder; the parts of the invariant are lemmas of their own below these.

Where a proof goes by induction, over places of a list or numbers of updates, it takes the
least counterexample (`LeastOf` in `ListLemmas`): the library's induction theorems have an
operator as a parameter, which the provers cannot instantiate.

The hypotheses, and why the code justifies them:

- `NoWraparound`: no side uses more than 65535 numbers, `uint16_t`'s. Without it the
  code is wrong: with `SeqModulus = 3` TLC refutes `LastAckedIsNewest`.
- `NoOverwriting`, of the session's theorems about what rings hold: no side has more datums
  than its ring has slots. The default ring has 1024, so this is the beginning of a long
  session; after that a message may name a number that is gone, and `ServerCrash` and
  `ClientCrash` are such steps. The link's theorems do without it.
- `WireAssumption`, of the layouts: they fit the buffer, and neither the count of units (8
  bits) nor that of packed bits (as wide as a unit) wraps. The code does not guarantee it: a
  message of more than 1020 bytes, which the default limit of `ReliableUdp` (1200,
  `net/ReliableUdp.h:54`) lets through, starts over (section 5). The theorems are about
  the messages below that. A value of bits has at most the bits of a unit, the only ones
  that `Pack` has; a `Finish` ends something; and bits are not the last, since nothing
  would write them: in the library's messages and pings they are not.
- `IsFiniteSet(Clients)`, to count the clients of a setup; any program has finitely many.
- `ChildrenApart`: `AttachChild` takes a shared pointer and nothing stops a caller from
  giving one process to two parents, but then it is appended twice and counted twice. The
  library attaches no child itself; that its users share none is assumed.
- `ParentsEnd`: the way from a board over its parents comes to an end. `SetParent` takes
  any board, and with boards in a circle `Get` of an unknown key would not return.

Only model-checked:

- All liveness (`SessionEventually`, `QueuedIsProcessed`, `DelaysEnd`,
  `ServesWhoIsThere`, `TickEnds`, `FramesEnd`): fairness and `ENABLED` are beyond the
  prover.

## 9. Not modelled

- Contents of datums beyond the event they carry, round-trip statistics other than
  their null lookup, the moving average of the ring buffer, and what a client makes of
  the bytes that a failed decryption returns.
- A subscriber's own list of its subscriptions and the event tap.
- Settings (`SettingsManager`: a map read at the start), log and text files, the text of
  the statistics file: I/O of which no step depends.
- `libsodium`, SDL, sockets and the kernel, Lua, XML and JSON parsers (`json11`, vendored):
  external; the models have what the library uses of them.
- Drawing, playing, fonts and geometry: calls of SDL and arithmetic without state.
- `StaticSprite`, `Inventory`, component lists, move strategies and random directions:
  containers and choices of the game.
- What nothing but tests calls: `netReadLine`, `netReadcrlf`, `RemoveLayer`, `ReadInterval`,
  the resets of packer and reader, `Timer::AddTime`; and `UpdateTarget` and pongs of the
  serialisation.
- Numbers that would need thousands of steps to wrap: milliseconds, the 16-bit counts of
  a frame's processes.

## 10. Plan

The components that carry the program's logic are modelled, and every invariant that a
passing run checks is a theorem. What is left are the numbers at which counters and rings
start over:

1. `Wire` beyond `WireAssumption`: which layouts survive a count of units that wraps, and
   the reader's own count, which starts over earlier and which nothing reads.
2. `ReliableUdpSession` beyond `NoOverwriting`: `HeldInv` says for the link what a ring that
   is overwritten holds; the session's ghosts and acknowledgements need the same.
