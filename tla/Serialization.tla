----------------------------- MODULE Serialization -----------------------------
(***************************************************************************)
(* SerializationManager and the event serialisation of its three encodings *)
(* (file/, Encoding/): what an event is on the wire, and what the other    *)
(* side makes of it.  A text is a record of its fields; its syntax tells   *)
(* which parser can read it.                                               *)
(***************************************************************************)
EXTENDS Integers

Encodings == {"json", "xml", "bit_packed"}
Directions == {"up", "down", "left", "right", "none"}   \* the enumeration

PlayerMoved(d) == [type |-> "PlayerMovedEventType", direction |-> d]
ControllerMove(d) == [type |-> "ControllerMoveEvent", direction |-> d]
StartNetworkLevel(n) == [type |-> "StartNetworkLevel", level |-> n]
OtherEvent == [type |-> "SomeOtherEvent"]
PingMessage == [type |-> "ping"]   \* not an event: CreatePingMessage
SentEvents ==
    {PlayerMoved(d) : d \in Directions} \cup {ControllerMove(d) : d \in Directions}
    \cup [type : {"StartNetworkLevel"}, level : Int] \cup {OtherEvent, PingMessage}

(* DirectionUtils::ToString and FromDirectionString. *)
DirectionToString ==
    [up |-> "Up", down |-> "Down", left |-> "Left", right |-> "Right", none |-> "None"]
FromDirectionString(s) ==
    IF \E d \in Directions \ {"none"} : DirectionToString[d] = s
    THEN CHOOSE d \in Directions : DirectionToString[d] = s ELSE "none"

(* Events are JSON whatever the encoding; only the ping differs.           *)
PingSyntax == [e \in Encodings |-> IF e = "bit_packed" THEN "bits" ELSE e]
Serialize(encoding, evt, target) ==
    CASE evt.type \in {"PlayerMovedEventType", "ControllerMoveEvent"} ->
            [syntax |-> "json", messageType |-> evt.type, nickname |-> target,
             direction |-> DirectionToString[evt.direction]]
      [] evt.type = "StartNetworkLevel" ->
            [syntax |-> "json", messageType |-> evt.type, nickname |-> target, level |-> evt.level]
      [] evt.type = "ping" -> [syntax |-> PingSyntax[encoding], messageType |-> "ping"]
      [] OTHER -> [syntax |-> "json", messageType |-> "unknown", nickname |-> target]

(* GetMessageHeader parses JSON only, and throws when it cannot. *)
HasHeader(text) == text.syntax = "json"

(* Deserialize.  The receiver knows two of the events that can be sent.    *)
Nothing == [type |-> "nothing"]
Thrown == [type |-> "thrown"]
Deserialize(text) ==
    CASE ~HasHeader(text) -> Thrown
      [] text.messageType = "StartNetworkLevel" -> StartNetworkLevel(text.level)
      [] text.messageType = "PlayerMovedEventType" -> PlayerMoved(FromDirectionString(text.direction))
      [] OTHER -> Nothing
=============================================================================
