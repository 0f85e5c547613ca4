-------------------------------- MODULE Timers --------------------------------
(***************************************************************************)
(* gamelib::Timer and gamelib::PeriodicTimer (time/), and what they drive  *)
(* in every update: the GameStatePusher that sends the game's state, the   *)
(* NetworkingActivityMonitor that saves its statistics, and next to them   *)
(* DrawableFrameRate, which times itself.                                  *)
(***************************************************************************)
EXTENDS Naturals, Sequences

CONSTANTS
    SendRate,     \* sendRateMs of the pusher
    SaveEvery,    \* saveIntervalMs of the monitor
    Second,       \* the 1000 ms of DrawableFrameRate
    Traffics,     \* the network events that happen: [kind, amount]
    MaxEvents     \* bound: the events of a behaviour

ASSUME TimersAssumption ==
    /\ SendRate \in Nat \ {0} /\ SaveEvery \in Nat \ {0} /\ Second \in Nat \ {0}
    /\ \A e \in Traffics : e.kind \in STRING /\ e.amount \in Nat
    /\ MaxEvents \in Nat

VARIABLES
    sender, saver,   \* the two periodic timers
    stats, saved,    \* the monitor's counts, and the lines of its file
    rate,            \* DrawableFrameRate's counters
    heard,           \* observer: the events so far
    sinceSend,       \* observer: the update time since the state was last sent
    early            \* observer: the state was sent too early

timerVars == <<sender, saver, stats, saved, rate, heard, sinceSend, early>>

(* A PeriodicTimer with its Timer; a duration of 0 is one not yet started. *)
Timer == [duration |-> 0, elapsed |-> 0, isElapsed |-> FALSE, ready |-> FALSE]

Counters == {"bytes", "packets", "messages", "failed", "lost", "acks"}
NoCounts == [k \in Counters \cup {"rtt"} |-> 0]

TimersInit ==
    /\ sender = Timer /\ saver = Timer /\ stats = NoCounts /\ saved = <<>>
    /\ rate = [time |-> 0, updates |-> 0, shown |-> 0]
    /\ heard = <<>> /\ sinceSend = 0 /\ early = FALSE

-----------------------------------------------------------------------------
(* Timer.cpp and PeriodicTimer.cpp, as functions of the timer. *)

Start(t, duration) ==
    [t EXCEPT !.duration = duration, !.elapsed = 0, !.isElapsed = FALSE]

TimerUpdate(t, delta) ==
    IF t.duration = 0 THEN t
    ELSE [t EXCEPT !.elapsed = @ + delta, !.isElapsed = t.elapsed + delta >= t.duration]

PeriodicUpdate(t, every, delta) ==
    LET u == TimerUpdate(IF t.duration = 0 THEN Start(t, every) ELSE t, delta) IN
    [u EXCEPT !.ready = u.isElapsed]

ResetWithoutRestart(t, every) == t
Reset(t, every) == Start(t, every)
DoIfReady(t, every) == IF t.ready THEN Reset(t, every) ELSE t

-----------------------------------------------------------------------------
(* The pusher's task, an Action that ProcessManager updates for ever. *)
SendGameState(delta) ==
    LET t == PeriodicUpdate(sender, SendRate, delta) IN
    /\ sender' = DoIfReady(t, SendRate)
    /\ sinceSend' = IF t.ready THEN 0 ELSE sinceSend + delta
    /\ early' = (early \/ (t.ready /\ sinceSend + delta < SendRate))

(* HandleEvent of the monitor: what each kind of event adds.               *)
Counted(counts, e) ==
    CASE e.kind = "traffic" -> [counts EXCEPT !.bytes = @ + e.amount]
      [] e.kind = "packet" ->
            [counts EXCEPT !.packets = @ + 1, !.messages = @ + e.amount]
      [] e.kind = "checksum" -> [counts EXCEPT !.failed = @ + 1]
      [] e.kind = "loss" -> [counts EXCEPT !.lost = @ + 1]
      [] e.kind = "ack" -> [counts EXCEPT !.acks = @ + 1]
      [] e.kind = "rtt" -> [counts EXCEPT !.rtt = e.amount]
      [] OTHER -> counts

Traffic ==
    /\ Len(heard) < MaxEvents
    /\ \E e \in Traffics :
        /\ heard' = Append(heard, e)
        /\ stats' = Counted(stats, e)
    /\ UNCHANGED <<sender, saver, saved, rate, sinceSend, early>>

(* SaveAndReset.  The line that is written is the last thing before the    *)
(* counters start again.                                                   *)
AfterSave(t, counts) == IF t.ready THEN NoCounts ELSE counts
SaveAndReset(delta) ==
    LET t == PeriodicUpdate(saver, SaveEvery, delta) IN
    /\ saver' = DoIfReady(t, SaveEvery)
    /\ saved' = IF t.ready THEN Append(saved, stats) ELSE saved
    /\ stats' = AfterSave(t, stats)

(* DrawableFrameRate::Update: the delta is added twice while the second    *)
(* lasts.                                                                  *)
FrameRate(delta) ==
    LET time == rate.time + delta IN
    IF time <= Second
    THEN rate' = [rate EXCEPT !.time = time + delta, !.updates = @ + 1]
    ELSE rate' = [time |-> 0, updates |-> 0, shown |-> rate.updates]

(* What one update of the game does here: the game objects, then the       *)
(* processes.                                                              *)
TimersUpdate(delta) ==
    /\ FrameRate(delta) /\ SendGameState(delta) /\ SaveAndReset(delta)
    /\ UNCHANGED heard

-----------------------------------------------------------------------------
PeriodicTimers == [duration : Nat, elapsed : Nat, isElapsed : BOOLEAN, ready : BOOLEAN]
Counts == [Counters \cup {"rtt"} -> Nat]

TimersTypeOK ==
    /\ sender \in PeriodicTimers /\ saver \in PeriodicTimers
    /\ stats \in Counts /\ saved \in Seq(Counts) /\ heard \in Seq(Traffics)
    /\ rate \in [time : Nat, updates : Nat, shown : Nat]

(* A function of an account and an element, taken over a list. *)
Folded(op, start, list) ==
    LET after[n \in 0 .. Len(list)] ==
            IF n = 0 THEN start ELSE op[<<after[n - 1], list[n]>>]
    IN after[Len(list)]

Adding(k) == [p \in Nat \X Counts |-> p[1] + p[2][k]]
Counting  == [p \in Counts \X Traffics |-> Counted(p[1], p[2])]

Saved(k) == Folded(Adding(k), 0, saved)
Heard == Folded(Counting, NoCounts, heard)

(* Every network event is in exactly one line of the statistics file, or   *)
(* will be in the next (NetworkingActivityMonitor.cpp:107-123, Reset at    *)
(* NetworkingStatistics.h:22).                                             *)
NothingUncounted == \A k \in Counters : Heard[k] = Saved(k) + stats[k]

(* The state is never sent before sendRateMs of update time have passed    *)
(* since it was last sent (GameStatePusher.cpp:27-37).                     *)
NeverEarly == ~early

(* ... and it is overdue in no state between two updates: an update that   *)
(* reaches the rate sends (PeriodicTimer.cpp:12-22).                       *)
NeverOverdue == sinceSend < SendRate

(* Timers fire at their time and statistics are counted once               *)
(* (PeriodicTimer.cpp, NetworkingActivityMonitor.cpp:40-123).              *)
TimersOK == TimersTypeOK /\ NothingUncounted /\ NeverEarly /\ NeverOverdue

-----------------------------------------------------------------------------
(* The pusher's timer has run since the state was last sent.               *)
SenderInv ==
    /\ TimersTypeOK /\ NeverEarly /\ NeverOverdue
    /\ sinceSend \in Nat /\ sender.elapsed = sinceSend
    /\ sender.duration = SendRate \/ (sender.duration = 0 /\ sinceSend = 0)
==============================================================================
