------------------------------ MODULE GameLoops ------------------------------
(***************************************************************************)
(* The two loops of a game (structure/VariableGameLoop.cpp and             *)
(* FixedStepGameLoop.cpp), statement by statement against a clock that     *)
(* goes on while the game updates and draws, and the timers that their     *)
(* updates drive.                                                          *)
(***************************************************************************)
EXTENDS Timers

CONSTANTS
    Loops,      \* the loops of a run, with their settings
    Costs,      \* the time that an update or a frame's drawing may take
    MaxClock    \* bound: the time at which nothing starts any more

ASSUME LoopsAssumption ==
    /\ \A l \in Loops :
        /\ l.kind \in {"variable", "fixed"} /\ l.network \in BOOLEAN
        /\ l.tick \in Nat \ {0}      \* tick_time_ms, or TimeStepMs
        /\ l.maxLoops \in Nat \ {0}  \* max_loops; the fixed loop has no such bound
        /\ {l.events, l.moves} \subseteq Nat  \* bounds of this loop's behaviours
    /\ Costs \subseteq Nat /\ MaxClock \in Nat

VARIABLES
    loop,      \* one of Loops; it never changes
    at,        \* "frame", or "update": the inner loop
    clock,     \* GetTimeMs
    t0, t1,    \* the variable loop's times; t1 is also the fixed loop's previous
    loops,     \* the updates of this frame
    lag,       \* the fixed loop's lag
    done,      \* IsGameDone
    told,      \* observer: the sum of the deltas that update was given
    updates,   \* observer: the number of updates
    before     \* observer: when the frame before this one began

loopVars == <<loop, at, clock, t0, t1, loops, lag, done, told, updates, before>>

variable == loop.kind = "variable"

LoopsInit ==
    /\ loop \in Loops
    /\ at = "frame" /\ clock = 0 /\ t0 = 0 /\ t1 = 0 /\ loops = 0 /\ lag = 0
    /\ done = FALSE /\ told = 0 /\ updates = 0 /\ before = 0

(* The head of the loop: the clock is read. *)
NewLag(kept, elapsed) == kept + elapsed

BeginFrame ==
    /\ at = "frame" /\ ~done /\ clock < MaxClock
    /\ at' = "update" /\ loops' = 0 /\ t1' = clock /\ before' = t1
    /\ lag' = IF variable THEN lag ELSE NewLag(lag, clock - t1)
    /\ UNCHANGED <<loop, clock, t0, done, told, updates, timerVars>>

(* The condition of the inner loop, and the delta it passes on. *)
Due ==
    IF variable THEN t1 - t0 >= loop.tick /\ loops < loop.maxLoops ELSE lag >= loop.tick
Delta == IF variable THEN t1 - t0 ELSE loop.tick

(* One update.  An event or an input handler may end the game in it. *)
NextT0Now(now) == now
NextT0(now) == t0 + loop.tick

Update ==
    /\ at = "update" /\ Due
    /\ TimersUpdate(Delta)
    /\ told' = told + Delta /\ updates' = updates + 1
    /\ t0' = IF variable THEN NextT0(t1) ELSE t0
    /\ lag' = IF variable THEN lag ELSE lag - loop.tick
    /\ loops' = loops + 1
    /\ \E cost \in Costs : clock' = clock + cost
    /\ done' \in BOOLEAN
    /\ UNCHANGED <<loop, at, t1, before>>

(* The end of the frame: a networked game forgets the updates it missed.   *)
Forgets == IF loop.network /\ t1 - t0 > loop.tick THEN t1 - loop.tick ELSE t0

EndFrame ==
    /\ at = "update" /\ ~Due
    /\ t0' = IF variable THEN Forgets ELSE t0
    /\ \E cost \in Costs : clock' = clock + cost
    /\ at' = "frame"
    /\ UNCHANGED <<loop, t1, loops, lag, done, told, updates, before, timerVars>>

-----------------------------------------------------------------------------
LoopsTypeOK ==
    /\ loop \in Loops /\ at \in {"frame", "update"} /\ done \in BOOLEAN
    /\ \A n \in {clock, t0, t1, loops, lag, told, updates, before} : n \in Nat

(* The fixed loop loses no time and makes none up: what its updates were   *)
(* told and what is still to come is what the clock says                   *)
(* (FixedStepGameLoop.cpp:22-36).                                          *)
NoTimeLost == ~variable => told + lag = t1

(* The variable loop of a game that is not networked makes one update for  *)
(* every tick of the clock: those it owes are the ones the bound on a      *)
(* frame's updates put off, and none is made too early                     *)
(* (VariableGameLoop.cpp:66-91).                                           *)
OneUpdateATick == variable /\ ~loop.network =>
    /\ updates * loop.tick <= t1
    /\ at = "frame" /\ loops < loop.maxLoops => t1 < (updates + 1) * loop.tick

(* A networked game never runs ahead, and an update of it makes up for no  *)
(* more than what the frame before took, and one tick: what a frame owed   *)
(* besides is forgotten at its end, not handed on from frame to frame      *)
(* (VariableGameLoop.cpp:64-110).  That is not a tick: the frame before    *)
(* may have taken any time.                                                *)
NetworkGameIsPrompt == variable /\ loop.network /\ at = "update" =>
    t0 <= t1 /\ t1 - t0 <= (t1 - before) + loop.tick

(* Each loop keeps time in its own way, whatever updates and drawing cost. *)
LoopsOK == LoopsTypeOK /\ NoTimeLost /\ OneUpdateATick /\ NetworkGameIsPrompt

-----------------------------------------------------------------------------
(* The invariant behind LoopsOK: t0 is the time of the updates made, and   *)
(* the frame that is over left less than a tick undone, or was cut off.    *)
LoopsInv ==
    /\ LoopsTypeOK /\ NoTimeLost /\ t1 <= clock
    /\ variable => t0 <= t1
    /\ variable /\ ~loop.network => t0 = updates * loop.tick
    /\ variable /\ ~loop.network /\ at = "frame" =>
          (loops < loop.maxLoops => t1 < t0 + loop.tick)
    /\ variable /\ loop.network =>
          IF at = "frame" THEN t1 <= t0 + loop.tick ELSE before <= t0 + loop.tick
==============================================================================
