-------------------------------- MODULE Timer --------------------------------
(***************************************************************************)
(* The software timers: class SystemTimer of kernel/timer.h.               *)
(*                                                                         *)
(* tick walks the array of timers and calls the callback of each one that  *)
(* expires in the middle of its loop.  A callback is kernel code that may  *)
(* create, start, stop and cancel timers, its own one included, while the  *)
(* loop still holds an index into the array, and cancel_timer moves the    *)
(* last timer into the hole.  So the loop takes one step per timer, and    *)
(* the calls of a callback come between two of its steps.                  *)
(*                                                                         *)
(* fire_count is left out: the class only writes it.  A call with an id    *)
(* that is not in the array, or a create_timer on a full one, returns      *)
(* false or 0 and changes nothing: it is a stuttering step.                *)
(***************************************************************************)
EXTENDS Integers, FiniteSets

CONSTANTS
  MaxTimers,   \* MAX_TIMERS, 32 in the code
  Intervals,   \* interval_ms of the timers created
  TickLengths, \* ms_elapsed of the ticks
  Callbacks,
  None,        \* nullptr
  MaxId,       \* bound on the timers created
  MaxTime      \* bound on tick_count

ASSUME TimerAssumption ==
  /\ MaxTimers \in Nat \ {0}
  /\ Intervals \subseteq Nat
  /\ TickLengths \subseteq Nat
  /\ None \notin Callbacks
  /\ MaxId \in Nat /\ MaxTime \in Nat

Slots == 1 .. MaxTimers
Ids   == 1 .. MaxId

VARIABLES
  timers, timer_count, next_id, tick_count,
  pc,        \* "idle", "tick" (at the head of tick's loop) or "callback"
  i, ms,     \* locals of tick
  since,     \* history: tick_count when the timer was last started, and the
             \* length of the tick it was started in, 0 if none
  charged    \* history: the timers the tick in progress has added its length to

vars == <<timers, timer_count, next_id, tick_count, pc, i, ms, since, charged>>

Live == 1 .. timer_count
SlotsOf(id) == {s \in Live : timers[s].id = id}

\* What the loops over the array do: act on the timer of that id.
Update(s, t) == timers' = [timers EXCEPT ![s] = t]

Blank == [id |-> 0, interval |-> 0, elapsed |-> 0, state |-> "stopped",
          auto_reload |-> FALSE, callback |-> None]

Init ==
  /\ timers = [s \in Slots |-> Blank]
  /\ timer_count = 0 /\ next_id = 1 /\ tick_count = 0
  /\ pc = "idle" /\ i = 1 /\ ms = 0
  /\ since = [id \in Ids |-> [at |-> 0, in |-> 0]] /\ charged = {}

-----------------------------------------------------------------------------
(***************************************************************************)
(* The calls: from outside a tick, or from a callback.                     *)
(***************************************************************************)
MayCall == pc \in {"idle", "callback"}

\* What create_timer writes into the next slot: all but the callback.
Fresh(slot, id, interval, reload) ==
  [id |-> id, interval |-> interval, elapsed |-> 0, state |-> "stopped",
   auto_reload |-> reload, callback |-> timers[slot].callback]

NextIdFromCount == timer_count + 1            \* mutant of NextId
NextId == next_id

Create(interval, reload) ==
  /\ MayCall /\ timer_count < MaxTimers /\ next_id <= MaxId
  /\ Update(timer_count + 1, Fresh(timer_count + 1, NextId, interval, reload))
  /\ timer_count' = timer_count + 1
  /\ next_id' = next_id + 1
  /\ UNCHANGED <<tick_count, pc, i, ms, since, charged>>

Restarted(t) == [t EXCEPT !.state = "running", !.elapsed = 0]

Start(id) ==
  /\ MayCall
  /\ \E s \in SlotsOf(id) : Update(s, Restarted(timers[s]))
  /\ since' = [since EXCEPT ![id] = [at |-> tick_count, in |-> IF pc = "idle" THEN 0 ELSE ms]]
  /\ UNCHANGED <<timer_count, next_id, tick_count, pc, i, ms, charged>>

Stopped(t) == [t EXCEPT !.state = "stopped"]

Stop(id) ==
  /\ MayCall
  /\ \E s \in SlotsOf(id) : Update(s, Stopped(timers[s]))
  /\ UNCHANGED <<timer_count, next_id, tick_count, pc, i, ms, since, charged>>

\* The last timer takes the place of the one cancelled.
Cancel(id) ==
  /\ MayCall
  /\ \E s \in SlotsOf(id) : Update(s, timers[timer_count])
  /\ timer_count' = timer_count - 1
  /\ UNCHANGED <<next_id, tick_count, pc, i, ms, since, charged>>

WithCallback(t, f) == [t EXCEPT !.callback = f]

SetCallback(id, f) ==
  /\ MayCall
  /\ \E s \in SlotsOf(id) : Update(s, WithCallback(timers[s], f))
  /\ UNCHANGED <<timer_count, next_id, tick_count, pc, i, ms, since, charged>>

-----------------------------------------------------------------------------
(***************************************************************************)
(* tick                                                                    *)
(***************************************************************************)
TickBegin(length) ==
  /\ pc = "idle" /\ tick_count + length <= MaxTime
  /\ tick_count' = tick_count + length
  /\ pc' = "tick" /\ i' = 1 /\ ms' = length /\ charged' = {}
  /\ UNCHANGED <<timers, timer_count, next_id, since>>

\* After the callback: the slot the loop is at, whatever timer is there by now.
Settled(t) ==
  IF t.auto_reload THEN [t EXCEPT !.elapsed = 0, !.state = "running"]
                   ELSE Stopped(t)

Expired(t) == t.elapsed + ms >= t.interval

Elapse(t) == [t EXCEPT !.elapsed = @ + ms]

Fired(t) == [Elapse(t) EXCEPT !.state = "fired"]

Charge(t) == charged' = charged \cup {t.id}

\* Mutant of TickSkips: the loop looks at the same slot again.
TickSkipsStays ==
  /\ pc = "tick" /\ i <= timer_count /\ timers[i].state # "running"
  /\ UNCHANGED vars

TickSkips ==
  /\ pc = "tick" /\ i <= timer_count /\ timers[i].state # "running"
  /\ i' = i + 1
  /\ UNCHANGED <<timers, timer_count, next_id, tick_count, pc, ms, since, charged>>

TickElapses ==
  /\ pc = "tick" /\ i <= timer_count /\ timers[i].state = "running" /\ ~Expired(timers[i])
  /\ Update(i, Elapse(timers[i])) /\ Charge(timers[i])
  /\ i' = i + 1
  /\ UNCHANGED <<timer_count, next_id, tick_count, pc, ms, since>>

TickFires ==
  /\ pc = "tick" /\ i <= timer_count /\ timers[i].state = "running" /\ Expired(timers[i])
  /\ Charge(timers[i])
  /\ \/ /\ timers[i].callback # None
        /\ Update(i, Fired(timers[i]))
        /\ pc' = "callback" /\ UNCHANGED i
     \/ /\ timers[i].callback = None
        /\ Update(i, Settled(Fired(timers[i])))
        /\ i' = i + 1 /\ UNCHANGED pc
  /\ UNCHANGED <<timer_count, next_id, tick_count, ms, since>>

\* Mutant of CallbackReturns: the loop looks at the same slot again.
CallbackReturnsSame ==
  /\ pc = "callback"
  /\ Update(i, Settled(timers[i]))
  /\ pc' = "tick"
  /\ UNCHANGED <<timer_count, next_id, tick_count, i, ms, since, charged>>

CallbackReturns ==
  /\ pc = "callback"
  /\ Update(i, Settled(timers[i]))
  /\ i' = i + 1 /\ pc' = "tick"
  /\ UNCHANGED <<timer_count, next_id, tick_count, ms, since, charged>>

TickEnds ==
  /\ pc = "tick" /\ i > timer_count
  /\ pc' = "idle"
  /\ UNCHANGED <<timers, timer_count, next_id, tick_count, i, ms, since, charged>>

Calls ==
  \/ \E interval \in Intervals, reload \in BOOLEAN : Create(interval, reload)
  \/ \E id \in Ids : Start(id) \/ Stop(id) \/ Cancel(id)
  \/ \E id \in Ids, f \in Callbacks \cup {None} : SetCallback(id, f)

Tick == TickSkips \/ TickElapses \/ TickFires \/ CallbackReturns \/ TickEnds

Next == Calls \/ (\E length \in TickLengths : TickBegin(length)) \/ Tick

Spec == Init /\ [][Next]_vars

\* tick's loop keeps running, and a callback returns: it is straight-line code.
FairSpec == Spec /\ WF_vars(Tick)

-----------------------------------------------------------------------------
(***************************************************************************)
(* Properties.                                                             *)
(***************************************************************************)
TimerObject ==
  [id : Nat, interval : Nat, elapsed : Nat, state : {"stopped", "running", "fired"},
   auto_reload : BOOLEAN, callback : Callbacks \cup {None}]

\* Type invariant of the array, of the counters and of tick's locals.
TypeOK ==
  /\ timers \in [Slots -> TimerObject]
  /\ timer_count \in 0 .. MaxTimers
  /\ next_id \in 1 .. MaxId + 1
  /\ tick_count \in Nat /\ ms \in Nat
  /\ pc \in {"idle", "tick", "callback"}
  /\ i \in 1 .. MaxTimers + 1
  /\ pc = "callback" => i <= MaxTimers
  /\ since \in [Ids -> [at : Nat, in : Nat]] /\ charged \subseteq Nat

\* However timers are created, moved and cancelled, no two of them have the same
\* identifier, and none has an identifier still to be given out: a stale id never
\* reaches another timer.
UniqueIds ==
  /\ \A s, t \in Live : timers[s].id = timers[t].id => s = t
  /\ \A s \in Live : timers[s].id \in 1 .. next_id - 1

\* The slots the loop in progress has still to look at.
ToVisit(s) == (pc = "tick" /\ s >= i) \/ (pc = "callback" /\ s > i)

\* No tick counts twice for a timer, whatever the callbacks it runs cancel and move:
\* none of the timers it has been added to is in a slot the loop still looks at.
ChargedOnce == \A s \in Live : ToVisit(s) => timers[s].id \notin charged

\* A timer never runs ahead of the clock by more than the tick it was started in.
\* What is left of the clock for a timer the loop has still to visit lacks the tick.
NeverAhead ==
  \A s \in Live : timers[s].state = "running" =>
    LET start == since[timers[s].id]
        clock == IF ToVisit(s) THEN tick_count - ms ELSE tick_count
    IN  timers[s].elapsed <= clock - start.at + start.in

\* What holds of the array whatever callbacks do to it in the middle of tick (timer.h:40-161).
Sound == TypeOK /\ UniqueIds /\ NeverAhead

\* A tick ends, though callbacks may add timers at the end of the array it walks.
TicksEnd == pc # "idle" ~> pc = "idle"
=============================================================================
