----------------------------- MODULE TimerProofs -----------------------------
(***************************************************************************)
(* Proofs about Timer, for every number of timers and every bound.         *)
(***************************************************************************)
EXTENDS Timer, TLAPS

(***************************************************************************)
(* The inductive invariant.  The clock a slot can have counted up to is    *)
(* Clock(s); a cancel only moves a timer to a lower slot, and clocks do    *)
(* not decrease towards lower slots.                                       *)
(***************************************************************************)
Clock(s) == IF ToVisit(s) THEN tick_count - ms ELSE tick_count

\* A timer was started before the clock of its slot, or in the tick in progress.
StartedBefore ==
  /\ \A id \in Ids : since[id].at <= tick_count
  /\ \A s \in Live : since[timers[s].id].at <= Clock(s) + since[timers[s].id].in
  /\ \A id \in Ids : id >= next_id => since[id] = [at |-> 0, in |-> 0]

ChargedKnown == \A id \in charged : id < next_id

TickStarted == ms <= tick_count /\ (pc = "tick" => i >= 1)

IInv ==
  /\ TypeOK /\ UniqueIds /\ ChargedOnce /\ NeverAhead
  /\ StartedBefore /\ ChargedKnown /\ TickStarted

\* The types hold initially.
LEMMA InitIInv == Init => IInv
  BY TimerAssumption
     DEF Init, IInv, TypeOK, UniqueIds, ChargedOnce, NeverAhead, StartedBefore, ChargedKnown,
         TickStarted, TimerObject, Blank, Live, Slots, Ids, Clock, ToVisit

-----------------------------------------------------------------------------
(***************************************************************************)
(* What the helpers do to a timer.                                         *)
(***************************************************************************)
Typed == timers \in [Slots -> TimerObject] /\ ms \in Nat

\* A timer of the array has an identifier and counts milliseconds.
LEMMA Fields ==
  ASSUME NEW t \in TimerObject
  PROVE  t.id \in Nat /\ t.elapsed \in Nat /\ t.callback \in Callbacks \cup {None}
  BY DEF TimerObject

\* create_timer writes a stopped timer that has counted nothing.
LEMMA FreshFacts ==
  ASSUME Typed, NEW slot \in Slots, NEW id \in Nat, NEW interval \in Intervals,
         NEW reload \in BOOLEAN
  PROVE  LET t == Fresh(slot, id, interval, reload) IN
           t \in TimerObject /\ t.id = id /\ t.state = "stopped"
  BY TimerAssumption DEF Fresh, Typed, TimerObject

\* start_timer keeps the identifier and resets the time counted.
LEMMA RestartedFacts ==
  ASSUME NEW t \in TimerObject
  PROVE  Restarted(t) \in TimerObject /\ Restarted(t).id = t.id /\ Restarted(t).elapsed = 0
  BY DEF Restarted, TimerObject

\* stop_timer keeps the identifier.
LEMMA StoppedFacts ==
  ASSUME NEW t \in TimerObject
  PROVE  Stopped(t) \in TimerObject /\ Stopped(t).id = t.id /\ Stopped(t).state = "stopped"
  BY DEF Stopped, TimerObject

\* set_callback changes nothing but the callback.
LEMMA WithCallbackFacts ==
  ASSUME NEW t \in TimerObject, NEW f \in Callbacks \cup {None}
  PROVE  /\ WithCallback(t, f) \in TimerObject /\ WithCallback(t, f).id = t.id
         /\ WithCallback(t, f).state = t.state /\ WithCallback(t, f).elapsed = t.elapsed
  BY DEF WithCallback, TimerObject

\* The loop adds the length of the tick.
LEMMA ElapseFacts ==
  ASSUME Typed, NEW t \in TimerObject
  PROVE  /\ Elapse(t) \in TimerObject /\ Elapse(t).id = t.id
         /\ Elapse(t).elapsed = t.elapsed + ms
  BY DEF Elapse, Typed, TimerObject

\* A timer that fires is not running.
LEMMA FiredFacts ==
  ASSUME Typed, NEW t \in TimerObject
  PROVE  Fired(t) \in TimerObject /\ Fired(t).id = t.id /\ Fired(t).state = "fired"
<1>1. Elapse(t) \in TimerObject /\ Elapse(t).id = t.id
  BY ElapseFacts
<1> QED
  BY <1>1 DEF Fired, TimerObject

\* After the callback a timer runs from 0, or does not run.
LEMMA SettledFacts ==
  ASSUME NEW t \in TimerObject
  PROVE  /\ Settled(t) \in TimerObject /\ Settled(t).id = t.id
         /\ Settled(t).state = "running" => Settled(t).elapsed = 0
  BY DEF Settled, Stopped, TimerObject

\* Writing one slot leaves the others alone.
LEMMA UpdateFacts ==
  ASSUME Typed, NEW s \in Slots, NEW t \in TimerObject, Update(s, t)
  PROVE  /\ timers' \in [Slots -> TimerObject]
         /\ \A r \in Slots : timers'[r] = IF r = s THEN t ELSE timers[r]
  BY DEF Typed, Update

-----------------------------------------------------------------------------
(***************************************************************************)
(* Every step keeps the invariant.                                         *)
(***************************************************************************)

\* The part of the types the steps below need.
LEMMA Ranges ==
  ASSUME IInv
  PROVE  /\ Typed /\ MaxTimers \in Nat /\ MaxId \in Nat
         /\ timer_count \in Nat /\ timer_count <= MaxTimers
         /\ next_id \in Nat /\ tick_count \in Nat /\ ms \in Nat /\ i \in Nat
         /\ Live \subseteq Slots
         /\ \A s \in Slots : /\ timers[s] \in TimerObject
                            /\ timers[s].id \in Nat /\ timers[s].elapsed \in Nat
         /\ \A s \in Live : timers[s].id \in Ids
         /\ \A id \in Ids : since[id].at \in Nat /\ since[id].in \in Nat
<1>1. /\ Typed /\ MaxTimers \in Nat /\ MaxId \in Nat
      /\ timer_count \in Nat /\ timer_count <= MaxTimers
      /\ next_id \in Nat /\ tick_count \in Nat /\ ms \in Nat /\ i \in Nat
      /\ Live \subseteq Slots
  BY TimerAssumption DEF IInv, TypeOK, Typed, Live, Slots
<1>2. \A s \in Slots : timers[s] \in TimerObject
  BY <1>1 DEF Typed
<1>3. \A s \in Slots : timers[s].id \in Nat /\ timers[s].elapsed \in Nat
  BY <1>2, Fields
<1>4. \A s \in Live : timers[s].id \in Ids
  BY TimerAssumption DEF IInv, TypeOK, UniqueIds, Ids
<1>5. \A id \in Ids : since[id].at \in Nat /\ since[id].in \in Nat
  BY DEF IInv, TypeOK
<1> QED
  BY <1>1, <1>2, <1>3, <1>4, <1>5

\* Steps that keep the identifiers of the slots keep them unique.
LEMMA KeepsUnique ==
  ASSUME IInv, timer_count' = timer_count, next_id' = next_id,
         \A r \in Live : timers'[r].id = timers[r].id
  PROVE  UniqueIds'
  BY DEF IInv, UniqueIds, Live

\* Steps that keep the identifiers and the place of the loop, or move it forward,
\* and charge at most the timer it leaves behind.
LEMMA KeepsCharged ==
  ASSUME IInv, timer_count' = timer_count,
         \A r \in Live : timers'[r].id = timers[r].id,
         \A r \in Live : ToVisit(r)' => ToVisit(r),
         \/ charged' = charged
         \/ \E j \in Live : ~ToVisit(j)' /\ charged' = charged \cup {timers[j].id}
  PROVE  ChargedOnce'
<1> SUFFICES ASSUME NEW s \in Live, ToVisit(s)'
             PROVE  timers[s].id \notin charged'
  BY DEF ChargedOnce, Live
<1>1. timers[s].id \notin charged
  BY DEF IInv, ChargedOnce
<1>2. ASSUME NEW j \in Live, ~ToVisit(j)'
      PROVE  timers[s].id # timers[j].id
  BY <1>2 DEF IInv, UniqueIds
<1> QED
  BY <1>1, <1>2

\* Steps that keep the clocks of the slots, or let them go forward, and the times the
\* timers were started.
LEMMA KeepsStarted ==
  ASSUME IInv, timer_count' = timer_count, next_id' = next_id,
         tick_count' = tick_count, ms' = ms, since' = since,
         \A r \in Live : timers'[r].id = timers[r].id,
         \A r \in Live : ToVisit(r)' => ToVisit(r)
  PROVE  StartedBefore'
<1>1. \A id \in Ids : since[id].at <= tick_count
  BY DEF IInv, StartedBefore
<1>2. \A s \in Live : Clock(s) <= Clock(s)'
  BY Ranges DEF Clock
<1>3. \A s \in Live : since[timers[s].id].at <= Clock(s)' + since[timers[s].id].in
  BY <1>2, Ranges DEF IInv, StartedBefore, Clock
<1>4. \A id \in Ids : id >= next_id => since[id] = [at |-> 0, in |-> 0]
  BY DEF IInv, StartedBefore
<1> QED
  BY <1>1, <1>3, <1>4 DEF StartedBefore, Live, Ids, Clock

\* Such steps also keep timers from running ahead, if those of the slot s they write
\* do not.
LEMMA KeepsBehind ==
  ASSUME IInv, timer_count' = timer_count,
         tick_count' = tick_count, ms' = ms, since' = since,
         NEW s \in Slots,
         \A r \in Live : timers'[r].id = timers[r].id,
         \A r \in Live : r # s => timers'[r] = timers[r],
         \A r \in Live : ToVisit(r)' => ToVisit(r),
         s \in Live /\ timers'[s].state = "running" =>
           timers'[s].elapsed <= Clock(s)' - since[timers[s].id].at + since[timers[s].id].in
  PROVE  NeverAhead'
<1> SUFFICES ASSUME NEW r \in Live, timers'[r].state = "running"
             PROVE  timers'[r].elapsed
                      <= Clock(r)' - since[timers[r].id].at + since[timers[r].id].in
  BY DEF NeverAhead, Clock, Live
<1>1. CASE r = s
  BY <1>1
<1>2. CASE r # s
  <2>1. timers[r].elapsed <= Clock(r) - since[timers[r].id].at + since[timers[r].id].in
    BY <1>2 DEF IInv, NeverAhead, Clock
  <2>2. Clock(r) <= Clock(r)'
    BY Ranges DEF Clock
  <2> QED
    BY <1>2, <2>1, <2>2, Ranges DEF Clock
<1> QED
  BY <1>1, <1>2

\* stop_timer keeps the invariant.
LEMMA StopStep ==
  ASSUME IInv, NEW id \in Ids, Stop(id)
  PROVE  IInv'
<1>1. PICK s \in Slots : s \in Live /\ timers[s].id = id /\ Update(s, Stopped(timers[s]))
  BY Ranges DEF Stop, SlotsOf, Live, Slots
<1>2. Stopped(timers[s]) \in TimerObject /\ Stopped(timers[s]).id = timers[s].id /\ Stopped(timers[s]).state = "stopped"
  BY <1>1, Ranges, StoppedFacts
<1>3. /\ timers' \in [Slots -> TimerObject]
      /\ \A r \in Slots : timers'[r] = IF r = s THEN Stopped(timers[s]) ELSE timers[r]
  BY <1>1, <1>2, Ranges, UpdateFacts
<1>4. /\ \A r \in Live : timers'[r].id = timers[r].id
      /\ \A r \in Live : r # s => timers'[r] = timers[r]
  BY <1>1, <1>2, <1>3, Ranges
<1>5. /\ timer_count' = timer_count /\ next_id' = next_id /\ tick_count' = tick_count
      /\ pc' = pc /\ i' = i /\ ms' = ms /\ charged' = charged /\ since' = since
  BY DEF Stop
<1>6. \A r \in Live : ToVisit(r)' => ToVisit(r)
  BY <1>5 DEF ToVisit
<1>7. TypeOK'
  BY <1>3, <1>5 DEF IInv, TypeOK
<1>8. UniqueIds'
  BY <1>4, <1>5, KeepsUnique
<1>9. ChargedOnce'
  BY <1>4, <1>5, <1>6, KeepsCharged
<1>10. NeverAhead'
  <2>1. timers'[s].state = "stopped"
    BY <1>2, <1>3
  <2> QED
    BY <2>1, <1>4, <1>5, <1>6, KeepsBehind
<1>11. StartedBefore'
  BY <1>4, <1>5, <1>6, KeepsStarted
<1>12. ChargedKnown'
  BY <1>5 DEF IInv, ChargedKnown
<1>13. TickStarted'
  BY <1>5 DEF IInv, TickStarted
<1> QED
  BY <1>7, <1>8, <1>9, <1>10, <1>11, <1>12, <1>13 DEF IInv

\* set_callback keeps the invariant.
LEMMA SetCallbackStep ==
  ASSUME IInv, NEW id \in Ids, NEW f \in Callbacks \cup {None}, SetCallback(id, f)
  PROVE  IInv'
<1>1. PICK s \in Slots : s \in Live /\ timers[s].id = id /\ Update(s, WithCallback(timers[s], f))
  BY Ranges DEF SetCallback, SlotsOf, Live, Slots
<1>2. /\ WithCallback(timers[s], f) \in TimerObject /\ WithCallback(timers[s], f).id = timers[s].id
      /\ WithCallback(timers[s], f).state = timers[s].state /\ WithCallback(timers[s], f).elapsed = timers[s].elapsed
  BY <1>1, Ranges, WithCallbackFacts
<1>3. /\ timers' \in [Slots -> TimerObject]
      /\ \A r \in Slots : timers'[r] = IF r = s THEN WithCallback(timers[s], f) ELSE timers[r]
  BY <1>1, <1>2, Ranges, UpdateFacts
<1>4. /\ \A r \in Live : timers'[r].id = timers[r].id
      /\ \A r \in Live : r # s => timers'[r] = timers[r]
  BY <1>1, <1>2, <1>3, Ranges
<1>5. /\ timer_count' = timer_count /\ next_id' = next_id /\ tick_count' = tick_count
      /\ pc' = pc /\ i' = i /\ ms' = ms /\ charged' = charged /\ since' = since
  BY DEF SetCallback
<1>6. \A r \in Live : ToVisit(r)' => ToVisit(r)
  BY <1>5 DEF ToVisit
<1>7. TypeOK'
  BY <1>3, <1>5 DEF IInv, TypeOK
<1>8. UniqueIds'
  BY <1>4, <1>5, KeepsUnique
<1>9. ChargedOnce'
  BY <1>4, <1>5, <1>6, KeepsCharged
<1>10. NeverAhead'
  <2>1. timers'[s].state = timers[s].state /\ timers'[s].elapsed = timers[s].elapsed
    BY <1>2, <1>3
  <2>2. Clock(s)' = Clock(s)
    BY <1>5 DEF Clock, ToVisit
  <2>3. timers[s].state = "running" =>
          timers[s].elapsed <= Clock(s) - since[timers[s].id].at + since[timers[s].id].in
    BY <1>1 DEF IInv, NeverAhead, Clock
  <2> QED
    BY <2>1, <2>2, <2>3, <1>4, <1>5, <1>6, KeepsBehind
<1>11. StartedBefore'
  BY <1>4, <1>5, <1>6, KeepsStarted
<1>12. ChargedKnown'
  BY <1>5 DEF IInv, ChargedKnown
<1>13. TickStarted'
  BY <1>5 DEF IInv, TickStarted
<1> QED
  BY <1>7, <1>8, <1>9, <1>10, <1>11, <1>12, <1>13 DEF IInv

\* start_timer keeps the invariant: the timer starts at 0, now or in the tick in progress.
LEMMA StartStep ==
  ASSUME IInv, NEW id \in Ids, Start(id)
  PROVE  IInv'
<1>1. PICK s \in Slots : s \in Live /\ timers[s].id = id /\ Update(s, Restarted(timers[s]))
  BY Ranges DEF Start, SlotsOf, Live, Slots
<1>2. Restarted(timers[s]) \in TimerObject /\ Restarted(timers[s]).id = timers[s].id /\ Restarted(timers[s]).elapsed = 0
  BY <1>1, Ranges, RestartedFacts
<1>3. /\ timers' \in [Slots -> TimerObject]
      /\ \A r \in Slots : timers'[r] = IF r = s THEN Restarted(timers[s]) ELSE timers[r]
  BY <1>1, <1>2, Ranges, UpdateFacts
<1>4. /\ \A r \in Live : timers'[r].id = timers[r].id
      /\ \A r \in Live : r # s => timers'[r] = timers[r]
  BY <1>1, <1>2, <1>3, Ranges
<1>5. /\ timer_count' = timer_count /\ next_id' = next_id /\ tick_count' = tick_count
      /\ pc' = pc /\ i' = i /\ ms' = ms /\ charged' = charged
  BY DEF Start
<1> DEFINE begun == [at |-> tick_count, in |-> IF pc = "idle" THEN 0 ELSE ms]
<1>a. since' = [since EXCEPT ![id] = begun]
  BY DEF Start
<1>6. /\ begun \in [at : Nat, in : Nat]
      /\ begun.at = tick_count /\ begun.in = (IF pc = "idle" THEN 0 ELSE ms)
  BY Ranges
<1> HIDE DEF begun
<1>7. /\ since' \in [Ids -> [at : Nat, in : Nat]]
      /\ \A other \in Ids : since'[other] = IF other = id THEN begun ELSE since[other]
  BY <1>a, <1>6 DEF IInv, TypeOK
<1>8. \A r \in Live : r # s => timers[r].id # id
  BY <1>1 DEF IInv, UniqueIds
<1>9. \A r \in Live : Clock(r)' = Clock(r) /\ tick_count <= Clock(r) + begun.in
  BY <1>5, <1>6, Ranges DEF Clock, ToVisit, IInv, TypeOK
<1>10. \A r \in Live : ToVisit(r)' => ToVisit(r)
  BY <1>5 DEF ToVisit
<1>11. TypeOK'
  BY <1>3, <1>5, <1>7 DEF IInv, TypeOK
<1>12. UniqueIds'
  BY <1>4, <1>5, KeepsUnique
<1>13. ChargedOnce'
  BY <1>4, <1>5, <1>10, KeepsCharged
<1>14. NeverAhead'
  <2> SUFFICES ASSUME NEW r \in Live, timers'[r].state = "running"
               PROVE  timers'[r].elapsed
                        <= Clock(r)' - since'[timers'[r].id].at + since'[timers'[r].id].in
    BY <1>5 DEF NeverAhead, Clock, Live
  <2>1. CASE r = s
    BY <2>1, <1>1, <1>2, <1>3, <1>6, <1>7, <1>9, Ranges DEF Clock
  <2>2. CASE r # s
    <3>1. timers[r].elapsed <= Clock(r) - since[timers[r].id].at + since[timers[r].id].in
      BY <2>2, <1>4 DEF IInv, NeverAhead, Clock
    <3> QED
      BY <2>2, <3>1, <1>4, <1>7, <1>8, <1>9, Ranges
  <2> QED
    BY <2>1, <2>2
<1>15. StartedBefore'
  <2>1. \A other \in Ids : since'[other].at <= tick_count
    BY <1>6, <1>7, Ranges DEF IInv, StartedBefore
  <2>2. \A r \in Live : since'[timers[r].id].at <= Clock(r) + since'[timers[r].id].in
    BY <1>6, <1>7, <1>9, Ranges DEF IInv, StartedBefore
  <2>3. id < next_id
    BY <1>1, Ranges DEF IInv, UniqueIds
  <2>4. \A other \in Ids : other >= next_id => since'[other] = [at |-> 0, in |-> 0]
    BY <1>7, <2>3, Ranges DEF IInv, StartedBefore, Ids
  <2> QED
    BY <2>1, <2>2, <2>4, <1>4, <1>5, <1>9 DEF StartedBefore, Live, Ids, Clock
<1>16. ChargedKnown'
  BY <1>5 DEF IInv, ChargedKnown
<1>17. TickStarted'
  BY <1>5 DEF IInv, TickStarted
<1> QED
  BY <1>11, <1>12, <1>13, <1>14, <1>15, <1>16, <1>17 DEF IInv

\* cancel_timer keeps the invariant: a timer only moves to a lower slot.
LEMMA CancelStep ==
  ASSUME IInv, NEW id \in Ids, Cancel(id)
  PROVE  IInv'
<1>1. PICK s \in Slots : s \in Live /\ timers[s].id = id /\ Update(s, timers[timer_count])
  BY Ranges DEF Cancel, SlotsOf
<1>2. timer_count \in Live /\ timer_count \in Slots
  BY <1>1, Ranges DEF Live
<1>3. /\ timers' \in [Slots -> TimerObject]
      /\ \A r \in Slots : timers'[r] = IF r = s THEN timers[timer_count] ELSE timers[r]
  BY <1>1, <1>2, Ranges, UpdateFacts
<1>4. /\ timer_count' = timer_count - 1 /\ next_id' = next_id /\ tick_count' = tick_count
      /\ pc' = pc /\ i' = i /\ ms' = ms /\ since' = since /\ charged' = charged
  BY DEF Cancel
\* Where the timer now at r was: at r, or at the end.
<1> DEFINE from(r) == IF r = s THEN timer_count ELSE r
<1>5. \A r \in Live' : /\ r \in Live /\ r # timer_count /\ from(r) \in Live /\ r <= from(r)
                       /\ timers'[r] = timers[from(r)]
  BY <1>2, <1>3, <1>4, Ranges DEF Live
<1>6. \A r, q \in Live' : from(r) = from(q) => r = q
  BY <1>5
<1>7. \A r \in Live' : ToVisit(r)' => ToVisit(from(r))
  BY <1>4, <1>5, Ranges DEF ToVisit, Live
<1>8. \A r \in Live' : Clock(from(r)) <= Clock(r)' /\ Clock(r)' \in Int /\ Clock(from(r)) \in Int
  BY <1>4, <1>7, Ranges DEF Clock
<1>9. /\ \A r \in Live' : timers'[r].elapsed \in Nat /\ timers'[r].id \in Ids
  BY <1>5, Ranges
<1> HIDE DEF from
<1>10. TypeOK'
  BY <1>2, <1>3, <1>4, Ranges DEF IInv, TypeOK, Live
<1>11. UniqueIds'
  BY <1>4, <1>5, <1>6 DEF IInv, UniqueIds
<1>12. ChargedOnce'
  BY <1>4, <1>5, <1>7 DEF IInv, ChargedOnce
<1>13. NeverAhead'
  <2> SUFFICES ASSUME NEW r \in Live', timers'[r].state = "running"
               PROVE  timers'[r].elapsed
                        <= Clock(r)' - since'[timers'[r].id].at + since'[timers'[r].id].in
    BY DEF NeverAhead, Clock
  <2>1. timers'[r].elapsed <= Clock(from(r)) - since[timers'[r].id].at + since[timers'[r].id].in
    BY <1>5 DEF IInv, NeverAhead, Clock
  <2> QED
    BY <2>1, <1>4, <1>8, <1>9, Ranges
<1>14. StartedBefore'
  <2>1. \A r \in Live' : since'[timers'[r].id].at <= Clock(r)' + since'[timers'[r].id].in
    <3> TAKE r \in Live'
    <3>1. since[timers'[r].id].at <= Clock(from(r)) + since[timers'[r].id].in
      BY <1>5 DEF IInv, StartedBefore
    <3> QED
      BY <3>1, <1>4, <1>8, <1>9, Ranges
  <2> QED
    BY <2>1, <1>4 DEF IInv, StartedBefore, Ids
<1>15. ChargedKnown'
  BY <1>4 DEF IInv, ChargedKnown
<1>16. TickStarted'
  BY <1>4 DEF IInv, TickStarted
<1> QED
  BY <1>10, <1>11, <1>12, <1>13, <1>14, <1>15, <1>16 DEF IInv

\* create_timer keeps the invariant: the new slot is the last one, the identifier new.
LEMMA CreateStep ==
  ASSUME IInv, NEW interval \in Intervals, NEW reload \in BOOLEAN, Create(interval, reload)
  PROVE  IInv'
<1> DEFINE slot == timer_count + 1
           t    == Fresh(slot, next_id, interval, reload)
<1>1. slot \in Slots /\ next_id \in Ids /\ Update(slot, t)
  BY Ranges DEF Create, NextId, Slots, Ids, IInv, TypeOK
<1>2. t \in TimerObject /\ t.id = next_id /\ t.state = "stopped"
  BY <1>1, Ranges, FreshFacts
<1> HIDE DEF t
<1>3. /\ timers' \in [Slots -> TimerObject]
      /\ \A r \in Slots : timers'[r] = IF r = slot THEN t ELSE timers[r]
  BY <1>1, <1>2, Ranges, UpdateFacts
<1>4. /\ timer_count' = timer_count + 1 /\ next_id' = next_id + 1 /\ tick_count' = tick_count
      /\ pc' = pc /\ i' = i /\ ms' = ms /\ since' = since /\ charged' = charged
  BY DEF Create
<1>5. \A r \in Live' : r # slot => r \in Live /\ timers'[r] = timers[r]
  BY <1>1, <1>3, <1>4, Ranges DEF Live
<1>6. timers'[slot].id = next_id /\ timers'[slot].state = "stopped"
  BY <1>1, <1>2, <1>3
<1>7. \A r \in Live : timers[r].id \in Nat /\ timers[r].id < next_id
  BY Ranges DEF IInv, UniqueIds
<1>8. \A r \in Slots : Clock(r)' = Clock(r) /\ Clock(r) \in Int
  BY <1>4, Ranges DEF Clock, ToVisit
<1>9. since[next_id] = [at |-> 0, in |-> 0] /\ 0 <= Clock(slot)
  BY <1>1, Ranges DEF IInv, StartedBefore, Clock, TickStarted
<1>10. TypeOK'
  BY <1>1, <1>3, <1>4, Ranges DEF IInv, TypeOK, Slots, Ids
<1>11. UniqueIds'
  <2>1. \A r \in Live' : timers'[r].id \in 1 .. next_id' - 1
    BY <1>1, <1>4, <1>5, <1>6, Ranges DEF IInv, UniqueIds, Ids
  <2>2. ASSUME NEW r \in Live', NEW q \in Live', timers'[r].id = timers'[q].id
        PROVE  r = q
    BY <2>2, <1>5, <1>6, <1>7 DEF IInv, UniqueIds
  <2> QED
    BY <2>1, <2>2 DEF UniqueIds
<1>12. ChargedOnce'
  BY <1>4, <1>5, <1>6, Ranges DEF IInv, ChargedOnce, ChargedKnown, ToVisit
<1>13. NeverAhead'
  <2> SUFFICES ASSUME NEW r \in Live', timers'[r].state = "running"
               PROVE  timers'[r].elapsed
                        <= Clock(r)' - since'[timers'[r].id].at + since'[timers'[r].id].in
    BY DEF NeverAhead, Clock
  <2>1. r \in Live /\ timers'[r] = timers[r]
    BY <1>5, <1>6
  <2> QED
    BY <2>1, <1>4, <1>8, Ranges DEF IInv, NeverAhead, Clock
<1>14. StartedBefore'
  <2>1. \A r \in Live' : since'[timers'[r].id].at <= Clock(r)' + since'[timers'[r].id].in
    <3> TAKE r \in Live'
    <3>1. CASE r = slot
      BY <3>1, <1>1, <1>4, <1>6, <1>8, <1>9
    <3>2. CASE r # slot
      BY <3>2, <1>4, <1>5, <1>8, Ranges DEF IInv, StartedBefore
    <3> QED
      BY <3>1, <3>2
  <2>2. \A id \in Ids : id >= next_id' => since'[id] = [at |-> 0, in |-> 0]
    BY <1>4, Ranges DEF IInv, StartedBefore, Ids
  <2>3. \A id \in Ids : since'[id].at <= tick_count'
    BY <1>4 DEF IInv, StartedBefore
  <2> QED
    BY <2>1, <2>2, <2>3 DEF StartedBefore, Ids
<1>15. ChargedKnown'
  BY <1>4, Ranges DEF IInv, ChargedKnown, TypeOK
<1>16. TickStarted'
  BY <1>4 DEF IInv, TickStarted
<1> QED
  BY <1>10, <1>11, <1>12, <1>13, <1>14, <1>15, <1>16 DEF IInv

\* A tick begins: the clock goes on, and every slot is still to visit.
LEMMA TickBeginStep ==
  ASSUME IInv, NEW length \in TickLengths, TickBegin(length)
  PROVE  IInv'
<1>1. length \in Nat /\ pc = "idle"
  BY TimerAssumption DEF TickBegin
<1>2. /\ timers' = timers /\ timer_count' = timer_count /\ next_id' = next_id
      /\ tick_count' = tick_count + length /\ ms' = length /\ since' = since
      /\ pc' = "tick" /\ i' = 1 /\ charged' = {}
  BY DEF TickBegin
<1>3. \A r \in Live : Clock(r)' = tick_count /\ Clock(r) = tick_count
  BY <1>1, <1>2, Ranges DEF Clock, ToVisit, Live
<1>4. TypeOK'
  BY <1>1, <1>2, Ranges DEF IInv, TypeOK
<1>5. UniqueIds'
  BY <1>2 DEF IInv, UniqueIds, Live
<1>6. ChargedOnce'
  BY <1>2 DEF ChargedOnce
<1>7. NeverAhead'
  BY <1>2, <1>3 DEF IInv, NeverAhead, Clock, Live
<1>8. StartedBefore'
  BY <1>1, <1>2, <1>3, Ranges DEF IInv, StartedBefore, Live, Ids
<1>9. ChargedKnown'
  BY <1>2 DEF ChargedKnown
<1>10. TickStarted'
  BY <1>1, <1>2, Ranges DEF TickStarted
<1> QED
  BY <1>4, <1>5, <1>6, <1>7, <1>8, <1>9, <1>10 DEF IInv

\* A tick ends: the loop has no slot left to visit.
LEMMA TickEndsStep ==
  ASSUME IInv, TickEnds
  PROVE  IInv'
<1>1. /\ timers' = timers /\ timer_count' = timer_count /\ next_id' = next_id
      /\ tick_count' = tick_count /\ ms' = ms /\ since' = since
      /\ pc = "tick" /\ pc' = "idle" /\ i' = i /\ charged' = charged /\ i > timer_count
  BY DEF TickEnds
<1>2. \A r \in Live : ~ToVisit(r) /\ ~ToVisit(r)'
  BY <1>1, Ranges DEF ToVisit, Live
<1>3. TypeOK'
  BY <1>1 DEF IInv, TypeOK
<1>4. UniqueIds'
  BY <1>1 DEF IInv, UniqueIds, Live
<1>5. ChargedOnce'
  BY <1>1, <1>2 DEF ChargedOnce, Live
<1>6. NeverAhead'
  BY <1>1, <1>2 DEF IInv, NeverAhead, Live
<1>7. StartedBefore'
  BY <1>1, <1>2, KeepsStarted
<1>8. ChargedKnown'
  BY <1>1 DEF IInv, ChargedKnown
<1>9. TickStarted'
  BY <1>1 DEF IInv, TickStarted
<1> QED
  BY <1>3, <1>4, <1>5, <1>6, <1>7, <1>8, <1>9 DEF IInv

\* The loop passes a timer that does not run.
LEMMA TickSkipsStep ==
  ASSUME IInv, TickSkips
  PROVE  IInv'
<1>1. /\ timers' = timers /\ timer_count' = timer_count /\ next_id' = next_id
      /\ tick_count' = tick_count /\ ms' = ms /\ since' = since
      /\ pc = "tick" /\ pc' = "tick" /\ i' = i + 1 /\ charged' = charged
      /\ i <= timer_count /\ timers[i].state # "running"
  BY DEF TickSkips
<1>2. \A r \in Live : ToVisit(r)' => ToVisit(r)
  BY <1>1, Ranges DEF ToVisit, Live
<1>3. i \in Slots
  BY <1>1, Ranges DEF IInv, TypeOK, Slots
<1>4. TypeOK'
  BY <1>1, Ranges DEF IInv, TypeOK
<1>5. UniqueIds'
  BY <1>1 DEF IInv, UniqueIds, Live
<1>6. ChargedOnce'
  BY <1>1, <1>2, KeepsCharged
<1>7. NeverAhead'
  BY <1>1, <1>2, <1>3, KeepsBehind
<1>8. StartedBefore'
  BY <1>1, <1>2, KeepsStarted
<1>9. ChargedKnown'
  BY <1>1 DEF IInv, ChargedKnown
<1>10. TickStarted'
  BY <1>1, Ranges DEF IInv, TickStarted
<1> QED
  BY <1>4, <1>5, <1>6, <1>7, <1>8, <1>9, <1>10 DEF IInv

\* The loop adds the tick to a timer and leaves it behind.
LEMMA TickElapsesStep ==
  ASSUME IInv, TickElapses
  PROVE  IInv'
<1>1. i \in Slots /\ i \in Live /\ Update(i, Elapse(timers[i])) /\ timers[i].state = "running"
  BY Ranges DEF TickElapses, IInv, TypeOK, Slots, Live
<1>2. /\ Elapse(timers[i]) \in TimerObject /\ Elapse(timers[i]).id = timers[i].id
      /\ Elapse(timers[i]).elapsed = timers[i].elapsed + ms
  BY <1>1, Ranges, ElapseFacts
<1>3. /\ timers' \in [Slots -> TimerObject]
      /\ \A r \in Slots : timers'[r] = IF r = i THEN Elapse(timers[i]) ELSE timers[r]
  BY <1>1, <1>2, Ranges, UpdateFacts
<1>4. /\ \A r \in Live : timers'[r].id = timers[r].id
      /\ \A r \in Live : r # i => timers'[r] = timers[r]
  BY <1>1, <1>2, <1>3, Ranges
<1>5. /\ timer_count' = timer_count /\ next_id' = next_id
      /\ tick_count' = tick_count /\ ms' = ms /\ since' = since
      /\ pc = "tick" /\ pc' = "tick" /\ i' = i + 1 /\ charged' = charged \cup {timers[i].id}
  BY DEF TickElapses, Charge
<1>6. /\ \A r \in Live : ToVisit(r)' => ToVisit(r)
      /\ \A r \in Live : r = i => ToVisit(r) /\ ~ToVisit(r)'
  BY <1>5, Ranges DEF ToVisit, Live
<1>7. TypeOK'
  <2>1. charged' \subseteq Nat
    <3>1. timers[i].id \in Nat /\ charged \subseteq Nat
      BY <1>1, Ranges DEF IInv, TypeOK
    <3> QED
      BY <3>1, <1>5
  <2>2. i' \in 1 .. MaxTimers + 1 /\ (pc' = "callback" => i' <= MaxTimers)
    BY <1>1, <1>5, Ranges DEF Slots
  <2> QED
    BY <2>1, <2>2, <1>3, <1>5 DEF IInv, TypeOK
<1>8. UniqueIds'
  BY <1>4, <1>5, KeepsUnique
<1>9. ChargedOnce'
  BY <1>1, <1>4, <1>5, <1>6, KeepsCharged
<1>10. NeverAhead'
  <2> PICK s \in Slots : s = i
    BY <1>1
  <2>1. timers[s].elapsed <= tick_count - ms - since[timers[s].id].at + since[timers[s].id].in
    BY <1>1, <1>6 DEF IInv, NeverAhead
  <2>2. Clock(s)' = tick_count
    BY <1>1, <1>5, <1>6 DEF Clock
  <2>3. timers'[s].elapsed <= Clock(s)' - since[timers[s].id].at + since[timers[s].id].in
    BY <2>1, <2>2, <1>1, <1>2, <1>3, Ranges
  <2> QED
    BY <2>3, <1>4, <1>5, <1>6, KeepsBehind
<1>11. StartedBefore'
  BY <1>4, <1>5, <1>6, KeepsStarted
<1>12. ChargedKnown'
  BY <1>1, <1>5, Ranges DEF IInv, ChargedKnown, UniqueIds
<1>13. TickStarted'
  BY <1>5, Ranges DEF IInv, TickStarted
<1> QED
  BY <1>7, <1>8, <1>9, <1>10, <1>11, <1>12, <1>13 DEF IInv

\* The loop fires a timer, which waits for its callback or is settled at once.
LEMMA TickFiresStep ==
  ASSUME IInv, TickFires
  PROVE  IInv'
<1>1. i \in Slots /\ i \in Live /\ timers[i] \in TimerObject
  BY Ranges DEF TickFires, IInv, TypeOK, Slots, Live
<1>2. PICK t \in TimerObject :
        /\ Update(i, t) /\ t.id = timers[i].id
        /\ t.state = "running" => t.elapsed = 0
  <2>1. /\ Fired(timers[i]) \in TimerObject /\ Fired(timers[i]).id = timers[i].id
        /\ Fired(timers[i]).state # "running"
    BY <1>1, Ranges, FiredFacts
  <2>2. LET t == Settled(Fired(timers[i])) IN
          t \in TimerObject /\ t.id = timers[i].id /\ (t.state = "running" => t.elapsed = 0)
    BY <2>1, SettledFacts
  <2> QED
    BY <2>1, <2>2 DEF TickFires
<1>3. /\ timers' \in [Slots -> TimerObject]
      /\ \A r \in Slots : timers'[r] = IF r = i THEN t ELSE timers[r]
  BY <1>1, <1>2, Ranges, UpdateFacts
<1>4. /\ \A r \in Live : timers'[r].id = timers[r].id
      /\ \A r \in Live : r # i => timers'[r] = timers[r]
  BY <1>1, <1>2, <1>3, Ranges
<1>5. /\ timer_count' = timer_count /\ next_id' = next_id
      /\ tick_count' = tick_count /\ ms' = ms /\ since' = since
      /\ charged' = charged \cup {timers[i].id}
      /\ pc = "tick"
      /\ (pc' = "tick" /\ i' = i + 1) \/ (pc' = "callback" /\ i' = i)
  BY DEF TickFires, Charge
<1>6. /\ \A r \in Live : ToVisit(r)' => ToVisit(r)
      /\ \A r \in Live : r = i => ~ToVisit(r)'
  BY <1>5, Ranges DEF ToVisit, Live
<1>7. TypeOK'
  <2>1. charged' \subseteq Nat
    <3>1. timers[i].id \in Nat /\ charged \subseteq Nat
      BY <1>1, Ranges DEF IInv, TypeOK
    <3> QED
      BY <3>1, <1>5
  <2>2. i' \in 1 .. MaxTimers + 1 /\ (pc' = "callback" => i' <= MaxTimers)
    BY <1>1, <1>5, Ranges DEF Slots
  <2> QED
    BY <2>1, <2>2, <1>3, <1>5 DEF IInv, TypeOK
<1>8. UniqueIds'
  BY <1>4, <1>5, KeepsUnique
<1>9. ChargedOnce'
  BY <1>1, <1>4, <1>5, <1>6, KeepsCharged
<1>10. NeverAhead'
  <2> PICK s \in Slots : s = i
    BY <1>1
  <2>1. s \in Live => since[timers[s].id].at <= tick_count
    BY Ranges DEF IInv, StartedBefore
  <2>2. s \in Live => Clock(s)' = tick_count
    BY <1>5, <1>6 DEF Clock
  <2>3. s \in Live /\ timers'[s].state = "running" =>
          timers'[s].elapsed <= Clock(s)' - since[timers[s].id].at + since[timers[s].id].in
    BY <2>1, <2>2, <1>2, <1>3, Ranges
  <2> QED
    BY <2>3, <1>4, <1>5, <1>6, KeepsBehind
<1>11. StartedBefore'
  BY <1>4, <1>5, <1>6, KeepsStarted
<1>12. ChargedKnown'
  BY <1>1, <1>5, Ranges DEF IInv, ChargedKnown, UniqueIds
<1>13. TickStarted'
  BY <1>5, Ranges DEF IInv, TickStarted
<1> QED
  BY <1>7, <1>8, <1>9, <1>10, <1>11, <1>12, <1>13 DEF IInv

\* The loop settles the slot it is at after the callback, and leaves it behind.
LEMMA CallbackReturnsStep ==
  ASSUME IInv, CallbackReturns
  PROVE  IInv'
<1>1. i \in Slots /\ Update(i, Settled(timers[i]))
  BY Ranges DEF CallbackReturns, IInv, TypeOK, Slots
<1>2. /\ Settled(timers[i]) \in TimerObject /\ Settled(timers[i]).id = timers[i].id
      /\ Settled(timers[i]).state = "running" => Settled(timers[i]).elapsed = 0
  BY <1>1, Ranges, SettledFacts
<1>3. /\ timers' \in [Slots -> TimerObject]
      /\ \A r \in Slots : timers'[r] = IF r = i THEN Settled(timers[i]) ELSE timers[r]
  BY <1>1, <1>2, Ranges, UpdateFacts
<1>4. /\ \A r \in Live : timers'[r].id = timers[r].id
      /\ \A r \in Live : r # i => timers'[r] = timers[r]
  BY <1>1, <1>2, <1>3, Ranges
<1>5. /\ timer_count' = timer_count /\ next_id' = next_id
      /\ tick_count' = tick_count /\ ms' = ms /\ since' = since /\ charged' = charged
      /\ pc = "callback" /\ pc' = "tick" /\ i' = i + 1
  BY DEF CallbackReturns
<1>6. /\ \A r \in Live : ToVisit(r)' => ToVisit(r)
      /\ \A r \in Live : r = i => ~ToVisit(r)'
  BY <1>5, Ranges DEF ToVisit, Live
<1>7. TypeOK'
  <2>1. charged' \subseteq Nat
    <3>1. timers[i].id \in Nat /\ charged \subseteq Nat
      BY <1>1, Ranges DEF IInv, TypeOK
    <3> QED
      BY <3>1, <1>5
  <2>2. i' \in 1 .. MaxTimers + 1 /\ (pc' = "callback" => i' <= MaxTimers)
    BY <1>1, <1>5, Ranges DEF Slots
  <2> QED
    BY <2>1, <2>2, <1>3, <1>5 DEF IInv, TypeOK
<1>8. UniqueIds'
  BY <1>4, <1>5, KeepsUnique
<1>9. ChargedOnce'
  BY <1>4, <1>5, <1>6, KeepsCharged
<1>10. NeverAhead'
  <2> PICK s \in Slots : s = i
    BY <1>1
  <2>1. s \in Live => since[timers[s].id].at <= tick_count
    BY Ranges DEF IInv, StartedBefore
  <2>2. s \in Live => Clock(s)' = tick_count
    BY <1>5, <1>6 DEF Clock
  <2>3. s \in Live /\ timers'[s].state = "running" =>
          timers'[s].elapsed <= Clock(s)' - since[timers[s].id].at + since[timers[s].id].in
    BY <2>1, <2>2, <1>2, <1>3, Ranges
  <2> QED
    BY <2>3, <1>4, <1>5, <1>6, KeepsBehind
<1>11. StartedBefore'
  BY <1>4, <1>5, <1>6, KeepsStarted
<1>12. ChargedKnown'
  BY <1>5 DEF IInv, ChargedKnown
<1>13. TickStarted'
  BY <1>5, Ranges DEF IInv, TickStarted
<1> QED
  BY <1>7, <1>8, <1>9, <1>10, <1>11, <1>12, <1>13 DEF IInv

\* A step that changes nothing keeps the invariant.
LEMMA StutterStep ==
  ASSUME IInv, UNCHANGED vars
  PROVE  IInv'
  BY DEF IInv, vars, TypeOK, UniqueIds, ChargedOnce, NeverAhead, StartedBefore, ChargedKnown,
         TickStarted, Live, Clock, ToVisit

-----------------------------------------------------------------------------
(***************************************************************************)
(* The theorems.                                                           *)
(***************************************************************************)

\* Every reachable state satisfies the inductive invariant.
THEOREM TimerInvariant == Spec => []IInv
<1>1. IInv /\ [Next]_vars => IInv'
  <2> SUFFICES ASSUME IInv, Next PROVE IInv'
    BY StutterStep
  <2>1. ASSUME Calls PROVE IInv'
    BY <2>1, CreateStep, StartStep, StopStep, CancelStep, SetCallbackStep DEF Calls
  <2>2. ASSUME NEW length \in TickLengths, TickBegin(length) PROVE IInv'
    BY <2>2, TickBeginStep
  <2>3. ASSUME Tick PROVE IInv'
    BY <2>3, TickSkipsStep, TickElapsesStep, TickFiresStep, CallbackReturnsStep, TickEndsStep
       DEF Tick
  <2> QED
    BY <2>1, <2>2, <2>3 DEF Next
<1> QED
  BY InitIInv, <1>1, PTL DEF Spec

\* The array, the counters and the locals of tick keep their types, for every size of
\* the array.
THEOREM TimerTypeOK == Spec => []TypeOK
  BY TimerInvariant, PTL DEF IInv

\* An identifier names at most one timer, and a stale one names none.
THEOREM TimerUniqueIds == Spec => []UniqueIds
  BY TimerInvariant, PTL DEF IInv

\* No tick counts twice for a timer, whatever its callbacks do.
THEOREM TimerChargedOnce == Spec => []ChargedOnce
  BY TimerInvariant, PTL DEF IInv

\* No timer runs ahead of the clock by more than the tick it was started in.
THEOREM TimerNeverAhead == Spec => []NeverAhead
  BY TimerInvariant, PTL DEF IInv

\* The array is sound whatever callbacks do to it in the middle of a tick.
THEOREM TimerSound == Spec => []Sound
  BY TimerTypeOK, TimerUniqueIds, TimerNeverAhead, PTL DEF Sound
=============================================================================
