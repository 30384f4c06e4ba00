-------------------------------- MODULE Timer --------------------------------
(***************************************************************************)
(* The per-core timer service (src/src/native/Timer.cc): hooks ordered by  *)
(* their fire time share one one-shot hardware timer.                      *)
(*                                                                         *)
(* Start, Stop and the interrupt handler run on one core without           *)
(* preemption, but time passes between the reads of the clock, and the     *)
(* hooks that the handler fires call Start and Stop themselves.            *)
(***************************************************************************)
EXTENDS Integers, FiniteSets, FiniteSetsExt

CONSTANTS Hook,
          Timeouts,    \* timeouts that callers ask for, multiples of Unit
          Unit,        \* clock ticks (ns) in a unit of the hardware timer (us)
          MaxDelay,    \* longest delay that SetTimer can program
          MaxTime,     \* bound on the clock
          Off

ASSUME TimerAssumption ==
  /\ Unit \in Nat \ {0} /\ MaxDelay \in Nat \ {0} /\ MaxTime \in Nat
  /\ \A d \in Timeouts : d \in Nat /\ d % Unit = 0
  /\ Off \notin Int

VARIABLES time,           \* clock::Wall
          timers,         \* timers_
          fire, repeat,   \* fire_time_ and repeat_us_ of each hook
          armed,          \* when the hardware timer expires, or Off
          pending,        \* its interrupt is pending
          mode,           \* "idle", or where the handler is: "loop" or "fire"
          now,            \* the handler's variable now
          wanted,         \* history: hooks started, not stopped and still to fire
          clash           \* history: two hooks were given the same fire time

vars == <<time, timers, fire, repeat, armed, pending, mode, now, wanted, clash>>

Init ==
  /\ time = 0 /\ timers = {} /\ armed = Off /\ pending = FALSE /\ mode = "idle" /\ now = 0
  /\ fire = [h \in Hook |-> Off] /\ repeat = [h \in Hook |-> 0]
  /\ wanted = {} /\ clash = FALSE

\* The first fire time of a set of hooks: timers_.begin()->fire_time_.
First(S) == Min({fire[h] : h \in S})

\* timers_.erase(hook) erases by value: every hook with this fire time, whether
\* or not the hook itself is in the multiset.
Erase(h) == {g \in timers : fire[g] # fire[h]}

\* Give h a fire time.
FireAt(h, at) ==
  /\ fire' = [fire EXCEPT ![h] = at]
  /\ clash' = (clash \/ \E g \in Hook \ {h} : fire[g] = at)

\* The delay is rounded down to the hardware's unit and capped; zero expires at once.
SetTimer(delay) == armed' = time + Min({(delay \div Unit) * Unit, MaxDelay})

-----------------------------------------------------------------------------
\* timers_.empty() || *timers_.begin() > hook
StartsFirst(at) == timers = {} \/ First(timers) > at

Start(h, timeout, again) ==
  LET at == time + timeout IN
  /\ mode \in {"idle", "fire"} /\ h \notin timers /\ at < MaxTime
  /\ IF StartsFirst(at) THEN SetTimer(timeout) ELSE UNCHANGED armed
  /\ FireAt(h, at)
  /\ repeat' = [repeat EXCEPT ![h] = IF again THEN timeout ELSE 0]
  /\ timers' = timers \cup {h}
  /\ wanted' = wanted \cup {h}
  /\ UNCHANGED <<time, pending, mode, now>>

\* What Stop does to the hardware timer when the hooks in left remain.
Rearm(left) ==
  IF left = {} THEN armed' = Off
  ELSE IF time < First(left) THEN SetTimer(First(left) - time) ELSE UNCHANGED armed

\* The hook need not be in the set: it may have fired since it was started.
Stop(h) ==
  /\ mode \in {"idle", "fire"} /\ fire[h] # Off
  /\ timers' = Erase(h)
  /\ Rearm(Erase(h))
  /\ wanted' = wanted \ {h}
  /\ UNCHANGED <<time, fire, repeat, pending, mode, now, clash>>

-----------------------------------------------------------------------------
(* The interrupt handler.                                                   *)

Enter ==
  /\ pending /\ mode = "idle"
  /\ pending' = FALSE /\ mode' = "loop" /\ now' = time
  /\ UNCHANGED <<time, timers, fire, repeat, armed, wanted, clash>>

Due == {h \in timers : fire[h] <= now /\ fire[h] = First(timers)}

\* Seeded fault: a repeating hook is not put back.
AgainNever(h) == {}

\* A repeating hook is put back.
Again(h) == IF repeat[h] # 0 THEN {h} ELSE {}

\* Take out the first hook, put it back if it repeats, and call Fire.
FireFirst ==
  /\ mode = "loop"
  /\ \E h \in Due :
       /\ timers' = Erase(h) \cup Again(h)
       /\ IF repeat[h] # 0 THEN FireAt(h, now + repeat[h]) ELSE UNCHANGED <<fire, clash>>
       /\ wanted' = IF repeat[h] # 0 THEN wanted ELSE wanted \ {h}
  /\ mode' = "fire"
  /\ UNCHANGED <<time, repeat, armed, pending, now>>

\* Fire has returned: read the clock again.
Fired ==
  /\ mode = "fire"
  /\ mode' = "loop" /\ now' = time
  /\ UNCHANGED <<time, timers, fire, repeat, armed, pending, wanted, clash>>

\* Seeded fault: the hardware timer is not programmed for the next hook.
LeaveUnarmed ==
  /\ mode = "loop" /\ Due = {}
  /\ mode' = "idle"
  /\ UNCHANGED <<time, timers, fire, repeat, armed, pending, now, wanted, clash>>

\* No hook is due any more: program the timer for the next one.
Leave ==
  /\ mode = "loop" /\ Due = {}
  /\ IF timers = {} THEN UNCHANGED armed ELSE SetTimer(First(timers) - now)
  /\ mode' = "idle"
  /\ UNCHANGED <<time, timers, fire, repeat, pending, now, wanted, clash>>

Handler == Enter \/ FireFirst \/ Fired \/ Leave

-----------------------------------------------------------------------------
(* The hardware.                                                            *)

Tick ==
  /\ time < MaxTime
  /\ time' = time + 1
  /\ UNCHANGED <<timers, fire, repeat, armed, pending, mode, now, wanted, clash>>

\* At the bound of the clock the timer may expire whatever it was set to.
Expire ==
  /\ armed # Off /\ (armed <= time \/ time = MaxTime)
  /\ armed' = Off /\ pending' = TRUE
  /\ UNCHANGED <<time, timers, fire, repeat, mode, now, wanted, clash>>

Next ==
  \/ \E h \in Hook, d \in Timeouts, again \in BOOLEAN : Start(h, d, again)
  \/ \E h \in Hook : Stop(h)
  \/ Enter \/ FireFirst \/ Fired \/ Leave
  \/ Tick \/ Expire

Spec == Init /\ [][Next]_vars

\* Time passes, the hardware timer expires and the core handles its interrupts.
FairSpec == Spec /\ WF_vars(Tick) /\ WF_vars(Expire) /\ WF_vars(Handler)

-----------------------------------------------------------------------------
(* Properties.                                                              *)

\* While hooks wait and the handler is not running, an interrupt is pending or
\* the hardware timer is running: no Start, Stop or Fire leaves it off.
AlwaysArmed == timers # {} /\ mode = "idle" => pending \/ armed # Off

\* As long as no two hooks had the same nanosecond as fire time, the hooks in
\* the set are exactly those that were started, not stopped and have still to
\* fire: none is lost and none fires after it was stopped.
NoHookLost == ~clash => timers = wanted

\* What Start, Stop and the handler promise of the hooks: none is lost and the
\* hardware is always going to wake the core for those that wait.
HooksKept == AlwaysArmed /\ NoHookLost

Overdue(h) == h \in wanted /\ fire[h] <= time

\* A hook whose time has come is fired or stopped, also when its delay was longer
\* than the hardware can count and when other hooks are started all the time,
\* under the same condition on the fire times.
DueHookFires == \A h \in Hook : Overdue(h) ~> (~Overdue(h) \/ clash)
=============================================================================
