---------------------------- MODULE RuntimeProofs ----------------------------
(***************************************************************************)
(* Proofs about the parts of the runtime that events wait on: the timer    *)
(* (Timer), the locks of the C++ library (Gthread) and the ZooKeeper Ebb   *)
(* (ZooKeeperEbb).                                                         *)
(***************************************************************************)
EXTENDS Timer, Gthread, ZooKeeperEbb, SeqFacts, FiniteSetTheorems

(***************************************************************************)
(* Timer: HooksKept holds for any set of hooks, any timeouts, and any      *)
(* clock.                                                                  *)
(*                                                                         *)
(* Erasing by value is erasing the hook itself as long as fire times are   *)
(* distinct, and clash records when they were not (TimesApart).  The       *)
(* hardware timer is programmed with a number because the first fire time  *)
(* of a set that is not empty is one (FirstIsTime).                        *)
(***************************************************************************)
TimerTypes ==
  /\ time \in Nat /\ now \in Nat
  /\ timers \in SUBSET Hook /\ wanted \in SUBSET Hook
  /\ fire \in [Hook -> Nat \cup {Off}] /\ repeat \in [Hook -> Nat]
  /\ pending \in BOOLEAN /\ clash \in BOOLEAN
  /\ \A h \in timers : fire[h] # Off

\* Hooks that were started have fire times of their own, or clash says that two
\* had not.
TimesApart == ~clash => \A g, h \in Hook : g # h /\ fire[g] = fire[h] => fire[g] = Off

TimerInv == TimerTypes /\ TimesApart /\ HooksKept

-----------------------------------------------------------------------------
\* A set of clock values that is not empty has a first one.
LEMMA MinIsMember == ASSUME NEW S \in SUBSET Nat, S # {} PROVE Min(S) \in S
  <1>1. \E m \in S : \A k \in S : m <= k
    BY FirstNumber, Zenon
  <1> QED BY <1>1, Zenon DEF Min

\* timers_.begin() of a set that is not empty has a fire time.
LEMMA FirstIsTime ==
  ASSUME TimerTypes, NEW S \in SUBSET timers, S # {}
  PROVE  First(S) \in Nat
  <1>1. {fire[h] : h \in S} \in SUBSET Nat /\ {fire[h] : h \in S} # {}
    BY Zenon DEF TimerTypes
  <1>2. Min({fire[h] : h \in S}) \in {fire[h] : h \in S}
    BY <1>1, MinIsMember, Zenon
  <1> QED BY <1>1, <1>2, Zenon DEF First

\* SetTimer leaves the hardware timer running.
LEMMA SetTimerArms ==
  ASSUME TimerTypes, NEW d \in Int, SetTimer(d)
  PROVE  armed' # Off
  <1> DEFINE a == (d \div Unit) * Unit
  <1>1. a \in Int /\ MaxDelay \in Int
    BY TimerAssumption
  <1> HIDE DEF a
  <1>2. \E m \in {a, MaxDelay} : \A k \in {a, MaxDelay} : m =< k
    BY <1>1
  <1>3. Min({a, MaxDelay}) \in {a, MaxDelay}
    BY <1>2, Zenon DEF Min
  <1>4. armed' = time + Min({a, MaxDelay})
    BY Zenon DEF SetTimer, a
  <1>5. armed' \in Int
    BY <1>1, <1>3, <1>4 DEF TimerTypes
  <1> QED BY <1>5, TimerAssumption, Zenon

\* While fire times are distinct, erasing by value takes the hook out and no other.
LEMMA EraseOne ==
  ASSUME TimerTypes, TimesApart, ~clash, NEW h \in Hook, fire[h] # Off
  PROVE  Erase(h) = timers \ {h}
  BY Zenon DEF TimerTypes, TimesApart, Erase

\* Giving a hook a fire time keeps the record of clashes true.
LEMMA FireAtKeeps ==
  ASSUME TimerTypes, TimesApart, NEW h \in Hook, NEW at \in Nat, FireAt(h, at)
  PROVE  /\ TimesApart' /\ fire' \in [Hook -> Nat \cup {Off}] /\ clash' \in BOOLEAN
         /\ fire'[h] = at /\ at # Off /\ \A g \in Hook \ {h} : fire'[g] = fire[g]
         /\ clash => clash'
  <1>1. /\ fire' \in [Hook -> Nat \cup {Off}] /\ fire'[h] = at
        /\ \A g \in Hook \ {h} : fire'[g] = fire[g]
    BY Zenon DEF TimerTypes, FireAt
  <1>2. at # Off
    BY TimerAssumption
  <1>3. clash' \in BOOLEAN /\ (clash => clash')
    BY Zenon DEF TimerTypes, FireAt
  <1>4. ASSUME ~clash' PROVE ~clash /\ \A g \in Hook \ {h} : fire[g] # at
    BY <1>4, Zenon DEF TimerTypes, FireAt
  <1> QED BY <1>1, <1>2, <1>3, <1>4, Zenon DEF TimesApart

-----------------------------------------------------------------------------
\* There are no hooks at first.
LEMMA TimerInitInv == Init => TimerInv
  <1> SUFFICES ASSUME Init PROVE TimerInv
    BY Zenon
  <1>1. TimerTypes
    BY Zenon DEF Init, TimerTypes
  <1>2. TimesApart
    BY Zenon DEF Init, TimesApart
  <1>3. HooksKept
    BY Zenon DEF Init, HooksKept, AlwaysArmed, NoHookLost
  <1> QED BY <1>1, <1>2, <1>3, Zenon DEF TimerInv

\* Start puts the hook in and sets the hardware timer when it is the first.
LEMMA StartStep ==
  ASSUME TimerInv, NEW h \in Hook, NEW d \in Timeouts, NEW again \in BOOLEAN, Start(h, d, again)
  PROVE  TimerInv'
  <1>1. d \in Nat /\ time + d \in Nat
    BY TimerAssumption DEF TimerInv, TimerTypes
  <1>2. /\ FireAt(h, time + d)
        /\ timers' = timers \cup {h} /\ wanted' = wanted \cup {h}
        /\ repeat' = [repeat EXCEPT ![h] = IF again THEN d ELSE 0]
        /\ UNCHANGED <<time, pending, mode, now>>
        /\ IF StartsFirst(time + d) THEN SetTimer(d) ELSE UNCHANGED armed
    BY Zenon DEF Start
  <1>3. /\ TimesApart' /\ fire' \in [Hook -> Nat \cup {Off}] /\ clash' \in BOOLEAN
        /\ fire'[h] # Off /\ \A g \in Hook \ {h} : fire'[g] = fire[g]
        /\ clash => clash'
    BY <1>1, <1>2, FireAtKeeps, Zenon DEF TimerInv
  <1>4. TimerTypes'
    BY <1>1, <1>2, <1>3, Zenon DEF TimerInv, TimerTypes
  <1>5. AlwaysArmed'
    <2>1. CASE StartsFirst(time + d)
      BY <1>1, <1>2, <2>1, SetTimerArms DEF TimerInv, AlwaysArmed
    <2>2. CASE ~StartsFirst(time + d)
      BY <1>2, <2>2, Zenon DEF StartsFirst, TimerInv, HooksKept, AlwaysArmed
    <2> QED BY <2>1, <2>2, Zenon
  <1>6. NoHookLost'
    BY <1>2, <1>3, Zenon DEF TimerInv, HooksKept, NoHookLost
  <1> QED BY <1>3, <1>4, <1>5, <1>6, Zenon DEF TimerInv, HooksKept

\* Stop takes the hook out and sets the hardware timer for the hooks that remain.
LEMMA StopStep == ASSUME TimerInv, NEW h \in Hook, Stop(h) PROVE TimerInv'
  <1>1. /\ fire[h] # Off /\ timers' = Erase(h) /\ Rearm(Erase(h)) /\ wanted' = wanted \ {h}
        /\ UNCHANGED <<time, fire, repeat, pending, mode, now, clash>>
    BY Zenon DEF Stop
  <1>2. Erase(h) \in SUBSET timers
    BY Zenon DEF Erase
  <1>3. TimerTypes'
    BY <1>1, <1>2, Zenon DEF TimerInv, TimerTypes
  <1>4. AlwaysArmed'
    <2>1. CASE Erase(h) = {}
      BY <1>1, <2>1, Zenon DEF AlwaysArmed
    <2>2. CASE Erase(h) # {} /\ time < First(Erase(h))
      <3>1. First(Erase(h)) - time \in Int
        BY <1>2, <2>2, FirstIsTime DEF TimerInv, TimerTypes
      <3> QED BY <1>1, <2>2, <3>1, SetTimerArms, Zenon DEF TimerInv, AlwaysArmed, Rearm
    <2>3. CASE Erase(h) # {} /\ ~(time < First(Erase(h)))
      BY <1>1, <1>2, <2>3, Zenon DEF Rearm, TimerInv, HooksKept, AlwaysArmed
    <2> QED BY <2>1, <2>2, <2>3, Zenon
  <1>5. NoHookLost'
    BY <1>1, EraseOne, Zenon DEF TimerInv, HooksKept, NoHookLost
  <1>6. TimesApart'
    BY <1>1, Zenon DEF TimerInv, TimesApart
  <1> QED BY <1>3, <1>4, <1>5, <1>6, Zenon DEF TimerInv, HooksKept

\* The handler takes the first hook out, and puts it back when it repeats.
LEMMA FireFirstStep == ASSUME TimerInv, FireFirst PROVE TimerInv'
  <1>1. PICK h \in Due :
          /\ timers' = Erase(h) \cup Again(h)
          /\ IF repeat[h] # 0 THEN FireAt(h, now + repeat[h]) ELSE UNCHANGED <<fire, clash>>
          /\ wanted' = IF repeat[h] # 0 THEN wanted ELSE wanted \ {h}
    BY Zenon DEF FireFirst
  <1>2. h \in Hook /\ h \in timers /\ fire[h] # Off /\ now + repeat[h] \in Nat
    BY DEF Due, TimerInv, TimerTypes
  <1>3. mode' = "fire" /\ UNCHANGED <<time, repeat, armed, pending, now>>
    BY Zenon DEF FireFirst
  <1>4. Erase(h) \in SUBSET timers /\ h \notin Erase(h)
    BY Zenon DEF Erase
  <1>5. /\ TimesApart' /\ fire' \in [Hook -> Nat \cup {Off}] /\ clash' \in BOOLEAN
        /\ fire'[h] # Off /\ \A g \in Hook \ {h} : fire'[g] = fire[g]
        /\ clash => clash'
    <2>1. CASE repeat[h] # 0
      BY <1>1, <1>2, <2>1, FireAtKeeps, Zenon DEF TimerInv
    <2>2. CASE repeat[h] = 0
      BY <1>1, <1>2, <2>2, Zenon DEF TimerInv, TimerTypes, TimesApart
    <2> QED BY <2>1, <2>2, Zenon
  <1>6. TimerTypes'
    <2>1. timers' \in SUBSET Hook /\ \A g \in timers' : fire'[g] # Off
      BY <1>1, <1>2, <1>4, <1>5, Zenon DEF TimerInv, TimerTypes, Again
    <2> QED BY <1>1, <1>3, <1>5, <2>1, Zenon DEF TimerInv, TimerTypes
  <1>7. AlwaysArmed'
    BY <1>3, Zenon DEF AlwaysArmed
  <1>8. NoHookLost'
    <2> SUFFICES ASSUME ~clash' PROVE timers' = wanted'
      BY Zenon DEF NoHookLost
    <2>1. timers = wanted /\ Erase(h) = timers \ {h}
      BY <1>2, <1>5, EraseOne, Zenon DEF TimerInv, HooksKept, NoHookLost
    <2> QED BY <1>1, <1>2, <2>1, Zenon DEF Again
  <1> QED BY <1>5, <1>6, <1>7, <1>8, Zenon DEF TimerInv, HooksKept

\* The handler leaves with the hardware timer set for the hooks that still wait.
LEMMA LeaveStep == ASSUME TimerInv, Leave PROVE TimerInv'
  <1>1. /\ IF timers = {} THEN UNCHANGED armed ELSE SetTimer(First(timers) - now)
        /\ UNCHANGED <<time, timers, fire, repeat, pending, now, wanted, clash>>
    BY Zenon DEF Leave
  <1>2. TimerTypes' /\ TimesApart' /\ NoHookLost'
    BY <1>1, Zenon DEF TimerInv, TimerTypes, TimesApart, HooksKept, NoHookLost
  <1>3. timers # {} => armed' # Off
    <2> SUFFICES ASSUME timers # {} PROVE armed' # Off
      BY Zenon
    <2>1. First(timers) - now \in Int
      BY FirstIsTime DEF TimerInv, TimerTypes
    <2> QED BY <1>1, <2>1, SetTimerArms, Zenon DEF TimerInv
  <1> QED BY <1>1, <1>2, <1>3, Zenon DEF TimerInv, HooksKept, AlwaysArmed

\* Reading the clock, the tick of the clock and the interrupt leave the hooks alone.
LEMMA OtherStep == ASSUME TimerInv, Enter \/ Fired \/ Tick \/ Expire \/ UNCHANGED vars PROVE TimerInv'
  <1>1. UNCHANGED <<timers, fire, repeat, wanted, clash>>
    BY Zenon DEF Enter, Fired, Tick, Expire, vars
  <1>2. time' \in Nat /\ now' \in Nat
    BY DEF TimerInv, TimerTypes, Enter, Fired, Tick, Expire, vars
  <1>4. pending' \in BOOLEAN
    <2>1. pending \in BOOLEAN
      BY Zenon DEF TimerInv, TimerTypes
    <2> QED BY <2>1, Zenon DEF Enter, Fired, Tick, Expire, vars
  <1>3. AlwaysArmed'
    BY Zenon DEF TimerInv, HooksKept, AlwaysArmed, Enter, Fired, Tick, Expire, vars
  <1> QED BY <1>1, <1>2, <1>3, <1>4, Zenon DEF TimerInv, TimerTypes, TimesApart, HooksKept, NoHookLost

\* Start, Stop and the interrupt handler of Timer.cc, with any hooks and timeouts and in
\* any order: no hook is lost, and the hardware will wake the core for those that wait.
THEOREM HooksKeptAlways == Spec => []HooksKept
  <1>1. Init => TimerInv
    BY TimerInitInv, Zenon
  <1>2. TimerInv /\ [Next]_vars => TimerInv'
    BY StartStep, StopStep, FireFirstStep, LeaveStep, OtherStep, Zenon DEF Next
  <1>3. TimerInv => HooksKept
    BY Zenon DEF TimerInv
  <1> QED BY <1>1, <1>2, <1>3, PTL DEF Spec

-----------------------------------------------------------------------------
(***************************************************************************)
(* Gthread: LocksExclude holds for any number of cores and events, and     *)
(* whatever the limit of the recursion count.                              *)
(*                                                                         *)
(* LocksExclude is not inductive.  What it needs besides is that the core  *)
(* field, which lock reads without the spin lock, is either cleared or the *)
(* holder's (LockInv), that the flag is up exactly while somebody holds    *)
(* the plain mutex (MutexInv), and who is inside the function of once      *)
(* (OnceInv).                                                              *)
(***************************************************************************)
\* The recursive mutex: its count is the holder's depth, and a core that is set
\* is the holder's.
LockInv ==
  /\ lock \in [event_id : Events \cup {NoCore}, count : Nat, core : Core \cup {NoCore}]
  /\ depth \in [Events -> Nat]
  /\ lock.count > 0 => lock.event_id \in Events
  /\ lock.core # NoCore => lock.count > 0 /\ lock.core = CoreOf[lock.event_id]
  /\ \A e \in Events : depth[e] = IF lock.count > 0 /\ lock.event_id = e THEN lock.count ELSE 0

\* The plain mutex.
MutexInv ==
  /\ flag \in BOOLEAN
  /\ ~flag => owns = {}
  /\ owns = {} \/ \E e \in Events : owns = {e}

\* once: one event is in its function, or between the function and the store of 2,
\* exactly while the flag is 1.
Inside(e) == pc[e] \in {"func", "store"}
OnceInv ==
  /\ pc \in [Events -> {"run", "check", "func", "store"}]
  /\ once \in {0, 1, 2}
  /\ once = 0 => calls = 0
  /\ once = 2 => calls = 1
  /\ once # 1 => \A e \in Events : ~Inside(e)
  /\ once = 1 => \E e \in Events : /\ Inside(e)
                                   /\ calls = IF pc[e] = "func" THEN 0 ELSE 1
                                   /\ \A f \in Events \ {e} : ~Inside(f)
  /\ past # {} => once = 2

\* The deadlock that was reported is one.
HaltInv ==
  halted # NoCore /\ halted[2] = "deadlock" =>
    lock.count > 0 /\ CoreOf[lock.event_id] = CoreOf[halted[1]]

LocksInv == LockInv /\ MutexInv /\ OnceInv /\ HaltInv

-----------------------------------------------------------------------------
\* The locks of Gthread.cc are free when the machine starts.
LEMMA LocksInitInv == ASSUME GthreadConstants PROVE GthreadInit => LocksInv
  <1> SUFFICES ASSUME GthreadInit PROVE LocksInv
    BY Zenon
  <1>1. LockInv
    BY DEF GthreadInit, LockInv
  <1>2. MutexInv
    BY Zenon DEF GthreadInit, MutexInv
  <1>3. OnceInv
    BY DEF GthreadInit, OnceInv, Inside
  <1>4. HaltInv
    BY Zenon DEF GthreadInit, HaltInv
  <1> QED BY <1>1, <1>2, <1>3, <1>4, Zenon DEF LocksInv

\* trylock that succeeds keeps the recursive mutex consistent.
LEMMA EnterKeepsLock ==
  ASSUME GthreadConstants, LockInv, NEW e \in Events, MayEnter(e),
         lock' = Entered(e), depth' = [depth EXCEPT ![e] = @ + 1]
  PROVE  LockInv'
  <1>1. lock' \in [event_id : Events \cup {NoCore}, count : Nat, core : Core \cup {NoCore}]
    BY DEF GthreadConstants, LockInv, Entered
  <1>2. lock'.event_id = e /\ lock'.count = lock.count + 1 /\ lock'.core = CoreOf[e] /\ lock'.count > 0
    BY DEF LockInv, Entered
  <1>3. depth' \in [Events -> Nat]
    BY DEF LockInv
  <1>4. ASSUME NEW f \in Events
        PROVE  depth'[f] = IF lock'.count > 0 /\ lock'.event_id = f THEN lock'.count ELSE 0
    BY <1>2 DEF LockInv, MayEnter
  <1> QED BY <1>1, <1>2, <1>3, <1>4, Zenon DEF LockInv

\* Every step of the recursive mutex (lock, the check of the core, unlock) and every
\* other step keeps LockInv.
LEMMA LockStep == ASSUME GthreadConstants, LocksInv, [GthreadNext]_gthreadVars PROVE LockInv'
  <1>1. CASE UNCHANGED <<lock, depth>>
    BY <1>1, Zenon DEF LocksInv, LockInv
  <1>2. ASSUME NEW e \in Events, Lock(e) \/ CheckCore(e) PROVE LockInv'
    BY <1>1, <1>2, EnterKeepsLock, Zenon DEF LocksInv, Lock, CheckCore
  <1>3. ASSUME NEW e \in Events, Unlock(e) PROVE LockInv'
    <2>1. lock.count > 0 /\ lock.event_id = e /\ lock.count \in Nat
      BY <1>3 DEF LocksInv, LockInv, Unlock
    <2>2. /\ lock' = [event_id |-> lock.event_id, count |-> lock.count - 1, core |-> NoCore]
          /\ depth' = [depth EXCEPT ![e] = @ - 1]
      BY <1>3, Zenon DEF Unlock
    <2>3. /\ lock'.count = lock.count - 1 /\ lock'.core = NoCore /\ lock'.event_id = e
          /\ lock' \in [event_id : Events \cup {NoCore}, count : Nat, core : Core \cup {NoCore}]
      BY <2>1, <2>2 DEF LocksInv, LockInv
    <2>4. depth' \in [Events -> Nat]
      BY <2>1, <2>2 DEF LocksInv, LockInv
    <2>5. ASSUME NEW f \in Events
          PROVE  depth'[f] = IF lock'.count > 0 /\ lock'.event_id = f THEN lock'.count ELSE 0
      BY <2>1, <2>2, <2>3 DEF LocksInv, LockInv
    <2> QED BY <2>3, <2>4, <2>5, Zenon DEF LockInv
  <1>4. CASE UNCHANGED gthreadVars
    BY <1>1, <1>4, Zenon DEF gthreadVars
  <1>5. ASSUME NEW e \in Events,
               \/ Dispatch(e) \/ Block(e) \/ MutexLock(e) \/ MutexTrylock(e) \/ MutexUnlock(e)
               \/ Once(e) \/ OnceFunc(e) \/ OnceStore(e)
        PROVE  LockInv'
    BY <1>1, <1>5, Zenon DEF Dispatch, Block, MutexLock, MutexTrylock, MutexUnlock, Once, OnceFunc, OnceStore
  <1> QED BY <1>2, <1>3, <1>4, <1>5, Zenon DEF GthreadNext

\* The plain mutex: only who finds the flag down becomes its holder.
LEMMA MutexStep == ASSUME GthreadConstants, LocksInv, [GthreadNext]_gthreadVars PROVE MutexInv'
  <1>1. CASE UNCHANGED <<flag, owns>>
    BY <1>1, Zenon DEF LocksInv, MutexInv
  <1>2. ASSUME NEW e \in Events, MutexLock(e) \/ MutexTrylock(e) PROVE MutexInv'
    <2>1. CASE flag
      BY <1>2, <2>1, Zenon DEF LocksInv, MutexInv, MutexLock, MutexTrylock
    <2>2. CASE ~flag
      <3>1. owns' = {e} /\ flag' = TRUE
        BY <1>2, <2>2, Zenon DEF LocksInv, MutexInv, MutexLock, MutexTrylock
      <3> QED BY <3>1, Zenon DEF MutexInv
    <2> QED BY <2>1, <2>2, Zenon
  <1>3. ASSUME NEW e \in Events, MutexUnlock(e) PROVE MutexInv'
    <2>1. owns' = {} /\ flag' = FALSE
      BY <1>3, Zenon DEF LocksInv, MutexInv, MutexUnlock
    <2> QED BY <2>1, Zenon DEF MutexInv
  <1>4. CASE UNCHANGED gthreadVars
    BY <1>1, <1>4, Zenon DEF gthreadVars
  <1>5. ASSUME NEW e \in Events,
               \/ Dispatch(e) \/ Block(e) \/ Lock(e) \/ CheckCore(e) \/ Unlock(e)
               \/ Once(e) \/ OnceFunc(e) \/ OnceStore(e)
        PROVE  MutexInv'
    BY <1>1, <1>5, Zenon DEF Dispatch, Block, Lock, CheckCore, Unlock, Once, OnceFunc, OnceStore, rest
  <1> QED BY <1>2, <1>3, <1>4, <1>5, Zenon DEF GthreadNext

\* once: the compare and exchange lets one event into the function, and the others
\* see 2 only after it came back.
LEMMA OnceStep == ASSUME GthreadConstants, LocksInv, [GthreadNext]_gthreadVars PROVE OnceInv'
  <1>1. CASE UNCHANGED <<once, calls, past, pc>>
    BY <1>1, Zenon DEF LocksInv, OnceInv, Inside
  <1>2. ASSUME NEW e \in Events, Lock(e) \/ CheckCore(e) PROVE OnceInv'
    <2>1. UNCHANGED <<once, calls, past>>
      BY <1>2, Zenon DEF Lock, CheckCore, rest
    <2>2. /\ pc' \in [Events -> {"run", "check", "func", "store"}]
          /\ \A f \in Events : Inside(f)' = Inside(f) /\ (pc'[f] = "func") = (pc[f] = "func")
      BY <1>2 DEF LocksInv, OnceInv, Inside, Lock, CheckCore, At, Goto
    <2> QED BY <2>1, <2>2, Zenon DEF LocksInv, OnceInv
  <1>3. ASSUME NEW e \in Events, Once(e) PROVE OnceInv'
    BY <1>3 DEF LocksInv, OnceInv, Inside, Once, At, Goto
  <1>4. ASSUME NEW e \in Events, OnceFunc(e) PROVE OnceInv'
    BY <1>4 DEF LocksInv, OnceInv, Inside, OnceFunc, At, Goto
  <1>5. ASSUME NEW e \in Events, OnceStore(e) PROVE OnceInv'
    BY <1>5 DEF LocksInv, OnceInv, Inside, OnceStore, At, Goto
  <1>6. CASE UNCHANGED gthreadVars
    BY <1>1, <1>6, Zenon DEF gthreadVars
  <1>7. ASSUME NEW e \in Events,
               Dispatch(e) \/ Block(e) \/ Unlock(e) \/ MutexLock(e) \/ MutexTrylock(e) \/ MutexUnlock(e)
        PROVE  OnceInv'
    BY <1>1, <1>7, Zenon DEF Dispatch, Block, Unlock, MutexLock, MutexTrylock, MutexUnlock, rest
  <1> QED BY <1>2, <1>3, <1>4, <1>5, <1>6, <1>7, Zenon DEF GthreadNext

\* kbugon in recursive_mutex_lock stops the machine with the holder on the caller's
\* core, and a stopped machine takes no step.
LEMMA HaltStep == ASSUME GthreadConstants, LocksInv, [GthreadNext]_gthreadVars PROVE HaltInv'
  <1>1. ASSUME NEW e \in Events, CheckCore(e), lock.core = CoreOf[e] PROVE HaltInv'
    BY <1>1 DEF GthreadConstants, LocksInv, LockInv, HaltInv, CheckCore
  <1>2. ASSUME NEW e \in Events, halted = NoCore, halted' \in {NoCore, <<e, "busy">>, <<e, "once">>}
        PROVE  HaltInv'
    BY <1>2 DEF HaltInv
  <1>3. ASSUME NEW e \in Events,
               \/ Dispatch(e) \/ Block(e) \/ Lock(e) \/ (CheckCore(e) /\ lock.core # CoreOf[e]) \/ Unlock(e)
               \/ MutexLock(e) \/ MutexTrylock(e) \/ MutexUnlock(e)
               \/ Once(e) \/ OnceFunc(e) \/ OnceStore(e)
        PROVE  halted = NoCore /\ halted' \in {NoCore, <<e, "busy">>, <<e, "once">>}
    BY <1>3, Zenon DEF Dispatch, Block, Lock, CheckCore, Unlock, MutexLock, MutexTrylock, MutexUnlock,
                Once, OnceFunc, OnceStore, At, Runs
  <1>4. CASE UNCHANGED gthreadVars
    BY <1>4, Zenon DEF gthreadVars, LocksInv, HaltInv
  <1> QED BY <1>1, <1>2, <1>3, <1>4, Zenon DEF GthreadNext

\* The locks of Gthread.cc exclude whatever the number of cores and events, whichever
\* events block and resume, and whatever UINT8_MAX is.
THEOREM LocksExcludeAlways == ASSUME GthreadConstants PROVE GthreadSpec => []LocksExclude
  <1>1. GthreadInit => LocksInv
    BY LocksInitInv, Zenon
  <1>2. LocksInv /\ [GthreadNext]_gthreadVars => LocksInv'
    BY LockStep, MutexStep, OnceStep, HaltStep, Zenon DEF LocksInv
  <1>3. LocksInv => LocksExclude
    <2>1. LocksInv => Cardinality(owns) <= 1
      <3>1. Cardinality({}) = 0
        BY FS_EmptySet, Zenon
      <3>2. \A e \in Events : Cardinality({e}) = 1
        BY FS_Singleton, Zenon
      <3> QED BY <3>1, <3>2 DEF LocksInv, MutexInv
    <2>2. LocksInv => (past # {} => calls = 1)
      BY Zenon DEF LocksInv, OnceInv
    <2> QED BY <2>1, <2>2, Zenon DEF LocksInv, LockInv, HaltInv, LocksExclude
  <1> QED BY <1>1, <1>2, <1>3, PTL DEF GthreadSpec

-----------------------------------------------------------------------------
\* The ZooKeeper Ebb (ZooKeeperEbb).

\* The places of q that belong to event c.
Of(q, c) == {i \in DOMAIN q : q[i].who = c}
One(S) == \E u : S = {u}

\* The steps at which an event waits for an answer.
Blocking == {"stat", "new", "future"}
Resting == {"idle", "statted", "created"}

\* An event at step, with these places in the queue and in the answers: one that waits
\* has one request or one answer on its way, one that runs has none.
Waits(step, asked, answered) ==
  IF step \in Blocking THEN (One(asked) /\ answered = {}) \/ (asked = {} /\ One(answered))
  ELSE asked = {} /\ answered = {}

AllWait(q, r, s) ==
  /\ IsQueue(q) /\ IsQueue(r) /\ DOMAIN s = Caller
  /\ \A i \in DOMAIN q : q[i].who \in Caller
  /\ \A i \in DOMAIN r : r[i].who \in Caller
  /\ \A c \in Caller : s[c].pc \in Blocking \cup Resting
  /\ \A c \in Caller : Waits(s[c].pc, Of(q, c), Of(r, c))

CallersInv == AllWait(queue, replies, caller)

-----------------------------------------------------------------------------
\* Appending an entry of an event adds its place to those of the event only.
LEMMA AppendOf ==
  ASSUME NEW q, IsQueue(q), NEW r, NEW c
  PROVE  /\ r.who # c => Of(Append(q, r), c) = Of(q, c)
         /\ r.who = c /\ Of(q, c) = {} => One(Of(Append(q, r), c))
         /\ \A T : r.who \in T /\ (\A i \in DOMAIN q : q[i].who \in T)
                   => \A i \in DOMAIN Append(q, r) : Append(q, r)[i].who \in T
  <1> DEFINE n == Len(q)
             p == Append(q, r)
  <1>1. /\ n \in Nat /\ DOMAIN q = 1 .. n /\ DOMAIN p = 1 .. n + 1 /\ p[n + 1] = r
        /\ \A i \in 1 .. n : p[i] = q[i]
    BY AppendPlaces, Zenon
  <1> HIDE DEF n, p
  <1>2. DOMAIN p = DOMAIN q \cup {n + 1} /\ n + 1 \notin DOMAIN q
    BY <1>1
  <1>3. r.who # c => Of(p, c) = Of(q, c)
    BY <1>1, <1>2, Zenon DEF Of
  <1>4. r.who = c /\ Of(q, c) = {} => Of(p, c) = {n + 1}
    BY <1>1, <1>2, Zenon DEF Of
  <1>5. ASSUME NEW T, r.who \in T, \A i \in DOMAIN q : q[i].who \in T, NEW i \in DOMAIN p
        PROVE  p[i].who \in T
    BY <1>1, <1>2, <1>5, Zenon
  <1> QED BY <1>3, <1>4, <1>5, Zenon DEF One, p

\* Popping an entry takes its place from its event; the others keep as many.
LEMMA TailOf ==
  ASSUME NEW q, IsQueue(q), q # <<>>, NEW c
  PROVE  /\ Head(q).who = q[1].who /\ 1 \in DOMAIN q
         /\ Of(q, c) = {} => Of(Tail(q), c) = {} /\ Head(q).who # c
         /\ Head(q).who # c /\ One(Of(q, c)) => One(Of(Tail(q), c))
         /\ Head(q).who = c /\ One(Of(q, c)) => Of(Tail(q), c) = {}
         /\ \A T : (\A i \in DOMAIN q : q[i].who \in T) => \A i \in DOMAIN Tail(q) : Tail(q)[i].who \in T
  <1> DEFINE n == Len(q)
             p == Tail(q)
  <1>1. /\ n \in Nat \ {0} /\ DOMAIN q = 1 .. n /\ Head(q) = q[1] /\ DOMAIN p = 1 .. n - 1
        /\ \A i \in 1 .. n - 1 : p[i] = q[i + 1]
    BY TailPlaces, Zenon
  <1> HIDE DEF n, p
  <1>2. /\ 1 \in DOMAIN q
        /\ \A i \in DOMAIN p : i \in Int /\ i + 1 \in DOMAIN q /\ i + 1 # 1 /\ p[i] = q[i + 1]
        /\ \A i \in DOMAIN q : i \in Int /\ (i = 1 \/ (i - 1 \in DOMAIN p /\ p[i - 1] = q[i] /\ (i - 1) + 1 = i))
    BY <1>1
  <1>3. ASSUME Of(q, c) = {} PROVE Of(p, c) = {} /\ Head(q).who # c
    <2>1. \A i \in DOMAIN q : q[i].who # c
      BY <1>3, Zenon DEF Of
    <2>2. \A i \in DOMAIN p : p[i].who # c
      <3> TAKE i \in DOMAIN p
      <3>1. i + 1 \in DOMAIN q /\ p[i] = q[i + 1]
        BY <1>2, Zenon
      <3> QED BY <2>1, <3>1, Zenon
    <2> QED BY <1>1, <1>2, <2>1, <2>2, Zenon DEF Of
  <1>4. ASSUME NEW u, Of(q, c) = {u}
        PROVE  IF Head(q).who = c THEN Of(p, c) = {} ELSE Of(p, c) = {u - 1}
    <2>1. u \in DOMAIN q /\ q[u].who = c /\ \A i \in DOMAIN q : q[i].who = c => i = u
      BY <1>4, Zenon DEF Of
    <2>2. CASE Head(q).who = c
      <3>1. u = 1
        BY <1>1, <1>2, <2>1, <2>2, Zenon
      <3>2. \A i \in DOMAIN p : p[i].who # c
        BY <1>2, <2>1, <3>1, Zenon
      <3> QED BY <2>2, <3>2, Zenon DEF Of
    <2>3. CASE Head(q).who # c
      <3>1. u - 1 \in DOMAIN p /\ p[u - 1].who = c
        <4>1. u # 1
          BY <1>1, <2>1, <2>3, Zenon
        <4> QED BY <1>2, <2>1, <4>1, Zenon
      <3>2. \A i \in DOMAIN p : p[i].who = c => i + 1 = u
        <4> TAKE i \in DOMAIN p
        <4>1. i + 1 \in DOMAIN q /\ p[i] = q[i + 1]
          BY <1>2, Zenon
        <4> QED BY <2>1, <4>1, Zenon
      <3>3. \A i \in DOMAIN p : p[i].who = c => i = u - 1
        BY <1>2, <2>1, <3>2
      <3> QED BY <2>3, <3>1, <3>3, Zenon DEF Of
    <2> QED BY <2>2, <2>3, Zenon
  <1>5. \A T : (\A i \in DOMAIN q : q[i].who \in T) => \A i \in DOMAIN p : p[i].who \in T
    BY <1>2, Zenon
  <1> QED BY <1>1, <1>2, <1>3, <1>4, <1>5, Zenon DEF One, p

\* No step is one of both kinds.
LEMMA StepsApart == \A step \in Resting : step \notin Blocking
  BY DEF Resting, Blocking

\* An event that runs asks, and waits (New, Get, Delete, GetChildren, Stat, Exists,
\* Set).
LEMMA AsksKeeps ==
  ASSUME CallersInv, NEW c \in Caller, caller[c].pc \in Resting, NEW op, NEW path, Asks(c, op, path),
         NEW step \in Blocking, NEW at, NEW found, Now(c, step, at, found), replies' = replies
  PROVE  CallersInv'
  <1> DEFINE r == [who |-> c, op |-> op, path |-> path]
  <1>0. AllWait(queue, replies, caller)
    BY Zenon DEF CallersInv
  <1>1. queue' = Append(queue, r) /\ r.who = c
    BY DEF Asks
  <1> HIDE DEF r
  <1>2. /\ DOMAIN caller' = Caller /\ caller'[c].pc = step
        /\ \A d \in Caller : d # c => caller'[d] = caller[d]
    BY <1>0 DEF Now, AllWait
  <1>3. IsQueue(queue') /\ \A i \in DOMAIN queue' : queue'[i].who \in Caller
    BY <1>0, <1>1, AppendPlaces, AppendOf, Zenon DEF AllWait
  <1>4. Waits(caller'[c].pc, Of(queue', c), Of(replies', c))
    <2>1. Of(queue, c) = {} /\ Of(replies, c) = {}
      BY <1>0, StepsApart, Zenon DEF AllWait, Waits
    <2>2. One(Of(queue', c)) /\ Of(replies', c) = {}
      BY <1>0, <1>1, <2>1, AppendOf, Zenon DEF AllWait
    <2> QED BY <1>2, <2>2, Zenon DEF Waits
  <1>5. ASSUME NEW d \in Caller, d # c PROVE Waits(caller'[d].pc, Of(queue', d), Of(replies', d))
    <2>1. Of(queue', d) = Of(queue, d)
      BY <1>0, <1>1, <1>5, AppendOf, Zenon DEF AllWait
    <2> QED BY <1>0, <1>2, <1>5, <2>1, Zenon DEF AllWait
  <1>6. AllWait(queue', replies', caller')
    BY <1>0, <1>2, <1>3, <1>4, <1>5, Zenon DEF AllWait
  <1> QED BY <1>6, Zenon DEF CallersInv

\* Steps after which the same events wait for the same.
LEMMA SameKeeps ==
  ASSUME CallersInv, queue' = queue, replies' = replies, DOMAIN caller' = Caller,
         \A c \in Caller : \/ caller'[c].pc = caller[c].pc
                           \/ caller[c].pc \in Resting /\ caller'[c].pc \in Resting
  PROVE  CallersInv'
  <1>1. AllWait(queue, replies, caller)
    BY Zenon DEF CallersInv
  <1>2. ASSUME NEW c \in Caller PROVE Waits(caller'[c].pc, Of(queue', c), Of(replies', c))
    <2>1. Waits(caller[c].pc, Of(queue, c), Of(replies, c))
      BY <1>1, Zenon DEF AllWait
    <2> QED BY <2>1, StepsApart, Zenon DEF Waits
  <1>3. AllWait(queue', replies', caller')
    BY <1>1, <1>2, Zenon DEF AllWait
  <1> QED BY <1>3, Zenon DEF CallersInv

\* The loop of Set asks for a path that is not known, or writes.
LEMMA WalkKeeps ==
  ASSUME CallersInv, NEW c \in Caller, caller[c].pc \in Resting, NEW i, NEW known, Walk(c, i, known),
         replies' = replies
  PROVE  CallersInv'
  <1>0. "stat" \in Blocking /\ "future" \in Blocking
    BY Zenon DEF Blocking
  <1>1. CASE Aset(c)
    BY <1>0, <1>1, AsksKeeps, Zenon DEF Aset
  <1>2. ASSUME NEW j, Asks(c, "stat", PathPrefixes[j]), Now(c, "stat", j, FALSE) PROVE CallersInv'
    BY <1>0, <1>2, AsksKeeps, Zenon
  <1> QED BY <1>1, <1>2, Zenon DEF Walk

\* zookeeper_process delivers an answer to the event that waits for it.
LEMMA FireKeeps == ASSUME CallersInv, Fire PROVE CallersInv'
  <1> DEFINE c == Head(replies).who
  <1>0. AllWait(queue, replies, caller) /\ replies # <<>> /\ IsQueue(replies)
    BY Zenon DEF Fire, CallersInv, AllWait
  <1>1. replies' = Tail(replies) /\ queue' = queue /\ Completed(c, Head(replies).ok)
    BY Zenon DEF Fire
  <1>2. c \in Caller /\ Of(replies, c) # {}
    BY <1>0, TailOf, Zenon DEF AllWait
  <1> HIDE DEF c
  <1>3. Of(queue, c) = {} /\ One(Of(replies, c))
    BY <1>0, <1>2, Zenon DEF AllWait, Waits
  <1>4. /\ DOMAIN caller' = Caller /\ caller'[c].pc \in Resting
        /\ \A d \in Caller : d # c => caller'[d] = caller[d]
    BY <1>0, <1>1, <1>2 DEF Completed, Now, AllWait, Resting
  <1>5. IsQueue(replies') /\ \A i \in DOMAIN replies' : replies'[i].who \in Caller
    BY <1>0, <1>1, TailPlaces, TailOf, Zenon DEF AllWait
  <1>6. Waits(caller'[c].pc, Of(queue', c), Of(replies', c))
    <2>1. Of(replies', c) = {} /\ Of(queue', c) = {}
      BY <1>0, <1>1, <1>3, TailOf, Zenon DEF c
    <2>2. caller'[c].pc \notin Blocking
      BY <1>4, StepsApart, Zenon
    <2> QED BY <2>1, <2>2, Zenon DEF Waits
  <1>7. ASSUME NEW d \in Caller, d # c PROVE Waits(caller'[d].pc, Of(queue', d), Of(replies', d))
    <2>1. /\ Of(replies, d) = {} => Of(replies', d) = {}
          /\ One(Of(replies, d)) => One(Of(replies', d))
      BY <1>0, <1>1, <1>7, TailOf, Zenon DEF c
    <2>2. Waits(caller[d].pc, Of(queue, d), Of(replies, d))
      BY <1>0, Zenon DEF AllWait
    <2>3. caller'[d] = caller[d] /\ Of(queue', d) = Of(queue, d)
      BY <1>1, <1>4, <1>7, Zenon
    <2> QED BY <2>1, <2>2, <2>3, Zenon DEF Waits
  <1>8. AllWait(queue', replies', caller')
    BY <1>0, <1>1, <1>4, <1>5, <1>6, <1>7, Zenon DEF AllWait
  <1> QED BY <1>8, Zenon DEF CallersInv

\* The server answers the request at the head of the queue.
LEMMA ServeKeeps == ASSUME CallersInv, Serve PROVE CallersInv'
  <1> DEFINE c == Head(queue).who
             r == [who |-> Head(queue).who, ok |-> Answers(Head(queue))]
  <1>0. AllWait(queue, replies, caller) /\ queue # <<>> /\ IsQueue(queue) /\ IsQueue(replies)
    BY Zenon DEF Serve, CallersInv, AllWait
  <1>1. queue' = Tail(queue) /\ caller' = caller /\ replies' = Append(replies, r)
    BY Zenon DEF Serve
  <1>2. r.who = c
    OBVIOUS
  <1>3. c \in Caller /\ Of(queue, c) # {}
    BY <1>0, TailOf, Zenon DEF AllWait
  <1> HIDE DEF c, r
  <1>4. caller[c].pc \in Blocking /\ Of(replies, c) = {} /\ One(Of(queue, c))
    BY <1>0, <1>3, Zenon DEF AllWait, Waits
  <1>5. /\ IsQueue(queue') /\ \A i \in DOMAIN queue' : queue'[i].who \in Caller
        /\ IsQueue(replies') /\ \A i \in DOMAIN replies' : replies'[i].who \in Caller
    BY <1>0, <1>1, <1>2, <1>3, TailPlaces, TailOf, AppendPlaces, AppendOf, Zenon DEF AllWait
  <1>6. Waits(caller'[c].pc, Of(queue', c), Of(replies', c))
    <2>1. Of(queue', c) = {}
      BY <1>0, <1>1, <1>4, TailOf, Zenon DEF c
    <2>2. One(Of(replies', c))
      BY <1>0, <1>1, <1>2, <1>4, AppendOf, Zenon
    <2> QED BY <1>1, <1>4, <2>1, <2>2, Zenon DEF Waits
  <1>7. ASSUME NEW d \in Caller, d # c PROVE Waits(caller'[d].pc, Of(queue', d), Of(replies', d))
    <2>1. /\ Of(queue, d) = {} => Of(queue', d) = {}
          /\ One(Of(queue, d)) => One(Of(queue', d))
      BY <1>0, <1>1, <1>7, TailOf, Zenon DEF c
    <2>2. Of(replies', d) = Of(replies, d)
      BY <1>0, <1>1, <1>2, <1>7, AppendOf, Zenon
    <2>3. Waits(caller[d].pc, Of(queue, d), Of(replies, d))
      BY <1>0, Zenon DEF AllWait
    <2> QED BY <1>1, <2>1, <2>2, <2>3, Zenon DEF Waits
  <1>8. AllWait(queue', replies', caller')
    BY <1>0, <1>1, <1>5, <1>6, <1>7, Zenon DEF AllWait
  <1> QED BY <1>8, Zenon DEF CallersInv

\* Nobody waits, and nothing is on its way.
LEMMA NobodyWaits ==
  ASSUME NEW s, DOMAIN s = Caller, \A c \in Caller : s[c].pc \in Resting
  PROVE  AllWait(<<>>, <<>>, s)
  <1>1. <<>> \in Seq({}) /\ DOMAIN <<>> = {}
    OBVIOUS
  <1>2. IsQueue(<<>>)
    BY <1>1, Zenon DEF IsQueue
  <1>3. \A c \in Caller : Of(<<>>, c) = {}
    BY <1>1, Zenon DEF Of
  <1> QED BY <1>1, <1>2, <1>3, StepsApart, Zenon DEF AllWait, Waits

\* A lost connection fails every request: everybody runs again.
LEMMA LosesKeeps == ASSUME CallersInv, Loses PROVE CallersInv'
  <1>1. \A c \in Caller : caller[c].pc \in Blocking \cup Resting
    BY Zenon DEF CallersInv, AllWait
  <1>2. queue' = <<>> /\ replies' = <<>> /\ DOMAIN caller' = Caller
    BY DEF Loses
  <1>3. \A c \in Caller : caller'[c].pc \in Resting
    BY <1>1 DEF Loses, Resting, Blocking, Idle
  <1>4. AllWait(queue', replies', caller')
    BY <1>2, <1>3, NobodyWaits, Zenon
  <1> QED BY <1>4, Zenon DEF CallersInv

\* An event that runs goes on to another step of its own, or stays.
LEMMA MovesKeeps ==
  ASSUME CallersInv, queue' = queue, replies' = replies,
         \/ caller' = caller
         \/ \E c \in Caller, step \in Resting :
              caller[c].pc \in Resting /\ \E at, found : Now(c, step, at, found)
  PROVE  CallersInv'
  <1>1. DOMAIN caller = Caller
    BY Zenon DEF CallersInv, AllWait
  <1>2. CASE caller' = caller
    BY <1>1, <1>2, SameKeeps, Zenon
  <1>3. ASSUME NEW c \in Caller, NEW step \in Resting, NEW at, NEW found,
               caller[c].pc \in Resting, Now(c, step, at, found)
        PROVE  CallersInv'
    <2>1. /\ DOMAIN caller' = Caller /\ caller'[c].pc \in Resting
          /\ \A d \in Caller : d # c => caller'[d] = caller[d]
      BY <1>1, <1>3 DEF Now
    <2> QED BY <1>3, <2>1, SameKeeps, Zenon
  <1> QED BY <1>2, <1>3, Zenon

\* Every step keeps the invariant.
LEMMA CallersStep == CallersInv /\ [EbbNext]_ebbVars => CallersInv'
  <1> SUFFICES ASSUME CallersInv, [EbbNext]_ebbVars PROVE CallersInv'
    OBVIOUS
  <1>0. {"stat", "future", "new"} \subseteq Blocking /\ {"idle", "statted", "created"} \subseteq Resting
    BY Zenon DEF Blocking, Resting
  <1>1. ASSUME NEW c \in Caller, NEW op, Request(c, op) PROVE CallersInv'
    <2>1. caller[c].pc \in Resting
      BY <1>0, <1>1, Zenon DEF Request, Call
    <2> QED BY <1>0, <1>1, <2>1, AsksKeeps, Zenon DEF Request
  <1>2. ASSUME NEW c \in Caller, NEW p, New(c, p) PROVE CallersInv'
    <2>1. caller[c].pc \in Resting /\ replies' = replies
      BY <1>0, <1>2, Zenon DEF New, Call
    <2>2. CASE p \in cache
      BY <1>2, <2>1, <2>2, MovesKeeps, Zenon DEF New
    <2>3. CASE p \notin cache
      BY <1>0, <1>2, <2>1, <2>3, AsksKeeps, Zenon DEF New
    <2> QED BY <2>2, <2>3, Zenon
  <1>3. ASSUME NEW c \in Caller, Exists(c) PROVE CallersInv'
    <2>1. caller[c].pc \in Resting /\ replies' = replies
      BY <1>0, <1>3, Zenon DEF Exists, Call
    <2>2. CASE Leaf \in cache
      BY <1>3, <2>1, <2>2, MovesKeeps, Zenon DEF Exists
    <2>3. CASE Leaf \notin cache
      BY <1>0, <1>3, <2>1, <2>3, AsksKeeps, Zenon DEF Exists
    <2> QED BY <2>2, <2>3, Zenon
  <1>4. ASSUME NEW c \in Caller, Set(c) PROVE CallersInv'
    <2>1. caller[c].pc \in Resting /\ replies' = replies
      BY <1>0, <1>4, Zenon DEF Set, Call
    <2>2. CASE Aset(c)
      BY <1>0, <2>1, <2>2, AsksKeeps, Zenon DEF Aset
    <2>3. CASE Walk(c, 1, cache)
      BY <2>1, <2>3, WalkKeeps, Zenon
    <2> QED BY <1>4, <2>2, <2>3, Zenon DEF Set
  <1>5. ASSUME NEW c \in Caller, Statted(c) PROVE CallersInv'
    <2>1. caller[c].pc \in Resting /\ replies' = replies
      BY <1>0, <1>5, Zenon DEF Statted
    <2>2. \/ Now(c, "idle", 0, FALSE) /\ queue' = queue
          \/ Walk(c, caller[c].at + 1, cache')
          \/ queue' = queue /\ caller' = caller
          \/ \E path : Asks(c, "create", path) /\ Now(c, "new", caller[c].at, FALSE)
      BY <1>5 DEF Statted
    <2>3. CASE Now(c, "idle", 0, FALSE) /\ queue' = queue
      BY <1>0, <2>1, <2>3, MovesKeeps, Zenon
    <2>4. CASE Walk(c, caller[c].at + 1, cache')
      BY <2>1, <2>4, WalkKeeps, Zenon
    <2>5. CASE queue' = queue /\ caller' = caller
      BY <2>1, <2>5, MovesKeeps, Zenon
    <2>6. CASE \E path : Asks(c, "create", path) /\ Now(c, "new", caller[c].at, FALSE)
      BY <1>0, <2>1, <2>6, AsksKeeps, Zenon
    <2> QED BY <2>2, <2>3, <2>4, <2>5, <2>6, Zenon
  <1>6. ASSUME NEW c \in Caller, Created(c) PROVE CallersInv'
    <2>1. caller[c].pc \in Resting /\ replies' = replies
      BY <1>0, <1>6, Zenon DEF Created
    <2>2. CASE Walk(c, caller[c].at + 1, cache)
      BY <2>1, <2>2, WalkKeeps, Zenon
    <2>3. CASE queue' = queue /\ caller' = caller
      BY <2>1, <2>3, MovesKeeps, Zenon
    <2> QED BY <1>6, <2>2, <2>3, Zenon DEF Created
  <1>7. CASE \/ Aborts \/ Connects \/ Other \/ UNCHANGED ebbVars
             \/ \E type \in {"created", "deleted", "changed", "childchanged"} : WatchEvent(type)
    <2>1. queue' = queue /\ replies' = replies /\ caller' = caller
      BY <1>7, Zenon DEF Aborts, Connects, Other, WatchEvent, ebbVars
    <2> QED BY <2>1, MovesKeeps, Zenon
  <1> QED BY <1>1, <1>2, <1>3, <1>4, <1>5, <1>6, <1>7, FireKeeps, LosesKeeps, ServeKeeps, Zenon
          DEF EbbNext, Get, Delete, Stat, GetChildren

\* Whatever connections are lost and whoever else asks, an event that waits in
\* Exists or Set or for a future has exactly one request or answer on its way, and
\* one that runs has none (the completions of ZooKeeper.cc and zookeeper_process):
\* for any number of events, any paths and any number of losses.
THEOREM CallersReturnAlways == EbbSpec => []ZooKeeperCallersReturn
  <1>1. EbbInit => CallersInv
    <2> SUFFICES ASSUME EbbInit PROVE CallersInv
      OBVIOUS
    <2>1. DOMAIN caller = Caller /\ \A c \in Caller : caller[c].pc \in Resting
      BY DEF EbbInit, Idle, Resting
    <2> QED BY <2>1, NobodyWaits, Zenon DEF EbbInit, CallersInv
  <1>2. CallersInv => ZooKeeperCallersReturn
    <2> SUFFICES ASSUME CallersInv, NEW c \in Caller
                 PROVE  IF caller[c].pc \in Resting THEN Underway(c) = {}
                        ELSE \E u \in Underway(c) : Underway(c) = {u}
      BY Zenon DEF ZooKeeperCallersReturn, Resting
    <2>1. caller[c].pc \in Blocking \cup Resting /\ Waits(caller[c].pc, Of(queue, c), Of(replies, c))
      BY Zenon DEF CallersInv, AllWait
    <2>2. Underway(c) = {<<"request", i>> : i \in Of(queue, c)} \cup {<<"answer", i>> : i \in Of(replies, c)}
      BY Zenon DEF Underway, Of
    <2>3. CASE caller[c].pc \in Resting
      BY <2>1, <2>2, <2>3, StepsApart, Zenon DEF Waits
    <2>4. CASE caller[c].pc \in Blocking
      <3>1. CASE One(Of(queue, c)) /\ Of(replies, c) = {}
        <4>1. PICK u : Of(queue, c) = {u}
          BY <3>1, Zenon DEF One
        <4>2. Underway(c) = {<<"request", u>>}
          BY <2>2, <3>1, <4>1, Zenon
        <4> QED BY <2>4, <4>2, StepsApart, Zenon
      <3>2. CASE Of(queue, c) = {} /\ One(Of(replies, c))
        <4>1. PICK u : Of(replies, c) = {u}
          BY <3>2, Zenon DEF One
        <4>2. Underway(c) = {<<"answer", u>>}
          BY <2>2, <3>2, <4>1, Zenon
        <4> QED BY <2>4, <4>2, StepsApart, Zenon
      <3> QED BY <2>1, <2>4, <3>1, <3>2, Zenon DEF Waits
    <2> QED BY <2>1, <2>3, <2>4, Zenon
  <1> QED BY <1>1, <1>2, CallersStep, PTL DEF EbbSpec
=============================================================================
