--------------------------- MODULE EventManagerRcu ---------------------------
(***************************************************************************)
(* The grace period: the proof that Fire() hands over a callback only when *)
(* every event that was live at its DoRcu has ended.                       *)
(*                                                                         *)
(* A callback in prev_rcu_tasks_ of core c waits for one round of the      *)
(* token.  The events it still waits for are on cores the token has yet to *)
(* leave; on the core that holds the token they belong to the pending      *)
(* generation, so the token stays there until they have ended.             *)
(***************************************************************************)
EXTENDS EventManagerStacks

\* How many cores the token leaves, once c has passed it on, before it is at d.
Dist(c, d) == IF d > c THEN d - c - 1 ELSE d - c - 1 + NCpus

TokenAt(c) == HasToken(c) \/ TokenInFlightTo(c)

\* The events of a core belong to its generation, but for those the holder of
\* the token is waiting for.
GenerationsOK ==
  \A c \in CPU :
    IF HasToken(c) THEN pending_generation[c] = 1 - generation[c]
                   ELSE \A s \in Stack : IsLive(c, s) => gen[c][s] = generation[c]

\* A callback waits for live events only.
HoldsLive == \A k \in Callbacks, d \in CPU, s \in Stack : <<d, s>> \in holds[k] => IsLive(d, s)

\* Only callbacks passed to DoRcu are on their way.
OnlyCalled ==
  \A k \in Callbacks : k \notin called =>
    /\ k \notin invoked
    /\ \A c \in CPU : /\ k \notin Range(curr_rcu_tasks[c])
                      /\ k \notin Range(prev_rcu_tasks[c])
                      /\ \A s \in Stack : k \notin Range(todo[c][s])

\* What the callbacks in prev_rcu_tasks_ of c still wait for, with the token at t.
WaitsBehindToken ==
  \A c \in CPU, t \in CPU, d \in CPU : \A k \in Callbacks, s \in Stack :
    TokenAt(t) /\ k \in Range(prev_rcu_tasks[c]) /\ <<d, s>> \in holds[k] =>
      /\ Dist(c, d) >= Dist(c, t)
      /\ d = t /\ HasToken(t) => gen[d][s] = pending_generation[d]

RcuInv == OneToken /\ GenerationsOK /\ HoldsLive /\ OnlyCalled /\ WaitsBehindToken /\ GracePeriod

-----------------------------------------------------------------------------
(* Steps that leave the generations alone.                                  *)

\* Live events begin in their core's generation and keep the one they have;
\* an event that ends is held by no callback any more.
EventsQuiet ==
  /\ \A k \in Callbacks : holds'[k] \subseteq holds[k]
  /\ \A k \in Callbacks, d \in CPU, s \in Stack :
       <<d, s>> \in holds'[k] /\ IsLive(d, s) => IsLive(d, s)' /\ gen'[d][s] = gen[d][s]
  /\ \A d \in CPU, s \in Stack :
       IsLive(d, s)' => (IsLive(d, s) /\ gen'[d][s] = gen[d][s]) \/ gen'[d][s] = generation[d]

TokenQuiet ==
  /\ UNCHANGED <<generation, pending_generation, prev_rcu_tasks>>
  /\ \A c \in CPU : (HasToken(c)' <=> HasToken(c)) /\ (TokenInFlightTo(c)' <=> TokenInFlightTo(c))

CallbacksQuiet ==
  /\ UNCHANGED <<curr_rcu_tasks, called>>
  /\ \A c \in CPU, s \in Stack : Range(todo'[c][s]) \subseteq Range(todo[c][s])
  /\ \A k \in invoked' : k \in invoked \/ \E c \in CPU, s \in Stack : k \in Range(todo[c][s])

\* Events that begin, end, block and resume do not disturb what callbacks wait for.
LEMMA EventsQuietStep ==
  ASSUME TypeOK, StackOwnership, Next, holds' = holds \/ \E c \in CPU : Return(c)
  PROVE EventsQuiet
<1>0. holds \in [Callbacks -> SUBSET (CPU \X Stack)]
  BY Zenon DEF TypeOK
<1>1. ASSUME NEW c \in CPU, NEW t \in Stack, LiveLoses(c, t) PROVE EventsQuiet
  <2>1. \A k \in Callbacks : holds'[k] = holds[k] \ {<<c, t>>}
    BY <1>1, Zenon DEF LiveLoses, Ended
  <2>2. \A d \in CPU, s \in Stack : <<d, s>> # <<c, t>> => SameEvent(d, s)
    BY <1>1, Zenon DEF LiveLoses
  <2>3. ~IsLive(c, t)'
    BY <1>1, Zenon DEF LiveLoses
  <2>4. ASSUME NEW d \in CPU, NEW s \in Stack, IsLive(d, s)'
        PROVE (IsLive(d, s) /\ gen'[d][s] = gen[d][s]) \/ gen'[d][s] = generation[d]
    BY <2>2, <2>3, <2>4, Zenon DEF SameEvent
  <2>5. ASSUME NEW k \in Callbacks, NEW d \in CPU, NEW s \in Stack, <<d, s>> \in holds'[k], IsLive(d, s)
        PROVE IsLive(d, s)' /\ gen'[d][s] = gen[d][s]
    BY <2>1, <2>2, <2>5, Zenon DEF SameEvent
  <2> QED BY <2>1, <2>4, <2>5, Zenon DEF EventsQuiet
<1>2. ASSUME LiveStays, holds' = holds PROVE EventsQuiet
  BY <1>2, Zenon DEF LiveStays, SameEvent, EventsQuiet
<1>3. ASSUME NEW c \in CPU, NEW t \in Stack, LiveGains(c, t), holds' = holds PROVE EventsQuiet
  <2>2. \A d \in CPU, s \in Stack : <<d, s>> # <<c, t>> => SameEvent(d, s)
    BY <1>3, Zenon DEF LiveGains
  <2>3. ~IsLive(c, t) /\ gen'[c][t] = generation[c]
    BY <1>3, Zenon DEF LiveGains
  <2>4. ASSUME NEW d \in CPU, NEW s \in Stack, IsLive(d, s)'
        PROVE (IsLive(d, s) /\ gen'[d][s] = gen[d][s]) \/ gen'[d][s] = generation[d]
    BY <2>2, <2>3, <2>4, Zenon DEF SameEvent
  <2>5. ASSUME NEW d \in CPU, NEW s \in Stack, IsLive(d, s)
        PROVE IsLive(d, s)' /\ gen'[d][s] = gen[d][s]
    BY <2>2, <2>3, <2>5, Zenon DEF SameEvent
  <2> QED BY <1>3, <2>4, <2>5, Zenon DEF EventsQuiet
<1> QED BY <1>1, <1>2, <1>3, EventEffect, ReturnLoses, Zenon

\* Every operation but DoRcu, Fire and the receipt of the token is quiet.
LEMMA QuietStep ==
  ASSUME TypeOK, StackOwnership, NEW c \in CPU,
         \/ SpawnLocalAsync(c) \/ SpawnLocal(c) \/ \E d \in CPU : SpawnRemote(c, d) \/ SendIpi(c, d)
         \/ SaveContext(c) \/ \E d \in CPU, s \in Stack : ActivateContext(c, d, s)
         \/ IdleStart(c) \/ IdleStop(c) \/ Return(c) \/ SpawnRcuTask(c) \/ ProcessTaskInterrupt(c)
         \/ \E i \in {"timer", "device"} : ProcessDeviceInterrupt(c, i)
         \/ RunTask(c) \/ RunActivation(c) \/ RunIdleCallback(c) \/ TimerExpire(c) \/ DeviceInterrupt(c)
  PROVE EventsQuiet /\ TokenQuiet /\ CallbacksQuiet
<1> USE DEF ctxVars, stackVars, taskVars, rcuVars
<1>1. EventsQuiet
  <2>1. Next
    BY Zenon DEF Next
  <2>2. holds' = holds \/ Return(c)
    BY Zenon DEF SpawnLocalAsync, SpawnLocal, SpawnRemote, SendIpi, SaveContext, ActivateContext, IdleStart, IdleStop,
       SpawnRcuTask, ProcessTaskInterrupt, ProcessDeviceInterrupt, RunTask, RunActivation, RunIdleCallback,
       TimerExpire, DeviceInterrupt
  <2> QED BY <2>1, <2>2, EventsQuietStep, Zenon
<1>2. TokenQuiet
  <2>1. ints \in [CPU -> SUBSET Interrupt] /\ hook \in [CPU -> {"idle", "armed", "expired"}]
    BY Zenon DEF TypeOK
  <2>2. UNCHANGED <<generation, pending_generation, prev_rcu_tasks>>
    BY Zenon DEF SpawnLocalAsync, SpawnLocal, SpawnRemote, SendIpi, SaveContext, ActivateContext, IdleStart, IdleStop,
       Return, SpawnRcuTask, ProcessTaskInterrupt, ProcessDeviceInterrupt, RunTask, RunActivation, RunIdleCallback,
       TimerExpire, DeviceInterrupt
  <2>3. hook' = hook \/ (hook[c] = "armed" /\ hook' = [hook EXCEPT ![c] = "expired"])
    BY Zenon DEF SpawnLocalAsync, SpawnLocal, SpawnRemote, SendIpi, SaveContext, ActivateContext, IdleStart, IdleStop,
       Return, SpawnRcuTask, ProcessTaskInterrupt, ProcessDeviceInterrupt, RunTask, RunActivation, RunIdleCallback,
       TimerExpire, DeviceInterrupt
  <2>4. \/ ints' = ints
        \/ \E d \in CPU, i \in {"task", "timer", "device"} : ints' = [ints EXCEPT ![d] = @ \cup {i}]
        \/ \E d \in CPU, i \in {"task", "timer", "device"} : ints' = [ints EXCEPT ![d] = @ \ {i}]
    BY Zenon DEF SpawnLocalAsync, SpawnLocal, SpawnRemote, SendIpi, SaveContext, ActivateContext, IdleStart, IdleStop,
       Return, SpawnRcuTask, ProcessTaskInterrupt, ProcessDeviceInterrupt, RunTask, RunActivation, RunIdleCallback,
       TimerExpire, DeviceInterrupt
  <2>5. \A d \in CPU : HasToken(d)' <=> HasToken(d)
    BY <2>1, <2>3, Zenon DEF HasToken
  <2>6. \A d \in CPU : TokenInFlightTo(d)' <=> TokenInFlightTo(d)
    BY <2>1, <2>4 DEF TokenInFlightTo
  <2> QED BY <2>2, <2>5, <2>6, Zenon DEF TokenQuiet
<1>3. CallbacksQuiet
  <2>1. UNCHANGED <<curr_rcu_tasks, called>>
    BY Zenon DEF SpawnLocalAsync, SpawnLocal, SpawnRemote, SendIpi, SaveContext, ActivateContext, IdleStart, IdleStop,
       Return, SpawnRcuTask, ProcessTaskInterrupt, ProcessDeviceInterrupt, RunTask, RunActivation, RunIdleCallback,
       TimerExpire, DeviceInterrupt
  <2>2. CASE ~SpawnRcuTask(c)
    <3>1. UNCHANGED <<todo, invoked>>
      BY <2>2, Zenon DEF SpawnLocalAsync, SpawnLocal, SpawnRemote, SendIpi, SaveContext, ActivateContext, IdleStart, IdleStop,
         Return, ProcessTaskInterrupt, ProcessDeviceInterrupt, RunTask, RunActivation, RunIdleCallback,
         TimerExpire, DeviceInterrupt
    <3> QED BY <2>1, <3>1, Zenon DEF CallbacksQuiet
  <2>3. CASE SpawnRcuTask(c)
    <3>0. PICK a \in Stack : a = active[c]
      BY Zenon DEF TypeOK
    <3>1. /\ todo[c][a] # <<>> /\ todo' = [todo EXCEPT ![c][a] = Tail(@)]
          /\ invoked' = invoked \cup {Head(todo[c][a])}
      BY <2>3, <3>0, Zenon DEF SpawnRcuTask
    <3>2. todo \in [CPU -> [Stack -> Seq(Callbacks)]]
      BY Zenon DEF TypeOK
    <3>3. todo[c][a] \in Seq(Callbacks)
      BY <3>2, Zenon
    <3>4. Range(todo[c][a]) = {Head(todo[c][a])} \cup Range(Tail(todo[c][a]))
      BY <3>1, <3>3, HeadTail, RangeTail, Zenon
    <3>5. \A d \in CPU, s \in Stack : Range(todo'[d][s]) \subseteq Range(todo[d][s])
      <4> TAKE d \in CPU, s \in Stack
      <4>1. CASE d = c /\ s = a
        BY <4>1, <3>1, <3>2, <3>4, Zenon
      <4>2. CASE ~(d = c /\ s = a)
        <5>1. todo'[d][s] = todo[d][s]
          BY <4>2, <3>1, <3>2, Zenon
        <5> QED BY <5>1, Zenon
      <4> QED BY <4>1, <4>2, Zenon
    <3> QED BY <2>1, <3>1, <3>4, <3>5, Zenon DEF CallbacksQuiet
  <2> QED BY <2>2, <2>3, Zenon
<1> QED BY <1>1, <1>2, <1>3, Zenon

\* Where the token is, spelled out.
LEMMA OneTokenAt ==
  ASSUME OneToken, NEW t \in CPU, TokenAt(t)
  PROVE /\ HasToken(t) # TokenInFlightTo(t)
        /\ \A c \in CPU : c # t => ~HasToken(c) /\ ~TokenInFlightTo(c)
  BY Zenon DEF OneToken, TokenAt, HasToken, TokenInFlightTo

\* The invariant survives a quiet token, whatever happens to the callbacks
\* that are not yet in prev_rcu_tasks_.
LEMMA QuietKeepsWaits ==
  ASSUME RcuInv, EventsQuiet, TokenQuiet
  PROVE OneToken' /\ GenerationsOK' /\ HoldsLive' /\ WaitsBehindToken'
<1> USE DEF RcuInv
<1>1. OneToken'
  BY DEF TokenQuiet, OneToken, HasToken, TokenInFlightTo
<1>2. GenerationsOK'
  <2> SUFFICES ASSUME NEW c \in CPU
               PROVE IF HasToken(c)' THEN pending_generation'[c] = 1 - generation'[c]
                     ELSE \A s \in Stack : IsLive(c, s)' => gen'[c][s] = generation'[c]
    BY Zenon DEF GenerationsOK
  <2>1. CASE HasToken(c)
    BY <2>1, Zenon DEF TokenQuiet, GenerationsOK
  <2>2. CASE ~HasToken(c)
    BY <2>2, Zenon DEF TokenQuiet, EventsQuiet, GenerationsOK
  <2> QED BY <2>1, <2>2, Zenon
<1>3. HoldsLive'
  BY Zenon DEF EventsQuiet, HoldsLive
<1>4. WaitsBehindToken'
  <2> SUFFICES ASSUME NEW c \in CPU, NEW t \in CPU, NEW d \in CPU, NEW k \in Callbacks, NEW s \in Stack,
                      TokenAt(t)', k \in Range(prev_rcu_tasks'[c]), <<d, s>> \in holds'[k]
               PROVE /\ Dist(c, d) >= Dist(c, t)
                     /\ d = t /\ HasToken(t)' => gen'[d][s] = pending_generation'[d]
    BY DEF WaitsBehindToken
  <2>1. TokenAt(t) /\ k \in Range(prev_rcu_tasks[c]) /\ <<d, s>> \in holds[k]
    BY Zenon DEF TokenQuiet, EventsQuiet, TokenAt
  <2>2. gen'[d][s] = gen[d][s]
    BY <2>1, Zenon DEF EventsQuiet, HoldsLive
  <2> QED BY <2>1, <2>2, Zenon DEF WaitsBehindToken, TokenQuiet
<1> QED BY <1>1, <1>2, <1>3, <1>4, Zenon

\* A quiet step keeps the whole invariant.
LEMMA QuietKeeps ==
  ASSUME RcuInv, EventsQuiet, TokenQuiet, CallbacksQuiet
  PROVE RcuInv'
<1>1. OnlyCalled'
  BY Zenon DEF RcuInv, OnlyCalled, CallbacksQuiet, TokenQuiet
<1>2. GracePeriod'
  <2> SUFFICES ASSUME NEW k \in Callbacks,
                      k \in invoked' \/ \E c \in CPU, s \in Stack : k \in Range(todo'[c][s])
               PROVE holds'[k] = {}
    BY Zenon DEF GracePeriod
  <2>1. k \in invoked \/ \E c \in CPU, s \in Stack : k \in Range(todo[c][s])
    BY Zenon DEF CallbacksQuiet
  <2> QED BY <2>1, Zenon DEF RcuInv, GracePeriod, EventsQuiet
<1> QED BY <1>1, <1>2, QuietKeepsWaits, Zenon DEF RcuInv

-----------------------------------------------------------------------------
(* The steps that are not quiet.                                            *)

\* DoRcu adds a callback that waits for all live events to curr_rcu_tasks_.
LEMMA DoRcuKeeps ==
  ASSUME TypeOK, RcuInv, NEW c \in CPU, NEW k \in Callbacks, DoRcu(c, k)
  PROVE RcuInv'
<1> USE DEF ctxVars, stackVars, taskVars
<1>1. /\ holds \in [Callbacks -> SUBSET (CPU \X Stack)]
      /\ curr_rcu_tasks \in [CPU -> Seq(Callbacks)]
  BY Zenon DEF TypeOK
<1>2. /\ k \notin called /\ called' = called \cup {k}
      /\ curr_rcu_tasks' = [curr_rcu_tasks EXCEPT ![c] = Append(@, k)]
      /\ holds' = [holds EXCEPT ![k] = Live]
      /\ UNCHANGED <<status, gen, todo, ints, generation, pending_generation, prev_rcu_tasks, hook, invoked>>
  BY Zenon DEF DoRcu
<1>3. \A j \in Callbacks : j # k => holds'[j] = holds[j]
  BY <1>1, <1>2, Zenon
<1>4. holds'[k] = Live
  BY <1>1, <1>2, Zenon
<1>5. /\ k \notin invoked
      /\ \A d \in CPU : k \notin Range(prev_rcu_tasks[d]) /\ \A s \in Stack : k \notin Range(todo[d][s])
  BY <1>2, Zenon DEF RcuInv, OnlyCalled
<1>6. OneToken' /\ GenerationsOK'
  BY <1>2, Zenon DEF RcuInv, OneToken, GenerationsOK, HasToken, TokenInFlightTo, IsLive
<1>7. HoldsLive'
  <2> SUFFICES ASSUME NEW j \in Callbacks, NEW d \in CPU, NEW s \in Stack, <<d, s>> \in holds'[j]
               PROVE IsLive(d, s)'
    BY Zenon DEF HoldsLive
  <2>1. CASE j = k
    BY <1>2, <1>4, <2>1, SMTT(60) DEF Live, IsLive
  <2>2. CASE j # k
    BY <1>2, <1>3, <2>2, Zenon DEF RcuInv, HoldsLive, IsLive
  <2> QED BY <2>1, <2>2, Zenon
<1>8. OnlyCalled'
  <2> SUFFICES ASSUME NEW j \in Callbacks, j \notin called'
               PROVE /\ j \notin invoked'
                     /\ \A d \in CPU : /\ j \notin Range(curr_rcu_tasks'[d])
                                       /\ j \notin Range(prev_rcu_tasks'[d])
                                       /\ \A s \in Stack : j \notin Range(todo'[d][s])
    BY Zenon DEF OnlyCalled
  <2>1. j \notin called /\ j # k
    BY <1>2, Zenon
  <2>2. \A d \in CPU : Range(curr_rcu_tasks'[d]) \subseteq Range(curr_rcu_tasks[d]) \cup {k}
    <3> TAKE d \in CPU
    <3>1. CASE d = c
      BY <1>1, <1>2, <3>1, RangeAppend
    <3>2. CASE d # c
      <4>1. curr_rcu_tasks'[d] = curr_rcu_tasks[d]
        BY <1>1, <1>2, <3>2, Zenon
      <4> QED BY <4>1, Zenon
    <3> QED BY <3>1, <3>2, Zenon
  <2> QED BY <1>2, <2>1, <2>2, Zenon DEF RcuInv, OnlyCalled
<1>9. WaitsBehindToken'
  <2> SUFFICES ASSUME NEW b \in CPU, NEW t \in CPU, NEW d \in CPU, NEW j \in Callbacks, NEW s \in Stack,
                      TokenAt(t)', j \in Range(prev_rcu_tasks'[b]), <<d, s>> \in holds'[j]
               PROVE /\ Dist(b, d) >= Dist(b, t)
                     /\ d = t /\ HasToken(t)' => gen'[d][s] = pending_generation'[d]
    BY SMTT(60) DEF WaitsBehindToken
  <2>1. j # k /\ TokenAt(t) /\ <<d, s>> \in holds[j]
    BY <1>2, <1>3, <1>5, Zenon DEF TokenAt, HasToken, TokenInFlightTo
  <2> QED BY <1>2, <2>1, SMTT(60) DEF RcuInv, WaitsBehindToken, HasToken
<1>10. GracePeriod'
  <2> SUFFICES ASSUME NEW j \in Callbacks,
                      j \in invoked' \/ \E d \in CPU, s \in Stack : j \in Range(todo'[d][s])
               PROVE holds'[j] = {}
    BY Zenon DEF GracePeriod
  <2>1. j # k
    BY <1>2, <1>5, Zenon
  <2> QED BY <1>2, <1>3, <2>1, Zenon DEF RcuInv, GracePeriod
<1> QED BY <1>6, <1>7, <1>8, <1>9, <1>10, Zenon DEF RcuInv

\* A core that receives the token waits for the events it has: they belong to
\* the generation that becomes the pending one.
LEMMA TokenInterruptKeeps ==
  ASSUME TypeOK, RcuInv, NEW c \in CPU, ProcessTokenInterrupt(c)
  PROVE RcuInv'
<1> USE DEF ctxVars
<1>1. /\ ints \in [CPU -> SUBSET Interrupt] /\ hook \in [CPU -> {"idle", "armed", "expired"}]
      /\ generation \in [CPU -> {0, 1}] /\ pending_generation \in [CPU -> {0, 1}]
  BY Zenon DEF TypeOK
<1>2. /\ "token" \in ints[c] /\ ints' = [ints EXCEPT ![c] = @ \ {"token"}]
      /\ pending_generation' = [pending_generation EXCEPT ![c] = generation[c]]
      /\ generation' = [generation EXCEPT ![c] = 1 - @]
      /\ hook' = [hook EXCEPT ![c] = "armed"]
      /\ UNCHANGED <<status, gen, todo, curr_rcu_tasks, prev_rcu_tasks, holds, called, invoked>>
  BY Zenon DEF ProcessTokenInterrupt, ReceiveToken, StartTimer
<1>3. TokenAt(c) /\ ~HasToken(c) /\ \A d \in CPU : d # c => ~HasToken(d) /\ ~TokenInFlightTo(d)
  BY <1>2, OneTokenAt, Zenon DEF RcuInv, TokenAt, TokenInFlightTo
<1>4. /\ HasToken(c)' /\ ~TokenInFlightTo(c)'
      /\ \A d \in CPU : d # c => ~HasToken(d)' /\ ~TokenInFlightTo(d)'
  BY <1>1, <1>2, <1>3, Zenon DEF HasToken, TokenInFlightTo
<1>5. OneToken'
  BY <1>4, Zenon DEF OneToken
<1>6. GenerationsOK'
  <2>1. pending_generation'[c] = 1 - generation'[c]
    BY <1>1, <1>2
  <2>2. \A d \in CPU : d # c => generation'[d] = generation[d]
    BY <1>1, <1>2, Zenon
  <2> QED BY <1>2, <1>3, <1>4, <2>1, <2>2, Zenon DEF RcuInv, GenerationsOK, IsLive
<1>7. HoldsLive' /\ OnlyCalled' /\ GracePeriod'
  BY <1>2, Zenon DEF RcuInv, HoldsLive, OnlyCalled, GracePeriod, IsLive
<1>8. WaitsBehindToken'
  <2> SUFFICES ASSUME NEW b \in CPU, NEW t \in CPU, NEW d \in CPU, NEW k \in Callbacks, NEW s \in Stack,
                      TokenAt(t)', k \in Range(prev_rcu_tasks'[b]), <<d, s>> \in holds'[k]
               PROVE /\ Dist(b, d) >= Dist(b, t)
                     /\ d = t /\ HasToken(t)' => gen'[d][s] = pending_generation'[d]
    BY SMTT(60) DEF WaitsBehindToken
  <2>1. t = c /\ k \in Range(prev_rcu_tasks[b]) /\ <<d, s>> \in holds[k]
    BY <1>2, <1>4, Zenon DEF TokenAt
  <2>2. Dist(b, d) >= Dist(b, t)
    BY <1>3, <2>1, Zenon DEF RcuInv, WaitsBehindToken
  <2>3. ASSUME d = t PROVE gen'[d][s] = pending_generation'[d]
    <3>1. IsLive(c, s)
      BY <2>1, <2>3, Zenon DEF RcuInv, HoldsLive
    <3>2. gen[c][s] = generation[c]
      BY <1>3, <3>1, Zenon DEF RcuInv, GenerationsOK
    <3> QED BY <1>1, <1>2, <2>1, <2>3, <3>2, Zenon
  <2> QED BY <2>2, <2>3, Zenon
<1> QED BY <1>5, <1>6, <1>7, <1>8, Zenon DEF RcuInv

\* When the holder of the token finds the pending count at zero, no live event
\* of the core is in the pending generation.
LEMMA PendingOver ==
  ASSUME TypeOK, CountCoversLive, RcuInv, NEW c \in CPU, HasToken(c), GenerationComplete(c)
  PROVE \A s \in Stack : IsLive(c, s) => gen[c][s] = generation[c] /\ gen[c][s] # pending_generation[c]
<1>1. /\ gen \in [CPU -> [Stack -> {0, 1}]] /\ generation[c] \in {0, 1} /\ pending_generation[c] \in {0, 1}
  BY Zenon DEF TypeOK
<1>2. PICK p \in {0, 1} : p = pending_generation[c]
  BY <1>1, Zenon
<1>3. IsFiniteSet(LiveIn(c, p)) /\ Cardinality(LiveIn(c, p)) \in Nat
  BY LiveInFinite, Zenon
<1>4. 0 >= Cardinality(LiveIn(c, p))
  BY <1>2, Zenon DEF CountCoversLive, GenerationComplete
<1>5. LiveIn(c, p) = {}
  <2>1. Cardinality(LiveIn(c, p)) = 0
    BY <1>3, <1>4
  <2> QED BY <1>3, <2>1, FS_EmptySet, Zenon
<1>6. p = 1 - generation[c]
  BY <1>2, Zenon DEF RcuInv, GenerationsOK
<1> TAKE s \in Stack
<1>7. ASSUME IsLive(c, s) PROVE gen[c][s] # p
  BY <1>5, <1>7, Zenon DEF LiveIn, IsLive
<1> QED BY <1>1, <1>2, <1>6, <1>7, SMTT(60)

\* The token's next core is one step further from every core but the one
\* that just let go of it.
LEMMA DistNext ==
  ASSUME NEW b \in CPU, NEW c \in CPU, NEW d \in CPU, d # c, Dist(b, d) >= Dist(b, c)
  PROVE b # c /\ Dist(b, d) >= Dist(b, (c + 1) % NCpus)
<1>1. (c + 1) % NCpus = IF c + 1 = NCpus THEN 0 ELSE c + 1
  BY NextCpu, Zenon
<1> QED BY <1>1, NCpusAssumption DEF Dist, CPU

\* It starts its round at the core after c.
LEMMA DistStart ==
  ASSUME NEW c \in CPU, NEW d \in CPU
  PROVE Dist(c, d) >= Dist(c, (c + 1) % NCpus) /\ (c + 1) % NCpus \in CPU
<1>1. (c + 1) % NCpus = IF c + 1 = NCpus THEN 0 ELSE c + 1
  BY NextCpu, Zenon
<1> QED BY <1>1, NCpusAssumption DEF Dist, CPU

\* Fire() with the pending generation not over only re-arms the timer.
LEMMA FireAgainKeeps ==
  ASSUME TypeOK, RcuInv, NEW c \in CPU, Fire(c), ~GenerationComplete(c)
  PROVE RcuInv'
<1>1. hook \in [CPU -> {"idle", "armed", "expired"}]
  BY Zenon DEF TypeOK
<1>2. /\ hook[c] = "expired" /\ hook' = [hook EXCEPT ![c] = "armed"]
      /\ UNCHANGED <<status, gen, todo, ints, generation, pending_generation, curr_rcu_tasks, prev_rcu_tasks,
                     holds, called, invoked>>
  BY Zenon DEF Fire, StartTimer
<1>3. EventsQuiet /\ CallbacksQuiet
  BY <1>2, Zenon DEF EventsQuiet, CallbacksQuiet, IsLive
<1>4. TokenQuiet
  BY <1>1, <1>2, Zenon DEF TokenQuiet, HasToken, TokenInFlightTo
<1> QED BY <1>3, <1>4, QuietKeeps, Zenon

\* When a core's Fire() completes the generation, what its prev_rcu_tasks_ were
\* waiting for is over, and no other callback waits for an event of this core
\* that the token was held back for.
LEMMA RoundOver ==
  ASSUME TypeOK, CountCoversLive, RcuInv, NEW c \in CPU, HasToken(c), GenerationComplete(c)
  PROVE \A b \in CPU, d \in CPU, k \in Callbacks, s \in Stack :
          k \in Range(prev_rcu_tasks[b]) /\ <<d, s>> \in holds[k] =>
            b # c /\ Dist(b, d) >= Dist(b, (c + 1) % NCpus)
<1> TAKE b \in CPU, d \in CPU, k \in Callbacks, s \in Stack
<1> HAVE k \in Range(prev_rcu_tasks[b]) /\ <<d, s>> \in holds[k]
<1>1. TokenAt(c)
  BY Zenon DEF TokenAt
<1>2. Dist(b, d) >= Dist(b, c) /\ (d = c => gen[d][s] = pending_generation[d])
  BY <1>1, Zenon DEF RcuInv, WaitsBehindToken
<1>3. IsLive(d, s)
  BY Zenon DEF RcuInv, HoldsLive
<1>4. d # c
  BY <1>2, <1>3, PendingOver, Zenon
<1> QED BY <1>2, <1>4, DistNext, Zenon

\* Fire() with the generation over passes the token, hands over prev_rcu_tasks_
\* and makes curr_rcu_tasks_ the callbacks that wait for the next round.
LEMMA FireKeeps ==
  ASSUME TypeOK, CountCoversLive, RcuInv, NEW c \in CPU, Fire(c), GenerationComplete(c)
  PROVE RcuInv'
<1> DEFINE n == (c + 1) % NCpus
<1>0. PICK a \in Stack : a = active[c]
  BY Zenon DEF TypeOK
<1>1. /\ ints \in [CPU -> SUBSET Interrupt] /\ hook \in [CPU -> {"idle", "armed", "expired"}]
      /\ generation \in [CPU -> {0, 1}] /\ pending_generation \in [CPU -> {0, 1}]
  BY Zenon DEF TypeOK
<1>2. /\ todo \in [CPU -> [Stack -> Seq(Callbacks)]]
      /\ prev_rcu_tasks \in [CPU -> Seq(Callbacks)] /\ curr_rcu_tasks \in [CPU -> Seq(Callbacks)]
  BY Zenon DEF TypeOK
<1>3. /\ hook[c] = "expired" /\ PassToken(c)
      /\ todo' = [todo EXCEPT ![c][a] = prev_rcu_tasks[c]]
      /\ prev_rcu_tasks' = [prev_rcu_tasks EXCEPT ![c] = curr_rcu_tasks[c]]
      /\ curr_rcu_tasks' = [curr_rcu_tasks EXCEPT ![c] = <<>>]
      /\ UNCHANGED <<status, gen, holds, called, invoked>>
  BY <1>0, Zenon DEF Fire, RipeTasks
<1>4. HasToken(c) /\ TokenAt(c)
  BY <1>3, Zenon DEF HasToken, TokenAt
<1>5. ~TokenInFlightTo(c) /\ \A d \in CPU : d # c => ~HasToken(d) /\ ~TokenInFlightTo(d)
  BY <1>4, OneTokenAt, Zenon DEF RcuInv, HasToken, TokenInFlightTo
<1>6. n \in CPU /\ \A d \in CPU : Dist(c, d) >= Dist(c, n)
  BY DistStart, Zenon
<1>7. /\ NCpus > 1 => n # c
      /\ NCpus = 1 => n = c
  BY NextCpu, NCpusAssumption DEF CPU
<1>8. \A s \in Stack : IsLive(c, s) => gen[c][s] = generation[c]
  BY <1>4, PendingOver, Zenon
<1>9. \A b \in CPU, d \in CPU, k \in Callbacks, s \in Stack :
        k \in Range(prev_rcu_tasks[b]) /\ <<d, s>> \in holds[k] => b # c /\ Dist(b, d) >= Dist(b, n)
  BY <1>4, RoundOver, Zenon
<1> HIDE DEF n
<1>10. HoldsLive'
  BY <1>3, Zenon DEF RcuInv, HoldsLive, IsLive
<1>11. \A d \in CPU, s \in Stack : \/ todo'[d][s] = todo[d][s]
                                  \/ todo'[d][s] = prev_rcu_tasks[c]
  BY <1>2, <1>3, Zenon
<1>12. /\ prev_rcu_tasks'[c] = curr_rcu_tasks[c] /\ curr_rcu_tasks'[c] = <<>>
       /\ \A d \in CPU : d # c => /\ prev_rcu_tasks'[d] = prev_rcu_tasks[d]
                                  /\ curr_rcu_tasks'[d] = curr_rcu_tasks[d]
  BY <1>2, <1>3, Zenon
<1>13. OnlyCalled'
  <2> SUFFICES ASSUME NEW j \in Callbacks, j \notin called, NEW d \in CPU
               PROVE /\ j \notin invoked
                     /\ j \notin Range(curr_rcu_tasks'[d])
                     /\ j \notin Range(prev_rcu_tasks'[d])
                     /\ \A s \in Stack : j \notin Range(todo'[d][s])
    BY <1>3, <1>6, Zenon DEF OnlyCalled
  <2>1. j \notin Range(<<>>)
    BY DEF Range
  <2>2. /\ j \notin invoked
        /\ \A b \in CPU : j \notin Range(curr_rcu_tasks[b]) /\ j \notin Range(prev_rcu_tasks[b])
        /\ \A b \in CPU, s \in Stack : j \notin Range(todo[b][s])
    BY Zenon DEF RcuInv, OnlyCalled
  <2>3. j \notin Range(curr_rcu_tasks'[d]) /\ j \notin Range(prev_rcu_tasks'[d])
    BY <1>12, <2>1, <2>2, Zenon
  <2>4. \A s \in Stack : j \notin Range(todo'[d][s])
    BY <1>11, <2>2, Zenon
  <2> QED BY <2>2, <2>3, <2>4, Zenon
<1>14. GracePeriod'
  <2> SUFFICES ASSUME NEW j \in Callbacks,
                      j \in invoked \/ \E d \in CPU, s \in Stack : j \in Range(todo'[d][s])
               PROVE holds[j] = {}
    BY <1>3, Zenon DEF GracePeriod
  <2>1. CASE j \in invoked \/ \E d \in CPU, s \in Stack : j \in Range(todo[d][s])
    BY <2>1, Zenon DEF RcuInv, GracePeriod
  <2>2. CASE j \in Range(prev_rcu_tasks[c])
    <3>1. holds[j] \subseteq CPU \X Stack
      BY Zenon DEF TypeOK
    <3>2. \A d \in CPU, s \in Stack : <<d, s>> \notin holds[j]
      BY <1>9, <2>2, Zenon
    <3> QED BY <3>1, <3>2, SMTT(60)
  <2> QED BY <1>11, <2>1, <2>2, Zenon
<1>15. CASE NCpus > 1
  <2>1. /\ ints' = [ints EXCEPT ![n] = @ \cup {"token"}] /\ hook' = [hook EXCEPT ![c] = "idle"]
        /\ UNCHANGED <<generation, pending_generation>>
    BY <1>3, <1>15, SMTT(60) DEF PassToken, n
  <2>2. /\ TokenInFlightTo(n)' /\ \A d \in CPU : ~HasToken(d)'
        /\ \A d \in CPU : d # n => ~TokenInFlightTo(d)'
    BY <1>1, <1>5, <1>6, <1>7, <1>15, <2>1, Zenon DEF HasToken, TokenInFlightTo
  <2>3. OneToken'
    BY <1>6, <2>2, Zenon DEF OneToken, HasToken, TokenInFlightTo
  <2>4. GenerationsOK'
    <3> SUFFICES ASSUME NEW d \in CPU, NEW s \in Stack, IsLive(d, s)' PROVE gen'[d][s] = generation'[d]
      BY <2>2, Zenon DEF GenerationsOK
    <3>1. IsLive(d, s)
      BY <1>3, Zenon DEF IsLive
    <3>2. gen[d][s] = generation[d]
      BY <1>5, <1>8, <3>1, Zenon DEF RcuInv, GenerationsOK
    <3> QED BY <1>3, <2>1, <3>2, Zenon
  <2>5. WaitsBehindToken'
    <3> SUFFICES ASSUME NEW b \in CPU, NEW d \in CPU, NEW k \in Callbacks, NEW s \in Stack,
                        k \in Range(prev_rcu_tasks'[b]), <<d, s>> \in holds'[k]
                 PROVE Dist(b, d) >= Dist(b, n)
      BY <2>2, Zenon DEF WaitsBehindToken, TokenAt
    <3>1. CASE b = c
      BY <1>6, <3>1, Zenon
    <3>2. CASE b # c
      BY <1>3, <1>9, <1>12, <3>2, Zenon
    <3> QED BY <3>1, <3>2, Zenon
  <2> QED BY <1>10, <1>13, <1>14, <2>3, <2>4, <2>5, Zenon DEF RcuInv
<1>16. CASE NCpus = 1
  <2>0. CPU = {c}
    BY <1>16 DEF CPU
  <2>1. /\ ints' = ints /\ hook' = [hook EXCEPT ![c] = "armed"]
        /\ pending_generation' = [pending_generation EXCEPT ![c] = generation[c]]
        /\ generation' = [generation EXCEPT ![c] = 1 - @]
    BY <1>3, <1>16 DEF PassToken, ReceiveToken, StartTimer
  <2>2. HasToken(c)' /\ ~TokenInFlightTo(c)'
    BY <1>1, <1>5, <2>1, Zenon DEF HasToken, TokenInFlightTo
  <2>3. OneToken'
    BY <2>0, <2>2, Zenon DEF OneToken, HasToken, TokenInFlightTo
  <2>4. GenerationsOK'
    BY <1>1, <2>0, <2>1, <2>2, SMTT(60) DEF GenerationsOK
  <2>5. WaitsBehindToken'
    <3> SUFFICES ASSUME NEW k \in Callbacks, NEW s \in Stack, <<c, s>> \in holds'[k]
                 PROVE Dist(c, c) >= Dist(c, c) /\ gen'[c][s] = pending_generation'[c]
      BY <2>0, Zenon DEF WaitsBehindToken
    <3>1. gen[c][s] = generation[c]
      BY <1>3, <1>8, Zenon DEF RcuInv, HoldsLive
    <3>2. Dist(c, c) \in Int
      BY NCpusAssumption DEF Dist, CPU
    <3> QED BY <1>1, <1>3, <2>1, <3>1, <3>2, SMTT(60)
  <2> QED BY <1>10, <1>13, <1>14, <2>3, <2>4, <2>5, Zenon DEF RcuInv
<1> QED BY <1>15, <1>16, NCpusAssumption

-----------------------------------------------------------------------------
(* The theorems.                                                            *)

\* Main.cc boots with the token at core 0 and no callback.
LEMMA RcuInit == Init => RcuInv
<1> SUFFICES ASSUME Init PROVE RcuInv
  BY Zenon
<1>1. 0 \in CPU
  BY NCpusAssumption DEF CPU
<1>2. HasToken(0) /\ \A c \in CPU : ~TokenInFlightTo(c) /\ (c # 0 => ~HasToken(c))
  BY <1>1, Zenon DEF Init, HasToken, TokenInFlightTo
<1>3. OneToken
  BY <1>1, <1>2, Zenon DEF OneToken, HasToken, TokenInFlightTo
<1>4. GenerationsOK
  BY <1>1, <1>2, SMTT(60) DEF Init, GenerationsOK
<1>5. \A k : k \notin Range(<<>>)
  BY DEF Range
<1>6. HoldsLive /\ WaitsBehindToken /\ GracePeriod
  BY <1>5, Zenon DEF Init, HoldsLive, WaitsBehindToken, GracePeriod
<1>7. OnlyCalled
  BY <1>5, Zenon DEF Init, OnlyCalled
<1> QED BY <1>3, <1>4, <1>6, <1>7, Zenon DEF RcuInv

\* Every step keeps the invariant of the generations.
LEMMA RcuStep == IndA /\ RcuInv /\ [Next]_vars => RcuInv'
<1> SUFFICES ASSUME IndA, RcuInv, [Next]_vars PROVE RcuInv'
  BY Zenon
<1>1. TypeOK /\ StackOwnership /\ CountCoversLive
  BY Zenon DEF IndA
<1>2. CASE UNCHANGED vars
  <2>1. UNCHANGED <<status, gen, todo, ints, generation, pending_generation, curr_rcu_tasks, prev_rcu_tasks,
                    hook, holds, called, invoked>>
    BY <1>2, Zenon DEF vars, ctxVars, rcuVars
  <2>2. EventsQuiet /\ TokenQuiet /\ CallbacksQuiet
    BY <2>1, Zenon DEF EventsQuiet, TokenQuiet, CallbacksQuiet, IsLive, HasToken, TokenInFlightTo
  <2> QED BY <2>2, QuietKeeps, Zenon
<1>3. ASSUME NEW c \in CPU, NEW k \in Callbacks, DoRcu(c, k) PROVE RcuInv'
  BY <1>1, <1>3, DoRcuKeeps, Zenon
<1>4. ASSUME NEW c \in CPU, Fire(c) PROVE RcuInv'
  BY <1>1, <1>4, FireAgainKeeps, FireKeeps, Zenon
<1>5. ASSUME NEW c \in CPU, ProcessTokenInterrupt(c) PROVE RcuInv'
  BY <1>1, <1>5, TokenInterruptKeeps, Zenon
<1>6. ASSUME NEW c \in CPU,
             \/ SpawnLocalAsync(c) \/ SpawnLocal(c) \/ \E d \in CPU : SpawnRemote(c, d) \/ SendIpi(c, d)
             \/ SaveContext(c) \/ \E d \in CPU, s \in Stack : ActivateContext(c, d, s)
             \/ IdleStart(c) \/ IdleStop(c) \/ Return(c) \/ SpawnRcuTask(c) \/ ProcessTaskInterrupt(c)
             \/ \E i \in {"timer", "device"} : ProcessDeviceInterrupt(c, i)
             \/ RunTask(c) \/ RunActivation(c) \/ RunIdleCallback(c) \/ TimerExpire(c) \/ DeviceInterrupt(c)
      PROVE RcuInv'
  BY <1>1, <1>6, QuietStep, QuietKeeps, Zenon
<1> QED BY <1>2, <1>3, <1>4, <1>5, <1>6, Zenon DEF Next

\* It holds in every reachable state.
LEMMA RcuInvariant == Spec => [](IndA /\ RcuInv)
<1>1. Init => IndA /\ RcuInv
  BY IndAInit, RcuInit, Zenon
<1>2. IndA /\ RcuInv /\ [Next]_vars => (IndA /\ RcuInv)'
  BY IndAStep, RcuStep, Zenon
<1> QED BY <1>1, <1>2, PTL DEF Spec

\* ReceiveToken, PassToken and Fire keep exactly one token in the system, for
\* any number of cores.
THEOREM TokenUnique == Spec => []OneToken
<1>1. IndA /\ RcuInv => OneToken
  BY Zenon DEF RcuInv
<1> QED BY <1>1, RcuInvariant, PTL

\* The grace period of DoRcu: for any number of cores, events and callbacks,
\* Fire() hands over a callback only after every event that was alive on any
\* core when DoRcu was called has returned.
THEOREM GracePeriodHolds == Spec => []GracePeriod
<1>1. IndA /\ RcuInv => GracePeriod
  BY Zenon DEF RcuInv
<1> QED BY <1>1, RcuInvariant, PTL

-----------------------------------------------------------------------------
(* Refinement of the grace-period specification.                            *)

\* An event that begins is a reader that enters.
LEMMA GainsBegin ==
  ASSUME NEW c \in CPU, NEW t \in Stack, LiveGains(c, t)
  PROVE <<c, t>> \notin Live /\ Live' = Live \cup {<<c, t>>}
<1>1. \A d \in CPU, s \in Stack : <<d, s>> # <<c, t>> => (IsLive(d, s)' <=> IsLive(d, s))
  BY Zenon DEF LiveGains, SameEvent
<1>2. ~IsLive(c, t) /\ IsLive(c, t)'
  BY Zenon DEF LiveGains
<1> QED BY <1>1, <1>2, SMTT(60) DEF Live, IsLive

\* An event that ends is a reader that leaves.
LEMMA LosesEnd ==
  ASSUME NEW c \in CPU, NEW t \in Stack, LiveLoses(c, t)
  PROVE <<c, t>> \in Live /\ Live' = Live \ {<<c, t>>}
<1>1. \A d \in CPU, s \in Stack : <<d, s>> # <<c, t>> => (IsLive(d, s)' <=> IsLive(d, s))
  BY Zenon DEF LiveLoses, SameEvent
<1>2. IsLive(c, t) /\ ~IsLive(c, t)'
  BY Zenon DEF LiveLoses
<1> QED BY <1>1, <1>2, SMTT(60) DEF Live, IsLive

\* Otherwise the readers stay the same.
LEMMA StaysLive ==
  ASSUME LiveStays PROVE Live' = Live
  BY Zenon DEF LiveStays, SameEvent, Live, IsLive

\* Every step of the event loop is a step of the grace-period specification
\* or leaves its variables alone.
LEMMA RefinementStep == IndA /\ RcuInv /\ [Next]_vars => [Rcu!Next]_(Rcu!rcu)
<1> SUFFICES ASSUME IndA, RcuInv, [Next]_vars PROVE [Rcu!Next]_(Rcu!rcu)
  BY Zenon
<1>0. TypeOK /\ StackOwnership
  BY Zenon DEF IndA
<1>1. CASE UNCHANGED vars
  BY <1>1, Zenon DEF vars, ctxVars, rcuVars, Rcu!rcu, Live
<1>2. ASSUME NEW c \in CPU, NEW t \in Stack, LiveLoses(c, t), UNCHANGED <<called, invoked>>
      PROVE Rcu!Next
  <2>1. Rcu!End(<<c, t>>)
    BY <1>2, LosesEnd, Zenon DEF Rcu!End, LiveLoses, Ended
  <2> QED BY <2>1, Zenon DEF Rcu!Next
<1>3. ASSUME NEW c \in CPU, NEW t \in Stack, LiveGains(c, t), UNCHANGED <<holds, called, invoked>>
      PROVE Rcu!Next
  <2>1. Rcu!Begin(<<c, t>>)
    BY <1>3, GainsBegin, Zenon DEF Rcu!Begin
  <2> QED BY <2>1, Zenon DEF Rcu!Next
<1>4. ASSUME NEW c \in CPU, Return(c) PROVE Rcu!Next
  <2>1. UNCHANGED <<called, invoked>>
    BY <1>4, Zenon DEF Return
  <2> QED BY <1>0, <1>2, <1>4, <2>1, ReturnLoses, Zenon
<1>5. ASSUME NEW c \in CPU, NEW k \in Callbacks, DoRcu(c, k) PROVE Rcu!Next
  <2>1. Rcu!Call(k)
    BY <1>5, Zenon DEF DoRcu, Rcu!Call, Live, ctxVars
  <2> QED BY <2>1, Zenon DEF Rcu!Next
<1>6. ASSUME NEW c \in CPU, SpawnRcuTask(c) PROVE Rcu!Next
  <2>0. PICK a \in Stack : a = active[c]
    BY <1>0, Zenon DEF TypeOK
  <2>1. todo[c][a] \in Seq(Callbacks) /\ todo[c][a] # <<>>
    BY <1>0, <1>6, <2>0, SMTT(60) DEF SpawnRcuTask, TypeOK
  <2>2. PICK k \in Callbacks : k = Head(todo[c][a]) /\ k \in Range(todo[c][a])
    BY <2>1, HeadTail, RangeTail, Zenon
  <2>3. holds[k] = {} /\ k \in called
    BY <2>2, Zenon DEF RcuInv, GracePeriod, OnlyCalled
  <2>4. PICK t \in Stack : LiveGains(c, t)
    <3>1. status[c][active[c]] = "run" /\ SpawnSync(c)
      BY <1>6, Zenon DEF SpawnRcuTask
    <3> QED BY <1>0, <3>1, SpawnSyncGains, Zenon
  <2>5. invoked' = invoked \cup {k} /\ UNCHANGED <<holds, called>>
    BY <1>6, <2>0, <2>2, Zenon DEF SpawnRcuTask
  <2>6. CASE k \in invoked
    BY <1>3, <2>4, <2>5, <2>6, Zenon
  <2>7. CASE k \notin invoked
    <3>1. Rcu!Invoke(k, <<c, t>>)
      BY <2>3, <2>4, <2>5, <2>7, GainsBegin, Zenon DEF Rcu!Invoke
    <3> QED BY <3>1, Zenon DEF Rcu!Next
  <2> QED BY <2>6, <2>7, Zenon
<1>7. ASSUME NEW c \in CPU,
             \/ SpawnLocalAsync(c) \/ SpawnLocal(c) \/ \E d \in CPU : SpawnRemote(c, d) \/ SendIpi(c, d)
             \/ SaveContext(c) \/ \E d \in CPU, s \in Stack : ActivateContext(c, d, s)
             \/ IdleStart(c) \/ IdleStop(c) \/ Fire(c) \/ ProcessTaskInterrupt(c) \/ ProcessTokenInterrupt(c)
             \/ \E i \in {"timer", "device"} : ProcessDeviceInterrupt(c, i)
             \/ RunTask(c) \/ RunActivation(c) \/ RunIdleCallback(c) \/ TimerExpire(c) \/ DeviceInterrupt(c)
      PROVE [Rcu!Next]_(Rcu!rcu)
  <2>1. UNCHANGED <<holds, called, invoked>>
    BY <1>7, Zenon DEF SpawnLocalAsync, SpawnLocal, SpawnRemote, SendIpi, SaveContext, ActivateContext, IdleStart, IdleStop,
       Fire, ProcessTaskInterrupt, ProcessTokenInterrupt, ProcessDeviceInterrupt, RunTask, RunActivation,
       RunIdleCallback, TimerExpire, DeviceInterrupt, rcuVars
  <2>2. Next
    BY <1>7, Zenon DEF Next
  <2>3. CASE LiveStays
    BY <2>1, <2>3, StaysLive, Zenon DEF Rcu!rcu
  <2> QED BY <1>0, <1>2, <1>3, <2>1, <2>2, <2>3, EventEffect, Zenon
<1> QED BY <1>1, <1>4, <1>5, <1>6, <1>7, Zenon DEF Next

\* The event loop with its token ring implements the grace-period
\* specification that the users of DoRcu rely on.
THEOREM GracePeriodRefined == Spec => ImplementsGracePeriod
<1>1. Init => Rcu!Init
  BY Zenon DEF Init, Rcu!Init, Live
<1> QED BY <1>1, RefinementStep, RcuInvariant, PTL DEF Spec, ImplementsGracePeriod, Rcu!Spec
=============================================================================
