------------------------- MODULE EventManagerProofs -------------------------
(***************************************************************************)
(* Every step of the event loop keeps its state well typed.                *)
(***************************************************************************)
EXTENDS EventManager, SeqFacts, FiniteSetTheorems

\* The core PassToken sends to: (Cpu::GetMine() + 1) % Cpu::Count().
LEMMA NextCpu ==
  ASSUME NEW c \in CPU
  PROVE (c + 1) % NCpus = (IF c + 1 = NCpus THEN 0 ELSE c + 1)
  BY NCpusAssumption DEF CPU

IndA == TypeOK /\ StackOwnership /\ CountCoversLive

-----------------------------------------------------------------------------
(* Updates of well-typed functions are well typed.                          *)

\* Writing one core's entry.
LEMMA SetAt ==
  ASSUME NEW A, NEW B, NEW f \in [A -> B], NEW a \in A, NEW v \in B
  PROVE [f EXCEPT ![a] = v] \in [A -> B]
  BY Zenon

\* Writing the entry of one stack of one core.
LEMMA SetAt2 ==
  ASSUME NEW A, NEW B, NEW D, NEW f \in [A -> [B -> D]], NEW a \in A, NEW b \in B, NEW v \in D
  PROVE [f EXCEPT ![a][b] = v] \in [A -> [B -> D]]
  BY Zenon

\* Appending to one core's queue.
LEMMA AppendAt ==
  ASSUME NEW A, NEW T, NEW f \in [A -> Seq(T)], NEW a \in A, NEW x \in T
  PROVE [f EXCEPT ![a] = Append(@, x)] \in [A -> Seq(T)]
  OBVIOUS

\* Pushing on one core's stack of stacks.
LEMMA PushAt ==
  ASSUME NEW A, NEW T, NEW f \in [A -> Seq(T)], NEW a \in A, NEW x \in T
  PROVE [f EXCEPT ![a] = <<x>> \o @] \in [A -> Seq(T)]
<1>1. <<x>> \o f[a] \in Seq(T)
  OBVIOUS
<1> QED BY <1>1, Zenon

\* Popping one core's queue.
LEMMA PopAt ==
  ASSUME NEW A, NEW T, NEW f \in [A -> Seq(T)], NEW a \in A, f[a] # <<>>
  PROVE [f EXCEPT ![a] = Tail(@)] \in [A -> Seq(T)]
<1>1. Tail(f[a]) \in Seq(T)
  OBVIOUS
<1> QED BY <1>1, Zenon

\* Adding to and removing from one core's set of interrupts.
LEMMA AddAt ==
  ASSUME NEW A, NEW B, NEW f \in [A -> SUBSET B], NEW a \in A, NEW x \in B
  PROVE /\ [f EXCEPT ![a] = @ \cup {x}] \in [A -> SUBSET B]
        /\ [f EXCEPT ![a] = @ \ {x}] \in [A -> SUBSET B]
<1>1. f[a] \cup {x} \in SUBSET B /\ f[a] \ {x} \in SUBSET B
  BY Zenon
<1> QED BY <1>1, Zenon

\* Entering InvokeFunction keeps generation_count_ a table of naturals.
LEMMA CountUp ==
  ASSUME TypeOK, NEW c \in CPU, NEW g \in {0, 1}, Count(c, g, 1)
  PROVE generation_count' \in [CPU -> [{0, 1} -> Nat]]
<1>1. generation_count \in [CPU -> [{0, 1} -> Nat]]
  BY Zenon DEF TypeOK
<1> QED BY <1>1 DEF Count

\* AllocateStack returns a stack of the core.
LEMMA AllocatedType ==
  ASSUME TypeOK, NEW c \in CPU, CanAllocate(c)
  PROVE Allocated(c) \in Stack
<1>1. free_stacks[c] \in Seq(Stack)
  BY Zenon DEF TypeOK
<1>2. CASE free_stacks[c] # <<>>
  BY <1>1, <1>2 DEF Allocated
<1>3. CASE free_stacks[c] = <<>>
  BY <1>3, Zenon DEF Allocated, CanAllocate, Fresh
<1> QED BY <1>2, <1>3, Zenon

\* AllocateStack leaves free_stacks_ a stack of stacks.
LEMMA AllocateType ==
  ASSUME TypeOK, NEW c \in CPU, AllocateStack(c)
  PROVE free_stacks' \in [CPU -> Seq(Stack)]
<1>1. free_stacks \in [CPU -> Seq(Stack)]
  BY Zenon DEF TypeOK
<1>2. (IF free_stacks[c] = <<>> THEN free_stacks[c] ELSE Tail(free_stacks[c])) \in Seq(Stack)
  BY <1>1
<1> QED BY <1>1, <1>2, Zenon DEF AllocateStack

\* Entering InvokeFunction on the loop's stack keeps the types.
LEMMA InvokeType ==
  ASSUME TypeOK, NEW c \in CPU, InvokeInLoop(c)
  PROVE /\ status' \in [CPU -> [Stack -> Status]]
        /\ gen' \in [CPU -> [Stack -> {0, 1}]]
        /\ generation_count' \in [CPU -> [{0, 1} -> Nat]]
<1>1. active[c] \in Stack /\ generation[c] \in {0, 1} /\ "run" \in Status
  BY Zenon DEF TypeOK, Status
<1>2. status \in [CPU -> [Stack -> Status]] /\ gen \in [CPU -> [Stack -> {0, 1}]]
  BY Zenon DEF TypeOK
<1> QED BY <1>1, <1>2, SetAt2, CountUp, Zenon DEF InvokeInLoop

\* So does a synchronous spawn.
LEMMA SpawnSyncType ==
  ASSUME TypeOK, NEW c \in CPU, SpawnSync(c)
  PROVE /\ status' \in [CPU -> [Stack -> Status]]
        /\ base' \in [CPU -> [Stack -> {"loop", "sync"}]]
        /\ gen' \in [CPU -> [Stack -> {0, 1}]]
        /\ generation_count' \in [CPU -> [{0, 1} -> Nat]]
        /\ free_stacks' \in [CPU -> Seq(Stack)]
        /\ sync_contexts' \in [CPU -> Seq(Stack)]
        /\ active' \in [CPU -> Stack]
<1> DEFINE t == Allocated(c)
<1>1. t \in Stack
  BY AllocatedType, Zenon DEF SpawnSync
<1> HIDE DEF t
<1>2. active[c] \in Stack /\ generation[c] \in {0, 1}
  BY Zenon DEF TypeOK
<1>3. status' \in [CPU -> [Stack -> Status]]
  <2>1. status \in [CPU -> [Stack -> Status]]
    BY Zenon DEF TypeOK
  <2> QED BY <1>1, <1>2, <2>1, Zenon DEF SpawnSync, Status, t
<1>4. base' \in [CPU -> [Stack -> {"loop", "sync"}]]
  <2>1. base \in [CPU -> [Stack -> {"loop", "sync"}]]
    BY Zenon DEF TypeOK
  <2> QED BY <1>1, <2>1, SetAt2, Zenon DEF SpawnSync, t
<1>5. gen' \in [CPU -> [Stack -> {0, 1}]]
  <2>1. gen \in [CPU -> [Stack -> {0, 1}]]
    BY Zenon DEF TypeOK
  <2> QED BY <1>1, <1>2, <2>1, SetAt2, Zenon DEF SpawnSync, t
<1>6. generation_count' \in [CPU -> [{0, 1} -> Nat]]
  BY <1>2, CountUp, Zenon DEF SpawnSync
<1>7. free_stacks' \in [CPU -> Seq(Stack)]
  BY AllocateType, Zenon DEF SpawnSync
<1>8. sync_contexts' \in [CPU -> Seq(Stack)]
  <2>1. sync_contexts \in [CPU -> Seq(Stack)]
    BY Zenon DEF TypeOK
  <2> QED BY <1>2, <2>1, PushAt, Zenon DEF SpawnSync
<1>9. active' \in [CPU -> Stack]
  <2>1. active \in [CPU -> Stack]
    BY Zenon DEF TypeOK
  <2> QED BY <1>1, <2>1, SetAt, Zenon DEF SpawnSync, t
<1> QED BY <1>3, <1>4, <1>5, <1>6, <1>7, <1>8, <1>9, Zenon

\* AddRemoteTask keeps the remote queues and the announced IPIs well typed.
LEMMA AddRemoteType ==
  ASSUME TypeOK, NEW c \in CPU, NEW d \in CPU, NEW t \in Task, AddRemoteTask(c, d, t)
  PROVE remote' \in [CPU -> Seq(Task)] /\ notify' \in [CPU -> SUBSET CPU]
<1>1. remote \in [CPU -> Seq(Task)] /\ notify \in [CPU -> SUBSET CPU] /\ {d} \in SUBSET CPU
  BY Zenon DEF TypeOK
<1> QED BY <1>1, AppendAt, SetAt, Zenon DEF AddRemoteTask

\* ReceiveToken keeps the generations modulo 2 and arms the hook.
LEMMA ReceiveTokenType ==
  ASSUME TypeOK, NEW c \in CPU, ReceiveToken(c)
  PROVE /\ pending_generation' \in [CPU -> {0, 1}]
        /\ generation' \in [CPU -> {0, 1}]
        /\ hook' \in [CPU -> {"idle", "armed", "expired"}]
<1>1. /\ pending_generation \in [CPU -> {0, 1}] /\ generation \in [CPU -> {0, 1}]
      /\ hook \in [CPU -> {"idle", "armed", "expired"}]
  BY Zenon DEF TypeOK
<1> QED BY <1>1 DEF ReceiveToken, StartTimer

-----------------------------------------------------------------------------
(* Cardinalities of the sets of live events.                                *)

\* A core has finitely many live events in a generation.
LEMMA LiveInFinite ==
  ASSUME NEW c, NEW g
  PROVE IsFiniteSet(LiveIn(c, g)) /\ Cardinality(LiveIn(c, g)) \in Nat
<1>1. LiveIn(c, g) \subseteq Stack
  BY Zenon DEF LiveIn
<1>2. IsFiniteSet(LiveIn(c, g))
  BY <1>1, StackAssumption, FS_Subset, Zenon
<1> QED BY <1>2, FS_CardinalityType, Zenon

\* An event that is about to return has been counted.
LEMMA CountPositive ==
  ASSUME TypeOK, CountCoversLive, NEW c \in CPU, NEW s \in Stack, status[c][s] \in LiveStatus
  PROVE generation_count[c][gen[c][s]] \in Nat \ {0}
<1> DEFINE g == gen[c][s]
<1>1. g \in {0, 1} /\ generation_count[c][g] \in Nat
  BY DEF TypeOK
<1>2. s \in LiveIn(c, g)
  BY Zenon DEF LiveIn
<1>3. Cardinality(LiveIn(c, g)) # 0
  BY <1>2, LiveInFinite, FS_EmptySet, Zenon
<1>4. generation_count[c][g] >= Cardinality(LiveIn(c, g))
  BY <1>1, Zenon DEF CountCoversLive
<1> QED BY <1>1, <1>3, <1>4, LiveInFinite

\* Leaving InvokeFunction does not take a counter below zero: the returning
\* event is live and counted.
LEMMA CountDown ==
  ASSUME TypeOK, CountCoversLive, NEW c \in CPU, NEW s \in Stack, status[c][s] \in LiveStatus,
         Count(c, gen[c][s], -1)
  PROVE generation_count' \in [CPU -> [{0, 1} -> Nat]]
<1>1. generation_count \in [CPU -> [{0, 1} -> Nat]] /\ gen[c][s] \in {0, 1}
  BY DEF TypeOK
<1>2. generation_count[c][gen[c][s]] - 1 \in Nat
  BY CountPositive
<1>3. generation_count' = [generation_count EXCEPT ![c][gen[c][s]] = generation_count[c][gen[c][s]] - 1]
  BY <1>1, Zenon DEF Count
<1> QED BY <1>1, <1>2, <1>3, SetAt2, Zenon

-----------------------------------------------------------------------------
(* Every action keeps the types.                                            *)

\* Every step keeps the types; only Return needs more than the types, for
\* the decrement of generation_count_.
LEMMA TypeStep ==
  ASSUME TypeOK, CountCoversLive, Next
  PROVE TypeOK'
<1> USE DEF ctxVars, stackVars, taskVars, rcuVars
<1>a. /\ tasks \in [CPU -> Seq(Task)] /\ remote \in [CPU -> Seq(Task)] /\ NewEvent \in Task
      /\ Stack \subseteq Task /\ notify \in [CPU -> SUBSET CPU] /\ ints \in [CPU -> SUBSET Interrupt]
  BY Zenon DEF TypeOK, Task
<1>b. /\ status \in [CPU -> [Stack -> Status]] /\ base \in [CPU -> [Stack -> {"loop", "sync"}]]
      /\ todo \in [CPU -> [Stack -> Seq(Callbacks)]] /\ in_timer \in [CPU -> SUBSET Stack]
  BY Zenon DEF TypeOK
<1>c. /\ active \in [CPU -> Stack] /\ event_stack \in [CPU -> Stack]
      /\ sync_contexts \in [CPU -> Seq(Stack)] /\ free_stacks \in [CPU -> Seq(Stack)]
  BY Zenon DEF TypeOK
<1>d. /\ hook \in [CPU -> {"idle", "armed", "expired"}] /\ idle_callback \in [CPU -> BOOLEAN]
      /\ spawns \in Nat /\ blocks \in Nat /\ holds \in [Callbacks -> SUBSET (CPU \X Stack)]
  BY Zenon DEF TypeOK
<1>e. /\ curr_rcu_tasks \in [CPU -> Seq(Callbacks)] /\ prev_rcu_tasks \in [CPU -> Seq(Callbacks)]
      /\ called \in SUBSET Callbacks /\ invoked \in SUBSET Callbacks
  BY Zenon DEF TypeOK
<1>1. ASSUME NEW c \in CPU, SpawnLocalAsync(c) PROVE TypeOK'
  <2>1. tasks' \in [CPU -> Seq(Task)] /\ spawns' \in Nat
    BY <1>1, <1>a, <1>d, AppendAt DEF SpawnLocalAsync
  <2> QED BY <1>1, <2>1, Zenon DEF SpawnLocalAsync, TypeOK
<1>2. ASSUME NEW c \in CPU, SpawnLocal(c) PROVE TypeOK'
  <2>1. spawns' \in Nat /\ SpawnSync(c)
    BY <1>2, <1>d DEF SpawnLocal
  <2> QED BY <1>2, <2>1, SpawnSyncType, Zenon DEF SpawnLocal, TypeOK
<1>3. ASSUME NEW c \in CPU, NEW d \in CPU, SpawnRemote(c, d) PROVE TypeOK'
  <2>1. spawns' \in Nat /\ AddRemoteTask(c, d, NewEvent)
    BY <1>3, <1>d DEF SpawnRemote
  <2>2. remote' \in [CPU -> Seq(Task)] /\ notify' \in [CPU -> SUBSET CPU]
    BY <2>1, <1>a, AddRemoteType, Zenon
  <2> QED BY <1>3, <2>1, <2>2, Zenon DEF SpawnRemote, TypeOK
<1>4. ASSUME NEW c \in CPU, NEW d \in CPU, SendIpi(c, d) PROVE TypeOK'
  <2>1. "task" \in Interrupt
    BY Zenon DEF Interrupt
  <2>2. notify' \in [CPU -> SUBSET CPU] /\ ints' \in [CPU -> SUBSET Interrupt]
    BY <1>4, <1>a, <2>1, SetAt, AddAt, Zenon DEF SendIpi
  <2> QED BY <1>4, <2>2, Zenon DEF SendIpi, TypeOK
<1>6. ASSUME NEW c \in CPU, NEW d \in CPU, NEW s \in Stack, ActivateContext(c, d, s) PROVE TypeOK'
  <2>1. status' \in [CPU -> [Stack -> Status]]
    BY <1>6, <1>b, SetAt2, Zenon DEF ActivateContext, Status
  <2>2. CASE d = c /\ tasks' = [tasks EXCEPT ![c] = Append(@, s)] /\ UNCHANGED <<remote, notify>>
    <3>1. tasks' \in [CPU -> Seq(Task)]
      BY <2>2, <1>a, AppendAt, Zenon
    <3> QED BY <1>6, <2>1, <2>2, <3>1, Zenon DEF ActivateContext, TypeOK
  <2>3. CASE AddRemoteTask(c, d, s) /\ UNCHANGED tasks
    <3>1. remote' \in [CPU -> Seq(Task)] /\ notify' \in [CPU -> SUBSET CPU]
      BY <2>3, <1>a, AddRemoteType, Zenon
    <3> QED BY <1>6, <2>1, <2>3, <3>1, Zenon DEF ActivateContext, TypeOK
  <2> QED BY <1>6, <2>2, <2>3, Zenon DEF ActivateContext
<1>7. ASSUME NEW c \in CPU, IdleStart(c) \/ IdleStop(c) PROVE TypeOK'
  <2>1. idle_callback' \in [CPU -> BOOLEAN]
    BY <1>7, <1>d, SetAt, Zenon DEF IdleStart, IdleStop
  <2> QED BY <1>7, <2>1, Zenon DEF IdleStart, IdleStop, TypeOK
<1>8. ASSUME NEW c \in CPU, NEW k \in Callbacks, DoRcu(c, k) PROVE TypeOK'
  <2>1. Live \in SUBSET (CPU \X Stack)
    BY Zenon DEF Live
  <2>2. curr_rcu_tasks' \in [CPU -> Seq(Callbacks)] /\ called' \in SUBSET Callbacks
    BY <1>8, <1>e, AppendAt, Zenon DEF DoRcu
  <2>3. holds' \in [Callbacks -> SUBSET (CPU \X Stack)]
    BY <1>8, <1>d, <2>1, SetAt, Zenon DEF DoRcu
  <2> QED BY <1>8, <2>2, <2>3, Zenon DEF DoRcu, TypeOK
<1>5. ASSUME NEW c \in CPU, SaveContext(c) PROVE TypeOK'
  <2>1. blocks' \in Nat
    BY <1>5, <1>d, SMTT(60) DEF SaveContext
  <2>2. CASE sync_contexts[c] = <<>>
    <3> DEFINE t == Allocated(c)
    <3>1. t \in Stack /\ free_stacks' \in [CPU -> Seq(Stack)]
      BY <1>5, <2>2, AllocatedType, AllocateType, Zenon DEF SaveContext
    <3>e. /\ status' = [status EXCEPT ![c][active[c]] = "blocked", ![c][t] = "loop"]
          /\ base' = [base EXCEPT ![c][t] = "loop"]
          /\ active' = [active EXCEPT ![c] = t]
          /\ event_stack' = [event_stack EXCEPT ![c] = t]
          /\ sync_contexts' = sync_contexts
      BY <1>5, <2>2, Zenon DEF SaveContext, SetEventStack
    <3> HIDE DEF t
    <3>2. status' \in [CPU -> [Stack -> Status]]
      BY <3>e, <3>1, <1>b, <1>c, Zenon DEF Status
    <3>3. base' \in [CPU -> [Stack -> {"loop", "sync"}]]
      BY <3>e, <3>1, <1>b, SetAt2, Zenon
    <3>4. active' \in [CPU -> Stack] /\ event_stack' \in [CPU -> Stack] /\ sync_contexts' = sync_contexts
      BY <3>e, <3>1, <1>c, SetAt, Zenon
    <3> QED BY <1>5, <2>1, <3>1, <3>2, <3>3, <3>4, Zenon DEF SaveContext, TypeOK
  <2>3. CASE sync_contexts[c] # <<>>
    <3> DEFINE h == Head(sync_contexts[c])
    <3>1. h \in Stack
      BY <2>3, <1>c, HeadTail, Zenon
    <3>e. /\ status' = [status EXCEPT ![c][active[c]] = "blocked", ![c][h] = "run"]
          /\ active' = [active EXCEPT ![c] = h]
          /\ sync_contexts' = [sync_contexts EXCEPT ![c] = Tail(@)]
      BY <1>5, <2>3, Zenon DEF SaveContext
    <3> HIDE DEF h
    <3>2. status' \in [CPU -> [Stack -> Status]]
      BY <3>e, <3>1, <1>b, <1>c, Zenon DEF Status
    <3>3. active' \in [CPU -> Stack] /\ sync_contexts' \in [CPU -> Seq(Stack)]
      BY <3>e, <2>3, <3>1, <1>c, SetAt, PopAt, Zenon
    <3>4. UNCHANGED <<base, event_stack, free_stacks>>
      BY <1>5, <2>3, Zenon DEF SaveContext
    <3> QED BY <1>5, <2>1, <3>2, <3>3, <3>4, Zenon DEF SaveContext, TypeOK
  <2> QED BY <2>2, <2>3, Zenon
<1>9. ASSUME NEW c \in CPU, Return(c) PROVE TypeOK'
  <2> DEFINE s == active[c]
  <2>1. s \in Stack /\ status[c][s] = "run" /\ Count(c, gen[c][s], -1) /\ Ended(c, s)
    BY <1>9, <1>c, Zenon DEF Return, Running
  <2>2. generation_count' \in [CPU -> [{0, 1} -> Nat]]
    BY <2>1, CountDown, Zenon DEF LiveStatus
  <2>3. holds' \in [Callbacks -> SUBSET (CPU \X Stack)]
    BY <2>1, <1>d, Zenon DEF Ended
  <2>4. in_timer' \in [CPU -> SUBSET Stack]
    BY <1>9, <2>1, <1>b, AddAt, Zenon DEF Return
  <2>5. CASE base[c][s] = "loop" /\ UNCHANGED <<base, stackVars>>
             /\ status' = [status EXCEPT ![c][s] = "loop"]
    <3>1. status' \in [CPU -> [Stack -> Status]]
      BY <2>1, <2>5, <1>b, SetAt2, Zenon DEF Status
    <3> QED BY <1>9, <2>2, <2>3, <2>4, <2>5, <3>1, Zenon DEF Return, TypeOK
  <2>6. CASE /\ status' = [status EXCEPT ![c][s] = "loop"]
             /\ base' = [base EXCEPT ![c][s] = "loop"]
             /\ SetEventStack(c, s)
             /\ UNCHANGED <<active, sync_contexts, free_stacks>>
    <3>1. status' \in [CPU -> [Stack -> Status]] /\ base' \in [CPU -> [Stack -> {"loop", "sync"}]]
      BY <2>1, <2>6, <1>b, SetAt2, Zenon DEF Status
    <3>2. event_stack' \in [CPU -> Stack]
      BY <2>1, <2>6, <1>c, SetAt, Zenon DEF SetEventStack
    <3> QED BY <1>9, <2>2, <2>3, <2>4, <2>6, <3>1, <3>2, Zenon DEF Return, TypeOK
  <2>7. CASE /\ sync_contexts[c] # <<>>
             /\ FreeStack(c, s)
             /\ status' = [status EXCEPT ![c][s] = "free", ![c][Head(sync_contexts[c])] = "run"]
             /\ active' = [active EXCEPT ![c] = Head(sync_contexts[c])]
             /\ sync_contexts' = [sync_contexts EXCEPT ![c] = Tail(@)]
             /\ UNCHANGED <<base, event_stack>>
    <3>1. Head(sync_contexts[c]) \in Stack
      BY <2>7, <1>c, HeadTail, Zenon
    <3>2. status' \in [CPU -> [Stack -> Status]]
      BY <2>1, <2>7, <3>1, <1>b, Zenon DEF Status
    <3>3. active' \in [CPU -> Stack] /\ sync_contexts' \in [CPU -> Seq(Stack)]
      BY <2>7, <3>1, <1>c, SetAt, PopAt, Zenon
    <3>4. free_stacks' \in [CPU -> Seq(Stack)]
      BY <2>1, <2>7, <1>c, PushAt, Zenon DEF FreeStack
    <3> QED BY <1>9, <2>2, <2>3, <2>4, <2>7, <3>2, <3>3, <3>4, Zenon DEF Return, TypeOK
  <2> QED BY <1>9, <2>5, <2>6, <2>7, Zenon DEF Return
<1>10. ASSUME NEW c \in CPU, Fire(c) PROVE TypeOK'
  <2>1. CASE GenerationComplete(c)
    <3>e. /\ todo' = [todo EXCEPT ![c][active[c]] = prev_rcu_tasks[c]]
          /\ prev_rcu_tasks' = [prev_rcu_tasks EXCEPT ![c] = curr_rcu_tasks[c]]
          /\ curr_rcu_tasks' = [curr_rcu_tasks EXCEPT ![c] = <<>>]
      BY <1>10, <2>1, Zenon DEF Fire, RipeTasks
    <3>1. todo' \in [CPU -> [Stack -> Seq(Callbacks)]]
      BY <3>e, <1>b, <1>c, <1>e, SetAt2, Zenon
    <3>2. prev_rcu_tasks' \in [CPU -> Seq(Callbacks)] /\ curr_rcu_tasks' \in [CPU -> Seq(Callbacks)]
      <4>1. <<>> \in Seq(Callbacks)
        OBVIOUS
      <4> QED BY <3>e, <4>1, <1>e, SetAt, Zenon
    <3>3. /\ ints' \in [CPU -> SUBSET Interrupt]
          /\ hook' \in [CPU -> {"idle", "armed", "expired"}]
          /\ generation' \in [CPU -> {0, 1}] /\ pending_generation' \in [CPU -> {0, 1}]
      <4>1. PassToken(c)
        BY <1>10, <2>1, Zenon DEF Fire
      <4>2. CASE NCpus = 1
        <5>1. ReceiveToken(c) /\ ints' = ints
          BY <4>1, <4>2 DEF PassToken
        <5> QED BY <5>1, <1>a, ReceiveTokenType, Zenon
      <4>3. CASE NCpus # 1
        <5>1. (c + 1) % NCpus \in CPU /\ "token" \in Interrupt
          BY NextCpu, NCpusAssumption DEF CPU, Interrupt
        <5>e. ints' = [ints EXCEPT ![(c + 1) % NCpus] = @ \cup {"token"}]
          BY <4>1, <4>3, Zenon DEF PassToken
        <5>2. ints' \in [CPU -> SUBSET Interrupt]
          BY <5>e, <5>1, <1>a, AddAt
        <5>3. hook' \in [CPU -> {"idle", "armed", "expired"}]
          BY <4>1, <4>3, <1>d, SetAt, Zenon DEF PassToken
        <5>4. generation' = generation /\ pending_generation' = pending_generation
          BY <4>1, <4>3, Zenon DEF PassToken
        <5> QED BY <5>2, <5>3, <5>4, Zenon DEF TypeOK
      <4> QED BY <4>2, <4>3, Zenon
    <3> QED BY <1>10, <3>1, <3>2, <3>3, Zenon DEF Fire, TypeOK
  <2>2. CASE ~GenerationComplete(c)
    <3>1. hook' \in [CPU -> {"idle", "armed", "expired"}]
      BY <1>10, <2>2, <1>d, SetAt, Zenon DEF Fire, StartTimer
    <3>2. UNCHANGED <<ints, generation, pending_generation, todo, prev_rcu_tasks, curr_rcu_tasks>>
      BY <1>10, <2>2, Zenon DEF Fire
    <3> QED BY <1>10, <3>1, <3>2, Zenon DEF Fire, TypeOK
  <2> QED BY <2>1, <2>2, Zenon
<1>11. ASSUME NEW c \in CPU, SpawnRcuTask(c) PROVE TypeOK'
  <2>1. SpawnSync(c) /\ todo[c][active[c]] # <<>> /\ active[c] \in Stack
    BY <1>11, <1>c, Zenon DEF SpawnRcuTask
  <2>2. todo[c][active[c]] \in Seq(Callbacks)
    BY <2>1, <1>b, Zenon
  <2>3. Tail(todo[c][active[c]]) \in Seq(Callbacks) /\ Head(todo[c][active[c]]) \in Callbacks
    BY <2>1, <2>2, HeadTail, Zenon
  <2>4. todo' \in [CPU -> [Stack -> Seq(Callbacks)]]
    BY <1>11, <2>1, <2>3, <1>b, SetAt2, Zenon DEF SpawnRcuTask
  <2>5. invoked' \in SUBSET Callbacks
    BY <1>11, <2>3, <1>e, Zenon DEF SpawnRcuTask
  <2> QED BY <1>11, <2>1, <2>4, <2>5, SpawnSyncType, Zenon DEF SpawnRcuTask, TypeOK
<1>12. ASSUME NEW c \in CPU, ProcessTaskInterrupt(c) PROVE TypeOK'
  <2>1. tasks[c] \o remote[c] \in Seq(Task) /\ <<>> \in Seq(Task) /\ ints[c] \ {"task"} \in SUBSET Interrupt
    BY <1>a
  <2>2. /\ tasks' \in [CPU -> Seq(Task)] /\ remote' \in [CPU -> Seq(Task)]
        /\ ints' \in [CPU -> SUBSET Interrupt]
    BY <1>12, <1>a, <2>1, SetAt, Zenon DEF ProcessTaskInterrupt
  <2> QED BY <1>12, <2>2, Zenon DEF ProcessTaskInterrupt, TypeOK
<1>13. ASSUME NEW c \in CPU, ProcessTokenInterrupt(c) PROVE TypeOK'
  <2>1. ints' \in [CPU -> SUBSET Interrupt]
    BY <1>13, <1>a, Zenon DEF ProcessTokenInterrupt
  <2>2. ReceiveToken(c)
    BY <1>13, Zenon DEF ProcessTokenInterrupt
  <2> QED BY <1>13, <2>1, <2>2, ReceiveTokenType, Zenon DEF ProcessTokenInterrupt, TypeOK
<1>14. ASSUME NEW c \in CPU, NEW i \in {"timer", "device"}, ProcessDeviceInterrupt(c, i) PROVE TypeOK'
  <2>1. ints' \in [CPU -> SUBSET Interrupt] /\ in_timer' \in [CPU -> SUBSET Stack]
    BY <1>14, <1>a, <1>b, <1>c, SMTT(60) DEF ProcessDeviceInterrupt
  <2>2. InvokeInLoop(c)
    BY <1>14, Zenon DEF ProcessDeviceInterrupt
  <2> QED BY <1>14, <2>1, <2>2, InvokeType, Zenon DEF ProcessDeviceInterrupt, TypeOK
<1>15. ASSUME NEW c \in CPU, RunTask(c) PROVE TypeOK'
  <2>1. tasks' \in [CPU -> Seq(Task)]
    BY <1>15, <1>a, PopAt, Zenon DEF RunTask
  <2>2. InvokeInLoop(c)
    BY <1>15, Zenon DEF RunTask
  <2> QED BY <1>15, <2>1, <2>2, InvokeType, Zenon DEF RunTask, TypeOK
<1>16. ASSUME NEW c \in CPU, RunActivation(c) PROVE TypeOK'
  <2> DEFINE s == Head(tasks[c])
  <2>1. s \in Stack /\ active[c] \in Stack /\ generation[c] \in {0, 1}
    <3>1. tasks[c] \in Seq(Task) /\ tasks[c] # <<>> /\ s # NewEvent
      BY <1>16, <1>a, Zenon DEF RunActivation
    <3>2. s \in Task
      BY <3>1, HeadTail, Zenon
    <3> QED BY <3>1, <3>2, Zenon DEF Task, TypeOK
  <2>2. tasks' \in [CPU -> Seq(Task)]
    BY <1>16, <1>a, PopAt, Zenon DEF RunActivation
  <2>3. generation_count' \in [CPU -> [{0, 1} -> Nat]]
    BY <1>16, <2>1, CountUp, Zenon DEF RunActivation
  <2>4. free_stacks' \in [CPU -> Seq(Stack)]
    BY <1>16, <2>1, <1>c, PushAt, Zenon DEF RunActivation, FreeStack
  <2>5. status' = [status EXCEPT ![c][active[c]] = "free", ![c][s] = "run"]
    BY <1>16, Zenon DEF RunActivation
  <2>6. active' \in [CPU -> Stack] /\ event_stack' \in [CPU -> Stack]
    BY <1>16, <2>1, <1>c, SetAt, Zenon DEF RunActivation, SetEventStack
  <2> HIDE DEF s
  <2>7. status' \in [CPU -> [Stack -> Status]]
    BY <2>1, <2>5, <1>b, Zenon DEF Status
  <2> QED BY <1>16, <2>2, <2>3, <2>4, <2>6, <2>7, Zenon DEF RunActivation, TypeOK
<1>17. ASSUME NEW c \in CPU, RunIdleCallback(c) PROVE TypeOK'
  <2>1. InvokeInLoop(c)
    BY <1>17, Zenon DEF RunIdleCallback
  <2> QED BY <1>17, <2>1, InvokeType, Zenon DEF RunIdleCallback, TypeOK
<1>18. ASSUME NEW c \in CPU, TimerExpire(c) PROVE TypeOK'
  <2>1. "timer" \in Interrupt
    BY Zenon DEF Interrupt
  <2>2. ints' \in [CPU -> SUBSET Interrupt] /\ hook' \in [CPU -> {"idle", "armed", "expired"}]
    BY <1>18, <2>1, <1>a, <1>d, AddAt, SetAt, Zenon DEF TimerExpire
  <2> QED BY <1>18, <2>2, Zenon DEF TimerExpire, TypeOK
<1>19. ASSUME NEW c \in CPU, DeviceInterrupt(c) PROVE TypeOK'
  <2>1. "device" \in Interrupt
    BY Zenon DEF Interrupt
  <2>2. ints' \in [CPU -> SUBSET Interrupt] /\ spawns' \in Nat
    BY <1>19, <2>1, <1>a, <1>d, AddAt, SMTT(60) DEF DeviceInterrupt
  <2> QED BY <1>19, <2>2, Zenon DEF DeviceInterrupt, TypeOK
<1> QED BY <1>1, <1>2, <1>3, <1>4, <1>5, <1>6, <1>7, <1>8, <1>9, <1>10, <1>11, <1>12, <1>13,
           <1>14, <1>15, <1>16, <1>17, <1>18, <1>19 DEF Next
=============================================================================
