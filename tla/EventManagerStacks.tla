------------------------- MODULE EventManagerStacks -------------------------
(***************************************************************************)
(* Stack ownership and the counting of live events are invariants of the   *)
(* EventManager.                                                           *)
(***************************************************************************)
EXTENDS EventManagerProofs

\* The two ways a queue is said to be free of repetitions, as Distinct.
LEMMA NoDupIsDistinct ==
  ASSUME NEW q
  PROVE /\ NoDuplicates(q) <=> Distinct(q, {})
        /\ ActivatesOnce(q) <=> Distinct(q, {NewEvent})
  BY Zenon DEF NoDuplicates, ActivatesOnce, Distinct

\* What AllocateStack returns was free or never used, and leaves the list.
LEMMA AllocateOwn ==
  ASSUME TypeOK, NEW c \in CPU, OwnsStacks(c), CanAllocate(c), AllocateStack(c)
  PROVE /\ Allocated(c) \in Stack
        /\ status[c][Allocated(c)] \in {"free", "unused"}
        /\ NoDuplicates(free_stacks'[c])
        /\ Range(free_stacks'[c]) = Range(free_stacks[c]) \ {Allocated(c)}
        /\ \A d \in CPU \ {c} : free_stacks'[d] = free_stacks[d]
<1> DEFINE q == free_stacks[c]
           t == Allocated(c)
<1>1. q \in Seq(Stack) /\ free_stacks \in [CPU -> Seq(Stack)] /\ t \in Stack
  BY AllocatedType, Zenon DEF TypeOK
<1>2. free_stacks'[c] = IF q = <<>> THEN q ELSE Tail(q)
  BY <1>1, Zenon DEF AllocateStack
<1>3. \A d \in CPU \ {c} : free_stacks'[d] = free_stacks[d]
  BY <1>1, Zenon DEF AllocateStack
<1>4. Distinct(q, {}) /\ \A s \in Stack : status[c][s] = "free" <=> s \in Range(q)
  BY NoDupIsDistinct, Zenon DEF OwnsStacks
<1>5. CASE q # <<>>
  <2>1. t = Head(q) /\ free_stacks'[c] = Tail(q)
    BY <1>2, <1>5, Zenon DEF Allocated
  <2> HIDE DEF q, t
  <2>2. Distinct(Tail(q), {}) /\ Head(q) \notin Range(Tail(q))
    BY <1>1, <1>4, <1>5, DistinctTail
  <2>3. Range(q) = Range(Tail(q)) \cup {Head(q)}
    BY <1>1, <1>5, RangeTail, Zenon
  <2>4. status[c][t] = "free"
    BY <1>1, <1>4, <2>1, <2>3, Zenon
  <2>5. NoDuplicates(free_stacks'[c])
    BY <2>1, <2>2, NoDupIsDistinct, Zenon
  <2> QED BY <1>1, <1>3, <2>1, <2>2, <2>3, <2>4, <2>5, Zenon DEF q, t
<1>6. CASE q = <<>>
  <2>1. t \in Fresh(c)
    BY <1>6, Zenon DEF Allocated, CanAllocate, Fresh
  <2>2. status[c][t] = "unused"
    BY <2>1, Zenon DEF Fresh
  <2> HIDE DEF q, t
  <2>3. t \notin Range(q)
    BY <1>1, <1>4, <2>2, Zenon
  <2>4. free_stacks'[c] = q /\ NoDuplicates(free_stacks'[c])
    BY <1>2, <1>4, <1>6, NoDupIsDistinct, Zenon
  <2> QED BY <1>1, <1>3, <2>2, <2>3, <2>4, Zenon DEF q, t
<1> QED BY <1>5, <1>6, Zenon

\* FreeStack of a stack that is not free.
LEMMA FreeOwn ==
  ASSUME TypeOK, NEW c \in CPU, OwnsStacks(c), NEW s \in Stack, status[c][s] # "free", FreeStack(c, s)
  PROVE /\ NoDuplicates(free_stacks'[c])
        /\ Range(free_stacks'[c]) = Range(free_stacks[c]) \cup {s}
        /\ \A d \in CPU \ {c} : free_stacks'[d] = free_stacks[d]
<1> DEFINE q == free_stacks[c]
<1>1. q \in Seq(Stack) /\ free_stacks \in [CPU -> Seq(Stack)]
  BY Zenon DEF TypeOK
<1>2. free_stacks'[c] = <<s>> \o q /\ \A d \in CPU \ {c} : free_stacks'[d] = free_stacks[d]
  BY <1>1, Zenon DEF FreeStack
<1>3. Distinct(q, {}) /\ s \notin Range(q)
  BY NoDupIsDistinct, Zenon DEF OwnsStacks
<1> HIDE DEF q
<1>4. Distinct(<<s>> \o q, {}) /\ Range(<<s>> \o q) = Range(q) \cup {s}
  BY <1>1, <1>3, DistinctCons, RangeCons, Zenon
<1> QED BY <1>2, <1>4, NoDupIsDistinct, Zenon DEF q

\* The top of sync_contexts_ is a suspended spawner, and popping removes it.
LEMMA PopParent ==
  ASSUME TypeOK, NEW c \in CPU, OwnsStacks(c), sync_contexts[c] # <<>>
  PROVE /\ Head(sync_contexts[c]) \in Stack
        /\ status[c][Head(sync_contexts[c])] = "parent"
        /\ NoDuplicates(Tail(sync_contexts[c]))
        /\ Range(Tail(sync_contexts[c])) = Range(sync_contexts[c]) \ {Head(sync_contexts[c])}
<1> DEFINE q == sync_contexts[c]
<1>1. q \in Seq(Stack) /\ q # <<>>
  BY Zenon DEF TypeOK
<1>2. Distinct(q, {}) /\ \A s \in Stack : status[c][s] = "parent" <=> s \in Range(q)
  BY NoDupIsDistinct, Zenon DEF OwnsStacks
<1> HIDE DEF q
<1>3. Distinct(Tail(q), {}) /\ Head(q) \notin Range(Tail(q))
  BY <1>1, <1>2, DistinctTail
<1>4. Range(q) = Range(Tail(q)) \cup {Head(q)} /\ Head(q) \in Stack
  BY <1>1, RangeTail, HeadTail, Zenon
<1>5. status[c][Head(q)] = "parent"
  BY <1>2, <1>4, Zenon
<1>6. NoDuplicates(Tail(q))
  BY <1>3, NoDupIsDistinct, Zenon
<1> QED BY <1>3, <1>4, <1>5, <1>6, Zenon DEF q

\* Suspending the running event pushes a context that was not on the stack.
LEMMA PushParent ==
  ASSUME TypeOK, NEW c \in CPU, OwnsStacks(c), NEW s \in Stack, status[c][s] # "parent"
  PROVE /\ NoDuplicates(<<s>> \o sync_contexts[c])
        /\ Range(<<s>> \o sync_contexts[c]) = Range(sync_contexts[c]) \cup {s}
<1> DEFINE q == sync_contexts[c]
<1>1. q \in Seq(Stack)
  BY Zenon DEF TypeOK
<1>2. Distinct(q, {}) /\ s \notin Range(q)
  BY NoDupIsDistinct, Zenon DEF OwnsStacks
<1> HIDE DEF q
<1>3. Distinct(<<s>> \o q, {}) /\ Range(<<s>> \o q) = Range(q) \cup {s}
  BY <1>1, <1>2, DistinctCons, RangeCons, Zenon
<1> QED BY <1>3, NoDupIsDistinct, Zenon DEF q

\* A task that is taken leaves the list, and an activation is not queued twice.
LEMMA PopTask ==
  ASSUME TypeOK, NEW c \in CPU, OwnsStacks(c), tasks[c] # <<>>
  PROVE /\ Head(tasks[c]) \in Task
        /\ ActivatesOnce(Tail(tasks[c]))
        /\ Range(tasks[c]) = Range(Tail(tasks[c])) \cup {Head(tasks[c])}
        /\ Head(tasks[c]) # NewEvent => Head(tasks[c]) \notin Range(Tail(tasks[c]))
<1> DEFINE q == tasks[c]
<1>1. q \in Seq(Task) /\ q # <<>>
  BY Zenon DEF TypeOK
<1>2. Distinct(q, {NewEvent})
  BY NoDupIsDistinct, Zenon DEF OwnsStacks
<1> HIDE DEF q
<1>3. Distinct(Tail(q), {NewEvent}) /\ (Head(q) \notin Range(Tail(q)) \/ Head(q) \in {NewEvent})
  BY <1>1, <1>2, DistinctTail, Zenon
<1>4. Range(q) = Range(Tail(q)) \cup {Head(q)} /\ Head(q) \in Task
  BY <1>1, RangeTail, HeadTail, Zenon
<1>5. ActivatesOnce(Tail(q))
  BY <1>3, NoDupIsDistinct, Zenon
<1> QED BY <1>3, <1>4, <1>5, Zenon DEF q

\* Queueing a new event, or the activation of a context that is not queued yet.
LEMMA AppendTask ==
  ASSUME NEW q \in Seq(Task), ActivatesOnce(q), NEW t \in Task, t = NewEvent \/ t \notin Range(q)
  PROVE ActivatesOnce(Append(q, t)) /\ Range(Append(q, t)) = Range(q) \cup {t}
<1>1. Distinct(q, {NewEvent}) /\ (t \notin Range(q) \/ t \in {NewEvent})
  BY NoDupIsDistinct, Zenon
<1>2. Distinct(Append(q, t), {NewEvent}) /\ Range(Append(q, t)) = Range(q) \cup {t}
  BY <1>1, DistinctAppend, RangeAppend
<1> QED BY <1>2, NoDupIsDistinct, Zenon

-----------------------------------------------------------------------------
(* StackOwnership, action by action.                                        *)

\* SpawnLocal takes a stack nobody owns and suspends the spawner.
LEMMA OwnSpawnSync ==
  ASSUME TypeOK, StackOwnership, NEW c \in CPU, status[c][active[c]] = "run", SpawnSync(c),
         UNCHANGED <<tasks, remote>>
  PROVE StackOwnership'
<1> DEFINE a == active[c]
           t == Allocated(c)
<1>1. OwnsStacks(c) /\ a \in Stack /\ status[c][a] = "run"
  BY Zenon DEF StackOwnership, TypeOK
<1>2. /\ t \in Stack /\ status[c][t] \in {"free", "unused"} /\ NoDuplicates(free_stacks'[c])
      /\ Range(free_stacks'[c]) = Range(free_stacks[c]) \ {t}
      /\ \A d \in CPU \ {c} : free_stacks'[d] = free_stacks[d]
  BY <1>1, AllocateOwn, Zenon DEF SpawnSync
<1>3. /\ sync_contexts'[c] = <<a>> \o sync_contexts[c]
      /\ \A d \in CPU \ {c} : sync_contexts'[d] = sync_contexts[d]
  BY Zenon DEF SpawnSync, TypeOK
<1>4. NoDuplicates(sync_contexts'[c]) /\ Range(sync_contexts'[c]) = Range(sync_contexts[c]) \cup {a}
  BY <1>1, <1>3, PushParent, Zenon
<1>5. /\ active'[c] = t /\ \A d \in CPU \ {c} : active'[d] = active[d]
      /\ status'[c] = [status[c] EXCEPT ![a] = "parent", ![t] = "run"]
      /\ \A d \in CPU \ {c} : status'[d] = status[d]
  BY <1>1, <1>2, Zenon DEF SpawnSync, TypeOK
<1>6. status[c] \in [Stack -> Status]
  BY Zenon DEF TypeOK
<1> HIDE DEF a, t
<1>7. OwnsStacks(c)'
  BY <1>1, <1>2, <1>4, <1>5, <1>6, SMTT(60) DEF OwnsStacks
<1>8. ASSUME NEW d \in CPU \ {c} PROVE OwnsStacks(d)'
  <2>1. OwnsStacks(d)
    BY Zenon DEF StackOwnership
  <2> QED BY <2>1, <1>2, <1>3, <1>5, SMTT(60) DEF OwnsStacks
<1> QED BY <1>7, <1>8, Zenon DEF StackOwnership

\* Steps of core c change only what core c owns.
LEMMA OwnElsewhere ==
  ASSUME StackOwnership, NEW c \in CPU, NEW d \in CPU \ {c},
         status'[d] = status[d], active'[d] = active[d], free_stacks'[d] = free_stacks[d],
         sync_contexts'[d] = sync_contexts[d], tasks'[d] = tasks[d], remote'[d] = remote[d]
  PROVE OwnsStacks(d)'
<1>1. OwnsStacks(d)
  BY Zenon DEF StackOwnership
<1> QED BY <1>1, Zenon DEF OwnsStacks

\* Blocking hands the core to the spawner, or to a loop on a new stack.
LEMMA OwnSaveContext ==
  ASSUME TypeOK, StackOwnership, NEW c \in CPU, SaveContext(c)
  PROVE StackOwnership'
<1> DEFINE a == active[c]
           t == Allocated(c)
           h == Head(sync_contexts[c])
<1>1. OwnsStacks(c) /\ a \in Stack /\ status[c][a] = "run" /\ status[c] \in [Stack -> Status]
  BY Zenon DEF StackOwnership, TypeOK, SaveContext, Running
<1>2. UNCHANGED <<tasks, remote>>
  BY Zenon DEF SaveContext, taskVars
<1>3. CASE sync_contexts[c] = <<>>
  <2>1. CanAllocate(c) /\ AllocateStack(c)
    BY <1>3, Zenon DEF SaveContext
  <2>2. /\ t \in Stack /\ status[c][t] \in {"free", "unused"} /\ NoDuplicates(free_stacks'[c])
        /\ Range(free_stacks'[c]) = Range(free_stacks[c]) \ {t}
        /\ \A d \in CPU \ {c} : free_stacks'[d] = free_stacks[d]
    BY <1>1, <2>1, AllocateOwn, Zenon
  <2>3. /\ status' = [status EXCEPT ![c][a] = "blocked", ![c][t] = "loop"]
        /\ active' = [active EXCEPT ![c] = t] /\ sync_contexts' = sync_contexts
    BY <1>3, Zenon DEF SaveContext
  <2> HIDE DEF a, t
  <2>4. /\ active'[c] = t /\ \A d \in CPU \ {c} : active'[d] = active[d] /\ status'[d] = status[d]
        /\ status'[c] = [status[c] EXCEPT ![a] = "blocked", ![t] = "loop"]
    BY <1>1, <2>2, <2>3, Zenon DEF TypeOK
  <2>5. OwnsStacks(c)'
    BY <1>1, <1>2, <2>2, <2>3, <2>4, SMTT(60) DEF OwnsStacks, a
  <2>6. ASSUME NEW d \in CPU \ {c} PROVE OwnsStacks(d)'
    BY <1>2, <2>2, <2>3, <2>4, OwnElsewhere, Zenon
  <2> QED BY <2>5, <2>6, Zenon DEF StackOwnership
<1>4. CASE sync_contexts[c] # <<>>
  <2>1. /\ h \in Stack /\ status[c][h] = "parent" /\ NoDuplicates(Tail(sync_contexts[c]))
        /\ Range(Tail(sync_contexts[c])) = Range(sync_contexts[c]) \ {h}
    BY <1>1, <1>4, PopParent, Zenon
  <2>2. /\ status' = [status EXCEPT ![c][a] = "blocked", ![c][h] = "run"]
        /\ active' = [active EXCEPT ![c] = h] /\ free_stacks' = free_stacks
        /\ sync_contexts' = [sync_contexts EXCEPT ![c] = Tail(@)]
    BY <1>4, Zenon DEF SaveContext
  <2> HIDE DEF a, h
  <2>3. /\ active'[c] = h /\ \A d \in CPU \ {c} : active'[d] = active[d] /\ status'[d] = status[d]
        /\ status'[c] = [status[c] EXCEPT ![a] = "blocked", ![h] = "run"]
        /\ sync_contexts'[c] = Tail(sync_contexts[c])
        /\ \A d \in CPU \ {c} : sync_contexts'[d] = sync_contexts[d]
    BY <1>1, <2>1, <2>2, Zenon DEF TypeOK
  <2>4. OwnsStacks(c)'
    BY <1>1, <1>2, <2>1, <2>2, <2>3, SMTT(60) DEF OwnsStacks, a
  <2>5. ASSUME NEW d \in CPU \ {c} PROVE OwnsStacks(d)'
    BY <1>2, <2>2, <2>3, OwnElsewhere, Zenon
  <2> QED BY <2>4, <2>5, Zenon DEF StackOwnership
<1> QED BY <1>3, <1>4, Zenon

\* A returning event's stack becomes the loop's or is freed, never both.
LEMMA OwnReturn ==
  ASSUME TypeOK, StackOwnership, NEW c \in CPU, Return(c)
  PROVE StackOwnership'
<1> DEFINE a == active[c]
           h == Head(sync_contexts[c])
<1>1. OwnsStacks(c) /\ a \in Stack /\ status[c][a] = "run" /\ status[c] \in [Stack -> Status]
  BY Zenon DEF StackOwnership, TypeOK, Return, Running
<1>2. UNCHANGED <<tasks, remote>>
  BY Zenon DEF Return, taskVars
<1>3. CASE status' = [status EXCEPT ![c][a] = "loop"] /\ UNCHANGED <<active, sync_contexts, free_stacks>>
  <2>1. /\ status'[c] = [status[c] EXCEPT ![a] = "loop"]
        /\ \A d \in CPU \ {c} : status'[d] = status[d]
    BY <1>1, <1>3, Zenon DEF TypeOK
  <2> HIDE DEF a
  <2>2. OwnsStacks(c)'
    BY <1>1, <1>2, <1>3, <2>1, SMTT(60) DEF OwnsStacks, a
  <2>3. ASSUME NEW d \in CPU \ {c} PROVE OwnsStacks(d)'
    BY <1>2, <1>3, <2>1, OwnElsewhere, Zenon
  <2> QED BY <2>2, <2>3, Zenon DEF StackOwnership
<1>4. CASE /\ sync_contexts[c] # <<>>
           /\ FreeStack(c, a)
           /\ status' = [status EXCEPT ![c][a] = "free", ![c][h] = "run"]
           /\ active' = [active EXCEPT ![c] = h]
           /\ sync_contexts' = [sync_contexts EXCEPT ![c] = Tail(@)]
  <2>1. /\ h \in Stack /\ status[c][h] = "parent" /\ NoDuplicates(Tail(sync_contexts[c]))
        /\ Range(Tail(sync_contexts[c])) = Range(sync_contexts[c]) \ {h}
    BY <1>1, <1>4, PopParent, Zenon
  <2>2. /\ NoDuplicates(free_stacks'[c])
        /\ Range(free_stacks'[c]) = Range(free_stacks[c]) \cup {a}
        /\ \A d \in CPU \ {c} : free_stacks'[d] = free_stacks[d]
    BY <1>1, <1>4, FreeOwn, Zenon
  <2> HIDE DEF a, h
  <2>3. /\ active'[c] = h /\ \A d \in CPU \ {c} : active'[d] = active[d] /\ status'[d] = status[d]
        /\ status'[c] = [status[c] EXCEPT ![a] = "free", ![h] = "run"]
        /\ sync_contexts'[c] = Tail(sync_contexts[c])
        /\ \A d \in CPU \ {c} : sync_contexts'[d] = sync_contexts[d]
    BY <1>1, <1>4, <2>1, Zenon DEF TypeOK
  <2>4. OwnsStacks(c)'
    BY <1>1, <1>2, <2>1, <2>2, <2>3, SMTT(60) DEF OwnsStacks, a
  <2>5. ASSUME NEW d \in CPU \ {c} PROVE OwnsStacks(d)'
    BY <1>2, <2>2, <2>3, OwnElsewhere, Zenon
  <2> QED BY <2>4, <2>5, Zenon DEF StackOwnership
<1> QED BY <1>3, <1>4, Zenon DEF Return, stackVars

\* An event started by the loop runs on the loop's own stack.
LEMMA OwnInvoke ==
  ASSUME TypeOK, StackOwnership, NEW c \in CPU, InLoop(c), InvokeInLoop(c), UNCHANGED <<stackVars, remote>>,
         \/ UNCHANGED tasks
         \/ /\ tasks[c] # <<>> /\ Head(tasks[c]) = NewEvent
            /\ tasks' = [tasks EXCEPT ![c] = Tail(@)]
  PROVE StackOwnership'
<1> DEFINE a == active[c]
<1>1. OwnsStacks(c) /\ a \in Stack /\ status[c][a] = "loop" /\ status[c] \in [Stack -> Status]
  BY Zenon DEF StackOwnership, TypeOK, InLoop
<1>2. /\ status'[c] = [status[c] EXCEPT ![a] = "run"]
      /\ \A d \in CPU \ {c} : status'[d] = status[d] /\ tasks'[d] = tasks[d]
  BY <1>1, Zenon DEF TypeOK, InvokeInLoop
<1>3. UNCHANGED <<active, sync_contexts, free_stacks, remote>>
  BY Zenon DEF stackVars
<1>4. ActivatesOnce(tasks'[c]) /\ \A s \in Stack : s \in Range(tasks'[c]) <=> s \in Range(tasks[c])
  <2>1. CASE UNCHANGED tasks
    BY <1>1, <2>1, Zenon DEF OwnsStacks
  <2>2. CASE tasks[c] # <<>> /\ Head(tasks[c]) = NewEvent /\ tasks' = [tasks EXCEPT ![c] = Tail(@)]
    <3>1. tasks'[c] = Tail(tasks[c]) /\ NewEvent \notin Stack
      BY <2>2, StackAssumption, Zenon DEF TypeOK
    <3> QED BY <1>1, <2>2, <3>1, PopTask, Zenon
  <2> QED BY <2>1, <2>2, Zenon
<1> HIDE DEF a
<1>5. OwnsStacks(c)'
  BY <1>1, <1>2, <1>3, <1>4, Zenon DEF OwnsStacks, a
<1>6. ASSUME NEW d \in CPU \ {c} PROVE OwnsStacks(d)'
  BY <1>2, <1>3, OwnElsewhere, Zenon
<1> QED BY <1>5, <1>6, Zenon DEF StackOwnership

\* Resuming a saved context frees the loop's stack and leaves the context's.
LEMMA OwnRunActivation ==
  ASSUME TypeOK, StackOwnership, NEW c \in CPU, RunActivation(c)
  PROVE StackOwnership' /\ Head(tasks[c]) \in Stack /\ status[c][Head(tasks[c])] = "ready"
<1> DEFINE a == active[c]
           s == Head(tasks[c])
<1>1. OwnsStacks(c) /\ a \in Stack /\ status[c][a] = "loop" /\ status[c] \in [Stack -> Status]
  BY Zenon DEF StackOwnership, TypeOK, RunActivation, InLoop
<1>2. /\ s \in Task /\ s # NewEvent /\ ActivatesOnce(Tail(tasks[c]))
      /\ Range(tasks[c]) = Range(Tail(tasks[c])) \cup {s} /\ s \notin Range(Tail(tasks[c]))
  BY <1>1, PopTask, Zenon DEF RunActivation
<1>3. s \in Stack
  BY <1>2, Zenon DEF Task
<1>4. /\ NoDuplicates(free_stacks'[c])
      /\ Range(free_stacks'[c]) = Range(free_stacks[c]) \cup {a}
      /\ \A d \in CPU \ {c} : free_stacks'[d] = free_stacks[d]
  BY <1>1, FreeOwn, Zenon DEF RunActivation
<1>5. /\ status' = [status EXCEPT ![c][a] = "free", ![c][s] = "run"]
      /\ active' = [active EXCEPT ![c] = s]
      /\ tasks' = [tasks EXCEPT ![c] = Tail(@)]
      /\ UNCHANGED <<sync_contexts, remote>>
  BY Zenon DEF RunActivation
<1> HIDE DEF a, s
<1>6. /\ active'[c] = s /\ \A d \in CPU \ {c} : active'[d] = active[d] /\ status'[d] = status[d]
      /\ status'[c] = [status[c] EXCEPT ![a] = "free", ![s] = "run"]
      /\ tasks'[c] = Tail(tasks[c]) /\ \A d \in CPU \ {c} : tasks'[d] = tasks[d]
  BY <1>1, <1>3, <1>5, Zenon DEF TypeOK
<1>7. status[c][s] = "ready"
  BY <1>1, <1>2, <1>3, Zenon DEF OwnsStacks
<1>8. OwnsStacks(c)'
  BY <1>1, <1>2, <1>3, <1>4, <1>5, <1>6, <1>7, SMTT(60) DEF OwnsStacks, a
<1>9. ASSUME NEW d \in CPU \ {c} PROVE OwnsStacks(d)'
  BY <1>4, <1>5, <1>6, OwnElsewhere, Zenon
<1> QED BY <1>3, <1>7, <1>8, <1>9, Zenon DEF StackOwnership, s

\* ActivateContext queues the saved context at its own core, once.
LEMMA OwnActivateContext ==
  ASSUME TypeOK, StackOwnership, NEW c \in CPU, NEW d \in CPU, NEW s \in Stack, ActivateContext(c, d, s)
  PROVE StackOwnership'
<1>1. OwnsStacks(d) /\ status[d][s] = "blocked" /\ status[d] \in [Stack -> Status] /\ s \in Task /\ s # NewEvent
  BY StackAssumption, Zenon DEF StackOwnership, TypeOK, ActivateContext, Task
<1>2. UNCHANGED <<active, sync_contexts, free_stacks>>
  BY Zenon DEF ActivateContext, stackVars
<1>3. /\ status'[d] = [status[d] EXCEPT ![s] = "ready"]
      /\ \A e \in CPU \ {d} : status'[e] = status[e]
  BY Zenon DEF ActivateContext, TypeOK
<1>4. s \notin Range(tasks[d]) /\ s \notin Range(remote[d]) /\ tasks[d] \in Seq(Task) /\ remote[d] \in Seq(Task)
  BY <1>1, Zenon DEF OwnsStacks, TypeOK
<1>5. CASE d = c /\ tasks' = [tasks EXCEPT ![c] = Append(@, s)] /\ UNCHANGED remote
  <2>1. tasks'[d] = Append(tasks[d], s) /\ \A e \in CPU \ {d} : tasks'[e] = tasks[e]
    BY <1>5, Zenon DEF TypeOK
  <2>2. ActivatesOnce(tasks'[d]) /\ Range(tasks'[d]) = Range(tasks[d]) \cup {s}
    BY <1>1, <1>4, <2>1, AppendTask, SMTT(60) DEF OwnsStacks
  <2>3. OwnsStacks(d)'
    BY <1>1, <1>2, <1>3, <1>4, <1>5, <2>2, SMTT(60) DEF OwnsStacks
  <2>4. ASSUME NEW e \in CPU \ {d} PROVE OwnsStacks(e)'
    BY <1>2, <1>3, <1>5, <2>1, OwnElsewhere, Zenon
  <2> QED BY <2>3, <2>4, Zenon DEF StackOwnership
<1>6. CASE AddRemoteTask(c, d, s) /\ UNCHANGED tasks
  <2>1. remote'[d] = Append(remote[d], s) /\ \A e \in CPU \ {d} : remote'[e] = remote[e]
    BY <1>6, Zenon DEF TypeOK, AddRemoteTask
  <2>2. ActivatesOnce(remote'[d]) /\ Range(remote'[d]) = Range(remote[d]) \cup {s}
    BY <1>1, <1>4, <2>1, AppendTask, SMTT(60) DEF OwnsStacks
  <2>3. OwnsStacks(d)'
    BY <1>1, <1>2, <1>3, <1>4, <1>6, <2>2, Zenon DEF OwnsStacks
  <2>4. ASSUME NEW e \in CPU \ {d} PROVE OwnsStacks(e)'
    BY <1>2, <1>3, <1>6, <2>1, OwnElsewhere, Zenon
  <2> QED BY <2>3, <2>4, Zenon DEF StackOwnership
<1> QED BY <1>5, <1>6, Zenon DEF ActivateContext

\* Queueing a task that starts an event owns no stack.
LEMMA OwnNewTask ==
  ASSUME TypeOK, StackOwnership, NEW d \in CPU, UNCHANGED <<status, active, sync_contexts, free_stacks>>,
         \/ tasks' = [tasks EXCEPT ![d] = Append(@, NewEvent)] /\ UNCHANGED remote
         \/ remote' = [remote EXCEPT ![d] = Append(@, NewEvent)] /\ UNCHANGED tasks
  PROVE StackOwnership'
<1>1. OwnsStacks(d) /\ tasks[d] \in Seq(Task) /\ remote[d] \in Seq(Task) /\ NewEvent \in Task /\ NewEvent \notin Stack
  BY StackAssumption, Zenon DEF StackOwnership, TypeOK, Task
<1>2. \A e \in CPU \ {d} : tasks'[e] = tasks[e] /\ remote'[e] = remote[e]
  BY Zenon DEF TypeOK
<1>3. /\ ActivatesOnce(tasks'[d]) /\ \A s \in Stack : s \in Range(tasks'[d]) <=> s \in Range(tasks[d])
      /\ ActivatesOnce(remote'[d]) /\ \A s \in Stack : s \in Range(remote'[d]) <=> s \in Range(remote[d])
  <2>1. CASE tasks' = [tasks EXCEPT ![d] = Append(@, NewEvent)] /\ UNCHANGED remote
    <3>1. tasks'[d] = Append(tasks[d], NewEvent)
      BY <2>1, Zenon DEF TypeOK
    <3> QED BY <1>1, <2>1, <3>1, AppendTask, SMTT(60) DEF OwnsStacks
  <2>2. CASE remote' = [remote EXCEPT ![d] = Append(@, NewEvent)] /\ UNCHANGED tasks
    <3>1. remote'[d] = Append(remote[d], NewEvent)
      BY <2>2, Zenon DEF TypeOK
    <3> QED BY <1>1, <2>2, <3>1, AppendTask, SMTT(60) DEF OwnsStacks
  <2> QED BY <2>1, <2>2, Zenon
<1>4. OwnsStacks(d)'
  BY <1>1, <1>3, Zenon DEF OwnsStacks
<1>5. ASSUME NEW e \in CPU \ {d} PROVE OwnsStacks(e)'
  BY <1>2, OwnElsewhere, Zenon
<1> QED BY <1>4, <1>5, Zenon DEF StackOwnership

\* Taking over the remote tasks moves activations and duplicates none.
LEMMA OwnTaskInterrupt ==
  ASSUME TypeOK, StackOwnership, NEW c \in CPU, ProcessTaskInterrupt(c)
  PROVE StackOwnership'
<1>1. OwnsStacks(c) /\ tasks[c] \in Seq(Task) /\ remote[c] \in Seq(Task)
  BY Zenon DEF StackOwnership, TypeOK
<1>2. UNCHANGED <<status, active, sync_contexts, free_stacks>>
  BY Zenon DEF ProcessTaskInterrupt, ctxVars, stackVars
<1>3. /\ tasks'[c] = tasks[c] \o remote[c] /\ remote'[c] = <<>>
      /\ \A e \in CPU \ {c} : tasks'[e] = tasks[e] /\ remote'[e] = remote[e]
  BY Zenon DEF ProcessTaskInterrupt, TypeOK
<1>4. Range(tasks[c]) \cap Range(remote[c]) \subseteq {NewEvent}
  <2>1. Range(tasks[c]) \subseteq Task
    BY <1>1 DEF Range
  <2> QED BY <1>1, <2>1, Zenon DEF OwnsStacks, Task
<1>5. Distinct(tasks[c], {NewEvent}) /\ Distinct(remote[c], {NewEvent})
  BY <1>1, NoDupIsDistinct, Zenon DEF OwnsStacks
<1>6. Distinct(tasks[c] \o remote[c], {NewEvent})
  BY <1>1, <1>4, <1>5, DistinctConcat, Zenon
<1>7. Range(tasks[c] \o remote[c]) = Range(tasks[c]) \cup Range(remote[c])
  BY <1>1, RangeConcat, Zenon
<1>8. ActivatesOnce(tasks'[c]) /\ ActivatesOnce(remote'[c]) /\ Range(remote'[c]) = {}
  <2>1. ActivatesOnce(tasks'[c])
    BY <1>3, <1>6, NoDupIsDistinct, Zenon
  <2>2. DOMAIN remote'[c] = {}
    BY <1>3
  <2>3. ActivatesOnce(remote'[c]) /\ Range(remote'[c]) = {}
    BY <2>2, Zenon DEF ActivatesOnce, Range
  <2> QED BY <2>1, <2>3, Zenon
<1>9. OwnsStacks(c)'
  BY <1>1, <1>2, <1>3, <1>7, <1>8, Zenon DEF OwnsStacks
<1>10. ASSUME NEW e \in CPU \ {c} PROVE OwnsStacks(e)'
  BY <1>2, <1>3, OwnElsewhere, Zenon
<1> QED BY <1>9, <1>10, Zenon DEF StackOwnership

\* Every step keeps the ownership of the stacks.
LEMMA OwnStep ==
  ASSUME TypeOK, StackOwnership, Next
  PROVE StackOwnership'
<1> USE DEF ctxVars, stackVars, taskVars
<1>1. ASSUME NEW c \in CPU, SpawnLocalAsync(c) PROVE StackOwnership'
  BY <1>1, OwnNewTask, Zenon DEF SpawnLocalAsync
<1>2. ASSUME NEW c \in CPU, SpawnLocal(c) PROVE StackOwnership'
  <2>1. SpawnSync(c) /\ status[c][active[c]] = "run" /\ UNCHANGED <<tasks, remote>>
    BY <1>2, Zenon DEF SpawnLocal, Running
  <2> QED BY <2>1, OwnSpawnSync, Zenon
<1>3. ASSUME NEW c \in CPU, NEW d \in CPU, SpawnRemote(c, d) PROVE StackOwnership'
  BY <1>3, OwnNewTask, Zenon DEF SpawnRemote, AddRemoteTask
<1>4. ASSUME NEW c \in CPU,
             \/ \E d \in CPU : SendIpi(c, d)
             \/ IdleStart(c) \/ IdleStop(c)
             \/ \E k \in Callbacks : DoRcu(c, k)
             \/ Fire(c)
             \/ ProcessTokenInterrupt(c)
             \/ TimerExpire(c) \/ DeviceInterrupt(c)
      PROVE StackOwnership'
  <2>1. UNCHANGED <<status, active, sync_contexts, free_stacks, tasks, remote>>
    BY <1>4, Zenon DEF SendIpi, IdleStart, IdleStop, DoRcu, Fire, ProcessTokenInterrupt, TimerExpire, DeviceInterrupt
  <2> QED BY <2>1, Zenon DEF StackOwnership, OwnsStacks
<1>5. ASSUME NEW c \in CPU, SpawnRcuTask(c) PROVE StackOwnership'
  <2>1. SpawnSync(c) /\ status[c][active[c]] = "run" /\ UNCHANGED <<tasks, remote>>
    BY <1>5, Zenon DEF SpawnRcuTask
  <2> QED BY <2>1, OwnSpawnSync, Zenon
<1>6. ASSUME NEW c \in CPU, NEW i \in {"timer", "device"}, ProcessDeviceInterrupt(c, i) PROVE StackOwnership'
  <2>1. InLoop(c) /\ InvokeInLoop(c) /\ UNCHANGED <<stackVars, remote>> /\ UNCHANGED tasks
    BY <1>6, Zenon DEF ProcessDeviceInterrupt
  <2> QED BY <2>1, OwnInvoke, Zenon
<1>7. ASSUME NEW c \in CPU, RunTask(c) PROVE StackOwnership'
  BY <1>7, OwnInvoke, Zenon DEF RunTask
<1>8. ASSUME NEW c \in CPU, RunIdleCallback(c) PROVE StackOwnership'
  BY <1>8, OwnInvoke, Zenon DEF RunIdleCallback
<1> QED BY <1>1, <1>2, <1>3, <1>4, <1>5, <1>6, <1>7, <1>8, OwnSaveContext, OwnReturn, OwnRunActivation,
           OwnActivateContext, OwnTaskInterrupt DEF Next

-----------------------------------------------------------------------------
(* The effect of a step on the set of live events: one begins, one ends, or *)
(* none does.                                                               *)

IsLive(c, s) == status[c][s] \in LiveStatus

SameEvent(c, s) == (IsLive(c, s)' <=> IsLive(c, s)) /\ (IsLive(c, s) => gen'[c][s] = gen[c][s])

LiveStays == /\ \A d \in CPU, s \in Stack : SameEvent(d, s)
             /\ \A d \in CPU, g \in {0, 1} : generation_count'[d][g] >= generation_count[d][g]

LiveGains(c, t) == /\ \A d \in CPU, s \in Stack : <<d, s>> # <<c, t>> => SameEvent(d, s)
                   /\ ~IsLive(c, t) /\ IsLive(c, t)' /\ gen'[c][t] = generation[c]
                   /\ Count(c, generation[c], 1)

LiveLoses(c, t) == /\ \A d \in CPU, s \in Stack : <<d, s>> # <<c, t>> => SameEvent(d, s)
                   /\ IsLive(c, t) /\ ~IsLive(c, t)'
                   /\ Count(c, gen[c][t], -1) /\ Ended(c, t)

\* A synchronous spawn begins one event, in its core's generation.
LEMMA SpawnSyncGains ==
  ASSUME TypeOK, StackOwnership, NEW c \in CPU, status[c][active[c]] = "run", SpawnSync(c)
  PROVE \E t \in Stack : LiveGains(c, t)
<1>0. PICK a \in Stack, t \in Stack : a = active[c] /\ t = Allocated(c)
  BY AllocatedType, Zenon DEF TypeOK, SpawnSync
<1>1. OwnsStacks(c) /\ status[c][a] = "run"
  BY <1>0, Zenon DEF StackOwnership, TypeOK
<1>2. status[c][t] \in {"free", "unused"}
  BY <1>0, <1>1, AllocateOwn, Zenon DEF SpawnSync
<1>3. /\ status' = [status EXCEPT ![c][a] = "parent", ![c][t] = "run"]
      /\ gen' = [gen EXCEPT ![c][t] = generation[c]]
      /\ Count(c, generation[c], 1)
  BY <1>0, Zenon DEF SpawnSync
<1>4. status \in [CPU -> [Stack -> Status]] /\ gen \in [CPU -> [Stack -> {0, 1}]]
  BY Zenon DEF TypeOK
<1>5. ASSUME NEW d \in CPU, NEW s \in Stack, <<d, s>> # <<c, t>> PROVE SameEvent(d, s)
  <2>1. d # c \/ s # t
    BY <1>5, Zenon
  <2> QED BY <1>1, <1>2, <1>3, <1>4, <2>1, Zenon DEF SameEvent, IsLive, LiveStatus
<1>6. ~IsLive(c, t) /\ IsLive(c, t)' /\ gen'[c][t] = generation[c]
  BY <1>1, <1>2, <1>3, <1>4, Zenon DEF IsLive, LiveStatus
<1> QED BY <1>3, <1>5, <1>6, Zenon DEF LiveGains

\* So does an event started by the loop.
LEMMA InvokeGains ==
  ASSUME TypeOK, NEW c \in CPU, InLoop(c), InvokeInLoop(c)
  PROVE \E t \in Stack : LiveGains(c, t)
<1>0. PICK a \in Stack : a = active[c]
  BY Zenon DEF TypeOK
<1>1. status[c][a] = "loop"
  BY <1>0, Zenon DEF InLoop
<1>2. /\ status' = [status EXCEPT ![c][a] = "run"]
      /\ gen' = [gen EXCEPT ![c][a] = generation[c]]
      /\ Count(c, generation[c], 1)
  BY <1>0, Zenon DEF InvokeInLoop
<1>3. status \in [CPU -> [Stack -> Status]] /\ gen \in [CPU -> [Stack -> {0, 1}]]
  BY Zenon DEF TypeOK
<1>4. ASSUME NEW d \in CPU, NEW s \in Stack, <<d, s>> # <<c, a>> PROVE SameEvent(d, s)
  <2>1. d # c \/ s # a
    BY <1>4, Zenon
  <2> QED BY <1>1, <1>2, <1>3, <2>1, Zenon DEF SameEvent, IsLive, LiveStatus
<1>5. ~IsLive(c, a) /\ IsLive(c, a)' /\ gen'[c][a] = generation[c]
  BY <1>1, <1>2, <1>3, Zenon DEF IsLive, LiveStatus
<1> QED BY <1>2, <1>4, <1>5, Zenon DEF LiveGains

\* A return ends one event, which no callback waits for any longer, and
\* decrements the count of the generation the event captured.
LEMMA ReturnLoses ==
  ASSUME TypeOK, StackOwnership, NEW c \in CPU, Return(c)
  PROVE \E t \in Stack : LiveLoses(c, t)
<1>0. PICK a \in Stack : a = active[c]
  BY Zenon DEF TypeOK
<1> DEFINE h == Head(sync_contexts[c])
<1>1. status[c][a] = "run" /\ OwnsStacks(c)
  BY <1>0, Zenon DEF Return, Running, StackOwnership
<1>2. Count(c, gen[c][a], -1) /\ Ended(c, a) /\ gen' = gen
  BY <1>0, Zenon DEF Return
<1>3. status \in [CPU -> [Stack -> Status]]
  BY Zenon DEF TypeOK
<1>4. CASE status' = [status EXCEPT ![c][a] = "loop"]
  <2>1. ASSUME NEW d \in CPU, NEW s \in Stack, <<d, s>> # <<c, a>> PROVE SameEvent(d, s)
    <3>1. d # c \/ s # a
      BY <2>1, Zenon
    <3> QED BY <1>1, <1>2, <1>3, <1>4, <3>1, Zenon DEF SameEvent, IsLive, LiveStatus
  <2>2. IsLive(c, a) /\ ~IsLive(c, a)'
    BY <1>1, <1>3, <1>4, Zenon DEF IsLive, LiveStatus
  <2> QED BY <1>1, <1>2, <2>1, <2>2, Zenon DEF LiveLoses
<1>5. CASE sync_contexts[c] # <<>> /\ status' = [status EXCEPT ![c][a] = "free", ![c][h] = "run"]
  <2>1. h \in Stack /\ status[c][h] = "parent"
    BY <1>1, <1>5, PopParent, Zenon
  <2> HIDE DEF h
  <2>2. ASSUME NEW d \in CPU, NEW s \in Stack, <<d, s>> # <<c, a>> PROVE SameEvent(d, s)
    <3>1. d # c \/ s # a
      BY <2>2, Zenon
    <3> QED BY <1>1, <1>2, <1>3, <1>5, <2>1, <3>1, Zenon DEF SameEvent, IsLive, LiveStatus
  <2>3. IsLive(c, a) /\ ~IsLive(c, a)'
    BY <1>1, <1>3, <1>5, <2>1, Zenon DEF IsLive, LiveStatus
  <2> QED BY <1>1, <1>2, <2>2, <2>3, Zenon DEF LiveLoses
<1> QED BY <1>0, <1>4, <1>5, Zenon DEF Return

\* Blocking neither begins nor ends an event.
LEMMA SaveContextStays ==
  ASSUME TypeOK, StackOwnership, NEW c \in CPU, SaveContext(c)
  PROVE LiveStays
<1> DEFINE a == active[c]
           t == Allocated(c)
           h == Head(sync_contexts[c])
<1>1. a \in Stack /\ status[c][a] = "run" /\ OwnsStacks(c)
  BY Zenon DEF TypeOK, SaveContext, Running, StackOwnership
<1>2. status \in [CPU -> [Stack -> Status]] /\ generation_count \in [CPU -> [{0, 1} -> Nat]]
  BY Zenon DEF TypeOK
<1>3. gen' = gen /\ generation_count' = generation_count
  BY Zenon DEF SaveContext, rcuVars
<1>4. CASE sync_contexts[c] = <<>>
  <2>1. t \in Stack /\ status[c][t] \in {"free", "unused"}
    BY <1>1, <1>4, AllocateOwn, Zenon DEF SaveContext
  <2>2. status' = [status EXCEPT ![c][a] = "blocked", ![c][t] = "loop"]
    BY <1>4, Zenon DEF SaveContext
  <2> HIDE DEF a, t
  <2> QED BY <1>1, <1>2, <1>3, <2>1, <2>2, SMTT(60) DEF LiveStays, SameEvent, IsLive, LiveStatus
<1>5. CASE sync_contexts[c] # <<>>
  <2>1. h \in Stack /\ status[c][h] = "parent"
    BY <1>1, <1>5, PopParent, Zenon
  <2>2. status' = [status EXCEPT ![c][a] = "blocked", ![c][h] = "run"]
    BY <1>5, Zenon DEF SaveContext
  <2> HIDE DEF a, h
  <2> QED BY <1>1, <1>2, <1>3, <2>1, <2>2, SMTT(60) DEF LiveStays, SameEvent, IsLive, LiveStatus
<1> QED BY <1>4, <1>5, Zenon

\* Neither does resuming one; the count it takes is never given back.
LEMMA RunActivationStays ==
  ASSUME TypeOK, StackOwnership, NEW c \in CPU, RunActivation(c)
  PROVE LiveStays
<1> DEFINE a == active[c]
           s == Head(tasks[c])
<1>1. s \in Stack /\ status[c][s] = "ready" /\ a \in Stack /\ status[c][a] = "loop"
  BY OwnRunActivation, Zenon DEF TypeOK, RunActivation, InLoop
<1>2. /\ status' = [status EXCEPT ![c][a] = "free", ![c][s] = "run"]
      /\ generation_count' = [generation_count EXCEPT ![c][generation[c]] = @ + 1]
      /\ gen' = gen
  BY Zenon DEF RunActivation, Count
<1>3. /\ status \in [CPU -> [Stack -> Status]] /\ generation_count \in [CPU -> [{0, 1} -> Nat]]
      /\ generation[c] \in {0, 1}
  BY Zenon DEF TypeOK
<1> HIDE DEF a, s
<1>4. \A d \in CPU, r \in Stack : SameEvent(d, r)
  BY <1>1, <1>2, <1>3, Zenon DEF SameEvent, IsLive, LiveStatus
<1>5. \A d \in CPU, g \in {0, 1} : generation_count'[d][g] >= generation_count[d][g]
  BY <1>2, <1>3, SMTT(60)
<1> QED BY <1>4, <1>5, Zenon DEF LiveStays

\* Every step begins one event, ends one, or leaves the live events alone.
LEMMA EventEffect ==
  ASSUME TypeOK, StackOwnership, Next
  PROVE \/ LiveStays
        \/ \E c \in CPU, t \in Stack : LiveGains(c, t)
        \/ \E c \in CPU, t \in Stack : LiveLoses(c, t)
<1> USE DEF ctxVars, rcuVars
<1>0. generation_count \in [CPU -> [{0, 1} -> Nat]]
  BY Zenon DEF TypeOK
<1>1. ASSUME UNCHANGED <<status, gen, generation_count>> PROVE LiveStays
  BY <1>0, <1>1 DEF LiveStays, SameEvent, IsLive
<1>2. ASSUME NEW c \in CPU,
             \/ SpawnLocalAsync(c) \/ IdleStart(c) \/ IdleStop(c) \/ Fire(c)
             \/ \E d \in CPU : SpawnRemote(c, d) \/ SendIpi(c, d)
             \/ \E k \in Callbacks : DoRcu(c, k)
             \/ ProcessTaskInterrupt(c) \/ ProcessTokenInterrupt(c)
             \/ TimerExpire(c) \/ DeviceInterrupt(c)
      PROVE LiveStays
  <2>1. UNCHANGED <<status, gen, generation_count>>
    BY <1>2, Zenon DEF SpawnLocalAsync, IdleStart, IdleStop, Fire, SpawnRemote, SendIpi, DoRcu,
       ProcessTaskInterrupt, ProcessTokenInterrupt, TimerExpire, DeviceInterrupt
  <2> QED BY <2>1, <1>1, Zenon
<1>3. ASSUME NEW c \in CPU, NEW d \in CPU, NEW s \in Stack, ActivateContext(c, d, s) PROVE LiveStays
  <2>1. status[d][s] = "blocked" /\ status' = [status EXCEPT ![d][s] = "ready"] /\ UNCHANGED <<gen, generation_count>>
    BY <1>3, Zenon DEF ActivateContext
  <2>2. status \in [CPU -> [Stack -> Status]]
    BY Zenon DEF TypeOK
  <2> QED BY <1>0, <2>1, <2>2 DEF LiveStays, SameEvent, IsLive, LiveStatus
<1>4. ASSUME NEW c \in CPU, SpawnLocal(c) \/ SpawnRcuTask(c) PROVE \E t \in Stack : LiveGains(c, t)
  <2>1. status[c][active[c]] = "run" /\ SpawnSync(c)
    BY <1>4, Zenon DEF SpawnLocal, SpawnRcuTask, Running
  <2> QED BY <2>1, SpawnSyncGains, Zenon
<1>5. ASSUME NEW c \in CPU,
             \/ \E i \in {"timer", "device"} : ProcessDeviceInterrupt(c, i)
             \/ RunTask(c) \/ RunIdleCallback(c)
      PROVE \E t \in Stack : LiveGains(c, t)
  <2>1. InLoop(c) /\ InvokeInLoop(c)
    BY <1>5, Zenon DEF ProcessDeviceInterrupt, RunTask, RunIdleCallback
  <2> QED BY <2>1, InvokeGains, Zenon
<1> QED BY <1>2, <1>3, <1>4, <1>5, SaveContextStays, ReturnLoses, RunActivationStays, Zenon DEF Next

-----------------------------------------------------------------------------
(* The count covers the live events.                                        *)

\* Every step keeps the count of a generation at or above its live events.
LEMMA CountStep ==
  ASSUME TypeOK, StackOwnership, CountCoversLive, Next
  PROVE CountCoversLive'
<1>0. generation_count \in [CPU -> [{0, 1} -> Nat]] /\ gen \in [CPU -> [Stack -> {0, 1}]] /\ generation \in [CPU -> {0, 1}]
  BY Zenon DEF TypeOK
<1>1. SUFFICES ASSUME NEW d \in CPU, NEW g \in {0, 1}
               PROVE generation_count'[d][g] >= Cardinality(LiveIn(d, g)')
  BY Zenon DEF CountCoversLive
<1>2. generation_count[d][g] >= Cardinality(LiveIn(d, g))
  BY Zenon DEF CountCoversLive
<1>3. IsFiniteSet(LiveIn(d, g)) /\ Cardinality(LiveIn(d, g)) \in Nat
  BY LiveInFinite, Zenon
<1>4. CASE LiveStays
  <2>1. LiveIn(d, g)' = LiveIn(d, g)
    BY <1>4, Zenon DEF LiveStays, SameEvent, IsLive, LiveIn
  <2>t. TypeOK'
    BY TypeStep, Zenon
  <2>u. generation_count' \in [CPU -> [{0, 1} -> Nat]]
    BY <2>t, Zenon DEF TypeOK
  <2>2. generation_count'[d][g] \in Nat
    BY <2>u, Zenon
  <2>3. generation_count'[d][g] >= generation_count[d][g]
    BY <1>4, Zenon DEF LiveStays
  <2> QED BY <1>0, <1>2, <1>3, <2>1, <2>2, <2>3, SMTT(60)
<1>5. ASSUME NEW c \in CPU, NEW t \in Stack, LiveGains(c, t)
      PROVE generation_count'[d][g] >= Cardinality(LiveIn(d, g)')
  <2>1. CASE d = c /\ g = generation[c]
    <3>1. LiveIn(d, g)' = LiveIn(d, g) \cup {t} /\ t \notin LiveIn(d, g)
      BY <1>5, <2>1, Zenon DEF LiveGains, SameEvent, IsLive, LiveIn
    <3>2. Cardinality(LiveIn(d, g) \cup {t}) = Cardinality(LiveIn(d, g)) + 1
      BY <1>3, <3>1, FS_AddElement, Zenon
    <3>3. generation_count'[d][g] = generation_count[d][g] + 1
      BY <1>0, <1>5, <2>1, Zenon DEF LiveGains, Count
    <3> QED BY <1>0, <1>2, <1>3, <3>1, <3>2, <3>3, SMTT(60)
  <2>2. CASE ~(d = c /\ g = generation[c])
    <3>1. LiveIn(d, g)' = LiveIn(d, g)
      BY <1>5, <2>2, Zenon DEF LiveGains, SameEvent, IsLive, LiveIn
    <3>2. generation_count'[d][g] = generation_count[d][g]
      BY <1>0, <1>5, <2>2, Zenon DEF LiveGains, Count
    <3> QED BY <1>2, <3>1, <3>2, Zenon
  <2> QED BY <2>1, <2>2, Zenon
<1>6. ASSUME NEW c \in CPU, NEW t \in Stack, LiveLoses(c, t)
      PROVE generation_count'[d][g] >= Cardinality(LiveIn(d, g)')
  <2>1. CASE d = c /\ g = gen[c][t]
    <3>1. LiveIn(d, g)' = LiveIn(d, g) \ {t} /\ t \in LiveIn(d, g)
      BY <1>6, <2>1, Zenon DEF LiveLoses, SameEvent, IsLive, LiveIn
    <3>2. Cardinality(LiveIn(d, g) \ {t}) = Cardinality(LiveIn(d, g)) - 1
      BY <1>3, <3>1, FS_RemoveElement, Zenon
    <3>3. generation_count'[d][g] = generation_count[d][g] - 1
      BY <1>0, <1>6, <2>1, Zenon DEF LiveLoses, Count
    <3> QED BY <1>0, <1>2, <1>3, <3>1, <3>2, <3>3, SMTT(60)
  <2>2. CASE ~(d = c /\ g = gen[c][t])
    <3>1. LiveIn(d, g)' = LiveIn(d, g)
      BY <1>6, <2>2, Zenon DEF LiveLoses, SameEvent, IsLive, LiveIn
    <3>2. generation_count'[d][g] = generation_count[d][g]
      BY <1>0, <1>6, <2>2, Zenon DEF LiveLoses, Count
    <3> QED BY <1>2, <3>1, <3>2, Zenon
  <2> QED BY <2>1, <2>2, Zenon
<1> QED BY <1>4, <1>5, <1>6, EventEffect, Zenon

-----------------------------------------------------------------------------
(* The three facts are proved together: that a counter can be decremented   *)
(* needs the live event it counts, and that a returning event is live needs *)
(* the ownership of the stacks.                                             *)

\* Main.cc's boot state satisfies the invariant.
LEMMA IndAInit == Init => IndA
<1> SUFFICES ASSUME Init PROVE IndA
  BY Zenon
<1>1. Boot \in Stack /\ 0 \in CPU
  BY StackAssumption, NCpusAssumption DEF Boot, CPU
<1>2. TypeOK
  <2>1. \A S : <<>> \in Seq(S)
    OBVIOUS
  <2> QED BY <1>1, <2>1, Zenon DEF Init, TypeOK, Status
<1>3. StackOwnership
  <2>1. \A s : s \notin Range(<<>>)
    BY DEF Range
  <2>2. NoDuplicates(<<>>) /\ ActivatesOnce(<<>>)
    BY DEF NoDuplicates, ActivatesOnce
  <2> QED BY <1>1, <2>1, <2>2, Zenon DEF Init, StackOwnership, OwnsStacks
<1>4. CountCoversLive
  <2> SUFFICES ASSUME NEW c \in CPU, NEW g \in {0, 1}
               PROVE generation_count[c][g] >= Cardinality(LiveIn(c, g))
    BY Zenon DEF CountCoversLive
  <2>1. CASE c = 0 /\ g = 0
    <3>1. LiveIn(c, g) = {Boot} /\ generation_count[c][g] = 1
      BY <1>1, <2>1, Zenon DEF Init, LiveIn, LiveStatus
    <3> QED BY <3>1, FS_Singleton
  <2>2. CASE ~(c = 0 /\ g = 0)
    <3>1. LiveIn(c, g) = {} /\ generation_count[c][g] = 0
      BY <1>1, <2>2, Zenon DEF Init, LiveIn, LiveStatus
    <3> QED BY <3>1, FS_EmptySet, SMTT(60)
  <2> QED BY <2>1, <2>2, Zenon
<1> QED BY <1>2, <1>3, <1>4, Zenon DEF IndA

\* A stuttering step keeps it.
LEMMA IndAStutter == IndA /\ UNCHANGED vars => IndA'
<1> SUFFICES ASSUME IndA, UNCHANGED vars PROVE IndA'
  BY Zenon
<1> USE DEF vars, ctxVars, stackVars, taskVars, rcuVars
<1>1. TypeOK'
  BY Zenon DEF IndA, TypeOK
<1>2. StackOwnership'
  BY Zenon DEF IndA, StackOwnership, OwnsStacks
<1>3. CountCoversLive'
  BY Zenon DEF IndA, CountCoversLive, LiveIn
<1> QED BY <1>1, <1>2, <1>3, Zenon DEF IndA

\* Every step keeps it.
LEMMA IndAStep == IndA /\ [Next]_vars => IndA'
  BY IndAStutter, TypeStep, OwnStep, CountStep, Zenon DEF IndA

\* The invariant holds in every reachable state.
LEMMA IndAInvariant == Spec => []IndA
  BY IndAInit, IndAStep, PTL DEF Spec

\* The state of every core stays well typed, for any number of cores, stacks
\* and callbacks; in particular InvokeFunction's decrement of
\* generation_count_ never wraps around.
THEOREM TypeCorrect == Spec => []TypeOK
<1>1. IndA => TypeOK
  BY Zenon DEF IndA
<1> QED BY <1>1, IndAInvariant, PTL

\* AllocateStack and FreeStack never put two contexts on one stack, for any
\* number of cores, spawns, blocks and activations.
THEOREM StacksOwned == Spec => []StackOwnership
<1>1. IndA => StackOwnership
  BY Zenon DEF IndA
<1> QED BY <1>1, IndAInvariant, PTL

\* generation_count_ never undercounts the events alive in a generation, so
\* Fire() never sees zero while one is alive.
THEOREM CountCovers == Spec => []CountCoversLive
<1>1. IndA => CountCoversLive
  BY Zenon DEF IndA
<1> QED BY <1>1, IndAInvariant, PTL

-----------------------------------------------------------------------------
(* Remote tasks are announced.                                              *)

\* What keeps RemoteTaskAnnounced: SendIpi empties notify, which announces all
\* of it only because a core owes at most one IPI, that of its last AddRemoteTask.
RemoteInv ==
  /\ RemoteTaskAnnounced
  /\ \A c \in CPU : \A d, e \in notify[c] : d = e

\* Queueing a remote task leaves its core to be notified, since the core that
\* queues owes no other IPI.
LEMMA RemoteAdd ==
  ASSUME TypeOK, RemoteInv, NEW c \in CPU, NEW d \in CPU, NEW t, Running(c),
         AddRemoteTask(c, d, t), ints' = ints
  PROVE RemoteInv'
<1>1. notify[c] = {} /\ notify \in [CPU -> SUBSET CPU] /\ remote \in [CPU -> Seq(Task)]
  BY Zenon DEF TypeOK, Running
<1>2. /\ notify'[c] = {d} /\ \A e \in CPU \ {c} : notify'[e] = notify[e]
      /\ \A e \in CPU \ {d} : remote'[e] = remote[e]
  BY <1>1, Zenon DEF AddRemoteTask
<1>3. \A e \in CPU : e # d => (remote'[e] # <<>> => "task" \in ints'[e] \/ \E f \in CPU : e \in notify'[f])
  BY <1>1, <1>2, Zenon DEF RemoteInv, RemoteTaskAnnounced
<1> QED BY <1>2, <1>3 DEF RemoteInv, RemoteTaskAnnounced

\* The IPI is pending once it is sent, and the sender owed no other.
LEMMA RemoteIpi ==
  ASSUME TypeOK, RemoteInv, NEW c \in CPU, NEW d \in CPU, SendIpi(c, d)
  PROVE RemoteInv'
<1>1. notify \in [CPU -> SUBSET CPU] /\ ints \in [CPU -> SUBSET Interrupt]
  BY Zenon DEF TypeOK
<1>2. /\ notify'[c] = {} /\ \A e \in CPU \ {c} : notify'[e] = notify[e]
      /\ ints'[d] = ints[d] \cup {"task"} /\ \A e \in CPU \ {d} : ints'[e] = ints[e]
      /\ remote' = remote
  BY <1>1, Zenon DEF SendIpi
<1>3. \A e \in notify[c] : e = d
  BY Zenon DEF SendIpi, RemoteInv
<1> QED BY <1>2, <1>3, Zenon DEF RemoteInv, RemoteTaskAnnounced

\* ProcessInterrupt takes every remote task along with the interrupt.
LEMMA RemoteTaken ==
  ASSUME TypeOK, RemoteInv, NEW c \in CPU, ProcessTaskInterrupt(c)
  PROVE RemoteInv'
<1>1. ints \in [CPU -> SUBSET Interrupt] /\ remote \in [CPU -> Seq(Task)]
  BY Zenon DEF TypeOK
<1>2. /\ remote'[c] = <<>> /\ \A e \in CPU \ {c} : remote'[e] = remote[e] /\ ints'[e] = ints[e]
      /\ notify' = notify
  BY <1>1, Zenon DEF ProcessTaskInterrupt
<1> QED BY <1>2, Zenon DEF RemoteInv, RemoteTaskAnnounced

\* Nothing else touches the remote queues or takes back IPI 32.
LEMMA RemoteQuiet ==
  ASSUME TypeOK, RemoteInv, UNCHANGED <<remote, notify>>,
         \A e \in CPU : "task" \in ints[e] => "task" \in ints'[e]
  PROVE RemoteInv'
  BY Zenon DEF RemoteInv, RemoteTaskAnnounced

\* The steps that do not queue, announce or take a remote task.
LEMMA RemoteOther ==
  ASSUME TypeOK, NEW c \in CPU,
         \/ SpawnLocalAsync(c) \/ SpawnLocal(c) \/ SaveContext(c) \/ IdleStart(c) \/ IdleStop(c)
         \/ \E k \in Callbacks : DoRcu(c, k)
         \/ Return(c) \/ Fire(c) \/ SpawnRcuTask(c) \/ ProcessTokenInterrupt(c)
         \/ \E i \in {"timer", "device"} : ProcessDeviceInterrupt(c, i)
         \/ RunTask(c) \/ RunActivation(c) \/ RunIdleCallback(c) \/ TimerExpire(c) \/ DeviceInterrupt(c)
  PROVE UNCHANGED <<remote, notify>> /\ \A e \in CPU : "task" \in ints[e] => "task" \in ints'[e]
<1> USE DEF taskVars
<1>0. ints \in [CPU -> SUBSET Interrupt]
  BY Zenon DEF TypeOK
<1>1. (c + 1) % NCpus \in CPU
  BY NextCpu, NCpusAssumption DEF CPU
<1>2. CASE \/ SpawnLocalAsync(c) \/ SpawnLocal(c) \/ SaveContext(c) \/ IdleStart(c) \/ IdleStop(c)
           \/ \E k \in Callbacks : DoRcu(c, k)
           \/ Return(c) \/ SpawnRcuTask(c) \/ RunTask(c) \/ RunActivation(c) \/ RunIdleCallback(c)
  <2>1. UNCHANGED <<remote, notify, ints>>
    BY <1>2, Zenon DEF SpawnLocalAsync, SpawnLocal, SaveContext, IdleStart, IdleStop, DoRcu, Return,
                SpawnRcuTask, RunTask, RunActivation, RunIdleCallback
  <2> QED BY <2>1, Zenon
<1>3. CASE Fire(c)
  <2>1. UNCHANGED <<remote, notify>>
    BY <1>3, Zenon DEF Fire
  <2>2. ints' = ints \/ ints' = [ints EXCEPT ![(c + 1) % NCpus] = @ \cup {"token"}]
    BY <1>3, Zenon DEF Fire, PassToken
  <2> QED BY <1>0, <1>1, <2>1, <2>2, Zenon
<1>4. CASE ProcessTokenInterrupt(c)
  BY <1>0, <1>4, Zenon DEF ProcessTokenInterrupt
<1>5. CASE \E i \in {"timer", "device"} : ProcessDeviceInterrupt(c, i)
  BY <1>0, <1>5, Zenon DEF ProcessDeviceInterrupt
<1>6. CASE TimerExpire(c) \/ DeviceInterrupt(c)
  BY <1>0, <1>6, Zenon DEF TimerExpire, DeviceInterrupt
<1> QED BY <1>2, <1>3, <1>4, <1>5, <1>6, Zenon

\* Every step keeps remote tasks announced.
LEMMA RemoteStep == IndA /\ RemoteInv /\ [Next]_vars => RemoteInv'
<1> SUFFICES ASSUME IndA, RemoteInv, [Next]_vars PROVE RemoteInv'
  BY Zenon
<1>1. TypeOK
  BY Zenon DEF IndA
<1>2. CASE UNCHANGED vars
  BY <1>1, <1>2, RemoteQuiet, Zenon DEF vars, taskVars
<1>3. ASSUME NEW c \in CPU, \E d \in CPU : SpawnRemote(c, d) PROVE RemoteInv'
  BY <1>1, <1>3, RemoteAdd, Zenon DEF SpawnRemote
<1>4. ASSUME NEW c \in CPU, NEW d \in CPU, NEW s \in Stack, ActivateContext(c, d, s) PROVE RemoteInv'
  <2>1. Running(c) /\ ints' = ints /\ (UNCHANGED <<remote, notify>> \/ AddRemoteTask(c, d, s))
    BY <1>4, Zenon DEF ActivateContext
  <2> QED BY <1>1, <2>1, RemoteAdd, RemoteQuiet, Zenon
<1>5. ASSUME NEW c \in CPU, \E d \in CPU : SendIpi(c, d) PROVE RemoteInv'
  BY <1>1, <1>5, RemoteIpi, Zenon
<1>6. ASSUME NEW c \in CPU, ProcessTaskInterrupt(c) PROVE RemoteInv'
  BY <1>1, <1>6, RemoteTaken, Zenon
<1>7. ASSUME NEW c \in CPU,
             \/ SpawnLocalAsync(c) \/ SpawnLocal(c) \/ SaveContext(c) \/ IdleStart(c) \/ IdleStop(c)
             \/ \E k \in Callbacks : DoRcu(c, k)
             \/ Return(c) \/ Fire(c) \/ SpawnRcuTask(c) \/ ProcessTokenInterrupt(c)
             \/ \E i \in {"timer", "device"} : ProcessDeviceInterrupt(c, i)
             \/ RunTask(c) \/ RunActivation(c) \/ RunIdleCallback(c) \/ TimerExpire(c) \/ DeviceInterrupt(c)
      PROVE RemoteInv'
  BY <1>1, <1>7, RemoteOther, RemoteQuiet, Zenon
<1> QED BY <1>2, <1>3, <1>4, <1>5, <1>6, <1>7, Zenon DEF Next

\* SpawnRemote and ActivateContext lose no wakeup, for any number of cores and
\* tasks: a task on a core's remote list has its IPI pending or about to be sent.
THEOREM RemoteAnnounced == Spec => []RemoteTaskAnnounced
<1>1. Init => RemoteInv
  BY DEF Init, RemoteInv, RemoteTaskAnnounced
<1>2. IndA /\ RemoteInv => RemoteTaskAnnounced
  BY Zenon DEF RemoteInv
<1>3. Spec => [](IndA /\ RemoteInv)
  BY <1>1, IndAInit, IndAStep, RemoteStep, PTL DEF Spec
<1> QED BY <1>2, <1>3, PTL

-----------------------------------------------------------------------------
(* Interrupts run on the stack of the active context.                       *)

\* What keeps InterruptsOnActiveStack.  Process() set the event stack to that of
\* the context at the bottom: the active one, or the first suspended spawner.
\* Every context above it was started by CallSync, so returning from one of them
\* never reaches Process() while a spawner is suspended.
OnBottom(c) ==
  LET q == sync_contexts[c] IN
  /\ q = <<>> => event_stack[c] = active[c]
  /\ q # <<>> => /\ event_stack[c] = q[Len(q)]
                 /\ status[c][active[c]] = "run" /\ base[c][active[c]] = "sync"
  /\ \A i \in 1 .. Len(q) : i # Len(q) => base[c][q[i]] = "sync"

StackInv == \A c \in CPU : OnBottom(c)

\* Whatever a step does to other cores, a core it leaves alone keeps its bottom.
LEMMA BottomElsewhere ==
  ASSUME StackInv, NEW d \in CPU, status'[d] = status[d], base'[d] = base[d], active'[d] = active[d],
         event_stack'[d] = event_stack[d], sync_contexts'[d] = sync_contexts[d]
  PROVE OnBottom(d)'
<1>1. OnBottom(d)
  BY Zenon DEF StackInv
<1> QED BY <1>1, Zenon DEF OnBottom

\* A spawned event runs above its spawner, which stays above the bottom.
LEMMA BottomSpawnSync ==
  ASSUME TypeOK, StackOwnership, StackInv, NEW c \in CPU, status[c][active[c]] = "run", SpawnSync(c),
         event_stack' = event_stack
  PROVE StackInv'
<1> DEFINE a == active[c]
           t == Allocated(c)
           q == sync_contexts[c]
<1>1. /\ OwnsStacks(c) /\ OnBottom(c) /\ a \in Stack /\ q \in Seq(Stack)
      /\ status[c] \in [Stack -> Status] /\ base[c] \in [Stack -> {"loop", "sync"}]
  BY Zenon DEF StackOwnership, TypeOK, StackInv
<1>2. t \in Stack /\ status[c][t] \in {"free", "unused"}
  BY <1>1, AllocateOwn, Zenon DEF SpawnSync
<1>3. /\ status' = [status EXCEPT ![c][a] = "parent", ![c][t] = "run"]
      /\ base' = [base EXCEPT ![c][t] = "sync"]
      /\ sync_contexts' = [sync_contexts EXCEPT ![c] = <<a>> \o @]
      /\ active' = [active EXCEPT ![c] = t]
  BY Zenon DEF SpawnSync
<1>4. \A i \in 1 .. Len(q) : status[c][q[i]] = "parent" /\ q[i] \in Stack
  BY <1>1, RangeMember DEF OwnsStacks
<1> HIDE DEF a, t, q
<1>5. /\ status'[c] = [status[c] EXCEPT ![a] = "parent", ![t] = "run"]
      /\ base'[c] = [base[c] EXCEPT ![t] = "sync"]
      /\ sync_contexts'[c] = <<a>> \o q /\ active'[c] = t
      /\ \A d \in CPU \ {c} : /\ status'[d] = status[d] /\ base'[d] = base[d] /\ active'[d] = active[d]
                              /\ sync_contexts'[d] = sync_contexts[d]
  BY <1>1, <1>2, <1>3, Zenon DEF TypeOK, q
<1>6. OnBottom(c)'
  <2> DEFINE r == <<a>> \o q
  <2>1. /\ r # <<>> /\ Len(r) = Len(q) + 1 /\ Len(q) \in Nat
        /\ \A i \in 1 .. Len(q) + 1 : r[i] = IF i = 1 THEN a ELSE q[i - 1]
    BY <1>1
  <2> HIDE DEF r
  <2>2. event_stack[c] = IF q = <<>> THEN a ELSE q[Len(q)]
    BY <1>1, Zenon DEF OnBottom, a, q
  <2>3. event_stack'[c] = r[Len(r)]
    <3>1. CASE q = <<>>
      BY <2>1, <2>2, <3>1
    <3>2. CASE q # <<>>
      <4>1. Len(q) >= 1
        BY <1>1, <3>2
      <4> QED BY <2>1, <2>2, <3>2, <4>1
    <3> QED BY <3>1, <3>2, Zenon
  <2>4. status'[c][t] = "run" /\ base'[c][t] = "sync"
    BY <1>1, <1>2, <1>5, Zenon
  <2>5. ASSUME NEW i \in 1 .. Len(r), i # Len(r) PROVE base'[c][r[i]] = "sync"
    <3>1. CASE i = 1
      <4>1. q # <<>> /\ r[i] = a
        BY <1>1, <2>1, <2>5, <3>1
      <4>2. base[c][a] = "sync"
        BY <1>1, <4>1, Zenon DEF OnBottom, a, q
      <4> QED BY <1>1, <1>2, <1>5, <4>1, <4>2, Zenon
    <3>2. CASE i # 1
      <4>1. i - 1 \in 1 .. Len(q) /\ i - 1 # Len(q) /\ r[i] = q[i - 1]
        BY <2>1, <2>5, <3>2
      <4>2. base[c][q[i - 1]] = "sync"
        BY <1>1, <4>1, Zenon DEF OnBottom, q
      <4>3. q[i - 1] # t /\ q[i - 1] \in Stack
        BY <1>2, <1>4, <4>1, Zenon
      <4> QED BY <1>1, <1>2, <1>5, <4>1, <4>2, <4>3
    <3> QED BY <3>1, <3>2, Zenon
  <2> QED BY <1>5, <2>1, <2>3, <2>4, <2>5, Zenon DEF OnBottom, r
<1>7. ASSUME NEW d \in CPU \ {c} PROVE OnBottom(d)'
  BY <1>5, BottomElsewhere, Zenon
<1> QED BY <1>6, <1>7, Zenon DEF StackInv

\* Going back to the spawner uncovers the next one; the bottom stays.
LEMMA BottomPop ==
  ASSUME TypeOK, StackOwnership, StackInv, NEW c \in CPU, sync_contexts[c] # <<>>,
         UNCHANGED <<base, event_stack>>, NEW x \in Status,
         status' = [status EXCEPT ![c][active[c]] = x, ![c][Head(sync_contexts[c])] = "run"],
         active' = [active EXCEPT ![c] = Head(sync_contexts[c])],
         sync_contexts' = [sync_contexts EXCEPT ![c] = Tail(@)]
  PROVE StackInv'
<1> DEFINE h == Head(sync_contexts[c])
           q == sync_contexts[c]
           r == Tail(q)
<1>1. OwnsStacks(c) /\ OnBottom(c) /\ q \in Seq(Stack) /\ q # <<>> /\ status[c] \in [Stack -> Status]
  BY Zenon DEF StackOwnership, TypeOK, StackInv
<1>2. h \in Stack
  BY <1>1, PopParent, Zenon
<1>3. /\ status'[c][h] = "run" /\ active'[c] = h /\ sync_contexts'[c] = r
      /\ \A d \in CPU \ {c} : /\ status'[d] = status[d] /\ active'[d] = active[d]
                              /\ sync_contexts'[d] = sync_contexts[d]
  BY <1>1, <1>2, Zenon DEF TypeOK
<1>4. /\ Len(q) >= 1 /\ Len(r) = Len(q) - 1 /\ Len(q) \in Nat /\ h = q[1] /\ r \in Seq(Stack)
      /\ \A i \in 1 .. Len(r) : r[i] = q[i + 1]
  BY <1>1
<1>5. /\ event_stack[c] = q[Len(q)]
      /\ \A i \in 1 .. Len(q) : i # Len(q) => base[c][q[i]] = "sync"
  BY <1>1, Zenon DEF OnBottom
<1> HIDE DEF h, q, r
<1>6. OnBottom(c)'
  <2>1. CASE r = <<>>
    <3>1. Len(r) = 0 /\ Len(q) = 1
      BY <1>4, <2>1
    <3> QED BY <1>3, <1>4, <1>5, <2>1, <3>1 DEF OnBottom
  <2>2. CASE r # <<>>
    <3>1. Len(r) >= 1
      BY <1>4, <2>2
    <3>2. r[Len(r)] = q[Len(q)]
      BY <1>4, <3>1
    <3>3. base[c][h] = "sync"
      BY <1>4, <1>5, <3>1
    <3>4. \A i \in 1 .. Len(r) : i # Len(r) => base[c][r[i]] = "sync"
      BY <1>4, <1>5
    <3> QED BY <1>3, <1>5, <2>2, <3>2, <3>3, <3>4, Zenon DEF OnBottom
  <2> QED BY <2>1, <2>2, Zenon
<1>7. ASSUME NEW d \in CPU \ {c} PROVE OnBottom(d)'
  BY <1>3, BottomElsewhere, Zenon
<1> QED BY <1>6, <1>7, Zenon DEF StackInv

\* A loop that starts on another stack moves the event stack with it, nothing
\* being suspended: SaveContext and ActivateContext call SetEventStack.
LEMMA BottomMove ==
  ASSUME TypeOK, StackInv, NEW c \in CPU, NEW s \in Stack, sync_contexts[c] = <<>>,
         sync_contexts' = sync_contexts, active' = [active EXCEPT ![c] = s], SetEventStack(c, s),
         \A d \in CPU \ {c} : status'[d] = status[d] /\ base'[d] = base[d]
  PROVE StackInv'
<1>1. /\ active'[c] = s /\ event_stack'[c] = s
      /\ \A d \in CPU \ {c} : active'[d] = active[d] /\ event_stack'[d] = event_stack[d]
  BY Zenon DEF TypeOK, SetEventStack
<1>2. OnBottom(c)'
  BY <1>1 DEF OnBottom
<1>3. ASSUME NEW d \in CPU \ {c} PROVE OnBottom(d)'
  BY <1>1, BottomElsewhere, Zenon
<1> QED BY <1>2, <1>3, Zenon DEF StackInv

\* Blocking moves the bottom to the new loop, or goes back to the spawner.
LEMMA BottomSaveContext ==
  ASSUME TypeOK, StackOwnership, StackInv, NEW c \in CPU, SaveContext(c)
  PROVE StackInv'
<1> DEFINE t == Allocated(c)
<1>1. CASE sync_contexts[c] = <<>>
  <2>1. /\ CanAllocate(c) /\ AllocateStack(c) /\ active' = [active EXCEPT ![c] = t] /\ SetEventStack(c, t)
        /\ status' = [status EXCEPT ![c][active[c]] = "blocked", ![c][t] = "loop"]
        /\ base' = [base EXCEPT ![c][t] = "loop"] /\ sync_contexts' = sync_contexts
    BY <1>1, Zenon DEF SaveContext
  <2>2. t \in Stack
    BY <2>1, AllocateOwn, Zenon DEF StackOwnership
  <2> HIDE DEF t
  <2>3. \A d \in CPU \ {c} : status'[d] = status[d] /\ base'[d] = base[d]
    BY <2>1, Zenon DEF TypeOK
  <2> QED BY <1>1, <2>1, <2>2, <2>3, BottomMove, Zenon
<1>2. CASE sync_contexts[c] # <<>>
  BY <1>2, BottomPop, Zenon DEF SaveContext, Status
<1> QED BY <1>1, <1>2, Zenon

\* An event returns to Process() only when it is itself the bottom.
LEMMA BottomReturn ==
  ASSUME TypeOK, StackOwnership, StackInv, NEW c \in CPU, Return(c)
  PROVE StackInv'
<1> DEFINE s == active[c]
<1>1. OnBottom(c) /\ s \in Stack
  BY Zenon DEF StackInv, TypeOK
<1>2. CASE base[c][s] = "loop" /\ status' = [status EXCEPT ![c][s] = "loop"] /\ UNCHANGED <<base, stackVars>>
  <2>1. sync_contexts[c] = <<>> /\ event_stack[c] = active[c]
    BY <1>1, <1>2, Zenon DEF OnBottom
  <2>2. OnBottom(c)'
    BY <1>2, <2>1 DEF OnBottom, stackVars
  <2>3. ASSUME NEW d \in CPU \ {c} PROVE OnBottom(d)'
    BY <1>2, BottomElsewhere, Zenon DEF TypeOK, stackVars
  <2> QED BY <2>2, <2>3, Zenon DEF StackInv
<1>3. CASE /\ base[c][s] = "sync" /\ sync_contexts[c] = <<>>
           /\ status' = [status EXCEPT ![c][s] = "loop"]
           /\ base' = [base EXCEPT ![c][s] = "loop"]
           /\ SetEventStack(c, s)
           /\ UNCHANGED <<active, sync_contexts, free_stacks>>
  <2>1. active' = [active EXCEPT ![c] = s] /\ \A d \in CPU \ {c} : status'[d] = status[d] /\ base'[d] = base[d]
    BY <1>3, Zenon DEF TypeOK
  <2> QED BY <1>1, <1>3, <2>1, BottomMove, Zenon
<1>4. CASE /\ base[c][s] = "sync" /\ sync_contexts[c] # <<>>
           /\ FreeStack(c, s)
           /\ status' = [status EXCEPT ![c][s] = "free", ![c][Head(sync_contexts[c])] = "run"]
           /\ active' = [active EXCEPT ![c] = Head(sync_contexts[c])]
           /\ sync_contexts' = [sync_contexts EXCEPT ![c] = Tail(@)]
           /\ UNCHANGED <<base, event_stack>>
  BY <1>4, BottomPop, Zenon DEF Status
<1> QED BY <1>2, <1>3, <1>4, Zenon DEF Return

\* The loop runs with nothing suspended, so an activated context becomes the bottom.
LEMMA BottomActivation ==
  ASSUME TypeOK, StackOwnership, StackInv, NEW c \in CPU, RunActivation(c)
  PROVE StackInv'
<1> DEFINE s == Head(tasks[c])
<1>1. s \in Stack
  BY PopTask, Zenon DEF RunActivation, StackOwnership, Task
<1>2. sync_contexts[c] = <<>>
  BY Zenon DEF RunActivation, InLoop, StackInv, OnBottom
<1>3. /\ status' = [status EXCEPT ![c][active[c]] = "free", ![c][s] = "run"]
      /\ active' = [active EXCEPT ![c] = s] /\ SetEventStack(c, s)
      /\ base' = base /\ sync_contexts' = sync_contexts
  BY Zenon DEF RunActivation
<1> HIDE DEF s
<1>4. \A d \in CPU \ {c} : status'[d] = status[d] /\ base'[d] = base[d]
  BY <1>3, Zenon DEF TypeOK
<1> QED BY <1>1, <1>2, <1>3, <1>4, BottomMove, Zenon

\* A step that only changes the status of contexts, and leaves the active one of
\* a core with suspended spawners running.
LEMMA BottomStatus ==
  ASSUME StackInv, UNCHANGED <<base, stackVars>>,
         \A d \in CPU : sync_contexts[d] # <<>> => status'[d][active[d]] = status[d][active[d]]
  PROVE StackInv'
<1>1. ASSUME NEW d \in CPU PROVE OnBottom(d)'
  <2>1. OnBottom(d)
    BY Zenon DEF StackInv
  <2> QED BY <2>1, Zenon DEF OnBottom, stackVars
<1> QED BY <1>1, Zenon DEF StackInv

\* Every step keeps the event stack at the bottom.
LEMMA BottomStep == IndA /\ StackInv /\ [Next]_vars => StackInv'
<1> SUFFICES ASSUME IndA, StackInv, [Next]_vars PROVE StackInv'
  BY Zenon
<1> USE DEF ctxVars, stackVars
<1>1. TypeOK /\ StackOwnership
  BY Zenon DEF IndA
<1>2. ASSUME \/ UNCHANGED vars
             \/ \E c \in CPU :
                  \/ SpawnLocalAsync(c) \/ \E d \in CPU : SpawnRemote(c, d) \/ SendIpi(c, d)
                  \/ IdleStart(c) \/ IdleStop(c) \/ \E k \in Callbacks : DoRcu(c, k)
                  \/ Fire(c) \/ ProcessTaskInterrupt(c) \/ ProcessTokenInterrupt(c)
                  \/ TimerExpire(c) \/ DeviceInterrupt(c)
      PROVE StackInv'
  <2>1. UNCHANGED <<status, base, stackVars>>
    BY <1>2, Zenon DEF vars, SpawnLocalAsync, SpawnRemote, SendIpi, IdleStart, IdleStop, DoRcu, Fire,
                ProcessTaskInterrupt, ProcessTokenInterrupt, TimerExpire, DeviceInterrupt
  <2> QED BY <2>1, BottomStatus, Zenon
<1>3. ASSUME NEW c \in CPU, SpawnLocal(c) \/ SpawnRcuTask(c) PROVE StackInv'
  <2>1. status[c][active[c]] = "run" /\ SpawnSync(c) /\ event_stack' = event_stack
    BY <1>3, Zenon DEF SpawnLocal, SpawnRcuTask, Running
  <2> QED BY <1>1, <2>1, BottomSpawnSync, Zenon
<1>4. ASSUME NEW c \in CPU, NEW d \in CPU, NEW s \in Stack, ActivateContext(c, d, s) PROVE StackInv'
  <2>1. /\ status[d][s] = "blocked" /\ status' = [status EXCEPT ![d][s] = "ready"]
        /\ UNCHANGED <<base, stackVars>>
    BY <1>4, Zenon DEF ActivateContext
  <2>2. ASSUME NEW e \in CPU, sync_contexts[e] # <<>> PROVE status'[e][active[e]] = status[e][active[e]]
    <3>1. status[e][active[e]] = "run" /\ status \in [CPU -> [Stack -> Status]] /\ active[e] \in Stack
      BY <1>1, <2>2 DEF StackInv, OnBottom, TypeOK
    <3> QED BY <2>1, <3>1, Zenon
  <2> QED BY <2>1, <2>2, BottomStatus, Zenon
<1>5. ASSUME NEW c \in CPU,
             \/ \E i \in {"timer", "device"} : ProcessDeviceInterrupt(c, i)
             \/ RunTask(c) \/ RunIdleCallback(c)
      PROVE StackInv'
  <2>1. InLoop(c) /\ status' = [status EXCEPT ![c][active[c]] = "run"] /\ UNCHANGED <<base, stackVars>>
    BY <1>5, Zenon DEF ProcessDeviceInterrupt, RunTask, RunIdleCallback, InvokeInLoop
  <2>2. sync_contexts[c] = <<>>
    BY <2>1, Zenon DEF InLoop, StackInv, OnBottom
  <2>3. \A e \in CPU \ {c} : status'[e] = status[e]
    BY <1>1, <2>1, Zenon DEF TypeOK
  <2> QED BY <2>1, <2>2, <2>3, BottomStatus, Zenon
<1> QED BY <1>1, <1>2, <1>3, <1>4, <1>5, BottomSaveContext, BottomReturn, BottomActivation, Zenon DEF Next

\* Whatever events spawn, block, are activated and return, for any number of
\* cores and stacks: Process() enables interrupts only when the stack they will
\* run on is that of the active context and no spawner is suspended beneath it.
THEOREM InterruptsOnOwnStack == Spec => []InterruptsOnActiveStack
<1>1. Init => StackInv
  <2>1. Init => \A c \in CPU : sync_contexts[c] = <<>> /\ event_stack[c] = active[c]
    BY DEF Init
  <2> QED BY <2>1 DEF StackInv, OnBottom
<1>2. IndA /\ StackInv => InterruptsOnActiveStack
  BY Zenon DEF StackInv, OnBottom, InterruptsOnActiveStack, InLoop
<1>3. Spec => [](IndA /\ StackInv)
  BY <1>1, IndAInit, IndAStep, BottomStep, PTL DEF Spec
<1> QED BY <1>2, <1>3, PTL
=============================================================================
