---------------------------- MODULE EventManager ----------------------------
(***************************************************************************)
(* The per-core event loop of the native runtime and the RCU built on it   *)
(* (src/src/native/EventManager.{h,cc}).                                   *)
(*                                                                         *)
(* Events are not preempted: a core takes interrupts only in Process(), so *)
(* one action is one uninterrupted stretch of one core.  An event context  *)
(* is named by the stack it runs on; at most one InvokeFunction frame is   *)
(* live on a stack.  generation_ and pending_generation_ are only ever     *)
(* used modulo 2 and are kept modulo 2.                                    *)
(***************************************************************************)
EXTENDS Integers, Sequences, FiniteSets, Functions

CONSTANTS NCpus,       \* Cpu::Count()
          Stack,       \* names of the event stacks one core can allocate
          Callbacks,   \* functions passed to DoRcu, each at most once
          NewEvent,    \* a task that starts a new event
          IdleCpus,    \* cores that may install an idle callback
          MaxSpawns,   \* bound on spawned tasks and device interrupts
          MaxBlocks    \* bound on SaveContext calls

CPU == 0 .. NCpus - 1

ASSUME NCpusAssumption == NCpus \in Nat \ {0}
ASSUME StackAssumption == IsFiniteSet(Stack) /\ Stack # {} /\ NewEvent \notin Stack
ASSUME BoundAssumption == MaxSpawns \in Nat /\ MaxBlocks \in Nat /\ IdleCpus \subseteq CPU

VARIABLES
  status,     \* [CPU -> [Stack -> Status]], what the context on a stack is doing
  base,       \* its bottom frame: "loop" (Process) or "sync" (CallSync)
  gen,        \* the generation its InvokeFunction frame captured
  todo,       \* RCU tasks its Fire() call still has to spawn
  in_timer,   \* [CPU -> SUBSET Stack], events that run the Timer's handler
  active,     \* active_event_context_
  event_stack,    \* Cpu::SetEventStack: where the next interrupt runs
  sync_contexts,  \* sync_contexts_, top first
  free_stacks,    \* free_stacks_, top first
  tasks,          \* tasks_
  remote,         \* remote_.tasks
  notify,         \* cores whose IPI the running event has still to send
  ints,           \* interrupts pending at the local APIC
  idle_callback,
  generation, pending_generation, generation_count,
  curr_rcu_tasks, prev_rcu_tasks,
  hook,       \* the EventManager's own timer hook: "idle", "armed" or "expired"
  holds,      \* history: invocations live at DoRcu(k) that have not ended
  called,     \* history: callbacks passed to DoRcu
  invoked,    \* history: callbacks whose event was spawned
  spawns, blocks

ctxVars   == <<status, base, gen, todo, in_timer>>
stackVars == <<active, event_stack, sync_contexts, free_stacks>>
taskVars  == <<tasks, remote, notify>>
rcuVars   == <<generation, pending_generation, generation_count,
               curr_rcu_tasks, prev_rcu_tasks, hook, holds, called, invoked>>
vars == <<ctxVars, stackVars, taskVars, ints, idle_callback, rcuVars, spawns, blocks>>

Status == {"unused", "free", "loop", "run", "parent", "blocked", "ready"}
\* What tasks_ holds: functions that start an event, and activations of the
\* context saved on a stack.
Task == Stack \cup {NewEvent}
Interrupt == {"task", "token", "timer", "device"}

\* Contexts with an InvokeFunction frame that has not returned.
LiveStatus == {"run", "parent", "blocked", "ready"}
LiveIn(c, g) == {s \in Stack : status[c][s] \in LiveStatus /\ gen[c][s] = g}
Live == {x \in CPU \X Stack : status[x[1]][x[2]] \in LiveStatus}

-----------------------------------------------------------------------------
(* Pieces shared by several operations.                                     *)

InLoop(c) == status[c][active[c]] = "loop"

\* The running event of c can take its next step: it has sent the IPI of a
\* remote task it queued, and is not inside Fire()'s spawning loop.
Running(c) == /\ status[c][active[c]] = "run"
              /\ notify[c] = {}
              /\ todo[c][active[c]] = <<>>

Fresh(c) == {s \in Stack : status[c][s] = "unused"}

\* AllocateStack pops free_stacks_ and otherwise maps a new stack.
CanAllocate(c) == free_stacks[c] # <<>> \/ Fresh(c) # {}

Allocated(c) == IF free_stacks[c] # <<>> THEN Head(free_stacks[c])
                                         ELSE CHOOSE s \in Stack : s \in Fresh(c)

\* Seeded fault: top() without pop().
AllocateStackNoPop(c) == UNCHANGED free_stacks

AllocateStack(c) ==
  free_stacks' = [free_stacks EXCEPT ![c] = IF @ = <<>> THEN @ ELSE Tail(@)]

FreeStack(c, s) == free_stacks' = [free_stacks EXCEPT ![c] = <<s>> \o @]

\* Seeded fault: the context activated by a task keeps the loop's event stack.
SetEventStackOnce(c, s) == UNCHANGED event_stack

SetEventStack(c, s) == event_stack' = [event_stack EXCEPT ![c] = s]

\* Seeded fault: InvokeFunction re-reads generation_ after the call.
CountUncaptured(c, g, d) ==
  generation_count' = [generation_count EXCEPT ![c][IF d = 1 THEN g ELSE generation[c]] = @ + d]

\* InvokeFunction counts in the generation it captured on entry.
Count(c, g, d) == generation_count' = [generation_count EXCEPT ![c][g] = @ + d]

\* InvokeFunction's exit: the invocation on s is over for everyone who waits.
Ended(c, s) == holds' = [k \in Callbacks |-> holds[k] \ {<<c, s>>}]

\* Start an event on the loop's own stack.
InvokeInLoop(c) ==
  /\ status' = [status EXCEPT ![c][active[c]] = "run"]
  /\ gen' = [gen EXCEPT ![c][active[c]] = generation[c]]
  /\ Count(c, generation[c], 1)

\* SpawnLocal, not forced async: suspend the caller, run on a new stack.
SpawnSync(c) ==
  LET t == Allocated(c) IN
  /\ CanAllocate(c)
  /\ AllocateStack(c)
  /\ status' = [status EXCEPT ![c][active[c]] = "parent", ![c][t] = "run"]
  /\ base' = [base EXCEPT ![c][t] = "sync"]
  /\ gen' = [gen EXCEPT ![c][t] = generation[c]]
  /\ Count(c, generation[c], 1)
  /\ sync_contexts' = [sync_contexts EXCEPT ![c] = <<active[c]>> \o @]
  /\ active' = [active EXCEPT ![c] = t]

-----------------------------------------------------------------------------
(* Main.cc and Smp.cc leave core 0 inside its boot event, which has just    *)
(* called ReceiveToken(); the other cores are past the barrier, in Process. *)

Boot == CHOOSE s \in Stack : TRUE

Init ==
  /\ status = [c \in CPU |-> [s \in Stack |->
                 IF s # Boot THEN "unused" ELSE IF c = 0 THEN "run" ELSE "loop"]]
  /\ base = [c \in CPU |-> [s \in Stack |-> "loop"]]
  /\ gen = [c \in CPU |-> [s \in Stack |-> 0]]
  /\ todo = [c \in CPU |-> [s \in Stack |-> <<>>]]
  /\ in_timer = [c \in CPU |-> {}]
  /\ active = [c \in CPU |-> Boot]
  /\ event_stack = [c \in CPU |-> Boot]
  /\ sync_contexts = [c \in CPU |-> <<>>]
  /\ free_stacks = [c \in CPU |-> <<>>]
  /\ tasks = [c \in CPU |-> <<>>]
  /\ remote = [c \in CPU |-> <<>>]
  /\ notify = [c \in CPU |-> {}]
  /\ ints = [c \in CPU |-> {}]
  /\ idle_callback = [c \in CPU |-> FALSE]
  /\ generation = [c \in CPU |-> IF c = 0 THEN 1 ELSE 0]
  /\ pending_generation = [c \in CPU |-> 0]
  /\ generation_count = [c \in CPU |-> [g \in {0, 1} |-> IF c = 0 /\ g = 0 THEN 1 ELSE 0]]
  /\ curr_rcu_tasks = [c \in CPU |-> <<>>]
  /\ prev_rcu_tasks = [c \in CPU |-> <<>>]
  /\ hook = [c \in CPU |-> IF c = 0 THEN "armed" ELSE "idle"]
  /\ holds = [k \in Callbacks |-> {}]
  /\ called = {}
  /\ invoked = {}
  /\ spawns = 0
  /\ blocks = 0

-----------------------------------------------------------------------------
(* What a running event can call.                                           *)

\* SpawnLocal with force_async.
SpawnLocalAsync(c) ==
  /\ Running(c) /\ spawns < MaxSpawns
  /\ spawns' = spawns + 1
  /\ tasks' = [tasks EXCEPT ![c] = Append(@, NewEvent)]
  /\ UNCHANGED <<ctxVars, stackVars, remote, notify, ints, idle_callback, rcuVars, blocks>>

SpawnLocal(c) ==
  /\ Running(c) /\ spawns < MaxSpawns
  /\ spawns' = spawns + 1
  /\ SpawnSync(c)
  /\ UNCHANGED <<todo, in_timer, event_stack, taskVars, ints, idle_callback, generation,
                 pending_generation, curr_rcu_tasks, prev_rcu_tasks, hook, holds, called, invoked, blocks>>

\* Seeded fault: the task is queued and no IPI is sent for it.
AddRemoteTaskSilently(c, d, t) ==
  /\ remote' = [remote EXCEPT ![d] = Append(@, t)]
  /\ UNCHANGED notify

\* AddRemoteTask under the target's lock; the IPI follows as a step of its own.
AddRemoteTask(c, d, t) ==
  /\ remote' = [remote EXCEPT ![d] = Append(@, t)]
  /\ notify' = [notify EXCEPT ![c] = {d}]

SpawnRemote(c, d) ==
  /\ Running(c) /\ spawns < MaxSpawns
  /\ spawns' = spawns + 1
  /\ AddRemoteTask(c, d, NewEvent)
  /\ UNCHANGED <<ctxVars, stackVars, tasks, ints, idle_callback, rcuVars, blocks>>

SendIpi(c, d) ==
  /\ d \in notify[c]
  /\ notify' = [notify EXCEPT ![c] = {}]
  /\ ints' = [ints EXCEPT ![d] = @ \cup {"task"}]
  /\ UNCHANGED <<ctxVars, stackVars, tasks, remote, idle_callback, rcuVars, spawns, blocks>>

\* Block: resume the event that spawned this one, or run the loop on a new stack.
SaveContext(c) ==
  LET t == Allocated(c) IN
  /\ Running(c) /\ blocks < MaxBlocks
  /\ blocks' = blocks + 1
  /\ \/ /\ sync_contexts[c] = <<>>
        /\ CanAllocate(c)
        /\ AllocateStack(c)
        /\ status' = [status EXCEPT ![c][active[c]] = "blocked", ![c][t] = "loop"]
        /\ base' = [base EXCEPT ![c][t] = "loop"]
        /\ active' = [active EXCEPT ![c] = t]
        /\ SetEventStack(c, t)
        /\ UNCHANGED sync_contexts
     \/ /\ sync_contexts[c] # <<>>
        /\ status' = [status EXCEPT ![c][active[c]] = "blocked",
                                    ![c][Head(sync_contexts[c])] = "run"]
        /\ active' = [active EXCEPT ![c] = Head(sync_contexts[c])]
        /\ sync_contexts' = [sync_contexts EXCEPT ![c] = Tail(@)]
        /\ UNCHANGED <<base, event_stack, free_stacks>>
  /\ UNCHANGED <<gen, todo, in_timer, taskVars, ints, idle_callback, rcuVars, spawns>>

\* ActivateContext of the context saved on stack s of core d, at most once.
ActivateContext(c, d, s) ==
  /\ Running(c)
  /\ status[d][s] = "blocked"
  /\ status' = [status EXCEPT ![d][s] = "ready"]
  /\ \/ /\ d = c
        /\ tasks' = [tasks EXCEPT ![c] = Append(@, s)]
        /\ UNCHANGED <<remote, notify>>
     \/ /\ d # c
        /\ AddRemoteTask(c, d, s)
        /\ UNCHANGED tasks
  /\ UNCHANGED <<base, gen, todo, in_timer, stackVars, ints, idle_callback, rcuVars, spawns, blocks>>

IdleStart(c) ==
  /\ Running(c) /\ c \in IdleCpus
  /\ ~idle_callback[c]
  /\ idle_callback' = [idle_callback EXCEPT ![c] = TRUE]
  /\ UNCHANGED <<ctxVars, stackVars, taskVars, ints, rcuVars, spawns, blocks>>

IdleStop(c) ==
  /\ Running(c)
  /\ idle_callback[c]
  /\ idle_callback' = [idle_callback EXCEPT ![c] = FALSE]
  /\ UNCHANGED <<ctxVars, stackVars, taskVars, ints, rcuVars, spawns, blocks>>

DoRcu(c, k) ==
  /\ Running(c)
  /\ k \notin called
  /\ called' = called \cup {k}
  /\ curr_rcu_tasks' = [curr_rcu_tasks EXCEPT ![c] = Append(@, k)]
  /\ holds' = [holds EXCEPT ![k] = Live]
  /\ UNCHANGED <<ctxVars, stackVars, taskVars, ints, idle_callback, generation, pending_generation,
                 generation_count, prev_rcu_tasks, hook, invoked, spawns, blocks>>

\* InvokeFunction returns to the loop below it, or through CallSync: to the
\* loop when nothing is suspended (the event had blocked), else to the spawner.
Return(c) ==
  LET s == active[c] IN
  /\ Running(c)
  /\ s \in in_timer[c] => hook[c] # "expired"
  /\ in_timer' = [in_timer EXCEPT ![c] = @ \ {s}]
  /\ Count(c, gen[c][s], -1)
  /\ Ended(c, s)
  /\ \/ /\ base[c][s] = "loop"
        /\ status' = [status EXCEPT ![c][s] = "loop"]
        /\ UNCHANGED <<base, stackVars>>
     \/ /\ base[c][s] = "sync" /\ sync_contexts[c] = <<>>
        /\ status' = [status EXCEPT ![c][s] = "loop"]
        /\ base' = [base EXCEPT ![c][s] = "loop"]
        /\ SetEventStack(c, s)
        /\ UNCHANGED <<active, sync_contexts, free_stacks>>
     \/ /\ base[c][s] = "sync" /\ sync_contexts[c] # <<>>
        /\ FreeStack(c, s)
        /\ status' = [status EXCEPT ![c][s] = "free", ![c][Head(sync_contexts[c])] = "run"]
        /\ active' = [active EXCEPT ![c] = Head(sync_contexts[c])]
        /\ sync_contexts' = [sync_contexts EXCEPT ![c] = Tail(@)]
        /\ UNCHANGED <<base, event_stack>>
  /\ UNCHANGED <<gen, todo, taskVars, ints, idle_callback, generation, pending_generation,
                 curr_rcu_tasks, prev_rcu_tasks, hook, called, invoked, spawns, blocks>>

-----------------------------------------------------------------------------
(* Generations.  The token travels round the cores by IPI 33.               *)

StartTimer(c) == hook' = [hook EXCEPT ![c] = "armed"]

ReceiveToken(c) ==
  /\ pending_generation' = [pending_generation EXCEPT ![c] = generation[c]]
  /\ generation' = [generation EXCEPT ![c] = 1 - @]
  /\ StartTimer(c)

\* Seeded fault: the core also keeps the token it passes on.
PassTokenAndKeep(c) ==
  /\ ints' = [ints EXCEPT ![(c + 1) % NCpus] = @ \cup {"token"}]
  /\ StartTimer(c)
  /\ UNCHANGED <<generation, pending_generation>>

\* Seeded fault: the next core's index is not incremented.
PassTokenToSelf(c) ==
  /\ ints' = [ints EXCEPT ![c % NCpus] = @ \cup {"token"}]
  /\ hook' = [hook EXCEPT ![c] = "idle"]
  /\ UNCHANGED <<generation, pending_generation>>

PassToken(c) ==
  \/ /\ NCpus > 1
     /\ ints' = [ints EXCEPT ![(c + 1) % NCpus] = @ \cup {"token"}]
     /\ hook' = [hook EXCEPT ![c] = "idle"]
     /\ UNCHANGED <<generation, pending_generation>>
  \/ /\ NCpus = 1
     /\ ReceiveToken(c)
     /\ UNCHANGED ints

\* Seeded fault: Fire() does not look at generation_count_.
GenerationUnchecked(c) == TRUE

GenerationComplete(c) == generation_count[c][pending_generation[c]] = 0

\* Seeded fault: tasks of the current generation are taken along.
RipeTasksEarly(c) == prev_rcu_tasks[c] \o curr_rcu_tasks[c]

\* Tasks that have lived through one entire generation.
RipeTasks(c) == prev_rcu_tasks[c]

\* The Timer's handler runs the expired hook: is the pending generation over?
Fire(c) ==
  /\ Running(c)
  /\ active[c] \in in_timer[c] /\ hook[c] = "expired"
  /\ \/ /\ GenerationComplete(c)
        /\ PassToken(c)
        /\ todo' = [todo EXCEPT ![c][active[c]] = RipeTasks(c)]
        /\ prev_rcu_tasks' = [prev_rcu_tasks EXCEPT ![c] = curr_rcu_tasks[c]]
        /\ curr_rcu_tasks' = [curr_rcu_tasks EXCEPT ![c] = <<>>]
     \/ /\ ~GenerationComplete(c)
        /\ StartTimer(c)
        /\ UNCHANGED <<ints, generation, pending_generation, todo, prev_rcu_tasks, curr_rcu_tasks>>
  /\ UNCHANGED <<status, base, gen, in_timer, stackVars, taskVars, idle_callback, generation_count,
                 holds, called, invoked, spawns, blocks>>

\* The loop at the end of Fire(): each task becomes an event, spawned in turn.
SpawnRcuTask(c) ==
  LET s == active[c] IN
  /\ status[c][s] = "run" /\ todo[c][s] # <<>>
  /\ SpawnSync(c)
  /\ todo' = [todo EXCEPT ![c][s] = Tail(@)]
  /\ invoked' = invoked \cup {Head(todo[c][s])}
  /\ UNCHANGED <<in_timer, event_stack, taskVars, ints, idle_callback, generation, pending_generation,
                 curr_rcu_tasks, prev_rcu_tasks, hook, holds, called, spawns, blocks>>

-----------------------------------------------------------------------------
(* Process(): interrupts first, then one task, then the idle callback.      *)

\* IPI 32: take all remote tasks.
ProcessTaskInterrupt(c) ==
  /\ InLoop(c) /\ "task" \in ints[c]
  /\ ints' = [ints EXCEPT ![c] = @ \ {"task"}]
  /\ tasks' = [tasks EXCEPT ![c] = @ \o remote[c]]
  /\ remote' = [remote EXCEPT ![c] = <<>>]
  /\ UNCHANGED <<ctxVars, stackVars, notify, idle_callback, rcuVars, spawns, blocks>>

\* IPI 33.
ProcessTokenInterrupt(c) ==
  /\ InLoop(c) /\ "token" \in ints[c]
  /\ ints' = [ints EXCEPT ![c] = @ \ {"token"}]
  /\ ReceiveToken(c)
  /\ UNCHANGED <<ctxVars, stackVars, taskVars, idle_callback, generation_count, curr_rcu_tasks,
                 prev_rcu_tasks, holds, called, invoked, spawns, blocks>>

\* Any other vector runs its handler as an event; the timer's is in_timer.
ProcessDeviceInterrupt(c, i) ==
  /\ InLoop(c) /\ i \in ints[c] \cap {"timer", "device"}
  /\ ints' = [ints EXCEPT ![c] = @ \ {i}]
  /\ InvokeInLoop(c)
  /\ in_timer' = [in_timer EXCEPT ![c] = IF i = "timer" THEN @ \cup {active[c]} ELSE @]
  /\ UNCHANGED <<base, todo, stackVars, taskVars, idle_callback, generation, pending_generation,
                 curr_rcu_tasks, prev_rcu_tasks, hook, holds, called, invoked, spawns, blocks>>

RunTask(c) ==
  /\ InLoop(c) /\ ints[c] = {}
  /\ tasks[c] # <<>> /\ Head(tasks[c]) = NewEvent
  /\ tasks' = [tasks EXCEPT ![c] = Tail(@)]
  /\ InvokeInLoop(c)
  /\ UNCHANGED <<base, todo, in_timer, stackVars, remote, notify, ints, idle_callback, generation,
                 pending_generation, curr_rcu_tasks, prev_rcu_tasks, hook, holds, called, invoked,
                 spawns, blocks>>

\* The task ActivateContext queued: InvokeFunction counts it, its stack is
\* freed, and the saved context continues, so InvokeFunction never returns.
RunActivation(c) ==
  LET s == Head(tasks[c]) IN
  /\ InLoop(c) /\ ints[c] = {}
  /\ tasks[c] # <<>> /\ s # NewEvent
  /\ tasks' = [tasks EXCEPT ![c] = Tail(@)]
  /\ Count(c, generation[c], 1)
  /\ FreeStack(c, active[c])
  /\ status' = [status EXCEPT ![c][active[c]] = "free", ![c][s] = "run"]
  /\ active' = [active EXCEPT ![c] = s]
  /\ SetEventStack(c, s)
  /\ UNCHANGED <<base, gen, todo, in_timer, sync_contexts, remote, notify, ints, idle_callback,
                 generation, pending_generation, curr_rcu_tasks, prev_rcu_tasks, hook, holds,
                 called, invoked, spawns, blocks>>

RunIdleCallback(c) ==
  /\ InLoop(c) /\ ints[c] = {} /\ tasks[c] = <<>>
  /\ idle_callback[c]
  /\ InvokeInLoop(c)
  /\ UNCHANGED <<base, todo, in_timer, stackVars, taskVars, ints, idle_callback, generation,
                 pending_generation, curr_rcu_tasks, prev_rcu_tasks, hook, holds, called, invoked,
                 spawns, blocks>>

-----------------------------------------------------------------------------
(* The machine.                                                             *)

\* The hook's fire time passes and the local APIC timer interrupts.
TimerExpire(c) ==
  /\ hook[c] = "armed"
  /\ hook' = [hook EXCEPT ![c] = "expired"]
  /\ ints' = [ints EXCEPT ![c] = @ \cup {"timer"}]
  /\ UNCHANGED <<ctxVars, stackVars, taskVars, idle_callback, generation, pending_generation,
                 generation_count, curr_rcu_tasks, prev_rcu_tasks, holds, called, invoked,
                 spawns, blocks>>

DeviceInterrupt(c) ==
  /\ "device" \notin ints[c] /\ spawns < MaxSpawns
  /\ spawns' = spawns + 1
  /\ ints' = [ints EXCEPT ![c] = @ \cup {"device"}]
  /\ UNCHANGED <<ctxVars, stackVars, taskVars, idle_callback, rcuVars, blocks>>

Next ==
  \E c \in CPU :
    \/ SpawnLocalAsync(c)
    \/ SpawnLocal(c)
    \/ \E d \in CPU : SpawnRemote(c, d)
    \/ \E d \in CPU : SendIpi(c, d)
    \/ SaveContext(c)
    \/ \E d \in CPU, s \in Stack : ActivateContext(c, d, s)
    \/ IdleStart(c)
    \/ IdleStop(c)
    \/ \E k \in Callbacks : DoRcu(c, k)
    \/ Return(c)
    \/ Fire(c)
    \/ SpawnRcuTask(c)
    \/ ProcessTaskInterrupt(c)
    \/ ProcessTokenInterrupt(c)
    \/ \E i \in {"timer", "device"} : ProcessDeviceInterrupt(c, i)
    \/ RunTask(c)
    \/ RunActivation(c)
    \/ RunIdleCallback(c)
    \/ TimerExpire(c)
    \/ DeviceInterrupt(c)

Spec == Init /\ [][Next]_vars

\* Every core keeps getting back to Process() with no interrupt pending: events
\* return, since they wait only through SaveContext; each loop of Process() opens
\* an interrupt window; and the hook's millisecond outlasts a handler.  Past the
\* window Process() takes a queued task.  An armed timer expires.
Fairness ==
  \A c \in CPU :
    /\ []<>(InLoop(c) /\ ints[c] = {})
    /\ SF_vars(RunTask(c) \/ RunActivation(c))
    /\ WF_vars(TimerExpire(c))

FairSpec == Spec /\ Fairness

-----------------------------------------------------------------------------
(* Properties.                                                              *)

\* Types of all state of every core's EventManager; in particular the size_t
\* counters of generation_count_ never go below zero.
TypeOK ==
  /\ status \in [CPU -> [Stack -> Status]]
  /\ base \in [CPU -> [Stack -> {"loop", "sync"}]]
  /\ gen \in [CPU -> [Stack -> {0, 1}]]
  /\ todo \in [CPU -> [Stack -> Seq(Callbacks)]]
  /\ in_timer \in [CPU -> SUBSET Stack]
  /\ active \in [CPU -> Stack]
  /\ event_stack \in [CPU -> Stack]
  /\ sync_contexts \in [CPU -> Seq(Stack)]
  /\ free_stacks \in [CPU -> Seq(Stack)]
  /\ tasks \in [CPU -> Seq(Task)]
  /\ remote \in [CPU -> Seq(Task)]
  /\ notify \in [CPU -> SUBSET CPU]
  /\ ints \in [CPU -> SUBSET Interrupt]
  /\ idle_callback \in [CPU -> BOOLEAN]
  /\ generation \in [CPU -> {0, 1}]
  /\ pending_generation \in [CPU -> {0, 1}]
  /\ generation_count \in [CPU -> [{0, 1} -> Nat]]
  /\ curr_rcu_tasks \in [CPU -> Seq(Callbacks)]
  /\ prev_rcu_tasks \in [CPU -> Seq(Callbacks)]
  /\ hook \in [CPU -> {"idle", "armed", "expired"}]
  /\ holds \in [Callbacks -> SUBSET (CPU \X Stack)]
  /\ called \subseteq Callbacks
  /\ invoked \subseteq Callbacks
  /\ spawns \in Nat
  /\ blocks \in Nat

\* The grace period DoRcu promises: when Fire() hands a callback over to be
\* spawned, every event that was running or blocked on any core at the time
\* of DoRcu has ended.
GracePeriod ==
  \A k \in Callbacks :
    (k \in invoked \/ \E c \in CPU, s \in Stack : k \in Range(todo[c][s])) => holds[k] = {}

HasToken(c) == hook[c] # "idle"
TokenInFlightTo(c) == "token" \in ints[c]

\* There is exactly one generation token: held by a core whose hook is queued
\* (or expired and not yet fired), or in flight as a pending IPI 33.
OneToken ==
  \E t \in CPU : /\ HasToken(t) # TokenInFlightTo(t)
                 /\ \A c \in CPU \ {t} : ~HasToken(c) /\ ~TokenInFlightTo(c)

\* SpawnRemote never loses a wakeup: a queued remote task has an IPI 32
\* pending at its core or about to be sent by the event that queued it.
RemoteTaskAnnounced ==
  \A c \in CPU : remote[c] # <<>> => "task" \in ints[c] \/ \E d \in CPU : c \in notify[d]

NoDuplicates(q) == \A i, j \in DOMAIN q : q[i] = q[j] => i = j

\* An activation is queued at most once; tasks that start events may repeat.
ActivatesOnce(q) == \A i, j \in DOMAIN q : q[i] = q[j] /\ q[i] # NewEvent => i = j

OwnsStacks(c) ==
  /\ NoDuplicates(free_stacks[c])
  /\ NoDuplicates(sync_contexts[c])
  /\ ActivatesOnce(tasks[c]) /\ ActivatesOnce(remote[c])
  /\ \A s \in Stack :
       /\ status[c][s] = "free" <=> s \in Range(free_stacks[c])
       /\ status[c][s] = "parent" <=> s \in Range(sync_contexts[c])
       /\ status[c][s] = "ready" <=> s \in Range(tasks[c]) \cup Range(remote[c])
       /\ s \notin Range(tasks[c]) \cap Range(remote[c])
       /\ status[c][s] \in {"loop", "run"} <=> s = active[c]

\* No stack is handed out while a context lives on it: free_stacks_,
\* sync_contexts_, the queued activations and the active context name each
\* stack at most once, and exactly the stacks in that condition.
StackOwnership == \A c \in CPU : OwnsStacks(c)

\* Interrupts are enabled only in Process(), and then they run on the stack
\* of the active context with no spawner suspended beneath it.
InterruptsOnActiveStack ==
  \A c \in CPU : InLoop(c) => event_stack[c] = active[c] /\ sync_contexts[c] = <<>>

\* generation_count_ never undercounts the invocations that are alive.
CountCoversLive ==
  \A c \in CPU, g \in {0, 1} : generation_count[c][g] >= Cardinality(LiveIn(c, g))

\* A callback passed to DoRcu is eventually spawned by Fire(), unless an event
\* that the grace period may have to wait for is still blocked.
RcuCallbackRuns ==
  \A k \in Callbacks :
    k \in called ~> (k \in invoked \/ \E c \in CPU, s \in Stack : status[c][s] = "blocked")

\* A task added to another core's list is eventually taken over by that core.
RemoteTaskTaken == \A c \in CPU : remote[c] # <<>> ~> remote[c] = <<>>

\* The EventManager implements the grace-period specification: its events are
\* the readers, DoRcu is Call, and the spawning loop of Fire() is Invoke.
Rcu == INSTANCE GracePeriodSpec WITH Reader <- CPU \X Stack, live <- Live

ImplementsGracePeriod == Rcu!Spec
=============================================================================
