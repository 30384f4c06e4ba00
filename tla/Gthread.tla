------------------------------- MODULE Gthread -------------------------------
(***************************************************************************)
(* The locks that the C++ library uses (src/src/native/Gthread.cc): the    *)
(* recursive mutex, the plain mutex and once, called by events.  Events of *)
(* one core change only when one blocks; cores interleave.  The recursive  *)
(* mutex guards its fields with a spin lock, so trylock and unlock are one *)
(* step, but lock reads the field core without it.                         *)
(***************************************************************************)
EXTENDS Integers, FiniteSets

CONSTANTS Core, Events, CoreOf,   \* CoreOf[e]: where an event runs
          CountMax,               \* UINT8_MAX
          NoCore                  \* -1

\* Every event runs on a core, and -1 is none.
GthreadConstants == CoreOf \in [Events -> Core] /\ NoCore \notin Core

VARIABLES lock,      \* RecursiveLock: event_id, count, core
          flag,      \* the plain mutex
          once,      \* the flag of once: 0, 1 or 2
          active,    \* of each core: the event it executes, or NoCore
          pc,        \* of each event
          depth,     \* history: how often an event holds the recursive mutex
          owns,      \* history: events that hold the plain mutex
          calls,     \* history: calls of once's function
          past,      \* history: events that returned from once
          halted     \* the event and the message of a kbugon, or NoCore

gthreadVars == <<lock, flag, once, active, pc, depth, owns, calls, past, halted>>
rest == <<flag, once, owns, calls, past>>

GthreadInit ==
  /\ lock = [event_id |-> NoCore, count |-> 0, core |-> NoCore]
  /\ flag = FALSE /\ once = 0
  /\ active = [c \in Core |-> NoCore] /\ pc = [e \in Events |-> "run"]
  /\ depth = [e \in Events |-> 0] /\ owns = {} /\ calls = 0 /\ past = {} /\ halted = NoCore

Runs(e) == active[CoreOf[e]] = e /\ halted = NoCore
At(e, where) == Runs(e) /\ pc[e] = where
Goto(e, where) == pc' = [pc EXCEPT ![e] = where]

\* The event manager of a core continues an event; an event blocks.
Dispatch(e) ==
  /\ halted = NoCore /\ active[CoreOf[e]] = NoCore
  /\ active' = [active EXCEPT ![CoreOf[e]] = e]
  /\ UNCHANGED <<lock, pc, depth, halted, rest>>
Block(e) ==
  /\ At(e, "run")
  /\ active' = [active EXCEPT ![CoreOf[e]] = NoCore]
  /\ UNCHANGED <<lock, pc, depth, halted, rest>>

\* Seeded fault: a holder on the same core counts as the caller.
MayEnterCore(e) == lock.count < CountMax /\ (lock.count = 0 \/ lock.core = CoreOf[e])

\* ebbrt_gthread_recursive_mutex_trylock succeeds.
MayEnter(e) == lock.count < CountMax /\ (lock.count = 0 \/ lock.event_id = e)
Entered(e) == [event_id |-> e, count |-> lock.count + 1, core |-> CoreOf[e]]

\* One round of ebbrt_gthread_recursive_mutex_lock.
Lock(e) ==
  /\ At(e, "run")
  /\ IF MayEnter(e)
     THEN /\ lock' = Entered(e)
          /\ depth' = [depth EXCEPT ![e] = @ + 1]
          /\ UNCHANGED pc
     ELSE /\ Goto(e, "check")
          /\ UNCHANGED <<lock, depth>>
  /\ UNCHANGED <<active, halted, rest>>

\* kbugon(core == mine), or the loop goes round again.
CheckCore(e) ==
  /\ At(e, "check")
  /\ IF lock.core = CoreOf[e]
     THEN halted' = <<e, "deadlock">> /\ UNCHANGED <<pc, lock, depth>>
     ELSE /\ UNCHANGED halted
          /\ IF MayEnter(e)
             THEN lock' = Entered(e) /\ depth' = [depth EXCEPT ![e] = @ + 1] /\ Goto(e, "run")
             ELSE UNCHANGED <<pc, lock, depth>>
  /\ UNCHANGED <<active, rest>>

\* ebbrt_gthread_recursive_mutex_unlock clears core at every level.
Unlock(e) ==
  /\ At(e, "run") /\ depth[e] > 0
  /\ lock' = [event_id |-> lock.event_id, count |-> lock.count - 1, core |-> NoCore]
  /\ depth' = [depth EXCEPT ![e] = @ - 1]
  /\ UNCHANGED <<active, pc, halted, rest>>

\* ebbrt_gthread_mutex_lock does not wait: "gthread_mutex_lock is busy!"
MutexLock(e) ==
  /\ At(e, "run")
  /\ flag' = TRUE
  /\ IF flag THEN halted' = <<e, "busy">> /\ UNCHANGED owns
             ELSE owns' = owns \cup {e} /\ UNCHANGED halted
  /\ UNCHANGED <<lock, active, pc, depth, once, calls, past>>
MutexTrylock(e) ==
  /\ At(e, "run")
  /\ flag' = TRUE
  /\ owns' = IF flag THEN owns ELSE owns \cup {e}
  /\ UNCHANGED <<lock, active, pc, depth, once, calls, past, halted>>
MutexUnlock(e) ==
  /\ At(e, "run") /\ e \in owns
  /\ flag' = FALSE /\ owns' = owns \ {e}
  /\ UNCHANGED <<lock, active, pc, depth, once, calls, past, halted>>

\* ebbrt_gthread_once: the compare and exchange, func() and the store of 2; the
\* function may block.  A second caller meanwhile halts the machine.
Once(e) ==
  /\ At(e, "run") /\ e \notin past
  /\ \/ once = 0 /\ once' = 1 /\ Goto(e, "func") /\ UNCHANGED <<past, halted>>
     \/ once = 1 /\ halted' = <<e, "once">> /\ UNCHANGED <<once, pc, past>>
     \/ once = 2 /\ past' = past \cup {e} /\ UNCHANGED <<once, pc, halted>>
  /\ UNCHANGED <<lock, active, depth, flag, owns, calls>>
OnceFunc(e) ==
  /\ At(e, "func")
  /\ calls' = calls + 1
  /\ Goto(e, "store")
  /\ \E c \in {e, NoCore} : active' = [active EXCEPT ![CoreOf[e]] = c]
  /\ UNCHANGED <<lock, depth, flag, owns, once, past, halted>>
OnceStore(e) ==
  /\ At(e, "store")
  /\ once' = 2 /\ past' = past \cup {e}
  /\ Goto(e, "run")
  /\ UNCHANGED <<lock, active, depth, flag, owns, calls, halted>>

GthreadNext ==
  \E e \in Events :
    \/ Dispatch(e) \/ Block(e)
    \/ Lock(e) \/ CheckCore(e) \/ Unlock(e)
    \/ MutexLock(e) \/ MutexTrylock(e) \/ MutexUnlock(e)
    \/ Once(e) \/ OnceFunc(e) \/ OnceStore(e)

GthreadSpec == GthreadInit /\ [][GthreadNext]_gthreadVars

-----------------------------------------------------------------------------
(* Properties.                                                              *)

\* The recursive mutex has one holder, who holds it as often as its count says,
\* and a deadlock is reported only to an event that could never get it: the
\* holder runs on the caller's core or the caller holds it CountMax times.  The
\* plain mutex has one holder, and who returned from once finds its function
\* called, once.
LocksExclude ==
  /\ \A e \in Events : depth[e] = IF lock.count > 0 /\ lock.event_id = e THEN lock.count ELSE 0
  /\ halted # NoCore /\ halted[2] = "deadlock" =>
       lock.count > 0 /\ CoreOf[lock.event_id] = CoreOf[halted[1]]
  /\ Cardinality(owns) <= 1
  /\ past # {} => calls = 1
=============================================================================
