---------------------------- MODULE SpinBarrier ----------------------------
(***************************************************************************)
(* The barrier of src/src/SpinBarrier.h, used round after round by the     *)
(* same n threads.  Every atomic operation of Wait is a step.              *)
(***************************************************************************)
EXTENDS Integers, FiniteSets

CONSTANTS Thread,    \* threads; n of them meet
          MaxRound   \* how often each of them calls Wait

VARIABLES waiters,     \* waiters_
          completed,   \* completed_
          at,          \* where each thread is in Wait: "out" .. "spin"
          step,        \* the local variable step of each thread
          entered      \* how many calls of Wait each thread has begun

barrier == <<waiters, completed, at, step, entered>>

BarrierInit ==
  /\ waiters = 0 /\ completed = 0
  /\ at = [t \in Thread |-> "out"]
  /\ step = [t \in Thread |-> 0]
  /\ entered = [t \in Thread |-> 0]

Move(t, from, to) == at[t] = from /\ at' = [at EXCEPT ![t] = to]

LoadStep(t) ==
  /\ Move(t, "out", "arrive")
  /\ entered[t] < MaxRound
  /\ entered' = [entered EXCEPT ![t] = @ + 1]
  /\ step' = [step EXCEPT ![t] = completed]
  /\ UNCHANGED <<waiters, completed>>

\* waiters_.fetch_add(1) == n_ - 1
Arrive(t, n) ==
  /\ Move(t, "arrive", IF waiters = n - 1 THEN "reset" ELSE "spin")
  /\ waiters' = waiters + 1
  /\ UNCHANGED <<completed, step, entered>>

Reset(t) ==
  /\ Move(t, "reset", "complete")
  /\ waiters' = 0
  /\ UNCHANGED <<completed, step, entered>>

Complete(t) ==
  /\ Move(t, "complete", "out")
  /\ completed' = completed + 1
  /\ UNCHANGED <<waiters, step, entered>>

Leave(t) ==
  /\ Move(t, "spin", "out")
  /\ completed # step[t]
  /\ UNCHANGED <<waiters, completed, step, entered>>

WaitStep(t, n) == LoadStep(t) \/ Arrive(t, n) \/ Reset(t) \/ Complete(t) \/ Leave(t)

\* No thread has left its r-th Wait before every thread has begun its r-th.
Meeting(T) ==
  \A t, u \in T : at[t] = "out" => entered[u] >= entered[t]
=============================================================================
