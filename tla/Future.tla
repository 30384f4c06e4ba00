------------------------------- MODULE Future -------------------------------
(***************************************************************************)
(* Futures and promises (src/src/Future.h) shared by events on several     *)
(* cores of the native runtime.                                            *)
(*                                                                         *)
(* An event runs a script of calls.  Its call stack is a sequence of       *)
(* frames; one action is one access to the shared state of a future, so    *)
(* calls of different cores interleave at the accesses while the events of *)
(* one core do not interleave until one blocks.  EventManager::Spawn runs  *)
(* a continuation at once on the spawning core, as a nested frame.  The     *)
(* continuations of the instances do not block; the future that Then       *)
(* returns is modelled where somebody uses it (User's r).                  *)
(***************************************************************************)
EXTENDS Integers, Sequences, FiniteSets, SequencesExt

CONSTANTS Future,      \* the shared states
          Event,       \* events that make the calls
          Scenarios,   \* records: the core and the calls of every event
          Inputs,      \* [Future -> SUBSET Future], what WhenAll(...) gathers into it
          None

ASSUME ScenarioAssumption == \A s \in Scenarios : DOMAIN s.core = Event /\ DOMAIN s.calls = Event
ASSUME InputsAssumption == Inputs \in [Future -> SUBSET Future]

VARIABLES ready,    \* ready_
          val,      \* val_ and eptr_: "none", "value" or "exception"
          func,     \* func_: a continuation or None
          mutex,    \* mutex_: the event that holds it or None
          core,     \* the core of every event
          script,   \* calls an event has still to make
          stack,    \* its frames, innermost last
          slots,    \* inputs whose value is in the container of WhenAll
          count,    \* count of WhenAll
          saved,    \* events whose context SaveContext has filled
          woken,    \* "no", "saved" or "unsaved": the context ActivateContext got
          ran,      \* history: how often a continuation started
          threw     \* history: continuations refused with "Multiple thens"

shared == <<ready, val, func, mutex>>
gather == <<slots, count>>
blocking == <<saved, woken>>
vars == <<shared, core, script, stack, gather, blocking, ran, threw>>

\* Continuations: a user function (whose result or exception fulfils r), one
\* input of a WhenAll, the two levels of flatten, and Block's lambda.
User(id, r, x)  == [kind |-> "user", id |-> id, r |-> r, x |-> x]
Gather(r)       == [kind |-> "gather", id |-> r, r |-> r, x |-> "value"]
Outer(inner, r) == [kind |-> "outer", id |-> inner, r |-> r, x |-> "value"]
Inner(r)        == [kind |-> "inner", id |-> r, r |-> r, x |-> "value"]
Wake(e)         == [kind |-> "wake", id |-> e, r |-> None, x |-> "value"]

\* Frames: what to do next, on which future, with which continuation or result.
Call(at, f, k, x) == [at |-> at, f |-> f, k |-> k, x |-> x]
SetValue(f)       == Call("write", f, None, "value")
SetException(f)   == Call("lock set", f, None, "exception")
Then(f, k)        == Call("test", f, k, "none")
Block(f)          == Call("block", f, None, "none")
Run(f, k)         == Call(k.kind, f, k, "none")

Set(f, x) == IF x = "value" THEN SetValue(f) ELSE SetException(f)

-----------------------------------------------------------------------------
Top(e) == Last(stack[e])
At(e, at) == stack[e] # <<>> /\ Top(e).at = at

Pop(e)           == stack' = [stack EXCEPT ![e] = Front(@)]
Goto(e, at)      == stack' = [stack EXCEPT ![e] = Append(Front(@), [Last(@) EXCEPT !.at = at])]
Replace(e, c)    == stack' = [stack EXCEPT ![e] = Append(Front(@), c)]
GotoCall(e, at, c) ==
  stack' = [stack EXCEPT ![e] = Append(Append(Front(@), [Last(@) EXCEPT !.at = at]), c)]

\* An event keeps its core until it ends or waits in SaveContext.
OnCore(e) == stack[e] # <<>> /\ Top(e).at # "wait"
CoreFree(e) == \A d \in Event : core[d] = core[e] => ~OnCore(d)

Init ==
  /\ ready = [f \in Future |-> FALSE]
  /\ val = [f \in Future |-> "none"]
  /\ func = [f \in Future |-> None]
  /\ mutex = [f \in Future |-> None]
  /\ \E s \in Scenarios : core = s.core /\ script = s.calls
  /\ stack = [e \in Event |-> <<>>]
  /\ slots = [f \in Future |-> {}]
  /\ count = [f \in Future |-> Cardinality(Inputs[f])]
  /\ saved = {}
  /\ woken = [e \in Event |-> "no"]
  /\ ran = <<>>
  /\ threw = {}

\* An event makes its next call.
Begin(e) ==
  /\ script[e] # <<>> /\ stack[e] = <<>> /\ CoreFree(e)
  /\ stack' = [stack EXCEPT ![e] = <<Head(script[e])>>]
  /\ script' = [script EXCEPT ![e] = Tail(@)]
  /\ UNCHANGED <<shared, gather, blocking, ran, threw>>

-----------------------------------------------------------------------------
(* State::SetValue and State::SetException.                                 *)

\* std::lock_guard, in SetException only.
LockSet(e) ==
  LET f == Top(e).f IN
  /\ At(e, "lock set") /\ mutex[f] = None
  /\ mutex' = [mutex EXCEPT ![f] = e]
  /\ Goto(e, "write")
  /\ UNCHANGED <<ready, val, func, script, gather, blocking, ran, threw>>

\* Seeded fault: the result is written after ready_.
WriteLate(e) ==
  LET f == Top(e).f IN
  /\ At(e, "write")
  /\ \/ /\ ~ready[f]
        /\ ready' = [ready EXCEPT ![f] = TRUE]
        /\ UNCHANGED <<val, stack>>
     \/ /\ ready[f]
        /\ val' = [val EXCEPT ![f] = Top(e).x]
        /\ Goto(e, "check")
        /\ UNCHANGED ready
  /\ UNCHANGED <<func, mutex, script, gather, blocking, ran, threw>>

Write(e) ==
  LET f == Top(e).f IN
  /\ At(e, "write")
  /\ val' = [val EXCEPT ![f] = Top(e).x]
  /\ Goto(e, "ready")
  /\ UNCHANGED <<ready, func, mutex, script, gather, blocking, ran, threw>>

SetReady(e) ==
  LET f == Top(e).f IN
  /\ At(e, "ready")
  /\ ready' = [ready EXCEPT ![f] = TRUE]
  /\ Goto(e, "check")
  /\ UNCHANGED <<val, func, mutex, script, gather, blocking, ran, threw>>

\* if (func_) Spawn(std::move(func_))
CheckFunc(e) ==
  LET f == Top(e).f IN
  /\ At(e, "check")
  /\ Goto(e, IF func[f] = None THEN "unlock" ELSE "spawn")
  /\ UNCHANGED <<shared, script, gather, blocking, ran, threw>>

SpawnFunc(e) ==
  LET f == Top(e).f IN
  /\ At(e, "spawn")
  /\ func' = [func EXCEPT ![f] = None]
  /\ GotoCall(e, "unlock", Run(f, func[f]))
  /\ UNCHANGED <<ready, val, mutex, script, gather, blocking, ran, threw>>

\* Seeded fault: the mutex is not released.
UnlockForgotten(e) ==
  /\ At(e, "unlock")
  /\ Pop(e)
  /\ UNCHANGED <<shared, script, gather, blocking, ran, threw>>

Unlock(e) ==
  LET f == Top(e).f IN
  /\ At(e, "unlock")
  /\ mutex' = [mutex EXCEPT ![f] = IF @ = e THEN None ELSE @]
  /\ Pop(e)
  /\ UNCHANGED <<ready, val, func, script, gather, blocking, ran, threw>>

-----------------------------------------------------------------------------
(* State::ThenHelp.                                                         *)

TestReady(e) ==
  LET c == Top(e) IN
  /\ At(e, "test")
  /\ IF ready[c.f] THEN Replace(e, Run(c.f, c.k)) ELSE Goto(e, "lock then")
  /\ UNCHANGED <<shared, script, gather, blocking, ran, threw>>

LockThen(e) ==
  LET f == Top(e).f IN
  /\ At(e, "lock then") /\ mutex[f] = None
  /\ mutex' = [mutex EXCEPT ![f] = e]
  /\ Goto(e, "retest")
  /\ UNCHANGED <<ready, val, func, script, gather, blocking, ran, threw>>

\* "Have to check ready again to avoid a race"
Retest(e) ==
  LET c == Top(e) IN
  /\ At(e, "retest")
  /\ \/ /\ ready[c.f]
        /\ mutex' = [mutex EXCEPT ![c.f] = None]
        /\ Replace(e, Run(c.f, c.k))
     \/ /\ ~ready[c.f]
        /\ Goto(e, "store")
        /\ UNCHANGED mutex
  /\ UNCHANGED <<ready, val, func, script, gather, blocking, ran, threw>>

\* A second continuation is refused with an exception.  It leaves Block() before
\* SaveContext and ends the calls of the event, whose caller catches it; thrown
\* in a continuation it is caught by the closure that runs the continuation.
Refused(e) ==
  LET c == Top(e) IN
  /\ At(e, "store") /\ func[c.f] # None
  /\ threw' = threw \cup {c.k}
  /\ mutex' = [mutex EXCEPT ![c.f] = None]
  /\ stack' = [stack EXCEPT ![e] = SelectSeq(Front(@), LAMBDA d : d.at # "save")]
  /\ script' = [script EXCEPT ![e] = IF stack'[e] = <<>> THEN <<>> ELSE @]
  /\ UNCHANGED <<ready, val, func, gather, blocking, ran>>

StoreFunc(e) ==
  LET c == Top(e) IN
  /\ At(e, "store") /\ func[c.f] = None
  /\ func' = [func EXCEPT ![c.f] = c.k]
  /\ mutex' = [mutex EXCEPT ![c.f] = None]
  /\ Pop(e)
  /\ UNCHANGED <<ready, val, script, gather, blocking, ran, threw>>

-----------------------------------------------------------------------------
(* Continuations.                                                           *)

\* Starting k, which is counted.
Started(k) ==
  ran' = IF k \in DOMAIN ran THEN [ran EXCEPT ![k] = @ + 1]
         ELSE [j \in DOMAIN ran \cup {k} |-> IF j = k THEN 1 ELSE ran[j]]

\* The closure that ThenHelp stores: fn, then the promise of the future that
\* Then returned, with fn's result or the exception it throws.
RunUser(e) ==
  LET c == Top(e) IN
  /\ At(e, "user")
  /\ Started(c.k)
  /\ IF c.k.r = None THEN Pop(e) ELSE Replace(e, Set(c.k.r, c.k.x))
  /\ UNCHANGED <<shared, script, gather, blocking, threw>>

\* WhenAll: move the value into the container or fail the result ...
RunGather(e) ==
  LET c == Top(e) IN
  /\ At(e, "gather")
  /\ Started([c.k EXCEPT !.id = c.f])
  /\ \/ /\ val[c.f] = "exception"
        /\ Replace(e, SetException(c.k.r))
        /\ UNCHANGED slots
     \/ /\ val[c.f] # "exception"
        /\ slots' = [slots EXCEPT ![c.k.r] = @ \cup {c.f}]
        /\ Goto(e, "subtract")
  /\ UNCHANGED <<shared, script, count, blocking, threw>>

\* Seeded fault: fetch_sub compared with the new value.
SubtractEarly(e) ==
  LET r == Top(e).k.r IN
  /\ At(e, "subtract")
  /\ count' = [count EXCEPT ![r] = @ - 1]
  /\ IF count[r] <= 2 THEN Replace(e, SetValue(r)) ELSE Pop(e)
  /\ UNCHANGED <<shared, script, slots, blocking, ran, threw>>

\* ... and fulfil the result when this is the last input.
Subtract(e) ==
  LET r == Top(e).k.r IN
  /\ At(e, "subtract")
  /\ count' = [count EXCEPT ![r] = @ - 1]
  /\ IF count[r] = 1 THEN Replace(e, SetValue(r)) ELSE Pop(e)
  /\ UNCHANGED <<shared, script, slots, blocking, ran, threw>>

\* Seeded fault: the outer future's exception is dropped.
RunOuterUnchecked(e) ==
  LET c == Top(e) IN
  /\ At(e, "outer")
  /\ Started(c.k)
  /\ Replace(e, Then(c.k.id, Inner(c.k.r)))
  /\ UNCHANGED <<shared, script, gather, blocking, threw>>

\* flatten: the outer future's value is a future; wait for that one too.
RunOuter(e) ==
  LET c == Top(e) IN
  /\ At(e, "outer")
  /\ Started(c.k)
  /\ Replace(e, IF val[c.f] = "exception" THEN SetException(c.k.r)
                                          ELSE Then(c.k.id, Inner(c.k.r)))
  /\ UNCHANGED <<shared, script, gather, blocking, threw>>

RunInner(e) ==
  LET c == Top(e) IN
  /\ At(e, "inner")
  /\ Started(c.k)
  /\ Replace(e, Set(c.k.r, val[c.f]))
  /\ UNCHANGED <<shared, script, gather, blocking, threw>>

-----------------------------------------------------------------------------
(* Future::Block.                                                           *)

\* Unless ready, register the lambda and go on to SaveContext.
BlockTest(e) ==
  LET c == Top(e) IN
  /\ At(e, "block")
  /\ IF ready[c.f] THEN Pop(e) ELSE GotoCall(e, "save", Then(c.f, Wake(e)))
  /\ UNCHANGED <<shared, script, gather, blocking, ran, threw>>

\* The lambda moves the context to the event manager, filled or not.
RunWake(e) ==
  LET d == Top(e).k.id IN
  /\ At(e, "wake")
  /\ Started(Top(e).k)
  /\ woken' = [woken EXCEPT ![d] = IF d \in saved THEN "saved" ELSE "unsaved"]
  /\ Pop(e)
  /\ UNCHANGED <<shared, script, gather, saved, threw>>

\* SaveContext: fill the context and leave the core.
Save(e) ==
  /\ At(e, "save")
  /\ saved' = saved \cup {e}
  /\ Goto(e, "wait")
  /\ UNCHANGED <<shared, script, gather, woken, ran, threw>>

\* The activated context continues once its core is back in the event loop.
Resume(e) ==
  /\ At(e, "wait") /\ woken[e] = "saved" /\ CoreFree(e)
  /\ saved' = saved \ {e}
  /\ woken' = [woken EXCEPT ![e] = "no"]
  /\ Pop(e)
  /\ UNCHANGED <<shared, script, gather, ran, threw>>

Step(e) ==
  \/ Begin(e)
  \/ LockSet(e) \/ Write(e) \/ SetReady(e) \/ CheckFunc(e) \/ SpawnFunc(e) \/ Unlock(e)
  \/ TestReady(e) \/ LockThen(e) \/ Retest(e) \/ Refused(e) \/ StoreFunc(e)
  \/ RunUser(e) \/ RunGather(e) \/ Subtract(e) \/ RunOuter(e) \/ RunInner(e)
  \/ BlockTest(e) \/ RunWake(e) \/ Save(e) \/ Resume(e)

Next == \E e \in Event : Step(e) /\ UNCHANGED core

Spec == Init /\ [][Next]_vars

\* A core keeps executing the event it runs and takes up the events it has.
FairSpec == Spec /\ \A e \in Event : SF_vars(Step(e) /\ UNCHANGED core)

-----------------------------------------------------------------------------
(* Properties.                                                              *)

Kinds == {"user", "gather", "outer", "inner", "wake"}
Done(e) == script[e] = <<>> /\ stack[e] = <<>>
AllDone == \A e \in Event : Done(e)

\* A continuation starts only when its future has its result, so Get() in it
\* neither throws UnreadyFutureError nor reads val_ while it is written.
ContinuationSeesResult ==
  \A e \in Event : stack[e] # <<>> /\ Top(e).at \in Kinds =>
    ready[Top(e).f] /\ val[Top(e).f] # "none"

\* A continuation starts at most once, and not at all when Then threw.
ContinuationOnce == \A k \in DOMAIN ran : ran[k] <= 1 /\ k \notin threw

\* Both: what Then promises of the function it is given.
ContinuationsSound == ContinuationSeesResult /\ ContinuationOnce

\* A continuation handed to Then on a future that gets its result is run: when
\* all calls have returned, no ready future still holds one.
NoLostContinuation == AllDone => \A f \in Future : ready[f] => func[f] = None

\* The same where the setter and Then() exclude each other: among the events of
\* one core, and for a failure, which SetException stores with the mutex held.
NoLostWhenExclusive ==
  AllDone => \A f \in Future :
    ready[f] /\ (val[f] = "exception" \/ \A d, e \in Event : core[d] = core[e]) => func[f] = None

\* WhenAll fulfils its result with a value only when every input's value is in
\* the container, whatever the order and the cores of the inputs.
WhenAllComplete ==
  \A f \in Future : Inputs[f] # {} /\ val[f] = "value" =>
    slots[f] = Inputs[f] /\ \A i \in Inputs[f] : val[i] = "value"

\* A result never changes between value and exception once it is ready.
ResultIsFinal == [][\A f \in Future : ready[f] => ready'[f] /\ val'[f] = val[f]]_vars

\* ActivateContext is only ever given a context that SaveContext has filled.
ActivatesSavedContext == \A e \in Event : woken[e] # "unsaved"

\* What Then and Block promise of the functions and contexts they are given.
ContinuationsRun == ContinuationsSound /\ NoLostWhenExclusive /\ ActivatesSavedContext

\* Every call returns: Block() is woken, and no event waits for a mutex for ever.
CallsReturn == <>AllDone
=============================================================================
