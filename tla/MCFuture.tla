------------------------------ MODULE MCFuture ------------------------------
(***************************************************************************)
(* Instances of Future for TLC: who calls what, on which core.             *)
(***************************************************************************)
EXTENDS Future

CONSTANTS a, b, all, out, outer, inner, flat, waiter, flattener, s1, s2, s3, s4

Outcome == {"value", "exception"}
OneCore == [e \in Event |-> 0]
OwnCore == [e \in Event |-> e]
Scenario(where, what(_)) == [core |-> where, calls |-> [e \in Event |-> what(e)]]

AllInputs == [f \in Future |-> IF f = all THEN {a, b} ELSE {}]

\* WhenAll(a, b) and what becomes of its result.
WhenAllCalls == <<Then(a, Gather(all)), Then(b, Gather(all)), Then(all, User("u", out, "value"))>>

\* Everybody on one core; the two waiters block on the results.
OneCoreCalls(e, w, x, y, z) ==
  CASE e = waiter    -> Append(WhenAllCalls, Block(out))
    [] e = flattener -> <<Then(outer, Outer(inner, flat)), Block(flat)>>
    [] e = s1 -> <<Set(a, w)>>
    [] e = s2 -> <<Set(b, x)>>
    [] e = s3 -> <<Set(outer, y)>>
    [] e = s4 -> <<Set(inner, z)>>

\* Everybody on a core of their own: the inputs of a WhenAll, and a holder of the
\* same shared future that tries to add a second continuation to one of them ...
GatherCalls(e, w, x) ==
  CASE e = waiter -> WhenAllCalls
    [] e = s1 -> <<Set(a, w)>>
    [] e = s2 -> <<Set(b, x)>>
    [] e = s3 -> <<Then(a, User("again", None, "value"))>>
    [] OTHER -> <<>>

\* ... and the two levels of a flatten.
FlattenCalls(e, y, z) ==
  CASE e = flattener -> <<Then(outer, Outer(inner, flat)), Then(flat, User("v", None, "value"))>>
    [] e = s1 -> <<Set(outer, y)>>
    [] e = s2 -> <<Set(inner, z)>>
    [] OTHER -> <<>>

AllScenarios ==
  {Scenario(OneCore, LAMBDA e : OneCoreCalls(e, w, x, y, z)) : w, x, y, z \in Outcome}
    \cup {Scenario(OwnCore, LAMBDA e : GatherCalls(e, w, x)) : w, x \in Outcome}
    \cup {Scenario(OwnCore, LAMBDA e : FlattenCalls(e, y, z)) : y, z \in Outcome}

\* One Then and one SetValue.
ThenScenarios ==
  {Scenario(OwnCore, LAMBDA e : IF e = waiter THEN <<Then(a, User("u", None, "value"))>> ELSE <<SetValue(a)>>)}

\* flatten() gives the outcome of the future inside the future: an exception
\* when either level failed, a value only when both have one.
FlattenOutcome ==
  /\ val[flat] = "value" => val[outer] = "value" /\ val[inner] = "value"
  /\ val[flat] = "exception" => "exception" \in {val[outer], val[inner]}

\* What WhenAll and flatten promise of their results.
OutcomesRight == WhenAllComplete /\ FlattenOutcome
=============================================================================
