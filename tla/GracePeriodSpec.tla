--------------------------- MODULE GracePeriodSpec ---------------------------
(***************************************************************************)
(* What Rcu.h and the callers of DoRcu rely on, without generations, cores *)
(* or tokens: readers come and go, and a callback handed to Call is        *)
(* invoked only when every reader present at the Call has left.            *)
(***************************************************************************)
CONSTANTS Reader, Callbacks

VARIABLES live,     \* readers inside a critical section
          called,   \* callbacks waiting or already invoked
          holds,    \* readers each callback still waits for
          invoked

rcu == <<live, called, holds, invoked>>

Init == /\ live \subseteq Reader
        /\ called = {}
        /\ holds = [k \in Callbacks |-> {}]
        /\ invoked = {}

Begin(r) == /\ r \notin live
            /\ live' = live \cup {r}
            /\ UNCHANGED <<called, holds, invoked>>

End(r) == /\ r \in live
          /\ live' = live \ {r}
          /\ holds' = [k \in Callbacks |-> holds[k] \ {r}]
          /\ UNCHANGED <<called, invoked>>

Call(k) == /\ k \notin called
           /\ called' = called \cup {k}
           /\ holds' = [holds EXCEPT ![k] = live]
           /\ UNCHANGED <<live, invoked>>

\* The callback runs as a reader r of its own.
Invoke(k, r) == /\ k \in called \ invoked
                /\ holds[k] = {}
                /\ r \notin live
                /\ invoked' = invoked \cup {k}
                /\ live' = live \cup {r}
                /\ UNCHANGED <<called, holds>>

Next == \/ \E r \in Reader : Begin(r) \/ End(r)
        \/ \E k \in Callbacks : Call(k) \/ \E r \in Reader : Invoke(k, r)

Spec == Init /\ [][Next]_rcu
=============================================================================
