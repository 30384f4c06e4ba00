-------------------------------- MODULE Nodes --------------------------------
(***************************************************************************)
(* How a front end gets its pool of back ends: PoolAllocator spawns one    *)
(* AllocateNode on a core for each node, NodeAllocator boots the node and  *)
(* promises its address, the node connects back, is told its space of      *)
(* Ebb identifiers, sets itself up and answers with its allocation id, and *)
(* the session sets the promise.  hosted/PoolAllocator.cc, NodeAllocator.cc,*)
(* native/Runtime.cc and EbbAllocator.cc.                                  *)
(*                                                                         *)
(* A node is known by its place in the pool.  The steps of different cores *)
(* interleave; a core that waits for a command of docker runs nothing else.*)
(* promise_map_ is an unordered_map without a lock: an insertion that      *)
(* overlaps another access may be lost.                                    *)
(***************************************************************************)
EXTENDS Integers, FiniteSets, Functions

CONSTANTS Count,       \* num_nodes_
          Placements,  \* the choices for the core of each AllocateNode
          AcceptCore,  \* the core whose context accepts the nodes
          Span,        \* 1 << 16, the identifiers of a space
          None

VARIABLES core,        \* core[i]: where AllocateNode(i) is spawned
          pc,          \* how far AllocateNode(i) is
          id,          \* its allocation id
          allocation_index_, node_index_,
          node,        \* how far the node is
          space,       \* the space it was given
          promise_map_, future, waiter,
          session,     \* the node whose answer the acceptor handles, and its step
          callback,    \* callback[i]: the step of the continuation of NetworkId, and its core
          num_nodes_alloc_, nids_, ready,
          used,        \* the global identifiers each machine has handed out
          raced, overlapped, aborted

nodeVars == <<core, pc, id, allocation_index_, node_index_, node, space, promise_map_, future,
              waiter, session, callback, num_nodes_alloc_, nids_, ready, used, raced,
              overlapped, aborted>>

Pool == 0..(Count - 1)
Hosted == Count         \* the front end, as a machine that allocates identifiers

NodesInit ==
  /\ core \in Placements
  /\ pc = [i \in Pool |-> "spawned"] /\ id = [i \in Pool |-> None]
  /\ allocation_index_ = 0 /\ node_index_ = 2
  /\ node = [i \in Pool |-> "off"] /\ space = [i \in Pool \cup {Hosted} |-> IF i = Hosted THEN 1 ELSE None]
  /\ promise_map_ = {} /\ future = [i \in Pool |-> None] /\ waiter = {}
  /\ session = [node |-> None, at |-> None]
  /\ callback = [i \in Pool |-> [at |-> None, core |-> None]]
  /\ num_nodes_alloc_ = 0 /\ nids_ = [i \in Pool |-> None] /\ ready = 0
  /\ used = [i \in Pool \cup {Hosted} |-> {}]
  /\ raced = FALSE /\ overlapped = FALSE /\ aborted = FALSE

\* The core is in no handler: an event runs until it returns.
Free(c) ==
  /\ ~aborted
  /\ \A i \in Pool : core[i] = c => pc[i] \in {"spawned", "done"}
  /\ \A i \in Pool : callback[i].core # c
  /\ c = AcceptCore => session.node = None

\* NodeAllocator::AllocateNode up to the signal that boots the node.
AllocateNode(i) ==
  /\ pc[i] = "spawned" /\ Free(core[i])
  /\ id' = [id EXCEPT ![i] = allocation_index_] /\ allocation_index_' = allocation_index_ + 1
  /\ node' = [node EXCEPT ![i] = "booted"]
  /\ pc' = [pc EXCEPT ![i] = "booted"]
  /\ UNCHANGED <<core, node_index_, space, promise_map_, future, waiter, session, callback,
                 num_nodes_alloc_, nids_, ready, used, raced, overlapped, aborted>>

\* The map is in use on some core.
InUse == session.node # None \/ \E j \in Pool : pc[j] = "inserting"

\* promise_map_[allocation_id], begun and ended.
Insert(i) ==
  /\ ~aborted
  /\ pc[i] = "booted"
  /\ pc' = [pc EXCEPT ![i] = "inserting"]
  /\ raced' = (raced \/ InUse)
  /\ UNCHANGED <<core, id, allocation_index_, node_index_, node, space, promise_map_, future,
                 waiter, session, callback, num_nodes_alloc_, nids_, ready, used, overlapped, aborted>>

Inserted(i) ==
  /\ ~aborted
  /\ pc[i] = "inserting"
  /\ pc' = [pc EXCEPT ![i] = "then"]
  /\ promise_map_' \in {promise_map_ \cup {i}} \cup (IF raced THEN {promise_map_} ELSE {})
  /\ UNCHANGED <<core, id, allocation_index_, node_index_, node, space, future, waiter, session,
                 callback, num_nodes_alloc_, nids_, ready, used, raced, overlapped, aborted>>

\* PoolAllocator::AllocateNode: NetworkId().Then, whose continuation runs here
\* when the address is known and where the promise is set otherwise.
Then(i) ==
  /\ ~aborted
  /\ pc[i] = "then"
  /\ \/ /\ future[i] # None
        /\ pc' = [pc EXCEPT ![i] = "continues"]
        /\ callback' = [callback EXCEPT ![i] = [at |-> "count", core |-> core[i]]]
        /\ UNCHANGED waiter
     \/ /\ future[i] = None
        /\ pc' = [pc EXCEPT ![i] = "done"]
        /\ waiter' = waiter \cup {i}
        /\ UNCHANGED callback
  /\ UNCHANGED <<core, id, allocation_index_, node_index_, node, space, promise_map_, future,
                 session, num_nodes_alloc_, nids_, ready, used, raced, overlapped, aborted>>

\* The continuation: counts, notes the address, and sets the promise of the
\* pool when it sees the full count.  A promise set twice aborts.
Continuation(i) ==
  /\ ~aborted
  /\ callback[i].at # None
  /\ overlapped' = (overlapped \/ \E j \in Pool \ {i} : callback[j].at # None)
  /\ CASE callback[i].at = "count" ->
            /\ num_nodes_alloc_' = num_nodes_alloc_ + 1
            /\ callback' = [callback EXCEPT ![i].at = "note"]
            /\ UNCHANGED <<nids_, ready, aborted, pc>>
       [] callback[i].at = "note" ->
            /\ nids_' = [nids_ EXCEPT ![i] = future[i]]
            /\ callback' = [callback EXCEPT ![i].at = "check"]
            /\ UNCHANGED <<num_nodes_alloc_, ready, aborted, pc>>
       [] callback[i].at = "check" ->
            /\ ready' = IF num_nodes_alloc_ = Count THEN ready + 1 ELSE ready
            /\ aborted' = (ready' > 1)
            /\ callback' = [callback EXCEPT ![i] = [at |-> None, core |-> None]]
            /\ pc' = [pc EXCEPT ![i] = "done"]
            /\ UNCHANGED <<num_nodes_alloc_, nids_>>
  /\ UNCHANGED <<core, id, allocation_index_, node_index_, node, space, promise_map_, future,
                 waiter, session, used, raced>>

\* DoAccept and Session::Start: the node that connects is given the next index.
Accept(i) ==
  /\ node[i] = "booted" /\ Free(AcceptCore)
  /\ node' = [node EXCEPT ![i] = "told"]
  /\ space' = [space EXCEPT ![i] = node_index_] /\ node_index_' = node_index_ + 1
  /\ UNCHANGED <<core, pc, id, allocation_index_, promise_map_, future, waiter, session, callback,
                 num_nodes_alloc_, nids_, ready, used, raced, overlapped, aborted>>

\* Connection::Receive on the node, and the answer of runtime::Init.
Receive(i) ==
  /\ node[i] = "told"
  /\ node' = [node EXCEPT ![i] = "answered"]
  /\ UNCHANGED <<core, pc, id, allocation_index_, node_index_, space, promise_map_, future, waiter,
                 session, callback, num_nodes_alloc_, nids_, ready, used, raced, overlapped, aborted>>

\* The handler of the answer: find and its assertion; SetValue, which runs the
\* continuation when there is one; erase.
Find(i) ==
  /\ node[i] = "answered" /\ Free(AcceptCore)
  /\ node' = [node EXCEPT ![i] = "known"]
  /\ raced' = (raced \/ InUse)
  /\ aborted' = (i \notin promise_map_)
  /\ session' = [node |-> i, at |-> "set"]
  /\ UNCHANGED <<core, pc, id, allocation_index_, node_index_, space, promise_map_, future, waiter,
                 callback, num_nodes_alloc_, nids_, ready, used, overlapped>>

SetValue(i) ==
  /\ ~aborted
  /\ session = [node |-> i, at |-> "set"]
  /\ future' = [future EXCEPT ![i] = <<"address", id[i]>>]
  /\ waiter' = waiter \ {i}
  /\ callback' = IF i \in waiter THEN [callback EXCEPT ![i] = [at |-> "count", core |-> AcceptCore]]
                 ELSE callback
  /\ session' = [session EXCEPT !.at = "erase"]
  /\ UNCHANGED <<core, pc, id, allocation_index_, node_index_, node, space, promise_map_,
                 num_nodes_alloc_, nids_, ready, used, raced, overlapped, aborted>>

Erase(i) ==
  /\ ~aborted
  /\ session = [node |-> i, at |-> "erase"] /\ callback[i].core # AcceptCore
  /\ promise_map_' = promise_map_ \ {i}
  /\ session' = [node |-> None, at |-> None]
  /\ UNCHANGED <<core, pc, id, allocation_index_, node_index_, node, space, future, waiter,
                 callback, num_nodes_alloc_, nids_, ready, used, raced, overlapped, aborted>>

\* SetIdSpace, and the constructor of EbbAllocator for the front end: the
\* interval is open at its right end, which is already the last of the space.
Global(m) == IF m # Hosted /\ node[m] \in {"off", "booted", "told"} THEN {}
             ELSE (space[m] * Span)..((space[m] + 1) * Span - 2)

\* EbbAllocator::Allocate: the first free identifier; throws when there is none.
Allocate(m) ==
  /\ ~aborted
  /\ LET free_global_ids_ == Global(m) \ used[m]
     IN  /\ free_global_ids_ # {}
         /\ used' = [used EXCEPT ![m] = @ \cup {CHOOSE g \in free_global_ids_ : \A h \in free_global_ids_ : g <= h}]
  /\ UNCHANGED <<core, pc, id, allocation_index_, node_index_, node, space, promise_map_, future,
                 waiter, session, callback, num_nodes_alloc_, nids_, ready, raced, overlapped, aborted>>

NodesNext ==
  \/ \E i \in Pool : \/ AllocateNode(i) \/ Insert(i) \/ Inserted(i) \/ Then(i) \/ Continuation(i)
                     \/ Accept(i) \/ Receive(i) \/ Find(i) \/ SetValue(i) \/ Erase(i)
  \/ \E m \in Pool \cup {Hosted} : Allocate(m)

NodesSpec == NodesInit /\ [][NodesNext]_nodeVars

-----------------------------------------------------------------------------
OneCore == Range(core) = {AcceptCore}

\* The pool comes up right: no two machines ever hand out the same global
\* identifier; an address in the pool is that of the node booted for its place;
\* as long as no two continuations of the pool overlap its promise is set once
\* and after every address; and with all of it on one core no node answers
\* before its promise is there, so that the pool is ready when all is quiet.
PoolRight ==
  /\ \A m, n \in Pool \cup {Hosted} : m # n => used[m] \cap used[n] = {}
  /\ \A i \in Pool : nids_[i] # None => nids_[i] = <<"address", id[i]>>
  /\ \A i, j \in Pool : i # j /\ id[i] # None => id[i] # id[j]
  /\ ~overlapped /\ ready > 0 => ready = 1 /\ None \notin Range(nids_)
  /\ OneCore => ~raced /\ ~overlapped /\ ~aborted
  /\ OneCore /\ (\A i \in Pool : node[i] = "known" /\ pc[i] = "done") /\ Free(AcceptCore) => ready = 1
=============================================================================
