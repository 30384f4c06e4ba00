----------------------------- MODULE ZooKeeperEbb -----------------------------
(***************************************************************************)
(* The ZooKeeper Ebb (src/libs/zookeeper/ZooKeeper.cc, ZooKeeper.h) and    *)
(* the map of Ebb ids built on it (ZKGlobalIdMap.h): events of one node    *)
(* that create, look up, write and delete paths and block on the answers,  *)
(* the cache of paths they share, and the timer that does the I/O.  The    *)
(* client library below is what module Zookeeper promises: every request   *)
(* is answered once, in order, or fails with the connection.               *)
(***************************************************************************)
EXTENDS Integers, Sequences, FiniteSets

CONSTANTS Caller,      \* events of the node
          PathPrefixes,    \* a path with its parents, from the root down
          None, MaxCalls, MaxLosses, MaxOthers

VARIABLES cache,     \* path_cache_
          nodes,     \* the paths the server has
          queue,     \* requests on their way, in order
          replies,   \* answers not yet delivered
          caller,    \* what each event is doing
          watcher,   \* the class of the Watcher registered on the path, or None
          told,      \* the callbacks a watcher has had
          connects,  \* times connected_ was given a value
          used,      \* calls, losses and changes by others so far
          stopped    \* kabort, with its message, or None

ebbVars == <<cache, nodes, queue, replies, caller, watcher, told, connects, used, stopped>>
Path == {PathPrefixes[i] : i \in DOMAIN PathPrefixes}
Leaf == PathPrefixes[Len(PathPrefixes)]
Idle == [pc |-> "idle", at |-> 0, found |-> FALSE]

\* ZooKeeper::Create and the constructor.
EbbInit ==
  /\ cache = {} /\ nodes = {} /\ queue = <<>> /\ replies = <<>>
  /\ caller = [c \in Caller |-> Idle] /\ watcher = None /\ told = {} /\ connects = 0
  /\ used = [calls |-> 0, losses |-> 0, others |-> 0] /\ stopped = None

Running == stopped = None
Asks(c, op, path) == queue' = Append(queue, [who |-> c, op |-> op, path |-> path])
Call(c) == Running /\ caller[c].pc = "idle" /\ used.calls < MaxCalls /\ used' = [used EXCEPT !.calls = @ + 1]
Now(c, pc, at, found) == caller' = [caller EXCEPT ![c] = [pc |-> pc, at |-> at, found |-> found]]

-----------------------------------------------------------------------------
\* Calls that issue one request and return a future.

New(c, path) ==
  /\ Call(c)
  /\ IF path \in cache
     THEN stopped' = "path already created" /\ UNCHANGED <<cache, queue, caller>>
     ELSE Asks(c, "create", path) /\ cache' = cache \cup {path} /\ Now(c, "future", 0, FALSE) /\ UNCHANGED stopped
  /\ UNCHANGED <<nodes, replies, watcher, told, connects>>

Request(c, op) ==
  /\ Call(c) /\ Asks(c, op, Leaf) /\ Now(c, "future", 0, FALSE)
  /\ UNCHANGED <<cache, nodes, replies, told, connects, stopped>>

Get(c) == Request(c, "get") /\ UNCHANGED watcher
Delete(c) == Request(c, "delete") /\ UNCHANGED watcher
GetChildren(c, w) == Request(c, "children") /\ watcher' = IF w = None THEN watcher ELSE w
Stat(c, w) == Request(c, "stat") /\ watcher' = IF w = None THEN watcher ELSE w

-----------------------------------------------------------------------------
\* Exists and Set, which block.  at is the prefix being looked up; Exists on
\* its own is a Set that stops after the lookup (at = 0).

\* Exists(path): the cache answers, or a Stat the event blocks on.
Exists(c) ==
  /\ Call(c)
  /\ IF Leaf \in cache THEN UNCHANGED <<queue, caller>>
     ELSE Asks(c, "stat", Leaf) /\ Now(c, "stat", 0, FALSE)
  /\ UNCHANGED <<cache, nodes, replies, watcher, told, connects, stopped>>

\* zoo_aset, at the end of Set.
Aset(c) ==
  Asks(c, "set", Leaf) /\ Now(c, "future", 0, FALSE)

\* The loop of Set from prefix i on, with the paths known so far.
Walk(c, i, known) ==
  LET unknown == {j \in i .. Len(PathPrefixes) : PathPrefixes[j] \notin known}
      j == CHOOSE k \in unknown : \A l \in unknown : k <= l
  IN  IF unknown = {} THEN Aset(c)
      ELSE Asks(c, "stat", PathPrefixes[j]) /\ Now(c, "stat", j, FALSE)

Set(c) ==
  /\ Call(c)
  /\ IF Leaf \in cache THEN Aset(c) ELSE Walk(c, 1, cache)
  /\ UNCHANGED <<cache, nodes, replies, watcher, told, connects, stopped>>

\* Exists goes on with the answer of its Stat: found, or New.
Statted(c) ==
  /\ Running /\ caller[c].pc = "statted"
  /\ LET at == caller[c].at
         path == IF at = 0 THEN Leaf ELSE PathPrefixes[at]
     IN  CASE caller[c].found ->
               /\ cache' = cache \cup {path} /\ UNCHANGED stopped
               /\ IF at = 0 THEN Now(c, "idle", 0, FALSE) /\ UNCHANGED queue
                  ELSE Walk(c, at + 1, cache')
           [] ~caller[c].found /\ at = 0 ->
               Now(c, "idle", 0, FALSE) /\ UNCHANGED <<cache, queue, stopped>>
           [] ~caller[c].found /\ at > 0 /\ path \in cache ->
               stopped' = "path already created" /\ UNCHANGED <<cache, queue, caller>>
           [] OTHER ->
               /\ Asks(c, "create", path) /\ cache' = cache \cup {path}
               /\ Now(c, "new", at, FALSE) /\ UNCHANGED stopped
  /\ UNCHANGED <<nodes, replies, watcher, told, connects, used>>

\* Set goes on with the answer of Exists.
Created(c) ==
  /\ Running /\ caller[c].pc = "created"
  /\ IF caller[c].found
     THEN Walk(c, caller[c].at + 1, cache) /\ UNCHANGED stopped
     ELSE stopped' = "error when creating path" /\ UNCHANGED <<queue, caller>>
  /\ UNCHANGED <<cache, nodes, replies, watcher, told, connects, used>>

-----------------------------------------------------------------------------
\* Fire, and the completions it calls.

\* stat_completion, string_completion, data_completion, strings_completion and
\* void_completion: the promise is given the answer, and the event that blocks
\* on it runs again.
Completed(c, ok) ==
  LET next == CASE caller[c].pc = "stat" -> "statted"
                [] caller[c].pc = "new" -> "created"
                [] OTHER -> "idle"
  IN  Now(c, next, caller[c].at, ok)

\* zookeeper_process delivers one answer.
Fire ==
  /\ Running /\ replies # <<>>
  /\ replies' = Tail(replies)
  /\ Completed(Head(replies).who, Head(replies).ok)
  /\ UNCHANGED <<cache, nodes, queue, watcher, told, connects, used, stopped>>

\* The WatchHandler of the watcher classes: the callback it calls, "abort" or None.
WatchHandler(class, type) ==
  CASE class = "connection" -> IF type = "session" THEN "OnConnected" ELSE "abort"
    [] class = "path" -> CASE type = "created" -> "OnCreated"
                           [] type = "deleted" -> "OnDeleted"
                           [] type = "changed" -> "OnChanged"
                           [] OTHER -> "abort"
    [] class = "child" -> IF type = "created" THEN "abort" ELSE None
    [] class = "event" -> IF type = "created" THEN "func" ELSE None

\* event_completion.  A node event uses the watcher up; a session event goes to
\* the connection's watcher and to every other.
Watched(type) ==
  LET said == IF watcher = None THEN None ELSE WatchHandler(watcher, type)
  IN  /\ told' = IF said \in {None, "abort"} THEN told ELSE told \cup {said}
      /\ stopped' = IF said = "abort" THEN "Unsupported event type" ELSE stopped
      /\ watcher' = IF type = "session" THEN watcher ELSE None

WatchEvent(type) ==
  /\ Running /\ watcher # None /\ used.others < MaxOthers
  /\ used' = [used EXCEPT !.others = @ + 1]
  /\ Watched(type)
  /\ UNCHANGED <<cache, nodes, queue, replies, caller, connects>>

\* Seeded fault: only the answers that arrived are delivered.
LosesAll ==
  /\ Running /\ used.losses < MaxLosses /\ used' = [used EXCEPT !.losses = @ + 1]
  /\ queue' = <<>> /\ Watched("session")
  /\ UNCHANGED <<cache, nodes, replies, caller, connects>>

\* zookeeper_process finds the connection gone: every outstanding request fails.
\* Fire does not look at what zookeeper_process returns.
Loses ==
  /\ Running /\ used.losses < MaxLosses /\ used' = [used EXCEPT !.losses = @ + 1]
  /\ queue' = <<>> /\ replies' = <<>>
  /\ caller' = [c \in Caller |->
       CASE caller[c].pc = "stat" -> [pc |-> "statted", at |-> caller[c].at, found |-> FALSE]
         [] caller[c].pc = "new" -> [pc |-> "created", at |-> caller[c].at, found |-> FALSE]
         [] caller[c].pc = "future" -> Idle
         [] OTHER -> caller[c]]
  /\ Watched("session")
  /\ UNCHANGED <<cache, nodes, connects>>

\* zookeeper_interest finds it out: a connection attempt fails or the receive
\* timeout passes.
Aborts ==
  /\ Running /\ used.losses < MaxLosses /\ used' = [used EXCEPT !.losses = @ + 1]
  /\ stopped' = "zookeeper_interest error"
  /\ UNCHANGED <<cache, nodes, queue, replies, caller, watcher, told, connects>>

\* The session is there (again): ConnectionWatcher::OnConnected of ZKGlobalIdMap.
Connects ==
  /\ Running /\ connects <= used.losses
  /\ connects' = connects + 1
  /\ Watched("session")
  /\ UNCHANGED <<cache, nodes, queue, replies, caller, used>>

-----------------------------------------------------------------------------
\* The server and its other clients (external).

Parents(path) == {PathPrefixes[i] : i \in {j \in DOMAIN PathPrefixes : \E k \in DOMAIN PathPrefixes : PathPrefixes[k] = path /\ j < k}}
Children(path) == {q \in Path : path \in Parents(q)}

Answers(r) ==
  CASE r.op = "create" -> r.path \notin nodes /\ Parents(r.path) \subseteq nodes
    [] r.op = "delete" -> r.path \in nodes /\ Children(r.path) \cap nodes = {}
    [] OTHER -> r.path \in nodes

Serve ==
  /\ queue # <<>>
  /\ LET r == Head(queue)
         ok == Answers(r)
     IN  /\ replies' = Append(replies, [who |-> r.who, ok |-> ok])
         /\ nodes' = CASE ok /\ r.op = "create" -> nodes \cup {r.path}
                       [] ok /\ r.op = "delete" -> nodes \ {r.path}
                       [] OTHER -> nodes
  /\ queue' = Tail(queue)
  /\ UNCHANGED <<cache, caller, watcher, told, connects, used, stopped>>

\* Another client makes the path with its parents.
Other ==
  /\ used.others < MaxOthers /\ ~(Path \subseteq nodes)
  /\ used' = [used EXCEPT !.others = @ + 1] /\ nodes' = Path
  /\ UNCHANGED <<cache, queue, replies, caller, watcher, told, connects, stopped>>

EbbNext ==
  \/ \E c \in Caller :
       \/ Get(c) \/ Delete(c) \/ Exists(c) \/ Set(c) \/ Statted(c) \/ Created(c)
       \/ \E p \in Path : New(c, p)
       \/ \E w \in {None, "path", "child", "event"} : Stat(c, w) \/ GetChildren(c, w)
  \/ Fire \/ Loses \/ Aborts \/ Connects \/ Serve \/ Other
  \/ \E type \in {"created", "deleted", "changed", "childchanged"} : WatchEvent(type)

EbbSpec == EbbInit /\ [][EbbNext]_ebbVars

-----------------------------------------------------------------------------
\* Properties.

\* The requests and answers of c that are on their way.
Underway(c) == {<<"request", i>> : i \in {j \in DOMAIN queue : queue[j].who = c}}
                 \cup {<<"answer", i>> : i \in {j \in DOMAIN replies : replies[j].who = c}}

\* Nobody waits for an answer that will not come, and no answer comes to who does
\* not wait: an event that blocked in Exists or Set, or holds a future, has exactly
\* one request or answer on its way, whatever connections are lost and whoever
\* else asks; an event that runs has none (the completions of ZooKeeper.cc,
\* free_completions on a lost connection).
ZooKeeperCallersReturn ==
  Running => \A c \in Caller :
    IF caller[c].pc \in {"idle", "statted", "created"} THEN Underway(c) = {}
    ELSE \E u \in Underway(c) : Underway(c) = {u}
=============================================================================
