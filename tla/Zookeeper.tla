------------------------------ MODULE Zookeeper ------------------------------
(***************************************************************************)
(* The ZooKeeper client (src/libs/zookeeper/zookeeper/src/zookeeper.c,     *)
(* zk_hashtable.c, st_adaptor.c): the handle with its queues, its session  *)
(* and its watchers, as zookeeper_interest, zookeeper_process and the      *)
(* asynchronous calls change them, against a server and a network that can *)
(* lose the connection at any time.  The library is single-threaded; user  *)
(* callbacks run inside process_completions and may call the library, so   *)
(* the two loops over callbacks are steps of their own (pc = "deliver")    *)
(* and everything else of a call is one step.  Requests are about one node.*)
(***************************************************************************)
EXTENDS Integers, Sequences, SequencesExt, FiniteSets

CONSTANTS Addrs,       \* addrs_count
          Watcher,     \* watcher contexts
          None,
          Budgets      \* bounds: how much of each kind a behaviour contains

VARIABLES zh,        \* state, fd, index, session, zxid, refs, closing, closed
          to_send,   \* packets; part: the head has been sent in part
          sent,      \* sent_requests
          todo,      \* completions_to_process
          watchers,  \* active_node_watchers, _exist_, _child_
          auths,     \* auth_h: completions still to be called
          pc, cont,  \* where zookeeper_interest or zookeeper_process is
          err,       \* the code handle_error was called with
          link,      \* the connection: "none", "syn", "up" or "broken"
          up, down,  \* the bytes on their way, as packets
          server,    \* the server's node, sessions and watches
          called,    \* history: callbacks of requests, in order
          issued,    \* history: requests the client took
          bounds,    \* what may still happen; ops: the requests used
          halted     \* the assertion that failed, or None

zkVars == <<zh, to_send, sent, todo, watchers, auths, pc, cont, err, link, up, down,
            server, called, issued, bounds, halted>>
wire == <<link, up, down, server, bounds>>
history == <<called, issued, halted>>

Table == {"node", "exist", "child"}

\* zookeeper_init.
ZkInit ==
  /\ zh = [state |-> "notconnected", fd |-> FALSE, index |-> 0, session |-> 0, zxid |-> 0,
           refs |-> 0, closing |-> FALSE, closed |-> "no"]
  /\ to_send = <<>> /\ sent = <<>> /\ todo = <<>> /\ watchers = [t \in Table |-> {}]
  /\ auths = <<>> /\ pc = "idle" /\ cont = "end" /\ err = [rc |-> "ZOK", then |-> "end"]
  /\ link = "none" /\ up = <<>> /\ down = <<>>
  /\ server = [zxid |-> 1, node |-> 1, kids |-> 1, sessions |-> 0, alive |-> FALSE, data |-> FALSE, child |-> FALSE]
  /\ called = <<>> /\ issued = 0 /\ halted = None
  /\ bounds \in Budgets

unrecoverable(state) == state \in {"expired", "authfailed"}   \* is_unrecoverable
Alive == zh.closed = "no" /\ halted = None

\* A packet of the client; specials have no xid.
Packet(xid, op, w) == [xid |-> xid, op |-> op, watch |-> w, part |-> FALSE]
Special(op) == Packet(0, op, None)
SetWatches(z, W) == [xid |-> 0, op |-> "setwatches", watch |-> [zxid |-> z, tables |-> {t \in Table : W[t] # {}}], part |-> FALSE]

\* flush_send_queue: in the connected state everything leaves, or the first
\* packet leaves in part, or the connection fails and nothing does.
Whole(p) == [p EXCEPT !.part = FALSE]
Flush(q, state) ==
  \/ /\ link = "up" /\ state = "connected" /\ q # <<>>
     /\ up' = up \o [i \in DOMAIN q |-> Whole(q[i])] /\ to_send' = <<>>
  \/ /\ link = "up" /\ state = "connected" /\ q # <<>>
     /\ to_send' = [q EXCEPT ![1].part = TRUE] /\ UNCHANGED up
  \/ /\ link # "up" \/ state # "connected" \/ q = <<>>
     /\ to_send' = q /\ UNCHANGED up

\* queue_front_buffer_bytes.  In front of a packet that has left in part, the
\* server can no longer tell the packets apart.
Torn(q) == Len(q) > 1 /\ \E i \in 2 .. Len(q) : q[i].part

-----------------------------------------------------------------------------
\* Requests.

\* Where activateWatcher puts a watcher: exists_result_checker,
\* data_result_checker, child_result_checker.
Checked(op, rc) ==
  CASE op = "exists" /\ rc = "ZOK" -> {"node"}
    [] op = "exists" /\ rc = "ZNONODE" -> {"exist"}
    [] op = "get" /\ rc = "ZOK" -> {"node"}
    [] op \in {"get_children", "get_children2"} /\ rc = "ZOK" -> {"child"}
    [] OTHER -> {}

\* add_completion and queue_buffer_bytes, then adaptor_send_queue.  After
\* zookeeper_close nothing is taken any more.
Submit(op, w) ==
  /\ Alive /\ pc \in {"idle", "deliver"} /\ ~unrecoverable(zh.state) /\ issued < bounds.requests /\ op \in bounds.ops
  /\ IF zh.closing
     THEN UNCHANGED <<sent, issued>> /\ Flush(to_send, zh.state)
     ELSE /\ issued' = issued + 1
          /\ sent' = Append(sent, [xid |-> issued', op |-> op, watch |-> w])
          /\ Flush(Append(to_send, Packet(issued', op, w)), zh.state)
  /\ UNCHANGED <<zh, todo, watchers, auths, pc, cont, err, link, down, server, called, bounds, halted>>

zoo_awget(w) == Submit("get", w)
zoo_aset == Submit("set", None)
zoo_acreate == Submit("create", None)
zoo_adelete == Submit("delete", None)
zoo_awexists(w) == Submit("exists", w)
zoo_awget_children(w) == Submit("get_children", w)
zoo_awget_children2(w) == Submit("get_children2", w)
zoo_async == Submit("sync", None)
zoo_aget_acl == Submit("get_acl", None)
zoo_aset_acl == Submit("set_acl", None)
zoo_amulti == Submit("multi", None)

\* zoo_add_auth: not before the first connection attempt and not between two.
zoo_add_auth ==
  /\ Alive /\ pc \in {"idle", "deliver"} /\ ~unrecoverable(zh.state) /\ zh.state # "zero"
  /\ Len(auths) < bounds.auths
  /\ auths' = Append(auths, [pending |-> TRUE])
  /\ LET q == IF zh.state \in {"connected", "associating"} THEN <<Special("auth")>> \o to_send ELSE to_send
     IN  /\ to_send' = q
         /\ link' = IF Torn(q) /\ link = "up" THEN "broken" ELSE link
  /\ UNCHANGED <<zh, sent, todo, watchers, pc, cont, err, up, down, server, called, issued, bounds, halted>>

-----------------------------------------------------------------------------
\* Errors, callbacks and the end of a call.

Called(rc) == [i \in DOMAIN sent |-> [xid |-> sent[i].xid, op |-> sent[i].op, rc |-> rc]]
SessionEvent == [xid |-> 0, op |-> "event", rc |-> "session"]
NoneWait == [i \in DOMAIN auths |-> [pending |-> FALSE]]

\* handle_error up to cleanup_bufs; h is the handle as the caller left it.
\* The session event and what waits before it are delivered first.
HandleError(h, rc, then) ==
  /\ LET event == unrecoverable(h.state) \/ h.state = "connected"
     IN  /\ todo' = IF event THEN Append(todo, SessionEvent) ELSE todo
         /\ pc' = IF event THEN "deliver" ELSE "cleanup"
  /\ zh' = h /\ err' = [rc |-> rc, then |-> then] /\ cont' = "cleanup"
  /\ link' = "none" /\ up' = <<>> /\ down' = <<>>
  /\ UNCHANGED <<to_send, sent, watchers, server, called, issued, halted>>

\* Seeded fault: cleanup_bufs without calling the completions.
CleanupQuiet ==
  /\ Alive /\ pc = "cleanup"
  /\ to_send' = <<>> /\ sent' = <<>> /\ auths' = NoneWait
  /\ zh' = [zh EXCEPT !.fd = FALSE, !.index = @ + 1, !.state = IF unrecoverable(@) THEN @ ELSE "zero"]
  /\ pc' = "deliver" /\ cont' = err.then
  /\ UNCHANGED <<todo, watchers, err, wire, called, issued, halted>>

\* handle_error from cleanup_bufs on.
Cleanup ==
  /\ Alive /\ pc = "cleanup"
  /\ to_send' = <<>> /\ todo' = todo \o Called(err.rc) /\ sent' = <<>>
  /\ auths' = NoneWait
  /\ zh' = [zh EXCEPT !.fd = FALSE, !.index = @ + 1, !.state = IF unrecoverable(@) THEN @ ELSE "zero"]
  /\ pc' = "deliver" /\ cont' = err.then
  /\ UNCHANGED <<watchers, err, wire, called, issued, halted>>

\* deserialize_multi: for a request that failed there is only a header to
\* read the results from, no entry says it is the last, and the list runs out.
MultiRunsOut(c) == c.op = "multi" /\ c.rc # "ZOK"

\* deserialize_response calls the completion with what the reply holds.
Response(c) == IF c.op = "event" \/ MultiRunsOut(c) THEN <<>> ELSE <<c.xid>>

\* process_completions: one callback.
Deliver ==
  /\ Alive /\ pc = "deliver" /\ todo # <<>>
  /\ todo' = Tail(todo)
  /\ LET c == Head(todo)
     IN  /\ called' = called \o Response(c)
         /\ halted' = IF MultiRunsOut(c) THEN "assert(entry)" ELSE halted
  /\ UNCHANGED <<zh, to_send, sent, watchers, auths, pc, cont, err, wire, issued>>

\* destroy, after zookeeper_close has sent the close request: completions are
\* put where nothing will call them, those of auths are called.
Destroy(h, how) ==
  /\ zh' = [h EXCEPT !.closed = how, !.fd = FALSE, !.state = IF h.fd THEN "zero" ELSE h.state]
  /\ to_send' = <<>> /\ todo' = todo \o Called("ZCLOSING") /\ sent' = <<>>
  /\ auths' = NoneWait
  /\ IF link = "up" /\ h.state = "connected" /\ ~Torn(to_send)
     THEN link' = "fin" /\ up' = up \o [i \in DOMAIN to_send |-> Whole(to_send[i])] \o <<Special("close")>>
     ELSE link' = "none" /\ up' = <<>>
  /\ down' = <<>>
  /\ UNCHANGED <<watchers, err, server, bounds, called, issued, halted>>

\* The end of handle_error, or of the call: api_epilog.  The path for an
\* unexpected response (cont = "leak") returns without it.
DeliverDone ==
  /\ Alive /\ pc = "deliver" /\ todo = <<>>
  /\ CASE cont = "cleanup" ->
            pc' = "cleanup" /\ UNCHANGED <<zh, to_send, sent, todo, watchers, auths, cont, err, wire, history>>
       [] cont = "leak" ->
            pc' = "idle" /\ UNCHANGED <<zh, to_send, sent, todo, watchers, auths, cont, err, wire, history>>
       [] cont = "end" /\ zh.refs = 1 /\ zh.closing ->
            pc' = "idle" /\ Destroy(zh, "inside") /\ UNCHANGED cont
       [] OTHER ->
            /\ pc' = "idle" /\ zh' = [zh EXCEPT !.refs = @ - 1]
            /\ UNCHANGED <<to_send, sent, todo, watchers, auths, cont, err, wire, history>>

\* zookeeper_close: at once, or, inside a callback, when the call ends.
zookeeper_close ==
  /\ Alive /\ pc \in {"idle", "deliver"} /\ ~zh.closing
  /\ LET h == [zh EXCEPT !.closing = TRUE]
     IN  IF zh.refs > 0
         THEN /\ zh' = h /\ todo' = todo \o Called("ZCLOSING") /\ sent' = <<>>
              /\ auths' = NoneWait
              /\ UNCHANGED <<to_send, watchers, err, wire, called, issued, halted>>
         ELSE Destroy(h, "outside")
  /\ UNCHANGED <<pc, cont>>

-----------------------------------------------------------------------------
\* zookeeper_interest.

Entered == [zh EXCEPT !.refs = @ + 1]        \* api_prolog
Idle == Alive /\ pc = "idle" /\ ~unrecoverable(zh.state)
SameAuth == UNCHANGED auths

Prime == [xid |-> zh.session, op |-> "prime", watch |-> None, part |-> FALSE]

\* All servers have been tried: begin again at the next call.
NextRound ==
  /\ Idle /\ ~zh.fd /\ zh.index = Addrs
  /\ zh' = [zh EXCEPT !.index = 0]
  /\ UNCHANGED <<to_send, sent, todo, watchers, auths, pc, cont, err, wire, history>>

\* connect() is under way, or done and prime_connection has sent the handshake.
Connect ==
  /\ Idle /\ ~zh.fd /\ zh.index < Addrs
  /\ \/ zh' = [zh EXCEPT !.fd = TRUE, !.state = "connecting"] /\ link' = "syn" /\ UNCHANGED up
     \/ zh' = [zh EXCEPT !.fd = TRUE, !.state = "associating"] /\ link' = "up" /\ up' = <<Prime>>
  /\ UNCHANGED <<to_send, sent, todo, watchers, auths, pc, cont, err, down, server, bounds, history>>

\* socket() or connect() fails, or the handshake cannot be sent.
ConnectFails ==
  /\ Idle /\ ~zh.fd /\ zh.index < Addrs
  /\ HandleError(Entered, "ZCONNECTIONLOSS", "end") /\ SameAuth /\ UNCHANGED bounds

\* The receive timeout: nothing has arrived for two thirds of it.
TimesOut ==
  /\ Idle /\ zh.fd /\ bounds.breaks > 0
  /\ bounds' = [bounds EXCEPT !.breaks = @ - 1]
  /\ HandleError(Entered, "ZOPERATIONTIMEOUT", "end") /\ SameAuth

\* send_ping: only when no request is outstanding.
send_ping ==
  /\ Idle /\ zh.fd /\ zh.state = "connected" /\ sent = <<>> /\ bounds.pings > 0
  /\ bounds' = [bounds EXCEPT !.pings = @ - 1]
  /\ Flush(Append(to_send, Special("ping")), zh.state)
  /\ UNCHANGED <<zh, sent, todo, watchers, auths, pc, cont, err, link, down, server, history>>

-----------------------------------------------------------------------------
\* zookeeper_process: check_events, then the reply, then the callbacks.

\* A writable socket finishes the connection attempt.
Connected ==
  /\ Idle /\ zh.state = "connecting" /\ link \in {"syn", "broken"}
  /\ IF link = "broken"
     THEN HandleError(Entered, "ZCONNECTIONLOSS", "end")
     ELSE /\ zh' = [zh EXCEPT !.state = "associating"] /\ link' = "up" /\ up' = <<Prime>>
          /\ UNCHANGED <<to_send, sent, todo, watchers, pc, cont, err, down, server, called, issued, halted>>
  /\ SameAuth /\ UNCHANGED bounds

\* A writable socket takes what waits.
Write ==
  /\ Idle /\ zh.fd /\ zh.state = "connected" /\ to_send # <<>>
  /\ IF link = "up"
     THEN /\ Flush(to_send, zh.state)
          /\ UNCHANGED <<zh, sent, todo, watchers, pc, cont, err, link, down, server, called, issued, halted>>
     ELSE HandleError(Entered, "ZCONNECTIONLOSS", "end")
  /\ SameAuth /\ UNCHANGED bounds

\* recv fails once everything that arrived has been read.
Lost ==
  /\ Idle /\ zh.fd /\ link = "broken" /\ down = <<>>
  /\ HandleError(Entered, "ZCONNECTIONLOSS", "end") /\ SameAuth /\ UNCHANGED bounds

Took(h, q) ==   \* the reply leaves the wire; the callbacks follow
  /\ down' = Tail(down) /\ zh' = h /\ todo' = q /\ pc' = "deliver" /\ cont' = "end"
  /\ UNCHANGED <<err, link, server, called, issued>>

\* send_set_watches, then send_auth_info: both in front of what waits.
Restored(h) ==
  LET w == IF \E t \in Table : watchers[t] # {} THEN <<SetWatches(h.zxid, watchers)>> ELSE <<>>
  IN  [i \in DOMAIN auths |-> Special("auth")] \o w \o to_send

\* The handshake is complete: a new session, the old one, or it has expired.
Primed ==
  /\ Idle /\ zh.state = "associating" /\ down # <<>> /\ Head(down).op = "prime"
  /\ LET id == Head(down).xid
     IN  IF zh.session # 0 /\ id # zh.session
         THEN HandleError([Entered EXCEPT !.state = "expired"], "ZSESSIONEXPIRED", "end")
         ELSE LET h == [Entered EXCEPT !.state = "connected", !.session = id]
              IN  /\ Took(h, Append(todo, SessionEvent))
                  /\ to_send' = Restored(h)
                  /\ UNCHANGED <<sent, watchers, up, halted>>
  /\ SameAuth /\ UNCHANGED bounds

\* The tables collectWatchers empties.
Fires(type) ==
  CASE type \in {"created", "changed"} -> {"node", "exist"}
    [] type = "child" -> {"child"}
    [] type = "deleted" -> Table

\* collectWatchers: a watcher is told once.
Collected(type) == [t \in Table |-> IF t \in Fires(type) THEN {} ELSE watchers[t]]

\* activateWatcher: the reply decides whether and where.
Activated(c, rc) ==
  [t \in Table |-> IF c.watch # None /\ t \in Checked(c.op, rc) THEN watchers[t] \cup {c.watch} ELSE watchers[t]]

\* A reply of the server.  Only a response of a request takes a completion.
Reply ==
  /\ UNCHANGED bounds
  /\ Idle /\ zh.state = "connected" /\ down # <<>> /\ Head(down).op # "prime"
  /\ LET r == Head(down)
         h == IF r.zxid > 0 THEN [Entered EXCEPT !.zxid = r.zxid] ELSE Entered
         c == Head(sent)
     IN CASE r.op \in {"ping", "setwatches"} ->
               Took(h, todo) /\ UNCHANGED <<to_send, sent, watchers, auths, up, halted>>
          [] r.op = "event" ->
               /\ Took(h, Append(todo, [xid |-> 0, op |-> "event", rc |-> r.rc]))
               /\ watchers' = Collected(r.rc)
               /\ UNCHANGED <<to_send, sent, auths, up, halted>>
          [] r.op = "auth" ->
               /\ auths' = NoneWait
               /\ IF r.rc = "ZOK" THEN Took(h, todo) /\ UNCHANGED <<to_send, sent, watchers, up, halted>>
                  ELSE HandleError([h EXCEPT !.state = "authfailed"], "ZAUTHFAILED", "end")
          [] r.op = "reply" /\ sent = <<>> ->
               /\ down' = Tail(down) /\ halted' = IF zh.closing THEN None ELSE "assert(cptr)"
               /\ zh' = [h EXCEPT !.refs = zh.refs]
               /\ UNCHANGED <<to_send, sent, todo, watchers, auths, pc, cont, err, link, up, server, called, issued>>
          [] r.op = "reply" /\ sent # <<>> /\ r.xid # c.xid ->
               HandleError(h, "ZRUNTIMEINCONSISTENCY", "leak") /\ SameAuth
          [] OTHER ->
               /\ Took(h, Append(todo, [xid |-> c.xid, op |-> c.op, rc |-> r.rc]))
               /\ sent' = Tail(sent)
               /\ watchers' = Activated(c, r.rc)
               /\ UNCHANGED <<to_send, auths, up, halted>>

-----------------------------------------------------------------------------
\* The server, the other clients and the network (external).

Answer(op, xid, z, rc) == [op |-> op, xid |-> xid, zxid |-> z, rc |-> rc]

\* What a change does to the node, and the event the connection's watches get.
Changed(s, kind) ==
  LET z == s.zxid + 1
  IN  CASE kind = "set" -> [s EXCEPT !.zxid = z, !.node = z, !.data = FALSE]
        [] kind = "create" -> [s EXCEPT !.zxid = z, !.node = z, !.kids = z, !.data = FALSE]
        [] kind = "delete" -> [s EXCEPT !.zxid = z, !.node = 0, !.data = FALSE, !.child = FALSE]
        [] kind = "kid" -> [s EXCEPT !.zxid = z, !.kids = z, !.child = FALSE]
Event(s, kind) ==
  LET e(type) == <<Answer("event", 0, -1, type)>>
  IN  CASE kind = "set" /\ s.data -> e("changed")
        [] kind = "create" /\ s.data -> e("created")
        [] kind = "delete" /\ (s.data \/ s.child) -> e("deleted")
        [] kind = "kid" /\ s.child -> e("child")
        [] OTHER -> <<>>
Possible(s, kind) == IF kind = "create" THEN s.node = 0 ELSE s.node # 0

\* What a request does: the server afterwards, and what it sends.
Served(s, p) ==
  LET say(t, z, rc) == [s |-> t, out |-> <<Answer("reply", p.xid, z, rc)>>]
      watch == p.watch # None
  IN  CASE p.op \in {"set", "create", "delete"} ->
             IF Possible(s, p.op)
             THEN [s |-> Changed(s, p.op),
                   out |-> Event(s, p.op) \o <<Answer("reply", p.xid, s.zxid + 1, "ZOK")>>]
             ELSE say(s, s.zxid, IF p.op = "create" THEN "ZNODEEXISTS" ELSE "ZNONODE")
        [] p.op = "exists" ->
             say([s EXCEPT !.data = @ \/ watch], s.zxid, IF s.node # 0 THEN "ZOK" ELSE "ZNONODE")
        [] p.op = "get" /\ s.node # 0 -> say([s EXCEPT !.data = @ \/ watch], s.zxid, "ZOK")
        [] p.op \in {"get_children", "get_children2"} /\ s.node # 0 ->
             say([s EXCEPT !.child = @ \/ watch], s.zxid, "ZOK")
        [] p.op \in {"get", "get_children", "get_children2"} /\ s.node = 0 -> say(s, s.zxid, "ZNONODE")
        [] OTHER -> say(s, s.zxid, "ZOK")

\* SetWatches: a watch is set again, or what it would have seen is sent.
Rewatched(s, p) ==
  LET rel == p.watch.zxid
      T == p.watch.tables
      missed == (IF "node" \in T /\ s.node = 0 THEN {"deleted"} ELSE {})
           \cup (IF "node" \in T /\ s.node > rel THEN {"changed"} ELSE {})
           \cup (IF "exist" \in T /\ s.node # 0 THEN {"created"} ELSE {})
           \cup (IF "child" \in T /\ s.node = 0 THEN {"deleted"} ELSE {})
           \cup (IF "child" \in T /\ s.node # 0 /\ s.kids > rel THEN {"child"} ELSE {})
  IN  [s |-> [s EXCEPT !.data = @ \/ ("node" \in T /\ s.node \in 1 .. rel) \/ ("exist" \in T /\ s.node = 0),
                       !.child = @ \/ ("child" \in T /\ s.node # 0 /\ s.kids <= rel)],
       out |-> [i \in 1 .. Cardinality(missed) |-> Answer("event", 0, -1, SetToSeq(missed)[i])]
               \o <<Answer("setwatches", 0, s.zxid, "ZOK")>>]

\* The handshake: a session is made, found again, or gone (0).
Welcomed(s, p) ==
  LET new == p.xid = 0
      id == IF new THEN s.sessions + 1 ELSE IF s.alive THEN p.xid ELSE 0
  IN  [s |-> [s EXCEPT !.sessions = IF new THEN @ + 1 ELSE @, !.alive = @ \/ new, !.data = FALSE, !.child = FALSE],
       out |-> <<Answer("prime", id, 0, "ZOK")>>]

Serve ==
  /\ link \in {"up", "fin"} /\ up # <<>>
  /\ up' = Tail(up)
  /\ LET p == Head(up)
         result(x) == server' = x.s /\ down' = IF link = "up" THEN down \o x.out ELSE down
     IN  CASE p.op = "prime" -> result(Welcomed(server, p)) /\ UNCHANGED bounds
           [] p.op = "setwatches" -> result(Rewatched(server, p)) /\ UNCHANGED bounds
           [] p.op = "ping" -> result([s |-> server, out |-> <<Answer("ping", 0, server.zxid, "ZOK")>>]) /\ UNCHANGED bounds
           [] p.op = "close" -> result([s |-> [server EXCEPT !.alive = FALSE], out |-> <<>>]) /\ UNCHANGED bounds
           [] p.op = "auth" ->
                \/ result([s |-> server, out |-> <<Answer("auth", 0, 0, "ZOK")>>]) /\ UNCHANGED bounds
                \/ /\ bounds.wrong > 0 /\ bounds' = [bounds EXCEPT !.wrong = @ - 1]
                   /\ result([s |-> server, out |-> <<Answer("auth", 0, 0, "ZAUTHFAILED")>>])
           [] OTHER ->
                \/ result(Served(server, p)) /\ UNCHANGED bounds
                \/ /\ bounds.wrong > 0 /\ bounds' = [bounds EXCEPT !.wrong = @ - 1]
                   /\ result([s |-> server, out |-> <<Answer("reply", p.xid + 1, server.zxid, "ZOK")>>])
  /\ UNCHANGED <<zh, to_send, sent, todo, watchers, auths, pc, cont, err, link, history>>

\* Another client changes the node.
Change(kind) ==
  /\ bounds.changes > 0 /\ bounds' = [bounds EXCEPT !.changes = @ - 1]
  /\ Possible(server, kind)
  /\ server' = Changed(server, kind)
  /\ down' = IF link = "up" THEN down \o Event(server, kind) ELSE down
  /\ UNCHANGED <<zh, to_send, sent, todo, watchers, auths, pc, cont, err, link, up, history>>

\* The connection breaks; what the client has not read may still be there.
Break ==
  /\ link \in {"syn", "up"} /\ bounds.breaks > 0
  /\ bounds' = [bounds EXCEPT !.breaks = @ - 1]
  /\ link' = "broken" /\ up' = <<>> /\ \E k \in 0 .. Len(down) : down' = SubSeq(down, 1, k)
  /\ UNCHANGED <<zh, to_send, sent, todo, watchers, auths, pc, cont, err, server, history>>

\* A session without a connection ends.
Expire ==
  /\ link \in {"none", "broken"} /\ server.alive
  /\ server' = [server EXCEPT !.alive = FALSE]
  /\ UNCHANGED <<zh, to_send, sent, todo, watchers, auths, pc, cont, err, link, up, down, bounds, history>>

ZkNext ==
  \/ \E w \in Watcher : zoo_awget(w) \/ zoo_awexists(w) \/ zoo_awget_children(w) \/ zoo_awget_children2(w)
  \/ zoo_aset \/ zoo_acreate \/ zoo_adelete \/ zoo_async \/ zoo_aget_acl \/ zoo_aset_acl \/ zoo_amulti
  \/ zoo_add_auth \/ zookeeper_close
  \/ Cleanup \/ Deliver \/ DeliverDone
  \/ NextRound \/ Connect \/ ConnectFails \/ TimesOut \/ send_ping
  \/ Connected \/ Write \/ Lost \/ Primed \/ Reply
  \/ Serve \/ Break \/ Expire \/ \E k \in {"set", "create", "delete", "kid"} : Change(k)

ZkSpec == ZkInit /\ [][ZkNext]_zkVars

-----------------------------------------------------------------------------
\* Properties.

\* Every request the client took is in exactly one place, and the callbacks
\* are called once each and in the order of the requests, across connections
\* lost at any moment and callbacks that issue requests (zookeeper.c: add_completion,
\* free_completions, process_completions, zookeeper_process).
CompletedOnceInOrder ==
  LET ids(q) == [i \in DOMAIN q |-> q[i].xid]
      requests == SelectSeq(todo, LAMBDA c : c.op # "event")
  IN  halted = None => called \o ids(requests) \o ids(sent) = [i \in 1 .. issued |-> i]

\* A watcher a reply activated is not forgotten: in a session that is
\* connected, the server watches for it, or the event it waits for or the
\* request to watch again is on its way (send_set_watches, activateWatcher,
\* collectWatchers).
WatchesKept ==
  (Alive /\ zh.state = "connected" /\ link = "up") =>
    LET soon(types) == \E i \in DOMAIN down : down[i].op = "event" /\ down[i].rc \in types
        again(t) == \E q \in {to_send, up} : \E i \in DOMAIN q : q[i].op = "setwatches" /\ t \in q[i].watch.tables
    IN  /\ \A t \in {"node", "exist"} :
             watchers[t] # {} => server.data \/ soon({"created", "changed", "deleted"}) \/ again(t)
        /\ watchers["child"] # {} => server.child \/ soon({"child", "deleted"}) \/ again("child")

\* Closed from inside a callback, the client calls the callback of every
\* request it took before the handle goes (zookeeper_close, api_epilog).
ClosedInsideCompletes == zh.closed = "inside" => Len(called) = issued

=============================================================================
