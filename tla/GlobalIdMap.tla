----------------------------- MODULE GlobalIdMap -----------------------------
(***************************************************************************)
(* The messenger and its first client, the global identifier map.          *)
(*                                                                         *)
(* Messages go between the hosted front end and a native back end          *)
(* (src/src/hosted/Messenger.cc, src/src/native/Messenger.cc).  A node     *)
(* opens a connection with its first Send and accepts one when the other   *)
(* node opens it; both sides then use it.  Send locks twice: once to make  *)
(* sure there is an entry for the peer, once (hosted) or not at all        *)
(* (native) to hand the message over, and other Sends, the accept handler  *)
(* and the connect handler run between the two.  TCP is reliable and       *)
(* ordered; the connections of the two nodes are identified by who opened  *)
(* them.                                                                   *)
(*                                                                         *)
(* The map from Ebb ids to the data of their roots: kept by the front end  *)
(* (src/src/hosted/GlobalIdMap.cc) and asked by the cores of a back end    *)
(* over the messenger (src/src/native/GlobalIdMap.cc, GlobalIdMap.h,       *)
(* src/src/Message.cc).  The back end keeps a promise per request in map_, *)
(* under the number it sends along; the rep that holds map_ is built by    *)
(* the first fault and shared by the cores.                                *)
(***************************************************************************)
EXTENDS Naturals, Sequences, SequencesExt, FiniteSets

CONSTANTS FrontEnd, BackEnd

Node == {FrontEnd, BackEnd}
Peer(n) == IF n = FrontEnd THEN BackEnd ELSE FrontEnd

VARIABLES conn,      \* connection_map_ of a node: "none", "pending" or "ready"
          via,       \* the node that opened the connection an entry stands for
          opened,    \* nodes that connect to their peer
          accepted,  \* nodes whose connection the peer's accept handler has seen
          calls,     \* messages between the two halves of Send, of each node
          queue,     \* message_queue_ (hosted), the continuation (native)
          wire,      \* wire[o][n]: sent to n on the connection o opened
          handed,    \* history: the messages of a node in the order Send took them
          received,  \* history: the messages a node received
          refused,   \* history: messages for which Send threw
          halted     \* nodes stopped by an exception nobody catches

messengerVars == <<conn, via, opened, accepted, calls, queue, wire, handed, received, refused, halted>>

MessengerInit ==
  /\ conn = [n \in Node |-> "none"] /\ via = [n \in Node |-> n]
  /\ opened = {} /\ accepted = {} /\ calls = [n \in Node |-> {}]
  /\ queue = [n \in Node |-> <<>>] /\ wire = [o \in Node |-> [n \in Node |-> <<>>]]
  /\ handed = [n \in Node |-> <<>>] /\ received = [n \in Node |-> <<>>]
  /\ refused = {} /\ halted = {}

\* The first half of Send: under the lock, the peer has an entry.
Send(n, m) ==
  /\ n \notin halted
  /\ calls' = [calls EXCEPT ![n] = @ \cup {m}]
  /\ IF conn[n] = "none"
     THEN conn' = [conn EXCEPT ![n] = "pending"] /\ opened' = opened \cup {n}
     ELSE UNCHANGED <<conn, opened>>
  /\ UNCHANGED <<via, accepted, queue, wire, handed, received, refused, halted>>

Took(n, m) ==
  /\ n \notin halted /\ m \in calls[n]
  /\ calls' = [calls EXCEPT ![n] = @ \ {m}]
  /\ UNCHANGED <<conn, via, opened, accepted, received, halted>>

\* The second half on a ready connection: write it out.
SendNow(n, m) ==
  /\ Took(n, m) /\ conn[n] = "ready"
  /\ wire' = [wire EXCEPT ![via[n]][Peer(n)] = Append(@, m)]
  /\ handed' = [handed EXCEPT ![n] = Append(@, m)]
  /\ UNCHANGED <<queue, refused>>

\* On a pending one: the hosted Send queues it, the native one makes it the
\* continuation of the connection's future, which takes only one
\* (State::ThenHelp throws "Multiple thens on a future!").
SendLater(n, m) ==
  /\ Took(n, m) /\ conn[n] = "pending"
  /\ IF n = BackEnd /\ queue[n] # <<>>
     THEN refused' = refused \cup {m} /\ UNCHANGED <<queue, handed>>
     ELSE /\ queue' = [queue EXCEPT ![n] = Append(@, m)]
          /\ handed' = [handed EXCEPT ![n] = Append(@, m)]
          /\ UNCHANGED refused
  /\ UNCHANGED wire

\* The handler of async_connect: the queue goes out and the entry becomes
\* ready, under the lock.
Connected ==
  /\ FrontEnd \in opened \ halted /\ conn[FrontEnd] = "pending"
  /\ wire' = [wire EXCEPT ![FrontEnd][BackEnd] = @ \o queue[FrontEnd]]
  /\ queue' = [queue EXCEPT ![FrontEnd] = <<>>]
  /\ conn' = [conn EXCEPT ![FrontEnd] = "ready"]
  /\ UNCHANGED <<via, opened, accepted, calls, handed, received, refused, halted>>

\* Connection::Connected on the native side: SetValue makes the future ready,
\* then runs the continuation; a Send of another core can come between.
ConnectedBack ==
  /\ BackEnd \in opened \ halted /\ conn[BackEnd] = "pending"
  /\ conn' = [conn EXCEPT ![BackEnd] = "ready"]
  /\ UNCHANGED <<via, opened, accepted, calls, queue, wire, handed, received, refused, halted>>
Continue ==
  /\ BackEnd \notin halted /\ conn[BackEnd] = "ready" /\ queue[BackEnd] # <<>>
  /\ wire' = [wire EXCEPT ![via[BackEnd]][FrontEnd] = @ \o queue[BackEnd]]
  /\ queue' = [queue EXCEPT ![BackEnd] = <<>>]
  /\ UNCHANGED <<conn, via, opened, accepted, calls, handed, received, refused, halted>>

\* The accept handler: DoAccept (hosted), the function StartListening gives
\* to Bind (native).  An entry that is there already makes it throw.
Accept(n) ==
  /\ n \notin halted /\ Peer(n) \in opened \ accepted
  /\ accepted' = accepted \cup {Peer(n)}
  /\ IF conn[n] # "none"
     THEN halted' = halted \cup {n} /\ UNCHANGED <<conn, via>>
     ELSE /\ conn' = [conn EXCEPT ![n] = "ready"] /\ via' = [via EXCEPT ![n] = Peer(n)]
          /\ UNCHANGED halted
  /\ UNCHANGED <<opened, calls, queue, wire, handed, received, refused>>
DoAccept == Accept(FrontEnd)
StartListening == Accept(BackEnd)

\* ReadHeader and ReadMessage (hosted), Connection::Receive (native) have a
\* whole message and call ReceiveMessageInternal with it.
Arrives(o, n) ==
  /\ n \notin halted /\ o \in IF o = n THEN opened ELSE accepted
  /\ wire[o][n] # <<>>
Receive(o, n) ==
  /\ Arrives(o, n)
  /\ received' = [received EXCEPT ![n] = Append(@, Head(wire[o][n]))]
  /\ wire' = [wire EXCEPT ![o][n] = Tail(@)]
  /\ UNCHANGED <<conn, via, opened, accepted, calls, queue, handed, refused, halted>>

Handlers(n) ==
  \/ \E m \in calls[n] : SendNow(n, m) \/ SendLater(n, m)
  \/ n = FrontEnd /\ (DoAccept \/ Connected)
  \/ n = BackEnd /\ (StartListening \/ ConnectedBack \/ Continue)

-----------------------------------------------------------------------------
\* A message that Send took is in exactly one place, and the front end's
\* messages arrive in the order in which Send took them, whether they were
\* queued for the connection or sent at once (hosted Send, DoAccept).
Between(n) == received[Peer(n)] \o wire[FrontEnd][Peer(n)] \o wire[BackEnd][Peer(n)] \o queue[n]
Delivered ==
  /\ \A n \in Node : Len(Between(n)) = Len(handed[n]) /\ ToSet(Between(n)) = ToSet(handed[n])
  /\ Between(FrontEnd) = handed[FrontEnd]

-----------------------------------------------------------------------------
(* The map of identifiers.                                                   *)

CONSTANTS Core, BootCore, Ebb, Value, None,
          MaxGets,   \* requests of the back end
          MaxNotes   \* other messages of the front end

VARIABLES data,      \* map_ of the front end
          past,      \* history: the values an id has had
          installed, \* InstallGlobalIdMap has returned
          base,      \* Base: constructed_ and rep_
          fault,     \* cores that found constructed_ false
          ref,       \* the translation of a core: a rep, or None
          reps,      \* of each rep: val_ and the promises of map_
          getting,   \* core -> the Get between its lock and its Send, or None
          inserting, \* cores inside the locked section of Get
          serving,   \* replies the front end has built and not yet sent
          notes      \* history: other messages sent by the front end

mapVars == <<data, past, installed, base, fault, ref, reps, getting, inserting, serving, notes>>
globalVars == <<messengerVars, mapVars>>
native == <<installed, base, fault, ref, reps, getting, inserting>>

GlobalInit ==
  /\ MessengerInit
  /\ data = [e \in Ebb |-> None] /\ past = [e \in Ebb |-> {None}]
  /\ installed = FALSE /\ base = [constructed |-> FALSE, rep |-> None]
  /\ fault = {} /\ ref = [c \in Core |-> None] /\ reps = <<>>
  /\ getting = [c \in Core |-> None] /\ inserting = {} /\ serving = {} /\ notes = 0

\* Set of the front end, under its lock.
Set(e, v) ==
  /\ FrontEnd \notin halted /\ v \notin past[e]
  /\ data' = [data EXCEPT ![e] = v] /\ past' = [past EXCEPT ![e] = @ \cup {v}]
  /\ UNCHANGED <<messengerVars, native, serving, notes>>

\* Base::Construct on a core without a translation: look at constructed_, then
\* build the rep, store it and cache it.
Runs(c) == BackEnd \notin halted /\ getting[c] = None /\ c \notin fault \cup inserting
HandleFault(c) ==
  /\ Runs(c) /\ (installed \/ c = BootCore)
  /\ ref[c] = None /\ ~base.constructed
  /\ fault' = fault \cup {c}
  /\ UNCHANGED <<messengerVars, data, past, installed, base, ref, reps, getting, inserting, serving, notes>>
Construct(c) ==
  /\ BackEnd \notin halted /\ c \in fault
  /\ fault' = fault \ {c}
  /\ reps' = Append(reps, <<>>)
  /\ base' = [constructed |-> TRUE, rep |-> Len(reps')]
  /\ ref' = [ref EXCEPT ![c] = Len(reps')]
  /\ UNCHANGED <<messengerVars, data, past, installed, getting, inserting, serving, notes>>

\* Seeded fault: InstallGlobalIdMap creates the base and does not touch the rep.
InstallLazily ==
  /\ ~installed /\ installed' = TRUE
  /\ UNCHANGED <<messengerVars, data, past, base, fault, ref, reps, getting, inserting, serving, notes>>

\* InstallGlobalIdMap: the call of SetAddress faults the rep in.
Install ==
  /\ ~installed /\ ref[BootCore] # None /\ installed' = TRUE
  /\ UNCHANGED <<messengerVars, data, past, base, fault, ref, reps, getting, inserting, serving, notes>>

\* The rep a core uses: its translation, or rep_ of the base (not cached).
Rep(c) == IF ref[c] # None THEN ref[c] ELSE base.rep

\* Get: val_++ and the promise of map_[v], under lock_; map_ may be moving its
\* buckets until the lock is released.  Then the request is sent.
Get(c, e) ==
  /\ Runs(c) /\ installed /\ (ref[c] # None \/ base.constructed) /\ inserting = {}
  /\ Len(FlattenSeq(reps)) < MaxGets
  /\ reps' = [reps EXCEPT ![Rep(c)] = Append(@, [ebb |-> e, answers |-> <<>>])]
  /\ getting' = [getting EXCEPT ![c] = [kind |-> "get", mid |-> Len(reps'[Rep(c)]), ebb |-> e]]
  /\ inserting' = {c}
  /\ UNCHANGED <<messengerVars, data, past, installed, base, fault, ref, serving, notes>>
Unlock(c) ==
  /\ BackEnd \notin halted /\ c \in inserting /\ inserting' = {}
  /\ UNCHANGED <<messengerVars, data, past, installed, base, fault, ref, reps, getting, serving, notes>>
SendRequest(c) ==
  /\ c \notin inserting /\ getting[c] # None
  /\ Send(BackEnd, getting[c])
  /\ getting' = [getting EXCEPT ![c] = None]
  /\ UNCHANGED <<data, past, installed, base, fault, ref, reps, inserting, serving, notes>>

\* ReceiveMessage of the front end: look the id up under the lock, reply.
ReceiveRequest(o) ==
  /\ Arrives(o, FrontEnd) /\ Receive(o, FrontEnd)
  /\ LET m == Head(wire[o][FrontEnd])
     IN  serving' = serving \cup {[kind |-> "reply", mid |-> m.mid, ebb |-> m.ebb, value |-> data[m.ebb]]}
  /\ UNCHANGED <<data, past, native, notes>>
SendReply(m) ==
  /\ m \in serving /\ serving' = serving \ {m}
  /\ Send(FrontEnd, m)
  /\ UNCHANGED <<data, past, native, notes>>

\* Any other Ebb of the front end sends the back end a message.
SendNote ==
  /\ notes < MaxNotes /\ notes' = notes + 1
  /\ Send(FrontEnd, [kind |-> "note", mid |-> notes', ebb |-> None, value |-> None])
  /\ UNCHANGED <<data, past, native, serving>>
ReceiveNote(o) ==
  /\ Arrives(o, BackEnd) /\ Head(wire[o][BackEnd]).kind = "note"
  /\ Receive(o, BackEnd) /\ UNCHANGED mapVars

\* ReceiveMessage of the back end, on the core c of the connection: find the
\* promise without the lock and fulfil it.  kassert stops the node when it is
\* not found, which happens to a number map_ lacks and may happen while map_
\* moves.
ReceiveReply(c, o) ==
  /\ Arrives(o, BackEnd) /\ Head(wire[o][BackEnd]).kind = "reply" /\ c \notin fault
  /\ LET m == Head(wire[o][BackEnd])
     IN  \/ /\ m.mid \in DOMAIN reps[Rep(c)]
            /\ reps' = [reps EXCEPT ![Rep(c)][m.mid].answers = Append(@, m)]
            /\ Receive(o, BackEnd)
         \/ /\ m.mid \notin DOMAIN reps[Rep(c)] \/ inserting # {}
            /\ halted' = halted \cup {BackEnd}
            /\ UNCHANGED <<conn, via, opened, accepted, calls, queue, wire, handed, received, refused, reps>>
  /\ UNCHANGED <<data, past, installed, base, fault, ref, getting, inserting, serving, notes>>

GlobalNext ==
  \/ \E e \in Ebb, v \in Value : Set(e, v)
  \/ \E c \in Core : HandleFault(c) \/ Construct(c) \/ Unlock(c) \/ SendRequest(c)
  \/ Install
  \/ \E c \in Core, e \in Ebb : Get(c, e)
  \/ SendNote \/ \E m \in serving : SendReply(m)
  \/ \E n \in Node : Handlers(n) /\ UNCHANGED mapVars
  \/ \E o \in Node : ReceiveRequest(o) \/ ReceiveNote(o)
  \/ \E o \in Node, c \in Core : ReceiveReply(c, o)

GlobalSpec == GlobalInit /\ [][GlobalNext]_globalVars

-----------------------------------------------------------------------------
\* A lookup is answered once, for the id it asked about, with a value that the
\* front end's map has held; and when nothing is on its way any more and no node
\* has stopped, every lookup whose Send was taken has its answer (Get,
\* ReceiveMessage of both sides).
Quiet == /\ \A n \in Node : calls[n] = {} /\ queue[n] = <<>> /\ \A o \in Node : wire[o][n] = <<>>
         /\ serving = {} /\ \A c \in Core : getting[c] = None
Refused(i, e) == \E m \in refused : m.kind = "get" /\ m.mid = i /\ m.ebb = e
LookupsAnswered ==
  /\ \A r \in DOMAIN reps : \A i \in DOMAIN reps[r] :
       LET p == reps[r][i]
       IN  /\ Len(p.answers) <= 1
           /\ \A k \in DOMAIN p.answers : p.answers[k].ebb = p.ebb /\ p.answers[k].value \in past[p.ebb]
           /\ Quiet /\ halted = {} => (p.answers = <<>>) = Refused(i, p.ebb)
  /\ BackEnd \in halted => opened = Node \/ inserting # {}
=============================================================================
