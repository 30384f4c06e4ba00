--------------------------- MODULE NetworkProofs ---------------------------
(***************************************************************************)
(* Two places of the network stack where callers meet on shared data: the  *)
(* packets that wait for an address at an entry of the ARP cache (Arp),    *)
(* and the datagrams that look for their endpoint in a table from which    *)
(* endpoints are unlinked meanwhile (Udp).                                 *)
(***************************************************************************)
EXTENDS Arp, Udp, SeqFacts, FiniteSetTheorems

(***************************************************************************)
(* The ARP cache: PacketsResolved holds whatever the number of senders and *)
(* receivers that meet at an entry.                                        *)
(*                                                                         *)
(* The argument: only the receiver whose exchange finds no address empties *)
(* the queue, so at most one receiver is ever busy with it (First).  While *)
(* its callback waits, whoever can still push is among those it waits for, *)
(* and afterwards nobody pushes.  Every packet whose EthArpSend has ended  *)
(* is in one place: queued, moved or sent (Packets).                       *)
(***************************************************************************)
Pushing(s) == pc[s] \in {"request", "push"}
Busy(r) == pc[r] \in {"move", "invoke"} \/ waiting[r] # None
Idle == \A r \in Receiver : ~Busy(r)
Moved(s) == \E r \in Receiver : s \in Range(moved[r])

\* Where events can be, and the lock.
Types ==
  /\ entries \in {0, 1}
  /\ hwaddr \in Receiver \cup {None}
  /\ queue \in Seq(Sender)
  /\ lock \in Receiver \cup {None}
  /\ pc \in [Event -> {"start", "lock", "request", "load", "push", "send",
                       "exchange", "move", "invoke", "done"}]
  /\ moved \in [Event -> Seq(Sender)]
  /\ waiting \in [Event -> (SUBSET Event) \cup {None}]
  /\ sent \in [Sender -> Nat]

Control ==
  /\ \A r \in Receiver : pc[r] = "exchange" => entries = 1
  /\ \A s \in Sender : Pushing(s) \/ pc[s] = "load" => entries = 1
  /\ hwaddr # None \/ queue # <<>> => entries = 1
  /\ lock # None => pc[lock] \in {"exchange", "move", "invoke"}
  /\ \A r \in Receiver : moved[r] # <<>> => pc[r] = "invoke"
  /\ \A r \in Receiver : waiting[r] # None => pc[r] = "done"

\* One receiver at most is busy with the queue.
First ==
  /\ \A r, q \in Receiver : Busy(r) /\ Busy(q) => r = q
  /\ \A r \in Receiver : Busy(r) => hwaddr # None
  /\ \A r \in Receiver, s \in Sender : waiting[r] # None /\ Pushing(s) => s \in waiting[r]
  /\ hwaddr # None /\ Idle => \A s \in Sender : ~Pushing(s)

\* A packet is in one place.
Packets ==
  /\ Distinct(queue, {})
  /\ \A r \in Receiver : Distinct(moved[r], {})
  /\ \A s \in Sender : sent[s] \in {0, 1}
  /\ \A s \in Sender : pc[s] # "done" => sent[s] = 0 /\ s \notin Range(queue) /\ ~Moved(s)
  /\ \A s \in Sender : Moved(s) => s \notin Range(queue) /\ sent[s] = 0
  /\ \A s \in Sender : pc[s] = "done" /\ sent[s] = 0 => s \in Range(queue) \/ Moved(s)
  /\ \A s \in Range(queue) : sent[s] = 1 <=> hwaddr # None /\ Idle

IInv == Types /\ Control /\ First /\ Packets

-----------------------------------------------------------------------------
\* The loop of InvokeAndClear over a queue meets a packet once when it is queued, and
\* never otherwise.
LEMMA OccursOnce ==
  ASSUME NEW q \in Seq(Sender), Distinct(q, {}), NEW s
  PROVE  Cardinality({i \in DOMAIN q : q[i] = s}) = IF s \in Range(q) THEN 1 ELSE 0
  <1> DEFINE I == {i \in DOMAIN q : q[i] = s}
  <1>1. CASE s \in Range(q)
    <2>1. PICK j \in DOMAIN q : q[j] = s
      BY <1>1, RangeMember
    <2>2. I = {j}
      BY <2>1, Zenon DEF Distinct
    <2> QED BY <1>1, <2>2, FS_Singleton, Zenon
  <1>2. CASE s \notin Range(q)
    <2>1. I = {}
      BY <1>2, RangeMember
    <2> QED BY <1>2, <2>1, FS_EmptySet, Zenon
  <1> QED BY <1>1, <1>2, Zenon

\* An empty queue has no packet.
LEMMA EmptyRange == Range(<<>>) = {} /\ Distinct(<<>>, {})
  BY DEF Range, Distinct

\* A queue holds packets of senders.
LEMMA QueueOfSenders == ASSUME NEW q \in Seq(Sender) PROVE Range(q) \subseteq Sender
  BY DEF Range

\* The cache starts empty.
LEMMA InitInv == ASSUME ArpConstants PROVE Init => IInv
  <1> SUFFICES ASSUME Init PROVE IInv
    BY Zenon
  <1>1. Types
    BY DEF Init, Types, Event
  <1>2. Control
    BY Zenon DEF Init, Control, Pushing, Event
  <1>3. First
    BY Zenon DEF Init, First, Pushing, Busy, Event
  <1>4. Packets
    BY EmptyRange, Zenon DEF Init, Packets, Moved, Event
  <1> QED BY <1>1, <1>2, <1>3, <1>4, Zenon DEF IInv

-----------------------------------------------------------------------------
(* EthArpSend.                                                              *)

\* A step of a sender leaves every receiver as busy as it was.
LEMMA SenderAlone ==
  ASSUME ArpConstants, IInv, NEW s \in Sender, NEW place,
         pc' = [pc EXCEPT ![s] = place], UNCHANGED <<moved, waiting>>
  PROVE  /\ s \in Event /\ s \notin Receiver /\ pc'[s] = place
         /\ \A e \in Event \ {s} : pc'[e] = pc[e]
         /\ \A r \in Receiver : r \in Event /\ pc'[r] = pc[r] /\ Busy(r)' = Busy(r)
         /\ Idle' = Idle
         /\ \A t \in Sender : Moved(t)' = Moved(t)
         /\ \A t \in Sender \ {s} : t \in Event /\ pc'[t] = pc[t] /\ Pushing(t)' = Pushing(t)
  <1>1. s \in Event /\ s \notin Receiver /\ pc'[s] = place /\ \A e \in Event \ {s} : pc'[e] = pc[e]
    BY Zenon DEF ArpConstants, IInv, Types, Event
  <1>2. \A r \in Receiver : r \in Event /\ pc'[r] = pc[r] /\ Busy(r)' = Busy(r)
    BY <1>1, Zenon DEF Event, Busy
  <1>3. \A t \in Sender \ {s} : t \in Event /\ pc'[t] = pc[t] /\ Pushing(t)' = Pushing(t)
    BY <1>1, Zenon DEF Event, Pushing
  <1> QED BY <1>1, <1>2, <1>3, Zenon DEF Idle, Moved

\* Looking the entry up and reading hwaddr: a sender goes on to push only while there
\* is no address, and then nobody is busy with the queue.
LEMMA LookStep ==
  ASSUME ArpConstants, IInv, NEW s \in Sender, Find(s) \/ Request(s) \/ Load(s)
  PROVE  IInv'
  <1>0. PICK place \in {"load", "lock", "push", "send"} :
          /\ pc' = [pc EXCEPT ![s] = place]
          /\ place = "push" => Pushing(s) \/ (hwaddr = None /\ entries = 1)
          /\ place = "load" => entries = 1
    <2>1. CASE Find(s)
      <3>1. CASE entries = 0
        BY <2>1, <3>1 DEF Find, Goto
      <3>2. CASE entries = 1
        BY <2>1, <3>2, Zenon DEF Find, Goto
      <3> QED BY <3>1, <3>2, Zenon DEF IInv, Types
    <2>2. CASE Request(s)
      BY <2>2, Zenon DEF Request, Goto, Pushing
    <2>3. CASE Load(s)
      BY <2>3, Zenon DEF Load, Goto, IInv, Control, Pushing
    <2> QED BY <2>1, <2>2, <2>3, Zenon
  <1>1. UNCHANGED <<entries, hwaddr, queue, lock, moved, waiting, sent>> /\ pc[s] # "done"
    BY Zenon DEF Find, Request, Load, cache, rest
  <1>2. /\ s \in Event /\ s \notin Receiver /\ pc'[s] = place
        /\ \A e \in Event \ {s} : pc'[e] = pc[e]
        /\ \A r \in Receiver : r \in Event /\ pc'[r] = pc[r] /\ Busy(r)' = Busy(r)
        /\ Idle' = Idle
        /\ \A t \in Sender : Moved(t)' = Moved(t)
        /\ \A t \in Sender \ {s} : t \in Event /\ pc'[t] = pc[t] /\ Pushing(t)' = Pushing(t)
    BY <1>0, <1>1, SenderAlone, Zenon
  <1>3. Pushing(s)' => Pushing(s) \/ (hwaddr = None /\ entries = 1)
    BY <1>0, <1>2, Zenon DEF Pushing
  <1>4. Types'
    BY <1>0, <1>1, Zenon DEF IInv, Types
  <1>5. Control'
    BY <1>0, <1>1, <1>2, <1>3, Zenon DEF IInv, Types, Control
  <1>6. First'
    BY <1>1, <1>2, <1>3, Zenon DEF IInv, First, Busy
  <1>7. Packets'
    BY <1>0, <1>1, <1>2, Zenon DEF IInv, Packets
  <1> QED BY <1>4, <1>5, <1>6, <1>7, Zenon DEF IInv

\* Creating the entry: nobody can be busy with the queue of an entry that was not there.
LEMMA CreateStep == ASSUME ArpConstants, IInv, NEW s \in Sender, Create(s) PROVE IInv'
  <1>0. PICK place \in {"load", "request"} :
          /\ pc' = [pc EXCEPT ![s] = place]
          /\ place = "request" => hwaddr = None
          /\ entries' = 1
    BY DEF Create, Goto, IInv, Types, Control
  <1>1. UNCHANGED <<hwaddr, queue, lock, moved, waiting, sent>> /\ pc[s] # "done"
    BY Zenon DEF Create, rest
  <1>2. /\ s \in Event /\ s \notin Receiver /\ pc'[s] = place
        /\ \A e \in Event \ {s} : pc'[e] = pc[e]
        /\ \A r \in Receiver : r \in Event /\ pc'[r] = pc[r] /\ Busy(r)' = Busy(r)
        /\ Idle' = Idle
        /\ \A t \in Sender : Moved(t)' = Moved(t)
        /\ \A t \in Sender \ {s} : t \in Event /\ pc'[t] = pc[t] /\ Pushing(t)' = Pushing(t)
    BY <1>0, <1>1, SenderAlone, Zenon
  <1>3. Pushing(s)' => hwaddr = None
    BY <1>0, <1>2, Zenon DEF Pushing
  <1>4. Types'
    BY <1>0, <1>1, Zenon DEF IInv, Types
  <1>5. Control'
    BY <1>0, <1>1, <1>2, Zenon DEF IInv, Types, Control
  <1>6. First'
    BY <1>1, <1>2, <1>3, Zenon DEF IInv, First, Busy
  <1>7. Packets'
    BY <1>0, <1>1, <1>2, Zenon DEF IInv, Packets
  <1> QED BY <1>4, <1>5, <1>6, <1>7, Zenon DEF IInv

\* A packet is pushed while the address is unknown, or while a receiver is busy with
\* the queue and will look at it again.
LEMMA PushStep == ASSUME ArpConstants, IInv, NEW s \in Sender, Push(s) PROVE IInv'
  <1>0. /\ pc' = [pc EXCEPT ![s] = "done"] /\ queue' = <<s>> \o queue
        /\ UNCHANGED <<entries, hwaddr, lock, moved, waiting, sent>>
        /\ Pushing(s) /\ pc[s] # "done"
    BY Zenon DEF Push, Goto, rest, Pushing
  <1>1. /\ s \in Event /\ s \notin Receiver /\ pc'[s] = "done"
        /\ \A e \in Event \ {s} : pc'[e] = pc[e]
        /\ \A r \in Receiver : r \in Event /\ pc'[r] = pc[r] /\ Busy(r)' = Busy(r)
        /\ Idle' = Idle
        /\ \A t \in Sender : Moved(t)' = Moved(t)
        /\ \A t \in Sender \ {s} : t \in Event /\ pc'[t] = pc[t] /\ Pushing(t)' = Pushing(t)
    BY <1>0, SenderAlone, Zenon
  <1>2. queue \in Seq(Sender) /\ s \notin Range(queue) /\ Distinct(queue, {})
    BY <1>0, Zenon DEF IInv, Types, Packets
  <1>3. queue' \in Seq(Sender) /\ Range(queue') = Range(queue) \cup {s} /\ Distinct(queue', {})
    BY <1>0, <1>2, RangeCons, DistinctCons, Zenon
  <1>4. Types'
    BY <1>0, <1>3, Zenon DEF IInv, Types
  <1>5. Control'
    BY <1>0, <1>1, Zenon DEF IInv, Types, Control, Pushing
  <1>6. First'
    BY <1>0, <1>1, Zenon DEF IInv, First, Busy, Pushing
  <1>7. Packets'
    <2>1. sent[s] = 0 /\ ~Moved(s) /\ ~(hwaddr # None /\ Idle)
      BY <1>0, Zenon DEF IInv, Packets, First
    <2> QED BY <1>0, <1>1, <1>3, <2>1 DEF IInv, Packets
  <1> QED BY <1>4, <1>5, <1>6, <1>7, Zenon DEF IInv

\* A packet is sent at once.
LEMMA SendStepInv == ASSUME ArpConstants, IInv, NEW s \in Sender, Send(s) PROVE IInv'
  <1>0. /\ pc' = [pc EXCEPT ![s] = "done"] /\ sent' = [sent EXCEPT ![s] = @ + 1]
        /\ UNCHANGED <<entries, hwaddr, queue, lock, moved, waiting>>
        /\ pc[s] # "done"
    BY Zenon DEF Send, Goto, cache
  <1>1. /\ s \in Event /\ s \notin Receiver /\ pc'[s] = "done"
        /\ \A e \in Event \ {s} : pc'[e] = pc[e]
        /\ \A r \in Receiver : r \in Event /\ pc'[r] = pc[r] /\ Busy(r)' = Busy(r)
        /\ Idle' = Idle
        /\ \A t \in Sender : Moved(t)' = Moved(t)
        /\ \A t \in Sender \ {s} : t \in Event /\ pc'[t] = pc[t] /\ Pushing(t)' = Pushing(t)
    BY <1>0, SenderAlone, Zenon
  <1>2. sent \in [Sender -> Nat]
    BY Zenon DEF IInv, Types
  <1>3. sent' \in [Sender -> Nat]
    BY <1>0, <1>2
  <1>4. Types'
    BY <1>0, <1>3, Zenon DEF IInv, Types
  <1>5. Control'
    BY <1>0, <1>1, Zenon DEF IInv, Types, Control, Pushing
  <1>6. First'
    BY <1>0, <1>1, Zenon DEF IInv, First, Busy, Pushing
  <1>7. Packets'
    <2>1. sent[s] = 0 /\ ~Moved(s) /\ s \notin Range(queue)
      BY <1>0, Zenon DEF IInv, Packets
    <2>2. sent'[s] = 1 /\ \A t \in Sender \ {s} : sent'[t] = sent[t]
      BY <1>0, <2>1 DEF IInv, Types
    <2>3. Range(queue) \subseteq Sender
      BY QueueOfSenders, Zenon DEF IInv, Types
    <2> QED BY <1>0, <1>1, <2>1, <2>2, <2>3 DEF IInv, Packets
  <1> QED BY <1>4, <1>5, <1>6, <1>7, Zenon DEF IInv

-----------------------------------------------------------------------------
(* ReceiveArp.                                                              *)

\* A step of a receiver leaves every sender where it was.
LEMMA ReceiverAlone ==
  ASSUME ArpConstants, IInv, NEW r \in Receiver, NEW place, pc' = [pc EXCEPT ![r] = place]
  PROVE  /\ r \in Event /\ r \notin Sender /\ pc'[r] = place
         /\ \A e \in Event \ {r} : pc'[e] = pc[e]
         /\ \A s \in Sender : s \in Event /\ pc'[s] = pc[s] /\ Pushing(s)' = Pushing(s)
         /\ \A q \in Receiver : q \in Event
  <1>1. r \in Event /\ r \notin Sender /\ pc'[r] = place /\ \A e \in Event \ {r} : pc'[e] = pc[e]
    BY Zenon DEF ArpConstants, IInv, Types, Event
  <1> QED BY <1>1, Zenon DEF Event, Pushing

\* Looking the entry up, and not finding the address new in exchange, is nothing to the
\* queue.
LEMMA PassStep ==
  ASSUME ArpConstants, IInv, NEW r \in Receiver, NEW place \in {"lock", "exchange", "done"},
         pc' = [pc EXCEPT ![r] = place], pc[r] \in {"start", "lock", "exchange"},
         place = "exchange" => entries = 1,
         place = "done" => lock' # r,
         lock' \in {lock, None} \/ (lock' = r /\ place = "exchange"),
         lock' = lock => lock # r,
         hwaddr' = hwaddr \/ (hwaddr # None /\ hwaddr' = r),
         UNCHANGED <<entries, queue, moved, waiting, sent>>
  PROVE  IInv'
  <1>1. /\ r \in Event /\ r \notin Sender /\ pc'[r] = place
        /\ \A e \in Event \ {r} : pc'[e] = pc[e]
        /\ \A s \in Sender : s \in Event /\ pc'[s] = pc[s] /\ Pushing(s)' = Pushing(s)
        /\ \A q \in Receiver : q \in Event
    BY ReceiverAlone, Zenon
  <1>2. \A q \in Receiver : Busy(q)' = Busy(q)
    BY <1>1, Zenon DEF Busy
  <1>3. Idle' = Idle /\ \A s \in Sender : Moved(s)' = Moved(s)
    BY <1>2, Zenon DEF Idle, Moved
  <1>4. (hwaddr' # None) = (hwaddr # None)
    BY Zenon DEF ArpConstants
  <1>5. Types'
    BY Zenon DEF IInv, Types
  <1>6. Control'
    <2>1. lock' # None => pc'[lock'] \in {"exchange", "move", "invoke"}
      BY <1>1, Zenon DEF IInv, Types, Control
    <2>2. \A q \in Receiver : waiting[q] # None => q # r /\ pc[q] = "done"
      BY Zenon DEF IInv, Control
    <2>3. \A q \in Receiver : moved[q] # <<>> => q # r /\ pc[q] = "invoke"
      BY Zenon DEF IInv, Control
    <2> QED BY <1>1, <1>4, <2>1, <2>2, <2>3, Zenon DEF IInv, Control
  <1>7. First'
    BY <1>1, <1>2, <1>3, <1>4, Zenon DEF IInv, First
  <1>8. Packets'
    <2>1. Range(queue) \subseteq Sender
      BY QueueOfSenders, Zenon DEF IInv, Types
    <2> QED BY <1>1, <1>3, <1>4, <2>1, Zenon DEF IInv, Packets
  <1> QED BY <1>5, <1>6, <1>7, <1>8, Zenon DEF IInv

\* find(spa) of ReceiveArp.
LEMMA ReceiveStepInv == ASSUME ArpConstants, IInv, NEW r \in Receiver, Receive(r) PROVE IInv'
  <1>1. PICK place \in {"lock", "exchange", "done"} :
          pc' = [pc EXCEPT ![r] = place] /\ (place = "exchange" => entries > 0)
    BY Zenon DEF Receive, Goto
  <1>2. pc[r] = "start" /\ UNCHANGED <<entries, hwaddr, queue, lock, moved, waiting, sent>>
    BY Zenon DEF Receive, cache, rest
  <1>3. lock # r
    BY <1>2, Zenon DEF IInv, Control, ArpConstants
  <1>4. place = "exchange" => entries = 1
    BY <1>1 DEF IInv, Types
  <1> QED BY <1>1, <1>2, <1>3, <1>4, PassStep, Zenon

\* The second look, with the lock: an entry created here has its address from the
\* start, and no queue.
LEMMA LearnStep == ASSUME ArpConstants, IInv, NEW r \in Receiver, Learn(r) PROVE IInv'
  <1>1. CASE entries = 1
    <2>1. /\ pc' = [pc EXCEPT ![r] = "exchange"] /\ lock' = r /\ lock = None /\ pc[r] = "lock"
          /\ UNCHANGED <<entries, hwaddr, queue, moved, waiting, sent>>
      BY <1>1 DEF Learn, Goto, rest
    <2>2. lock # r
      BY <2>1, Zenon DEF ArpConstants
    <2> QED BY <1>1, <2>1, <2>2, PassStep, Zenon
  <1>2. CASE entries = 0
    <2>1. /\ pc' = [pc EXCEPT ![r] = "done"] /\ entries' = 1 /\ hwaddr' = r /\ pc[r] = "lock"
          /\ UNCHANGED <<lock, queue, moved, waiting, sent>> /\ lock = None
      BY <1>2 DEF Learn, Goto, rest
    <2>2. /\ r \in Event /\ r \notin Sender /\ pc'[r] = "done"
          /\ \A e \in Event \ {r} : pc'[e] = pc[e]
          /\ \A s \in Sender : s \in Event /\ pc'[s] = pc[s] /\ Pushing(s)' = Pushing(s)
          /\ \A q \in Receiver : q \in Event
      BY <2>1, ReceiverAlone, Zenon
    <2>3. /\ hwaddr = None /\ queue = <<>> /\ \A s \in Sender : ~Pushing(s)
          /\ \A q \in Receiver : ~Busy(q) /\ pc[q] # "exchange"
      BY <1>2 DEF IInv, Control, First
    <2>4. \A q \in Receiver : ~Busy(q)'
      BY <2>1, <2>2, <2>3, Zenon DEF Busy
    <2>5. \A s \in Sender : Moved(s)' = Moved(s)
      BY <2>1, Zenon DEF Moved
    <2>6. Types'
      BY <2>1, Zenon DEF IInv, Types
    <2>7. Control'
      <3>1. \A q \in Receiver : moved[q] # <<>> => q # r /\ pc[q] = "invoke"
        BY <2>1, Zenon DEF IInv, Control
      <3>2. \A q \in Receiver : waiting[q] # None => q # r /\ pc[q] = "done"
        BY <2>1, Zenon DEF IInv, Control
      <3> QED BY <2>1, <2>2, <2>3, <3>1, <3>2, Zenon DEF Control
    <2>8. First'
      BY <2>2, <2>3, <2>4, <2>1, Zenon DEF First, ArpConstants, Busy
    <2>9. Packets'
      BY <2>1, <2>2, <2>3, <2>5, EmptyRange, Zenon DEF IInv, Packets
    <2> QED BY <2>6, <2>7, <2>8, <2>9, Zenon DEF IInv
  <1> QED BY <1>1, <1>2, Zenon DEF IInv, Types

\* exchange: whoever finds no address is from then on the one busy receiver.
LEMMA ExchangeStep == ASSUME ArpConstants, IInv, NEW r \in Receiver, Exchange(r) PROVE IInv'
  <1>1. CASE hwaddr # None
    <2>1. /\ pc' = [pc EXCEPT ![r] = "done"] /\ pc[r] = "exchange" /\ hwaddr' = r
          /\ lock' = IF lock = r THEN None ELSE lock
          /\ UNCHANGED <<entries, queue, moved, waiting, sent>>
      BY <1>1, Zenon DEF Exchange, Leave, Goto, rest
    <2>2. lock' # r /\ lock' \in {lock, None} /\ (lock' = lock => lock # r)
      BY <2>1, Zenon DEF ArpConstants
    <2> QED BY <1>1, <2>1, <2>2, PassStep, Zenon
  <1>2. CASE hwaddr = None
    <2>1. /\ pc' = [pc EXCEPT ![r] = "move"] /\ pc[r] = "exchange" /\ hwaddr' = r
          /\ UNCHANGED <<entries, queue, lock, moved, waiting, sent>>
      BY <1>2, Zenon DEF Exchange, Goto, rest
    <2>2. /\ r \in Event /\ r \notin Sender /\ pc'[r] = "move"
          /\ \A e \in Event \ {r} : pc'[e] = pc[e]
          /\ \A s \in Sender : s \in Event /\ pc'[s] = pc[s] /\ Pushing(s)' = Pushing(s)
          /\ \A q \in Receiver : q \in Event
      BY <2>1, ReceiverAlone, Zenon
    <2>3. hwaddr' # None /\ entries = 1 /\ \A q \in Receiver : ~Busy(q) /\ waiting[q] = None
      BY <1>2, <2>1, Zenon DEF ArpConstants, IInv, Control, First, Busy
    <2>4. Busy(r)' /\ \A q \in Receiver \ {r} : ~Busy(q)'
      BY <2>1, <2>2, <2>3, Zenon DEF Busy
    <2>5. ~Idle' /\ \A s \in Sender : Moved(s)' = Moved(s)
      BY <2>1, <2>4, Zenon DEF Idle, Moved
    <2>6. Types'
      BY <2>1, Zenon DEF IInv, Types
    <2>7. Control'
      <3>1. \A q \in Receiver : moved[q] = <<>>
        BY <2>3, Zenon DEF IInv, Control, Busy
      <3>2. lock # None => lock \in Event /\ (lock = r \/ pc'[lock] = pc[lock])
        BY <2>2, Zenon DEF IInv, Types
      <3> QED BY <2>1, <2>2, <2>3, <3>1, <3>2, Zenon DEF IInv, Control
    <2>8. First'
      BY <2>1, <2>2, <2>3, <2>4, <2>5, Zenon DEF First
    <2>9. Packets'
      <3>1. \A s \in Range(queue) : s \in Sender /\ sent[s] # 1
        BY <1>2, QueueOfSenders, Zenon DEF IInv, Types, Packets
      <3> QED BY <2>1, <2>2, <2>5, <3>1, Zenon DEF IInv, Packets
    <2> QED BY <2>6, <2>7, <2>8, <2>9, Zenon DEF IInv
  <1> QED BY <1>1, <1>2, Zenon

\* std::move(queue): what was pushed so far now belongs to the busy receiver alone.
LEMMA MoveStep == ASSUME ArpConstants, IInv, NEW r \in Receiver, Move(r) PROVE IInv'
  <1>1. /\ pc' = [pc EXCEPT ![r] = "invoke"] /\ pc[r] = "move" /\ queue' = <<>>
        /\ moved' = [moved EXCEPT ![r] = queue]
        /\ UNCHANGED <<entries, hwaddr, lock, waiting, sent>>
    BY Zenon DEF Move, Goto
  <1>2. /\ r \in Event /\ r \notin Sender /\ pc'[r] = "invoke"
        /\ \A e \in Event \ {r} : pc'[e] = pc[e]
        /\ \A s \in Sender : s \in Event /\ pc'[s] = pc[s] /\ Pushing(s)' = Pushing(s)
        /\ \A q \in Receiver : q \in Event
    BY <1>1, ReceiverAlone, Zenon
  <1>3. Busy(r) /\ \A q \in Receiver : Busy(q)' = Busy(q)
    BY <1>1, <1>2, Zenon DEF Busy
  <1>4. ~Idle /\ ~Idle'
    BY <1>3, Zenon DEF Idle
  <1>5. /\ moved'[r] = queue
        /\ \A q \in Receiver \ {r} : moved'[q] = <<>>
        /\ \A q \in Receiver : moved[q] = <<>>
    BY <1>1, <1>2, <1>3, Zenon DEF IInv, Types, Control, First, Busy
  <1>6. \A s \in Sender : ~Moved(s) /\ (Moved(s)' <=> s \in Range(queue))
    BY <1>5, EmptyRange, Zenon DEF Moved
  <1>7. Types'
    <2>1. queue' \in Seq(Sender) /\ moved' \in [Event -> Seq(Sender)]
      BY <1>1, <1>2 DEF IInv, Types
    <2> QED BY <1>1, <2>1, Zenon DEF IInv, Types
  <1>8. Control'
    <2>1. lock # None => lock \in Event /\ (lock = r \/ pc'[lock] = pc[lock])
      BY <1>2, Zenon DEF IInv, Types
    <2>2. entries = 1
      BY <1>3, Zenon DEF IInv, Control, First
    <2>3. \A q \in Receiver : waiting[q] # None => q # r /\ pc[q] = "done"
      BY <1>1, Zenon DEF IInv, Control
    <2> QED BY <1>1, <1>2, <1>5, <2>1, <2>2, <2>3, Zenon DEF IInv, Control
  <1>9. First'
    BY <1>1, <1>2, <1>3, <1>4, Zenon DEF IInv, First
  <1>10. Packets'
    <2>1. \A s \in Range(queue) : s \in Sender /\ sent[s] = 0
      BY <1>4, QueueOfSenders, Zenon DEF IInv, Types, Packets
    <2>2. Range(queue') = {} /\ Distinct(queue', {})
      BY <1>1, EmptyRange, Zenon
    <2>3. \A q \in Receiver : Distinct(moved'[q], {})
      BY <1>5, EmptyRange, Zenon DEF IInv, Packets
    <2> QED BY <1>1, <1>2, <1>6, <2>1, <2>2, <2>3, Zenon DEF IInv, Packets
  <1> QED BY <1>7, <1>8, <1>9, <1>10, Zenon DEF IInv

\* One operation of the busy receiver's own queue: the packet is nowhere else.
LEMMA InvokeStep == ASSUME ArpConstants, IInv, NEW r \in Receiver, Invoke(r) PROVE IInv'
  <1> DEFINE h == Head(moved[r])
  <1>1. /\ pc[r] = "invoke" /\ moved[r] # <<>> /\ sent' = [sent EXCEPT ![h] = @ + 1]
        /\ moved' = [moved EXCEPT ![r] = Tail(@)]
        /\ UNCHANGED <<entries, hwaddr, queue, lock, pc, waiting>>
    BY Zenon DEF Invoke, cache
  <1>2. r \in Event /\ moved[r] \in Seq(Sender) /\ Distinct(moved[r], {})
    BY Zenon DEF Event, IInv, Types, Packets
  <1>3. /\ h \in Sender /\ Tail(moved[r]) \in Seq(Sender)
        /\ Range(moved[r]) = Range(Tail(moved[r])) \cup {h}
        /\ Distinct(Tail(moved[r]), {}) /\ h \notin Range(Tail(moved[r]))
    BY <1>1, <1>2, HeadTail, RangeTail, DistinctTail
  <1>4. moved'[r] = Tail(moved[r]) /\ \A q \in Receiver \ {r} : moved'[q] = <<>> /\ moved[q] = <<>>
    BY <1>1, <1>2, Zenon DEF IInv, Types, Control, First, Busy, Event
  <1> HIDE DEF h
  <1>5. Moved(h) /\ \A s \in Sender : Moved(s)' <=> Moved(s) /\ s # h
    <2>1. \A s \in Sender : Moved(s) <=> s \in Range(moved[r])
      BY <1>4, EmptyRange, Zenon DEF Moved
    <2>2. \A s \in Sender : Moved(s)' <=> s \in Range(Tail(moved[r]))
      BY <1>4, EmptyRange, Zenon DEF Moved
    <2> QED BY <1>3, <2>1, <2>2, Zenon
  <1>6. h \notin Range(queue) /\ sent[h] = 0 /\ pc[h] = "done"
    BY <1>3, <1>5, Zenon DEF IInv, Packets
  <1>7. sent'[h] = 1 /\ (\A s \in Sender \ {h} : sent'[s] = sent[s]) /\ sent' \in [Sender -> Nat]
    <2>1. sent \in [Sender -> Nat]
      BY Zenon DEF IInv, Types
    <2> QED BY <1>1, <1>3, <1>6, <2>1
  <1>8. Idle' = Idle /\ (\A q \in Receiver : Busy(q)' = Busy(q)) /\ \A s \in Sender : Pushing(s)' = Pushing(s)
    BY <1>1, Zenon DEF Idle, Busy, Pushing
  <1>9. Types'
    <2>1. moved' \in [Event -> Seq(Sender)]
      BY <1>1, <1>3, Zenon DEF IInv, Types
    <2> QED BY <1>1, <1>7, <2>1, Zenon DEF IInv, Types
  <1>10. Control'
    BY <1>1, <1>4, <1>8, Zenon DEF IInv, Control
  <1>11. First'
    BY <1>1, <1>8, Zenon DEF IInv, First
  <1>12. Packets'
    <2>1. Range(queue) \subseteq Sender
      BY QueueOfSenders, Zenon DEF IInv, Types
    <2>2. \A q \in Receiver : Distinct(moved'[q], {})
      BY <1>3, <1>4, EmptyRange, Zenon
    <2>3. /\ Distinct(queue', {})
          /\ \A s \in Sender : sent'[s] \in {0, 1}
          /\ \A s \in Range(queue') : sent'[s] = 1 <=> hwaddr' # None /\ Idle'
      BY <1>1, <1>6, <1>7, <1>8, <2>1, Zenon DEF IInv, Packets
    <2>4. ASSUME NEW s \in Sender
          PROVE  /\ pc'[s] # "done" => sent'[s] = 0 /\ s \notin Range(queue') /\ ~Moved(s)'
                 /\ Moved(s)' => s \notin Range(queue') /\ sent'[s] = 0
                 /\ pc'[s] = "done" /\ sent'[s] = 0 => s \in Range(queue') \/ Moved(s)'
      <3>1. CASE s = h
        <4>1. ~Moved(s)'
          BY <1>5, <3>1, Zenon
        <4> QED BY <1>1, <1>6, <1>7, <3>1, <4>1
      <3>2. CASE s # h
        BY <1>1, <1>5, <1>7, <3>2, Zenon DEF IInv, Packets
      <3> QED BY <3>1, <3>2, Zenon
    <2> QED BY <2>2, <2>3, <2>4, Zenon DEF Packets
  <1> QED BY <1>9, <1>10, <1>11, <1>12, Zenon DEF IInv

\* DoRcu: every event that may still push is under way, and is waited for.
LEMMA DoRcuStep == ASSUME ArpConstants, IInv, NEW r \in Receiver, DoRcu(r) PROVE IInv'
  <1>1. /\ pc' = [pc EXCEPT ![r] = "done"] /\ pc[r] = "invoke" /\ moved[r] = <<>>
        /\ waiting' = [waiting EXCEPT ![r] = Active]
        /\ lock' = IF lock = r THEN None ELSE lock
        /\ UNCHANGED <<entries, hwaddr, queue, moved, sent>>
    BY Zenon DEF DoRcu, Leave, Goto, Grace, cache
  <1>2. /\ r \in Event /\ r \notin Sender /\ pc'[r] = "done"
        /\ \A e \in Event \ {r} : pc'[e] = pc[e]
        /\ \A s \in Sender : s \in Event /\ pc'[s] = pc[s] /\ Pushing(s)' = Pushing(s)
        /\ \A q \in Receiver : q \in Event
    BY <1>1, ReceiverAlone, Zenon
  <1>3. /\ Active \in SUBSET Event /\ Active # None
        /\ \A s \in Sender : Pushing(s) => s \in Active
    BY <1>2, Zenon DEF Active, ArpConstants, Pushing
  <1>4. waiting'[r] = Active /\ \A q \in Receiver \ {r} : waiting'[q] = waiting[q]
    BY <1>1, <1>2, Zenon DEF IInv, Types
  <1>5. Busy(r) /\ \A q \in Receiver : Busy(q)' = Busy(q)
    BY <1>1, <1>2, <1>3, <1>4, Zenon DEF Busy
  <1>6. Idle' = Idle /\ \A s \in Sender : Moved(s)' = Moved(s)
    BY <1>1, <1>5, Zenon DEF Idle, Moved
  <1>7. Types'
    BY <1>1, <1>3, Zenon DEF IInv, Types
  <1>8. Control'
    <2>1. lock' # None => lock' # r /\ lock' = lock /\ lock \in Event
      BY <1>1, <1>2, Zenon DEF IInv, Types
    <2>2. \A q \in Receiver : waiting'[q] # None => pc'[q] = "done"
      BY <1>1, <1>2, <1>4, Zenon DEF IInv, Control
    <2>3. \A q \in Receiver : moved'[q] # <<>> => pc'[q] = "invoke"
      BY <1>1, <1>2, Zenon DEF IInv, Control
    <2> QED BY <1>1, <1>2, <2>1, <2>2, <2>3 DEF IInv, Control
  <1>9. First'
    <2>1. \A q \in Receiver, s \in Sender : waiting'[q] # None /\ Pushing(s)' => s \in waiting'[q]
      BY <1>2, <1>3, <1>4, Zenon DEF IInv, First
    <2> QED BY <1>1, <1>2, <1>5, <1>6, <2>1, Zenon DEF IInv, First
  <1>10. Packets'
    BY <1>1, <1>2, <1>6, QueueOfSenders, Zenon DEF IInv, Types, Packets
  <1> QED BY <1>7, <1>8, <1>9, <1>10, Zenon DEF IInv

\* The callback: nobody pushes any more, so what is queued is sent now and the queue,
\* whose head still points to the deleted operations, is never read again.
LEMMA CallbackStep == ASSUME ArpConstants, IInv, NEW r \in Receiver, Callback(r) PROVE IInv'
  <1>1. /\ waiting[r] # None /\ \A e \in waiting[r] : pc[e] = "done"
        /\ sent' = [s \in Sender |-> sent[s] + Cardinality({i \in DOMAIN queue : queue[i] = s})]
        /\ waiting' = [waiting EXCEPT ![r] = None]
        /\ UNCHANGED <<entries, hwaddr, queue, lock, pc, moved>>
    BY Zenon DEF Callback, GraceOver, cache
  <1>2. /\ r \in Event /\ Busy(r) /\ ~Idle /\ hwaddr # None
        /\ \A q \in Receiver \ {r} : ~Busy(q)
    BY <1>1, Zenon DEF Event, Busy, Idle, IInv, First
  <1>3. waiting'[r] = None /\ \A q \in Receiver \ {r} : waiting'[q] = waiting[q] /\ waiting[q] = None
    BY <1>1, <1>2, Zenon DEF IInv, Types, Event, Busy
  <1>4. \A q \in Receiver : ~Busy(q)'
    BY <1>1, <1>2, <1>3, Zenon DEF Busy, IInv, Control
  <1>5. Idle' /\ \A s \in Sender : Pushing(s)' = Pushing(s) /\ ~Pushing(s) /\ ~Moved(s) /\ ~Moved(s)'
    <2>1. \A s \in Sender : ~Pushing(s) /\ Pushing(s)' = Pushing(s)
      BY <1>1, Zenon DEF IInv, First, Pushing
    <2>2. \A q \in Receiver : moved[q] = <<>>
      BY <1>1, <1>2, Zenon DEF IInv, Control, Busy
    <2> QED BY <1>1, <1>4, <2>1, <2>2, EmptyRange, Zenon DEF Idle, Moved
  <1>6. ASSUME NEW s \in Sender
        PROVE  sent'[s] = sent[s] + (IF s \in Range(queue) THEN 1 ELSE 0) /\ sent'[s] \in Nat
    BY <1>1, OccursOnce DEF IInv, Types, Packets
  <1>7. Types'
    <2>1. sent' \in [Sender -> Nat]
      BY <1>1, <1>6, Zenon
    <2> QED BY <1>1, <2>1, Zenon DEF IInv, Types
  <1>8. Control'
    BY <1>1, <1>3, <1>5, Zenon DEF IInv, Control
  <1>9. First'
    BY <1>3, <1>4, <1>5, Zenon DEF First
  <1>10. Packets'
    <2>1. \A s \in Range(queue) : s \in Sender /\ sent[s] = 0
      BY <1>2, QueueOfSenders, Zenon DEF IInv, Types, Packets
    <2>2. \A s \in Sender : sent'[s] = IF s \in Range(queue) THEN 1 ELSE sent[s]
      BY <1>6, <2>1 DEF IInv, Types
    <2> QED BY <1>1, <1>2, <1>5, <2>1, <2>2, Zenon DEF IInv, Packets
  <1> QED BY <1>7, <1>8, <1>9, <1>10, Zenon DEF IInv

-----------------------------------------------------------------------------
\* EthArpSend and ReceiveArp together, for any number of packets and answers: one entry,
\* every packet sent once, no push while the callback clears the queue, and no packet
\* left behind once the address is known.
THEOREM PacketsResolvedAlways == ASSUME ArpConstants PROVE Spec => []PacketsResolved
  <1>1. Init => IInv
    BY InitInv, Zenon
  <1>2. IInv /\ [Next]_vars => IInv'
    <2> SUFFICES ASSUME IInv, [Next]_vars PROVE IInv'
      BY Zenon
    <2>1. ASSUME NEW s \in Sender, SendStep(s) PROVE IInv'
      BY <2>1, LookStep, CreateStep, PushStep, SendStepInv, Zenon DEF SendStep
    <2>2. ASSUME NEW r \in Receiver, Receive(r) \/ ReceiveStep(r) PROVE IInv'
      BY <2>2, ReceiveStepInv, LearnStep, ExchangeStep, MoveStep, InvokeStep, DoRcuStep, CallbackStep, Zenon
         DEF ReceiveStep
    <2>3. CASE UNCHANGED vars
      BY <2>3, Zenon DEF vars, IInv, Types, Control, First, Packets, Pushing, Busy, Idle, Moved
    <2> QED BY <2>1, <2>2, <2>3, Zenon DEF Next
  <1>3. IInv => PacketsResolved
    <2> SUFFICES ASSUME IInv PROVE PacketsResolved
      BY Zenon
    <2>1. OneEntry
      BY DEF IInv, Types, OneEntry
    <2>2. SentOnce
      BY DEF IInv, Packets, SentOnce
    <2>3. NoPushWhileClearing
      BY Zenon DEF IInv, First, NoPushWhileClearing, GraceOver, Pushing
    <2>4. ResolvedIsSent
      <3> SUFFICES ASSUME Active = {}, \A r \in Receiver : waiting[r] = None
                   PROVE  lock = None /\ (hwaddr # None => \A s \in Sender : pc[s] = "done" => sent[s] = 1)
        BY Zenon DEF ResolvedIsSent
      <3>1. \A e \in Event : pc[e] \in {"start", "done"}
        BY Zenon DEF Active
      <3>2. lock = None
        BY <3>1, Zenon DEF IInv, Types, Control, Event
      <3>3. Idle /\ \A r \in Receiver : moved[r] = <<>>
        BY <3>1, Zenon DEF IInv, Control, Idle, Busy, Event
      <3>4. \A s \in Sender : ~Moved(s)
        BY <3>3, EmptyRange, Zenon DEF Moved
      <3> QED BY <3>2, <3>3, <3>4, Zenon DEF IInv, Packets
    <2> QED BY <2>1, <2>2, <2>3, <2>4, Zenon DEF PacketsResolved
  <1> QED BY <1>1, <1>2, <1>3, PTL DEF Spec

-----------------------------------------------------------------------------
(***************************************************************************)
(* UDP: UdpSafe holds for any number of endpoints, readers, ports and      *)
(* buckets.                                                                *)
(*                                                                         *)
(* Reachability is the whole of the argument, and it is said without       *)
(* recursion.  An entry is reached from a pointer when every set of        *)
(* entries that holds what it points to, and that no next pointer leaves,  *)
(* holds the entry (Reached, Ahead).  A reader stands on entries that are  *)
(* in the table or whose Close waits for it, and next pointers lead from   *)
(* these only to these (Walking).  erase leaves the next pointer of its    *)
(* entry as it is, so a reader that stands on it still goes on to whatever *)
(* it is owed.                                                             *)
(***************************************************************************)
UdpTypes ==
  /\ set \in SUBSET Nat
  /\ heads \in [0 .. Buckets - 1 -> Pcb \cup {Nil}]
  /\ nexts \in [Pcb -> Pcb \cup {Nil}]
  /\ DOMAIN pprevs = Pcb
  /\ port \in [Pcb -> Nat]
  /\ phase \in [Pcb -> {"closed", "insert", "bound", "erase", "grace", "deleted"}]
  /\ grace \in [Pcb -> SUBSET Reader]
  /\ at \in [Reader -> {"idle", "compare", "next", "call"}]
  /\ pos \in [Reader -> Pcb \cup {Nil}]
  /\ key \in [Reader -> Nat]
  /\ owed \in [Reader -> SUBSET Pcb]

\* The entry is in its bucket.
Linked(e) == phase[e] \in {"bound", "erase"}

\* Entries that a reader may stand on: those in the table, and those whose Close
\* waits for it.
Kept(v) == {x \in Pcb : Linked(x) \/ (phase[x] = "grace" /\ v \in grace[x])}

\* A set of entries that no next pointer leaves.
Leads(S) == \A x \in S : nexts[x] \in S \cup {Nil}

\* Each bucket is a doubly linked list of the entries in the table: a head and a next
\* lead to an entry that points back, and what an entry points back to leads to it.
HeadsLead ==
  \A b \in 0 .. Buckets - 1 : heads[b] # Nil =>
    Linked(heads[b]) /\ pprevs[heads[b]] = <<"head", b>> /\ Bucket(port[heads[b]]) = b
NextsLead ==
  \A x \in Pcb : Linked(x) /\ nexts[x] # Nil =>
    /\ Linked(nexts[x]) /\ pprevs[nexts[x]] = <<"next", x>>
    /\ Bucket(port[nexts[x]]) = Bucket(port[x])
PprevsLead ==
  \A x \in Pcb : Linked(x) =>
    \/ \E b \in 0 .. Buckets - 1 : pprevs[x] = <<"head", b>> /\ heads[b] = x
    \/ \E y \in Pcb : pprevs[x] = <<"next", y>> /\ Linked(y) /\ nexts[y] = x
Lists == HeadsLead /\ NextsLead /\ PprevsLead

\* Every entry in the table is reached from the head of its bucket: it is in every
\* set that holds the head and that no next pointer leaves.
Reached ==
  \A x \in Pcb : Linked(x) =>
    \A S \in SUBSET Pcb : Leads(S) /\ heads[Bucket(port[x])] \in S \cup {Nil} => x \in S

\* What a reader is owed is still ahead of it.
Ahead ==
  \A v \in Reader : \A S \in SUBSET Pcb :
    Leads(S) /\ pos[v] \in S \cup {Nil} => owed[v] \subseteq S

\* Readers stand on entries that are kept for them, from which they reach only such.
Walking ==
  /\ \A v \in Reader : at[v] = "idle" => pos[v] = Nil /\ owed[v] = {}
  /\ \A v \in Reader : pos[v] # Nil => pos[v] \in Kept(v)
  /\ \A v \in Reader : at[v] # "idle" => Leads(Kept(v))
  /\ \A v \in Reader : at[v] = "next" => pos[v] # Nil /\ pos[v] \notin owed[v]
  /\ \A v \in Reader : \A x \in owed[v] : Linked(x) /\ port[x] = key[v]
  /\ \A x \in Pcb : \A v \in grace[x] : at[v] # "idle"

UdpInv == UdpTypes /\ Lists /\ Reached /\ Ahead /\ Walking /\ PortsApart
-----------------------------------------------------------------------------
\* The pool gives a port that it has (Min of set_).
LEMMA MinIsMember == ASSUME NEW S \in SUBSET Nat, S # {} PROVE Min(S) \in S
  BY FirstNumber, Zenon DEF Min

\* Every port has a bucket.
LEMMA PortBucket == ASSUME UdpConstants PROVE \A p \in Nat : Bucket(p) \in 0 .. Buckets - 1
  BY DEF UdpConstants, Bucket

\* No entry of the table leads to itself: the head would not lead to it.
LEMMA NoLoop ==
  ASSUME UdpConstants, UdpInv, NEW e \in Pcb, Linked(e)
  PROVE  nexts[e] # e
  <1> SUFFICES ASSUME nexts[e] = e PROVE FALSE
    BY Zenon
  <1> DEFINE S == {x \in Pcb : Linked(x) /\ x # e}
             h == heads[Bucket(port[e])]
  <1>1. e # Nil /\ Bucket(port[e]) \in 0 .. Buckets - 1
    BY PortBucket, Zenon DEF UdpConstants, UdpInv, UdpTypes
  <1>2. pprevs[e] = <<"next", e>>
    BY <1>1, Zenon DEF UdpInv, Lists, NextsLead, PprevsLead
  <1>3. Leads(S)
    <2> SUFFICES ASSUME NEW x \in Pcb, Linked(x), x # e PROVE nexts[x] \in S \cup {Nil}
      BY Zenon DEF Leads
    <2>1. nexts[x] # e
      <3> SUFFICES ASSUME nexts[x] = e PROVE FALSE
        BY Zenon
      <3>1. pprevs[e] = <<"next", x>>
        BY <1>1, Zenon DEF UdpInv, Lists, NextsLead
      <3> QED BY <1>2, <3>1
    <2> QED BY <2>1, Zenon DEF UdpInv, UdpTypes, Lists, NextsLead
  <1>4. h \in S \cup {Nil}
    <2> SUFFICES ASSUME h # Nil PROVE h \in S
      BY Zenon
    <2>1. Linked(h) /\ pprevs[h] = <<"head", Bucket(port[e])>> /\ h \in Pcb
      BY <1>1, Zenon DEF UdpInv, UdpTypes, Lists, HeadsLead
    <2>2. h # e
      BY <1>2, <2>1
    <2> QED BY <2>1, <2>2, Zenon
  <1>5. e \in S
    BY <1>3, <1>4, Zenon DEF UdpInv, Reached
  <1> QED BY <1>5, Zenon

\* An empty table, and no reader.
LEMMA UdpInitInv == ASSUME UdpConstants, UdpInit PROVE UdpInv
  <1>1. UdpTypes
    BY DEF UdpConstants, UdpInit, UdpTypes
  <1>2. \A e \in Pcb : ~Linked(e)
    BY Zenon DEF UdpInit, Linked
  <1>3. Lists /\ Reached
    BY <1>2, PortBucket, Zenon DEF UdpInit, Lists, HeadsLead, NextsLead, PprevsLead, Reached
  <1>4. Ahead /\ Walking
    BY Zenon DEF UdpInit, Ahead, Walking
  <1>5. PortsApart
    BY Zenon DEF UdpInit, PortsApart
  <1> QED BY <1>1, <1>3, <1>4, <1>5, Zenon DEF UdpInv

\* Steps that leave the lists and the readers alone and no entry's presence in the
\* table or in a grace period: Bind, Close, Closed and Delete.
LEMMA TableRests ==
  ASSUME UdpConstants, UdpInv, UdpTypes', UNCHANGED <<table, grace, readers>>,
         \A x \in Pcb : Linked(x)' <=> Linked(x),
         \A x \in Pcb : Linked(x) => port'[x] = port[x],
         \A x \in Pcb : grace[x] # {} => (phase'[x] = "grace" <=> phase[x] = "grace")
  PROVE  Lists' /\ Reached' /\ Ahead' /\ Walking'
  <1>1. /\ heads' = heads /\ nexts' = nexts /\ pprevs' = pprevs /\ grace' = grace
        /\ at' = at /\ pos' = pos /\ key' = key /\ owed' = owed
    BY Zenon DEF table, readers
  <1>2. \A S : Leads(S)' <=> Leads(S)
    BY <1>1, Zenon DEF Leads
  <1>3. \A v \in Reader : Kept(v)' = Kept(v)
    BY <1>1, Zenon DEF Kept
  <1>4. Lists'
    <2>1. HeadsLead'
      BY <1>1, Zenon DEF UdpInv, UdpTypes, Lists, HeadsLead, Bucket
    <2>2. NextsLead'
      BY <1>1 DEF UdpInv, UdpTypes, Lists, NextsLead, Bucket
    <2>3. PprevsLead'
      BY <1>1, Zenon DEF UdpInv, Lists, PprevsLead
    <2> QED BY <2>1, <2>2, <2>3, Zenon DEF Lists
  <1>5. Reached'
    BY <1>1, <1>2, Zenon DEF UdpInv, Reached, Bucket
  <1>6. Ahead'
    BY <1>1, <1>2, Zenon DEF UdpInv, Ahead
  <1>7. Walking'
    BY <1>1, <1>2, <1>3 DEF UdpInv, UdpTypes, Walking
  <1> QED BY <1>4, <1>5, <1>6, <1>7, Zenon

-----------------------------------------------------------------------------
\* push_front: the new entry leads to the old head and the bucket leads to it, so
\* whatever was reached still is.
LEMMA InsertKeeps ==
  ASSUME UdpConstants, UdpInv, UdpTypes', NEW e \in Pcb, Insert(e)
  PROVE  Lists' /\ Reached' /\ Ahead' /\ Walking'
  <1> DEFINE b == Bucket(port[e])
             head == heads[b]
  <1>0. b \in 0 .. Buckets - 1 /\ e # Nil /\ head \in Pcb \cup {Nil}
    BY PortBucket, Zenon DEF UdpConstants, UdpInv, UdpTypes
  <1>1. /\ phase[e] = "insert" /\ phase' = [phase EXCEPT ![e] = "bound"]
        /\ nexts' = [nexts EXCEPT ![e] = head] /\ heads' = [heads EXCEPT ![b] = e]
        /\ pprevs' = [x \in Pcb |-> IF x = e THEN <<"head", b>>
                                    ELSE IF x = head THEN <<"next", e>> ELSE pprevs[x]]
        /\ port' = port /\ grace' = grace /\ at' = at /\ pos' = pos /\ key' = key /\ owed' = owed
    BY Zenon DEF Insert, readers
  <1>2. ~Linked(e) /\ \A x \in Pcb : Linked(x)' <=> Linked(x) \/ x = e
    BY <1>1, Zenon DEF Linked, UdpInv, UdpTypes
  <1>3. \A v \in Reader : e \notin Kept(v) /\ Kept(v)' = Kept(v) \cup {e}
    BY <1>1, <1>2 DEF Kept, Linked, UdpInv, UdpTypes
  <1>4. head # Nil => Linked(head) /\ pprevs[head] = <<"head", b>> /\ Bucket(port[head]) = b
    BY <1>0, Zenon DEF UdpInv, Lists, HeadsLead
  <1>5. /\ nexts'[e] = head /\ \A x \in Pcb : x # e => nexts'[x] = nexts[x]
        /\ heads'[b] = e /\ \A c \in 0 .. Buckets - 1 : c # b => heads'[c] = heads[c]
    BY <1>0, <1>1, Zenon DEF UdpInv, UdpTypes
  <1>6. /\ pprevs'[e] = <<"head", b>> /\ (head # Nil => pprevs'[head] = <<"next", e>>)
        /\ \A x \in Pcb : x # e /\ x # head => pprevs'[x] = pprevs[x]
    BY <1>0, <1>1, <1>2, <1>4, Zenon
  <1> DEFINE Slot(x) == Bucket(port[x])
  <1>7. /\ Slot(e) = b /\ \A x \in Pcb : Slot(x)' = Slot(x) /\ Slot(x) \in 0 .. Buckets - 1
    BY <1>1, PortBucket, Zenon DEF UdpInv, UdpTypes
  <1> HIDE DEF b, head, Slot
  <1>8. HeadsLead'
    <2> SUFFICES ASSUME NEW c \in 0 .. Buckets - 1, heads'[c] # Nil
                 PROVE  Linked(heads[c])' /\ pprevs'[heads'[c]] = <<"head", c>> /\ Slot(heads[c])' = c
      BY Zenon DEF HeadsLead, Slot
    <2>1. CASE c = b
      BY <2>1, <1>2, <1>5, <1>6, <1>7, Zenon DEF Slot
    <2>2. CASE c # b
      <3>1. heads'[c] = heads[c] /\ heads[c] \in Pcb /\ Linked(heads[c])
            /\ pprevs[heads[c]] = <<"head", c>> /\ Slot(heads[c]) = c
        BY <2>2, <1>5, Zenon DEF UdpInv, UdpTypes, Lists, HeadsLead, Slot
      <3>2. heads[c] # e /\ heads[c] # head
        BY <3>1, <2>2, <1>2, <1>4
      <3> QED BY <3>1, <3>2, <1>1, <1>2, <1>6, Zenon DEF Slot
    <2> QED BY <2>1, <2>2, Zenon
  <1>9. NextsLead'
    <2> SUFFICES ASSUME NEW x \in Pcb, Linked(x)', nexts'[x] # Nil
                 PROVE  /\ Linked(nexts[x])' /\ pprevs'[nexts'[x]] = <<"next", x>>
                        /\ Bucket(port'[nexts'[x]]) = Bucket(port'[x])
      BY Zenon DEF NextsLead
    <2>1. CASE x = e
      BY <2>1, <1>0, <1>1, <1>2, <1>4, <1>5, <1>6, Zenon DEF b
    <2>2. CASE x # e
      <3>1. nexts'[x] = nexts[x] /\ nexts[x] \in Pcb /\ Linked(nexts[x])
            /\ pprevs[nexts[x]] = <<"next", x>> /\ Bucket(port[nexts[x]]) = Bucket(port[x])
        BY <2>2, <1>2, <1>5, Zenon DEF UdpInv, UdpTypes, Lists, NextsLead
      <3>2. nexts[x] # e /\ nexts[x] # head
        BY <3>1, <1>2, <1>4
      <3> QED BY <3>1, <3>2, <1>1, <1>2, <1>6, Zenon
    <2> QED BY <2>1, <2>2, Zenon
  <1>10. PprevsLead'
    <2> SUFFICES ASSUME NEW x \in Pcb, Linked(x)'
                 PROVE  \/ \E c \in 0 .. Buckets - 1 : pprevs'[x] = <<"head", c>> /\ heads'[c] = x
                        \/ \E y \in Pcb : pprevs'[x] = <<"next", y>> /\ Linked(y)' /\ nexts'[y] = x
      BY Zenon DEF PprevsLead
    <2>1. CASE x = e
      BY <2>1, <1>0, <1>5, <1>6, Zenon
    <2>2. CASE x # e /\ x = head
      BY <2>2, <1>0, <1>2, <1>5, <1>6, Zenon DEF UdpConstants
    <2>3. CASE x # e /\ x # head
      <3>1. \/ \E c \in 0 .. Buckets - 1 : pprevs[x] = <<"head", c>> /\ heads[c] = x
            \/ \E y \in Pcb : pprevs[x] = <<"next", y>> /\ Linked(y) /\ nexts[y] = x
        BY <2>3, <1>2, Zenon DEF UdpInv, Lists, PprevsLead
      <3> QED BY <3>1, <2>3, <1>2, <1>5, <1>6, Zenon DEF head
    <2> QED BY <2>1, <2>2, <2>3, Zenon
  <1>11. Reached'
    <2> SUFFICES ASSUME NEW x \in Pcb, Linked(x)', NEW S \in SUBSET Pcb, Leads(S)',
                        heads'[Slot(x)] \in S \cup {Nil}
                 PROVE  x \in S
      BY <1>7, Zenon DEF Reached, Slot
    <2> DEFINE T == {y \in S : Linked(y)}
    <2>1. Leads(T)
      BY <1>2, <1>5, Zenon DEF Leads, UdpInv, UdpTypes, Lists, NextsLead
    <2>2. CASE x = e
      BY <2>2, <1>0, <1>5, <1>7, Zenon
    <2>3. CASE x # e /\ Slot(x) = b
      <3>1. e \in S
        BY <2>3, <1>0, <1>5, Zenon
      <3>2. head \in S \cup {Nil}
        BY <3>1, <1>5, Zenon DEF Leads
      <3>3. head \in T \cup {Nil}
        BY <3>2, <1>4, Zenon
      <3> QED BY <3>3, <2>1, <2>3, <1>2, Zenon DEF UdpInv, Reached, Slot, head
    <2>4. CASE x # e /\ Slot(x) # b
      <3>1. heads[Slot(x)] \in T \cup {Nil}
        BY <2>4, <1>5, <1>7, Zenon DEF UdpInv, Lists, HeadsLead
      <3> QED BY <3>1, <2>1, <2>4, <1>2, Zenon DEF UdpInv, Reached, Slot
    <2> QED BY <2>2, <2>3, <2>4, Zenon
  <1>12. Ahead'
    <2> SUFFICES ASSUME NEW v \in Reader, NEW S \in SUBSET Pcb, Leads(S)', pos[v] \in S \cup {Nil}
                 PROVE  owed[v] \subseteq S
      BY <1>1, Zenon DEF Ahead
    <2>1. CASE at[v] = "idle"
      BY <2>1, Zenon DEF UdpInv, Walking
    <2>2. CASE at[v] # "idle"
      <3> DEFINE T == S \cap Kept(v)
      <3>1. Leads(T)
        BY <2>2, <1>3, <1>5, Zenon DEF Leads, UdpInv, Walking
      <3>2. pos[v] \in T \cup {Nil}
        BY Zenon DEF UdpInv, Walking
      <3>3. T \in SUBSET Pcb
        BY Zenon
      <3> HIDE DEF T
      <3>4. owed[v] \subseteq T
        BY <3>1, <3>2, <3>3, Zenon DEF UdpInv, Ahead
      <3> QED BY <3>4, Zenon DEF T
    <2> QED BY <2>1, <2>2, Zenon
  <1>13. Walking'
    <2>1. \A v \in Reader : at[v] # "idle" => Leads(Kept(v))'
      <3> SUFFICES ASSUME NEW v \in Reader, at[v] # "idle", NEW x \in Kept(v)'
                   PROVE  nexts'[x] \in Kept(v)' \cup {Nil}
        BY Zenon DEF Leads
      <3>1. CASE x = e
        BY <3>1, <1>3, <1>4, <1>0, <1>5, Zenon DEF Kept
      <3>2. CASE x # e
        <4>1. x \in Kept(v) /\ x \in Pcb
          BY <3>2, <1>3 DEF Kept
        <4> QED BY <4>1, <3>2, <1>3, <1>5, Zenon DEF UdpInv, Walking, Leads
      <3> QED BY <3>1, <3>2, Zenon
    <2>2. \A v \in Reader : \A x \in owed[v] : Linked(x)' /\ port'[x] = key[v]
      BY <1>1, <1>2, Zenon DEF UdpInv, UdpTypes, Walking
    <2>3. \A v \in Reader : pos[v] # Nil => pos[v] \in Kept(v)'
      BY <1>3, Zenon DEF UdpInv, Walking
    <2> QED BY <1>1, <2>1, <2>2, <2>3, Zenon DEF UdpInv, Walking
  <1> QED BY <1>8, <1>9, <1>10, <1>11, <1>12, <1>13, Zenon DEF Lists

\* erase: what led to the entry leads past it, and the entry still leads on.
LEMMA EraseKeeps ==
  ASSUME UdpConstants, UdpInv, UdpTypes', NEW e \in Pcb, Erase(e)
  PROVE  Lists' /\ Reached' /\ Ahead' /\ Walking'
  <1> DEFINE next == nexts[e]
             from == pprevs[e]
             Slot(x) == Bucket(port[x])
  <1>1. /\ phase[e] = "erase" /\ phase' = [phase EXCEPT ![e] = "grace"]
        /\ heads' = (IF from[1] = "head" THEN [heads EXCEPT ![from[2]] = next] ELSE heads)
        /\ nexts' = (IF from[1] = "next" THEN [nexts EXCEPT ![from[2]] = next] ELSE nexts)
        /\ pprevs' = [x \in Pcb |-> IF x = next THEN from ELSE pprevs[x]]
        /\ port' = [port EXCEPT ![e] = 0]
        /\ grace' = [grace EXCEPT ![e] = {v \in Reader : at[v] # "idle"}]
        /\ owed' = [v \in Reader |-> owed[v] \ {e}]
        /\ at' = at /\ pos' = pos /\ key' = key
    BY Zenon DEF Erase, Unlink
  <1>2. Linked(e) /\ e # Nil /\ \A x \in Pcb : Linked(x)' <=> Linked(x) /\ x # e
    BY <1>1, Zenon DEF Linked, UdpInv, UdpTypes, UdpConstants
  <1>3. next \in Pcb \cup {Nil} /\ next # e
    BY <1>2, NoLoop, Zenon DEF UdpInv, UdpTypes
  <1>4. next # Nil => Linked(next) /\ pprevs[next] = <<"next", e>> /\ Slot(next) = Slot(e)
    BY <1>2, Zenon DEF UdpInv, Lists, NextsLead
  <1>5. \A x \in Pcb : x # e => Slot(x)' = Slot(x)
    BY <1>1, Zenon DEF UdpInv, UdpTypes
  <1>6. \A x \in Pcb : Slot(x) \in 0 .. Buckets - 1
    BY PortBucket, Zenon DEF UdpInv, UdpTypes
  <1>7. \A v \in Reader : at[v] # "idle" => Kept(v)' = Kept(v)
    BY <1>1, <1>2, Zenon DEF Kept, Linked, UdpInv, UdpTypes
  <1>8. /\ (next # Nil => pprevs'[next] = from)
        /\ \A x \in Pcb : x # next => pprevs'[x] = pprevs[x]
    BY <1>1, <1>3, Zenon
  \* Either a head or another entry leads to e.
  <1>9. \/ \E b \in 0 .. Buckets - 1 : from = <<"head", b>> /\ heads[b] = e
        \/ \E y \in Pcb : from = <<"next", y>> /\ Linked(y) /\ nexts[y] = e
    BY <1>2, Zenon DEF UdpInv, Lists, PprevsLead
  <1> HIDE DEF next, from, Slot
  \* A set that no pointer leaves afterwards, with e if something in it led to e, is a
  \* set that no pointer left before.
  <1>10. ASSUME NEW S \in SUBSET Pcb, Leads(S)'
         PROVE  \E T \in SUBSET Pcb : Leads(T) /\ S \subseteq T /\ T \subseteq S \cup {e}
    <2>1. ASSUME NEW b \in 0 .. Buckets - 1, from = <<"head", b>>
          PROVE  Leads(S)
      BY <2>1, <1>1, <1>10, Zenon DEF Leads
    <2>2. ASSUME NEW y \in Pcb, from = <<"next", y>>, Linked(y), nexts[y] = e
          PROVE  \E T \in SUBSET Pcb : Leads(T) /\ S \subseteq T /\ T \subseteq S \cup {e}
      <3>1. nexts' = [nexts EXCEPT ![y] = next] /\ y # e
        BY <2>2, <1>1, <1>3, Zenon DEF next
      <3>2. nexts'[y] = next /\ \A x \in Pcb : x # y => nexts'[x] = nexts[x]
        BY <3>1, Zenon DEF UdpInv, UdpTypes
      <3>3. CASE y \in S
        <4>1. Leads(S \cup {e})
          BY <3>2, <3>3, <2>2, <1>10, Zenon DEF Leads, next
        <4> QED BY <4>1, Zenon
      <3>4. CASE y \notin S
        <4>1. Leads(S)
          BY <3>2, <3>4, <1>10, Zenon DEF Leads
        <4> QED BY <4>1, Zenon
      <3> QED BY <3>3, <3>4, Zenon
    <2> QED BY <2>1, <2>2, <1>9, Zenon
  <1>11. HeadsLead' /\ Reached'
    <2>1. ASSUME NEW b \in 0 .. Buckets - 1, from = <<"head", b>>, heads[b] = e
          PROVE  HeadsLead' /\ Reached'
      <3>1. heads' = [heads EXCEPT ![b] = next] /\ nexts' = nexts
        BY <2>1, <1>1, Zenon
      <3>2. heads'[b] = next /\ \A c \in 0 .. Buckets - 1 : c # b => heads'[c] = heads[c]
        BY <3>1, Zenon DEF UdpInv, UdpTypes
      <3>3. Slot(e) = b
        BY <2>1, <1>2, Zenon DEF UdpInv, Lists, HeadsLead, Slot
      <3>4. ASSUME NEW c \in 0 .. Buckets - 1, heads'[c] # Nil
            PROVE  Linked(heads[c])' /\ pprevs'[heads'[c]] = <<"head", c>> /\ Slot(heads[c])' = c
        <4>1. CASE c = b
          BY <4>1, <3>2, <3>3, <3>4, <2>1, <1>2, <1>3, <1>4, <1>5, <1>8, Zenon DEF Slot
        <4>2. CASE c # b
          <5>1. heads'[c] = heads[c] /\ heads[c] \in Pcb /\ Linked(heads[c])
                /\ pprevs[heads[c]] = <<"head", c>> /\ Slot(heads[c]) = c
            BY <4>2, <3>2, <3>4, Zenon DEF UdpInv, UdpTypes, Lists, HeadsLead, Slot
          <5>2. heads[c] # e /\ heads[c] # next
            BY <5>1, <4>2, <2>1, <1>4 DEF from, UdpConstants
          <5> QED BY <5>1, <5>2, <1>2, <1>5, <1>8, Zenon DEF Slot
        <4> QED BY <4>1, <4>2, Zenon
      <3>5. ASSUME NEW x \in Pcb, Linked(x)', NEW S \in SUBSET Pcb, Leads(S)',
                   heads'[Slot(x)] \in S \cup {Nil}
            PROVE  x \in S
        <4>1. Leads(S) /\ Linked(x) /\ x # e
          BY <3>1, <3>5, <1>2, Zenon DEF Leads
        <4>2. CASE Slot(x) = b
          <5>1. Leads(S \cup {e})
            BY <4>1, <4>2, <3>2, <3>5, Zenon DEF Leads, next
          <5>2. heads[Slot(x)] \in (S \cup {e}) \cup {Nil}
            BY <4>2, <2>1, Zenon
          <5> QED BY <5>1, <5>2, <4>1 DEF UdpInv, Reached, Slot
        <4>3. CASE Slot(x) # b
          BY <4>1, <4>3, <3>2, <3>5, <1>6, Zenon DEF UdpInv, Reached, Slot
        <4> QED BY <4>2, <4>3, Zenon
      <3>6. HeadsLead'
        BY <3>4, Zenon DEF HeadsLead, Slot
      <3>7. Reached'
        BY <3>5, <1>2, <1>5, Zenon DEF Reached, Slot
      <3> QED BY <3>6, <3>7, Zenon
    <2>2. ASSUME NEW y \in Pcb, from = <<"next", y>>, Linked(y), nexts[y] = e
          PROVE  HeadsLead' /\ Reached'
      <3>1. heads' = heads
        BY <2>2, <1>1, Zenon
      <3>2. ASSUME NEW c \in 0 .. Buckets - 1, heads'[c] # Nil
            PROVE  Linked(heads[c])' /\ pprevs'[heads'[c]] = <<"head", c>> /\ Slot(heads[c])' = c
        <4>1. heads[c] \in Pcb /\ Linked(heads[c]) /\ pprevs[heads[c]] = <<"head", c>> /\ Slot(heads[c]) = c
          BY <3>1, <3>2, Zenon DEF UdpInv, UdpTypes, Lists, HeadsLead, Slot
        <4>2. heads[c] # e /\ heads[c] # next
          BY <4>1, <2>2, <1>4 DEF from, UdpConstants
        <4> QED BY <4>1, <4>2, <3>1, <1>2, <1>5, <1>8, Zenon DEF Slot
      <3>3. ASSUME NEW x \in Pcb, Linked(x)', NEW S \in SUBSET Pcb, Leads(S)',
                   heads'[Slot(x)] \in S \cup {Nil}
            PROVE  x \in S
        <4>1. PICK T \in SUBSET Pcb : Leads(T) /\ S \subseteq T /\ T \subseteq S \cup {e}
          BY <3>3, <1>10, Zenon
        <4>2. heads[Slot(x)] \in T \cup {Nil} /\ Linked(x) /\ x # e
          BY <4>1, <3>1, <3>3, <1>2, Zenon
        <4> QED BY <4>1, <4>2, Zenon DEF UdpInv, Reached, Slot
      <3>4. HeadsLead'
        BY <3>2, Zenon DEF HeadsLead, Slot
      <3>5. Reached'
        BY <3>3, <1>2, <1>5, Zenon DEF Reached, Slot
      <3> QED BY <3>4, <3>5, Zenon
    <2> QED BY <2>1, <2>2, <1>9, Zenon
  <1>12. NextsLead'
    <2> SUFFICES ASSUME NEW x \in Pcb, Linked(x)', nexts'[x] # Nil
                 PROVE  /\ Linked(nexts[x])' /\ pprevs'[nexts'[x]] = <<"next", x>>
                        /\ Slot(nexts[x])' = Slot(x)'
      BY Zenon DEF NextsLead, Slot
    <2>0. Linked(x) /\ x # e
      BY <1>2, Zenon
    <2>1. CASE from = <<"next", x>>
      <3>1. nexts'[x] = next /\ nexts[x] = e
        BY <2>0, <2>1, <1>1, <1>9, Zenon DEF UdpInv, UdpTypes
      <3>2. Slot(x) = Slot(e)
        BY <3>1, <2>0, <1>2, Zenon DEF UdpInv, Lists, NextsLead, Slot
      <3> QED BY <3>1, <3>2, <2>0, <2>1, <1>2, <1>3, <1>4, <1>5, <1>8, Zenon DEF Slot
    <2>2. CASE from # <<"next", x>>
      <3>1. nexts'[x] = nexts[x]
        BY <2>2, <1>1, <1>9 DEF UdpInv, UdpTypes
      <3>2. nexts[x] \in Pcb /\ Linked(nexts[x]) /\ pprevs[nexts[x]] = <<"next", x>>
            /\ Slot(nexts[x]) = Slot(x)
        BY <3>1, <2>0, Zenon DEF UdpInv, UdpTypes, Lists, NextsLead, Slot
      <3>3. nexts[x] # e /\ nexts[x] # next
        BY <3>2, <2>0, <2>2, <1>4 DEF from, UdpConstants
      <3> QED BY <3>1, <3>2, <3>3, <2>0, <1>2, <1>5, <1>8, Zenon DEF Slot
    <2> QED BY <2>1, <2>2, Zenon
  <1>13. PprevsLead'
    <2> SUFFICES ASSUME NEW x \in Pcb, Linked(x)'
                 PROVE  \/ \E c \in 0 .. Buckets - 1 : pprevs'[x] = <<"head", c>> /\ heads'[c] = x
                        \/ \E y \in Pcb : pprevs'[x] = <<"next", y>> /\ Linked(y)' /\ nexts'[y] = x
      BY Zenon DEF PprevsLead
    <2>0. Linked(x) /\ x # e
      BY <1>2, Zenon
    <2>1. CASE x = next
      <3>0. pprevs'[x] = from
        BY <2>1, <1>2, <1>3, <1>8, Zenon DEF UdpConstants
      <3>1. ASSUME NEW b \in 0 .. Buckets - 1, from = <<"head", b>>
            PROVE  heads'[b] = x
        BY <3>1, <2>1, <1>1, Zenon DEF UdpInv, UdpTypes
      <3>2. ASSUME NEW y \in Pcb, from = <<"next", y>>, Linked(y), nexts[y] = e
            PROVE  Linked(y)' /\ nexts'[y] = x
        <4>1. y # e
          BY <3>2, <1>3, Zenon DEF next
        <4> QED BY <4>1, <3>2, <2>1, <1>1, <1>2, Zenon DEF UdpInv, UdpTypes
      <3> QED BY <3>0, <3>1, <3>2, <1>9, Zenon
    <2>2. CASE x # next
      <3>0. pprevs'[x] = pprevs[x]
        BY <2>2, <1>8, Zenon
      <3>1. ASSUME NEW c \in 0 .. Buckets - 1, pprevs[x] = <<"head", c>>, heads[c] = x
            PROVE  heads'[c] = x
        BY <3>1, <2>0, <1>1, <1>9 DEF UdpInv, UdpTypes
      <3>2. ASSUME NEW y \in Pcb, pprevs[x] = <<"next", y>>, Linked(y), nexts[y] = x
            PROVE  Linked(y)' /\ nexts'[y] = x
        <4>1. y # e
          BY <3>2, <2>2, Zenon DEF next
        <4>2. from # <<"next", y>>
          BY <3>2, <2>0, <1>9
        <4> QED BY <4>1, <4>2, <3>2, <1>1, <1>2, <1>9 DEF UdpInv, UdpTypes
      <3>3. \/ \E c \in 0 .. Buckets - 1 : pprevs[x] = <<"head", c>> /\ heads[c] = x
            \/ \E y \in Pcb : pprevs[x] = <<"next", y>> /\ Linked(y) /\ nexts[y] = x
        BY <2>0, Zenon DEF UdpInv, Lists, PprevsLead
      <3> QED BY <3>0, <3>1, <3>2, <3>3, Zenon
    <2> QED BY <2>1, <2>2, Zenon
  <1>14. Ahead'
    <2> SUFFICES ASSUME NEW v \in Reader, NEW S \in SUBSET Pcb, Leads(S)', pos[v] \in S \cup {Nil}
                 PROVE  owed'[v] \subseteq S
      BY <1>1, Zenon DEF Ahead
    <2>1. PICK T \in SUBSET Pcb : Leads(T) /\ S \subseteq T /\ T \subseteq S \cup {e}
      BY <1>10, Zenon
    <2>2. owed[v] \subseteq T
      BY <2>1, Zenon DEF UdpInv, Ahead
    <2>3. owed'[v] = owed[v] \ {e}
      BY <1>1, Zenon
    <2> QED BY <2>1, <2>2, <2>3, Zenon
  <1>15. Walking'
    <2>1. \A v \in Reader : at[v] # "idle" => Leads(Kept(v))'
      <3> SUFFICES ASSUME NEW v \in Reader, at[v] # "idle", NEW x \in Kept(v)
                   PROVE  nexts'[x] \in Kept(v) \cup {Nil}
        BY <1>7, Zenon DEF Leads
      <3>1. e \in Kept(v) /\ x \in Pcb
        BY <1>2, Zenon DEF Kept
      <3>2. nexts[x] \in Kept(v) \cup {Nil} /\ next \in Kept(v) \cup {Nil}
        BY <3>1, Zenon DEF UdpInv, Walking, Leads, next
      <3>3. nexts'[x] \in {nexts[x], next}
        BY <3>1, <1>1, <1>9, Zenon DEF UdpInv, UdpTypes
      <3> QED BY <3>2, <3>3, Zenon
    <2>2. \A v \in Reader : pos[v] # Nil => pos[v] \in Kept(v)'
      BY <1>7, Zenon DEF UdpInv, Walking
    <2>3. \A v \in Reader : \A x \in owed'[v] : Linked(x)' /\ port'[x] = key[v]
      BY <1>1, <1>2, Zenon DEF UdpInv, UdpTypes, Walking
    <2>4. \A x \in Pcb : \A v \in grace'[x] : at[v] # "idle"
      BY <1>1, Zenon DEF UdpInv, UdpTypes, Walking
    <2>5. \A v \in Reader : owed'[v] \subseteq owed[v]
      BY <1>1, Zenon
    <2> QED BY <1>1, <2>1, <2>2, <2>3, <2>4, <2>5, Zenon DEF UdpInv, Walking
  <1> QED BY <1>11, <1>12, <1>13, <1>14, <1>15, Zenon DEF Lists

-----------------------------------------------------------------------------
\* The steps of a reader: it starts at a head, and goes on while what it is owed is
\* still ahead.
LEMMA ReadersKeep ==
  ASSUME UdpConstants, UdpInv, UdpTypes', NEW v \in Reader,
         (\E p \in Sought : ReceiveUdp(v, p)) \/ Compare(v) \/ Increment(v) \/ End(v)
  PROVE  Lists' /\ Reached' /\ Ahead' /\ Walking'
  <1>t. /\ Lists /\ Reached /\ Ahead /\ Walking /\ grace \in [Pcb -> SUBSET Reader]
        /\ heads \in [0 .. Buckets - 1 -> Pcb \cup {Nil}] /\ nexts \in [Pcb -> Pcb \cup {Nil}]
        /\ DOMAIN at = Reader /\ pos \in [Reader -> Pcb \cup {Nil}] /\ DOMAIN key = Reader
        /\ owed \in [Reader -> SUBSET Pcb]
    BY Zenon DEF UdpInv, UdpTypes
  <1>1. heads' = heads /\ nexts' = nexts /\ pprevs' = pprevs /\ port' = port /\ phase' = phase
    BY Zenon DEF ReceiveUdp, Compare, Increment, End, table
  <1>2. Lists' /\ Reached' /\ \A S : Leads(S)' <=> Leads(S)
    <2>1. Lists'
      BY <1>t, <1>1, Zenon DEF Lists, HeadsLead, NextsLead, PprevsLead, Linked
    <2>2. \A S : Leads(S)' <=> Leads(S)
      BY <1>1, Zenon DEF Leads
    <2> QED BY <1>t, <1>1, <2>1, <2>2, Zenon DEF Reached, Linked
  <1>3. \A x \in Pcb : Linked(x)' <=> Linked(x)
    BY <1>1, Zenon DEF Linked
  \* The other readers are as they were.
  <1>4. \A u \in Reader : u # v => /\ at'[u] = at[u] /\ pos'[u] = pos[u] /\ key'[u] = key[u]
                                   /\ owed'[u] = owed[u] /\ Kept(u)' = Kept(u)
    <2>1. \A u \in Reader : u # v => /\ at'[u] = at[u] /\ pos'[u] = pos[u] /\ key'[u] = key[u]
                                     /\ owed'[u] = owed[u]
      BY <1>t, Zenon DEF ReceiveUdp, Compare, Increment, End
    <2>2. \A u \in Reader, x \in Pcb : u # v => (u \in grace'[x] <=> u \in grace[x])
      BY <1>t DEF ReceiveUdp, Compare, Increment, End
    <2> QED BY <1>1, <1>3, <2>1, <2>2, Zenon DEF Kept
  \* What has to hold of v.
  <1>5. SUFFICES /\ \A S \in SUBSET Pcb : Leads(S) /\ pos'[v] \in S \cup {Nil} => owed'[v] \subseteq S
                 /\ at'[v] = "idle" => pos'[v] = Nil /\ owed'[v] = {}
                 /\ pos'[v] # Nil => pos'[v] \in Kept(v)'
                 /\ at'[v] # "idle" => Leads(Kept(v)')
                 /\ at'[v] = "next" => pos'[v] # Nil /\ pos'[v] \notin owed'[v]
                 /\ \A x \in owed'[v] : Linked(x) /\ port[x] = key'[v]
                 /\ \A x \in Pcb : \A u \in grace'[x] : at'[u] # "idle"
    <2>1. Ahead'
      BY <1>t, <1>2, <1>4, <1>5, Zenon DEF Ahead
    <2>2. \A u \in Reader : at'[u] # "idle" => Leads(Kept(u))'
      <3>1. \A u \in Reader : at'[u] # "idle" => Leads(Kept(u)')
        BY <1>t, <1>4, <1>5, Zenon DEF Walking
      <3> QED BY <3>1, <1>1, Zenon DEF Leads
    <2>3. \A u \in Reader : \A x \in owed'[u] : Linked(x)' /\ port'[x] = key'[u]
      <3>1. \A u \in Reader : u # v => \A x \in owed'[u] : Linked(x) /\ port[x] = key'[u]
        BY <1>t, <1>4 DEF Walking
      <3>2. \A u \in Reader : \A x \in owed'[u] : Linked(x) /\ port[x] = key'[u]
        BY <3>1, <1>1, <1>5, Zenon
      <3>3. \A u \in Reader : \A x \in owed'[u] : x \in Pcb
        BY DEF UdpTypes
      <3> QED BY <3>2, <3>3, <1>1, <1>3, Zenon
    <2>4. \A u \in Reader : pos'[u] # Nil => pos'[u] \in Kept(u)'
      BY <1>t, <1>4, <1>5 DEF Walking
    <2> QED BY <1>t, <1>2, <1>4, <1>5, <2>1, <2>2, <2>3, <2>4, Zenon DEF Walking
  <1>6. CASE \E p \in Sought : ReceiveUdp(v, p)
    <2>0. PICK p \in Sought : ReceiveUdp(v, p)
      BY <1>6, Zenon
    <2>1. /\ at[v] = "idle" /\ at'[v] = "compare" /\ key'[v] = p /\ pos'[v] = heads[Bucket(p)]
          /\ owed'[v] = {e \in Pcb : Linked(e) /\ port[e] = p} /\ grace' = grace
      BY <1>t, <2>0, Zenon DEF ReceiveUdp, Linked
    <2>2. \A x \in Pcb : v \notin grace[x]
      BY <1>t, <2>1, Zenon DEF Walking
    <2>3. Kept(v)' = {x \in Pcb : Linked(x)}
      BY <1>3, <2>1, <2>2, Zenon DEF Kept
    <2>4. Leads({x \in Pcb : Linked(x)})
      BY <1>t, Zenon DEF Leads, Lists, NextsLead
    <2>5. Bucket(p) \in 0 .. Buckets - 1
      BY PortBucket, Zenon DEF UdpConstants
    <2>6. pos'[v] # Nil => pos'[v] \in Kept(v)'
      BY <1>t, <2>1, <2>3, <2>5, Zenon DEF Lists, HeadsLead
    <2>7. \A S \in SUBSET Pcb : Leads(S) /\ pos'[v] \in S \cup {Nil} => owed'[v] \subseteq S
      BY <1>t, <2>1, Zenon DEF Reached
    <2>8. \A x \in Pcb : \A u \in grace'[x] : at'[u] # "idle"
      BY <1>t, <2>1, <2>2, <1>4 DEF Walking
    <2> QED BY <2>1, <2>3, <2>4, <2>6, <2>7, <2>8, Zenon
  <1>7. CASE Compare(v)
    <2>1. /\ pos[v] # Nil /\ pos' = pos /\ key' = key /\ owed' = owed /\ grace' = grace /\ at[v] # "idle"
          /\ at'[v] = IF port[pos[v]] = key[v] THEN "call" ELSE "next"
      BY <1>t, <1>7, Zenon DEF Compare
    <2>2. Kept(v)' = Kept(v)
      BY <1>3, <1>1, <2>1, Zenon DEF Kept
    <2>3. \A x \in Pcb : \A u \in grace'[x] : at'[u] # "idle"
      BY <1>t, <2>1, <1>4, Zenon DEF Walking
    <2> QED BY <1>t, <2>1, <2>2, <2>3 DEF Ahead, Walking
  <1>8. CASE Increment(v)
    <2>1. /\ at[v] = "next" /\ at'[v] = "compare" /\ pos'[v] = nexts[pos[v]]
          /\ key' = key /\ owed' = owed /\ grace' = grace
      BY <1>t, <1>8, Zenon DEF Increment
    <2>2. Kept(v)' = Kept(v)
      BY <1>3, <1>1, <2>1, Zenon DEF Kept
    <2>3. pos[v] \in Kept(v) /\ pos[v] \in Pcb /\ pos[v] \notin owed[v] /\ Leads(Kept(v))
      BY <1>t, <2>1, Zenon DEF Walking
    <2>4. pos'[v] \in Kept(v) \cup {Nil}
      BY <2>1, <2>3, Zenon DEF Leads
    <2>5. ASSUME NEW S \in SUBSET Pcb, Leads(S), pos'[v] \in S \cup {Nil}
          PROVE  owed[v] \subseteq S
      <3>1. Leads(S \cup {pos[v]})
        BY <2>1, <2>5, Zenon DEF Leads
      <3>2. owed[v] \subseteq S \cup {pos[v]}
        BY <1>t, <3>1, <2>3 DEF Ahead
      <3> QED BY <3>2, <2>3, Zenon
    <2>6. \A x \in Pcb : \A u \in grace'[x] : at'[u] # "idle"
      BY <1>t, <2>1, <1>4 DEF Walking
    <2> QED BY <1>t, <2>1, <2>2, <2>3, <2>4, <2>5, <2>6, Zenon DEF Walking
  <1>9. CASE End(v)
    <2>1. at'[v] = "idle" /\ pos'[v] = Nil /\ owed'[v] = {} /\ grace' = [e \in Pcb |-> grace[e] \ {v}]
      BY <1>t, <1>9, Zenon DEF End
    <2>2. \A x \in Pcb : \A u \in grace'[x] : at'[u] # "idle"
      BY <1>t, <2>1, <1>4, Zenon DEF Walking
    <2> QED BY <2>1, <2>2, Zenon
  <1> QED BY <1>6, <1>7, <1>8, <1>9, Zenon

-----------------------------------------------------------------------------
\* Binding takes the port it gives the endpoint from the pool, or a port that is not
\* reserved.
LEMMA BindTakes ==
  ASSUME UdpConstants, UdpTypes, NEW p \in Asked, BindTo(p)
  PROVE  LET q == IF p = 0 THEN Min(set) ELSE p
         IN  /\ q \in Nat /\ set' \in SUBSET Nat /\ set' \subseteq set
             /\ q >= ReserveFrom => q \in set /\ q \notin set'
  <1>1. p \in Nat /\ ReserveFrom \in Nat \ {0}
    BY Zenon DEF UdpConstants
  <1>2. CASE p = 0 /\ set # {} /\ set' = set \ {Min(set)}
    <2>1. Min(set) \in set
      BY <1>2, MinIsMember, Zenon DEF UdpTypes
    <2> QED BY <1>1, <1>2, <2>1, Zenon DEF UdpTypes
  <1>3. CASE p >= ReserveFrom /\ p \in set /\ set' = set \ {p} /\ p # 0
    BY <1>1, <1>3, Zenon DEF UdpTypes
  <1>4. CASE p # 0 /\ p < ReserveFrom /\ set' = set
    BY <1>1, <1>4 DEF UdpTypes
  <1> QED BY <1>1, <1>2, <1>3, <1>4 DEF BindTo

\* A port that is owned is not in the pool.
LEMMA PortsStep ==
  ASSUME UdpConstants, UdpTypes, PortsApart, [UdpNext]_udpVars
  PROVE  PortsApart' /\ set' \in SUBSET Nat /\ port' \in [Pcb -> Nat]
  <1>1. ASSUME NEW e \in Pcb, NEW p \in Asked, Bind(e, p)
        PROVE  PortsApart' /\ set' \in SUBSET Nat /\ port' \in [Pcb -> Nat]
    <2> DEFINE q == IF p = 0 THEN Min(set) ELSE p
    <2>1. /\ q \in Nat /\ set' \in SUBSET Nat /\ set' \subseteq set
          /\ q >= ReserveFrom => q \in set /\ q \notin set'
      BY <1>1, BindTakes, Zenon DEF Bind
    <2>2. port' = [port EXCEPT ![e] = q] /\ phase' = [phase EXCEPT ![e] = "insert"]
      BY <1>1, Zenon DEF Bind
    <2> HIDE DEF q
    <2> QED BY <2>1, <2>2 DEF PortsApart, UdpTypes, UdpConstants
  <1>2. ASSUME NEW e \in Pcb, Close(e)
        PROVE  PortsApart' /\ set' \in SUBSET Nat /\ port' \in [Pcb -> Nat]
    <2>1. set' = set \cup {port[e]} /\ phase' = [phase EXCEPT ![e] = "erase"] /\ port' = port
          /\ phase[e] = "bound"
      BY <1>2, Zenon DEF Close
    <2>2. \A x \in Pcb : phase'[x] \in {"insert", "bound"} => phase[x] \in {"insert", "bound"} /\ x # e
      BY <2>1, Zenon DEF UdpTypes
    <2>3. \A x \in Pcb : phase'[x] \in {"insert", "bound"} /\ port[x] >= ReserveFrom => port[x] # port[e]
      BY <2>1, <2>2, Zenon DEF PortsApart
    <2>4. PortsApart'
      BY <2>1, <2>2, <2>3, Zenon DEF PortsApart
    <2> QED BY <2>1, <2>4, Zenon DEF UdpTypes
  <1>3. ASSUME NEW e \in Pcb, Insert(e) \/ Erase(e) \/ Closed(e) \/ Delete(e)
        PROVE  PortsApart' /\ set' \in SUBSET Nat /\ port' \in [Pcb -> Nat]
    <2>1. set' = set
      BY <1>3, Zenon DEF Insert, Erase, Closed, Delete
    <2>2. \A x \in Pcb : phase'[x] \in {"insert", "bound"} => phase[x] \in {"insert", "bound"} /\ port'[x] = port[x]
      <3>1. CASE Insert(e)
        BY <3>1, Zenon DEF Insert, UdpTypes
      <3>2. CASE Erase(e) \/ Closed(e) \/ Delete(e)
        BY <3>2, Zenon DEF Erase, Closed, Delete, UdpTypes
      <3> QED BY <1>3, <3>1, <3>2, Zenon
    <2>3. port' \in [Pcb -> Nat]
      <3>1. CASE Erase(e)
        BY <3>1, Zenon DEF Erase, UdpTypes
      <3>2. CASE Insert(e) \/ Closed(e) \/ Delete(e)
        BY <3>2, Zenon DEF Insert, Closed, Delete, UdpTypes
      <3> QED BY <1>3, <3>1, <3>2, Zenon
    <2> QED BY <2>1, <2>2, <2>3, Zenon DEF PortsApart, UdpTypes
  <1>4. CASE UNCHANGED <<set, port, phase>>
    BY <1>4, Zenon DEF PortsApart, UdpTypes
  <1>5. ASSUME NEW v \in Reader, (\E p \in Sought : ReceiveUdp(v, p)) \/ Compare(v) \/ Increment(v) \/ End(v)
        PROVE  UNCHANGED <<set, port, phase>>
    BY <1>5, Zenon DEF ReceiveUdp, Compare, Increment, End
  <1> QED BY <1>1, <1>2, <1>3, <1>4, <1>5, Zenon DEF UdpNext, udpVars

\* Every pointer is to an entry or to nothing.
LEMMA UdpTypesStep ==
  ASSUME UdpConstants, UdpInv, [UdpNext]_udpVars
  PROVE  UdpTypes'
  <1>0. UdpTypes /\ set' \in SUBSET Nat /\ port' \in [Pcb -> Nat]
    BY PortsStep, Zenon DEF UdpInv
  <1>1. ASSUME NEW e \in Pcb, (\E p \in Asked : Bind(e, p)) \/ Close(e) \/ Closed(e) \/ Delete(e)
        PROVE  UdpTypes'
    BY <1>0, <1>1, Zenon DEF Bind, Close, Closed, Delete, UdpTypes, table, readers
  <1>2. ASSUME NEW e \in Pcb, Insert(e)
        PROVE  UdpTypes'
    <2>1. Bucket(port[e]) \in 0 .. Buckets - 1
      BY <1>0, PortBucket, Zenon DEF UdpTypes
    <2> QED BY <1>0, <1>2, <2>1, Zenon DEF Insert, UdpTypes, readers
  <1>3. ASSUME NEW e \in Pcb, Erase(e)
        PROVE  UdpTypes'
    <2>1. Linked(e)
      BY <1>3, Zenon DEF Erase, Linked
    <2>2. \/ \E b \in 0 .. Buckets - 1 : pprevs[e] = <<"head", b>>
          \/ \E y \in Pcb : pprevs[e] = <<"next", y>>
      BY <2>1, Zenon DEF UdpInv, Lists, PprevsLead
    <2>3. heads' \in [0 .. Buckets - 1 -> Pcb \cup {Nil}] /\ nexts' \in [Pcb -> Pcb \cup {Nil}]
      BY <1>0, <1>3, <2>2, Zenon DEF Erase, Unlink, UdpTypes
    <2> QED BY <1>0, <1>3, <2>3, Zenon DEF Erase, Unlink, UdpTypes
  <1>4. ASSUME NEW v \in Reader, (\E p \in Sought : ReceiveUdp(v, p)) \/ Compare(v) \/ Increment(v) \/ End(v)
        PROVE  UdpTypes'
    <2>1. CASE \E p \in Sought : ReceiveUdp(v, p)
      <3>1. PICK p \in Sought : ReceiveUdp(v, p)
        BY <2>1, Zenon
      <3>2. p \in Nat /\ Bucket(p) \in 0 .. Buckets - 1
        BY PortBucket, Zenon DEF UdpConstants
      <3> QED BY <1>0, <3>1, <3>2, Zenon DEF ReceiveUdp, UdpTypes, table
    <2>2. CASE Compare(v)
      BY <1>0, <2>2, Zenon DEF Compare, UdpTypes, table
    <2>4. CASE End(v)
      BY <1>0, <2>4, Zenon DEF End, UdpTypes, table
    <2>3. CASE Increment(v)
      <3>1. pos[v] \in Pcb
        BY <2>3, Zenon DEF Increment, UdpInv, UdpTypes, Walking
      <3> QED BY <1>0, <2>3, <3>1, Zenon DEF Increment, UdpTypes, table
    <2> QED BY <1>4, <2>1, <2>2, <2>3, <2>4, Zenon
  <1>5. CASE UNCHANGED udpVars
    BY <1>0, <1>5, Zenon DEF udpVars, table, readers, UdpTypes
  <1> QED BY <1>1, <1>2, <1>3, <1>4, <1>5, Zenon DEF UdpNext

\* Every step keeps the invariant.
LEMMA UdpStep == ASSUME UdpConstants, UdpInv, [UdpNext]_udpVars PROVE UdpInv'
  <1>1. UdpTypes' /\ PortsApart'
    BY UdpTypesStep, PortsStep, Zenon DEF UdpInv
  <1>2. ASSUME NEW e \in Pcb, (\E p \in Asked : Bind(e, p)) \/ Close(e) \/ Closed(e) \/ Delete(e)
        PROVE  Lists' /\ Reached' /\ Ahead' /\ Walking'
    <2>1. UNCHANGED <<table, grace, readers>>
      BY <1>2, Zenon DEF Bind, Close, Closed, Delete
    <2>2. \A x \in Pcb : Linked(x)' <=> Linked(x)
      BY <1>2, Zenon DEF Bind, Close, Closed, Delete, Linked, UdpInv, UdpTypes
    <2>3. \A x \in Pcb : Linked(x) => port'[x] = port[x]
      BY <1>2, Zenon DEF Bind, Close, Closed, Delete, Linked, UdpInv, UdpTypes
    <2>4. \A x \in Pcb : grace[x] # {} => (phase'[x] = "grace" <=> phase[x] = "grace")
      BY <1>2, Zenon DEF Bind, Close, Closed, Delete, UdpInv, UdpTypes
    <2> QED BY <1>1, <2>1, <2>2, <2>3, <2>4, TableRests, Zenon
  <1>3. ASSUME NEW e \in Pcb, Insert(e) \/ Erase(e)
        PROVE  Lists' /\ Reached' /\ Ahead' /\ Walking'
    BY <1>1, <1>3, InsertKeeps, EraseKeeps, Zenon
  <1>4. ASSUME NEW v \in Reader, (\E p \in Sought : ReceiveUdp(v, p)) \/ Compare(v) \/ Increment(v) \/ End(v)
        PROVE  Lists' /\ Reached' /\ Ahead' /\ Walking'
    BY <1>1, <1>4, ReadersKeep, Zenon
  <1>5. CASE UNCHANGED udpVars
    <2>1. UNCHANGED <<table, grace, readers>>
      BY <1>5, Zenon DEF udpVars
    <2>2. \A x \in Pcb : Linked(x)' <=> Linked(x)
      BY <1>5, Zenon DEF udpVars, Linked
    <2>3. \A x \in Pcb : Linked(x) => port'[x] = port[x]
      BY <1>5, Zenon DEF udpVars
    <2>4. \A x \in Pcb : grace[x] # {} => (phase'[x] = "grace" <=> phase[x] = "grace")
      BY <1>5, Zenon DEF udpVars
    <2>5. Lists' /\ Reached' /\ Ahead' /\ Walking'
      BY <1>1, <2>1, <2>2, <2>3, <2>4, TableRests, Zenon
    <2> QED BY <1>1, <2>5, Zenon DEF UdpInv
  <1> QED BY <1>1, <1>2, <1>3, <1>4, <1>5, Zenon DEF UdpNext, UdpInv

\* Endpoints that come and go on many cores, and readers that walk their buckets
\* meanwhile: no event reaches an entry whose Close has been fulfilled, no datagram
\* is dropped whose entry was there all the while, and no reserved port has two
\* owners (Bind, Close and ReceiveUdp over RcuHashTable and SharedPoolAllocator).
THEOREM UdpAlwaysSafe == ASSUME UdpConstants PROVE UdpSpec => []UdpSafe
  <1>1. UdpInit => UdpInv
    BY UdpInitInv, Zenon
  <1>2. UdpInv /\ [UdpNext]_udpVars => UdpInv'
    BY UdpStep, Zenon
  <1>3. UdpInv => UdpSafe
    <2> SUFFICES ASSUME UdpInv PROVE DatagramsFindPcb
      BY Zenon DEF UdpInv, UdpSafe
    <2>1. ASSUME NEW v \in Reader, pos[v] # Nil PROVE phase[pos[v]] \notin {"closed", "deleted"}
      BY <2>1, Zenon DEF UdpInv, Walking, Kept, Linked
    <2>2. ASSUME NEW v \in Reader, pos[v] = Nil PROVE owed[v] = {}
      <3>1. Leads({})
        BY Zenon DEF Leads
      <3> QED BY <2>2, <3>1, Zenon DEF UdpInv, Ahead
    <2> QED BY <2>1, <2>2, Zenon DEF DatagramsFindPcb
  <1> QED BY <1>1, <1>2, <1>3, PTL DEF UdpSpec
=============================================================================
