--------------------------------- MODULE Arp ---------------------------------
(***************************************************************************)
(* Address resolution (src/src/native/NetEth.cc, NetEth.h) for one local   *)
(* destination: events that send packets to it and events that receive     *)
(* ARP packets from it, on different cores.                                *)
(*                                                                         *)
(* Each event is a sequence of accesses to the shared cache entry.  The    *)
(* callback that SetAddr gives to DoRcu runs after the events that were    *)
(* under way then have ended, which is what EventManager is shown to do.   *)
(* The memory of a replaced hardware address is not modelled.              *)
(***************************************************************************)
EXTENDS Integers, Sequences, FiniteSets

CONSTANTS Sender,      \* events in EthArpSend, each with a packet of its own
          Receiver,    \* events in ReceiveArp, each with the address it carries
          ToUs,        \* SUBSET Receiver: packets whose target address is ours
          None

Event == Sender \cup Receiver

\* No event both sends and receives, and the mark for nobody is neither an event nor
\* a set of events.
ArpConstants ==
  /\ Sender \cap Receiver = {}
  /\ None \notin Receiver /\ \A S \in SUBSET Event : S # None

VARIABLES entries,   \* how many entries for the destination are in arp_cache_
          hwaddr,    \* ArpEntry::hwaddr
          queue,     \* ArpEntry::queue, newest operation first
          lock,      \* arp_write_lock_: an event or None
          pc,        \* what an event does next
          moved,     \* the local q of SetAddr
          waiting,   \* the DoRcu callback of an event: the events it waits for, or None
          sent       \* history: how often a packet was sent

vars == <<entries, hwaddr, queue, lock, pc, moved, waiting, sent>>
cache == <<entries, hwaddr, queue>>
rest == <<moved, waiting, sent>>

Active == {e \in Event : pc[e] \notin {"start", "done"}}
Goto(e, where) == pc' = [pc EXCEPT ![e] = where]

Init ==
  /\ entries = 0 /\ hwaddr = None /\ queue = <<>> /\ lock = None
  /\ pc = [e \in Event |-> "start"]
  /\ moved = [e \in Event |-> <<>>]
  /\ waiting = [e \in Event |-> None]
  /\ sent = [s \in Sender |-> 0]

-----------------------------------------------------------------------------
(* EthArpSend.                                                              *)

\* find(local_dest)
Find(s) ==
  /\ pc[s] = "start"
  /\ Goto(s, IF entries > 0 THEN "load" ELSE "lock")
  /\ UNCHANGED <<cache, lock, rest>>

\* "no entry, lock and check again": create the entry unless somebody else did.
Create(s) ==
  /\ pc[s] = "lock" /\ lock = None
  /\ \/ entries > 0 /\ Goto(s, "load") /\ UNCHANGED entries
     \/ entries = 0 /\ Goto(s, "request") /\ entries' = 1
  /\ UNCHANGED <<hwaddr, queue, lock, rest>>

\* EthArpRequest; the packet is queued without looking at hwaddr.
Request(s) ==
  /\ pc[s] = "request"
  /\ Goto(s, "push")
  /\ UNCHANGED <<cache, lock, rest>>

\* entry->hwaddr.get()
Load(s) ==
  /\ pc[s] = "load"
  /\ Goto(s, IF hwaddr = None THEN "push" ELSE "send")
  /\ UNCHANGED <<cache, lock, rest>>

\* OperationQueue::Push, effective with its successful compare-and-swap.
Push(s) ==
  /\ pc[s] = "push"
  /\ queue' = <<s>> \o queue
  /\ Goto(s, "done")
  /\ UNCHANGED <<entries, hwaddr, lock, rest>>

Send(s) ==
  /\ pc[s] = "send"
  /\ sent' = [sent EXCEPT ![s] = @ + 1]
  /\ Goto(s, "done")
  /\ UNCHANGED <<cache, lock, moved, waiting>>

-----------------------------------------------------------------------------
(* ReceiveArp.                                                              *)

\* find(spa): update the entry, or go on to create it when we are the target.
Receive(r) ==
  /\ pc[r] = "start"
  /\ Goto(r, IF entries > 0 THEN "exchange" ELSE IF r \in ToUs THEN "lock" ELSE "done")
  /\ UNCHANGED <<cache, lock, rest>>

\* "double check for entry": SetAddr runs with the lock held.
Learn(r) ==
  /\ pc[r] = "lock" /\ lock = None
  /\ \/ /\ entries > 0
        /\ lock' = r
        /\ Goto(r, "exchange")
        /\ UNCHANGED <<entries, hwaddr>>
     \/ /\ entries = 0
        /\ entries' = 1
        /\ hwaddr' = r
        /\ Goto(r, "done")
        /\ UNCHANGED lock
  /\ UNCHANGED <<queue, rest>>

\* SetAddr returns, and with it the lock_guard of ReceiveArp.
Leave(r) ==
  /\ Goto(r, "done")
  /\ lock' = IF lock = r THEN None ELSE lock

\* hwaddr.exchange(ptr)
Exchange(r) ==
  /\ pc[r] = "exchange"
  /\ hwaddr' = r
  /\ \/ hwaddr = None /\ Goto(r, "move") /\ UNCHANGED lock
     \/ hwaddr # None /\ Leave(r)
  /\ UNCHANGED <<entries, queue, rest>>

\* auto q = std::move(queue)
Move(r) ==
  /\ pc[r] = "move"
  /\ moved' = [moved EXCEPT ![r] = queue]
  /\ queue' = <<>>
  /\ Goto(r, "invoke")
  /\ UNCHANGED <<entries, hwaddr, lock, waiting, sent>>

\* One operation of q.InvokeAndClear(*ptr).
Invoke(r) ==
  /\ pc[r] = "invoke" /\ moved[r] # <<>>
  /\ sent' = [sent EXCEPT ![Head(moved[r])] = @ + 1]
  /\ moved' = [moved EXCEPT ![r] = Tail(@)]
  /\ UNCHANGED <<cache, lock, pc, waiting>>

\* The events that DoRcu's callback must wait for.
Grace == Active

\* Seeded fault: the queue is not looked at again.
DoRcuMissing(r) ==
  /\ pc[r] = "invoke" /\ moved[r] = <<>>
  /\ Leave(r)
  /\ UNCHANGED <<cache, rest>>

DoRcu(r) ==
  /\ pc[r] = "invoke" /\ moved[r] = <<>>
  /\ waiting' = [waiting EXCEPT ![r] = Grace]
  /\ Leave(r)
  /\ UNCHANGED <<cache, moved, sent>>

\* The grace period of a callback has passed.
GraceOver(r) == waiting[r] # None /\ \A e \in waiting[r] : pc[e] = "done"

\* The callback: queue.InvokeAndClear(*ptr).  InvokeAndClear deletes
\* the operations but leaves the head of the queue pointing to them.
Callback(r) ==
  /\ GraceOver(r)
  /\ sent' = [s \in Sender |-> sent[s] + Cardinality({i \in DOMAIN queue : queue[i] = s})]
  /\ waiting' = [waiting EXCEPT ![r] = None]
  /\ UNCHANGED <<cache, lock, pc, moved>>

SendStep(s) == Find(s) \/ Create(s) \/ Request(s) \/ Load(s) \/ Push(s) \/ Send(s)
ReceiveStep(r) == Learn(r) \/ Exchange(r) \/ Move(r) \/ Invoke(r) \/ DoRcu(r) \/ Callback(r)

Next ==
  \/ \E s \in Sender : SendStep(s)
  \/ \E r \in Receiver : Receive(r) \/ ReceiveStep(r)

Spec == Init /\ [][Next]_vars

-----------------------------------------------------------------------------
(* Properties.                                                              *)

\* The destination never gets a second entry, though senders and receivers look
\* it up without the lock before they decide to create it.
OneEntry == entries <= 1

\* A packet is sent at most once, whether it was queued or not: an operation
\* that was invoked and deleted is never reached again through the queue.
SentOnce == \A s \in Sender : sent[s] <= 1

\* InvokeAndClear "must not be called concurrently with Push": when SetAddr's
\* callback may clear the queue, no event can still push to it.
NoPushWhileClearing ==
  (\E r \in Receiver : GraceOver(r)) => \A s \in Sender : pc[s] \notin {"request", "push"}

\* Once the address is known, every packet handed to EthArpSend is sent: when no
\* event is under way and no callback waits, none is left in the queue of an entry
\* that is resolved, and the lock is free.  (Events of the model are finite, so
\* they do come to rest.)
ResolvedIsSent ==
  Active = {} /\ (\A r \in Receiver : waiting[r] = None) =>
    /\ lock = None
    /\ hwaddr # None => \A s \in Sender : pc[s] = "done" => sent[s] = 1

\* The above together.
PacketsResolved == OneEntry /\ SentOnce /\ NoPushWhileClearing /\ ResolvedIsSent
=============================================================================
