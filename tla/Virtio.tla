------------------------------- MODULE Virtio -------------------------------
(***************************************************************************)
(* The virtio rings (src/src/native/Virtio.h) and the network driver above *)
(* them (VirtioNet.cc): one core with its receive and its send queue, and  *)
(* the device, which runs beside it.                                       *)
(*                                                                         *)
(* A step of the driver ends at each load or store that the device can     *)
(* observe; the handlers of one core never interrupt each other.  Indices  *)
(* are counted modulo IndexLimit (2^16), the positions of the circular     *)
(* buffer modulo CircLimit (2^64).                                         *)
(***************************************************************************)
EXTENDS Integers, Sequences, FiniteSets, SequencesExt, FiniteSetsExt

CONSTANTS QSize,        \* descriptors of a queue, a power of two
          IndexLimit,   \* a multiple of QSize
          CircSize,     \* slots of circ_buffer_ (256)
          CircLimit,    \* a multiple of CircSize
          ZeroCopy,     \* VIRTIO_ZERO_COPY
          ChainLengths,     \* lengths of the chains that are sent
          MaxWork,      \* bound: packets that arrive and calls of Send, together
          None

\* The sizes the rings are given.
VirtioSizes ==
  /\ QSize \in Nat \ {0} /\ IndexLimit % QSize = 0 /\ IndexLimit > QSize
  /\ CircSize \in Nat \ {0} /\ CircLimit % CircSize = 0 /\ CircLimit > CircSize

VARIABLES ring,         \* [queue -> VRing]
          pc,           \* where the core is; "loop" is the event loop
          started,      \* started_ of receive_callback_
          head, tail, circ,   \* circ_buffer_ with its positions
          delivered,    \* packets handed to Interface::Receive
          lost,         \* history: packets overwritten in circ_buffer_
          sends,        \* calls of Send so far
          device,       \* of each queue: "active", "resting" or "asleep"
          seen, taken,  \* of each queue: available entries read, heads in use
          kicked,       \* of each queue: a notification has not been taken yet
          interrupt,    \* an interrupt of the receive queue is pending
          arrived       \* packets the device has received

core == <<pc, started, head, tail, circ, delivered, lost, sends>>
devs == <<device, seen, taken, kicked, interrupt, arrived>>
virtioVars == <<ring, core, devs>>

Queue == {"rcv", "snd"}
Slot == 0 .. QSize - 1
Plus(i, n) == (i + n) % IndexLimit
Minus(i, j) == (i - j) % IndexLimit

-----------------------------------------------------------------------------
(* VRing.                                                                   *)

NewVRing ==
  [desc |-> [d \in Slot |-> [next |-> (d + 1) % QSize, more |-> FALSE]],
   avail |-> [s \in Slot |-> 0], avail_idx |-> 0, avail_shown |-> 0, no_interrupt |-> FALSE,
   used |-> [s \in Slot |-> 0], used_shown |-> 0, no_notify |-> FALSE,
   last_used |-> 0, used_head |-> 0, free_head |-> 0, free_count |-> QSize,
   refs |-> [d \in Slot |-> None]]

\* The n-th descriptor along next.
Along(q, from, n) == LET at[i \in Nat] == IF i = 0 THEN from ELSE q.desc[at[i - 1]].next IN at[n]

\* Descriptors of a chain, as the flag Next delimits it.
ChainOf(q, first) ==
  LET len[i \in Nat] == IF q.desc[Along(q, first, i)].more THEN len[i + 1] ELSE i + 1
  IN [i \in 1 .. len[0] |-> Along(q, first, i - 1)]

\* AddBuffer up to the store of the index, and the body of the loop of
\* AddWritableBuffers: a chain of len descriptors from the free list.
AddChain(q, buf, len) ==
  LET first == q.free_head
      last == Along(q, first, len - 1)
      mine == {Along(q, first, i) : i \in 0 .. len - 1}
  IN [q EXCEPT !.free_count = @ - len,
               !.free_head = Along(q, first, len),
               !.desc = [d \in Slot |-> IF d \in mine THEN [q.desc[d] EXCEPT !.more = d # last] ELSE q.desc[d]],
               !.avail[q.avail_idx % QSize] = first,
               !.avail_idx = Plus(@, 1),
               !.refs[first] = buf]

\* n writable buffers of one element each.
AddWritableBuffers(q, n) ==
  LET after[i \in Nat] == IF i = 0 THEN q ELSE AddChain(after[i - 1], "buffer", 1) IN after[n]

\* The part that GetBuffer, ClearUsedBuffers and ProcessUsedBuffers share: the
\* chain of the next used element goes back to the free list.
Release(q) ==
  LET id == q.used[q.last_used % QSize]
      chain == ChainOf(q, id)
  IN [q EXCEPT !.desc[Last(chain)].next = q.free_head, !.free_head = id,
               !.free_count = @ + Len(chain), !.last_used = Plus(@, 1), !.refs[id] = None]

\* ClearUsedBuffers; ProcessUsedBuffers also passes on the buffers of Used(q).
ReleaseUsed(q) ==
  LET now == [q EXCEPT !.used_head = q.used_shown]
      after[i \in Nat] == IF i = 0 THEN now ELSE Release(after[i - 1])
  IN after[Minus(now.used_head, now.last_used)]
Used(q) == [i \in 1 .. Minus(q.used_shown, q.last_used) |->
              q.refs[q.used[Plus(q.last_used, i - 1) % QSize]]]

\* HasUsedBuffer loads the index only when it has nothing left.
Refreshed(q) == IF q.last_used = q.used_head THEN [q EXCEPT !.used_head = q.used_shown] ELSE q
HasUsedBuffer(q) == Refreshed(q).last_used # Refreshed(q).used_head

\* The index is stored, then the flag is read.
Publish(k) == ring' = [ring EXCEPT ![k].avail_shown = ring[k].avail_idx]
Kick(k) == kicked' = [kicked EXCEPT ![k] = TRUE]
Notify(k) == IF ring[k].no_notify THEN UNCHANGED kicked ELSE Kick(k)

-----------------------------------------------------------------------------
(* The driver.                                                              *)

\* The constructor fills the receive queue before the device is started.
VirtioInit ==
  LET filled == AddWritableBuffers(NewVRing, QSize) IN
  /\ ring = [k \in Queue |-> IF k = "rcv" THEN [filled EXCEPT !.avail_shown = filled.avail_idx]
                                          ELSE [NewVRing EXCEPT !.no_interrupt = TRUE]]
  /\ pc = "loop" /\ started = FALSE /\ head = 0 /\ tail = 0 /\ circ = [s \in 0 .. CircSize - 1 |-> None]
  /\ delivered = <<>> /\ lost = {} /\ sends = 0
  /\ device = [k \in Queue |-> "asleep"] /\ seen = [k \in Queue |-> 0] /\ taken = [k \in Queue |-> {}]
  /\ kicked = [k \in Queue |-> k = "rcv"] /\ interrupt = FALSE /\ arrived = 0

\* VirtioNetRep::Send: with descriptors enough the chain is sent as it is behind
\* a header, else it is copied into one buffer, else it is dropped with a kick.
Send(n) ==
  LET q == ReleaseUsed(ring["snd"])
      Queued(len) == /\ ring' = [ring EXCEPT !["snd"] = AddChain(q, "buffer", len)]
                     /\ pc' = "sent"
                     /\ UNCHANGED kicked
  IN
  /\ pc = "loop" /\ sends + arrived < MaxWork
  /\ sends' = sends + 1
  /\ \/ ZeroCopy /\ q.free_count > n /\ Queued(n + 1)
     \/ ~(ZeroCopy /\ q.free_count > n) /\ q.free_count >= 1 /\ Queued(1)
     \/ /\ q.free_count = 0
        /\ ring' = [ring EXCEPT !["snd"] = q]
        /\ Kick("snd")
        /\ UNCHANGED pc
  /\ UNCHANGED <<started, head, tail, circ, delivered, lost, device, seen, taken, interrupt, arrived>>

\* The tail of AddBuffer and of AddWritableBuffers.
Show(at, k, then) ==
  /\ pc = at
  /\ Publish(k)
  /\ pc' = then
  /\ UNCHANGED <<started, head, tail, circ, delivered, lost, sends, devs>>
Tell(at, k) ==
  /\ pc = at
  /\ Notify(k)
  /\ pc' = "loop"
  /\ UNCHANGED <<ring, started, head, tail, circ, delivered, lost, sends, device, seen, taken, interrupt, arrived>>

\* Receive: the interrupt handler starts the idle callback.
Receive ==
  /\ pc = "loop" /\ interrupt
  /\ interrupt' = FALSE
  /\ ring' = [ring EXCEPT !["rcv"].no_interrupt = TRUE]
  /\ started' = TRUE
  /\ UNCHANGED <<pc, head, tail, circ, delivered, lost, sends, device, seen, taken, kicked, arrived>>

\* A packet enters circ_buffer_; the oldest gives way when it is full.
Push(c, p) ==
  LET h == (c.head + 1) % CircLimit
      full == h # c.tail /\ h % CircSize = c.tail % CircSize
      filled == [c.circ EXCEPT ![c.head % CircSize] = p]
  IN [head |-> h, circ |-> filled,
      tail |-> IF full THEN (c.tail + 1) % CircLimit ELSE c.tail,
      lost |-> IF full THEN c.lost \cup {filled[c.tail % CircSize]} ELSE c.lost]

\* FillRxRing asks for as many buffers as there are free descriptors.
FillRxRing(q) == AddWritableBuffers(q, q.free_count)

\* ReceivePoll, the idle callback: take in what was used, then deliver one packet
\* and refill when half of the queue is free; with nothing to deliver, go on to
\* switch interrupts on.
ReceivePoll ==
  LET old == [head |-> head, tail |-> tail, circ |-> circ, lost |-> lost]
      c == FoldLeft(Push, old, Used(ring["rcv"]))
      q == ReleaseUsed(ring["rcv"])
      fill == q.free_count * 2 >= QSize
  IN
  /\ (pc = "loop" /\ started) \/ pc = "process"
  /\ head' = c.head /\ lost' = c.lost
  /\ \/ /\ c.head = c.tail
        /\ ring' = [ring EXCEPT !["rcv"] = q]
        /\ pc' = "enable"
        /\ tail' = c.tail /\ circ' = c.circ
        /\ UNCHANGED delivered
     \/ /\ c.head # c.tail
        /\ ring' = [ring EXCEPT !["rcv"] = IF fill THEN FillRxRing(q) ELSE q]
        /\ pc' = IF fill THEN "filled" ELSE "loop"
        /\ tail' = (c.tail + 1) % CircLimit
        /\ circ' = [c.circ EXCEPT ![c.tail % CircSize] = None]
        /\ delivered' = Append(delivered, c.circ[c.tail % CircSize])
  /\ UNCHANGED <<started, sends, devs>>

EnableInterrupts ==
  /\ pc = "enable"
  /\ ring' = [ring EXCEPT !["rcv"].no_interrupt = FALSE]
  /\ pc' = "check"
  /\ UNCHANGED <<started, head, tail, circ, delivered, lost, sends, devs>>

\* Seeded fault: the queue is not looked at again.
CheckNothing ==
  /\ pc = "check"
  /\ started' = FALSE
  /\ pc' = "loop"
  /\ UNCHANGED <<ring, head, tail, circ, delivered, lost, sends, devs>>

\* "Double check to avoid race."
Check ==
  /\ pc = "check"
  /\ ring' = [ring EXCEPT !["rcv"] = Refreshed(@)]
  /\ IF HasUsedBuffer(ring["rcv"])
     THEN pc' = "raced" /\ UNCHANGED started
     ELSE pc' = "loop" /\ started' = FALSE
  /\ UNCHANGED <<head, tail, circ, delivered, lost, sends, devs>>

\* "raced, disable interrupts"
DisableInterrupts ==
  /\ pc = "raced"
  /\ ring' = [ring EXCEPT !["rcv"].no_interrupt = TRUE]
  /\ pc' = "process"
  /\ UNCHANGED <<started, head, tail, circ, delivered, lost, sends, devs>>

Driver ==
  \/ \E n \in ChainLengths : Send(n)
  \/ Show("sent", "snd", "tell") \/ Tell("tell", "snd")
  \/ Show("filled", "rcv", "told") \/ Tell("told", "rcv")
  \/ Receive \/ ReceivePoll \/ EnableInterrupts \/ Check \/ DisableInterrupts

-----------------------------------------------------------------------------
(* The device, as the driver relies on it: it asks not to be notified while *)
(* it works, looks at the queue once more before it sleeps, and completes   *)
(* transmissions in any order.                                              *)

Wake(k) ==
  /\ device[k] = "asleep" /\ kicked[k]
  /\ device' = [device EXCEPT ![k] = "active"]
  /\ kicked' = [kicked EXCEPT ![k] = FALSE]
  /\ ring' = [ring EXCEPT ![k].no_notify = TRUE]
  /\ UNCHANGED <<core, seen, taken, interrupt, arrived>>

Take(k) ==
  LET q == ring[k] IN
  /\ device[k] = "active" /\ seen[k] # q.avail_shown
  /\ seen' = [seen EXCEPT ![k] = Plus(@, 1)]
  /\ taken' = [taken EXCEPT ![k] = @ \cup {q.avail[seen[k] % QSize]}]
  /\ UNCHANGED <<ring, core, device, kicked, interrupt, arrived>>

\* A used element appears; for the receive queue its buffer holds a packet.
Complete(k, id) ==
  LET q == ring[k] IN
  /\ id \in taken[k]
  /\ taken' = [taken EXCEPT ![k] = @ \ {id}]
  /\ arrived' = IF k = "rcv" THEN arrived + 1 ELSE arrived
  /\ sends + arrived' <= MaxWork
  /\ ring' = [ring EXCEPT ![k] = [q EXCEPT !.used[q.used_shown % QSize] = id,
                                           !.used_shown = Plus(@, 1),
                                           !.refs[id] = IF k = "rcv" THEN arrived' ELSE @]]
  /\ interrupt' = (interrupt \/ (k = "rcv" /\ ~q.no_interrupt))
  /\ UNCHANGED <<core, device, seen, kicked>>

Rest(k) ==
  /\ device[k] = "active" /\ seen[k] = ring[k].avail_shown
  /\ device' = [device EXCEPT ![k] = "resting"]
  /\ ring' = [ring EXCEPT ![k].no_notify = FALSE]
  /\ UNCHANGED <<core, seen, taken, kicked, interrupt, arrived>>

Sleep(k) ==
  LET more == seen[k] # ring[k].avail_shown IN
  /\ device[k] = "resting"
  /\ device' = [device EXCEPT ![k] = IF more THEN "active" ELSE "asleep"]
  /\ ring' = [ring EXCEPT ![k].no_notify = more]
  /\ UNCHANGED <<core, seen, taken, kicked, interrupt, arrived>>

VirtioNext ==
  \/ Driver
  \/ \E k \in Queue : \/ Wake(k) \/ Take(k) \/ Rest(k) \/ Sleep(k)
                      \/ \E id \in taken[k] : Complete(k, id)

-----------------------------------------------------------------------------
(* Properties.                                                              *)

\* Buffers the driver has given to the device and not taken back.
Owned(k) == {d \in Slot : ring[k].refs[d] # None}

\* Every descriptor is on the free list or in the chain of one buffer, exactly
\* once, across wraps of the indices and completions in any order; and packets
\* reach the interface once, in order, less those that gave way in the full
\* circular buffer (ProcessUsedBuffers, ReceivePoll).
RingsConserved ==
  /\ \A k \in Queue :
       LET q == ring[k]
           free == [i \in 1 .. q.free_count |-> Along(q, q.free_head, i - 1)]
           parts == {free} \cup {ChainOf(q, d) : d \in Owned(k)}
       IN /\ MapThenSumSet(Len, parts) = QSize
          /\ UNION {ToSet(s) : s \in parts} = Slot
  /\ LET waiting == [i \in 1 .. (head - tail) % CircLimit |-> circ[((tail + i - 1) % CircLimit) % CircSize]]
         held == delivered \o waiting \o Used(ring["rcv"])
     IN held = SetToSortSeq((1 .. arrived) \ lost, <)

\* When nothing runs, neither side waits for the other: packets the driver has
\* not looked at have an interrupt pending or the idle callback started, and
\* entries the device has not looked at have it awake or kicked.
NobodySleepsOverWork ==
  pc = "loop" =>
    /\ ring["rcv"].used_shown # ring["rcv"].last_used => started \/ interrupt
    /\ head # tail => started
    /\ \A k \in Queue : ring[k].avail_shown # seen[k] => device[k] # "asleep" \/ kicked[k]
=============================================================================
