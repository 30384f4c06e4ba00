------------------------------- MODULE Framing -------------------------------
(***************************************************************************)
(* How a native node cuts the byte stream of a connection into messages    *)
(* (src/src/native/Messenger.cc, Connection::Receive and what it calls).   *)
(* The stream is a sequence of messages whose lengths, header included,    *)
(* are Lengths; TCP hands it over in segments of any size.  Only lengths   *)
(* matter: the bytes waiting are always those after the last message.      *)
(***************************************************************************)
EXTENDS Integers, Sequences, SequencesExt, FiniteSetsExt

CONSTANTS Lengths,     \* the messages sent
          Header,      \* sizeof(Header)
          ChainLen,    \* kPreallocateChainLen
          MaxSegment

VARIABLES chain,        \* buf_: the lengths of the buffers of the chain
          preallocate,  \* preallocate_
          arrived,      \* bytes received
          handed,       \* messages given to ReceiveMessageInternal
          overrun       \* bytes were copied past the preallocated buffer

framingVars == <<chain, preallocate, arrived, handed, overrun>>

Sum(s) == FoldLeft(LAMBDA a, b : a + b, 0, s)
Stream == Sum(Lengths)

FramingInit == chain = <<>> /\ preallocate = 0 /\ arrived = 0 /\ handed = 0 /\ overrun = FALSE

\* The length in the header at the front of buf_: that of the next message.
message_len(done) == Lengths[done + 1]

\* process_message_chain: split the chain at the message boundary, inside the
\* buffer in which the message ends.
Rest(c, len) ==
  LET k == Min({j \in DOMAIN c : Sum(SubSeq(c, 1, j)) >= len})
      left == c[k] - (Sum(SubSeq(c, 1, k)) - len)
  IN  <<c[k] - left>> \o SubSeq(c, k + 1, Len(c))

\* The loop of Receive: what is left of chain c and how many messages are done.
Loop[c \in Seq(Nat), done \in Nat] ==
  LET n == Sum(c)
  IN  IF n < Header \/ n < message_len(done) THEN [chain |-> c, handed |-> done]
      ELSE IF n = message_len(done) THEN [chain |-> <<>>, handed |-> done + 1]
      ELSE Loop[Rest(c, message_len(done)), done + 1]

\* check_preallocate: the incomplete message is copied to one buffer of its
\* length.
check_preallocate(c, done) ==
  chain' = <<message_len(done)>> /\ preallocate' = Sum(c)

\* Receive, n bytes, with no buffer preallocated.  check_preallocate is called
\* when the message is not complete and the chain has a certain length; whether
\* the occupancy is below kOccupancyRatio depends on the capacity of the buffers.
Receive(n) ==
  /\ preallocate = 0 /\ arrived + n <= Stream /\ arrived' = arrived + n
  /\ LET r == Loop[Append(chain, n), handed]
     IN  /\ handed' = r.handed
         /\ \/ chain' = r.chain /\ UNCHANGED preallocate
            \/ /\ Len(r.chain) > 0 /\ Len(r.chain) % ChainLen = 0 /\ Sum(r.chain) >= Header
               /\ check_preallocate(r.chain, r.handed)
  /\ UNCHANGED overrun

\* Receive into the preallocated buffer: all n bytes are copied, whatever room
\* the message leaves; it is complete only when its end is hit exactly.
Preallocated(n) ==
  /\ preallocate > 0 /\ arrived + n <= Stream /\ arrived' = arrived + n
  /\ LET p == preallocate + n
         len == message_len(handed)
     IN  /\ overrun' = (overrun \/ p > len)
         /\ IF p = len THEN preallocate' = 0 /\ chain' = <<>> /\ handed' = handed + 1
            ELSE preallocate' = p /\ UNCHANGED <<chain, handed>>

FramingNext == \E n \in 1 .. MaxSegment : Receive(n) \/ Preallocated(n)

FramingSpec == FramingInit /\ [][FramingNext]_framingVars

-----------------------------------------------------------------------------
\* Properties.

Complete == Cardinality({k \in DOMAIN Lengths : Sum(SubSeq(Lengths, 1, k)) <= arrived})

\* Every message is handed to its receiver as soon as its last byte is there,
\* and what waits is what follows it, however the stream is cut into segments;
\* unless a segment that ends a preallocated message holds more than its end.
Framed ==
  ~overrun =>
    /\ handed = Complete
    /\ Sum(SubSeq(Lengths, 1, handed)) + (IF preallocate > 0 THEN preallocate ELSE Sum(chain)) = arrived
=============================================================================
