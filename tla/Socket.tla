-------------------------------- MODULE Socket --------------------------------
(***************************************************************************)
(* Sockets on EbbRT's TCP (src/libs/socket: SocketManager.cc,              *)
(* SocketApi.cc, Vfs.cc): the file descriptors, a listening socket whose   *)
(* connections and accepts are paired, and one connected socket whose      *)
(* segments are cut to the lengths that reads ask for.  All of it runs in  *)
(* events of the core of the connection ("TODO support sockets across      *)
(* cores"), so a handler is one step and blocking ends it.                 *)
(***************************************************************************)
EXTENDS Integers, Sequences, SequencesExt, FiniteSets

CONSTANTS Event,      \* events that use the sockets
          None,
          MaxBytes, MaxRead, MaxReads, MaxFds

VARIABLES fds,       \* descriptor_map_: descriptor -> the connection it has
          accepts,   \* waiting_accept_
          pcbs,      \* waiting_pcb_
          incoming,  \* connections that have arrived
          session,   \* the TcpSession of the connected socket
          inbuf,     \* inbuf_: the chain of buffers, each a sequence of bytes
          arrived,   \* bytes TCP has handed over, numbered from 1
          read,      \* read_ (whose promise, and the length) and read_blocked_
          got,       \* the values of the promises so far
          event,     \* what each event waits for
          stopped    \* kabort

socketVars == <<fds, accepts, pcbs, incoming, session, inbuf, arrived, read, got, event, stopped>>
data == <<session, inbuf, arrived, read, got>>
listening == <<fds, accepts, pcbs, incoming>>

SocketInit ==
  /\ fds = <<>> /\ accepts = <<>> /\ pcbs = <<>> /\ incoming = 0
  /\ session = [state |-> "none", nonblock |-> FALSE, shut |-> FALSE]
  /\ inbuf = <<>> /\ arrived = 0 /\ got = <<>>
  /\ read = [by |-> None, len |-> 0, blocked |-> FALSE]
  /\ event = [e \in Event |-> "idle"] /\ stopped = None

Free(e) == stopped = None /\ event[e] = "idle"
Waits(e, for) == event' = [event EXCEPT ![e] = for]

-----------------------------------------------------------------------------
\* Descriptors, and a listening socket.

\* Vfs::RegisterFd of a new SocketFd: the next descriptor, for good.
RegisterFd(map, connection) == Append(map, connection)

\* lwip_socket.
NewIpv4Socket(e) ==
  /\ Free(e) /\ Len(fds) < MaxFds
  /\ fds' = RegisterFd(fds, None)
  /\ UNCHANGED <<accepts, pcbs, incoming, data, event, stopped>>

\* check_waiting, under waiting_lock_: as many pairs as there are, in order.
Pairs(as, ps) == IF Len(as) < Len(ps) THEN Len(as) ELSE Len(ps)
check_waiting(as, ps) ==
  LET n == Pairs(as, ps)
  IN  /\ fds' = fds \o [i \in 1 .. n |-> ps[i]]
      /\ event' = [e \in Event |-> IF \E i \in 1 .. n : as[i] = e THEN "idle"
                                   ELSE IF \E i \in n + 1 .. Len(as) : as[i] = e THEN "accept" ELSE event[e]]
      /\ accepts' = SubSeq(as, n + 1, Len(as)) /\ pcbs' = SubSeq(ps, n + 1, Len(ps))

\* lwip_accept, which blocks on the future.
Accept(e) ==
  /\ Free(e)
  /\ check_waiting(Append(accepts, e), pcbs)
  /\ UNCHANGED <<incoming, data, stopped>>

\* The callback Listen gives to the listening pcb.
Listened ==
  /\ stopped = None /\ incoming < MaxFds
  /\ incoming' = incoming + 1
  /\ check_waiting(accepts, Append(pcbs, incoming'))
  /\ UNCHANGED <<data, stopped>>

-----------------------------------------------------------------------------
\* A connected socket.

\* lwip_connect: install_pcb, then block on connected_.
Connect(e) ==
  /\ Free(e) /\ session.state = "none"
  /\ session' = [session EXCEPT !.state = "connecting"] /\ Waits(e, "connect")
  /\ UNCHANGED <<listening, inbuf, arrived, read, got, stopped>>

\* TcpSession::Connected.
Connected ==
  /\ stopped = None /\ session.state = "connecting"
  /\ session' = [session EXCEPT !.state = "connected"]
  /\ event' = [e \in Event |-> IF event[e] = "connect" THEN "idle" ELSE event[e]]
  /\ UNCHANGED <<listening, inbuf, arrived, read, got, stopped>>

\* lwip_fcntl, F_SETFL with O_NONBLOCK.
SetFlags(e) ==
  /\ Free(e) /\ ~session.nonblock
  /\ session' = [session EXCEPT !.nonblock = TRUE]
  /\ UNCHANGED <<listening, inbuf, arrived, read, got, event, stopped>>

Total(chain) == Len(FlattenSeq(chain))

\* Where the message ends: the first buffer with which the chain is long enough.
EndsIn(chain, len) ==
  CHOOSE k \in DOMAIN chain : /\ Total(SubSeq(chain, 1, k)) >= len
                              /\ Total(SubSeq(chain, 1, k - 1)) < len

\* Seeded fault: the second view is not advanced past the message.
SplitWhole(chain, len) ==
  LET k == EndsIn(chain, len)
      buf == chain[k]
      left == Len(buf) - (Total(SubSeq(chain, 1, k)) - len)
  IN  [message |-> SubSeq(chain, 1, k - 1) \o <<SubSeq(buf, 1, left)>>, rest |-> SubSeq(chain, k, Len(chain))]

\* Splitting that buffer in two views.
Split(chain, len) ==
  LET k == EndsIn(chain, len)
      buf == chain[k]
      left == Len(buf) - (Total(SubSeq(chain, 1, k)) - len)
  IN  [message |-> SubSeq(chain, 1, k - 1) \o <<SubSeq(buf, 1, left)>>,
       rest |-> <<SubSeq(buf, left + 1, Len(buf))>> \o SubSeq(chain, k + 1, Len(chain))]

\* The promise of read_ is given a value, and the event that blocks on it runs
\* again; a promise whose read has returned takes a second value unseen.
SetValue(r) ==
  IF r.by = None THEN event ELSE [event EXCEPT ![r.by] = IF @ = "read" THEN "idle" ELSE @]

\* TcpSession::check_read, with ev the events as the caller leaves them.
check_read(chain, r, ev) ==
  LET give(m, rest) ==
        /\ inbuf' = rest /\ got' = got \o <<FlattenSeq(m)>> /\ read' = [r EXCEPT !.blocked = FALSE]
        /\ event' = [ev EXCEPT ![r.by] = "idle"]
      wait == inbuf' = chain /\ read' = r /\ event' = ev /\ UNCHANGED got
      n == Total(chain)
  IN  CASE chain = <<>> \/ ~r.blocked -> wait
        [] chain # <<>> /\ r.blocked /\ n = r.len -> give(chain, <<>>)
        [] chain # <<>> /\ r.blocked /\ n # r.len /\ r.len = 0 -> give(<<>>, chain)
        [] chain # <<>> /\ r.blocked /\ n < r.len -> wait
        [] OTHER -> give(Split(chain, r.len).message, Split(chain, r.len).rest)

\* TcpSession::Receive: n more bytes.
Receive(n) ==
  /\ stopped = None /\ session.state = "connected" /\ arrived + n <= MaxBytes
  /\ arrived' = arrived + n
  /\ check_read(Append(inbuf, [i \in 1 .. n |-> arrived + i]), read, event)
  /\ UNCHANGED <<listening, session, stopped>>

\* lwip_read and lwip_recv: EAGAIN, or SocketFd::Read and block on its future.
\* A second read at the same time takes the place of the first.
Read(e, len) ==
  /\ Free(e) /\ session.state \in {"connected", "closed"} /\ Len(got) < MaxReads
  /\ IF len > 0 /\ session.nonblock /\ (read.blocked \/ inbuf = <<>>)
     THEN /\ stopped' = IF read.blocked THEN "socket read already blocked" ELSE stopped
          /\ UNCHANGED <<inbuf, read, got, event>>
     ELSE /\ check_read(inbuf, [by |-> e, len |-> len, blocked |-> TRUE], [event EXCEPT ![e] = "read"])
          /\ UNCHANGED stopped
  /\ UNCHANGED <<listening, session, arrived>>

\* poll: readable when there is data; with a read outstanding the node stops.
Poll(e) ==
  /\ Free(e) /\ session.state \in {"connected", "closed"} /\ read.blocked
  /\ stopped' = "socket read already blocked"
  /\ UNCHANGED <<listening, data, event>>

\* SocketFd::Write: Send and Output.
Write(e) ==
  /\ Free(e) /\ session.state = "connected"
  /\ UNCHANGED socketVars

\* TcpSession::Close, when the other side has closed: the read that may be
\* outstanding gets nothing, whatever has arrived, and stays marked blocked.
Close ==
  /\ stopped = None /\ session.state = "connected"
  /\ session' = [session EXCEPT !.state = "closed", !.shut = TRUE]
  /\ event' = [e \in Event |-> IF event[e] = "close" THEN "idle" ELSE SetValue(read)[e]]
  /\ UNCHANGED <<listening, inbuf, arrived, read, got, stopped>>

\* lwip_close: Shutdown, and block on disconnected_.
CloseFd(e) ==
  /\ Free(e) /\ session.state \in {"connected", "closed"}
  /\ session' = [session EXCEPT !.shut = TRUE]
  /\ IF session.state = "closed" THEN UNCHANGED event ELSE Waits(e, "close")
  /\ UNCHANGED <<listening, inbuf, arrived, read, got, stopped>>

\* TcpSession::Abort.
Abort ==
  /\ stopped = None /\ session.state = "connected"
  /\ stopped' = "TCP Session Abort."
  /\ UNCHANGED <<listening, data, event>>

SocketNext ==
  \/ \E e \in Event : \/ NewIpv4Socket(e) \/ Accept(e) \/ Connect(e) \/ SetFlags(e)
                      \/ Poll(e) \/ Write(e) \/ CloseFd(e)
                      \/ \E len \in 0 .. MaxRead : Read(e, len)
  \/ Listened \/ Connected \/ Close \/ Abort
  \/ \E n \in 1 .. MaxBytes : Receive(n)

-----------------------------------------------------------------------------
\* Properties.

\* Reads return the stream: every byte TCP handed over is returned once and in
\* order, or still waits, however segments and read lengths divide it, and a
\* read with enough data waiting is not left blocked (check_read).
StreamInOrder ==
  /\ FlattenSeq(got) \o FlattenSeq(inbuf) = [i \in 1 .. arrived |-> i]
  /\ (read.blocked /\ inbuf # <<>>) => Total(inbuf) < read.len

\* Every connection gets a descriptor of its own, in the order of arrival, and
\* no accept waits while a connection does (check_waiting, RegisterFd).
AcceptsPaired ==
  LET taken == SelectSeq(fds, LAMBDA c : c # None)
  IN  /\ taken \o pcbs = [i \in 1 .. incoming |-> i]
      /\ accepts = <<>> \/ pcbs = <<>>
      /\ \A e \in Event : event[e] = "accept" <=> \E i \in DOMAIN accepts : accepts[i] = e
=============================================================================
