--------------------------------- MODULE Tcp ---------------------------------
(***************************************************************************)
(* TCP connections of the native runtime (src/src/native/NetTcp.cc) with   *)
(* the TcpHandler of NetTcpHandler.h: two hosts, a client that connects and *)
(* a server that accepts one connection and stops listening.               *)
(*                                                                         *)
(* Every entry point (a segment, the timer, a call of the application)     *)
(* runs on the connection's core without preemption, so each is one step.  *)
(* A host is one record: the fields of its TcpEntry, of its TcpHandler and *)
(* of its application, and the segments that the current step sends.       *)
(***************************************************************************)
EXTENDS Integers, Sequences, FiniteSets, SequencesExt, FiniteSetsExt

CONSTANTS SeqSpace,      \* sequence numbers are modulo SeqSpace (2^32 in the code)
          kTcpWnd, kWindowShift,
          Iss,         \* initial sequence number of each host
          MaxChunk,    \* bound: bytes of one Send
          Plans        \* bounds on a behaviour: the bytes that each host sends, the
                       \* hosts that end the connection, and how many segments are
                       \* lost, duplicated or overtaken

Host == {"client", "server"}
Peer(h) == IF h = "client" THEN "server" ELSE "client"

ASSUME TcpAssumption ==
  /\ SeqSpace \in Nat /\ kTcpWnd \in 1 .. SeqSpace \div 2 - 1 /\ kTcpWnd % 2^kWindowShift = 0
  /\ Iss \in [Host -> 0 .. SeqSpace - 1]
  /\ Plans \subseteq [bytes : [Host -> Nat], closes : SUBSET Host, faults : Nat]
  \* No sequence number is used twice in a connection: an old segment is never
  \* taken for a new one (the code relies on the 2^32 numbers for that).
  /\ \A p \in Plans, h \in Host : p.bytes[h] + 2 + kTcpWnd < SeqSpace

VARIABLES host,     \* the two hosts
          net,      \* segments on their way to each host, in the order they were sent
          faults,   \* faults of the network so far
          plan      \* the bounds chosen for this behaviour

vars == <<host, net, faults, plan>>

\* A host without a connection: "none" is kClosed, in which the entry leaves the
\* table in the same step.  retransmit tells whether the running timer is the one for
\* this time point ("armed") or an earlier one ("moved").
Fresh ==
  [state |-> "none", snd_una |-> 0, snd_nxt |-> 0, snd_wnd |-> 0, snd_wl1 |-> 0, snd_wl2 |-> 0,
   rcv_nxt |-> 0, rcv_wnd |-> 0, rcv_last_acked |-> 0, close_window |-> FALSE,
   unacked |-> <<>>, pending |-> <<>>, stashed |-> {},
   retransmit |-> "off", time_wait |-> FALSE, timer_set |-> FALSE, window_notify |-> FALSE,
   buf |-> <<>>, shutdown |-> FALSE, out |-> <<>>, halted |-> FALSE,
   pcb |-> "none", sent |-> 0, received |-> <<>>, told |-> {}]

Init ==
  /\ host = [h \in Host |-> Fresh]
  /\ net = [h \in Host |-> <<>>]
  /\ faults = 0
  /\ plan \in Plans

-----------------------------------------------------------------------------
(* Sequence numbers, windows and segments.                                  *)

Mod(n) == n % SeqSpace
TcpSeqBetween(in, left, right) == Mod(right - left) >= Mod(in - left)
TcpSeqLT(a, b) == Mod(a - b) >= SeqSpace \div 2
TcpSeqGT(a, b) == Mod(a - b) \in 1 .. SeqSpace \div 2 - 1
TcpSeqLEQ(a, b) == ~TcpSeqGT(a, b)
TcpSeqGEQ(a, b) == ~TcpSeqLT(a, b)

TcpWindow16(w) == w \div 2^kWindowShift
Scaled(w) == w * 2^kWindowShift

Has(s, f) == f \in s.flags
TcpLen(s) == Len(s.data) + (IF Has(s, "syn") \/ Has(s, "fin") THEN 1 ELSE 0)
End(s) == Mod(s.seq + TcpLen(s))

Segment(seq, ack, flags, wnd, data) == [seq |-> seq, ack |-> ack, flags |-> flags, wnd |-> wnd, data |-> data]
Emit(e, s) == [e EXCEPT !.out = Append(@, s)]

TcpReset(e, flags, seq, ack) ==
  Emit(e, Segment(seq, Mod(ack), flags \cup {"rst"}, TcpWindow16(kTcpWnd), <<>>))

-----------------------------------------------------------------------------
(* Sending.                                                                 *)

\* Fault: the last byte received is acknowledged instead of the next one expected.
SendEmptyAckLast(e) ==
  Emit([e EXCEPT !.rcv_last_acked = e.rcv_nxt],
       Segment(e.snd_nxt, Mod(e.rcv_nxt - 1), {"ack"}, TcpWindow16(e.rcv_wnd), <<>>))

SendEmptyAck(e) ==
  Emit([e EXCEPT !.rcv_last_acked = e.rcv_nxt],
       Segment(e.snd_nxt, e.rcv_nxt, {"ack"}, TcpWindow16(e.rcv_wnd), <<>>))

SendSegment(e, s) ==
  Emit([e EXCEPT !.rcv_last_acked = e.rcv_nxt],
       Segment(s.seq, e.rcv_nxt, s.flags, TcpWindow16(e.rcv_wnd), s.data))

\* snd_wnd - (snd_nxt - snd_una), unsigned
SendWindowRemaining(e) == Mod(e.snd_wnd - Mod(e.snd_nxt - e.snd_una))

EnqueueSegment(e, flags, data) ==
  LET s == [seq |-> e.snd_nxt, flags |-> flags, data |-> data] IN
  [e EXCEPT !.pending = Append(@, s), !.snd_nxt = End(s)]

\* The pending segments that fit in the window: a prefix of the queue.
Fitting(e) ==
  LET fits(i) == TcpSeqLEQ(End(e.pending[i]), Mod(e.snd_nxt + SendWindowRemaining(e)))
  IN  Max({k \in 0 .. Len(e.pending) : \A i \in 1 .. k : fits(i)})

\* Output without SetTimer; it sets the retransmit time even when the timer is
\* running for an earlier one.  A segment that cannot be sent while none is
\* outstanding is the UNIMPLEMENTED case that halts the host.
OutputOnly(e) ==
  LET k == Fitting(e)
      sent == FoldLeft(SendSegment, e, SubSeq(e.pending, 1, k))
      halted == e.pending # <<>> /\ e.unacked = <<>>
  IN  IF k > 0
      THEN [sent EXCEPT !.unacked = @ \o SubSeq(e.pending, 1, k),
                        !.pending = SubSeq(@, k + 1, Len(@)),
                        !.retransmit = IF e.timer_set THEN "moved" ELSE "armed"]
      ELSE IF halted THEN [e EXCEPT !.halted = TRUE]
      ELSE IF TcpSeqLT(e.rcv_last_acked, e.rcv_nxt) THEN SendEmptyAck(e)
      ELSE e

SetTimer(e) ==
  IF e.timer_set \/ (e.retransmit = "off" /\ ~e.time_wait) THEN e
  ELSE [e EXCEPT !.timer_set = TRUE, !.retransmit = IF @ = "off" THEN @ ELSE "armed"]

\* Every caller of Output goes on to SetTimer.
Output(e) == SetTimer(OutputOnly(e))

DisableTimers(e) == [e EXCEPT !.timer_set = FALSE, !.retransmit = "off", !.time_wait = FALSE]

\* Purge, DisableTimers and Destroy.
Destroy(e) ==
  [Fresh EXCEPT !.out = e.out, !.pcb = e.pcb, !.sent = e.sent, !.received = e.received, !.told = e.told]

SendFin(e) ==
  LET n == Len(e.pending) IN
  IF n > 0 /\ e.pending[n].flags \cap {"syn", "fin", "rst"} = {}
  THEN [e EXCEPT !.pending[n].flags = @ \cup {"fin"}, !.snd_nxt = Mod(@ + 1)]
  ELSE EnqueueSegment(e, {"fin", "ack"}, <<>>)

Close(e) ==
  CASE e.state = "none" -> e
    [] e.state = "CloseWait" -> [SendFin(e) EXCEPT !.state = "LastAck"]
    [] e.state \in {"SynReceived", "Established"} -> [SendFin(e) EXCEPT !.state = "FinWait1"]
    [] OTHER -> [e EXCEPT !.halted = TRUE]

\* The destructor of TcpPcb.
Release(e) == Output(Close([e EXCEPT !.pcb = "released"]))

-----------------------------------------------------------------------------
(* The TcpHandler and the application behind it.                            *)

\* TcpHandler::Send: what does not fit in the window waits in buf_.
HandlerSend(e, data) ==
  LET n == Min({SendWindowRemaining(e), Len(data)})
      sent == IF n > 0 THEN EnqueueSegment(e, {"ack"}, SubSeq(data, 1, n)) ELSE e
  IN  IF e.buf # <<>> THEN [e EXCEPT !.buf = @ \o data]
      ELSE IF n = Len(data) THEN sent
      ELSE [sent EXCEPT !.buf = SubSeq(data, n + 1, Len(data)), !.window_notify = TRUE, !.close_window = TRUE]

SendWindowIncrease(e) ==
  LET sent == HandlerSend([e EXCEPT !.buf = <<>>], e.buf)
      opened == [sent EXCEPT !.window_notify = FALSE, !.close_window = FALSE, !.rcv_wnd = kTcpWnd]
  IN  IF sent.buf # <<>> THEN sent
      ELSE IF e.shutdown THEN Release(opened)
      ELSE opened

Shutdown(e) == IF e.buf # <<>> THEN [e EXCEPT !.shutdown = TRUE] ELSE Release(e)

\* The bytes of a stream are numbered, so that each says where it belongs.
NextBytes(e, n) == [i \in 1 .. n |-> e.sent + i]
AppSend(e, n) == HandlerSend([e EXCEPT !.sent = @ + n], NextBytes(e, n))

MaySend(h, n) == host[h].pcb = "held" /\ ~host[h].shutdown /\ host[h].sent + n <= plan.bytes[h]
MayShutdown(h) == host[h].pcb = "held" /\ ~host[h].shutdown /\ h \in plan.closes

\* What the application does inside an upcall: nothing, or end the connection.
Upcall(e, react) == IF react = "shutdown" /\ e.pcb = "held" /\ ~e.shutdown THEN Shutdown(e) ELSE e

Abort(e) == Destroy([e EXCEPT !.told = @ \cup {"abort"}])

-----------------------------------------------------------------------------
(* Receiving.                                                               *)

Unacked(queue, ack) ==
  LET acked == Max({k \in 0 .. Len(queue) : \A i \in 1 .. k : TcpSeqLEQ(End(queue[i]), ack)})
  IN  SubSeq(queue, acked + 1, Len(queue))

\* Fault: the timers are disabled although segments are still outstanding.
ClearAckedSegmentsAlways(e, ack) ==
  DisableTimers([e EXCEPT !.unacked = Unacked(@, ack), !.pending = Unacked(@, ack)])

ClearAckedSegments(e, ack) ==
  LET cleared == [e EXCEPT !.unacked = Unacked(@, ack), !.pending = Unacked(@, ack)]
  IN  IF cleared.unacked = <<>> THEN DisableTimers(cleared) ELSE cleared

UpdateWindow(e, s) == [e EXCEPT !.snd_wnd = Scaled(s.wnd), !.snd_wl1 = s.seq, !.snd_wl2 = s.ack]

ReceiveSynSent(e, s, react) ==
  LET bad == TcpSeqLEQ(s.ack, e.snd_una) \/ TcpSeqGT(s.ack, e.snd_nxt)
      synced == [e EXCEPT !.rcv_nxt = Mod(s.seq + 1), !.rcv_last_acked = s.seq,
                          !.snd_una = s.ack, !.state = "Established"]
  IN  IF Has(s, "ack") /\ bad
        THEN IF Has(s, "rst") THEN e ELSE Abort(TcpReset(e, {}, s.ack, 0))
      ELSE IF Has(s, "rst") THEN IF Has(s, "ack") THEN Abort(e) ELSE e
      ELSE IF ~Has(s, "syn") THEN e
      ELSE IF ~Has(s, "ack") \/ TcpLen(s) > 1 THEN [e EXCEPT !.halted = TRUE]
      ELSE Upcall(ClearAckedSegments(UpdateWindow(synced, s), s.ack), react)

\* The stashed segments that continue the payload, in the order of the map.
\* The key is compared with a sum that does not wrap.
WithStashed(e, data) ==
  LET step(c, b) == IF b.seq = e.rcv_nxt + Len(c.data)
                    THEN [c EXCEPT !.data = @ \o b.data, !.left = @ \ {b}] ELSE c
      inOrder == SetToSortSeq(e.stashed, LAMBDA a, b : a.seq < b.seq)
  IN  FoldLeft(step, [data |-> data, left |-> e.stashed], inOrder)

Excess(e, s) == Max({Len(WithStashed(e, s.data).data) - e.rcv_wnd, 0})

\* Payload in sequence.  More than the window is trimmed from the first buffer.
ReceiveData(e, s, react) ==
  LET c == WithStashed(e, s.data)
      excess == Excess(e, s)
      first == Max({Len(s.data) - excess, 0})
      len == Len(c.data) - excess
      data == SubSeq(s.data, 1, first) \o SubSeq(c.data, Len(s.data) + 1, Len(c.data))
  IN  Upcall([e EXCEPT !.stashed = c.left, !.rcv_nxt = Mod(@ + len),
                       !.rcv_wnd = IF e.close_window THEN @ - len ELSE @,
                       !.received = @ \o data], react)

EnterTimeWait(e) == [DisableTimers(e) EXCEPT !.time_wait = TRUE, !.state = "TimeWait"]

ReceiveFin(e, s, end, react) ==
  LET e1 == [e EXCEPT !.rcv_nxt = end] IN
  CASE ~Has(s, "fin") -> e
    [] Has(s, "fin") /\ e.state \in {"Established", "SynReceived"} ->
         Upcall([e1 EXCEPT !.state = "CloseWait", !.told = @ \cup {"close"}], react)
    [] Has(s, "fin") /\ e.state = "FinWait1" -> [e1 EXCEPT !.state = "Closing"]
    [] Has(s, "fin") /\ e.state \in {"FinWait2", "TimeWait"} -> EnterTimeWait(e1)
    [] OTHER -> e1

\* "First check sequence number": the right edge is inclusive, so rcv_nxt is
\* never behind a number that passes and the front is never trimmed.
Acceptable(e, s) ==
  \/ e.rcv_wnd > 0 /\ TcpSeqBetween(s.seq, e.rcv_nxt, Mod(e.rcv_nxt + e.rcv_wnd))
  \/ TcpLen(s) = 0 /\ s.seq = e.rcv_nxt

\* Fault: a segment that is not in sequence is taken as if it were.
AheadNever(e, s) == FALSE

Ahead(e, s) == TcpSeqGT(s.seq, e.rcv_nxt)

CheckSequence(e, s, react) ==
  LET acceptable == Acceptable(e, s)
      stash == IF \E b \in e.stashed : b.seq = s.seq THEN e.stashed
               ELSE e.stashed \cup {[seq |-> s.seq, data |-> s.data]}
      reset == TcpReset(e, {"ack"}, s.ack, End(s))
      end == IF Excess(e, s) > 0 THEN Mod(End(s) - 1) ELSE End(s)
  IN  CASE ~acceptable -> IF e.pending = <<>> /\ ~Has(s, "rst") THEN SendEmptyAck(e) ELSE e
        [] acceptable /\ Has(s, "rst") -> Destroy(e)
        [] acceptable /\ Has(s, "syn") /\ ~Has(s, "rst") -> Abort(reset)
        [] acceptable /\ s.flags \cap {"rst", "syn", "ack"} = {} -> e
        [] OTHER ->
           IF s.data # <<>> /\ e.state = "Established"
           THEN IF Ahead(e, s)
                THEN SendEmptyAck([e EXCEPT !.stashed = stash])
                ELSE ReceiveFin(ReceiveData(e, s, react), s, end, react)
           ELSE IF s.data # <<>> /\ e.state \in {"FinWait1", "FinWait2"} THEN Destroy(reset)
           ELSE ReceiveFin(e, s, End(s), react)

\* An acceptable acknowledgement.  snd_una is moved before the test that
\* compares the acknowledgement with it.
NewAck(e, s) ==
  LET a == [e EXCEPT !.snd_una = s.ack]
      newer == \/ TcpSeqBetween(s.ack, Mod(a.snd_una + 1), a.snd_nxt)
               \/ TcpSeqLT(e.snd_wl1, s.seq)
               \/ e.snd_wl1 = s.seq /\ TcpSeqLEQ(e.snd_wl2, s.ack)
      cleared == ClearAckedSegments(IF newer THEN UpdateWindow(a, s) ELSE a, s.ack)
  IN  IF e.window_notify THEN SendWindowIncrease(cleared) ELSE cleared

\* Fault: the acknowledgement of our FIN is not noticed in a simultaneous close.
FinAckedActive(e, s) ==
  IF s.ack = e.snd_nxt /\ e.state = "FinWait1" THEN [e EXCEPT !.state = "FinWait2"] ELSE e

FinAcked(e, s) ==
  IF s.ack # e.snd_nxt THEN e
  ELSE CASE e.state = "FinWait1" -> [e EXCEPT !.state = "FinWait2"]
         [] e.state = "Closing" -> EnterTimeWait([e EXCEPT !.unacked = <<>>, !.pending = <<>>])
         [] OTHER -> e

Receive(e, s, react) ==
  LET acks == TcpSeqGEQ(s.seq, e.rcv_nxt) /\ s.flags \cap {"ack", "syn", "rst"} = {"ack"}
      a == IF e.state = "SynReceived" THEN UpdateWindow([e EXCEPT !.state = "Established"], s) ELSE e
  IN  CASE e.state = "SynSent" -> ReceiveSynSent(e, s, react)
        [] e.state # "SynSent" /\ ~acks -> CheckSequence(e, s, react)
        [] e.state = "SynReceived" /\ acks /\ ~TcpSeqBetween(s.ack, Mod(e.snd_una + 1), e.snd_nxt) ->
             TcpReset(e, {}, s.ack, 0)
        [] OTHER ->
             IF a.state = "LastAck" /\ s.ack = a.snd_nxt THEN Destroy(a)
             ELSE IF a.state \in {"LastAck", "TimeWait"} THEN CheckSequence(a, s, react)
             ELSE IF TcpSeqBetween(s.ack, a.snd_una, a.snd_nxt)
                  THEN CheckSequence(FinAcked(NewAck(a, s), s), s, react)
             ELSE IF TcpSeqGT(s.ack, a.snd_nxt) THEN SendEmptyAck(a)
             ELSE CheckSequence(FinAcked(a, s), s, react)

Input(e, s, react) ==
  LET r == Receive(e, s, react) IN IF r.state = "none" THEN r ELSE Output(r)

\* ListeningTcpEntry::Input.  The server's accept callback installs its handler
\* and closes the listening pcb.
ListeningInput(h, e, s) ==
  LET syn == [e EXCEPT !.state = "SynReceived", !.snd_una = Iss[h], !.snd_nxt = Iss[h],
                       !.rcv_nxt = Mod(s.seq + 1), !.snd_wnd = Scaled(s.wnd),
                       !.rcv_wnd = kTcpWnd, !.pcb = "held"]
  IN  CASE Has(s, "rst") -> e
        [] s.flags \cap {"rst", "ack"} = {"ack"} -> TcpReset(e, {}, s.ack, 0)
        [] s.flags = {"syn"} -> Output(EnqueueSegment(syn, {"syn", "ack"}, <<>>))
        [] OTHER -> e

ReceiveTcp(h, s, react) ==
  LET e == host[h] IN
  IF e.state # "none" THEN Input(e, s, react)
  ELSE IF h = "server" /\ e.pcb = "none" THEN ListeningInput(h, e, s)
  ELSE IF Has(s, "rst") THEN e
  ELSE IF Has(s, "ack") THEN TcpReset(e, {}, s.ack, End(s))
  ELSE TcpReset(e, {"ack"}, 0, End(s))

ConnectEntry(h, e) ==
  Output(EnqueueSegment([e EXCEPT !.state = "SynSent", !.snd_una = Iss[h], !.snd_nxt = Iss[h],
                                  !.snd_wnd = kTcpWnd, !.rcv_wnd = kTcpWnd, !.pcb = "held"],
                        {"syn"}, <<>>))

\* Fire: a timer that was set for an earlier time may still run late enough.
TimerFire(e, late) ==
  LET e1 == [e EXCEPT !.timer_set = FALSE]
      expired == e.retransmit = "armed" \/ (e.retransmit = "moved" /\ late)
  IN  IF e.time_wait THEN Destroy(e1)
      ELSE IF expired THEN Output([e1 EXCEPT !.retransmit = "off", !.unacked = <<>>,
                                             !.pending = e.unacked \o @])
      ELSE Output(e1)

-----------------------------------------------------------------------------
(* Steps.  The segments a host sends join those on their way to its peer; a *)
(* copy of one that is already on its way adds nothing.                     *)

Become(h, e, left) ==
  LET join(q, s) == IF Contains(q, s) THEN q ELSE Append(q, s) IN
  /\ host' = [host EXCEPT ![h] = [e EXCEPT !.out = <<>>]]
  /\ net' = [left EXCEPT ![Peer(h)] = FoldLeft(join, @, e.out)]

Running(h) == ~host[h].halted
Live(h) == Running(h) /\ host[h].state # "none"

Connect ==
  /\ Running("client") /\ host["client"].pcb = "none"
  /\ Become("client", ConnectEntry("client", host["client"]), net)
  /\ UNCHANGED faults

\* A segment arrives: the oldest one, or one that overtakes others; or it
\* arrives and arrives again later.
Deliver(h, i, again, react) ==
  /\ Running(h)
  /\ react = "shutdown" => MayShutdown(h)
  /\ faults' = faults + (IF i > 1 THEN 1 ELSE 0) + (IF again THEN 1 ELSE 0)
  /\ faults' <= plan.faults
  /\ Become(h, ReceiveTcp(h, net[h][i], react), IF again THEN net ELSE [net EXCEPT ![h] = RemoveAt(@, i)])

Lose(h, i) ==
  /\ faults < plan.faults
  /\ faults' = faults + 1
  /\ net' = [net EXCEPT ![h] = RemoveAt(@, i)]
  /\ UNCHANGED host

Fire(h, late) ==
  /\ Running(h) /\ host[h].timer_set
  /\ late => host[h].retransmit = "moved"
  /\ Become(h, TimerFire(host[h], late), net)
  /\ UNCHANGED faults

Send(h, n) ==
  /\ Live(h) /\ host[h].state # "SynSent" /\ MaySend(h, n)
  /\ Become(h, AppSend(host[h], n), net)
  /\ UNCHANGED faults

AppOutput(h) ==
  /\ Live(h) /\ host[h].pcb = "held" /\ host[h].pending # <<>>
  /\ Become(h, Output(host[h]), net)
  /\ UNCHANGED faults

AppShutdown(h) ==
  /\ Live(h) /\ host[h].state # "SynSent" /\ MayShutdown(h)
  /\ Become(h, Shutdown(host[h]), net)
  /\ UNCHANGED faults

Step ==
  \/ Connect
  \/ \E h \in Host :
       \/ \E i \in DOMAIN net[h] :
            \/ \E again \in BOOLEAN, react \in {"none", "shutdown"} : Deliver(h, i, again, react)
            \/ Lose(h, i)
       \/ \E late \in BOOLEAN : Fire(h, late)
       \/ \E n \in 1 .. MaxChunk : Send(h, n)
       \/ AppOutput(h)
       \/ AppShutdown(h)

Next == Step /\ UNCHANGED plan

Spec == Init /\ [][Next]_vars

\* Weak fairness with ENABLED written out: the network delivers what it does not
\* lose, a timer that is set fires, and applications call Output for what they send.
Changes(h, e) ==
  [e EXCEPT !.out = <<>>] # host[h] \/ \E i \in DOMAIN e.out : ~Contains(net[Peer(h)], e.out[i])
CanArrive(h) == Running(h) /\ net[h] # <<>>
CanFire(h) == Running(h) /\ host[h].timer_set /\ \E late \in BOOLEAN : Changes(h, TimerFire(host[h], late))
CanOutput(h) == Live(h) /\ host[h].pcb = "held" /\ host[h].pending # <<>> /\ Changes(h, Output(host[h]))

Arrives(h) == net[h] # <<>> /\ net'[h] = Tail(net[h]) /\ UNCHANGED faults
Fires(h) == \E late \in BOOLEAN : Fire(h, late)

Fairness ==
  \A h \in Host :
    /\ []<>~CanArrive(h) \/ []<><<Arrives(h)>>_vars
    /\ []<>~CanFire(h) \/ []<><<Fires(h)>>_vars
    /\ []<>~CanOutput(h) \/ []<><<AppOutput(h)>>_vars

FairSpec == Spec /\ Fairness

-----------------------------------------------------------------------------
(* Properties.                                                              *)

\* What Receive hands to the handler is a prefix of what the peer's application
\* sent, in order and without gap or repetition, whatever the network loses,
\* repeats or reorders and whichever segments were stashed.
StreamIntact ==
  \A h \in Host : /\ host[h].received = [i \in 1 .. Len(host[h].received) |-> i]
                  /\ Len(host[h].received) <= host[Peer(h)].sent

\* Everything from snd_una to snd_nxt is still on the two queues, in sequence,
\* and the timer runs whenever a segment is outstanding or the entry is in
\* TIME_WAIT: no unacknowledged byte can be forgotten and no entry stays behind
\* without a timer.  "The only timer that could be active here is our retransmit
\* timer" (ClearAckedSegments): time_wait is set in TIME_WAIT only.
Retransmittable ==
  \A h \in Host : LET e == host[h]  q == e.unacked \o e.pending IN
    /\ e.unacked # <<>> => e.retransmit # "off"
    /\ e.timer_set <=> (e.time_wait \/ e.retransmit # "off")
    /\ e.time_wait <=> e.state = "TimeWait"
    /\ (e.state \notin {"none", "TimeWait"} /\ e.snd_una # e.snd_nxt) =>
         /\ q # <<>> /\ TcpSeqLEQ(q[1].seq, e.snd_una) /\ End(q[Len(q)]) = e.snd_nxt
         /\ \A i \in 1 .. Len(q) - 1 : End(q[i]) = q[i + 1].seq

\* Every byte that a host acknowledges while it can still deliver was handed to
\* its handler: rcv_nxt, "next sequence number expected on an incoming segment",
\* is behind the bytes received, and behind the FIN once Close() was called.
AckedIsReceived ==
  \A h \in Host : LET e == host[h] IN
    e.state \in {"Established", "CloseWait"} =>
      Mod(e.rcv_nxt - Iss[Peer(h)] - 1) = Len(e.received) + (IF "close" \in e.told THEN 1 ELSE 0)

Ending == \E h \in Host : host[h].halted \/ host[h].shutdown \/ host[h].pcb = "released"
Open == \A h \in Host : host[h].state = "Established"
Delivered == \A h \in Host : Len(host[Peer(h)].received) = host[h].sent

\* A connection that nobody ends is established and delivers all that was sent,
\* although segments are lost, repeated and reordered and timers fire early: the
\* retransmissions, the stash and the window updates never wait for each other.
DataArrives == (host["client"].pcb = "held") ~> ((Open /\ Delivered) \/ Ending)

\* When both applications have let go of the connection, both entries are
\* eventually destroyed (unless a host halted in an UNIMPLEMENTED case): "the
\* entry will delete itself once it has closed the connection".
Closes ==
  (\A h \in Host : host[h].pcb = "released") ~>
    ((\A h \in Host : host[h].state = "none") \/ (\E h \in Host : host[h].halted))

-----------------------------------------------------------------------------
\* Values of the constants for TLC.

\* The client's numbers wrap in the stream, the server's in the handshake.
StartNumbers == ("client" :> SeqSpace - 2) @@ ("server" :> SeqSpace - 1)

Plan(client, server, closes, n) ==
  [bytes |-> ("client" :> client) @@ ("server" :> server), closes |-> closes, faults |-> n]

\* A stream longer than the window; one that fills it while the peer sends;
\* one byte each way; an active close after data; a server that closes while data
\* arrives; and both hosts closing, without and with data.
AllPlans == {Plan(3, 0, {}, 1), Plan(2, 1, {}, 0), Plan(1, 1, {}, 1), Plan(2, 0, {"client"}, 1),
             Plan(1, 0, {"server"}, 1), Plan(0, 0, Host, 1), Plan(1, 0, Host, 0)}

DataThenClose == {Plan(1, 0, {"client"}, 1)}
=============================================================================
