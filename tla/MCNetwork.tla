------------------------------ MODULE MCNetwork ------------------------------
(***************************************************************************)
(* The network side for TLC: the virtio driver, ARP, UDP endpoints and the *)
(* DHCP client, IP packets and the buffers they are in, and above them     *)
(* sockets, the texts of addresses and the messenger with the global       *)
(* identifier map.  A behaviour is one of these parts at work (scope); the *)
(* others rest.                                                            *)
(***************************************************************************)
EXTENDS Arp, Udp, TLC

CONSTANTS Xid, MaxTries   \* of Dhcp

VARIABLES scope,
          ring, virtio_pc, started, head, tail, circ, delivered, lost, sends, device, seen, taken,
          kicked, interrupt, arrived,
          state, tries, xid, last_offer, armed, address, dhcp_started, completed, aborted,
          dhcp_sent, replies,
          m, owned, chain,
          addr, wire, got,
          asked, res,
          fds, accepts, pcbs, incoming, session, inbuf, socket_arrived, read, socket_got, event,
          stopped,
          framing_chain, preallocate, framing_arrived, handed, overrun,
          conn, via, opened, accepted, calls, global_queue, global_wire, global_handed,
          received, refused, halted, data, past, installed, base, fault, ref, reps, getting,
          inserting, serving, notes

virtioState == <<ring, virtio_pc, started, head, tail, circ, delivered, lost, sends, device,
                  seen, taken, kicked, interrupt, arrived>>
udpState == <<set, heads, nexts, pprevs, port, phase, grace, at, pos, key, owed>>
dhcpState == <<state, tries, xid, last_offer, armed, address, dhcp_started, completed, aborted,
                dhcp_sent, replies>>
arpState == <<entries, hwaddr, queue, lock, pc, moved, waiting, sent>>
bufState == <<m, owned, chain>>
ipState == <<addr, wire, got>>
textState == <<asked, res>>
socketState == <<fds, accepts, pcbs, incoming, session, inbuf, socket_arrived, read, socket_got,
                  event, stopped>>
framingState == <<framing_chain, preallocate, framing_arrived, handed, overrun>>
globalState == <<conn, via, opened, accepted, calls, global_queue, global_wire, global_handed,
                  received, refused, halted, data, past, installed, base, fault, ref, reps,
                  getting, inserting, serving, notes>>
lowState == <<udpState, dhcpState, arpState>>
dataState == <<bufState, ipState, textState>>
highState == <<socketState, framingState, globalState>>

-----------------------------------------------------------------------------
(* The instances.                                                            *)

V == INSTANCE Virtio WITH QSize <- 2, IndexLimit <- 4, CircSize <- 2, CircLimit <- 4,
                           ZeroCopy <- TRUE, ChainLengths <- {1, 2}, MaxWork <- 4,
                           pc <- virtio_pc
D == INSTANCE Dhcp WITH Server <- (1 :> 5) @@ (2 :> 6), started <- dhcp_started, sent <- dhcp_sent
ASSUME NetworkConstants == ArpConstants /\ UdpConstants /\ V!VirtioSizes
B == INSTANCE IOBuf WITH Bufs <- {"a", "b", "c"}, Capacity <- 2

\* Two hosts of one network behind a gateway; bodies and identifiers that put the
\* checksums at their edges.
HostConfig == [h \in {"a", "b"} |-> [address |-> <<10, 0, 0, IF h = "a" THEN 1 ELSE 2>>,
                                     netmask |-> <<255, 255, 255, 0>>, gateway |-> <<10, 0, 0, 9>>]]
PacketDestinations == {<<10, 0, 0, 1>>, <<10, 0, 0, 2>>, <<10, 0, 0, 255>>, <<8, 8, 8, 8>>, <<255, 255, 255, 255>>}
PacketBodies == {<<>>, <<1>>, <<255, 255, 7>>, [i \in 1 .. 23 |-> 255], [i \in 1 .. 6 |-> 0]}
EchoIds == {<<0, 0>>, <<247, 255>>, <<247, 254>>, <<248, 0>>, <<255, 255>>}
I == INSTANCE Ip WITH Host <- DOMAIN HostConfig, Config <- HostConfig,
                       Destinations <- PacketDestinations, Bodies <- PacketBodies,
                       Ids <- EchoIds, Options <- {<<>>, <<255, 254, 253, 252>>},
                       Spots <- {4, 11, 17, 21, 23}, Unroll <- 2

\* Addresses, and texts of one, two and four parts, well and badly formed.
SomeAddresses == {<<a, b, c, d>> : a \in {10, 255}, b \in {7, 255}, c \in {0, 255}, d \in {0, 10, 240, 255}}
                 \cup {<<0, 0, 0, 0>>}
Part == {<<"1">>, <<"2", "5", "6">>, <<"0", "x", "1", "f">>, <<"0", "8">>, <<>>, <<"1", " ">>, <<"2", "5", "5">>}
AddressTexts ==
  Part \cup {p \o <<".">> \o q : p, q \in Part}
  \cup {p \o <<".">> \o q \o <<".", "9", ".">> \o r : p, q, r \in Part}
SomeWords == [1 .. 8 -> {0, 65535}] \cup {<<1, 2, 0, 0, 0, 0, 0, 48>>, <<0, 0, 0, 0, 0, 0, 258, 772>>}
SomeServices == {<<"0">>, <<"8", "0">>, <<"6", "5", "5", "3", "5">>, <<"6", "5", "5", "3", "6">>, <<"h">>}
T == INSTANCE AddressText WITH Addresses <- SomeAddresses, Texts <- AddressTexts,
                                Words <- SomeWords, Services <- SomeServices,
                                Storage <- {12, 20}, Room <- 10
S == INSTANCE Socket WITH Event <- {"e", "f"}, MaxBytes <- 4, MaxRead <- 3, MaxReads <- 3,
                           MaxFds <- 1, arrived <- socket_arrived, got <- socket_got
F == INSTANCE Framing WITH Lengths <- <<3, 4, 2, 5>>, Header <- 2, ChainLen <- 2,
                            MaxSegment <- 4, chain <- framing_chain, arrived <- framing_arrived
G == INSTANCE GlobalIdMap WITH FrontEnd <- "front", BackEnd <- "back", Core <- {"c", "d"},
                                BootCore <- "c", Ebb <- {"x", "y"}, Value <- {"v"},
                                MaxGets <- 2, MaxNotes <- 2, queue <- global_queue,
                                wire <- global_wire, handed <- global_handed

-----------------------------------------------------------------------------
(* What the variables of a part hold while it rests; ARP and UDP rest where  *)
(* they start.                                                               *)

VirtioAtRest == ring = None /\ virtio_pc = None /\ started = None /\ head = None /\ tail = None
  /\ circ = None /\ delivered = None /\ lost = None /\ sends = None /\ device = None /\ seen = None
  /\ taken = None /\ kicked = None /\ interrupt = None /\ arrived = None
DhcpAtRest == state = None /\ tries = None /\ xid = None /\ last_offer = None /\ armed = None
  /\ address = None /\ dhcp_started = None /\ completed = None /\ aborted = None
  /\ dhcp_sent = None /\ replies = None
BufAtRest == m = None /\ owned = None /\ chain = None
IpAtRest == addr = None /\ wire = None /\ got = None
TextAtRest == asked = None /\ res = None
SocketAtRest == fds = None /\ accepts = None /\ pcbs = None /\ incoming = None /\ session = None
  /\ inbuf = None /\ socket_arrived = None /\ read = None /\ socket_got = None /\ event = None
  /\ stopped = None
FramingAtRest == framing_chain = None /\ preallocate = None /\ framing_arrived = None
  /\ handed = None /\ overrun = None
GlobalAtRest == conn = None /\ via = None /\ opened = None /\ accepted = None /\ calls = None
  /\ global_queue = None /\ global_wire = None /\ global_handed = None /\ received = None
  /\ refused = None /\ halted = None /\ data = None /\ past = None /\ installed = None
  /\ base = None /\ fault = None /\ ref = None /\ reps = None /\ getting = None
  /\ inserting = None /\ serving = None /\ notes = None

NetworkInit ==
  /\ scope \in {"virtio", "udp", "dhcp", "arp", "buf", "ip", "text", "socket", "framing", "global"}
  /\ Init /\ UdpInit
  /\ IF scope = "virtio" THEN V!VirtioInit ELSE VirtioAtRest
  /\ IF scope = "dhcp" THEN D!DhcpInit ELSE DhcpAtRest
  /\ IF scope = "buf" THEN B!BufInit ELSE BufAtRest
  /\ IF scope = "ip" THEN I!IpInit ELSE IpAtRest
  /\ IF scope = "text" THEN T!TextInit ELSE TextAtRest
  /\ IF scope = "socket" THEN S!SocketInit ELSE SocketAtRest
  /\ IF scope = "framing" THEN F!FramingInit ELSE FramingAtRest
  /\ IF scope = "global" THEN G!GlobalInit ELSE GlobalAtRest

NetworkNext ==
  /\ scope' = scope
  /\ \/ scope = "virtio" /\ V!VirtioNext
        /\ UNCHANGED <<lowState, dataState, highState>>
     \/ scope = "udp" /\ UdpNext
        /\ UNCHANGED <<virtioState, dhcpState, arpState, dataState, highState>>
     \/ scope = "dhcp" /\ D!DhcpNext
        /\ UNCHANGED <<virtioState, udpState, arpState, dataState, highState>>
     \/ scope = "arp" /\ Next
        /\ UNCHANGED <<virtioState, udpState, dhcpState, dataState, highState>>
     \/ scope = "buf" /\ B!BufNext
        /\ UNCHANGED <<virtioState, lowState, ipState, textState, highState>>
     \/ scope = "ip" /\ I!IpNext
        /\ UNCHANGED <<virtioState, lowState, bufState, textState, highState>>
     \/ scope = "text" /\ T!TextNext
        /\ UNCHANGED <<virtioState, lowState, bufState, ipState, highState>>
     \/ scope = "socket" /\ S!SocketNext
        /\ UNCHANGED <<virtioState, lowState, dataState, framingState, globalState>>
     \/ scope = "framing" /\ F!FramingNext
        /\ UNCHANGED <<virtioState, lowState, dataState, socketState, globalState>>
     \/ scope = "global" /\ G!GlobalNext
        /\ UNCHANGED <<virtioState, lowState, dataState, socketState, framingState>>

NetworkSpec == NetworkInit /\ [][NetworkNext]_<<scope, virtioState, lowState, dataState, highState>>

-----------------------------------------------------------------------------
(* Properties of the parts; those of Arp (PacketsResolved) and Udp (UdpSafe) *)
(* are checked as they are.                                                  *)

\* Virtio.RingsConserved and Virtio.NobodySleepsOverWork: descriptors are never lost or
\* shared, packets arrive in order, and neither the driver nor the device sleeps over work
\* (VRing, ReceivePoll).
RingsSafe == scope = "virtio" => V!RingsConserved /\ V!NobodySleepsOverWork

\* Dhcp.DhcpSound: the client of StartDhcp is never left without a timer or an
\* answer, and takes the address it asked for, once.
DhcpSafe == scope = "dhcp" => D!DhcpSound

\* IOBuf.ChainsRight: whatever is linked, split, shared and read, the ring of buffers is
\* the chain it stands for (IOBuf.cc, DataPointer).
BuffersChained == scope = "buf" => B!ChainsRight

\* Ip.PacketsRight and AddressText.AddressesRight: a packet that was not damaged is taken by
\* whom it is for, a damaged one is not, and a ping is answered (ReceiveIp, ReceiveIcmp,
\* Csum); what inet_ntop and ipaddr_ntoa print is read back as the same address.
PacketsTaken ==
  /\ scope = "ip" => I!PacketsRight
  /\ scope = "text" => T!AddressesRight

\* Socket.StreamInOrder and Socket.AcceptsPaired: reads of a socket return the bytes of
\* the connection in order, and each accepted connection goes to one accept.
SocketsInOrder == scope = "socket" => S!StreamInOrder /\ S!AcceptsPaired

\* Framing.Framed, GlobalIdMap.LookupsAnswered and GlobalIdMap.Delivered: the messenger hands
\* over the messages that were sent however TCP cuts them, and lookups of the global
\* identifier map over it get a value the map has had (process_message_chain, Get).
LookupsServed ==
  /\ scope = "framing" => F!Framed
  /\ scope = "global" => G!LookupsAnswered /\ G!Delivered
=============================================================================
