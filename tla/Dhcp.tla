-------------------------------- MODULE Dhcp --------------------------------
(***************************************************************************)
(* The DHCP client of an interface (src/src/native/NetDhcp.cc): discovery, *)
(* request, and the timer that repeats them.  All handlers run on core 0;  *)
(* the network loses, repeats and reorders messages, and messages taken in *)
(* by other cores arrive later still.                                      *)
(*                                                                         *)
(* A message carries its options as the bytes the code writes and walks.   *)
(* Addresses are four bytes in the code and one here.                      *)
(***************************************************************************)
EXTENDS Integers, Sequences, FiniteSets, SequencesExt, FiniteSetsExt

CONSTANTS Xid,          \* transaction numbers that random::Get() may return
          Server,       \* [server number -> address it offers]
          MaxTries,     \* bound: tries is not counted further
          None

VARIABLES state, tries, xid, last_offer,  \* of DhcpPcb
          armed,        \* the pcb is in the timer's set
          address,      \* ItfAddress of the interface
          started,      \* StartDhcp was called
          completed,    \* how often the promise was fulfilled
          aborted,      \* kabort or kassert stopped the machine
          sent,         \* messages that the client broadcast
          replies       \* messages that may reach the client, any number of times

dhcpVars == <<state, tries, xid, last_offer, armed, address, started, completed, aborted, sent, replies>>

kMessageType == 53
kServerId == 54
kRequestIp == 50
kParameterRequestList == 55
kSubnetMask == 1
kRouter == 3
kBroadcast == 28
kEnd == 255
kDiscover == 1
kOffer == 2
kRequest == 3
kAck == 5
kDhcpOptionsLen == 60

\* DhcpOption with its bytes, DhcpOptionTrailer; kassert on the room that is left.
Option(type, bytes) == <<type, Len(bytes)>> \o bytes
Options(list) == FlattenSeq(list) \o <<kEnd>>
Fits(options) == Len(options) <= kDhcpOptionsLen

\* DhcpGetOptionByte and DhcpGetOptionLong.
GetOption(o, type) ==
  LET walk[i \in Nat] == IF i > Len(o) THEN None
                         ELSE IF o[i] = type THEN o[i + 2]
                         ELSE IF o[i] = kEnd THEN None
                         ELSE walk[i + o[i + 1] + 2]
  IN walk[1]

DiscoverOptions ==
  Options(<<Option(kMessageType, <<kDiscover>>),
            Option(kParameterRequestList, <<kSubnetMask, kRouter, kBroadcast>>)>>)

RequestOptions(ip, server) ==
  Options(<<Option(kMessageType, <<kRequest>>), Option(kRequestIp, <<ip>>), Option(kServerId, <<server>>),
            Option(kParameterRequestList, <<kSubnetMask, kRouter, kBroadcast>>)>>)

\* The state of a new DhcpPcb is not initialised.
DhcpInit ==
  /\ state \in {"inactive", "selecting", "other"} /\ tries \in 0 .. 1 /\ xid \in Xid
  /\ last_offer = None /\ armed = FALSE /\ address = None
  /\ started = FALSE /\ completed = 0 /\ aborted = FALSE /\ sent = {} /\ replies = {}

\* DhcpSetState resets the tries when the state changes.
TriesAfter(s) == IF s # state THEN 0 ELSE tries

\* DhcpCreateMessage draws a number for the first try; then SendTo, tries++,
\* and Start of the timer.
SendTry(s, options) ==
  /\ state' = s
  /\ \E x \in Xid : /\ TriesAfter(s) # 0 => x = xid
                    /\ xid' = x
                    /\ sent' = sent \cup {[xid |-> x, options |-> options]}
  /\ tries' = Min({TriesAfter(s) + 1, MaxTries})
  /\ armed' = TRUE
  /\ aborted' = ~Fits(options)

DhcpDiscover == SendTry("selecting", DiscoverOptions)

\* Interface::StartDhcp.
StartDhcp ==
  /\ ~started /\ started' = TRUE
  /\ DhcpDiscover
  /\ UNCHANGED <<last_offer, address, completed, replies>>

\* An offer without a server identifier is ignored.
DhcpHandleOffer(m) ==
  LET server == GetOption(m.options, kServerId) IN
  IF server = None
  THEN UNCHANGED <<state, tries, xid, last_offer, armed, aborted, sent>>
  ELSE /\ last_offer' = m
       /\ SendTry("requesting", RequestOptions(m.yiaddr, server))

\* The renewal timer replaces the retry timer; without a netmask or a router the
\* assertions fail.
DhcpHandleAck(m) ==
  LET mask == GetOption(m.options, kSubnetMask)
      router == GetOption(m.options, kRouter)
  IN
  /\ armed' = TRUE
  /\ IF mask = None \/ router = None
     THEN aborted' = TRUE /\ UNCHANGED <<state, tries, address, completed>>
     ELSE /\ address' = [address |-> m.yiaddr, netmask |-> mask, gateway |-> router]
          /\ state' = "bound" /\ tries' = TriesAfter("bound")
          /\ completed' = completed + 1
          /\ UNCHANGED aborted
  /\ UNCHANGED <<xid, last_offer, sent>>

\* Seeded fault: an acknowledgement is taken in any state.
ExpectedAny(m) == m.xid = xid

\* The checks on the transaction and the state.
Expected(m) ==
  /\ m.xid = xid
  /\ \/ GetOption(m.options, kMessageType) = kOffer /\ state = "selecting"
     \/ GetOption(m.options, kMessageType) = kAck /\ state = "requesting"

ReceiveDhcp(m) ==
  /\ started /\ ~aborted /\ m \in replies /\ Expected(m)
  /\ \/ /\ GetOption(m.options, kMessageType) = kOffer
        /\ DhcpHandleOffer(m)
        /\ UNCHANGED <<address, completed>>
     \/ /\ GetOption(m.options, kMessageType) = kAck
        /\ DhcpHandleAck(m)
  /\ UNCHANGED <<started, replies>>

\* Fire: the timer has taken the pcb out of its set.  When it is bound the clock
\* is past the renewal time unless it stands exactly there.
Fire ==
  /\ armed /\ ~aborted
  /\ \/ /\ state = "selecting"
        /\ DhcpDiscover
        /\ UNCHANGED last_offer
     \/ state = "requesting" /\ DhcpHandleOffer(last_offer)
     \/ /\ state = "bound"
        /\ aborted' \in BOOLEAN
        /\ armed' = FALSE
        /\ UNCHANGED <<state, tries, xid, last_offer, sent>>
  /\ UNCHANGED <<address, started, completed, replies>>

-----------------------------------------------------------------------------
(* The servers answer what they see; either may leave out an option.        *)

OfferOf(m, s) ==
  [xid |-> m.xid, yiaddr |-> Server[s],
   options |-> Options(<<Option(kMessageType, <<kOffer>>), Option(kServerId, <<s>>)>>)]
AckOf(m, more) ==
  [xid |-> m.xid, yiaddr |-> GetOption(m.options, kRequestIp),
   options |-> Options(<<Option(kMessageType, <<kAck>>)>> \o more)]
Masked == <<Option(kSubnetMask, <<240>>), Option(kRouter, <<9>>)>>

Serve(m) ==
  /\ m \in sent /\ ~aborted
  /\ \/ /\ GetOption(m.options, kMessageType) = kDiscover
        /\ \E s \in DOMAIN Server : replies' = replies \cup {OfferOf(m, s)}
     \/ /\ GetOption(m.options, kMessageType) = kRequest
        /\ \E more \in {Masked, Tail(Masked)} : replies' = replies \cup {AckOf(m, more)}
  /\ UNCHANGED <<state, tries, xid, last_offer, armed, address, started, completed, aborted, sent>>

DhcpNext ==
  \/ StartDhcp \/ Fire
  \/ \E m \in replies : ReceiveDhcp(m)
  \/ \E m \in sent : Serve(m)

DhcpSpec == DhcpInit /\ [][DhcpNext]_dhcpVars

-----------------------------------------------------------------------------
(* Properties.                                                              *)

\* Until the client is bound its retry timer runs, so that a lost message never
\* ends the exchange.  The promise is fulfilled once, with the address, although
\* acknowledgements are repeated and the numbers of the two phases may collide;
\* and the address is one that the server named in the request assigned.
DhcpSound ==
  /\ started /\ ~aborted /\ state # "bound" => armed
  /\ completed <= 1
  /\ completed = 1 <=> address # None
  /\ completed = 1 => state = "bound" /\ address.address = last_offer.yiaddr
  /\ \A m \in sent : GetOption(m.options, kMessageType) = kRequest =>
       GetOption(m.options, kRequestIp) = Server[GetOption(m.options, kServerId)]
=============================================================================
