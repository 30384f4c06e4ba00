---------------------------------- MODULE Ip ----------------------------------
(***************************************************************************)
(* IPv4, ICMP and the checksums of native: NetChecksum.cc, NetIp.h/.cc,    *)
(* NetIcmp.cc, NetIpAddress.h, the sending half of NetUdp.cc, the routing  *)
(* half of NetEth.cc and Net.cc.                                           *)
(*                                                                         *)
(* A packet is the sequence of its bytes: an IP header, 20 bytes without   *)
(* options, and the rest in the pieces it is received in.  A 16-bit value  *)
(* is a number as the little-endian processor reads it, a longer one the   *)
(* sequence of its 16-bit limbs, least significant first.                  *)
(***************************************************************************)
EXTENDS Integers, Sequences, SequencesExt

CONSTANTS Host,        \* hosts that run this code
          Config,      \* Config[h]: the ItfAddress that h gets
          Destinations,
          Bodies,      \* what is sent: sequences of bytes
          Ids,         \* the identifiers of echo requests
          Options,     \* IP options of echo requests, sequences of whole words
          Spots,       \* the places where a packet may be damaged
          Unroll,      \* quadwords that Csum adds at a time (8)
          None

VARIABLES addr,        \* Address() of each host: a configuration or None
          wire,        \* the packet under way, or None
          got          \* what the last receiver made of the last packet
ipVars == <<addr, wire, got>>

htons(v) == (v % 256) * 256 + v \div 256
LE(bs) == \* two, four or eight bytes
  LET pair(k) == bs[2 * k - 1] + 256 * bs[2 * k]
  IN  CASE Len(bs) = 2 -> <<pair(1)>> [] Len(bs) = 4 -> <<pair(1), pair(2)>>
        [] OTHER -> <<pair(1), pair(2), pair(3), pair(4)>>
TwoBytes(v) == <<v % 256, v \div 256>>

\* add and adc of 32 and of 64 bits, with the carry flag in and out.
Adc(a, b, c) ==
  LET lo == a[1] + b[1] + c
      hi == a[2] + b[2] + lo \div 65536
  IN  [sum |-> <<lo % 65536, hi % 65536>>, c |-> hi \div 65536]
Adcq(a, b, c) ==
  LET lo == Adc(<<a[1], a[2]>>, <<b[1], b[2]>>, c)
      hi == Adc(<<a[3], a[4]>>, <<b[3], b[4]>>, lo.c)
  IN  [sum |-> lo.sum \o hi.sum, c |-> hi.c]

-----------------------------------------------------------------------------
\* NetChecksum.cc.

CsumFold(sum) ==
  LET s == Adc(<<0, sum[2]>>, <<0, sum[1]>>, 0)
  IN  65535 - Adc(s.sum, <<65535, 0>>, s.c).sum[2]

From32To16(val) == LET t == val[2] + val[1] IN (t % 65536) + t \div 65536

Add32WithCarry(a, b) == LET s == Adc(a, b, 0) IN Adc(s.sum, <<0, 0>>, s.c).sum

Wide(v) == SubSeq(v \o <<0, 0, 0>>, 1, 4)
Fold64(r) == Add32WithCarry(SubSeq(r, 3, 4), SubSeq(r, 1, 2))

\* Unroll quadwords with one chain of carries, then one at a time.
RECURSIVE AdcChain(_, _, _, _)
AdcChain(s, quads, k, n) == IF n = 0 THEN s ELSE AdcChain(Adcq(s.sum, quads[k], s.c), quads, k + 1, n - 1)
RECURSIVE AddQuads(_, _, _)
AddQuads(r, quads, k) ==
  LET left == Len(quads) - k + 1
      n == IF left >= Unroll THEN Unroll ELSE 1
      s == AdcChain([sum |-> r, c |-> 0], quads, k, n)
  IN  IF left = 0 THEN r ELSE AddQuads(Adcq(s.sum, Wide(<<0>>), s.c).sum, quads, k + n)

\* The sum of the bytes of buf, which starts at address ptr; s is what the sum is
\* and how many bytes are in it, after each part of the function in turn.
CsumRegion(buf, ptr) ==
  LET left(s) == Len(buf) - s.i
      Word(i, n) == Wide(LE(SubSeq(buf, i + 1, i + n)))
      Plus(s, n) == [sum |-> Adcq(s.sum, Word(s.i, n), 0).sum, i |-> s.i + n]
      AlignByte(s) == IF ptr % 2 = 1 THEN [sum |-> Wide(<<buf[1] * 256>>), i |-> 1] ELSE s
      Align2(s) == IF left(s) >= 2 /\ ((ptr + s.i) \div 2) % 2 = 1 THEN Plus(s, 2) ELSE s
      Align4(s) == IF ((ptr + s.i) \div 4) % 2 = 1 THEN Plus(s, 4) ELSE s
      Quads(s) == LET n8 == left(s) \div 8
                  IN  [sum |-> Wide(Fold64(AddQuads(s.sum, [k \in 1..n8 |-> Word(s.i + 8 * (k - 1), 8)], 1))),
                       i |-> s.i + 8 * n8]
      Body(s) == IF left(s) \div 4 > 0 THEN Quads(Align4(s)) ELSE s
      Four(s) == IF left(s) \div 4 = 1 THEN Plus(s, 4) ELSE s
      Two(s) == IF left(s) \div 2 = 1 THEN Plus(s, 2) ELSE s
      Byte(s) == IF left(s) = 1 THEN Adcq(s.sum, Wide(<<buf[Len(buf)]>>), 0).sum ELSE s.sum
  IN  Fold64(Byte(Two(Four(Body(Align2(AlignByte([sum |-> Wide(<<0>>), i |-> 0])))))))

\* Seeded fault: the parity of the offset in the chain is forgotten.
CsumInPlace(buf, ptr, offset) ==
  CASE Len(buf) = 0 -> <<0, 0>>
    [] Len(buf) > 0 /\ ptr % 2 = 1 -> <<htons(From32To16(CsumRegion(buf, ptr))), 0>>
    [] OTHER -> CsumRegion(buf, ptr)

\* buf is offset bytes into the chain: the bytes of its words change places
\* when the address is odd or the offset, but not both.
Csum(buf, ptr, offset) ==
  CASE Len(buf) = 0 -> <<0, 0>>
    [] Len(buf) > 0 /\ ptr % 2 # offset % 2 -> <<htons(From32To16(CsumRegion(buf, ptr))), 0>>
    [] OTHER -> CsumRegion(buf, ptr)

\* A chain is a sequence of [ptr, data].
RECURSIVE IpCsumNoFold(_, _, _)
IpCsumNoFold(chain, ret, offset) ==
  IF chain = <<>> THEN ret
  ELSE IpCsumNoFold(Tail(chain), Add32WithCarry(ret, Csum(chain[1].data, chain[1].ptr, offset)), offset + Len(chain[1].data))

IpCsum(chain) == CsumFold(IpCsumNoFold(chain, <<0, 0>>, 0))

PseudoCsum(len, proto, src, dst) ==
  LET s1 == Adc(<<0, 0>>, LE(dst), 0)
      s2 == Adc(s1.sum, LE(src), s1.c)
      s3 == Adc(s2.sum, <<proto * 256, htons(len)>>, s2.c)
  IN  Adc(s3.sum, <<0, 0>>, s3.c).sum

OffloadPseudoCsum(len, proto, src, dst) == From32To16(PseudoCsum(len, proto, src, dst))

-----------------------------------------------------------------------------
\* NetIpAddress.h and the interface's ItfAddress.

BitAnd[x \in Nat, y \in Nat] ==
  IF x = 0 THEN 0 ELSE 2 * BitAnd[x \div 2, y \div 2] + (x % 2) * (y % 2)
Mask(a, mask) == [i \in 1..4 |-> BitAnd[a[i], mask[i]]]
Inverse4(a) == [i \in 1..4 |-> 255 - a[i]]
AnyAddress == <<0, 0, 0, 0>>
Broadcast == <<255, 255, 255, 255>>
IsBroadcastAddress(a) == a \in {AnyAddress, Broadcast}
isMulticast(a) == a[1] \div 16 = 14
isLinkLocal(a) == a[1] = 169 /\ a[2] = 254
isLocalNetwork(itf, a) == Mask(a, itf.netmask) = Mask(itf.address, itf.netmask)
isBroadcast(itf, a) ==
  \/ IsBroadcastAddress(a)
  \/ /\ a # itf.address /\ isLocalNetwork(itf, a)
     /\ Mask(a, Inverse4(itf.netmask)) = Mask(Broadcast, Inverse4(itf.netmask))

HeaderLength(h) == (h[1] % 16) * 4

\* Ipv4Header::ComputeChecksum; the options are the words past the fifth.
RECURSIVE AddWords(_, _, _)
AddWords(h, k, s) == IF 4 * k > HeaderLength(h) THEN s ELSE AddWords(h, k + 1, Adc(s.sum, LE(SubSeq(h, 4 * k - 3, 4 * k)), s.c))
ComputeChecksum(h) ==
  LET s == AddWords(h, 2, [sum |-> LE(SubSeq(h, 1, 4)), c |-> 0])
  IN  65535 - From32To16(Adc(s.sum, <<0, 0>>, s.c).sum)

TotalLength(h) == h[3] * 256 + h[4]
Fragmented(h) == (h[7] \div 32) % 2 = 1 \/ (h[7] % 32) * 256 + h[8] # 0
Src(h) == SubSeq(h, 13, 16)
Dst(h) == SubSeq(h, 17, 20)
WithChecksum(h, v) == [h EXCEPT ![11] = TwoBytes(v)[1], ![12] = TwoBytes(v)[2]]

\* EthArpSend: who the frame is addressed to; None when it goes nowhere.
NextHop(itf, dst) ==
  CASE dst = Broadcast \/ (itf # None /\ isBroadcast(itf, dst)) -> Broadcast
    [] dst # Broadcast /\ itf = None -> None
    [] OTHER -> IF ~isLocalNetwork(itf, dst) /\ ~isLinkLocal(dst) THEN itf.gateway ELSE dst

\* The bytes of a chain of two.
Packet(chain) == chain[1].data \o chain[2].data

\* The frame as EthArpSend hands it on; chain is what follows the header.
Frame(h, ip, chain) == [from |-> h, hop |-> NextHop(addr[h], Dst(ip)), ip |-> ip, chain |-> chain, hurt |-> FALSE]

\* IpRoute and SendIp.
SendIp(h, chain, src, dst, proto) ==
  LET len == 20 + Len(Packet(chain))
      ip == <<69, 0>> \o TwoBytes(htons(len)) \o <<0, 0, 0, 0, 255, proto, 0, 0>> \o src \o dst
  IN  IF isLinkLocal(dst) \/ isMulticast(dst) THEN None ELSE Frame(h, WithChecksum(ip, ComputeChecksum(ip)), chain)

-----------------------------------------------------------------------------
IpInit == addr = [h \in Host |-> None] /\ wire = None /\ got = None

\* The lease of the interface (Dhcp).
SetAddress(h) ==
  /\ addr[h] = None
  /\ addr' = [addr EXCEPT ![h] = Config[h]]
  /\ UNCHANGED <<wire, got>>

\* SendUdp; the device adds up the datagram from csum_start on.
SendUdp(h, dst, data) ==
  LET src == IF addr[h] = None THEN AnyAddress ELSE addr[h].address
      len == 8 + Len(data)
      pseudo == OffloadPseudoCsum(len, 17, src, dst)
      header == <<192, 1, 0, 53>> \o TwoBytes(htons(len)) \o TwoBytes(pseudo)
      sum == IpCsum(<<[ptr |-> 2, data |-> header], [ptr |-> 1, data |-> data]>>)
      done == [header EXCEPT ![7] = TwoBytes(sum)[1], ![8] = TwoBytes(sum)[2]]
  IN  /\ wire = None /\ got = None /\ ~isMulticast(dst)
      /\ wire' = SendIp(h, <<[ptr |-> 2, data |-> done], [ptr |-> 1, data |-> data]>>, src, dst, 17)
      /\ UNCHANGED <<addr, got>>

\* Somebody pings: an echo request with a right checksum.
RECURSIVE PlainSum(_)
PlainSum(b) ==
  CASE Len(b) = 0 -> 0 [] Len(b) = 1 -> b[1] * 256 [] Len(b) = 2 -> b[1] * 256 + b[2]
    [] OTHER -> LET half == 2 * ((Len(b) + 2) \div 4) IN PlainSum(SubSeq(b, 1, half)) + PlainSum(SubSeq(b, half + 1, Len(b)))
Ping(dst, id, data, options, cut) ==
  LET Whole(c) == <<8, 0, c \div 256, c % 256>> \o id \o <<0, 0>> \o data
      icmp == Whole(65534 - ((PlainSum(Whole(0)) - 1) % 65535))
      Ip4(c) == <<69 + Len(options) \div 4, 0>> \o TwoBytes(htons(20 + Len(options) + Len(icmp)))
                \o <<0, 0, 0, 0, 7, 1, c \div 256, c % 256, 10, 0, 0, 9>> \o dst \o options
      ip == Ip4(65534 - ((PlainSum(Ip4(0)) - 1) % 65535))
  IN  /\ wire = None /\ got = None
      /\ wire' = [from |-> None, hop |-> dst, ip |-> ip, hurt |-> FALSE,
                  chain |-> <<[ptr |-> 2, data |-> SubSeq(icmp, 1, cut)],
                              [ptr |-> 0, data |-> SubSeq(icmp, cut + 1, Len(icmp))]>>]
      /\ UNCHANGED <<addr, got>>

\* A byte is damaged under way; not the one with the header's length.
Damage(i, v) ==
  /\ wire # None /\ ~wire.hurt
  /\ LET n == Len(wire.ip) IN
     \/ i \in 2..n /\ wire.ip[i] # v /\ wire' = [wire EXCEPT !.ip[i] = v, !.hurt = TRUE]
     \/ /\ i - n \in DOMAIN wire.chain[1].data /\ wire.chain[1].data[i - n] # v
        /\ wire' = [wire EXCEPT !.chain[1].data[i - n] = v, !.hurt = TRUE]
  /\ UNCHANGED <<addr, got>>

\* The tests of ReceiveIp, in their order.
Accepted(itf, p) ==
  /\ p.ip[1] \div 16 = 4 /\ HeaderLength(p.ip) >= 20
  /\ TotalLength(p.ip) <= Len(p.ip) + Len(Packet(p.chain))
  /\ ComputeChecksum(p.ip) = 0
  /\ p.ip[10] = 17 \/ (itf # None /\ (isBroadcast(itf, Dst(p.ip)) \/ itf.address = Dst(p.ip)))
  /\ ~IsBroadcastAddress(Src(p.ip)) /\ ~isMulticast(Src(p.ip))
  /\ ~Fragmented(p.ip)

\* ReceiveIcmp for an echo request: the packet itself is sent back.
ReceiveIcmp(h, p) ==
  LET c == p.chain[1].data[3] + 256 * p.chain[1].data[4]
      addend == htons(8 * 256)
      sum == IF c >= htons(65535 - 8 * 256) THEN (c + addend + 1) % 65536 ELSE (c + addend) % 65536
      head == [p.chain[1].data EXCEPT ![1] = 0, ![3] = TwoBytes(sum)[1], ![4] = TwoBytes(sum)[2]]
      turned == SubSeq(p.ip, 1, 12) \o Dst(p.ip) \o Src(p.ip) \o SubSeq(p.ip, 21, Len(p.ip))
      ip == WithChecksum([turned EXCEPT ![9] = 255], 0)
  IN  IF IpCsum(p.chain) # 0 \/ p.chain[1].data[1] # 8 THEN None
      ELSE Frame(h, WithChecksum(ip, ComputeChecksum(ip)), [p.chain EXCEPT ![1].data = head])

\* Receive of a host the frame reaches.
Receive(h) ==
  /\ wire # None /\ wire.from # h
  /\ wire.hop = Broadcast \/ (addr[h] # None /\ wire.hop = addr[h].address)
  /\ LET ok == Accepted(addr[h], wire)
         reply == IF ok /\ wire.ip[10] = 1 THEN ReceiveIcmp(h, wire) ELSE None
     IN  /\ wire' = reply
         /\ got' = [host |-> h, packet |-> wire, ok |-> ok /\ (wire.ip[10] = 1 => reply # None)]
  /\ UNCHANGED addr

\* The frame leaves this network, or is for nobody.
Leave ==
  /\ wire # None \/ got # None
  /\ wire' = None /\ got' = None /\ UNCHANGED addr

IpNext ==
  \/ \E h \in Host : SetAddress(h) \/ Receive(h)
  \/ \E h \in Host, dst \in Destinations, data \in Bodies : SendUdp(h, dst, data)
  \/ \E dst \in Destinations, id \in Ids, data \in Bodies, o \in Options, cut \in {4, 5} : Ping(dst, id, data, o, cut)
  \/ \E i \in Spots, v \in {0, 255} : Damage(i, v)
  \/ Leave

IpSpec == IpInit /\ [][IpNext]_ipVars

-----------------------------------------------------------------------------
\* A checksum is right when the words add up to a multiple of 65535, not 0.
Sums(b) == PlainSum(b) # 0 /\ PlainSum(b) % 65535 = 0
Pseudo(p) == Src(p.ip) \o Dst(p.ip) \o <<0, p.ip[10]>> \o TwoBytes(htons(Len(Packet(p.chain)))) \o Packet(p.chain)
AllZero(b) == \A i \in DOMAIN b : b[i] = 0

\* What a host sends is right for any receiver: its IP header adds up, so does
\* the datagram with its pseudo header, in whatever pieces it was added, and so
\* does the reply to a ping, except the one of nothing but zero bytes, whose
\* checksum ReceiveIcmp leaves 0.  It goes to everybody for a broadcast, to
\* the neighbour itself in the subnet, to the gateway otherwise.  No packet with
\* a damaged header, no damaged ping is taken; an undamaged one for the host is.
PacketsRight ==
  /\ wire # None /\ wire.from \in Host /\ ~wire.hurt =>
       /\ Sums(wire.ip)
       /\ wire.ip[10] = 17 => Sums(Pseudo(wire))
       /\ wire.ip[10] = 1 => Sums(Packet(wire.chain)) \/ AllZero(Packet(wire.chain))
       /\ wire.hop # None /\ wire.hop # Broadcast =>
            wire.hop = IF isLocalNetwork(addr[wire.from], Dst(wire.ip)) THEN Dst(wire.ip) ELSE addr[wire.from].gateway
  /\ got # None =>
       /\ got.ok => Sums(got.packet.ip) /\ (got.packet.hurt => got.packet.ip[10] = 17)
       /\ /\ ~got.packet.hurt /\ addr[got.host] # None /\ ~IsBroadcastAddress(Src(got.packet.ip))
          /\ Dst(got.packet.ip) = addr[got.host].address
          /\ got.packet.ip[10] = 17 \/ got.packet.chain[1].data[1] = 8
          => got.ok
=============================================================================
