----------------------------- MODULE AddressText -----------------------------
(***************************************************************************)
(* The text of network addresses and what the resolver makes of it:        *)
(* lwip/core/ip_addr.c, lwip/core/def.c, lwip/inet/inet_pton.c and         *)
(* inet_ntop.c, lwip/api/netdb.c of the socket library.                    *)
(*                                                                         *)
(* A text is a sequence of characters.  A u32_t is the sequence of its     *)
(* bytes, most significant first; in memory they are the other way round.  *)
(***************************************************************************)
EXTENDS Integers, Sequences, SequencesExt

CONSTANTS Addresses,  \* IPv4 addresses: sequences of four octets
          Texts,      \* texts that are tried as addresses
          Words,      \* IPv6 addresses: sequences of eight 16-bit words
          Services,   \* texts that are tried as ports
          Storage,    \* the sizes of buf that gethostbyname_r is given
          Room,       \* sizeof(gethostbyname_r_helper) + MEM_ALIGNMENT - 1
          None

VARIABLES asked,      \* what the program wants converted
          res         \* what it got, None before
textVars == <<asked, res>>

Digit == <<"0", "1", "2", "3", "4", "5", "6", "7", "8", "9", "a", "b", "c", "d", "e", "f">>
Value(c) == (CHOOSE i \in DOMAIN Digit : Digit[i] = c) - 1
isdigit(c) == c \in {Digit[i] : i \in 1..10}
isxdigit(c) == c \in {Digit[i] : i \in 1..16}
Char(t, i) == IF i <= Len(t) THEN t[i] ELSE "nul"

\* The operators & and | of C on bytes.
BitAnd[x \in Nat, y \in Nat] ==
  IF x = 0 THEN 0 ELSE 2 * BitAnd[x \div 2, y \div 2] + (x % 2) * (y % 2)
BitOr(x, y) == x + y - BitAnd[x, y]

\* The digits of a number in a base; no leading zero.
RECURSIVE Numeral(_, _)
Numeral(n, base) == IF n < base THEN <<Digit[n + 1]>> ELSE Numeral(n \div base, base) \o <<Digit[(n % base) + 1]>>

-----------------------------------------------------------------------------
\* def.c and ip_addr.c.

lwip_htonl(n) == Reverse(n)
InMemory(n) == Reverse(n)

\* val * base + digit of a u32_t.
Push(val, base, d) ==
  LET b4 == val[4] * base + d
      b3 == val[3] * base + b4 \div 256
      b2 == val[2] * base + b3 \div 256
      b1 == val[1] * base + b2 \div 256
  IN  <<b1 % 256, b2 % 256, b3 % 256, b4 % 256>>

\* The inner loop of ipaddr_aton.
RECURSIVE Collect(_, _, _, _)
Collect(t, i, base, val) ==
  IF isdigit(Char(t, i)) \/ (base = 16 /\ isxdigit(Char(t, i)))
  THEN Collect(t, i + 1, base, Push(val, base, Value(t[i])))
  ELSE [val |-> val, next |-> i]

\* The outer loop: the numbers up to the end, at most four.
RECURSIVE Parts(_, _, _)
Parts(t, i, parts) ==
  IF ~isdigit(Char(t, i)) THEN None
  ELSE LET zero == <<0, 0, 0, 0>>
           n == CASE Char(t, i) # "0" -> Collect(t, i, 10, zero)
                  [] Char(t, i) = "0" /\ Char(t, i + 1) = "x" -> Collect(t, i + 2, 16, zero)
                  [] OTHER -> Collect(t, i + 1, 8, zero)
       IN  CASE Char(t, n.next) = "." ->
                  IF Len(parts) >= 3 THEN None ELSE Parts(t, n.next + 1, Append(parts, n.val))
             [] Char(t, n.next) \in {"nul", " "} -> Append(parts, n.val)
             [] OTHER -> None

\* A part is shifted to its byte; what does not fit runs into the bytes before
\* it, and off the end of the first.
ipaddr_aton(t) ==
  LET p == Parts(t, 1, <<>>)
  IN  IF p = None THEN None
      ELSE LET k == Len(p)
               v == p[k]
               Shifted(b) == \* byte b of the shifted parts together
                 LET Over(j) == IF j < k /\ j >= b /\ 4 - (j - b) >= 1 THEN p[j][4 - (j - b)] ELSE 0
                 IN  BitOr(Over(1), BitOr(Over(2), Over(3)))
           IN  IF \E b \in 1..(k - 1) : v[b] # 0 THEN None
               ELSE InMemory(lwip_htonl([b \in 1..4 |-> BitOr(v[b], Shifted(b))]))

ipaddr_ntoa(a) ==
  Numeral(a[1], 10) \o <<".">> \o Numeral(a[2], 10) \o <<".">> \o Numeral(a[3], 10) \o <<".">> \o Numeral(a[4], 10)

\* Bits of a mask, most significant first: a one never follows a zero.
ip4_addr_netmask_valid(m) ==
  LET bit(i) == (m[(i \div 8) + 1] \div (2 ^ (7 - (i % 8)))) % 2
      zeros == {i \in 0..31 : bit(i) = 0}
  IN  \A i, j \in 0..31 : i \in zeros /\ i < j => j \in zeros

ip4_addr_isbroadcast(a, ip, mask, flag) ==
  LET host(x) == [b \in 1..4 |-> BitAnd[x[b], 255 - mask[b]]]
      net(x) == [b \in 1..4 |-> BitAnd[x[b], mask[b]]]
      ones == <<255, 255, 255, 255>>
  IN  \/ a \in {ones, <<0, 0, 0, 0>>}
      \/ flag /\ a # ip /\ net(a) = net(ip) /\ host(a) = host(ones)

-----------------------------------------------------------------------------
\* inet_pton.c and inet_ntop.c.

RECURSIVE Pton4(_, _, _, _)
Pton4(t, i, tmp, saw_digit) ==
  CASE i > Len(t) -> IF Len(tmp) < 4 \/ (Len(tmp) = 4 /\ ~saw_digit) THEN None ELSE tmp
    [] isdigit(Char(t, i)) /\ saw_digit ->
         LET new == tmp[Len(tmp)] * 10 + Value(t[i])
         IN  IF new > 255 THEN None ELSE Pton4(t, i + 1, [tmp EXCEPT ![Len(tmp)] = new], TRUE)
    [] isdigit(Char(t, i)) /\ ~saw_digit ->
         IF Len(tmp) = 4 THEN None ELSE Pton4(t, i + 1, Append(tmp, Value(t[i])), TRUE)
    [] Char(t, i) = "." /\ saw_digit -> IF Len(tmp) = 4 THEN None ELSE Pton4(t, i + 1, tmp, FALSE)
    [] OTHER -> None

inet_pton4(t) == Pton4(t, 1, <<>>, FALSE)
inet_ntop4(a) == ipaddr_ntoa(a)   \* "%u.%u.%u.%u"

\* The loop of inet_pton6 with its variables; tp is the length of tmp.
RECURSIVE Pton6(_, _, _)
Pton6(t, i, s) ==
  LET Put(v) == s.tmp \o <<v \div 256, v % 256>>
      Ended(x) == \* the end: the last word, then the shift over the gap
        LET tmp == IF x.saw THEN x.tmp \o <<x.val \div 256, x.val % 256>> ELSE x.tmp
            zeros == [b \in 1..(16 - Len(tmp)) |-> 0]
        IN  CASE Len(tmp) > 16 -> None
              [] Len(tmp) <= 16 /\ x.colonp # None ->
                   SubSeq(tmp, 1, x.colonp) \o zeros \o SubSeq(tmp, x.colonp + 1, Len(tmp))
              [] OTHER -> IF Len(tmp) = 16 THEN tmp ELSE None
  IN  CASE i > Len(t) -> Ended(s)
        [] isxdigit(Char(t, i)) ->
             LET v == s.val * 16 + Value(t[i])
             IN  IF v > 65535 THEN None ELSE Pton6(t, i + 1, [s EXCEPT !.val = v, !.saw = TRUE])
        [] Char(t, i) = ":" /\ ~s.saw ->
             IF s.colonp # None THEN None
             ELSE Pton6(t, i + 1, [s EXCEPT !.colonp = Len(s.tmp), !.curtok = i + 1])
        [] Char(t, i) = ":" /\ s.saw ->
             IF Len(s.tmp) + 2 > 16 THEN None
             ELSE Pton6(t, i + 1, [s EXCEPT !.tmp = Put(s.val), !.saw = FALSE, !.val = 0, !.curtok = i + 1])
        [] Char(t, i) = "." ->
             LET v4 == inet_pton4(SubSeq(t, s.curtok, Len(t)))
             IN  IF Len(s.tmp) + 4 > 16 \/ v4 = None THEN None
                 ELSE Ended([s EXCEPT !.tmp = @ \o v4, !.saw = FALSE])
        [] OTHER -> None

inet_pton6(t) ==
  LET start == [tmp |-> <<>>, colonp |-> None, curtok |-> 1, saw |-> FALSE, val |-> 0]
  IN  CASE Char(t, 1) = ":" /\ Char(t, 2) # ":" -> None
        [] Char(t, 1) = ":" /\ Char(t, 2) = ":" -> Pton6(t, 2, [start EXCEPT !.curtok = 2])
        [] OTHER -> Pton6(t, 1, start)

\* The longest run of zero words, the first of them; None when shorter than two.
BestRun(w) ==
  LET Run(b, n) == b + n <= 8 /\ \A i \in b..(b + n - 1) : w[i + 1] = 0
      runs == {r \in [base : 0..7, len : 2..8] : Run(r.base, r.len)}
  IN  IF runs = {} THEN None
      ELSE CHOOSE r \in runs : \A q \in runs : r.len > q.len \/ (r.len = q.len /\ r.base <= q.base)

\* Word i and the words after it.
RECURSIVE Ntop6(_, _, _)
Ntop6(w, best, i) ==
  LET inside == best # None /\ i >= best.base /\ i < best.base + best.len
      sep == IF i # 0 THEN <<":">> ELSE <<>>
      v4 == i = 6 /\ best # None /\ best.base = 0 /\ (best.len = 6 \/ (best.len = 5 /\ w[6] = 65535))
  IN  CASE i = 8 -> IF best # None /\ best.base + best.len = 8 THEN <<":">> ELSE <<>>
        [] inside -> (IF i = best.base THEN <<":">> ELSE <<>>) \o Ntop6(w, best, i + 1)
        [] v4 -> sep \o inet_ntop4(<<w[7] \div 256, w[7] % 256, w[8] \div 256, w[8] % 256>>)
        [] OTHER -> sep \o Numeral(w[i + 1], 16) \o Ntop6(w, best, i + 1)

inet_ntop6(w) == Ntop6(w, BestRun(w), 0)

-----------------------------------------------------------------------------
\* netdb.c.  There is no name service: a name is an address or nothing.

netconn_gethostbyname(name) == ipaddr_aton(name)

\* atoi: the digits at the front.
RECURSIVE Atoi(_, _, _)
Atoi(t, i, n) == IF isdigit(Char(t, i)) THEN Atoi(t, i + 1, n * 10 + Value(t[i])) ELSE n

\* got: there is memory for the addrinfo.
lwip_getaddrinfo(name, service, got) ==
  LET port == IF service = None THEN 0 ELSE Atoi(service, 1, 0)
      a == IF name = None THEN <<127, 0, 0, 1>> ELSE netconn_gethostbyname(name)
  IN  CASE name = None /\ service = None -> [err |-> "EAI_NONAME"]
        [] service # None /\ (port <= 0 \/ port > 65535) -> [err |-> "EAI_SERVICE"]
        [] name # None /\ a = None -> [err |-> "EAI_FAIL"]
        [] OTHER -> IF got THEN [err |-> "ok", addr |-> a, port |-> port] ELSE [err |-> "EAI_MEMORY"]

lwip_gethostbyname(name) ==
  LET a == netconn_gethostbyname(name)
  IN  IF a = None THEN [err |-> "HOST_NOT_FOUND"] ELSE [err |-> "ok", addr |-> a]

lwip_gethostbyname_r(name, len) ==
  CASE name = None -> [err |-> "EINVAL"]
    [] name # None /\ len < Room + Len(name) + 1 -> [err |-> "ERANGE"]
    [] OTHER -> lwip_gethostbyname(name)

-----------------------------------------------------------------------------
TextInit ==
  /\ asked \in    [op : {"print"}, addr : Addresses]
              \cup [op : {"mask"}, addr : Addresses, mask : Addresses]
              \cup [op : {"read"}, text : Texts]
              \cup [op : {"print6"}, words : Words]
              \cup [op : {"resolve"}, text : Texts \cup {None}, serv : Services \cup {None}, buflen : Storage]
  /\ res = None

\* An address is printed, and its text read again.
PrintAddress ==
  /\ res = None /\ asked.op = "print"
  /\ LET t == ipaddr_ntoa(asked.addr) IN res' = [aton |-> ipaddr_aton(t), pton |-> inet_pton4(inet_ntop4(asked.addr))]
  /\ UNCHANGED asked

\* An address is tested against an interface with address 10.7.0.10.
TestMask ==
  /\ res = None /\ asked.op = "mask"
  /\ \E flag \in BOOLEAN :
       res' = [valid |-> ip4_addr_netmask_valid(asked.mask), flag |-> flag,
               broadcast |-> ip4_addr_isbroadcast(asked.addr, <<10, 7, 0, 10>>, asked.mask, flag)]
  /\ UNCHANGED asked

ReadAddress ==
  /\ res = None /\ asked.op = "read"
  /\ res' = [aton |-> ipaddr_aton(asked.text), pton |-> inet_pton4(asked.text)]
  /\ UNCHANGED asked

PrintAddress6 ==
  /\ res = None /\ asked.op = "print6"
  /\ res' = inet_pton6(inet_ntop6(asked.words))
  /\ UNCHANGED asked

Resolve ==
  /\ res = None /\ asked.op = "resolve"
  /\ \E got \in BOOLEAN :
       res' = [info |-> lwip_getaddrinfo(asked.text, asked.serv, got),
               host |-> lwip_gethostbyname_r(asked.text, asked.buflen)]
  /\ UNCHANGED asked

TextNext == PrintAddress \/ TestMask \/ ReadAddress \/ PrintAddress6 \/ Resolve

TextSpec == TextInit /\ [][TextNext]_textVars

-----------------------------------------------------------------------------
\* What a dotted quad is: three dots, and numerals of at most 255 between them.
Dots(t) == SetToSortSeq({i \in DOMAIN t : t[i] = "."}, <)
Field(t, k) == LET d == <<0>> \o Dots(t) \o <<Len(t) + 1>> IN SubSeq(t, d[k] + 1, d[k + 1] - 1)
IsNumeral(f) == f # <<>> /\ \A i \in DOMAIN f : isdigit(f[i])
Decimal(f) == FoldLeft(LAMBDA n, c : n * 10 + Value(c), 0, f)
DottedQuad(t) ==
  Len(Dots(t)) = 3 /\ \A k \in 1..4 : IsNumeral(Field(t, k)) /\ Decimal(Field(t, k)) <= 255
Quad(t) == [k \in 1..4 |-> Decimal(Field(t, k))]
\* The mask of a prefix of n bits, and the last address of a network.
Prefix(n) == [b \in 1..4 |-> LET k == n - 8 * (b - 1) IN CASE k <= 0 -> 0 [] k >= 8 -> 255 [] OTHER -> 256 - 2 ^ (8 - k)]
Highest(ip, mask) == [b \in 1..4 |-> ip[b] - BitAnd[ip[b], 255 - mask[b]] + (255 - mask[b])]
Plain(t) == \A k \in 1..4 : Len(Field(t, k)) = 1 \/ Field(t, k)[1] # "0"

\* An address that was printed (ipaddr_ntoa_r, inet_ntop) reads back as itself,
\* in both families; inet_pton4 takes the dotted quads and nothing else;
\* ipaddr_aton takes every dotted quad without leading zeros for the same
\* address, and a text of fewer numbers only when its last one fits the bytes
\* left for it; the valid masks are the prefixes, and the broadcast address of
\* a network is its last one; getaddrinfo and gethostbyname_r answer with what the text says,
\* and gethostbyname_r never with a buffer that cannot hold the name.
AddressesRight ==
  res # None =>
    CASE asked.op = "print" -> res.aton = asked.addr /\ res.pton = asked.addr
      [] asked.op = "mask" ->
           /\ res.valid <=> \E n \in 0..32 : asked.mask = Prefix(n)
           /\ res.broadcast <=> \/ asked.addr \in {<<0, 0, 0, 0>>, <<255, 255, 255, 255>>}
                              \/ /\ res.flag /\ asked.addr # <<10, 7, 0, 10>>
                                 /\ asked.addr = Highest(<<10, 7, 0, 10>>, asked.mask)
      [] asked.op = "print6" ->
           res = [b \in 1..16 |-> LET w == asked.words[(b + 1) \div 2] IN IF b % 2 = 1 THEN w \div 256 ELSE w % 256]
      [] asked.op = "read" ->
           /\ res.pton = IF DottedQuad(asked.text) THEN Quad(asked.text) ELSE None
           /\ DottedQuad(asked.text) /\ Plain(asked.text) => res.aton = Quad(asked.text)
           /\ /\ Len(Dots(asked.text)) = 3 /\ \A k \in 1..4 : IsNumeral(Field(asked.text, k))
              /\ Field(asked.text, 4)[1] # "0"
              /\ Decimal(Field(asked.text, 4)) > 255
              => res.aton = None
      [] OTHER ->
           /\ res.info.err = "ok" =>
                /\ asked.text # None => res.info.addr = ipaddr_aton(asked.text) /\ res.info.addr # None
                /\ asked.serv # None => res.info.port \in 1..65535
           /\ res.host.err = "ok" => asked.buflen > Len(asked.text) + Room /\ res.host.addr # None
=============================================================================
