-------------------------------- MODULE IOBuf --------------------------------
(***************************************************************************)
(* Buffer descriptors and their chains: IOBuf.h/.cc with the owners of the *)
(* bytes, UniqueIOBuf, SharedIOBufRef and IOBufRef, and the DataPointer    *)
(* that reads across a chain.                                              *)
(*                                                                         *)
(* m is the memory of the descriptors: the ring pointers next and prev,    *)
(* the view data and len (data counts from the start of the bytes), live,  *)
(* root, the descriptor whose bytes these are, and hold, the descriptor    *)
(* that a SharedIOBufRef keeps alive through its shared_ptr.  owned are    *)
(* the heads some unique_ptr of the program points to; chain, a history    *)
(* variable, is the chain of each as the caller means it.                  *)
(***************************************************************************)
EXTENDS Integers, Sequences, FiniteSets, SequencesExt

CONSTANTS Bufs, Capacity, None

VARIABLES m, owned, chain
bufVars == <<m, owned, chain>>

\* A descriptor of its own ring; new IOBuf(data, length) sees all its bytes.
New(mm, b, root, hold) ==
  [mm EXCEPT !.next[b] = b, !.prev[b] = b, !.data[b] = 0, !.len[b] = Capacity,
             !.live = @ \cup {b}, !.root[b] = root, !.hold[b] = hold]

SetView(mm, b, other) == [mm EXCEPT !.data[b] = mm.data[other], !.len[b] = mm.len[other]]

Advance(mm, b, amount) == [mm EXCEPT !.data[b] = @ + amount, !.len[b] = @ - amount]
Retreat(mm, b, amount) == [mm EXCEPT !.data[b] = @ - amount, !.len[b] = @ + amount]
TrimEnd(mm, b, amount) == [mm EXCEPT !.len[b] = @ - amount]

\* begin() to end(): once around the ring.
RECURSIVE Ring(_, _, _)
Ring(mm, this, pos) == <<pos>> \o (IF mm.next[pos] = this THEN <<>> ELSE Ring(mm, this, mm.next[pos]))
Elements(mm, this) == Ring(mm, this, this)
ComputeChainDataLength(mm, this) == FoldLeft(LAMBDA n, b : n + mm.len[b], 0, Elements(mm, this))

AdvanceChain(mm, this, amount) ==
  FoldLeft(LAMBDA a, b : LET n == IF a.mm.len[b] < a.left THEN a.mm.len[b] ELSE a.left
                         IN  [mm |-> Advance(a.mm, b, n), left |-> a.left - n],
           [mm |-> mm, left |-> amount], Elements(mm, this)).mm

\* Seeded fault: the other chain's head keeps its tail as the one before it.
PrependChainLoose(mm, this, other) ==
  LET other_tail == mm.prev[other]
  IN  [mm EXCEPT !.next[mm.prev[this]] = other, !.next[other_tail] = this, !.prev[this] = other_tail]

PrependChain(mm, this, other) ==
  LET other_tail == mm.prev[other]
      attached == [mm EXCEPT !.next[mm.prev[this]] = other, !.prev[other] = mm.prev[this]]
  IN  [attached EXCEPT !.next[other_tail] = this, !.prev[this] = other_tail]

AppendChain(mm, this, other) == PrependChain(mm, mm.next[this], other)

Unlink(mm, this) ==
  LET out == [mm EXCEPT !.prev[mm.next[this]] = mm.prev[this], !.next[mm.prev[this]] = mm.next[this]]
  IN  [out EXCEPT !.prev[this] = this, !.next[this] = this]

UnlinkEnd(mm, this, end) ==
  LET new_end == mm.prev[end]
      last == mm.prev[this]
      m1 == [mm EXCEPT !.prev[end] = last]
      m2 == IF m1.next[end] = this THEN [m1 EXCEPT !.next[end] = end] ELSE m1
      m3 == [m2 EXCEPT !.next[last] = end]
      m4 == [m3 EXCEPT !.prev[this] = new_end]
  IN  [m4 EXCEPT !.next[new_end] = this]

\* The descriptor goes, and with the last SharedIOBufRef the one it shares.
RECURSIVE Delete(_, _)
Delete(mm, this) ==
  IF mm.next[this] # this
  THEN Delete(Delete(Unlink(mm, mm.next[this]), mm.next[this]), this)
  ELSE LET gone == [mm EXCEPT !.live = @ \ {this}, !.hold[this] = None]
           kept == mm.hold[this]
       IN  IF kept # None /\ ~\E b \in gone.live : gone.hold[b] = kept THEN Delete(gone, kept) ELSE gone

-----------------------------------------------------------------------------
\* IOBuf::DataPointer [p |-> p_, offset |-> offset_].

RECURSIVE SkipEmpty(_, _)
SkipEmpty(mm, p) == IF mm.len[p] = 0 THEN SkipEmpty(mm, mm.next[p]) ELSE p

DataPointer(mm, this) == [p |-> SkipEmpty(mm, this), offset |-> 0]

\* len bytes from offset of p on; a byte is its place in the root's memory.
RECURSIVE Copy(_, _, _, _)
Copy(mm, p, offset, len) ==
  IF len = 0 THEN <<>>
  ELSE LET rest == mm.len[p] - offset
           remainder == IF rest < len THEN rest ELSE len
           at == mm.data[p] + offset
       IN  [i \in 1..remainder |-> <<mm.root[p], at + i>>] \o Copy(mm, mm.next[p], 0, len - remainder)

GetNoAdvance(mm, dp, size) ==
  IF mm.len[dp.p] - dp.offset < size THEN Copy(mm, dp.p, dp.offset, size)
  ELSE [i \in 1..size |-> <<mm.root[dp.p], mm.data[dp.p] + dp.offset + i>>]

RECURSIVE AdvancePointer(_, _, _)
AdvancePointer(mm, dp, size) ==
  LET remainder == mm.len[dp.p] - dp.offset
  IN  CASE size = 0 -> [dp EXCEPT !.p = SkipEmpty(mm, @)]
        [] size > 0 /\ remainder > size -> [dp EXCEPT !.offset = @ + size]
        [] OTHER -> AdvancePointer(mm, [p |-> mm.next[dp.p], offset |-> 0], size - remainder)

\* MutDataPointer::Get refuses what straddles buffers.
MutGet(mm, dp, size) ==
  IF mm.len[dp.p] - dp.offset < size THEN None ELSE [i \in 1..size |-> <<mm.root[dp.p], mm.data[dp.p] + dp.offset + i>>]

-----------------------------------------------------------------------------
\* What a program does with the chains it owns.

BufInit ==
  LET all(v) == [b \in Bufs |-> v]
  IN  /\ m = [next |-> [b \in Bufs |-> b], prev |-> [b \in Bufs |-> b], data |-> all(0), len |-> all(0),
              live |-> {}, root |-> [b \in Bufs |-> b], hold |-> all(None)]
      /\ owned = {} /\ chain = all(<<>>)

Fresh == {b \in Bufs : b \notin m.live /\ \A c \in m.live : m.root[c] # b}
Owns(h, x) == h \in owned /\ x \in Range(chain[h])
Insert(c, at, d) == SubSeq(c, 1, at) \o d \o SubSeq(c, at + 1, Len(c))
At(c, x) == CHOOSE i \in DOMAIN c : c[i] = x

\* MakeUniqueIOBuf.
MakeUnique(b) ==
  /\ b \in Fresh
  /\ m' = New(m, b, b, None) /\ owned' = owned \cup {b} /\ chain' = [chain EXCEPT ![b] = <<b>>]

\* IOBuf::Create<SharedIOBufRef>(CloneView, std::move(buf)).
Share(b, h) ==
  /\ b \in Fresh /\ h \in owned
  /\ m' = SetView(New(m, b, m.root[h], h), b, h)
  /\ owned' = (owned \ {h}) \cup {b} /\ chain' = [chain EXCEPT ![b] = <<b>>, ![h] = <<>>]

\* IOBuf::Create<SharedIOBufRef>(CloneView, *ref): one more share.
ShareAgain(b, r) ==
  /\ b \in Fresh /\ (\E h \in owned : Owns(h, r)) /\ m.hold[r] # None
  /\ m' = SetView(New(m, b, m.root[r], m.hold[r]), b, r)
  /\ owned' = owned \cup {b} /\ chain' = [chain EXCEPT ![b] = <<b>>]

\* CreateRef: a view of somebody else's bytes that keeps nothing alive.
CreateRef(mm, b, of) ==
  LET n == New(mm, b, mm.root[of], None)
      a == Advance(n, b, mm.data[of])
  IN  TrimEnd(a, b, a.len[b] - mm.len[of])

\* CreateRefChain(*h): a chain of references in the order of the chain.
CreateRefChain(bs, h) ==
  /\ h \in owned /\ Len(bs) = Len(chain[h]) /\ IsInjective(bs) /\ Range(bs) \subseteq Fresh
  /\ m' = FoldLeft(LAMBDA mm, i : PrependChain(CreateRef(mm, bs[i], Elements(m, h)[i]), bs[1], bs[i]),
                   CreateRef(m, bs[1], h), [i \in 1..(Len(bs) - 1) |-> i + 1])
  /\ owned' = owned \cup {bs[1]} /\ chain' = [chain EXCEPT ![bs[1]] = bs]

\* Advance, Retreat, TrimEnd within their assertions, AdvanceChain.
Move(h, x, amount) ==
  /\ Owns(h, x) /\ amount > 0
  /\ \/ m.len[x] >= amount /\ m' = Advance(m, x, amount)
     \/ m.data[x] >= amount /\ m' = Retreat(m, x, amount)
     \/ m.len[x] >= amount /\ m' = TrimEnd(m, x, amount)
     \/ x = h /\ ComputeChainDataLength(m, h) >= amount /\ m' = AdvanceChain(m, h, amount)
  /\ UNCHANGED <<owned, chain>>

Prepend(h, x, o) ==
  /\ Owns(h, x) /\ o \in owned \ {h}
  /\ m' = PrependChain(m, x, o) /\ owned' = owned \ {o}
  /\ LET at == IF x = h THEN Len(chain[h]) ELSE At(chain[h], x) - 1
     IN  chain' = [chain EXCEPT ![h] = Insert(@, at, chain[o]), ![o] = <<>>]

AppendTo(h, x, o) ==
  /\ Owns(h, x) /\ o \in owned \ {h}
  /\ m' = AppendChain(m, x, o) /\ owned' = owned \ {o}
  /\ chain' = [chain EXCEPT ![h] = Insert(@, At(@, x), chain[o]), ![o] = <<>>]

\* Unlink, not of the head of a chain that is owned already.
TakeOut(h, x) ==
  /\ Owns(h, x) /\ x # h
  /\ m' = Unlink(m, x) /\ owned' = owned \cup {x}
  /\ chain' = [chain EXCEPT ![h] = SelectSeq(@, LAMBDA b : b # x), ![x] = <<x>>]

TakeEnd(h, x) ==
  /\ Owns(h, x) /\ x # h
  /\ m' = UnlinkEnd(m, h, x) /\ owned' = owned \cup {x}
  /\ LET at == At(chain[h], x)
     IN  chain' = [chain EXCEPT ![h] = SubSeq(@, 1, at - 1), ![x] = SubSeq(chain[h], at, Len(chain[h]))]

\* Pop: the head stays with its owner, what followed it is returned.
Pop(h) ==
  /\ h \in owned /\ m.next[h] # h
  /\ m' = Unlink(m, h) /\ owned' = owned \cup {m.next[h]}
  /\ chain' = [chain EXCEPT ![h] = <<h>>, ![chain[h][2]] = Tail(chain[h])]

Drop(h) ==
  /\ h \in owned
  /\ m' = Delete(m, h) /\ owned' = owned \ {h} /\ chain' = [chain EXCEPT ![h] = <<>>]

BufNext ==
  \/ \E b \in Bufs : MakeUnique(b) \/ Pop(b) \/ Drop(b)
  \/ \E b, h \in Bufs : Share(b, h) \/ ShareAgain(b, h) \/ TakeOut(b, h) \/ TakeEnd(b, h)
  \/ \E n \in 1..2 : \E bs \in [1..n -> Bufs], h \in Bufs : CreateRefChain(bs, h)
  \/ \E h, x \in Bufs, amount \in 1..Capacity : Move(h, x, amount)
  \/ \E h, x, o \in Bufs : Prepend(h, x, o) \/ AppendTo(h, x, o)

BufSpec == BufInit /\ [][BufNext]_bufVars

-----------------------------------------------------------------------------
Flat(mm, h) == FlattenSeq([i \in DOMAIN Elements(mm, h) |-> LET b == Elements(mm, h)[i]
                                              IN [k \in 1..mm.len[b] |-> <<mm.root[b], mm.data[b] + k>>]])
Held == {m.hold[b] : b \in m.live} \ {None}
InHand == UNION {Range(chain[h]) : h \in owned}
Behind == UNION {Range(Elements(m, k)) : k \in Held}

\* The ring of every head some unique_ptr owns is the chain its owner means, in
\* both directions; a descriptor is in one chain or behind one shared_ptr, alive
\* exactly as long as one of them is there, so nothing is freed twice or leaked;
\* every view is inside the bytes, and the bytes behind a SharedIOBufRef live.
\* Reading the chain in two pieces through a DataPointer, and advancing it,
\* gives the bytes of the chain in order.
ChainsRight ==
  /\ \A h \in owned :
       LET e == Elements(m, h)
       IN  /\ e = chain[h]
           /\ \A i \in DOMAIN e : m.prev[e[i]] = e[IF i = 1 THEN Len(e) ELSE i - 1]
  /\ m.live = InHand \cup Behind
  /\ \A h, g \in owned \cup Held : h # g => Range(Elements(m, h)) \cap Range(Elements(m, g)) = {}
  /\ \A b \in m.live : /\ m.data[b] >= 0 /\ m.len[b] >= 0 /\ m.data[b] + m.len[b] <= Capacity
                       /\ m.hold[b] # None => m.hold[b] \in m.live
  /\ \A h \in owned :
       LET bytes == Flat(m, h)
           n == Len(bytes)
           dp == DataPointer(m, h)
       IN  /\ \A k \in 0..n : Flat(AdvanceChain(m, h, k), h) = SubSeq(bytes, k + 1, n)
           /\ n > 0 => \A j \in 0..n, k \in 0..n :
                j + k <= n => /\ GetNoAdvance(m, dp, j) = SubSeq(bytes, 1, j)
                              /\ j < n => GetNoAdvance(m, AdvancePointer(m, dp, j), k) = SubSeq(bytes, j + 1, j + k)
                              /\ j < n => MutGet(m, AdvancePointer(m, dp, j), k) \in {None, SubSeq(bytes, j + 1, j + k)}
=============================================================================
