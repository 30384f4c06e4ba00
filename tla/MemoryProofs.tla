---------------------------- MODULE MemoryProofs ----------------------------
(***************************************************************************)
(* Virtual memory (VMemAllocator), and the barrier at which the cores meet *)
(* while memory is set up (SpinBarrier).                                   *)
(***************************************************************************)
EXTENDS VMemAllocator, SpinBarrier, SeqFacts, FiniteSetTheorems

(***************************************************************************)
(* VMemAllocator: FaultsFindHandler holds in any range, for any requests   *)
(* and alignments, on any number of cores.                                 *)
(*                                                                         *)
(* regions_ may hold regions that overlap, so the argument cannot be that  *)
(* they do not.  It is about where regions begin: none begins inside a     *)
(* free region (FreeApart) or inside the pages that a request was given    *)
(* (GivenApart), and that is enough for lower_bound to find the region of  *)
(* a page.  Each form of Alloc takes its pages out of a free region and    *)
(* enters what is left at most once (Takes).  Frames are apart because a   *)
(* frame is behind a page as soon as a handler holds it, before any core   *)
(* has mapped it (Backs).                                                  *)
(***************************************************************************)
\* What an entry of the map of regions is.
RegionTypes ==
  /\ DOMAIN regions \in SUBSET (RangeStart .. RangeEnd)
  /\ regions = [s \in DOMAIN regions |-> regions[s]]
  /\ \A s \in DOMAIN regions :
       /\ regions[s] = Region(regions[s].end, regions[s].allocated, regions[s].handler)
       /\ regions[s].end \in Int /\ regions[s].allocated \in BOOLEAN

\* A free region lies in the range, and no other region begins in it.
FreeApart ==
  \A t \in DOMAIN regions : ~regions[t].allocated =>
    regions[t].end <= RangeEnd /\ \A s \in DOMAIN regions : ~(t < s /\ s < regions[t].end)

\* What was handed out is an allocated region that is long enough, and no other
\* region begins in it.
GivenApart ==
  /\ DOMAIN given \subseteq DOMAIN regions
  /\ given = [s \in DOMAIN given |-> given[s]]
  /\ \A s \in DOMAIN given :
       /\ given[s].n \in Nat
       /\ regions[s].allocated /\ regions[s].handler = given[s].handler
       /\ s + given[s].n <= regions[s].end /\ s + given[s].n <= RangeEnd
       /\ \A t \in DOMAIN regions : ~(s < t /\ t < s + given[s].n)

\* Page p belongs to the request that was answered with s.
Within(p, s) == s <= p /\ p < s + given[s].n

\* Frame f backs page p: a page table maps it, or a handler will.
Mapped(c, p, f) == f # 0 /\ pt[c][p] = f
Handled(p, f) ==
  \E s \in DOMAIN given : given[s].handler # NoHandler /\ Within(p, s) /\ given[s].handler[p - s] = f
Backs(p, f) == Handled(p, f) \/ \E c \in Core : Mapped(c, p, f)

FramesApart ==
  /\ frames \in Nat /\ pt \in [Core -> [Page -> Nat]]
  /\ \A c \in Core, p \in Page : pt[c][p] # 0 => \E s \in DOMAIN given : Within(p, s)
  /\ \A p \in Page : \A f : Backs(p, f) => f \in 1 .. frames
  /\ \A p, q \in Page : \A f : Backs(p, f) /\ Backs(q, f) => p = q
  /\ \A p \in Page : \A f, g : Backs(p, f) /\ Backs(p, g) => f = g

RegionInv == RegionTypes /\ FreeApart /\ GivenApart
VMemInv == RegionInv /\ FramesApart

-----------------------------------------------------------------------------
\* The loop over regions_ in descending order stops at a region that fits, if one
\* does.
LEMMA FirstFits ==
  ASSUME VMemConstants, NEW F \in SUBSET (RangeStart .. RangeEnd), NEW s \in FirstFit(F)
  PROVE  s \in F
  <1>1. F # {} /\ s = Max(F)
    BY Zenon DEF FirstFit
  <1> DEFINE D == {RangeEnd - t : t \in F}
  <1>2. D \in SUBSET Nat /\ D # {}
    <2>1. \A t \in F : RangeEnd - t \in Nat
      BY DEF VMemConstants
    <2> QED BY <1>1, <2>1, Zenon
  <1>3. PICK m \in D : \A k \in D : m <= k
    BY <1>2, FirstNumber, Zenon
  <1>4. PICK t \in F : m = RangeEnd - t
    BY <1>3, Zenon
  <1>5. \A u \in F : t >= u
    <2> TAKE u \in F
    <2>1. m <= RangeEnd - u
      BY <1>3, Zenon
    <2> QED BY <2>1, <1>4 DEF VMemConstants
  <1> QED BY <1>1, <1>4, <1>5, Zenon DEF Max

\* The first address that is looked at is not past the end of the region.
LEMMA AlignDown ==
  ASSUME NEW x \in Int, NEW a \in Nat \ {0}
  PROVE  (x \div a) * a \in Int /\ (x \div a) * a <= x
  OBVIOUS

\* The greatest region that begins at p or before, when it is known.
LEMMA LookupIs ==
  ASSUME RegionTypes, VMemConstants, NEW s \in DOMAIN regions, NEW p \in Int, s <= p,
         \A t \in DOMAIN regions : ~(s < t /\ t <= p)
  PROVE  Lookup(p) = s
  <1> DEFINE F == {t \in DOMAIN regions : t <= p}
  <1>1. F \subseteq Int /\ s \in F /\ \A t \in F : s >= t
    BY DEF RegionTypes, VMemConstants
  <1>2. \A x \in F : (\A y \in F : x >= y) => x = s
    BY <1>1
  <1>3. Max(F) = s
    BY <1>1, <1>2, Zenon DEF Max
  <1> QED BY <1>3, Zenon DEF Lookup

-----------------------------------------------------------------------------
(* What the forms of Alloc have in common.                                  *)

\* n pages from ret on are taken out of the free region s; what is left behind them,
\* if anything is kept, begins at u.
Takes(s, ret, n, h, U) ==
  LET end == regions[s].end IN
  /\ s \in DOMAIN regions /\ ~regions[s].allocated
  /\ n \in Nat \ {0} /\ ret \in Int /\ s <= ret /\ ret + n <= end
  /\ \A u, v \in U : u = v
  /\ \A u \in U : u \in Int /\ ret + n <= u /\ u < end
  /\ DOMAIN regions' = DOMAIN regions \cup {ret} \cup U
  /\ regions' = [t \in DOMAIN regions' |-> regions'[t]]
  /\ \E e \in Int : e >= ret + n /\ regions'[ret] = Region(e, TRUE, h)
  /\ s # ret => regions'[s] = Region(ret, FALSE, regions[s].handler)
  /\ \A u \in U : regions'[u] = Region(end, FALSE, NoHandler)
  /\ \A t \in DOMAIN regions \ {s} : regions'[t] = regions[t]
  /\ given' = Insert(given, ret, [n |-> n, handler |-> h])

\* What the caller gets: n pages from ret on that nobody had, in a map of regions that
\* is as it has to be.
Gives(ret, n, h) ==
  /\ RegionInv'
  /\ ret \notin DOMAIN given /\ DOMAIN given' = DOMAIN given \cup {ret}
  /\ given'[ret] = [n |-> n, handler |-> h]
  /\ \A t \in DOMAIN given : given'[t] = given[t]
  /\ RangeStart <= ret /\ ret + n <= RangeEnd
  /\ \A t \in DOMAIN given : t + given[t].n <= ret \/ ret + n <= t

\* Taking pages out of a free region leaves the regions as they have to be.
LEMMA TakesKeeps ==
  ASSUME VMemConstants, RegionInv, NEW s, NEW ret, NEW n, NEW h, NEW U, Takes(s, ret, n, h, U)
  PROVE  Gives(ret, n, h)
  <1> DEFINE end == regions[s].end
  <1>1. /\ s \in DOMAIN regions /\ ~regions[s].allocated /\ n \in Nat \ {0} /\ ret \in Int
        /\ s <= ret /\ ret + n <= end /\ end \in Int /\ s \in Int /\ end <= RangeEnd /\ RangeStart <= s
    BY DEF RegionInv, RegionTypes, FreeApart, Takes, VMemConstants
  <1>2. \A t \in DOMAIN regions : t \in Int /\ ~(s < t /\ t < end)
    BY <1>1 DEF RegionInv, RegionTypes, FreeApart, VMemConstants
  <1>3. s \notin DOMAIN given /\ ret \notin DOMAIN given
    <2>1. s \notin DOMAIN given /\ DOMAIN given \subseteq DOMAIN regions
      BY <1>1, Zenon DEF RegionInv, GivenApart
    <2> QED BY <1>1, <1>2, <2>1
  <1>4. /\ DOMAIN given' = DOMAIN given \cup {ret} /\ given'[ret] = [n |-> n, handler |-> h]
        /\ given' = [t \in DOMAIN given' |-> given'[t]]
        /\ \A t \in DOMAIN given : given'[t] = given[t]
    BY <1>3, Zenon DEF Takes, Insert
  <1>5. \A t \in DOMAIN given : t + given[t].n <= ret \/ ret + n <= t
    <2> TAKE t \in DOMAIN given
    <2>1. t \in DOMAIN regions /\ given[t].n \in Nat /\ ~(t < s /\ s < t + given[t].n)
      BY <1>1, Zenon DEF RegionInv, GivenApart
    <2> QED BY <1>1, <1>2, <1>3, <2>1
  <1>6. \A u \in U : u \in Int /\ ret + n <= u /\ u < end
    BY Zenon DEF Takes
  <1>7. DOMAIN regions' = DOMAIN regions \cup {ret} \cup U
    BY Zenon DEF Takes
  <1>8. PICK e \in Int : e >= ret + n /\ regions'[ret] = Region(e, TRUE, h)
    BY Zenon DEF Takes
  <1>9. /\ s # ret => regions'[s] = Region(ret, FALSE, regions[s].handler)
        /\ \A u \in U : regions'[u] = Region(end, FALSE, NoHandler)
        /\ \A t \in DOMAIN regions \ {s} : regions'[t] = regions[t]
    BY Zenon DEF Takes
  <1>10. RegionTypes'
    <2>1. DOMAIN regions' \in SUBSET (RangeStart .. RangeEnd)
      <3>1. DOMAIN regions \in SUBSET (RangeStart .. RangeEnd)
        BY Zenon DEF RegionInv, RegionTypes
      <3> QED BY <1>1, <1>6, <1>7, <3>1 DEF VMemConstants
    <2>2. regions' = [t \in DOMAIN regions' |-> regions'[t]]
      BY Zenon DEF Takes
    <2>3. ASSUME NEW t \in DOMAIN regions'
          PROVE  /\ regions'[t] = Region(regions'[t].end, regions'[t].allocated, regions'[t].handler)
                 /\ regions'[t].end \in Int /\ regions'[t].allocated \in BOOLEAN
      <3>1. CASE t = ret
        BY <3>1, <1>8 DEF Region
      <3>2. CASE t # ret /\ t = s
        <4>1. regions'[t] = Region(ret, FALSE, regions[s].handler)
          BY <3>2, <1>9, Zenon
        <4> QED BY <4>1, <1>1 DEF Region
      <3>3. CASE t \in U
        <4>1. regions'[t] = Region(end, FALSE, NoHandler) /\ end \in Int
          BY <3>3, <1>1, <1>9, Zenon
        <4> HIDE DEF end
        <4> QED BY <4>1 DEF Region
      <3>4. CASE t # s /\ t \in DOMAIN regions
        BY <3>4, <1>9, Zenon DEF RegionInv, RegionTypes
      <3> QED BY <1>7, <3>1, <3>2, <3>3, <3>4, Zenon
    <2> QED BY <2>1, <2>2, <2>3, Zenon DEF RegionTypes
  <1>11. FreeApart'
    <2> SUFFICES ASSUME NEW t \in DOMAIN regions', ~regions'[t].allocated
                 PROVE  regions'[t].end <= RangeEnd /\ \A r \in DOMAIN regions' : ~(t < r /\ r < regions'[t].end)
      BY Zenon DEF FreeApart
    <2>1. t # ret
      BY <1>8 DEF Region
    <2>2. CASE t = s
      <3>1. regions'[t].end = ret
        BY <2>1, <2>2, <1>9 DEF Region
      <3> QED BY <2>2, <3>1, <1>1, <1>2, <1>6, <1>7 DEF VMemConstants
    <2>3. CASE t \in U
      <3>1. regions'[t].end = end
        BY <2>3, <1>9 DEF Region
      <3>2. U \subseteq {t}
        BY <2>3, Zenon DEF Takes
      <3> QED BY <2>3, <3>1, <3>2, <1>1, <1>2, <1>6, <1>7
    <2>4. CASE t # s /\ t \in DOMAIN regions
      <3>1. /\ regions'[t] = regions[t] /\ regions[t].end <= RangeEnd
            /\ \A r \in DOMAIN regions : ~(t < r /\ r < regions[t].end)
        BY <2>4, <1>9, Zenon DEF RegionInv, FreeApart
      <3>2. t \in Int /\ regions[t].end \in Int
        BY <2>4, <1>2, Zenon DEF RegionInv, RegionTypes
      <3>3. regions[t].end <= s \/ end <= t
        BY <2>4, <3>1, <3>2, <1>1, <1>2
      <3> QED BY <2>4, <3>1, <3>2, <3>3, <1>1, <1>6, <1>7
    <2> QED BY <1>7, <2>1, <2>2, <2>3, <2>4, Zenon
  <1>12. GivenApart'
    <2>1. DOMAIN given' \subseteq DOMAIN regions'
      BY <1>4, <1>7, Zenon DEF RegionInv, GivenApart
    <2>2. ASSUME NEW t \in DOMAIN given'
          PROVE  /\ given'[t].n \in Nat
                 /\ regions'[t].allocated /\ regions'[t].handler = given'[t].handler
                 /\ t + given'[t].n <= regions'[t].end /\ t + given'[t].n <= RangeEnd
                 /\ \A r \in DOMAIN regions' : ~(t < r /\ r < t + given'[t].n)
      <3>1. CASE t = ret
        <4>1. given'[t].n = n /\ given'[t].handler = h
          BY <3>1, <1>4
        <4>2. regions'[t].allocated /\ regions'[t].handler = h /\ t + n <= regions'[t].end
          BY <3>1, <1>1, <1>8 DEF Region
        <4>3. t + n <= RangeEnd
          BY <3>1, <1>1 DEF VMemConstants
        <4>4. \A r \in DOMAIN regions' : ~(t < r /\ r < t + n)
          BY <3>1, <1>1, <1>2, <1>6, <1>7
        <4> QED BY <4>1, <4>2, <4>3, <4>4, <1>1, Zenon
      <3>2. CASE t # ret
        <4>1. /\ t \in DOMAIN given /\ t # s /\ t \in DOMAIN regions
              /\ given'[t] = given[t] /\ regions'[t] = regions[t]
          BY <3>2, <1>3, <1>4, <1>9, Zenon DEF RegionInv, GivenApart
        <4>2. /\ given[t].n \in Nat /\ regions[t].allocated /\ regions[t].handler = given[t].handler
              /\ t + given[t].n <= regions[t].end /\ t + given[t].n <= RangeEnd
              /\ \A r \in DOMAIN regions : ~(t < r /\ r < t + given[t].n)
          BY <4>1, Zenon DEF RegionInv, GivenApart
        <4>3. ~(t < ret /\ ret < t + given[t].n) /\ \A u \in U : ~(t < u /\ u < t + given[t].n)
          <5>1. t \in Int /\ (t + given[t].n <= s \/ end <= t)
            BY <4>1, <4>2, <1>1, <1>2
          <5> QED BY <5>1, <4>2, <1>1, <1>6
        <4> QED BY <4>1, <4>2, <4>3, <1>7, Zenon
      <3> QED BY <3>1, <3>2, Zenon
    <2> QED BY <2>1, <2>2, <1>4, Zenon DEF GivenApart
  <1> QED BY <1>1, <1>3, <1>4, <1>5, <1>10, <1>11, <1>12 DEF RegionInv, VMemConstants, Gives

\* std::map::emplace of a key that is not there.
LEMMA InsertNew ==
  ASSUME NEW R, NEW s, s \notin DOMAIN R, NEW r
  PROVE  /\ DOMAIN Insert(R, s, r) = DOMAIN R \cup {s}
         /\ Insert(R, s, r) = [t \in DOMAIN R \cup {s} |-> Insert(R, s, r)[t]]
         /\ Insert(R, s, r)[s] = r
         /\ \A t \in DOMAIN R : Insert(R, s, r)[t] = R[t]
  BY Zenon DEF Insert

\* A free region that fits: the address that is returned is a new one, or the
\* region's own.
LEMMA FitsIsNew ==
  ASSUME VMemConstants, RegionInv, NEW s \in DOMAIN regions, ~regions[s].allocated,
         NEW ret \in Int, NEW n \in Nat \ {0}, s <= ret, ret + n <= regions[s].end
  PROVE  /\ \A r \in Int : s < r /\ r < regions[s].end => r \notin DOMAIN regions
         /\ ret # s => ret \notin DOMAIN regions
         /\ regions[s] = Region(regions[s].end, FALSE, regions[s].handler) /\ regions[s].allocated = FALSE
         /\ s \in Int /\ regions[s].end \in Int
         /\ regions = [t \in DOMAIN regions |-> regions[t]]
  <1>1. /\ regions[s] = Region(regions[s].end, regions[s].allocated, regions[s].handler)
        /\ regions[s].allocated = FALSE /\ regions[s].end \in Int
        /\ regions = [t \in DOMAIN regions |-> regions[t]]
    BY Zenon DEF RegionInv, RegionTypes
  <1>2. s \in Int
    BY DEF RegionInv, RegionTypes, VMemConstants
  <1>3. \A r \in DOMAIN regions : ~(s < r /\ r < regions[s].end)
    BY Zenon DEF RegionInv, FreeApart
  <1>4. \A r \in Int : s < r /\ r < regions[s].end => r \notin DOMAIN regions
    BY <1>3, Zenon
  <1>5. ret # s => ret \notin DOMAIN regions
    BY <1>1, <1>2, <1>4
  <1> QED BY <1>1, <1>2, <1>4, <1>5, Zenon

\* R is regions_ with n pages from ret on taken out of the region s.
Split(R, s, ret, n, h) ==
  /\ DOMAIN R = DOMAIN regions \cup {ret} /\ R = [t \in DOMAIN R |-> R[t]]
  /\ \E e \in Int : e >= ret + n /\ R[ret] = Region(e, TRUE, h)
  /\ s # ret => R[s] = Region(ret, FALSE, regions[s].handler)
  /\ \A t \in DOMAIN regions \ {s} : R[t] = regions[t]

\* The part that the forms of Alloc that look for a region share.
LEMMA SplitIs ==
  ASSUME VMemConstants, RegionInv, NEW s \in DOMAIN regions, ~regions[s].allocated,
         NEW ret \in Int, NEW n \in Nat \ {0}, s <= ret, ret + n <= regions[s].end, NEW h
  PROVE  Split(SplitRegion(s, ret, n, h), s, ret, n, h)
  <1> DEFINE R == SplitRegion(s, ret, n, h)
  <1>1. /\ ret # s => ret \notin DOMAIN regions
        /\ regions[s] = Region(regions[s].end, FALSE, regions[s].handler) /\ regions[s].allocated = FALSE
        /\ s \in Int /\ regions[s].end \in Int
        /\ regions = [t \in DOMAIN regions |-> regions[t]]
    BY FitsIsNew, Zenon
  <1>2. CASE ret = s
    <2>1. R = [regions EXCEPT ![s].allocated = TRUE, ![s].handler = h]
      BY <1>2, Zenon DEF SplitRegion
    <2>2. DOMAIN R = DOMAIN regions /\ R = [t \in DOMAIN R |-> R[t]]
          /\ \A t \in DOMAIN regions \ {s} : R[t] = regions[t]
      BY <1>1, <2>1, Zenon
    <2>3. R[s] = Region(regions[s].end, TRUE, h)
      BY <1>1, <2>1, Zenon DEF Region
    <2> HIDE DEF R
    <2>4. regions[s].end \in Int /\ regions[s].end >= ret + n
      BY <1>1, Zenon
    <2> QED BY <1>2, <2>2, <2>3, <2>4, Zenon DEF R, Split
  <1>3. CASE ret # s
    <2> DEFINE L == [regions EXCEPT ![s] = WithEnd(@, ret)]
    <2>1. R = Insert(L, ret, Region(ret + n, TRUE, h))
      BY <1>3, Zenon DEF SplitRegion
    <2>2. DOMAIN L = DOMAIN regions /\ \A t \in DOMAIN regions \ {s} : L[t] = regions[t]
      BY <1>1, Zenon
    <2>3. L[s] = Region(ret, FALSE, regions[s].handler)
      BY <1>1, Zenon DEF WithEnd
    <2> HIDE DEF L, R
    <2>4. /\ DOMAIN R = DOMAIN L \cup {ret} /\ R = [t \in DOMAIN L \cup {ret} |-> R[t]]
          /\ R[ret] = Region(ret + n, TRUE, h) /\ \A t \in DOMAIN L : R[t] = L[t]
      <3>1. ret \notin DOMAIN L
        BY <1>1, <1>3, <2>2, Zenon
      <3> QED BY <3>1, <2>1, Zenon DEF Insert
    <2>5. ret + n \in Int /\ ret + n >= ret + n
      OBVIOUS
    <2> QED BY <1>1, <1>3, <2>2, <2>3, <2>4, <2>5, Zenon DEF R, Split
  <1> QED BY <1>2, <1>3, Zenon

\* Nothing is left behind the pages that are taken, or what is left is entered as a
\* free region.
LEMMA SplitTakes ==
  ASSUME VMemConstants, RegionInv, NEW s \in DOMAIN regions, ~regions[s].allocated,
         NEW ret \in Int, NEW n \in Nat \ {0}, s <= ret, ret + n <= regions[s].end, NEW h,
         NEW R, Split(R, s, ret, n, h), given' = Insert(given, ret, [n |-> n, handler |-> h])
  PROVE  /\ regions' = R => Takes(s, ret, n, h, {})
         /\ \A u \in Int :
              /\ ret + n <= u /\ u < regions[s].end
              /\ regions' = Insert(R, u, Region(regions[s].end, FALSE, NoHandler))
              => Takes(s, ret, n, h, {u})
  <1>1. ASSUME regions' = R PROVE Takes(s, ret, n, h, {})
    <2>1. DOMAIN regions' = DOMAIN regions \cup {ret} \cup {}
      BY <1>1, Zenon DEF Split
    <2> QED BY <1>1, <2>1, Zenon DEF Takes, Split
  <1>2. ASSUME NEW u \in Int, ret + n <= u, u < regions[s].end,
               regions' = Insert(R, u, Region(regions[s].end, FALSE, NoHandler))
        PROVE  Takes(s, ret, n, h, {u})
    <2> DEFINE r == Region(regions[s].end, FALSE, NoHandler)
    <2>1. u \notin DOMAIN regions /\ u # ret
      <3>0. s \in Int
        BY FitsIsNew, Zenon
      <3>1. s < u
        BY <1>2, <3>0
      <3>2. u \notin DOMAIN regions
        BY <1>2, <3>1, FitsIsNew, Zenon
      <3> QED BY <1>2, <3>2
    <2>2. u \notin DOMAIN R /\ s # u
      BY <2>1, Zenon DEF Split
    <2> HIDE DEF r
    <2>3. regions' = Insert(R, u, r)
      BY <1>2, Zenon DEF r
    <2>4. /\ DOMAIN regions' = DOMAIN R \cup {u} /\ regions' = [t \in DOMAIN regions' |-> regions'[t]]
          /\ regions'[u] = r /\ \A t \in DOMAIN R : regions'[t] = R[t]
      BY <2>2, <2>3, Zenon DEF Insert
    <2>5. DOMAIN regions' = DOMAIN regions \cup {ret} \cup {u}
      BY <2>4, Zenon DEF Split
    <2>6. regions'[ret] = R[ret] /\ regions'[s] = R[s] /\ \A t \in DOMAIN regions : regions'[t] = R[t]
      BY <2>4, Zenon DEF Split
    <2> QED BY <1>2, <2>4, <2>5, <2>6, Zenon DEF Takes, Split, r
  <1> QED BY <1>1, <1>2, Zenon

\* Alloc(npages) takes the end of a free region.
LEMMA AllocTakes ==
  ASSUME VMemConstants, RegionInv, NEW n \in 1 .. MaxPages, Alloc(n)
  PROVE  \E s, ret : Takes(s, ret, n, NoHandler, {})
  <1> DEFINE F == {t \in DOMAIN regions : ~regions[t].allocated /\ regions[t].end - t >= n}
             Fit(t) == regions' = SplitRegion(t, regions[t].end - n, n, NoHandler)
                       /\ Give(regions[t].end - n, n, NoHandler)
  <1>1. PICK s \in FirstFit(F) : Fit(s)
    BY Zenon DEF Alloc
  <1>2. F \in SUBSET (RangeStart .. RangeEnd)
    BY Zenon DEF RegionInv, RegionTypes
  <1>3. s \in F
    BY <1>1, <1>2, FirstFits, Zenon
  <1> DEFINE ret == regions[s].end - n
  <1>4. /\ s \in DOMAIN regions /\ ~regions[s].allocated /\ ret \in Int /\ n \in Nat \ {0}
        /\ s <= ret /\ ret + n <= regions[s].end
    BY <1>3 DEF RegionInv, RegionTypes, VMemConstants
  <1>5. regions' = SplitRegion(s, ret, n, NoHandler) /\ Give(ret, n, NoHandler)
    BY <1>1, Zenon
  <1> HIDE DEF ret
  <1>6. Split(regions', s, ret, n, NoHandler)
    BY <1>4, <1>5, SplitIs, Zenon
  <1>7. given' = Insert(given, ret, [n |-> n, handler |-> NoHandler])
    BY <1>5, Zenon DEF Give
  <1>8. Takes(s, ret, n, NoHandler, {})
    BY <1>4, <1>6, <1>7, SplitTakes, Zenon
  <1> QED BY <1>8, Zenon

\* The frame that a large allocation puts behind each of its pages.
Fresh(ret, p) == frames + (p - ret) + 1

\* The mapping in the page table of the core that allocates.
MapsOwn(c, ret, n) ==
  pt' = [pt EXCEPT ![c] = [p \in Page |-> IF ret <= p /\ p < ret + n THEN Handler(n)[p - ret] ELSE @[p]]]

\* Alloc(npages, align) takes a part of a free region, and maps it on its own core.
LEMMA AllocLargeTakes ==
  ASSUME VMemConstants, RegionInv,
         NEW c \in Core, NEW n \in 1 .. MaxPages, NEW align \in Aligns, NEW handled \in BOOLEAN,
         AllocLarge(c, n, align, handled)
  PROVE  \E s, ret, U, h :
           /\ Takes(s, ret, n, h, U) /\ h \in {NoHandler, Handler(n)} /\ frames' = frames + n
           /\ MapsOwn(c, ret, n)
  <1> DEFINE Place(t) == ((regions[t].end - n) \div align) * align
             h == IF handled THEN Handler(n) ELSE NoHandler
             F == {t \in DOMAIN regions : ~regions[t].allocated /\ regions[t].end - t >= n /\ Place(t) >= t}
             Left(t) == regions[t].end - Place(t) - n > 0
             Cut(t) == SplitRegion(t, Place(t), n, h)
  <1>1. PICK s \in FirstFit(F) :
          /\ regions' = IF Left(s) THEN Insert(Cut(s), Place(s) + n, Region(regions[s].end, FALSE, NoHandler))
                                   ELSE Cut(s)
          /\ Give(Place(s), n, h) /\ frames' = frames + n /\ MapsOwn(c, Place(s), n)
    BY Zenon DEF AllocLarge, MapsOwn
  <1>2. F \in SUBSET (RangeStart .. RangeEnd)
    BY Zenon DEF RegionInv, RegionTypes
  <1>3. s \in F
    BY <1>1, <1>2, FirstFits, Zenon
  <1>4. regions[s].end \in Int /\ n \in Nat \ {0} /\ align \in Nat \ {0} /\ s \in Int
    BY <1>3 DEF RegionInv, RegionTypes, VMemConstants
  <1>5. Place(s) \in Int /\ Place(s) <= regions[s].end - n
    <2> DEFINE x == regions[s].end - n
    <2>1. x \in Int
      BY <1>4
    <2> HIDE DEF x
    <2>2. (x \div align) * align \in Int /\ (x \div align) * align <= x
      BY <2>1, <1>4, AlignDown, Zenon
    <2> QED BY <2>2, Zenon DEF x
  <1> DEFINE ret == Place(s)
  <1>6. s \in DOMAIN regions /\ ~regions[s].allocated /\ s <= ret
    BY <1>3, <1>4, <1>5, Zenon
  <1>7. given' = Insert(given, ret, [n |-> n, handler |-> h])
    BY <1>1, Zenon DEF Give
  <1>8. ret \in Int /\ ret <= regions[s].end - n
    BY <1>5, Zenon
  <1>9. /\ regions' = IF regions[s].end - ret - n > 0
                      THEN Insert(SplitRegion(s, ret, n, h), ret + n, Region(regions[s].end, FALSE, NoHandler))
                      ELSE SplitRegion(s, ret, n, h)
        /\ MapsOwn(c, ret, n) /\ frames' = frames + n
    BY <1>1, Zenon
  <1>10. h \in {NoHandler, Handler(n)}
    BY Zenon
  <1> HIDE DEF ret, h, Place
  <1>11. ret + n <= regions[s].end
    BY <1>4, <1>8
  <1>12. Split(SplitRegion(s, ret, n, h), s, ret, n, h)
    BY <1>4, <1>6, <1>8, <1>11, SplitIs, Zenon
  <1>13. \E U : Takes(s, ret, n, h, U)
    <2>1. CASE regions[s].end - ret - n > 0
      <3>1. ret + n \in Int /\ ret + n <= ret + n /\ ret + n < regions[s].end
        BY <2>1, <1>4, <1>8
      <3>2. Takes(s, ret, n, h, {ret + n})
        BY <2>1, <3>1, <1>4, <1>6, <1>7, <1>8, <1>9, <1>11, <1>12, SplitTakes, Zenon
      <3> QED BY <3>2, Zenon
    <2>2. CASE ~(regions[s].end - ret - n > 0)
      <3>1. Takes(s, ret, n, h, {})
        BY <2>2, <1>4, <1>6, <1>7, <1>8, <1>9, <1>11, <1>12, SplitTakes, Zenon
      <3> QED BY <3>1, Zenon
    <2> QED BY <2>1, <2>2, Zenon
  <1> QED BY <1>9, <1>10, <1>13, Zenon

\* AllocRange takes what was asked for out of the free region that holds it.
LEMMA AllocRangeTakes ==
  ASSUME VMemConstants, RegionInv, NEW n \in 1 .. MaxPages, NEW start \in Page, AllocRange(n, start)
  PROVE  \E s, U : Takes(s, start, n, Handler(n), U) /\ frames' = frames + n /\ pt' = pt
  <1> DEFINE stop == start + n + 1
             h == Handler(n)
             F == {t \in DOMAIN regions : t <= start /\ regions[t].end >= start + n}
             Cut(t) == IF t = start
                       THEN [regions EXCEPT ![t] = Region(stop, TRUE, h)]
                       ELSE Insert([regions EXCEPT ![t] = WithEnd(@, start)], start, Region(stop, TRUE, h))
  <1>1. PICK s \in FirstFit(F) :
          /\ ~regions[s].allocated
          /\ regions' = IF stop < regions[s].end THEN Insert(Cut(s), stop, Region(regions[s].end, FALSE, NoHandler))
                                                 ELSE Cut(s)
    BY Zenon DEF AllocRange
  <1>2. F \in SUBSET (RangeStart .. RangeEnd)
    BY Zenon DEF RegionInv, RegionTypes
  <1>3. s \in F
    BY <1>1, <1>2, FirstFits, Zenon
  <1>4. /\ s \in DOMAIN regions /\ s <= start /\ start + n <= regions[s].end
        /\ regions[s].end \in Int /\ n \in Nat \ {0} /\ s \in Int /\ start \in Int
    BY <1>3 DEF RegionInv, RegionTypes, VMemConstants, Page
  <1>5. given' = Insert(given, start, [n |-> n, handler |-> h]) /\ frames' = frames + n /\ pt' = pt
    BY Zenon DEF AllocRange, Give
  <1>6. /\ start # s => start \notin DOMAIN regions
        /\ regions[s].allocated = FALSE
        /\ regions = [t \in DOMAIN regions |-> regions[t]]
    BY <1>1, <1>4, FitsIsNew, Zenon
  <1>7. stop \in Int /\ stop >= start + n /\ start + n <= stop
    BY <1>4
  <1> DEFINE R == Cut(s)
             r == Region(stop, TRUE, h)
  <1>8. Split(R, s, start, n, h)
    <2>1. CASE s = start
      <3>1. R = [regions EXCEPT ![s] = r]
        BY <2>1, Zenon
      <3> HIDE DEF R, r
      <3>2. /\ DOMAIN R = DOMAIN regions /\ R = [t \in DOMAIN R |-> R[t]] /\ R[s] = r
            /\ \A t \in DOMAIN regions \ {s} : R[t] = regions[t]
        BY <3>1, <1>4, <1>6, Zenon
      <3>3. DOMAIN R = DOMAIN regions \cup {start}
        BY <3>2, <2>1, <1>4, Zenon
      <3> QED BY <2>1, <3>2, <3>3, <1>7, Zenon DEF Split, r
    <2>2. CASE s # start
      <3> DEFINE L == [regions EXCEPT ![s] = WithEnd(@, start)]
      <3>1. R = Insert(L, start, r)
        BY <2>2, Zenon
      <3>2. DOMAIN L = DOMAIN regions /\ \A t \in DOMAIN regions \ {s} : L[t] = regions[t]
        BY <1>6, Zenon
      <3>3. L[s] = Region(start, FALSE, regions[s].handler)
        BY <1>4, <1>6, Zenon DEF WithEnd
      <3> HIDE DEF L, R, r
      <3>4. start \notin DOMAIN L
        BY <1>6, <2>2, <3>2, Zenon
      <3>5. /\ DOMAIN R = DOMAIN L \cup {start} /\ R = [t \in DOMAIN L \cup {start} |-> R[t]]
            /\ R[start] = r /\ \A t \in DOMAIN L : R[t] = L[t]
        BY <3>1, <3>4, Zenon DEF Insert
      <3> QED BY <1>4, <1>7, <2>2, <3>2, <3>3, <3>5, Zenon DEF Split, r
    <2> QED BY <2>1, <2>2, Zenon
  <1>9. regions' = IF stop < regions[s].end THEN Insert(R, stop, Region(regions[s].end, FALSE, NoHandler)) ELSE R
    BY <1>1, Zenon
  <1>10. ~regions[s].allocated
    BY <1>1, Zenon
  <1> HIDE DEF stop, h, R, Cut, r
  <1>11. \E U : Takes(s, start, n, h, U)
    <2>1. CASE stop < regions[s].end
      <3>1. Takes(s, start, n, h, {stop})
        BY <2>1, <1>4, <1>5, <1>7, <1>8, <1>9, <1>10, SplitTakes, Zenon
      <3> QED BY <3>1, Zenon
    <2>2. CASE ~(stop < regions[s].end)
      <3>1. Takes(s, start, n, h, {})
        BY <2>2, <1>4, <1>5, <1>7, <1>8, <1>9, <1>10, SplitTakes, Zenon
      <3> QED BY <3>1, Zenon
    <2> QED BY <2>1, <2>2, Zenon
  <1> QED BY <1>5, <1>11, Zenon DEF h

-----------------------------------------------------------------------------
(* Frames.                                                                  *)

\* An allocation puts new frames behind pages that nobody had, in the table of one
\* core, in its handler, or in both.
LEMMA FramesNew ==
  ASSUME VMemConstants, VMemInv, NEW ret \in Int, NEW n \in Nat \ {0}, NEW h, Gives(ret, n, h),
         h \in {NoHandler, Handler(n)},
         frames' \in {frames, frames + n}, h # NoHandler => frames' = frames + n,
         pt' \in [Core -> [Page -> Nat]],
         \A c \in Core, p \in Page :
           \/ pt'[c][p] = pt[c][p]
           \/ ret <= p /\ p < ret + n /\ pt'[c][p] = Fresh(ret, p) /\ frames' = frames + n
  PROVE  FramesApart'
  <1> DEFINE New(p) == ret <= p /\ p < ret + n
  <1>g. /\ DOMAIN given' = DOMAIN given \cup {ret} /\ given'[ret] = [n |-> n, handler |-> h]
        /\ \A t \in DOMAIN given : given'[t] = given[t]
        /\ \A t \in DOMAIN given : t + given[t].n <= ret \/ ret + n <= t
    BY Zenon DEF Gives
  <1>0. /\ Page \subseteq Int /\ frames \in Nat /\ frames' \in Nat /\ frames <= frames'
        /\ \A t \in DOMAIN given : t \in Int /\ given[t].n \in Nat
    BY DEF Page, VMemConstants, VMemInv, FramesApart, RegionInv, RegionTypes, GivenApart
  <1>1. ASSUME NEW p \in Page, New(p) PROVE ~\E t \in DOMAIN given : Within(p, t)
    BY <1>g, <1>0, <1>1 DEF Within
  <1>2. ASSUME NEW p \in Page, New(p), NEW c \in Core PROVE pt[c][p] = 0
    BY <1>1, <1>2, Zenon DEF VMemInv, FramesApart
  <1>3. ASSUME NEW p \in Page, NEW f, Handled(p, f)'
        PROVE  IF New(p) THEN f = Fresh(ret, p) /\ frames' = frames + n ELSE Handled(p, f)
    <2>1. PICK t \in DOMAIN given' : given'[t].handler # NoHandler /\ Within(p, t)' /\ given'[t].handler[p - t] = f
      BY <1>3, Zenon DEF Handled
    <2>2. CASE t = ret
      <3>1. given'[t].n = n /\ given'[t].handler = h
        BY <1>g, <2>2
      <3>2. New(p)
        BY <2>1, <2>2, <3>1, Zenon DEF Within
      <3>3. h = Handler(n) /\ frames' = frames + n
        BY <2>1, <3>1, Zenon
      <3>4. p - ret \in 0 .. n - 1
        BY <3>2, <1>0
      <3>5. Handler(n)[p - ret] = frames + (p - ret) + 1
        BY <3>4, Zenon DEF Handler
      <3> QED BY <2>1, <2>2, <3>1, <3>2, <3>3, <3>5, Zenon DEF Fresh
    <2>3. CASE t # ret
      <3>1. t \in DOMAIN given /\ given'[t] = given[t]
        BY <1>g, <2>3, Zenon
      <3>2. Within(p, t) /\ Handled(p, f)
        BY <2>1, <3>1, Zenon DEF Within, Handled
      <3> QED BY <1>1, <3>1, <3>2, Zenon
    <2> QED BY <2>2, <2>3, Zenon
  <1>4. ASSUME NEW p \in Page, NEW f, NEW c \in Core, Mapped(c, p, f)'
        PROVE  IF New(p) THEN f = Fresh(ret, p) /\ frames' = frames + n ELSE Mapped(c, p, f)
    BY <1>2, <1>4, Zenon DEF Mapped
  <1>5. ASSUME NEW p \in Page, NEW f, Backs(p, f)'
        PROVE  IF New(p) THEN f = Fresh(ret, p) /\ frames' = frames + n ELSE Backs(p, f)
    BY <1>3, <1>4, <1>5, Zenon DEF Backs
  <1> HIDE DEF New
  <1>6. \A c \in Core, p \in Page : pt'[c][p] # 0 => \E s \in DOMAIN given' : Within(p, s)'
    <2> SUFFICES ASSUME NEW c \in Core, NEW p \in Page, pt'[c][p] # 0
                 PROVE  \E s \in DOMAIN given' : Within(p, s)'
      BY Zenon
    <2>1. CASE New(p)
      <3>1. given'[ret].n = n
        BY <1>g
      <3> QED BY <1>g, <2>1, <3>1, Zenon DEF New, Within
    <2>2. CASE ~New(p)
      <3>1. pt[c][p] # 0
        BY <2>2, Zenon DEF New
      <3>2. PICK s \in DOMAIN given : Within(p, s)
        BY <3>1, Zenon DEF VMemInv, FramesApart
      <3> QED BY <1>g, <3>2, Zenon DEF Within
    <2> QED BY <2>1, <2>2, Zenon
  <1>7. \A p \in Page : New(p) => Fresh(ret, p) \in frames + 1 .. frames + n
    <2> SUFFICES ASSUME NEW p \in Page, New(p) PROVE frames + (p - ret) + 1 \in frames + 1 .. frames + n
      BY Zenon DEF Fresh
    <2>1. p \in Int /\ ret <= p /\ p < ret + n
      BY <1>0, Zenon DEF New
    <2> QED BY <2>1, <1>0
  <1>8. \A p, q \in Page : Fresh(ret, p) = Fresh(ret, q) => p = q
    <2> SUFFICES ASSUME NEW p \in Page, NEW q \in Page, frames + (p - ret) + 1 = frames + (q - ret) + 1 PROVE p = q
      BY Zenon DEF Fresh
    <2>1. p \in Int /\ q \in Int
      BY <1>0, Zenon
    <2> QED BY <2>1, <1>0
  <1>9. \A p \in Page : \A f : Backs(p, f) => f \in 1 .. frames
    BY Zenon DEF VMemInv, FramesApart
  <1>10. \A p \in Page : \A f : Backs(p, f)' => f \in 1 .. frames'
    <2> SUFFICES ASSUME NEW p \in Page, NEW f, Backs(p, f)' PROVE f \in 1 .. frames'
      BY Zenon
    <2>1. CASE New(p)
      BY <2>1, <1>0, <1>5, <1>7
    <2>2. CASE ~New(p)
      <3>1. f \in 1 .. frames
        BY <2>2, <1>5, <1>9, Zenon
      <3> QED BY <3>1, <1>0
    <2> QED BY <2>1, <2>2, Zenon
  <1>11. \A p, q \in Page : \A f : Backs(p, f)' /\ Backs(q, f)' => p = q
    <2> SUFFICES ASSUME NEW p \in Page, NEW q \in Page, NEW f, Backs(p, f)', Backs(q, f)' PROVE p = q
      BY Zenon
    <2>1. \A x \in Page : ~(New(x) /\ Fresh(ret, x) \in 1 .. frames)
      BY <1>0, <1>7
    <2>2. CASE New(p) /\ New(q)
      BY <2>2, <1>5, <1>8, Zenon
    <2>3. CASE ~New(p) /\ ~New(q)
      BY <2>3, <1>5, Zenon DEF VMemInv, FramesApart
    <2>4. CASE New(p) /\ ~New(q)
      BY <2>1, <2>4, <1>5, <1>9, Zenon
    <2>5. CASE ~New(p) /\ New(q)
      BY <2>1, <2>5, <1>5, <1>9, Zenon
    <2> QED BY <2>2, <2>3, <2>4, <2>5, Zenon
  <1>12. \A p \in Page : \A f, g : Backs(p, f)' /\ Backs(p, g)' => f = g
    <2> SUFFICES ASSUME NEW p \in Page, NEW f, NEW g, Backs(p, f)', Backs(p, g)' PROVE f = g
      BY Zenon
    <2>1. CASE New(p)
      <3>1. f = Fresh(ret, p)
        BY <2>1, <1>5, Zenon
      <3>2. g = Fresh(ret, p)
        BY <2>1, <1>5, Zenon
      <3> QED BY <3>1, <3>2, Zenon
    <2>2. CASE ~New(p)
      BY <2>2, <1>5, Zenon DEF VMemInv, FramesApart
    <2> QED BY <2>1, <2>2, Zenon
  <1> QED BY <1>0, <1>6, <1>10, <1>11, <1>12, Zenon DEF FramesApart

\* A page fault maps the frame that the handler of the page's allocation has for it.
LEMMA FaultKeeps ==
  ASSUME VMemConstants, VMemInv, NEW c \in Core, NEW p \in Page, Fault(c, p)
  PROVE  RegionInv' /\ FramesApart'
  <1>1. regions' = regions /\ given' = given /\ frames' = frames
    BY Zenon DEF Fault
  <1>2. RegionInv'
    BY <1>1, Zenon DEF VMemInv, RegionInv, RegionTypes, FreeApart, GivenApart
  <1>3. PICK s \in DOMAIN given : given[s].handler # NoHandler /\ s <= p /\ p < s + given[s].n
    BY Zenon DEF Fault
  <1>4. Lookup(p) = s
    <2>1. s \in DOMAIN regions /\ \A t \in DOMAIN regions : ~(s < t /\ t < s + given[s].n)
      BY Zenon DEF VMemInv, RegionInv, GivenApart
    <2>2. p \in Int /\ s \in Int /\ given[s].n \in Nat /\ \A t \in DOMAIN regions : t \in Int
      BY <2>1 DEF VMemInv, RegionInv, RegionTypes, GivenApart, VMemConstants, Page
    <2>3. \A t \in DOMAIN regions : ~(s < t /\ t <= p)
      BY <1>3, <2>1, <2>2
    <2> QED BY <1>3, <2>1, <2>2, <2>3, LookupIs, Zenon DEF VMemInv, RegionInv
  <1> DEFINE f == given[s].handler[p - s]
  <1>5. pt' = [pt EXCEPT ![c][p] = f]
    BY <1>4, Zenon DEF Fault, VMemInv, RegionInv, GivenApart
  <1>6. Handled(p, f)
    BY <1>3, Zenon DEF Handled, Within
  <1>7. f \in Nat /\ pt \in [Core -> [Page -> Nat]] /\ frames \in Nat
    <2>1. f \in 1 .. frames /\ frames \in Nat
      BY <1>6, Zenon DEF VMemInv, FramesApart, Backs
    <2>2. pt \in [Core -> [Page -> Nat]]
      BY Zenon DEF VMemInv, FramesApart
    <2> QED BY <2>1, <2>2
  <1> HIDE DEF f
  <1>8. /\ pt' \in [Core -> [Page -> Nat]]
        /\ \A d \in Core, q \in Page : pt'[d][q] = pt[d][q] \/ (q = p /\ pt'[d][q] = f)
    BY <1>5, <1>7, Zenon
  <1>9. \A q \in Page : \A g : Handled(q, g)' <=> Handled(q, g)
    BY <1>1, Zenon DEF Handled, Within
  <1>10. \A q \in Page : \A g : Backs(q, g)' => Backs(q, g)
    BY <1>6, <1>8, <1>9, Zenon DEF Backs, Mapped
  <1>11. \A d \in Core, q \in Page : pt'[d][q] # 0 => \E t \in DOMAIN given' : Within(q, t)'
    <2>1. \A q \in Page : \A t : Within(q, t)' <=> Within(q, t)
      BY <1>1, Zenon DEF Within
    <2>2. Within(p, s)
      BY <1>3, Zenon DEF Within
    <2>3. \A d \in Core, q \in Page : pt[d][q] # 0 => \E t \in DOMAIN given : Within(q, t)
      BY Zenon DEF VMemInv, FramesApart
    <2> QED BY <1>1, <1>8, <2>1, <2>2, <2>3, Zenon
  <1> QED BY <1>1, <1>2, <1>7, <1>8, <1>10, <1>11, Zenon DEF VMemInv, FramesApart

\* regions_ holds one free region at the start.
LEMMA VMemInitInv == ASSUME VMemConstants PROVE VMemInit => VMemInv
  <1> SUFFICES ASSUME VMemInit PROVE VMemInv
    BY Zenon
  <1>1. /\ DOMAIN regions = {RangeStart} /\ regions[RangeStart] = Region(RangeEnd, FALSE, NoHandler)
        /\ regions = [s \in DOMAIN regions |-> regions[s]]
        /\ DOMAIN given = {} /\ given = [s \in DOMAIN given |-> given[s]]
        /\ frames = 0 /\ pt \in [Core -> [Page -> Nat]] /\ \A c \in Core, p \in Page : pt[c][p] = 0
    BY Zenon DEF VMemInit
  <1>2. RegionTypes
    <2>1. regions[RangeStart].end = RangeEnd /\ regions[RangeStart].allocated = FALSE
          /\ regions[RangeStart].handler = NoHandler
      BY <1>1 DEF Region
    <2>2. {RangeStart} \in SUBSET (RangeStart .. RangeEnd) /\ RangeEnd \in Int
      BY DEF VMemConstants
    <2> QED BY <1>1, <2>1, <2>2, Zenon DEF RegionTypes
  <1>3. FreeApart /\ GivenApart
    BY <1>1 DEF VMemConstants, FreeApart, GivenApart, Region
  <1>4. FramesApart
    <2>1. \A p \in Page : \A f : ~Backs(p, f)
      BY <1>1, Zenon DEF Backs, Handled, Mapped
    <2> QED BY <1>1, <2>1, Zenon DEF FramesApart
  <1> QED BY <1>2, <1>3, <1>4, Zenon DEF VMemInv, RegionInv

\* Every operation of VMemAllocator and every page fault keeps the invariant.
LEMMA VMemStep == ASSUME VMemConstants, VMemInv, [VMemNext]_vmemVars PROVE VMemInv'
  <1>0. RegionInv /\ frames \in Nat /\ pt \in [Core -> [Page -> Nat]] /\ Page \subseteq Int
    BY DEF VMemInv, FramesApart, Page, VMemConstants
  <1>1. ASSUME NEW n \in 1 .. MaxPages, Alloc(n) PROVE VMemInv'
    <2>1. PICK s, ret : Takes(s, ret, n, NoHandler, {})
      BY <1>0, <1>1, AllocTakes, Zenon
    <2>2. ret \in Int /\ n \in Nat \ {0} /\ pt' = pt /\ frames' = frames
      BY <1>1, <2>1, Zenon DEF Takes, Alloc
    <2>3. Gives(ret, n, NoHandler)
      BY <1>0, <2>1, TakesKeeps, Zenon DEF Gives
    <2>4. frames' \in {frames, frames + n} /\ \A c \in Core, p \in Page : pt'[c][p] = pt[c][p]
      BY <2>2, Zenon
    <2>5. FramesApart'
      BY <1>0, <2>2, <2>3, <2>4, FramesNew, Zenon
    <2> QED BY <2>3, <2>5, Zenon DEF VMemInv, Gives
  <1>2. ASSUME NEW n \in 1 .. MaxPages, NEW p \in Page, AllocRange(n, p) PROVE VMemInv'
    <2>1. PICK s, U : Takes(s, p, n, Handler(n), U) /\ frames' = frames + n /\ pt' = pt
      BY <1>0, <1>2, AllocRangeTakes, Zenon
    <2>2. p \in Int /\ n \in Nat \ {0}
      BY <1>0, <2>1, Zenon DEF Takes
    <2>3. Gives(p, n, Handler(n))
      BY <1>0, <2>1, TakesKeeps, Zenon DEF Gives
    <2>4. FramesApart'
      BY <1>0, <2>1, <2>2, <2>3, FramesNew, Zenon
    <2> QED BY <2>3, <2>4, Zenon DEF VMemInv, Gives
  <1>3. ASSUME NEW c \in Core, NEW n \in 1 .. MaxPages, NEW a \in Aligns, NEW b \in BOOLEAN, AllocLarge(c, n, a, b)
        PROVE  VMemInv'
    <2>1. PICK s, ret, U, h :
            /\ Takes(s, ret, n, h, U) /\ h \in {NoHandler, Handler(n)} /\ frames' = frames + n
            /\ MapsOwn(c, ret, n)
      BY <1>0, <1>3, AllocLargeTakes, Zenon
    <2>2. ret \in Int /\ n \in Nat \ {0}
      BY <2>1, Zenon DEF Takes
    <2>3. \A p \in Page : ret <= p /\ p < ret + n => Handler(n)[p - ret] = Fresh(ret, p) /\ Fresh(ret, p) \in Nat
      BY <1>0, <2>2 DEF Handler, Fresh
    <2>4. /\ pt' \in [Core -> [Page -> Nat]]
          /\ \A d \in Core, p \in Page :
               pt'[d][p] = pt[d][p] \/ (ret <= p /\ p < ret + n /\ pt'[d][p] = Fresh(ret, p))
      BY <1>0, <2>1, <2>3, Zenon DEF MapsOwn
    <2>5. Gives(ret, n, h)
      BY <1>0, <2>1, TakesKeeps, Zenon DEF Gives
    <2>6. FramesApart'
      BY <1>0, <2>1, <2>2, <2>4, <2>5, FramesNew, Zenon
    <2> QED BY <2>5, <2>6, Zenon DEF VMemInv, Gives
  <1>4. ASSUME NEW c \in Core, NEW p \in Page, Fault(c, p) PROVE VMemInv'
    BY <1>4, FaultKeeps, Zenon DEF VMemInv
  <1>5. CASE UNCHANGED vmemVars
    <2>1. regions' = regions /\ given' = given /\ pt' = pt /\ frames' = frames
      BY <1>5, Zenon DEF vmemVars
    <2>2. RegionInv'
      BY <2>1, Zenon DEF VMemInv, RegionInv, RegionTypes, FreeApart, GivenApart
    <2>3. \A p, f : Backs(p, f)' <=> Backs(p, f)
      BY <2>1, Zenon DEF Backs, Handled, Mapped, Within
    <2>4. FramesApart'
      BY <2>1, <2>3, Zenon DEF VMemInv, FramesApart, Within
    <2> QED BY <2>2, <2>4, Zenon DEF VMemInv
  <1> QED BY <1>1, <1>2, <1>3, <1>4, <1>5, Zenon DEF VMemNext

\* In any range of virtual memory, for any requests, alignments and cores: no page is
\* handed out twice, a fault goes to the handler of the page's own allocation, and all
\* cores that have mapped a page see the frame that backs it and no other page.
THEOREM FaultsFindHandlerAlways == ASSUME VMemConstants PROVE VMemSpec => []FaultsFindHandler
  <1>1. VMemInit => VMemInv
    BY VMemInitInv, Zenon
  <1>2. VMemInv /\ [VMemNext]_vmemVars => VMemInv'
    BY VMemStep, Zenon
  <1>3. VMemInv => FaultsFindHandler
    <2> SUFFICES ASSUME VMemInv PROVE FaultsFindHandler
      BY Zenon
    <2>1. HandlersFound
      <3> SUFFICES ASSUME NEW s \in DOMAIN given, NEW p \in s .. s + given[s].n - 1
                   PROVE  /\ Lookup(p) = s
                          /\ regions[s].allocated /\ regions[s].handler = given[s].handler /\ p <= regions[s].end
                          /\ \A t \in DOMAIN regions : ~regions[t].allocated => ~(t <= p /\ p < regions[t].end)
                          /\ \A t \in DOMAIN given : t # s => ~(t <= p /\ p < t + given[t].n)
        BY Zenon DEF HandlersFound
      <3>1. /\ s \in DOMAIN regions /\ given[s].n \in Nat /\ s + given[s].n <= regions[s].end
            /\ regions[s].allocated /\ regions[s].handler = given[s].handler
            /\ \A t \in DOMAIN regions : ~(s < t /\ t < s + given[s].n)
        BY Zenon DEF VMemInv, RegionInv, GivenApart
      <3>2. \A t \in DOMAIN regions : t \in Int /\ regions[t].end \in Int
        BY DEF VMemInv, RegionInv, RegionTypes, VMemConstants
      <3>3. p \in Int /\ s <= p /\ p < s + given[s].n
        BY <3>1, <3>2
      <3>4. Lookup(p) = s
        <4>1. \A t \in DOMAIN regions : ~(s < t /\ t <= p)
          BY <3>1, <3>2, <3>3
        <4> QED BY <3>1, <3>3, <4>1, LookupIs, Zenon DEF VMemInv, RegionInv
      <3>5. ASSUME NEW t \in DOMAIN regions, ~regions[t].allocated PROVE ~(t <= p /\ p < regions[t].end)
        <4>1. t # s /\ ~(t < s /\ s < regions[t].end)
          BY <3>1, <3>5, Zenon DEF VMemInv, RegionInv, FreeApart
        <4> QED BY <3>1, <3>2, <3>3, <4>1
      <3>6. ASSUME NEW t \in DOMAIN given, t # s PROVE ~(t <= p /\ p < t + given[t].n)
        <4>1. t \in DOMAIN regions /\ given[t].n \in Nat /\ ~(t < s /\ s < t + given[t].n)
          BY <3>1, Zenon DEF VMemInv, RegionInv, GivenApart
        <4> QED BY <3>1, <3>2, <3>3, <3>6, <4>1
      <3>7. p <= regions[s].end
        BY <3>1, <3>2, <3>3
      <3> QED BY <3>1, <3>4, <3>5, <3>6, <3>7, Zenon
    <2>2. OneFrame
      <3>1. \A c \in Core, p \in Page : pt[c][p] # 0 => Backs(p, pt[c][p])
        BY Zenon DEF Backs, Mapped
      <3>2. /\ \A p, q \in Page : \A f : Backs(p, f) /\ Backs(q, f) => p = q
            /\ \A p \in Page : \A f, g : Backs(p, f) /\ Backs(p, g) => f = g
        BY Zenon DEF VMemInv, FramesApart
      <3> QED BY <3>1, <3>2 DEF OneFrame
    <2> QED BY <2>1, <2>2, Zenon DEF FaultsFindHandler
  <1> QED BY <1>1, <1>2, <1>3, PTL DEF VMemSpec

-----------------------------------------------------------------------------
(***************************************************************************)
(* SpinBarrier: it keeps any number of threads together, for any number of *)
(* rounds.                                                                 *)
(*                                                                         *)
(* The threads that have arrived in the round that completed_ counts are   *)
(* the ones that hold its value in step and have added themselves.  Their  *)
(* number is waiters_, except between the last thread's two stores, when   *)
(* all have arrived: a thread that is released early cannot count itself   *)
(* in the old round, since waiters_ was reset before completed_ moved.     *)
(***************************************************************************)
\* n_ is the number of threads that share the barrier.
N == Cardinality(Thread)
BarrierNext == \E t \in Thread : WaitStep(t, N)
BarrierSpec == BarrierInit /\ [][BarrierNext]_barrier

\* What the proof uses of the constants.
BarrierSetting == IsFiniteSet(Thread)

Last(t) == at[t] \in {"reset", "complete"}
Waits(t) == at[t] = "spin" /\ step[t] = completed
Arrived == {t \in Thread : Last(t) \/ Waits(t)}

BarrierTypes ==
  /\ waiters \in Nat /\ completed \in Nat
  /\ at \in [Thread -> {"out", "arrive", "spin", "reset", "complete"}]
  /\ step \in [Thread -> Nat] /\ entered \in [Thread -> Nat]

\* The round each thread is in.
Rounds ==
  \A t \in Thread :
    /\ at[t] = "out" => entered[t] = completed
    /\ at[t] \in {"arrive", "reset", "complete"} => entered[t] = completed + 1 /\ step[t] = completed
    /\ at[t] = "spin" => entered[t] = step[t] + 1 /\ completed \in {step[t], step[t] + 1}

\* What waiters_ counts.
Counts ==
  \/ waiters = Cardinality(Arrived) /\ waiters < N /\ \A t \in Thread : ~Last(t)
  \/ /\ Arrived = Thread
     /\ \E t \in Thread : /\ \A u \in Thread \ {t} : ~Last(u)
                          /\ \/ at[t] = "reset"
                             \/ at[t] = "complete" /\ waiters = 0

BarrierInv == BarrierTypes /\ Rounds /\ (Thread = {} \/ Counts)

-----------------------------------------------------------------------------
\* The set of those that arrived is finite, and is everybody when it is as large.
LEMMA ArrivedFinite ==
  ASSUME BarrierSetting
  PROVE  /\ N \in Nat /\ IsFiniteSet(Arrived) /\ Cardinality(Arrived) \in Nat
         /\ Cardinality(Arrived) = N => Arrived = Thread
  <1>1. Arrived \in SUBSET Thread
    BY Zenon DEF Arrived
  <1>2. IsFiniteSet(Arrived) /\ (Cardinality(Arrived) = N => Arrived = Thread)
    BY <1>1, FS_Subset, Zenon DEF BarrierSetting, N
  <1> QED BY <1>2, FS_CardinalityType, Zenon DEF BarrierSetting, N

\* Nobody has arrived at a new barrier.
LEMMA BarrierInitInv == ASSUME BarrierSetting PROVE BarrierInit => BarrierInv
  <1> SUFFICES ASSUME BarrierInit PROVE BarrierInv
    BY Zenon
  <1>1. BarrierTypes /\ Rounds
    BY Zenon DEF BarrierInit, BarrierTypes, Rounds
  <1>2. Arrived = {} /\ \A t \in Thread : ~Last(t)
    BY Zenon DEF BarrierInit, Arrived, Last, Waits
  <1>3. ASSUME Thread # {} PROVE N > 0 /\ Cardinality(Arrived) = 0
    BY <1>2, <1>3, ArrivedFinite, FS_EmptySet DEF BarrierSetting, N
  <1> QED BY <1>1, <1>2, <1>3, Zenon DEF BarrierInit, BarrierInv, Counts

\* A thread that begins a round or leaves one is not among those that arrived.
LEMMA PassStep ==
  ASSUME BarrierSetting, BarrierInv, NEW t \in Thread, LoadStep(t) \/ Leave(t)
  PROVE  BarrierInv'
  <1>1. BarrierTypes'
    BY DEF BarrierInv, BarrierTypes, LoadStep, Leave, Move
  <1>2. Rounds'
    BY DEF BarrierInv, BarrierTypes, Rounds, LoadStep, Leave, Move
  <1>3. /\ \A u \in Thread : Last(u)' <=> Last(u)
        /\ \A u \in Thread : Waits(u)' <=> Waits(u)
        /\ \A u \in Thread \ {t} : at'[u] = at[u]
        /\ ~Last(t) /\ UNCHANGED waiters
    BY Zenon DEF BarrierInv, BarrierTypes, LoadStep, Leave, Move, Last, Waits
  <1>4. Arrived' = Arrived
    BY <1>3, Zenon DEF Arrived
  <1>5. Thread = {} \/ Counts'
    BY <1>3, <1>4, Zenon DEF BarrierInv, Counts, Last
  <1> QED BY <1>1, <1>2, <1>5, Zenon DEF BarrierInv

\* fetch_add: the thread that finds n_ - 1 before it makes the round complete.
LEMMA ArriveStep == ASSUME BarrierSetting, BarrierInv, NEW t \in Thread, Arrive(t, N) PROVE BarrierInv'
  <1>0. at[t] = "arrive" /\ waiters' = waiters + 1 /\ UNCHANGED <<completed, step, entered>>
        /\ at' = [at EXCEPT ![t] = IF waiters = N - 1 THEN "reset" ELSE "spin"]
    BY Zenon DEF Arrive, Move
  <1>1. BarrierTypes'
    BY <1>0 DEF BarrierInv, BarrierTypes
  <1>2. Rounds'
    BY <1>0, Zenon DEF BarrierInv, BarrierTypes, Rounds
  <1>3. t \notin Arrived
    BY <1>0, Zenon DEF Arrived, Last, Waits
  <1>4. waiters = Cardinality(Arrived) /\ waiters < N /\ \A u \in Thread : ~Last(u)
    BY <1>3, Zenon DEF BarrierInv, Counts
  <1>5. /\ \A u \in Thread \ {t} : at'[u] = at[u] /\ ~Last(u)' /\ (Waits(u)' <=> Waits(u))
        /\ Last(t)' \/ Waits(t)'
    BY <1>0, <1>4, Zenon DEF BarrierInv, BarrierTypes, Rounds, Last, Waits
  <1>6. Arrived' = Arrived \cup {t}
    BY <1>4, <1>5, Zenon DEF Arrived
  <1>7. Cardinality(Arrived') = waiters + 1 /\ waiters \in Nat /\ N \in Nat
    BY <1>3, <1>4, <1>6, ArrivedFinite, FS_AddElement, Zenon
  <1>8. CASE waiters = N - 1
    <2>1. Arrived' \in SUBSET Thread /\ Cardinality(Arrived') = N
      BY <1>7, <1>8 DEF Arrived
    <2>2. Arrived' = Thread
      BY <2>1, FS_Subset, Zenon DEF BarrierSetting, N
    <2>3. at'[t] = "reset"
      BY <1>0, <1>8, Zenon DEF BarrierInv, BarrierTypes
    <2> QED BY <1>1, <1>2, <1>5, <2>2, <2>3, Zenon DEF BarrierInv, Counts
  <1>9. CASE waiters # N - 1
    <2>1. ~Last(t)'
      BY <1>0, <1>9, Zenon DEF BarrierInv, BarrierTypes, Last
    <2>2. waiters' = Cardinality(Arrived') /\ waiters' < N
      BY <1>0, <1>4, <1>7, <1>9
    <2> QED BY <1>1, <1>2, <1>5, <2>1, <2>2, Zenon DEF BarrierInv, Counts
  <1> QED BY <1>8, <1>9, Zenon

\* waiters_.store(0): everybody else spins until completed_ moves.
LEMMA ResetStep == ASSUME BarrierSetting, BarrierInv, NEW t \in Thread, Reset(t) PROVE BarrierInv'
  <1>0. /\ at[t] = "reset" /\ waiters' = 0 /\ UNCHANGED <<completed, step, entered>>
        /\ at' = [at EXCEPT ![t] = "complete"]
    BY Zenon DEF Reset, Move
  <1>1. BarrierTypes'
    BY <1>0, Zenon DEF BarrierInv, BarrierTypes
  <1>2. Rounds'
    BY <1>0, Zenon DEF BarrierInv, BarrierTypes, Rounds
  <1>3. Last(t) /\ at'[t] = "complete"
    BY <1>0, Zenon DEF BarrierInv, BarrierTypes, Last
  <1>4. Arrived = Thread /\ \A u \in Thread \ {t} : ~Last(u)
    BY <1>3, Zenon DEF BarrierInv, Counts
  <1>5. /\ \A u \in Thread \ {t} : ~Last(u)'
        /\ \A u \in Thread : Last(u)' \/ Waits(u)'
    BY <1>0, <1>3, <1>4, Zenon DEF BarrierInv, BarrierTypes, Last, Waits, Arrived
  <1>6. Arrived' = Thread
    BY <1>5, Zenon DEF Arrived
  <1> QED BY <1>0, <1>1, <1>2, <1>3, <1>5, <1>6, Zenon DEF BarrierInv, Counts

\* completed_.fetch_add(1): all that spin are released together.
LEMMA CompleteStep == ASSUME BarrierSetting, BarrierInv, NEW t \in Thread, Complete(t) PROVE BarrierInv'
  <1>0. /\ at[t] = "complete" /\ completed' = completed + 1 /\ UNCHANGED <<waiters, step, entered>>
        /\ at' = [at EXCEPT ![t] = "out"]
    BY Zenon DEF Complete, Move
  <1>1. BarrierTypes'
    BY <1>0 DEF BarrierInv, BarrierTypes
  <1>2. Last(t)
    BY <1>0, Zenon DEF Last
  <1>3. waiters = 0 /\ Arrived = Thread /\ \A u \in Thread \ {t} : ~Last(u)
    BY <1>0, <1>2, Zenon DEF BarrierInv, Counts, Last
  <1>4. \A u \in Thread \ {t} : at[u] = "spin" /\ at'[u] = "spin" /\ step[u] = completed
    BY <1>0, <1>3, Zenon DEF BarrierInv, BarrierTypes, Arrived, Waits
  <1>5. Rounds'
    BY <1>0, <1>4, Zenon DEF BarrierInv, BarrierTypes, Rounds
  <1>6. at'[t] = "out" /\ \A u \in Thread : ~Last(u)' /\ ~Waits(u)'
    BY <1>0, <1>4 DEF BarrierInv, BarrierTypes, Last, Waits
  <1>7. Cardinality(Arrived') = 0
    <2>1. Arrived' = {}
      BY <1>6, Zenon DEF Arrived
    <2> QED BY <2>1, FS_EmptySet, Zenon
  <1>8. N > 0
    BY ArrivedFinite, FS_EmptySet DEF BarrierSetting, N
  <1> QED BY <1>0, <1>1, <1>3, <1>5, <1>6, <1>7, <1>8, Zenon DEF BarrierInv, Counts

\* SpinBarrier::Wait, for any number of threads and rounds: nobody has left its r-th
\* Wait before everybody has begun its r-th.
THEOREM MeetingAlways == ASSUME BarrierSetting PROVE BarrierSpec => []Meeting(Thread)
  <1>1. BarrierInit => BarrierInv
    BY BarrierInitInv, Zenon
  <1>2. BarrierInv /\ [BarrierNext]_barrier => BarrierInv'
    <2> SUFFICES ASSUME BarrierInv, [BarrierNext]_barrier PROVE BarrierInv'
      BY Zenon
    <2>1. ASSUME NEW t \in Thread, WaitStep(t, N) PROVE BarrierInv'
      BY <2>1, PassStep, ArriveStep, ResetStep, CompleteStep, Zenon DEF WaitStep
    <2>2. CASE UNCHANGED barrier
      BY <2>2, Zenon DEF barrier, BarrierInv, BarrierTypes, Rounds, Counts, Arrived, Last, Waits
    <2> QED BY <2>1, <2>2, Zenon DEF BarrierNext
  <1>3. BarrierInv => Meeting(Thread)
    BY DEF BarrierInv, BarrierTypes, Rounds, Meeting
  <1> QED BY <1>1, <1>2, <1>3, PTL DEF BarrierSpec
=============================================================================
