--------------------------- MODULE VMemAllocator ---------------------------
(***************************************************************************)
(* Regions of virtual memory (src/src/native/VMemAllocator.cc), the large  *)
(* allocations that the general purpose allocator makes in them, and the   *)
(* page faults by which the other cores map those into their own tables.   *)
(*                                                                         *)
(* Every operation holds lock_, so each is one step.  Virtual pages are    *)
(* numbered; the code's large page is one page here and its alignments are *)
(* multiples of it.                                                        *)
(***************************************************************************)
EXTENDS Integers, FiniteSets, FiniteSetsExt, Functions

CONSTANTS Core,
          RangeStart, RangeEnd,   \* kVMemRangeStart and kVMemRangeEnd, as page numbers
          MaxPages,      \* bound: pages in one request
          Aligns,        \* alignments asked for
          MaxAllocs      \* bound: number of allocations

\* What the range and the requests are: numbers of pages, and alignments that are
\* not zero.
VMemConstants ==
  /\ RangeStart \in Nat /\ RangeEnd \in Nat /\ RangeStart <= RangeEnd
  /\ MaxPages \in Nat /\ Aligns \subseteq Nat \ {0}

VARIABLES regions,   \* regions_: start -> [end, allocated, handler]
          given,     \* start -> [n, handler] for each successful request
          pt,        \* the page table of each core: page -> frame, 0 if not present
          frames     \* page frames handed out by the page allocator so far

vmemVars == <<regions, given, pt, frames>>

Page == RangeStart .. RangeEnd - 1
NoHandler == <<>>   \* a null pf_handler
Region(e, a, h) == [end |-> e, allocated |-> a, handler |-> h]
WithEnd(r, e) == Region(e, r.allocated, r.handler)
Insert(R, s, r) == IF s \in DOMAIN R THEN R ELSE [t \in DOMAIN R \cup {s} |-> IF t = s THEN r ELSE R[t]]

VMemInit ==
  /\ regions = [s \in {RangeStart} |-> Region(RangeEnd, FALSE, NoHandler)]
  /\ given = [s \in {} |-> 0]
  /\ pt = [c \in Core |-> [p \in Page |-> 0]]
  /\ frames = 0

\* The loop over the map in descending order stops at the first that fits.
FirstFit(fitting) == IF fitting = {} THEN {} ELSE {Max(fitting)}

\* The handler a large allocation registers: the frame of each of its pages.
Handler(n) == [k \in 0 .. n - 1 |-> frames + k + 1]
Give(ret, n, h) ==
  /\ Cardinality(DOMAIN given) < MaxAllocs
  /\ given' = Insert(given, ret, [n |-> n, handler |-> h])

\* Seeded fault: the region that is left keeps its end.
SplitRegionLong(s, ret, n, h) == Insert(regions, ret, Region(ret + n, TRUE, h))

\* What both forms of Alloc do with the free region s when they return ret.
SplitRegion(s, ret, n, h) ==
  IF ret = s THEN [regions EXCEPT ![s].allocated = TRUE, ![s].handler = h]
  ELSE Insert([regions EXCEPT ![s] = WithEnd(@, ret)], ret, Region(ret + n, TRUE, h))

\* Alloc(npages): the end of the first free region that is large enough.
Alloc(n) ==
  \E s \in FirstFit({t \in DOMAIN regions : ~regions[t].allocated /\ regions[t].end - t >= n}) :
    LET ret == regions[s].end - n IN
    /\ regions' = SplitRegion(s, ret, n, NoHandler)
    /\ Give(ret, n, NoHandler)
    /\ UNCHANGED <<pt, frames>>

\* Alloc(npages, align) as GeneralPurposeAllocator::Alloc calls it on core c:
\* the region, the frames, the mapping in the core's own table, the handler.
\* The form with an explicit alignment passes no handler.  A region that is
\* taken from its start on keeps its old end.
AllocLarge(c, n, align, handled) ==
  LET Place(t) == ((regions[t].end - n) \div align) * align
      h == IF handled THEN Handler(n) ELSE NoHandler
  IN
  \E s \in FirstFit({t \in DOMAIN regions : ~regions[t].allocated /\ regions[t].end - t >= n /\ Place(t) >= t}) :
    LET ret == Place(s)
        end == regions[s].end
        R == SplitRegion(s, ret, n, h)
    IN
    /\ regions' = IF end - ret - n > 0 THEN Insert(R, ret + n, Region(end, FALSE, NoHandler)) ELSE R
    /\ Give(ret, n, h)
    /\ frames' = frames + n
    /\ pt' = [pt EXCEPT ![c] = [p \in Page |-> IF ret <= p /\ p < ret + n THEN Handler(n)[p - ret] ELSE @[p]]]

\* AllocRange(npages, vmem_start, handler): the region is one page longer than
\* was asked for.  A request inside an allocated region returns None.
AllocRange(n, start) ==
  LET stop == start + n + 1   \* vmem_end_vfn
      h == Handler(n)
  IN
  /\ start >= RangeStart /\ start + n <= RangeEnd
  /\ \E s \in FirstFit({t \in DOMAIN regions : t <= start /\ regions[t].end >= start + n}) :
       LET end == regions[s].end
           R == IF s = start
                THEN [regions EXCEPT ![s] = Region(stop, TRUE, h)]
                ELSE Insert([regions EXCEPT ![s] = WithEnd(@, start)], start, Region(stop, TRUE, h))
       IN
       /\ ~regions[s].allocated
       /\ regions' = IF stop < end THEN Insert(R, stop, Region(end, FALSE, NoHandler)) ELSE R
  /\ Give(start, n, h)
  /\ frames' = frames + n
  /\ UNCHANGED pt

\* regions_.lower_bound in a map ordered by std::greater.
Lookup(p) == Max({s \in DOMAIN regions : s <= p})

\* HandlePageFault for an address in page p of a large allocation that core c
\* was told about: LargeRegionFaultHandler maps the frame of the page.
Fault(c, p) ==
  /\ pt[c][p] = 0
  /\ \E s \in DOMAIN given : given[s].handler # NoHandler /\ s <= p /\ p < s + given[s].n
  /\ LET s == Lookup(p) IN
     /\ p <= regions[s].end
     /\ regions[s].allocated /\ p - s \in DOMAIN regions[s].handler
     /\ pt' = [pt EXCEPT ![c][p] = regions[s].handler[p - s]]
  /\ UNCHANGED <<regions, given, frames>>

VMemNext ==
  \/ \E n \in 1 .. MaxPages : Alloc(n) \/ \E p \in Page : AllocRange(n, p)
  \/ \E c \in Core, n \in 1 .. MaxPages, a \in Aligns, b \in BOOLEAN : AllocLarge(c, n, a, b)
  \/ \E c \in Core, p \in Page : Fault(c, p)

VMemSpec == VMemInit /\ [][VMemNext]_vmemVars

-----------------------------------------------------------------------------
(* Properties.                                                              *)

\* No page of virtual memory is handed out twice, a fault on a page is given
\* to the handler that came with the page's allocation, although regions_ may
\* hold regions that overlap, and a free region overlaps no allocation.
HandlersFound ==
  \A s \in DOMAIN given : \A p \in s .. s + given[s].n - 1 :
    /\ Lookup(p) = s
    /\ regions[s].allocated /\ regions[s].handler = given[s].handler /\ p <= regions[s].end
    /\ \A t \in DOMAIN regions : ~regions[t].allocated => ~(t <= p /\ p < regions[t].end)
    /\ \A t \in DOMAIN given : t # s => ~(t <= p /\ p < t + given[t].n)

\* Every core that has mapped a page of an allocation sees the same frame, and
\* a frame backs one page only.
OneFrame ==
  \A c, d \in Core : \A p, q \in Page :
    pt[c][p] # 0 /\ pt[d][q] # 0 => (pt[c][p] = pt[d][q] <=> p = q)

\* Virtual pages go to one allocation and to its handler, and are backed by one
\* frame whichever cores have faulted on them (Alloc, AllocRange, HandlePageFault).
FaultsFindHandler == HandlersFound /\ OneFrame
=============================================================================
