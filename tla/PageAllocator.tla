---------------------------- MODULE PageAllocator ----------------------------
(***************************************************************************)
(* The buddy allocator of physical pages (src/src/native/PageAllocator.cc),*)
(* one per NUMA node, with the page descriptors of mem_map that Free reads *)
(* to find out whether a buddy is free.                                    *)
(*                                                                         *)
(* AllocLocal and Free hold the node's spin lock from start to end, so     *)
(* each is one step.  A block is a pair <<first page, order>>.             *)
(***************************************************************************)
EXTENDS Integers, Sequences, FiniteSets, SequencesExt, FiniteSetsExt

CONSTANTS Node,        \* NUMA nodes
          MaxOrder,    \* kMaxOrder
          NumPages,    \* page descriptors exist for 0 .. NumPages - 1
          RangeSets,   \* sets of <<start, end, node>>: what the early allocator may hold
          Limits,      \* values of max_addr, as page numbers
          FreedOn      \* [Node -> SUBSET Node]: nodes whose cores free a node's pages

Pfn == 0 .. NumPages - 1
Order == 0 .. MaxOrder
Block == Pfn \X Order

ASSUME BoundsAssumption == MaxOrder \in Nat /\ NumPages \in Nat
\* The memory of a node begins and ends at a multiple of the largest block.
ASSUME RangesAssumption ==
  \A R \in RangeSets : \A r, s \in R :
    /\ 0 <= r[1] /\ r[1] < r[2] /\ r[2] <= NumPages /\ r[3] \in Node
    /\ r[3] # s[3] => r[1] \div 2^MaxOrder # s[1] \div 2^MaxOrder
                      /\ (r[2] - 1) \div 2^MaxOrder # s[1] \div 2^MaxOrder

VARIABLES ranges,        \* what Init was given
          lists,         \* free_page_lists of each node
          usage, order,  \* Page::usage and Page::data.order
          allocations,   \* allocations_ of each node (PAGE_CHECKER)
          asserted       \* FALSE once a kassert of AllocLocal or Free has failed

vars == <<ranges, lists, usage, order, allocations, asserted>>

Pages(b) == b[1] .. b[1] + 2^b[2] - 1
Down(p, o) == (p \div 2^o) * 2^o
Overlap(b, c) == Pages(b) \cap Pages(c) # {}

\* pfn ^ (1 << order)
PfnToBuddy(p, o) == IF (p \div 2^o) % 2 = 0 THEN p + 2^o ELSE p - 2^o

FreeBlocks(n) == {b \in Block : b[1] \in ToSet(lists[n][b[2]])}
Held == UNION {allocations[n] : n \in Node}

-----------------------------------------------------------------------------
(* Init: the ranges of the early allocator are cut into blocks.             *)

Ctz(p) == Max({o \in 0 .. NumPages : p % 2^o = 0 /\ 2^o <= p})
Log2(k) == Max({o \in 0 .. NumPages : 2^o <= k})

\* Before the divide a block is as large as the page's alignment allows, after
\* it as large as the rest of the range does.
PieceOrder(p, start, end) ==
  LET largest_pow2 == 2^Log2(end - start)
      divide == ((start + largest_pow2 - 1) \div largest_pow2) * largest_pow2
  IN  Min({MaxOrder, IF p < divide THEN Ctz(p) ELSE Log2(end - p)})

\* The blocks that the two loops of Init free.
Pieces(start, end) ==
  LET from[p \in start .. end] ==
        IF p = end THEN {}
        ELSE LET o == PieceOrder(p, start, end) IN {<<p, o>>} \cup from[p + 2^o]
  IN  from[start]

Released(R, n) == UNION {Pieces(r[1], r[2]) : r \in {s \in R : s[3] = n}}

Init ==
  /\ ranges \in RangeSets
  /\ lists = [n \in Node |-> [o \in Order |->
       SetToSortSeq({b[1] : b \in {c \in Released(ranges, n) : c[2] = o}}, >)]]
  /\ LET all == UNION {Released(ranges, n) : n \in Node}
         heads == {b[1] : b \in all}
     IN  /\ usage = [p \in Pfn |-> IF p \in heads THEN "page_allocator" ELSE "reserved"]
         /\ order = [p \in Pfn |-> IF p \in heads THEN (CHOOSE b \in all : b[1] = p)[2] ELSE 0]
  /\ allocations = [n \in Node |-> {}]
  /\ asserted = TRUE

-----------------------------------------------------------------------------
(* Alloc.                                                                   *)

Suitable(n, o, max_addr) == SelectSeq(lists[n][o], LAMBDA p : p < max_addr)
Orders(n, o, max_addr) == {k \in o .. MaxOrder : Suitable(n, k, max_addr) # <<>>}

\* AllocateAndCheck: no recorded allocation of the node overlaps the block.
AllocateAndCheck(n, b) == \A c \in allocations[n] : ~Overlap(b, c)

\* The lists of n after p is taken from order k and its upper halves are freed.
Split(n, p, o, k) ==
  [j \in Order |-> IF j = k THEN Remove(lists[n][j], p)
                   ELSE IF o <= j /\ j < k THEN <<PfnToBuddy(p, j)>> \o lists[n][j]
                   ELSE lists[n][j]]

\* Seeded fault: the page is not marked as in use.
InUseForgotten(p) == "page_allocator"

InUse(p) == "in_use"

\* Take the first block of the smallest order that has one below max_addr.
AllocLocal(n, o, max_addr) ==
  LET k == Min(Orders(n, o, max_addr))
      p == Head(Suitable(n, k, max_addr))
      halves == {<<PfnToBuddy(p, j), j>> : j \in o .. k - 1}
  IN
  /\ Orders(n, o, max_addr) # {}
  /\ lists' = [lists EXCEPT ![n] = Split(n, p, o, k)]
  /\ usage' = [q \in Pfn |-> IF q = p THEN InUse(p)
                             ELSE IF \E b \in halves : b[1] = q THEN "page_allocator"
                             ELSE usage[q]]
  /\ order' = [q \in Pfn |-> IF \E b \in halves : b[1] = q
                             THEN (CHOOSE b \in halves : b[1] = q)[2] ELSE order[q]]
  /\ asserted' = (asserted /\ AllocateAndCheck(n, <<p, o>>))
  /\ allocations' = [allocations EXCEPT ![n] = @ \cup {<<p, o>>}]
  /\ UNCHANGED ranges

\* The slab allocator marks the first page of its block and keeps its own data
\* in the union that holds the order, so the order is arbitrary afterwards.
AddSlab(b) ==
  /\ b \in Held /\ usage[b[1]] = "in_use"
  /\ usage' = [usage EXCEPT ![b[1]] = "slab"]
  /\ \E o \in Order : order' = [order EXCEPT ![b[1]] = o]
  /\ UNCHANGED <<ranges, lists, allocations, asserted>>

-----------------------------------------------------------------------------
(* Free.                                                                    *)

\* What the descriptor of the buddy says.
BuddyFree(p, o) ==
  LET b == PfnToBuddy(p, o) IN b \in Pfn /\ usage[b] = "page_allocator" /\ order[b] = o

\* The order at which the loop stops: pfn is the minimum of the block and its
\* buddy, hence p rounded down, as long as every buddy on the way is free.
TopOrder(p, o) ==
  Max({k \in o .. MaxOrder : \A j \in o .. k - 1 : BuddyFree(Down(p, j), j)})

Buddies(p, o) == {<<PfnToBuddy(Down(p, j), j), j>> : j \in o .. TopOrder(p, o) - 1}

\* Unlinking an entry takes it out of whichever list it is linked into.
Unlink(l, S) == [m \in Node |-> [j \in Order |-> SelectSeq(l[m][j], LAMBDA p : <<p, j>> \notin S)]]

\* A core of node n frees a block that an Alloc on some node m returned.
Free(n, b) ==
  LET p == b[1]
      k == TopOrder(p, b[2])
      q == Down(p, k)
  IN
  /\ \E m \in Node : b \in allocations[m] /\ n \in FreedOn[m]
  /\ asserted' = (asserted /\ b \in allocations[n])
  /\ allocations' = [m \in Node |-> IF m = n \/ b \notin allocations[n]
                                    THEN allocations[m] \ {b} ELSE allocations[m]]
  /\ lists' = [Unlink(lists, Buddies(p, b[2])) EXCEPT ![n][k] = <<q>> \o @]
  /\ usage' = [usage EXCEPT ![q] = "page_allocator"]
  /\ order' = [order EXCEPT ![q] = k]
  /\ UNCHANGED ranges

Next ==
  \/ \E n \in Node, o \in Order, max_addr \in Limits : AllocLocal(n, o, max_addr)
  \/ \E b \in Held : AddSlab(b)
  \/ \E n \in Node, b \in Held : Free(n, b)

Spec == Init /\ [][Next]_vars

-----------------------------------------------------------------------------
(* Properties.                                                              *)

\* Validate() of PAGE_CHECKER: the descriptor of a listed page says it is free
\* with the order of its list, and no two listed blocks of a node overlap.
Validate ==
  \A n \in Node : \A b \in FreeBlocks(n) :
    /\ usage[b[1]] = "page_allocator" /\ order[b[1]] = b[2]
    /\ \A c \in FreeBlocks(n) : b # c => ~Overlap(b, c)

\* Descriptors inside merged or allocated blocks are left as they were.  Free
\* is never misled by one: a buddy it takes to be free is in the free list, and
\* every listed page has the descriptor that Validate() asks for.
TagsNeverMislead ==
  /\ Validate
  /\ \A n \in Node : \A b \in allocations[n] : Buddies(b[1], b[2]) \subseteq FreeBlocks(n)

\* Every page given to Init is in exactly one free or allocated block, and
\* blocks are aligned to their size.  When everything has been freed the node
\* holds the blocks it began with, whatever was split and merged in between.
PagesConserved ==
  LET blocks == Held \cup UNION {FreeBlocks(n) : n \in Node} IN
  /\ UNION {Pages(b) : b \in blocks} = UNION {r[1] .. r[2] - 1 : r \in ranges}
  /\ \A b, c \in blocks : b # c => ~Overlap(b, c)
  /\ \A b \in blocks : b[1] % 2^b[2] = 0
  /\ \A n \in Node : Held \cap FreeBlocks(n) = {}
  /\ Held = {} => \A n \in Node : FreeBlocks(n) = Released(ranges, n)

\* kassert(AllocateAndCheck(pfn, order)) and kassert(Release(pfn, order)).
AssertionsHold == asserted
=============================================================================
