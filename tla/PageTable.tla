----------------------------- MODULE PageTable -----------------------------
(***************************************************************************)
(* The page tables (src/src/native/VMem.cc and VMem.h): the recursive walk *)
(* TraversePageTable and the operations that use it.  The boot core maps   *)
(* memory one to one; a core that starts later gets a copy of the boot     *)
(* core's top table, so that only the tables below it are shared.          *)
(*                                                                         *)
(* An address has PageBits bits inside a page (12) and IndexBits for each  *)
(* of Levels levels (9 and 4); the highest of them is repeated once more,  *)
(* for the sixteen copies of bit 47 of a canonical address.                *)
(***************************************************************************)
EXTENDS Integers, Sequences, FiniteSets

CONSTANTS PageBits, IndexBits, Levels,
          Core, Boot,  \* the cores; the first one
          Early,       \* <<address, length>> pairs that are mapped early
          Later,       \* <<first page, physical page, length>> that MapMemory is given
          MaxOps,      \* bound: operations
          None

NumPageSizes == 2
PageSize == 2 ^ PageBits
Entries == 2 ^ IndexBits
Span == 2 ^ (PageBits + Levels * IndexBits)

VARIABLES tables,  \* of each table: its entries; the place of a table is its number
          root,    \* of each core: its top table, or None before it has one
          bad,     \* None, or how the last operation went wrong
          last,    \* the last operation
          ref, was,  \* history: of each core, the physical page of each page; that before last
          used,    \* history: of each core, pages that have been mapped at some time
          split,   \* history: parts of the address space that the cores map on their own
          ops

ptVars == <<tables, root, bad, last, ref, was, used, split, ops>>

NewTable == [i \in 0 .. Entries - 1 |-> None]

PtIndex(a, level) == (a \div 2 ^ (PageBits + level * IndexBits)) % Entries
Canonical(a) == LET low == a % Span IN IF low >= Span \div 2 THEN low + Span ELSE low
Smaller(a, b) == IF a < b THEN a ELSE b
Larger(a, b) == IF a > b THEN a ELSE b

-----------------------------------------------------------------------------
(* The walk.  w is [tables, bad]; op says what is done with an entry.        *)

Fail(w, how) == [w EXCEPT !.bad = IF @ = None THEN how ELSE @]

\* found: a whole page of the level lies in the range.
Found(w, t, i, base, level, op) ==
  LET e == w.tables[t][i]
      set(to) == [w EXCEPT !.tables[t][i] =
                    [kind |-> IF level > 0 THEN "large" ELSE "page", to |-> to]]
  IN CASE op.name = "early" ->
            IF e = None THEN set(base)
            ELSE IF e.kind = "table" \/ e.to # base THEN Fail(w, "assert") ELSE w
       [] op.name = "map" ->
            IF e = None THEN set(op.to + (base - op.from)) ELSE Fail(w, "assert")
       [] op.name = "unmap" ->
            IF e = None THEN Fail(w, "assert") ELSE [w EXCEPT !.tables[t][i] = None]

\* empty: there is no table below the entry yet.
Empty(w, t, i, op) ==
  IF op.name = "unmap" THEN Fail(w, "abort")
  ELSE LET new == [kind |-> "table", to |-> Len(w.tables) + 1]
       IN [w EXCEPT !.tables = Append([@ EXCEPT ![t][i] = new], NewTable)]

RECURSIVE TraversePageTable(_, _, _, _, _, _, _), Loop(_, _, _, _, _, _, _, _, _)

\* The entries i .. last of table t, from address base on.
Loop(w, t, i, end, lo, hi, base, level, op) ==
  LET step == 2 ^ (PageBits + level * IndexBits)
      e == w.tables[t][i]
      v == IF level < NumPageSizes /\ lo <= base /\ hi >= base + step
           THEN Found(w, t, i, base, level, op)
           ELSE IF level = 0 THEN Fail(w, "underflow")
           ELSE IF e # None THEN TraversePageTable(w, e, lo, hi, base, level, op)
           ELSE LET made == Empty(w, t, i, op)
                IN IF made.bad # None THEN made
                   ELSE TraversePageTable(made, made.tables[t][i], lo, hi, base, level, op)
  IN IF i > end \/ w.bad # None THEN w
     ELSE Loop(v, t, i + 1, end, lo, hi, Canonical(base + step), level, op)

\* Seeded fault: the last entry is that of the address after the range.
TraversePageTablePast(w, entry, lo, hi, base, above, op) ==
  LET level == above - 1
      step == 2 ^ (PageBits + level * IndexBits)
      first == PtIndex(Larger(lo, base), level)
      end == PtIndex(Smaller(hi, Canonical(base + step * Entries - 1)), level)
  IN IF entry.kind # "table" THEN Fail(w, "large")
     ELSE Loop(w, entry.to, first, end, lo, hi, base + Canonical(first * step), level, op)

\* What entry points to is taken as a table, even if it is a large page.
TraversePageTable(w, entry, lo, hi, base, above, op) ==
  LET level == above - 1
      step == 2 ^ (PageBits + level * IndexBits)
      first == PtIndex(Larger(lo, base), level)
      end == PtIndex(Smaller(hi - 1, Canonical(base + step * Entries - 1)), level)
  IN IF entry.kind # "table" THEN Fail(w, "large")
     ELSE Loop(w, entry.to, first, end, lo, hi, base + Canonical(first * step), level, op)

-----------------------------------------------------------------------------
(* Operations.                                                              *)

Pages(lo, hi) == {p \in 0 .. 2 * (Span \div PageSize) : p * PageSize < hi /\ (p + 1) * PageSize > lo}

\* The range [lo, hi) of core c's address space is traversed for op.
Traverse(c, lo, hi, op, to) ==
  LET w == TraversePageTable([tables |-> tables, bad |-> None],
                             [kind |-> "table", to |-> root[c]], lo, hi, 0, Levels, op)
      sees(d, p) == root[d] # None /\ (d = c \/ PtIndex(p * PageSize, Levels - 1) \notin split)
  IN /\ bad = None /\ ops < MaxOps /\ ops' = ops + 1
     /\ tables' = w.tables /\ bad' = w.bad
     /\ last' = [op |-> op.name, core |-> c, lo |-> lo, hi |-> hi]
     /\ was' = ref
     /\ ref' = [d \in Core |-> [p \in DOMAIN ref[d] |->
                  IF p \in Pages(lo, hi) /\ sees(d, p) THEN to[p] ELSE ref[d][p]]]
     /\ used' = [d \in Core |-> used[d] \cup {p \in DOMAIN ref[d] : ref[d][p] # None}]
     /\ UNCHANGED <<root, split>>

Alone == \A c \in Core \ {Boot} : root[c] = None
AlignDown(a) == a - (a % PageSize)
AlignUp(a) == AlignDown(a + PageSize - 1)

EarlyMapMemory(addr, length) ==
  LET lo == AlignDown(addr)
      hi == lo + AlignUp(length + (addr - lo))
  IN Alone /\ Traverse(Boot, lo, hi, [name |-> "early"], [p \in Pages(lo, hi) |-> p])

EarlyUnmapMemory(addr, length) ==
  LET lo == AlignDown(addr)
      hi == lo + AlignUp(length + (addr - lo))
  IN Alone /\ Traverse(Boot, lo, hi, [name |-> "unmap"], [p \in Pages(lo, hi) |-> None])

\* MapMemory, and MapMemoryLarge, which differs in how the address is passed.
MapMemory(c, vfn, pfn, length) ==
  LET lo == vfn * PageSize
  IN /\ root[c] # None
     /\ Traverse(c, lo, lo + length, [name |-> "map", from |-> lo, to |-> pfn * PageSize],
                 [p \in Pages(lo, lo + length) |-> pfn + (p - vfn)])

\* The entries of the top table are copied.
ApInit(c) ==
  /\ root[c] = None /\ bad = None
  /\ root' = [root EXCEPT ![c] = Len(tables) + 1]
  /\ tables' = Append(tables, tables[root[Boot]])
  /\ ref' = [ref EXCEPT ![c] = ref[Boot]] /\ was' = was
  /\ used' = [used EXCEPT ![c] = used[Boot] \cup {p \in DOMAIN ref[c] : ref[Boot][p] # None}]
  /\ split' = {i \in 0 .. Entries - 1 : tables[root[Boot]][i] = None}
  /\ UNCHANGED <<bad, last, ops>>

PtInit ==
  /\ tables = <<NewTable>>
  /\ root = [c \in Core |-> IF c = Boot THEN 1 ELSE None]
  /\ bad = None /\ last = None /\ split = {} /\ ops = 0
  /\ ref = [c \in Core |-> [p \in 0 .. 2 * (Span \div PageSize) - 1 |-> None]] /\ was = ref
  /\ used = [c \in Core |-> {}]

PtNext ==
  \/ \E r \in Early : EarlyMapMemory(r[1], r[2]) \/ EarlyUnmapMemory(r[1], r[2])
  \/ \E c \in Core, r \in Later : MapMemory(c, r[1], r[2], r[3])
  \/ \E c \in Core \ {Boot} : ApInit(c)

PtSpec == PtInit /\ [][PtNext]_ptVars

-----------------------------------------------------------------------------
\* The processor's walk: the physical page of page p on core c.
RECURSIVE Walk(_, _, _)
Walk(t, p, level) ==
  LET e == tables[t][PtIndex(p * PageSize, level)]
      inside == p % (2 ^ (level * IndexBits))
  IN IF e = None THEN None
     ELSE IF e.kind = "table" THEN Walk(e.to, p, level - 1) ELSE e.to \div PageSize + inside

CanonicalPage(p) == Canonical(p * PageSize) = p * PageSize

\* After any sequence of operations the tables of each core map exactly what was asked
\* for, at every page and for large pages too: a mapping made under a top entry that the
\* cores share is seen by all of them, any other by its own core only.  An operation goes
\* wrong only for a reason in its range: a page that was mapped before or whose table is
\* still there from when it was, one that was not mapped when it is unmapped, a large page
\* that is only partly in the range, or a length that is no whole number of pages.
MappingsRight ==
  /\ bad = None => \A c \in Core : root[c] # None =>
       \A p \in DOMAIN ref[c] : CanonicalPage(p) => Walk(root[c], p, Levels - 1) = ref[c][p]
  /\ bad # None =>
       LET range == Pages(last.lo, last.hi)
           mapped == {p \in range : was[last.core][p] # None}
           near == {p \in range : \E q \in used[last.core] : p \div Entries = q \div Entries}
       IN CASE bad = "underflow" -> last.hi % PageSize # 0
            [] bad = "large" -> mapped # {}
            [] bad = "assert" /\ last.op # "unmap" -> near # {}
            [] OTHER -> mapped # range
=============================================================================
