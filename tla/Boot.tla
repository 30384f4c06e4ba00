-------------------------------- MODULE Boot --------------------------------
(***************************************************************************)
(* From the multiboot memory map to a machine with all its cores running:  *)
(* Main (src/src/native/Main.cc) up to and including smp::Init, the        *)
(* parsers of the ACPI tables, the NUMA tables, the early page allocator   *)
(* and the memory map, and the start of the other cores (Smp.cc, Boot.S).  *)
(*                                                                         *)
(* One core runs until the interrupts of smp::Init start the others, so up *)
(* to there a step is a whole call.  Addresses are small numbers.          *)
(***************************************************************************)
EXTENDS Sequences, SequencesExt, FiniteSetsExt, SpinBarrier

CONSTANTS PageSize,       \* pmem::kPageSize
          AnyNid,         \* Nid::Any()
          Machines,       \* what the firmware reports: see MachineType
          Kend,           \* address of the end of the kernel image
          InitialMapEnd,  \* initial_map_end
          SectionPages,   \* kPagesPerSection
          MapPages,       \* section_map_pages
          MaxTables,      \* bound: page-table pages one EarlyMapMemory takes
          NoNode

-----------------------------------------------------------------------------
(* The allocator of physical pages used until the page allocator is up      *)
(* (EarlyPageAllocator.cc).  free_pages is a set of disjoint ranges         *)
(* [start, end, nid] of page frame numbers, which the code keeps in a tree  *)
(* ordered by start; an operator returns the set that a call leaves behind. *)

Up(addr) == (addr + PageSize - 1) \div PageSize
Down(addr) == addr \div PageSize

PageRange(s, e, n) == [start |-> s, end |-> e, nid |-> n]
PagesOf(F) == UNION {r.start .. r.end - 1 : r \in F}

\* FreePageRange: insert the range and coalesce it with its two neighbours.
\* The joined range keeps the nid of the lower one.
FreePageRange(F, s, e, n) ==
  LET prior == {r \in F : r.end = s}
      next  == {r \in F : r.start = e}
  IN  (F \ (prior \cup next)) \cup
      {PageRange(Min({r.start : r \in prior} \cup {s}), Max({r.end : r \in next} \cup {e}),
                 IF prior = {} THEN n ELSE (CHOOSE r \in prior : TRUE).nid)}

RECURSIVE FreeMemoryRange(_, _, _, _, _)

\* FreeMemoryRange: subtract the reserved ranges one by one.  When one lies
\* inside, the upper part goes on and the lower part is freed by a recursive
\* call of its own (left_subtract leaves what is above the reserved range).
FreeMemoryRange(F, reserved, i, lo, hi) ==
  IF i > Len(reserved)
  THEN IF hi - lo < PageSize \/ Down(hi) <= Up(lo) THEN F
       ELSE FreePageRange(F, Up(lo), Down(hi), AnyNid)
  ELSE LET b == reserved[i][1]  e == reserved[i][2] IN
       IF Max({lo, b}) >= Min({hi, e}) THEN FreeMemoryRange(F, reserved, i + 1, lo, hi)
       ELSE IF b <= lo /\ hi <= e THEN F
       ELSE IF hi <= e THEN FreeMemoryRange(F, reserved, i + 1, lo, b)
       ELSE IF b <= lo THEN FreeMemoryRange(F, reserved, i + 1, e, hi)
       ELSE FreeMemoryRange(FreeMemoryRange(F, reserved, 1, lo, b), reserved, i + 1, e, hi)

\* AllocatePage: the end of the first range that is on the node and large
\* enough.  "from" is empty when the call aborts.
AllocatePage(F, npages, nid) ==
  LET fits == {r \in F : (nid = AnyNid \/ r.nid = nid) /\ r.end - npages >= r.start}
  IN  IF fits = {} THEN [free |-> F, pages |-> {}]
      ELSE LET it == CHOOSE r \in fits : \A q \in fits : r.start <= q.start
               rest == {r \in {[it EXCEPT !.end = @ - npages]} : r.start # r.end}
           IN  [free |-> (F \ {it}) \cup rest, pages |-> it.end - npages .. it.end - 1]

\* SetNidRange: label what lies in start .. end - 1.  A range that begins
\* below start is cut at start, and what it has above end is not put back.
CutRange(r, s, e, n) ==
  IF r.end <= s \/ r.start >= e THEN {r}
  ELSE IF r.start < s THEN {[r EXCEPT !.end = s], PageRange(s, Min({e, r.end}), n)}
  ELSE IF r.end > e THEN {PageRange(r.start, e, n), PageRange(e, r.end, AnyNid)}
  ELSE {[r EXCEPT !.nid = n]}

SetNidRange(F, s, e, n) == UNION {CutRange(r, s, e, n) : r \in F}

-----------------------------------------------------------------------------
VARIABLES machine, stage,
          i,          \* index of the loop that stage is in
          reserved,   \* reserved_ranges
          free,       \* free_pages
          taken,      \* pages handed out, each with its use
          cpus,       \* cpus: a sequence of [apic, nid]
          nodes,      \* numa::nodes: a sequence of [pxm, blocks]
          section,    \* the nid given to the pages of each section, or NoNode
          stacks,     \* smp_stack_free
          rax,        \* the list each core has read, while it takes a stack
          pc          \* where each core is on its way up

boot == <<machine, stage, i, reserved, free, taken, cpus, nodes, section, stacks, rax, pc>>
vars == <<boot, barrier>>

Usable(m) == SelectSeq(m.e820, LAMBDA e : e[3] = 1)
Pages(use) == {x[1] : x \in {y \in taken : y[2] = use}}

Init ==
  /\ machine \in Machines
  /\ stage = "e820" /\ i = 1
  /\ reserved = <<>> /\ free = {} /\ taken = {}
  /\ cpus = <<[apic |-> 0, nid |-> NoNode]>>
  /\ nodes = <<>>
  /\ section = [s \in 0 .. machine.sections - 1 |-> NoNode]
  /\ stacks = <<>>
  /\ rax = [t \in Thread |-> <<>>]
  /\ pc = [t \in Thread |-> "off"]
  /\ BarrierInit

-----------------------------------------------------------------------------
(* Memory.                                                                  *)

\* e820::Init.
Sorted(map) == SortSeq(map, LAMBDA a, b : a[1] < b[1])

\* e820::Init sorts the map; multiboot::Reserve records what must be kept.
Reserve ==
  /\ stage = "e820"
  /\ machine' = [machine EXCEPT !.e820 = Sorted(@)]
  /\ reserved' = machine.reserve
  /\ stage' = "low"
  /\ UNCHANGED <<i, free, taken, cpus, nodes, section, stacks, rax, pc, barrier>>

\* Entry::TrimBelow and Entry::TrimAbove, on <<addr, addr + length>>.
TrimBelow(e, a) == IF e[1] > a \/ e[2] < a THEN e ELSE <<a, e[2]>>
TrimAbove(e, a) == IF e[1] > a \/ e[2] < a THEN e ELSE <<e[1], a>>

LowPart(e) == TrimAbove(TrimBelow(e, Kend), InitialMapEnd)

Allocations(F, requests) ==
  FoldLeft(LAMBDA acc, r :
             LET a == AllocatePage(acc.free, r[1], r[2])
             IN  [free |-> a.free, pages |-> acc.pages \cup a.pages, ok |-> acc.ok /\ a.pages # {}],
           [free |-> F, pages |-> {}, ok |-> TRUE], requests)

\* AllocatePage for a list of <<npages, nid>>: continue at next, or abort.
Take(F, requests, use, next, j) ==
  LET a == Allocations(F, requests) IN
  /\ free' = a.free
  /\ taken' = taken \cup (a.pages \X {use})
  /\ stage' = IF a.ok THEN next ELSE "abort"
  /\ i' = j

\* First pass over the usable entries: what lies in the initial map is freed,
\* then the entry is mapped, which takes pages for the page tables.
LowRegion ==
  /\ stage = "low" /\ i <= Len(Usable(machine))
  /\ LET u == Usable(machine)[i]
         e == <<u[1], u[1] + u[2]>>
         p == LowPart(e)
         F == IF p[1] < InitialMapEnd
              THEN FreeMemoryRange(free, reserved, 1, p[1], p[2]) ELSE free
     IN  IF e[2] <= Kend
         THEN i' = i + 1 /\ UNCHANGED <<free, taken, stage>>
         ELSE \E k \in 0 .. MaxTables :
                Take(F, [j \in 1 .. k |-> <<1, AnyNid>>], "table", "low", i + 1)
  /\ UNCHANGED <<machine, reserved, cpus, nodes, section, stacks, rax, pc, barrier>>

EnableRuntimePageTable ==
  /\ stage = "low" /\ i > Len(Usable(machine))
  /\ stage' = "high" /\ i' = 1
  /\ UNCHANGED <<machine, reserved, free, taken, cpus, nodes, section, stacks, rax, pc, barrier>>

\* Second pass: the rest of the memory is freed.
HighRegion ==
  /\ stage = "high" /\ i <= Len(Usable(machine))
  /\ LET u == Usable(machine)[i]
         e == <<u[1], u[1] + u[2]>>
         p == TrimBelow(e, InitialMapEnd)
     IN  free' = IF e[2] < InitialMapEnd THEN free
                 ELSE FreeMemoryRange(free, reserved, 1, p[1], p[2])
  /\ i' = i + 1
  /\ UNCHANGED <<machine, stage, reserved, taken, cpus, nodes, section, stacks, rax, pc, barrier>>

-----------------------------------------------------------------------------
(* ACPI and NUMA tables.                                                    *)

\* ParseMadt: the first enabled core is the one that is running.
ParseMadt(madt) ==
  LET on == SelectSeq(madt, LAMBDA e : e.type = "lapic" /\ e.enabled)
  IN  IF on = <<>> THEN cpus
      ELSE [k \in 1 .. Len(on) |-> [apic |-> on[k].apic, nid |-> NoNode]]

\* Entries for which the parser only advances; any other one aborts.
Skipped == {"lapic", "ioapic", "override", "lapic_nmi"}

\* SetupNode: the node of a proximity domain, created when it is new.
SetupNode(N, pxm) ==
  IF \E k \in DOMAIN N : N[k].pxm = pxm THEN N ELSE Append(N, [pxm |-> pxm, blocks |-> {}])
NodeOf(N, pxm) == CHOOSE k \in DOMAIN N : N[k].pxm = pxm

\* One entry of ParseSrat, on [nodes, cpus, stage].
SratEntry(s, e) ==
  IF s.stage # "numa" THEN s
  ELSE IF e.type = "cpu"
  THEN IF ~e.enabled THEN s
       ELSE LET N == SetupNode(s.nodes, e.pxm)
                own == {k \in DOMAIN s.cpus : s.cpus[k].apic = e.apic}
            IN  IF own = {} THEN [s EXCEPT !.stage = "abort"]
                ELSE [s EXCEPT !.nodes = N, !.cpus[Min(own)].nid = NodeOf(N, e.pxm)]
  ELSE IF e.type = "mem"
  THEN IF ~e.enabled THEN s
       ELSE LET N == SetupNode(s.nodes, e.pxm)
            IN  [s EXCEPT !.nodes = [N EXCEPT ![NodeOf(N, e.pxm)].blocks =
                                       @ \cup {<<Up(e.base), Down(e.base + e.len)>>}]]
  ELSE IF e.type = "x2apic" THEN [s EXCEPT !.stage = "abort"]
  ELSE [s EXCEPT !.stage = "hang"]   \* no default case: the offset stays where it is

\* Without an SRAT there is one node, with every core and every usable region.
OneNode(C) ==
  [nodes |-> <<[pxm |-> 0, blocks |-> {<<Up(u[1]), Down(u[1] + u[2])>> : u \in ToSet(Usable(machine))}]>>,
   cpus  |-> [k \in DOMAIN C |-> [C[k] EXCEPT !.nid = 1]],
   stage |-> "numa"]

BootInit ==
  /\ stage = "high" /\ i > Len(Usable(machine))
  /\ LET C == ParseMadt(machine.madt)
         s == IF \E e \in ToSet(machine.madt) : e.type \notin Skipped
              THEN [nodes |-> nodes, cpus |-> cpus, stage |-> "abort"]
              ELSE IF machine.srat = <<>> THEN OneNode(C)
              ELSE FoldLeft(SratEntry, [nodes |-> nodes, cpus |-> C, stage |-> "numa"], machine.srat)
     IN  nodes' = s.nodes /\ cpus' = s.cpus /\ stage' = s.stage
  /\ i' = 1
  /\ UNCHANGED <<machine, reserved, free, taken, section, stacks, rax, pc, barrier>>

\* numa::Init: label the memory of node i, block after block.
NumaInit ==
  /\ stage = "numa" /\ i <= Len(nodes)
  /\ free' = FoldLeft(LAMBDA F, b : SetNidRange(F, b[1], b[2], i), free,
                      SetToSortSeq(nodes[i].blocks, LAMBDA a, b : a[1] < b[1]))
  /\ i' = i + 1
  /\ UNCHANGED <<machine, stage, reserved, taken, cpus, nodes, section, stacks, rax, pc, barrier>>

\* The sections that a block touches, and mem_map::Init: the first node with
\* memory in a section gets it, and its descriptors are allocated there.
Sections(b) == IF b[1] >= b[2] THEN {} ELSE b[1] \div SectionPages .. (b[2] - 1) \div SectionPages
SectionNode(s) ==
  LET in == {k \in DOMAIN nodes : \E b \in nodes[k].blocks : s \in Sections(b)}
  IN  IF in = {} THEN NoNode ELSE Min(in)

MemMapInit ==
  /\ stage = "numa" /\ i > Len(nodes)
  /\ section' = [s \in DOMAIN section |-> SectionNode(s)]
  /\ LET present == SetToSortSeq({s \in DOMAIN section : SectionNode(s) # NoNode}, <)
     IN  Take(free, [k \in DOMAIN present |-> <<MapPages, SectionNode(present[k])>>], "map", "trans", 1)
  /\ UNCHANGED <<machine, reserved, cpus, nodes, stacks, rax, pc, barrier>>

\* trans::Init: the page of the translation table and the tables above it.
TransInit ==
  /\ stage = "trans"
  /\ \E k \in 1 .. 1 + MaxTables :
       Take(free, [j \in 1 .. k |-> <<1, cpus[1].nid>>], "trans", "smp", 1)
  /\ UNCHANGED <<machine, reserved, cpus, nodes, section, stacks, rax, pc, barrier>>

-----------------------------------------------------------------------------
(* The other cores.  Core t has index t in cpus, with core 1 running.       *)

\* The pages that PageAllocator::Init was given and that are still free.
Free(nid) == PagesOf({r \in free : r.nid = nid}) \ {x[1] : x \in taken}

\* smp::Init: a stack for every other core, chained through its first word.
SmpInit ==
  /\ stage = "smp" /\ Len(stacks) < Len(cpus) - 1
  /\ LET fits == {p \in Free(cpus[1].nid) : (p + 1) * PageSize <= InitialMapEnd}
     IN  IF fits = {} THEN stage' = "abort" /\ UNCHANGED <<stacks, taken>>
         ELSE /\ stacks' = <<Min(fits)>> \o stacks
              /\ taken' = taken \cup {<<Min(fits), "stack">>}
              /\ UNCHANGED stage
  /\ UNCHANGED <<machine, i, reserved, free, cpus, nodes, section, rax, pc, barrier>>

\* The start-up interrupts go out one after the other.
SendIpi ==
  /\ stage = "smp" /\ Len(stacks) = Len(cpus) - 1
  /\ stage' = IF Len(cpus) = 1 THEN "sent" ELSE "ipi"
  /\ UNCHANGED <<machine, i, reserved, free, taken, cpus, nodes, section, stacks, rax, pc, barrier>>

Startup ==
  /\ stage = "ipi"
  /\ i' = i + 1
  /\ pc' = [pc EXCEPT ![i + 1] = "head"]
  /\ stage' = IF i + 1 = Len(cpus) THEN "sent" ELSE "ipi"
  /\ UNCHANGED <<machine, reserved, free, taken, cpus, nodes, section, stacks, rax, barrier>>

\* smpboot64: load the head and the entry after it, which nobody changes while
\* the page is in the list, then compare and exchange.
LoadHead(t) ==
  /\ pc[t] = "head"
  /\ pc' = [pc EXCEPT ![t] = "swap"]
  /\ rax' = [rax EXCEPT ![t] = stacks]
  /\ UNCHANGED <<machine, stage, i, reserved, free, taken, cpus, nodes, section, stacks, barrier>>

\* Seeded fault: the exchange is not conditional on the head being unchanged.
TakeStackAlways(t) ==
  /\ pc[t] = "swap"
  /\ stacks' = Tail(rax[t])
  /\ pc' = [pc EXCEPT ![t] = "main"]
  /\ UNCHANGED <<machine, stage, i, reserved, free, taken, cpus, nodes, section, rax, barrier>>

TakeStack(t) ==
  /\ pc[t] = "swap"
  /\ IF stacks = rax[t]
     THEN stacks' = Tail(rax[t]) /\ pc' = [pc EXCEPT ![t] = "main"]
     ELSE pc' = [pc EXCEPT ![t] = "head"] /\ UNCHANGED stacks
  /\ UNCHANGED <<machine, stage, i, reserved, free, taken, cpus, nodes, section, rax, barrier>>

\* Core t takes k pages of its node, which is fatal when there are not enough.
TakePages(t, k, from, to) ==
  LET own == Free(cpus[t].nid)
      pages == {q \in own : Cardinality({r \in own : r < q}) < k}
  IN
  /\ pc[t] = from
  /\ IF Cardinality(own) < k THEN stage' = "abort" /\ UNCHANGED <<taken, pc>>
     ELSE /\ taken' = taken \cup {<<p, "core">> : p \in pages}
          /\ pc' = [pc EXCEPT ![t] = to]
          /\ UNCHANGED stage
  /\ UNCHANGED <<machine, i, reserved, free, cpus, nodes, section, stacks, rax, barrier>>

\* SmpMain: the root of the core's page table, then its translation table with
\* the tables above it, then its interrupt stack.
VMemApInit(t) == TakePages(t, 1, "main", "trans")
TransApInit(t) == \E k \in 1 .. 1 + MaxTables : TakePages(t, k, "trans", "cpu")
CpuInit(t) == TakePages(t, 1, "cpu", "up")

\* smp_barrier->Wait() on the core that booted and, as an event, on the others.
WaitForAll(t) ==
  /\ IF t = 1 THEN stage = "sent" ELSE pc[t] = "up"
  /\ WaitStep(t, Len(cpus))
  /\ UNCHANGED boot

Done ==
  /\ stage \in {"abort", "hang"} \/ (entered[1] = 1 /\ \A t \in DOMAIN cpus : at[t] = "out" /\ entered[t] = 1)
  /\ UNCHANGED vars

Next ==
  \/ Reserve \/ LowRegion \/ EnableRuntimePageTable \/ HighRegion
  \/ BootInit \/ NumaInit \/ MemMapInit \/ TransInit
  \/ SmpInit \/ SendIpi \/ Startup
  \/ \E t \in DOMAIN cpus : \/ LoadHead(t) \/ TakeStack(t)
                           \/ VMemApInit(t) \/ TransApInit(t) \/ CpuInit(t) \/ WaitForAll(t)
  \/ Done

-----------------------------------------------------------------------------
(* Properties.                                                              *)

\* Pages of memory that the firmware reports as usable, above the kernel,
\* without a reserved byte.
Available ==
  {p \in 0 .. SectionPages * machine.sections - 1 :
     /\ p * PageSize >= Kend
     /\ \E u \in ToSet(Usable(machine)) : u[1] <= p * PageSize /\ (p + 1) * PageSize <= u[1] + u[2]
     /\ \A r \in ToSet(machine.reserve) : r[2] <= p * PageSize \/ (p + 1) * PageSize <= r[1]}

Labelled == stage \in {"trans", "smp", "ipi", "sent"} \/ (stage = "numa" /\ i > Len(nodes))

\* A page goes to the allocator of the node whose block holds it, and where no
\* other node has memory in its section the page descriptor says the same.
NodesAgree ==
  Labelled =>
    \A r \in free : \A p \in r.start .. r.end - 1 :
      LET holders == {k \in DOMAIN nodes : \E b \in nodes[k].blocks : b[1] <= p /\ p < b[2]}
          sharers == {k \in DOMAIN nodes : \E b \in nodes[k].blocks : p \div SectionPages \in Sections(b)}
      IN  /\ r.nid = AnyNid <=> holders = {}
          /\ r.nid # AnyNid => r.nid \in holders
          /\ stage \in {"trans", "smp", "ipi", "sent"} /\ sharers = {r.nid}
               => section[p \div SectionPages] = r.nid

\* The ranges of free_pages are disjoint, hold no page that was handed out,
\* and neither does one hold memory that is not there to be used.  Once
\* FreeMemoryRange has seen the whole map, all that memory is accounted for,
\* except what SetNidRange drops above a block that ends in the middle of the
\* free range it begins in.
MemoryAccounted ==
  LET out == {x[1] : x \in taken} IN
  /\ \A r, q \in free : r.start < r.end /\ (r # q => r.end <= q.start \/ q.end <= r.start)
  /\ PagesOf(free) \cup out \subseteq Available
  /\ stage \notin {"smp", "ipi", "sent", "abort"} => PagesOf(free) \cap out = {}
  /\ stage = "numa" \/ Labelled =>
       \A p \in Available \ (PagesOf(free) \cup out) :
         \E k \in DOMAIN nodes : \E b \in nodes[k].blocks :
           b[2] <= p /\ b[1] - 1 .. p \subseteq Available

\* No two cores run on the same stack, although they take them from one list
\* without a lock, and smp::Init returns only when every core is up.
CoresApart ==
  LET running == {t \in DOMAIN cpus : pc[t] \in {"main", "trans", "cpu", "up"}} IN
  /\ \A t, u \in running : t # u => Head(rax[t]) # Head(rax[u])
  /\ Meeting(DOMAIN cpus)
  /\ entered[1] = 1 /\ at[1] = "out" => running = DOMAIN cpus \ {1}
=============================================================================
