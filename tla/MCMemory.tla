------------------------------ MODULE MCMemory ------------------------------
(***************************************************************************)
(* The memory side of the native runtime for TLC: the boot of the machine, *)
(* the page allocators, the slab allocator and the virtual memory regions. *)
(* A behaviour is one of these parts at work (scope); the others rest.     *)
(***************************************************************************)
EXTENDS PageAllocator, VMemAllocator

CONSTANTS PageSize, AnyNid, NoNode, Thread, MaxRound, Kend, InitialMapEnd, SectionPages,
          MapPages, MaxTables,                                  \* of Boot
          SlabCore, BootCore, Slab, PerSlab, FreeBatch, None    \* of SlabAllocator

VARIABLES scope,
          machine, stage, i, reserved, free, taken, cpus, nodes, section, stacks, rax, pc,
          waiters, completed, at, step, entered,
          pool, cache, used, list, partial, objects, remote, remote_check,
          remote_list, remote_cache, held, slab_pc, on, left

bootState == <<machine, stage, i, reserved, free, taken, cpus, nodes, section, stacks, rax, pc,
               waiters, completed, at, step, entered>>
slabState == <<pool, cache, used, list, partial, objects, remote, remote_check,
               remote_list, remote_cache, held, slab_pc, on, left>>
vmemState == <<regions, given, pt, frames>>

-----------------------------------------------------------------------------
(* Boot: three firmware memory maps, with and without modules to keep, and  *)
(* tables of one to three cores and no, one or two nodes.                   *)

E1 == <<<<0, 4, 1>>, <<4, 32, 1>>>>
E2 == <<<<22, 24, 1>>, <<16, 6, 2>>, <<2, 14, 1>>>>
E3 == <<<<5, 44, 1>>>>
R1 == <<<<9, 10>>, <<14, 20>>>>
R2 == <<<<12, 16>>, <<11, 13>>, <<30, 31>>>>
Lapic(a, e) == [type |-> "lapic", apic |-> a, enabled |-> e]
Lapics(n) == [k \in 1 .. n |-> Lapic(k - 1, TRUE)]
Mem(b, l, x) == [type |-> "mem", base |-> b, len |-> l, pxm |-> x, enabled |-> TRUE]
Cpu(a, x) == [type |-> "cpu", apic |-> a, pxm |-> x, enabled |-> TRUE]
Madts == {Lapics(1), Lapics(2), Lapics(3), <<[type |-> "nmi"]>>,
          <<Lapic(0, TRUE), Lapic(1, FALSE), Lapic(2, TRUE), [type |-> "ioapic"]>>}
Srats == {<<>>, <<Cpu(0, 5), Cpu(1, 7), Mem(0, 32, 5), Mem(32, 32, 7)>>,
          <<Mem(16, 16, 7), Cpu(0, 5), Mem(0, 16, 5), Cpu(1, 7), Mem(32, 24, 7), Cpu(2, 5)>>,
          <<Mem(32, 16, 1), Mem(0, 32, 2), Cpu(0, 2)>>,
          <<Mem(0, 20, 1), Cpu(0, 1), Mem(20, 40, 2)>>,
          <<[type |-> "other"]>>, <<Cpu(9, 1)>>, <<[type |-> "x2apic"]>>}
Machines == [e820 : {E1, E2, E3}, reserve : {<<>>, R1, R2}, madt : Madts, srat : Srats, sections : {4}]

B == INSTANCE Boot

-----------------------------------------------------------------------------
(* Slabs: two cores of one node and the boot core on another.               *)

SlabNode == {"n1", "n2"}
SlabNodeOf == [x \in SlabCore \cup Slab |-> IF x = BootCore THEN "n2" ELSE "n1"]
S == INSTANCE SlabAllocator WITH Core <- SlabCore, Node <- SlabNode, NodeOf <- SlabNodeOf,
                                  pc <- slab_pc
ASSUME MemoryConstants == VMemConstants

-----------------------------------------------------------------------------
(* Pages, on one node: an odd range, two ranges with a reserved page        *)
(* between them, and a range that is exactly the largest block.             *)

OneNode == {{<<1, 6, 0>>}, {<<0, 3, 0>>, <<4, 6, 0>>}, {<<4, 8, 0>>}}
TwoNodes == {{<<1, 4, 0>>, <<4, 6, 1>>}}
AllRanges == OneNode \cup TwoNodes
Local == [n \in Node |-> {n}]
Anywhere == [n \in Node |-> Node]

-----------------------------------------------------------------------------

BootAtRest ==
  /\ machine = None /\ stage = None /\ i = None /\ reserved = None /\ free = None /\ taken = None
  /\ cpus = None /\ nodes = None /\ section = None /\ stacks = None /\ rax = None /\ pc = None
  /\ waiters = None /\ completed = None /\ at = None /\ step = None /\ entered = None
SlabAtRest ==
  /\ pool = None /\ cache = None /\ used = None /\ list = None /\ partial = None /\ objects = None
  /\ remote = None /\ remote_check = None /\ remote_list = None /\ remote_cache = None
  /\ held = None /\ slab_pc = None /\ on = None /\ left = None

MemoryInit ==
  /\ scope \in {"boot", "page", "slab", "vmem"}
  /\ Init /\ VMemInit
  /\ scope # "page" => ranges = CHOOSE R \in RangeSets : TRUE
  /\ IF scope = "boot" THEN B!Init ELSE BootAtRest
  /\ IF scope = "slab" THEN S!SlabInit ELSE SlabAtRest

BootSteps == scope = "boot" /\ B!Next /\ UNCHANGED <<scope, vars, slabState, vmemState>>
PageSteps == scope = "page" /\ Next /\ UNCHANGED <<scope, bootState, slabState, vmemState>>
SlabSteps == scope = "slab" /\ S!SlabNext /\ UNCHANGED <<scope, vars, bootState, vmemState>>
VMemSteps == scope = "vmem" /\ VMemNext /\ UNCHANGED <<scope, vars, bootState, slabState>>
MemoryNext == BootSteps \/ PageSteps \/ SlabSteps \/ VMemSteps
MemorySpec == MemoryInit /\ [][MemoryNext]_<<scope, vars, bootState, slabState, vmemState>>

-----------------------------------------------------------------------------
(* Properties of the parts; that of VMemAllocator (FaultsFindHandler) is     *)
(* checked as it is.                                                         *)

\* Every page is in one free or allocated block and Free is never misled by the stale
\* descriptors inside blocks.  See PageAllocator.
PagesRight == TagsNeverMislead /\ PagesConserved

\* From the firmware's map to the page allocators (e820, multiboot, acpi, numa,
\* EarlyPageAllocator, mem_map): no usable memory is lost, handed out twice or
\* invented, and the tables agree on the node of a page.  The cores come up on
\* stacks of their own, taken from smp_stack_free without a lock, and smp::Init
\* waits for all of them.  See Boot.
BootRight == scope = "boot" => B!MemoryAccounted /\ B!NodesAgree /\ B!CoresApart

\* Whichever cores allocate, free and flush the objects of a slab, each is in one
\* place, a page is given back only when none is in use, and objects freed by other
\* cores are not forgotten although remote_check is set and cleared without the
\* lock.  See SlabAllocator.
SlabsRight == scope = "slab" => S!ObjectsConserved /\ S!RemoteFreesAnnounced /\ S!CachesBounded
=============================================================================
