------------------------------ MODULE MCServices ------------------------------
(***************************************************************************)
(* The parts of the runtime that the memory and the network side do not    *)
(* show, for TLC: the ZooKeeper client with what is built on it, the file  *)
(* system, Ebbs and nodes, the hosted start, the locks of the C++ library, *)
(* clocks, counters, the memory routines, PCI, page tables and traps.  A   *)
(* behaviour is one of these parts at work (scope); the others rest.       *)
(***************************************************************************)
EXTENDS Gthread, ZooKeeperEbb, FileSystem, TLC

CONSTANTS Scopes

VARIABLES scope,
          zh, to_send, sent, todo, watchers, auths, client_pc, cont, err, link, up, down,
          server, called, issued, bounds, client_halted,
          record, written, pieces, bytes, len, got,
          tables, delivered, tables_active, ops, alive, freed,
          chroot, hosts, path, sequence, step, addrs, alen, left, full_path, rc, client_path,
          core, nodes_pc, id, allocation_index_, node_index_, node, space, promise_map_, future,
          waiter, session, callback, num_nodes_alloc_, nids_, ready, nodes_used, raced,
          overlapped, aborted,
          free_ids_, created, map, ref, fault, built, lost,
          hosted_pc, main, hosted_created, inited, running, index, initialized, hosted_queue,
          doing, hosted_stopped, shutdown, ran, signalled,
          pv, tsc, page, writing, published, clock_call, clock_todo, version, local, since,
          escaped, out, clock_calls, speed, pit, rate, boot,
          value, sel, fixedOn, global, pmcs, perf_global_ctrl, obj, ideal, traced, leaked,
          shared, is_intel, global_trace_enabled, local_trace_enabled, trace_log, occurred,
          steps,
          fn, n, al, hits, routines_pc, si, di, dx, cx, routines_written, ax,
          machine, regs, found, devices, loading, pci_pc, pci_at, control, table, status, select,
          vector, ebb, pci_got,
          paging_tables, root, bad, last, paging_ref, was, paging_used, split, paging_ops,
          traps_regs, ist, traps_running, frame, before, error, event, taken, traps

clientState == <<zh, to_send, sent, todo, watchers, auths, client_pc, cont, err, link, up, down,
                  server, called, issued, bounds, client_halted>>
juteState == <<record, written, pieces, bytes, len, got>>
tablesState == <<tables, delivered, tables_active, ops, alive, freed>>
argsState == <<chroot, hosts, path, sequence, step, addrs, alen, left, full_path, rc,
                client_path>>
nodesState == <<core, nodes_pc, id, allocation_index_, node_index_, node, space, promise_map_,
                 future, waiter, session, callback, num_nodes_alloc_, nids_, ready, nodes_used,
                 raced, overlapped, aborted>>
repsState == <<free_ids_, created, map, ref, fault, built, lost>>
hostedState == <<hosted_pc, main, hosted_created, inited, running, index, initialized,
                  hosted_queue, doing, hosted_stopped, shutdown, ran, signalled>>
locksState == <<lock, flag, once, active, pc, depth, owns, calls, past, halted>>
clockState == <<pv, tsc, page, writing, published, clock_call, clock_todo, version, local,
                 since, escaped, out, clock_calls, speed, pit, rate, boot>>
countersState == <<value, sel, fixedOn, global, pmcs, perf_global_ctrl, obj, ideal, traced,
                    leaked, shared, is_intel, global_trace_enabled, local_trace_enabled,
                    trace_log, occurred, steps>>
routinesState == <<fn, n, al, hits, routines_pc, si, di, dx, cx, routines_written, ax>>
pciState == <<machine, regs, found, devices, loading, pci_pc, pci_at, control, table, status,
               select, vector, ebb, pci_got>>
pagingState == <<paging_tables, root, bad, last, paging_ref, was, paging_used, split,
                  paging_ops>>
trapsState == <<traps_regs, ist, traps_running, frame, before, error, event, taken, traps>>
zooState == <<clientState, ebbVars, juteState, tablesState, argsState>>
hostState == <<fsVars, nodesState, repsState, hostedState, locksState>>
codeState == <<clockState, countersState, routinesState>>
machineState == <<pciState, pagingState, trapsState>>

-----------------------------------------------------------------------------
(* The instances.                                                            *)

\* Two programs: one that loses its connection and changes servers, one that adds
\* authentication, pings, closes its handle inside a completion and answers wrongly.
Budget(o, r, a, b, c, p, w) ==
  [ops |-> o, requests |-> r, auths |-> a, breaks |-> b, changes |-> c, pings |-> p, wrong |-> w]
TwoBudgets ==
  {Budget({"get", "exists", "get_children", "create"}, 2, 0, 1, 1, 0, 0),
   Budget({"get_children2", "set", "delete", "sync", "get_acl", "set_acl", "multi"}, 1, 1, 1, 0, 1, 1)}
Z == INSTANCE Zookeeper WITH Addrs <- 1, Watcher <- {"u"}, Budgets <- TwoBudgets,
                               pc <- client_pc, halted <- client_halted
PathAndParent == <<"a", "ab">>

\* Paths that share buckets before and after the tables grow; all short paths, and lists of
\* two hosts of which the second may be at fault.
PathHash == ("a" :> 0) @@ ("b" :> 2) @@ ("c" :> 5) @@ ("d" :> 4)
ShortPaths == UNION {[1 .. k -> {"/", ".", "a", "ctl"}] : k \in 0 .. 5}
TwoHosts == {<<[fault |-> "none", families |-> <<"4a", "6a">>],
               [fault |-> f, families |-> <<"4b", "unknown", "4c">>]>> : f \in {"none", "port", "resolve"}}
K == INSTANCE ZkData WITH Initial <- 2, Seeds <- 0 .. 3, Path <- DOMAIN PathHash,
                           Watcher <- {"u", "v"}, Default <- "s", Hash <- PathHash,
                           Primes <- <<1, 2, 5>>, MinSize <- 1, MaxOps <- 4,
                           Texts <- ShortPaths, Roots <- {<<"/">>, <<"/", "a">>, <<"/", ".">>},
                           HostLists <- TwoHosts \cup {<<>>}, Slots <- 2,
                           active <- tables_active
ThreeBytes == <<1, 2, 3>>
Nd == INSTANCE Nodes WITH Count <- 2, Placements <- [0 .. 1 -> {"a", "b"}], AcceptCore <- "a",
                           Span <- 3, pc <- nodes_pc, used <- nodes_used
R == INSTANCE Ebb WITH Core <- {"a", "b"},
                        Kinds <- <<"shared", "multicore", "unrecorded", "command", "static_shared">>,
                        FirstFree <- 5, FirstStaticUser <- 11
H == INSTANCE HostedCpu WITH N <- 3, pc <- hosted_pc, created <- hosted_created,
                              queue <- hosted_queue, stopped <- hosted_stopped
TwoOnOneCore == (1 :> "c") @@ (2 :> "c") @@ (3 :> "d")
ASSUME ServicesConstants == FsConstants /\ GthreadConstants

\* Rates of a multiplier and a shift, and the counters of an interval timer of 8 ticks.
C == INSTANCE Clock WITH Rates <- {<<4, 0>>, <<6, -1>>}, Walls <- {<<1, 2>>, <<3, 4>>},
                          Frac <- 2, PitLimit <- 8, Speeds <- {1, 2, 3}, Step <- 12,
                          MaxTsc <- 1, MaxUpdates <- 1, MaxCalls <- 1, call <- clock_call,
                          todo <- clock_todo, calls <- clock_calls
M == INSTANCE Measure WITH Object <- {"x", "y"}, Usual <- {0, 1}, Fixed <- {32},
                            Unavailable <- {1}, PmcCount <- 2, Core <- {0, 1}, First <- 0,
                            MaxTrace <- 2, MaxCount <- 2, MaxSteps <- 5

\* Lengths around each threshold of the routines, and searched bytes in and around the buffer.
CopyLengths == (0 .. 80) \cup (1020 .. 1036) \cup {1056, 1063, 1071}
SetLengths == (0 .. 70) \cup (126 .. 130) \cup {191, 192, 193, 200}
Finds == {{}} \cup {{p} : p \in -2 .. 40} \cup {{p, q} : p \in {-1, 5, 14, 23}, q \in 0 .. 40}
Y == INSTANCE MemRoutines WITH W <- 2, ChrLengths <- 0 .. 34, Aligns <- {0, 1, 15, 16, 17, 63},
                                pc <- routines_pc, written <- routines_written

\* Machines of two buses: a host bridge and a card, with few and with many interrupts, one
\* and two queue pairs, bridges, functions and registers of every kind.
NoBars == [i \in 0 .. 6 |-> "none"]
Plain == [multi |-> FALSE, bridge |-> FALSE, virtio |-> FALSE, kind |-> NoBars,
          size |-> [i \in 0 .. 6 |-> 0], base |-> [i \in 0 .. 6 |-> 0],
          caps |-> <<>>, bir |-> 0, entries |-> 0, pairs |-> 0, features |-> {}]
Multi == [Plain EXCEPT !.multi = TRUE]
Card == [Plain EXCEPT !.virtio = TRUE,
           !.kind = (0 :> "io") @@ (1 :> "mem32") @@ (2 :> "mem64") @@ (3 :> "high")
                    @@ (4 :> "mem64") @@ (5 :> "high") @@ NoBars,
           !.size = (0 :> 32) @@ (1 :> 64) @@ (2 :> 128) @@ (3 :> 128) @@ (4 :> 1024)
                    @@ (5 :> 1024) @@ (6 :> 0),
           !.base = (0 :> 96) @@ (1 :> 64) @@ (2 :> 128) @@ (3 :> 3) @@ (4 :> 0)
                    @@ (5 :> 8) @@ (6 :> 0),
           !.caps = <<"pm", "msix">>, !.bir = 1, !.entries = 5, !.pairs = 2,
           !.features = {"mq", "csum", "tso4", "ufo"}]
Odd == [Plain EXCEPT !.kind = (6 :> "fixed") @@ NoBars, !.size[6] = 3]
NoDevices == [l \in (0 .. 1) \X (0 .. 2) \X (0 .. 1) |-> None]
Pair(h, c) == (<<0, 0, 0>> :> h) @@ (<<0, 1, 0>> :> c) @@ NoDevices
TwelveMachines ==
  {Pair(Plain, c) : c \in {Card, Odd, [Plain EXCEPT !.bridge = TRUE], [Card EXCEPT !.entries = 3],
                           [Card EXCEPT !.pairs = 1], [Card EXCEPT !.caps = <<"pm">>],
                           [Card EXCEPT !.bir = 3], [Card EXCEPT !.features = {"mq"}]}}
  \cup {NoDevices, Pair(Multi, Card), (<<0, 1, 1>> :> Card) @@ Pair(Plain, Multi),
        (<<1, 2, 0>> :> Card) @@ Pair(Multi, Plain)}
P == INSTANCE Pci WITH Machines <- TwelveMachines, LastBus <- 1, LastDevice <- 2, LastFunc <- 1,
                        Bits <- 8, Cores <- 2, Left <- {0, 1, 4}, pc <- pci_pc, at <- pci_at,
                        got <- pci_got

\* Ranges that fill, straddle and share tables of two entries.
EarlyRanges == {<<0, 8>>, <<0, 3>>, <<2, 2>>, <<4, 12>>, <<1, 4>>, <<8, 4>>}
LaterRanges == {<<0, 2, 2>>, <<0, 4, 4>>, <<2, 8, 1>>, <<1, 8, 10>>, <<24, 0, 4>>, <<24, 0, 8>>,
                <<26, 2, 4>>, <<29, 3, 4>>}
T == INSTANCE PageTable WITH PageBits <- 1, IndexBits <- 1, Levels <- 4, Core <- {0, 1},
                              Boot <- 0, Early <- EarlyRanges, Later <- LaterRanges,
                              MaxOps <- 3, tables <- paging_tables, ref <- paging_ref,
                              used <- paging_used, ops <- paging_ops
X == INSTANCE Traps WITH Events <- {32, 33, 255}, MaxTraps <- 3, regs <- traps_regs,
                          running <- traps_running

-----------------------------------------------------------------------------
(* What the variables of a part hold while it rests; the ZooKeeper Ebb, the  *)
(* file system and the locks rest where they start.                          *)

ClientAtRest == zh = None /\ to_send = None /\ sent = None /\ todo = None /\ watchers = None
  /\ auths = None /\ client_pc = None /\ cont = None /\ err = None /\ link = None /\ up = None
  /\ down = None /\ server = None /\ called = None /\ issued = None /\ bounds = None
  /\ client_halted = None
JuteAtRest == record = None /\ written = None /\ pieces = None /\ bytes = None /\ len = None
  /\ got = None
TablesAtRest == tables = None /\ delivered = None /\ tables_active = None /\ ops = None /\ alive = None
  /\ freed = None
ArgsAtRest == chroot = None /\ hosts = None /\ path = None /\ sequence = None /\ step = None
  /\ addrs = None /\ alen = None /\ left = None /\ full_path = None /\ rc = None
  /\ client_path = None
NodesAtRest == core = None /\ nodes_pc = None /\ id = None /\ allocation_index_ = None
  /\ node_index_ = None /\ node = None /\ space = None /\ promise_map_ = None /\ future = None
  /\ waiter = None /\ session = None /\ callback = None /\ num_nodes_alloc_ = None
  /\ nids_ = None /\ ready = None /\ nodes_used = None /\ raced = None /\ overlapped = None
  /\ aborted = None
RepsAtRest == free_ids_ = None /\ created = None /\ map = None /\ ref = None /\ fault = None
  /\ built = None /\ lost = None
HostedAtRest == hosted_pc = None /\ main = None /\ hosted_created = None /\ inited = None
  /\ running = None /\ index = None /\ initialized = None /\ hosted_queue = None /\ doing = None
  /\ hosted_stopped = None /\ shutdown = None /\ ran = None /\ signalled = None
ClockAtRest == pv = None /\ tsc = None /\ page = None /\ writing = None /\ published = None
  /\ clock_call = None /\ clock_todo = None /\ version = None /\ local = None /\ since = None
  /\ escaped = None /\ out = None /\ clock_calls = None /\ speed = None /\ pit = None
  /\ rate = None /\ boot = None
CountersAtRest == value = None /\ sel = None /\ fixedOn = None /\ global = None /\ pmcs = None
  /\ perf_global_ctrl = None /\ obj = None /\ ideal = None /\ traced = None /\ leaked = None
  /\ shared = None /\ is_intel = None /\ global_trace_enabled = None
  /\ local_trace_enabled = None /\ trace_log = None /\ occurred = None /\ steps = None
RoutinesAtRest == fn = None /\ n = None /\ al = None /\ hits = None /\ routines_pc = None
  /\ si = None /\ di = None /\ dx = None /\ cx = None /\ routines_written = None /\ ax = None
PciAtRest == machine = None /\ regs = None /\ found = None /\ devices = None /\ loading = None
  /\ pci_pc = None /\ pci_at = None /\ control = None /\ table = None /\ status = None
  /\ select = None /\ vector = None /\ ebb = None /\ pci_got = None
PagingAtRest == paging_tables = None /\ root = None /\ bad = None /\ last = None
  /\ paging_ref = None /\ was = None /\ paging_used = None /\ split = None /\ paging_ops = None
TrapsAtRest == traps_regs = None /\ ist = None /\ traps_running = None /\ frame = None
  /\ before = None /\ error = None /\ event = None /\ taken = None /\ traps = None

ServicesInit ==
  /\ scope \in Scopes
  /\ EbbInit /\ FsInit /\ GthreadInit
  /\ IF scope = "client" THEN Z!ZkInit ELSE ClientAtRest
  /\ IF scope = "jute" THEN K!JuteInit ELSE JuteAtRest
  /\ IF scope = "tables" THEN K!TablesInit ELSE TablesAtRest
  /\ IF scope = "args" THEN K!ArgumentsInit /\ (path = <<"/">> \/ hosts = <<>>) ELSE ArgsAtRest
  /\ IF scope = "nodes" THEN Nd!NodesInit ELSE NodesAtRest
  /\ IF scope = "reps" THEN R!EbbsInit ELSE RepsAtRest
  /\ IF scope = "hosted" THEN H!HostedInit ELSE HostedAtRest
  /\ IF scope = "clock" THEN C!ClockInit ELSE ClockAtRest
  /\ IF scope = "counters" THEN M!MeasureInit ELSE CountersAtRest
  /\ IF scope = "routines" THEN Y!MemInit ELSE RoutinesAtRest
  /\ IF scope = "pci" THEN P!PciInit ELSE PciAtRest
  /\ IF scope = "paging" THEN T!PtInit ELSE PagingAtRest
  /\ IF scope = "traps" THEN X!TrapsInit ELSE TrapsAtRest

ServicesNext ==
  /\ scope' = scope
  /\ \/ scope = "client" /\ Z!ZkNext
        /\ UNCHANGED <<ebbVars, juteState, tablesState, argsState, hostState, codeState, machineState>>
     \/ scope = "ebb" /\ EbbNext
        /\ UNCHANGED <<clientState, juteState, tablesState, argsState, hostState, codeState, machineState>>
     \/ scope = "jute" /\ K!JuteNext
        /\ UNCHANGED <<clientState, ebbVars, tablesState, argsState, hostState, codeState, machineState>>
     \/ scope = "tables" /\ K!TablesNext
        /\ UNCHANGED <<clientState, ebbVars, juteState, argsState, hostState, codeState, machineState>>
     \/ scope = "args" /\ K!ArgumentsNext
        /\ UNCHANGED <<clientState, ebbVars, juteState, tablesState, hostState, codeState, machineState>>
     \/ scope = "files" /\ FsNext
        /\ UNCHANGED <<zooState, nodesState, repsState, hostedState, locksState, codeState, machineState>>
     \/ scope = "nodes" /\ Nd!NodesNext
        /\ UNCHANGED <<zooState, fsVars, repsState, hostedState, locksState, codeState, machineState>>
     \/ scope = "reps" /\ R!EbbsNext
        /\ UNCHANGED <<zooState, fsVars, nodesState, hostedState, locksState, codeState, machineState>>
     \/ scope = "hosted" /\ H!HostedNext
        /\ UNCHANGED <<zooState, fsVars, nodesState, repsState, locksState, codeState, machineState>>
     \/ scope = "locks" /\ GthreadNext
        /\ UNCHANGED <<zooState, fsVars, nodesState, repsState, hostedState, codeState, machineState>>
     \/ scope = "clock" /\ C!ClockNext
        /\ UNCHANGED <<zooState, hostState, countersState, routinesState, machineState>>
     \/ scope = "counters" /\ M!MeasureNext
        /\ UNCHANGED <<zooState, hostState, clockState, routinesState, machineState>>
     \/ scope = "routines" /\ Y!MemNext
        /\ UNCHANGED <<zooState, hostState, clockState, countersState, machineState>>
     \/ scope = "pci" /\ P!PciNext
        /\ UNCHANGED <<zooState, hostState, codeState, pagingState, trapsState>>
     \/ scope = "paging" /\ T!PtNext
        /\ UNCHANGED <<zooState, hostState, codeState, pciState, trapsState>>
     \/ scope = "traps" /\ X!TrapsNext
        /\ UNCHANGED <<zooState, hostState, codeState, pciState, pagingState>>

ServicesSpec == ServicesInit /\ [][ServicesNext]_<<scope, zooState, hostState, codeState, machineState>>

-----------------------------------------------------------------------------
(* Properties of the parts; those of ZooKeeperEbb (ZooKeeperCallersReturn),  *)
(* FileSystem (FileAnswers) and Gthread (LocksExclude) are checked as they   *)
(* are.                                                                      *)

\* Every request of the ZooKeeper client is completed once, in the order it was sent, over
\* lost connections and changes of server; watches outlive the connection; and a handle
\* closed inside a completion ends when that completion returns (zookeeper_process,
\* cleanup_bufs, zookeeper_close).
RequestsComplete ==
  scope = "client" => Z!CompletedOnceInOrder /\ Z!WatchesKept /\ Z!ClosedInsideCompletes

\* The data the client lives on: the archives of recordio.c agree on every record of
\* zookeeper.jute, the hash tables of zk_hashtable.c keep every watcher through expansion
\* and deliver it once, and zookeeper_init takes paths, roots and hosts as it says.
ClientDataRight ==
  /\ scope = "jute" => K!ReadAsWritten
  /\ scope = "tables" => K!NoWatcherLost
  /\ scope = "args" => K!ArgumentsRight

\* A pool is announced when all its nodes are allocated and no two machines hand out the
\* same global identifier (NodeAllocator, PoolAllocator, EbbAllocator); every core then
\* finds the representative of an Ebb it should have (MulticoreEbb, LocalIdMap).
EbbsFound ==
  /\ scope = "nodes" => Nd!PoolRight
  /\ scope = "reps" => R!RepsRight

\* A reading of the hypervisor's clock is made of one version that it published, unless the
\* loop ended on an odd version (PvClock.cc); and a performance counter counts its own
\* events, whatever other counters do (Perf.cc).
ReadingsRight ==
  /\ scope = "clock" => C!ReadingsConsistent
  /\ scope = "counters" => M!CountersRight

\* Devices are found with their registers and their interrupts reach the cores of their
\* queues (Pci.cc, Virtio.h); mapping changes the pages asked for (VMem.h); memcpy, memset
\* and memchr touch and find what they should; a handler sees and keeps the registers of
\* what it interrupts (Isr.S); and the threads of a hosted process run events only when all
\* its cores are ready (Cpu.cc).
MachineRight ==
  /\ scope = "hosted" => H!StartsTogether
  /\ scope = "pci" => P!DevicesRight
  /\ scope = "paging" => T!MappingsRight
  /\ scope = "routines" => Y!RoutinesRight
  /\ scope = "traps" => X!FramesRight
=============================================================================
