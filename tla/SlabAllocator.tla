--------------------------- MODULE SlabAllocator ---------------------------
(***************************************************************************)
(* The slab allocator of one object size (src/src/native/SlabAllocator.cc) *)
(* as the general purpose allocator uses it: a cache for every core and    *)
(* one for every node, objects freed on a core other than the one whose    *)
(* cache owns the slab, and the page allocator below.                      *)
(*                                                                         *)
(* Events are not preempted, so an operation is atomic for its own core.   *)
(* Cores meet at remote_check and at the locked list of a cache, and an    *)
(* operation is cut into steps between its accesses to them.  Objects of a *)
(* slab are alike: a list of objects is a count for every slab.            *)
(***************************************************************************)
EXTENDS Integers, Sequences, FiniteSets, SequencesExt, FiniteSetsExt, Functions

CONSTANTS Core,        \* cores; the cache of core c is named c
          BootCore,    \* the core that calls AllocNid (tls::SmpInit)
          Node,        \* NUMA nodes; their caches are named by the node
          NodeOf,      \* [Core \cup Slab -> Node]
          Slab,        \* blocks of the page allocator that can become slabs
          PerSlab,     \* NumObjectsPerSlab()
          FreeBatch,   \* free_batch_
          None

Cache == Core \cup Node
HiWater == 4 * FreeBatch   \* hiwater_

VARIABLES pool,          \* blocks that the page allocator holds
          cache,         \* Page::slab_data.cache of each slab, None in the pool
          used, list,    \* Page::slab_data.used and the length of its list
          partial,       \* partial_page_list_ of each cache
          objects,       \* object_list_ of each cache
          remote,        \* remote_.list of each cache
          remote_check,  \* remote_check of each cache
          remote_list,   \* remote_list_ of each core
          remote_cache,  \* remote_cache_ of each core
          held,          \* objects that clients hold
          pc, on, left   \* of each core: position, cache worked on, objects left to flush

shared == <<pool, cache, used, list, partial, objects, remote, remote_check, remote_list, remote_cache, held>>
slabVars == <<shared, pc, on, left>>

Size(f) == FoldFunction(+, 0, f)
Empty == [s \in Slab |-> 0]
Plus(f, g) == [s \in Slab |-> f[s] + g[s]]

SlabInit ==
  /\ pool = Slab /\ cache = [s \in Slab |-> None]
  /\ used = Empty /\ list = Empty
  /\ partial = [k \in Cache |-> <<>>]
  /\ objects = [k \in Cache |-> Empty] /\ remote = [k \in Cache |-> Empty]
  /\ remote_check = [k \in Cache |-> FALSE]
  /\ remote_list = [c \in Core |-> Empty] /\ remote_cache = [c \in Core |-> None]
  /\ held = Empty
  /\ pc = [c \in Core |-> "idle"] /\ on = [c \in Core |-> c] /\ left = [c \in Core |-> 0]

Goto(c, p, n) == pc' = [pc EXCEPT ![c] = p] /\ left' = [left EXCEPT ![c] = n]

-----------------------------------------------------------------------------
(* SlabCache::Alloc, from a cache k that core c works on.                   *)

\* A free object of the cache.
AllocObject(c, k, s) ==
  /\ objects[k][s] > 0
  /\ objects' = [objects EXCEPT ![k][s] = @ - 1]
  /\ held' = [held EXCEPT ![s] = @ + 1]
  /\ Goto(c, "idle", 0)
  /\ UNCHANGED <<pool, cache, used, list, partial, remote, remote_check, remote_list, remote_cache>>

\* No free object, but remotely freed ones: clear the flag, then claim them.
ClearCheck(c, k) ==
  /\ objects[k] = Empty /\ remote_check[k]
  /\ remote_check' = [remote_check EXCEPT ![k] = FALSE]
  /\ Goto(c, "claim", 0)
  /\ UNCHANGED <<pool, cache, used, list, partial, objects, remote, remote_list, remote_cache, held>>

\* ClaimRemoteFreeList, with the lock of the list.
Claim(c) ==
  /\ pc[c] = "claim"
  /\ objects' = [objects EXCEPT ![on[c]] = Plus(@, remote[on[c]])]
  /\ remote' = [remote EXCEPT ![on[c]] = Empty]
  /\ Goto(c, "trim", 0)
  /\ UNCHANGED <<pool, cache, used, list, partial, remote_check, remote_list, remote_cache, held, on>>

\* The loop after the claim: flush while there are too many, then try again.
Trim(c) ==
  /\ pc[c] = "trim"
  /\ IF Size(objects[on[c]]) > HiWater THEN Goto(c, "flush_trim", FreeBatch) ELSE Goto(c, "retry", 0)
  /\ UNCHANGED <<shared, on>>

\* An object of a slab s, which then has n in use and leaves the list of
\* partial slabs when it has no object left.
TakeFrom(k, s, n, P) ==
  /\ used' = [used EXCEPT ![s] = n + 1]
  /\ list' = [list EXCEPT ![s] = PerSlab - n - 1]
  /\ partial' = [partial EXCEPT ![k] = IF n + 1 = PerSlab THEN Tail(P) ELSE P]
  /\ held' = [held EXCEPT ![s] = @ + 1]

AllocPartial(c, k) ==
  /\ objects[k] = Empty /\ ~remote_check[k] /\ partial[k] # <<>>
  /\ TakeFrom(k, Head(partial[k]), used[Head(partial[k])], partial[k])
  /\ Goto(c, "idle", 0)
  /\ UNCHANGED <<pool, cache, objects, remote, remote_check, remote_list, remote_cache>>

\* Nothing in the cache: a block of the page allocator becomes a slab.
AddSlab(c, k, n, s) ==
  /\ objects[k] = Empty /\ ~remote_check[k] /\ partial[k] = <<>>
  /\ s \in pool /\ NodeOf[s] = n
  /\ pool' = pool \ {s}
  /\ cache' = [cache EXCEPT ![s] = k]
  /\ TakeFrom(k, s, 0, <<s>>)
  /\ Goto(c, "idle", 0)
  /\ UNCHANGED <<objects, remote, remote_check, remote_list, remote_cache>>

\* The page allocator has no block: Alloc returns nullptr.
AllocFails(c, k, n) ==
  /\ pc[c] = "retry"
  /\ objects[k] = Empty /\ ~remote_check[k] /\ partial[k] = <<>>
  /\ \A s \in pool : NodeOf[s] # n
  /\ Goto(c, "idle", 0)
  /\ UNCHANGED shared

CacheAlloc(c, k, n) ==
  \/ ClearCheck(c, k)
  \/ AllocPartial(c, k)
  \/ \E s \in Slab : AllocObject(c, k, s) \/ AddSlab(c, k, n, s)
  \/ AllocFails(c, k, n)

\* SlabAllocator::Alloc, and AllocNid for a node other than the core's own,
\* which takes the cache of that node under its lock.
Alloc(c) == pc[c] = "idle" /\ CacheAlloc(c, c, NodeOf[c]) /\ on' = [on EXCEPT ![c] = c]
AllocNid(n) ==
  /\ pc[BootCore] = "idle" /\ n # NodeOf[BootCore]
  /\ CacheAlloc(BootCore, n, n)
  /\ on' = [on EXCEPT ![BootCore] = n]
Retry(c) ==
  /\ pc[c] = "retry"
  /\ CacheAlloc(c, on[c], IF on[c] \in Node THEN on[c] ELSE NodeOf[c])
  /\ UNCHANGED on

-----------------------------------------------------------------------------
(* Free.                                                                    *)

\* Seeded fault: the owner is told whenever the list is as long as a batch.
AnnouncedExactly(before, after) == after = FreeBatch

\* FlushRemoteList marks the cache when this flush crosses the watermark.
Announced(before, after) == before < FreeBatch /\ after >= FreeBatch

\* FlushRemoteList of core c, when it holds g: what becomes of the cache's list.
FlushRemoteList(k, g) ==
  /\ remote' = [remote EXCEPT ![k] = Plus(@, g)]
  /\ remote_check' = [remote_check EXCEPT ![k] =
       @ \/ Announced(Size(remote[k]), Size(remote[k]) + Size(g))]

\* FreeRemote: collect objects of one cache, and flush them when the cache
\* changes or there are more than a batch of them.
FreeRemote(c, s) ==
  LET old == remote_cache[c]
      mine == remote_list[c]
      one == [Empty EXCEPT ![s] = 1]
  IN
  /\ remote_cache' = [remote_cache EXCEPT ![c] = cache[s]]
  /\ IF cache[s] # old
     THEN /\ remote_list' = [remote_list EXCEPT ![c] = one]
          /\ IF old = None THEN UNCHANGED <<remote, remote_check>> ELSE FlushRemoteList(old, mine)
     ELSE IF Size(mine) + 1 > FreeBatch
     THEN remote_list' = [remote_list EXCEPT ![c] = Empty] /\ FlushRemoteList(old, Plus(mine, one))
     ELSE remote_list' = [remote_list EXCEPT ![c] = Plus(mine, one)] /\ UNCHANGED <<remote, remote_check>>

\* SlabAllocator::Free: an object of this node goes to the core's own cache,
\* whichever core of the node owns the slab.
FreeLocal(c, s) ==
  /\ pc[c] = "idle" /\ held[s] > 0 /\ NodeOf[s] = NodeOf[c]
  /\ held' = [held EXCEPT ![s] = @ - 1]
  /\ objects' = [objects EXCEPT ![c][s] = @ + 1]
  /\ IF Size(objects[c]) + 1 > HiWater THEN Goto(c, "flush", FreeBatch) ELSE UNCHANGED <<pc, left>>
  /\ on' = [on EXCEPT ![c] = c]
  /\ UNCHANGED <<pool, cache, used, list, partial, remote, remote_check, remote_list, remote_cache>>

FreeOther(c, s) ==
  /\ pc[c] = "idle" /\ held[s] > 0 /\ NodeOf[s] # NodeOf[c]
  /\ held' = [held EXCEPT ![s] = @ - 1]
  /\ FreeRemote(c, s)
  /\ UNCHANGED <<pool, cache, used, list, partial, objects, pc, on, left>>

\* partial_page_list_ after an object of slab s came back.
PartialAfter(k, s) ==
  IF used[s] = 1 THEN Remove(partial[k], s)
  ELSE IF used[s] = PerSlab THEN <<s>> \o partial[k]
  ELSE partial[k]

\* One turn of FlushFreeList: an object goes back to its slab, and the slab to
\* the page allocator when it was the last one, or to the cache that owns it.
FlushOne(c, s) ==
  LET k == on[c] IN
  /\ pc[c] \in {"flush", "flush_trim"} /\ left[c] > 0 /\ objects[k][s] > 0
  /\ objects' = [objects EXCEPT ![k][s] = @ - 1]
  /\ IF cache[s] # k
     THEN FreeRemote(c, s) /\ UNCHANGED <<pool, cache, used, list, partial>>
     ELSE /\ used' = [used EXCEPT ![s] = @ - 1]
          /\ list' = [list EXCEPT ![s] = IF used[s] = 1 THEN 0 ELSE @ + 1]
          /\ partial' = [partial EXCEPT ![k] = PartialAfter(k, s)]
          /\ pool' = IF used[s] = 1 THEN pool \cup {s} ELSE pool
          /\ cache' = [cache EXCEPT ![s] = IF used[s] = 1 THEN None ELSE @]
          /\ UNCHANGED <<remote, remote_check, remote_list, remote_cache>>
  /\ left' = [left EXCEPT ![c] = @ - 1]
  /\ UNCHANGED <<held, pc, on>>

FlushEnds(c) ==
  /\ pc[c] \in {"flush", "flush_trim"}
  /\ left[c] = 0 \/ objects[on[c]] = Empty
  /\ Goto(c, IF pc[c] = "flush" THEN "idle" ELSE "trim", 0)
  /\ UNCHANGED <<shared, on>>

SlabNext ==
  \/ \E c \in Core : Alloc(c) \/ Claim(c) \/ Trim(c) \/ Retry(c) \/ FlushEnds(c)
  \/ \E n \in Node : AllocNid(n)
  \/ \E c \in Core, s \in Slab : FreeLocal(c, s) \/ FreeOther(c, s) \/ FlushOne(c, s)

SlabSpec == SlabInit /\ [][SlabNext]_slabVars

-----------------------------------------------------------------------------
(* Properties.                                                              *)

\* Every object of a slab is in one place, whichever cores freed and flushed
\* it: with a client, in a list of a cache or a core, or in the slab.  A block
\* goes back to the page allocator only when no object of it is anywhere else,
\* and the slabs a cache can allocate from are exactly those it has listed.
ObjectsConserved ==
  \A s \in Slab :
    LET elsewhere == held[s] + Size([k \in Cache |-> objects[k][s] + remote[k][s]])
                     + Size([c \in Core |-> remote_list[c][s]])
    IN  /\ elsewhere = used[s]
        /\ s \in pool <=> cache[s] = None
        /\ IF s \in pool THEN used[s] = 0 ELSE used[s] > 0 /\ used[s] + list[s] = PerSlab
        /\ \A k \in Cache : Cardinality({j \in DOMAIN partial[k] : partial[k][j] = s})
                            = IF cache[s] = k /\ list[s] > 0 THEN 1 ELSE 0

\* remote_check is only a hint, written without the lock.  Once a batch of
\* objects waits in the list of a cache, the flag is up or its core is already
\* on the way to claim the list: the objects are not forgotten.
RemoteFreesAnnounced ==
  \A k \in Cache : Size(remote[k]) >= FreeBatch =>
    remote_check[k] \/ \E c \in Core : on[c] = k /\ pc[c] = "claim"

\* What the caches keep is bounded: between operations a cache holds at most
\* HiWater objects and a core at most a batch of objects of another's.
CachesBounded ==
  \A c \in Core : /\ Size(remote_list[c]) <= FreeBatch
                  /\ pc[c] = "idle" => Size(objects[c]) <= HiWater
=============================================================================
