--------------------------------- MODULE Ebb ---------------------------------
(***************************************************************************)
(* Ebbs and their representatives: an Ebb is an identifier that every core *)
(* resolves through its own translation entry; the first use on a core     *)
(* faults, and the class of the Ebb decides which representative the fault *)
(* installs.  EbbAllocator.cc (local identifiers), EbbRef.h, LocalIdMap.cc,*)
(* SharedEbb.h, StaticSharedEbb.h, MulticoreEbb.h, MulticoreEbbStatic.h,   *)
(* and CmdLineArgs.cc, whose reps are made of what the global map holds.   *)
(*                                                                         *)
(* A fault runs to its end on its core but not across cores: MulticoreEbb  *)
(* reads and writes the map of representatives after it has let go of the  *)
(* accessor, so that a write may be lost to another core's.                *)
(***************************************************************************)
EXTENDS Integers, Sequences, FiniteSets

CONSTANTS Core,
          Kinds,      \* the sequence of kinds of Ebb the program creates: "shared",
                      \* "static_shared", "multicore" (with the default root and with one
                      \* of its own), "unrecorded" (without a root, and static), "command"
          FirstFree, FirstStaticUser,   \* kFirstFreeId, kFirstStaticUserId
          None

VARIABLES free_ids_,
          created,    \* the kind of each Ebb, by its identifier
          map,        \* local_id_map: the representatives of each Ebb
          ref,        \* ref[c][id]: the translation entry
          fault,      \* the fault each core is in
          built,      \* representatives constructed so far: <<core, id, number>>
          lost        \* a representative has been left out of its map

ebbVars == <<free_ids_, created, map, ref, fault, built, lost>>

Ids == FirstFree..(FirstStaticUser - 1)

EbbsInit ==
  /\ free_ids_ = FirstFree..(FirstStaticUser - 2)
  /\ created = <<>> /\ map = <<>>
  /\ ref = [c \in Core |-> [i \in Ids |-> None]]
  /\ fault = [c \in Core |-> None] /\ built = {} /\ lost = FALSE

\* AllocateLocal: the first free identifier.
AllocateLocal == CHOOSE f \in free_ids_ : \A g \in free_ids_ : f <= g

\* The Create of the kind; a SharedEbb brings its rep.
Create(c) ==
  /\ fault[c] = None /\ Cardinality(DOMAIN created) < Len(Kinds) /\ free_ids_ # {}
  /\ LET i == AllocateLocal
         kind == Kinds[Cardinality(DOMAIN created) + 1]
         rep == <<c, i, 0>>
     IN  /\ free_ids_' = free_ids_ \ {i}
         /\ created' = [j \in DOMAIN created \cup {i} |-> IF j = i THEN kind ELSE created[j]]
         /\ map' = [j \in DOMAIN map \cup {i} |->
                      IF j # i THEN map[j]
                      ELSE IF kind = "shared" THEN [d \in Core |-> rep]
                      ELSE [d \in Core |-> None]]
         /\ built' = IF kind = "shared" THEN built \cup {rep} ELSE built
  /\ UNCHANGED <<ref, fault, lost>>

\* EbbRef::operator* on an empty entry calls HandleFault, which ends in CacheRef.
Faults(c, i) == fault[c] = None /\ i \in DOMAIN created /\ ref[c][i] = None
CacheRef(c, i, rep) == ref' = [ref EXCEPT ![c][i] = rep]

\* StaticSharedEbb::HandleFault: one static rep.
StaticSharedFault(c, i) ==
  /\ Faults(c, i) /\ created[i] = "static_shared"
  /\ LET rep == <<None, i, 0>>
     IN  CacheRef(c, i, rep) /\ built' = built \cup {rep}
  /\ UNCHANGED <<free_ids_, created, map, fault, lost>>

\* SharedEbb::HandleFault: the rep of the map.
SharedFault(c, i) ==
  /\ Faults(c, i) /\ created[i] = "shared"
  /\ CacheRef(c, i, map[i][c])
  /\ UNCHANGED <<free_ids_, created, map, fault, built, lost>>

\* HandleFault of the other kinds, up to the look in the map (GetRep).
HandleFault(c, i) ==
  /\ Faults(c, i) /\ created[i] \notin {"static_shared", "shared"}
  /\ IF map[i][c] # None
     THEN CacheRef(c, i, map[i][c]) /\ UNCHANGED fault
     ELSE /\ fault' = [fault EXCEPT ![c] = [id |-> i, at |-> "new", seen |-> None]]
          /\ UNCHANGED ref
  /\ UNCHANGED <<free_ids_, created, map, built, lost>>

\* new T: a representative of its own for this core.
Number(c, i) == Cardinality({b \in built : b[1] = c /\ b[2] = i})

\* The rep is built, and goes on to SetRep.
Construct(c) ==
  /\ fault[c] # None /\ fault[c].at = "new" /\ created[fault[c].id] = "multicore"
  /\ LET i == fault[c].id
     IN  /\ built' = built \cup {<<c, i, Number(c, i)>>}
         /\ fault' = [fault EXCEPT ![c] = [id |-> i, at |-> "set", seen |-> map[i]]]
  /\ UNCHANGED <<free_ids_, created, map, ref, lost>>

\* MulticoreEbb<T, void> does not put the rep into the map at all, and
\* MulticoreEbbStatic puts it into a copy of the map.
ConstructUnrecorded(c) ==
  /\ fault[c] # None /\ fault[c].at = "new" /\ created[fault[c].id] = "unrecorded"
  /\ LET i == fault[c].id
         rep == <<c, i, Number(c, i)>>
     IN  built' = built \cup {rep} /\ CacheRef(c, i, rep)
  /\ fault' = [fault EXCEPT ![c] = None]
  /\ UNCHANGED <<free_ids_, created, map, lost>>

\* Seeded fault: the core that lost the race keeps the arguments it built.
InsertArgsAlways(c) ==
  /\ fault[c] # None /\ fault[c].at = "new" /\ created[fault[c].id] = "command"
  /\ LET i == fault[c].id
         p == <<c, i, Number(c, i)>>
     IN  /\ map' = IF map[i][c] = None THEN [map EXCEPT ![i] = [d \in Core |-> p]] ELSE map
         /\ CacheRef(c, i, p) /\ built' = built \cup {p}
  /\ fault' = [fault EXCEPT ![c] = None]
  /\ UNCHANGED <<free_ids_, created, lost>>

\* CmdLineArgs::HandleFault once the global map has answered: the new object is
\* inserted, or deleted when another core was first and its object is found.
InsertArgs(c) ==
  /\ fault[c] # None /\ fault[c].at = "new" /\ created[fault[c].id] = "command"
  /\ LET i == fault[c].id
         p == <<c, i, Number(c, i)>>
         inserted == map[i][c] = None
     IN  /\ map' = IF inserted THEN [map EXCEPT ![i] = [d \in Core |-> p]] ELSE map
         /\ built' = IF inserted THEN built \cup {p} ELSE built
         /\ CacheRef(c, i, IF inserted THEN p ELSE map[i][c])
  /\ fault' = [fault EXCEPT ![c] = None]
  /\ UNCHANGED <<free_ids_, created, lost>>

\* SetRep and CacheRef.  The insertion moves the entries of the flat_map: one
\* that began before another core's ended may leave either entry out.
SetRep(c) ==
  /\ fault[c] # None /\ fault[c].at = "set"
  /\ LET i == fault[c].id
         rep == <<c, i, Number(c, i) - 1>>
     IN  /\ \/ map' = [map EXCEPT ![i][c] = rep]
            \/ map[i] # fault[c].seen /\ map' = [map EXCEPT ![i] = [fault[c].seen EXCEPT ![c] = rep]]
         /\ ref' = [ref EXCEPT ![c][i] = rep]
         /\ lost' = (lost \/ \E d \in Core : map[i][d] # None /\ map'[i][d] = None)
  /\ fault' = [fault EXCEPT ![c] = None]
  /\ UNCHANGED <<free_ids_, created, built>>

EbbsNext ==
  \E c \in Core : \/ Create(c) \/ Construct(c) \/ ConstructUnrecorded(c) \/ SetRep(c) \/ InsertArgs(c)
                  \/ \E i \in DOMAIN created : \/ StaticSharedFault(c, i) \/ SharedFault(c, i)
                                              \/ HandleFault(c, i)

EbbsSpec == EbbsInit /\ [][EbbsNext]_ebbVars

-----------------------------------------------------------------------------
\* What each kind of Ebb promises its callers: a core builds at most one
\* representative of an Ebb and uses the one it built; of a shared Ebb and
\* of the command line all cores use the same one; and, unless an insertion was lost to a race, the
\* root of a MulticoreEbb finds the rep of every core that has one.
RepsRight ==
  /\ \A b, d \in built : b[1] = d[1] /\ b[2] = d[2] => b = d
  /\ \A c, d \in Core, i \in DOMAIN created :
       ref[c][i] # None =>
         /\ ref[c][i] \in built /\ ref[c][i][2] = i
         /\ created[i] \in {"shared", "static_shared", "command"} => ref[d][i] \in {None, ref[c][i]}
         /\ created[i] \in {"multicore", "unrecorded"} => ref[c][i][1] = c
         /\ created[i] = "multicore" /\ ~lost => map[i][c] = ref[c][i]

=============================================================================
