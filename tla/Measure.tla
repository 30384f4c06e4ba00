------------------------------ MODULE Measure ------------------------------
(***************************************************************************)
(* Performance counters (src/src/native/Perf.cc and Perf.h) and the trace  *)
(* log (Trace.cc), which program the same control register.                *)
(*                                                                         *)
(* The counters are those of the first core, the one that traces; the      *)
(* other cores only call the trace.  What is counted is an event that      *)
(* occurs.                                                                 *)
(***************************************************************************)
EXTENDS Integers, Sequences, FiniteSets, FiniteSetsExt

CONSTANTS Object,      \* PerfCounter objects
          Usual, Fixed,  \* general events; fixed events, of which each has its own counter
          Unavailable, \* general events that cpuid reports as not available
          PmcCount,    \* general counters
          Core, First, \* the cores; core 0
          MaxTrace,    \* bound: entries of the log (the code does not test MAX_TRACE)
          MaxCount,    \* bound: events that occur
          MaxSteps,    \* bound: calls
          None

VARIABLES value,       \* hardware: of each counter, its value
          sel,         \* hardware: the event a general counter is enabled for, or None
          fixedOn,     \* hardware: IA32_FIXED_CTR_CTRL
          global,      \* hardware: IA32_PERF_GLOBAL_CTRL
          pmcs, perf_global_ctrl,   \* thread_local
          obj,         \* of each object: None, or [evt, num, offset]; evt None is nil_event
          ideal,       \* history, of each object: [run, seen]
          traced,      \* history: tracing has written the register
          leaked,      \* history: an object in use was assigned over
          shared,      \* history: two objects were given one fixed counter
          is_intel, global_trace_enabled, local_trace_enabled, trace_log,
          occurred, steps

perfVars == <<value, sel, fixedOn, global, pmcs, perf_global_ctrl, obj, ideal, leaked, shared>>
traceVars == <<traced, is_intel, global_trace_enabled, local_trace_enabled, trace_log>>
measureVars == <<perfVars, traceVars, occurred, steps>>

General == 0 .. PmcCount - 1
FixedOf(e) == PmcCount + Cardinality({f \in Fixed : f < e})
Counter == General \cup {FixedOf(e) : e \in Fixed}
Nil == [evt |-> None, num |-> 0, offset |-> 0]
Idle == [run |-> FALSE, seen |-> 0]
Live(k) == obj[k] # None /\ obj[k].evt # None
Step == steps < MaxSteps /\ steps' = steps + 1 /\ UNCHANGED occurred

-----------------------------------------------------------------------------
(* PerfCounter.                                                             *)

Taken(i) == pmcs \cup {i}

\* The constructor.  The test of an event whose number is above 31 shifts by more than
\* the width: its outcome is not defined.
New(k, e) ==
  /\ Step /\ obj[k] = None
  /\ ideal' = [ideal EXCEPT ![k] = Idle]
  /\ \/ /\ e \in Fixed \/ e \in Unavailable
        /\ obj' = [obj EXCEPT ![k] = Nil]
        /\ UNCHANGED <<sel, fixedOn, pmcs>>
     \/ /\ e \in Fixed
        /\ fixedOn' = fixedOn \cup {FixedOf(e)}
        /\ obj' = [obj EXCEPT ![k] = [evt |-> e, num |-> FixedOf(e), offset |-> value[FixedOf(e)]]]
        /\ UNCHANGED <<sel, pmcs>>
     \/ /\ e \in Usual \ Unavailable
        /\ IF General \subseteq pmcs
           THEN obj' = [obj EXCEPT ![k] = Nil] /\ UNCHANGED <<sel, pmcs>>
           ELSE LET i == Min(General \ pmcs)
                IN /\ pmcs' = Taken(i)
                   /\ sel' = [sel EXCEPT ![i] = e]
                   /\ obj' = [obj EXCEPT ![k] = [evt |-> e, num |-> i, offset |-> value[i]]]
        /\ UNCHANGED fixedOn
  /\ shared' = (shared \/ \E j \in Object : Live(j) /\ obj[j].evt = e /\ e \in Fixed)
  /\ UNCHANGED <<value, global, perf_global_ctrl, leaked, traceVars>>

\* The destructor.  The word that is written back starts from an uninitialised one:
\* fixed counters that were off may be switched on.
Destroy(k) ==
  /\ Step /\ obj[k] # None
  /\ obj' = [obj EXCEPT ![k] = None]
  /\ ideal' = [ideal EXCEPT ![k] = Idle]
  /\ IF Live(k)
     THEN LET i == obj[k].num IN
          /\ perf_global_ctrl' = perf_global_ctrl \ {i} /\ global' = perf_global_ctrl'
          /\ IF obj[k].evt \in Fixed
             THEN /\ \E junk \in SUBSET {FixedOf(e) : e \in Fixed} :
                       fixedOn' = (fixedOn \cup junk) \ {i}
                  /\ UNCHANGED <<sel, pmcs>>
             ELSE sel' = [sel EXCEPT ![i] = None] /\ pmcs' = pmcs \ {i} /\ UNCHANGED fixedOn
     ELSE UNCHANGED <<perf_global_ctrl, global, sel, pmcs, fixedOn>>
  /\ UNCHANGED <<value, leaked, shared, traceVars>>

Start(k) ==
  /\ Step /\ Live(k)
  /\ perf_global_ctrl' = perf_global_ctrl \cup {obj[k].num} /\ global' = perf_global_ctrl'
  /\ ideal' = [ideal EXCEPT ![k].run = TRUE]
  /\ UNCHANGED <<value, sel, fixedOn, pmcs, obj, leaked, shared, traceVars>>

Stop(k) ==
  /\ Step /\ Live(k)
  /\ perf_global_ctrl' = perf_global_ctrl \ {obj[k].num} /\ global' = perf_global_ctrl'
  /\ ideal' = [ideal EXCEPT ![k].run = FALSE]
  /\ UNCHANGED <<value, sel, fixedOn, pmcs, obj, leaked, shared, traceVars>>

Clear(k) ==
  /\ Step /\ obj[k] # None
  /\ obj' = [obj EXCEPT ![k].offset = IF Live(k) THEN value[obj[k].num] ELSE 0]
  /\ ideal' = [ideal EXCEPT ![k].seen = 0]
  /\ UNCHANGED <<value, sel, fixedOn, global, pmcs, perf_global_ctrl, leaked, shared, traceVars>>

Read(k) == IF Live(k) THEN value[obj[k].num] - obj[k].offset ELSE 0

\* Move constructor and move assignment: what the target was is forgotten.
Move(k, j) ==
  /\ Step /\ k # j /\ obj[k] # None
  /\ obj' = [obj EXCEPT ![j] = obj[k], ![k].evt = None]
  /\ ideal' = [ideal EXCEPT ![j] = ideal[k], ![k] = Idle]
  /\ leaked' = (leaked \/ Live(j))
  /\ UNCHANGED <<value, sel, fixedOn, global, pmcs, perf_global_ctrl, shared, traceVars>>

\* external: the event e occurs on the core.
Occur(e) ==
  LET counts(c) == c \in global /\ IF c \in General THEN sel[c] = e
                                   ELSE c \in fixedOn /\ e \in Fixed /\ c = FixedOf(e)
  IN /\ occurred < MaxCount /\ occurred' = occurred + 1
     /\ value' = [c \in Counter |-> IF counts(c) THEN value[c] + 1 ELSE value[c]]
     /\ ideal' = [k \in Object |-> IF Live(k) /\ obj[k].evt = e /\ ideal[k].run
                                   THEN [ideal[k] EXCEPT !.seen = @ + 1] ELSE ideal[k]]
     /\ UNCHANGED <<sel, fixedOn, global, pmcs, perf_global_ctrl, obj, leaked, shared, traceVars, steps>>

-----------------------------------------------------------------------------
(* Trace.                                                                   *)

Enable(c) ==
  /\ Step /\ global_trace_enabled /\ c = First
  /\ local_trace_enabled' = [local_trace_enabled EXCEPT ![c] = TRUE]
  /\ global' = IF is_intel THEN {FixedOf(e) : e \in Fixed} ELSE global
  /\ traced' = (traced \/ is_intel)
  /\ UNCHANGED <<value, sel, fixedOn, pmcs, perf_global_ctrl, obj, ideal, leaked, shared,
                 is_intel, global_trace_enabled, trace_log>>

Disable(c) ==
  /\ Step /\ global_trace_enabled /\ c = First
  /\ local_trace_enabled' = [local_trace_enabled EXCEPT ![c] = FALSE]
  /\ global' = IF is_intel THEN {} ELSE global
  /\ traced' = (traced \/ is_intel)
  /\ UNCHANGED <<value, sel, fixedOn, pmcs, perf_global_ctrl, obj, ideal, leaked, shared,
                 is_intel, global_trace_enabled, trace_log>>

\* An entry of the log; AddNote does not ask for the core, the others do.
Log(c, what) ==
  /\ Step /\ global_trace_enabled /\ local_trace_enabled[c] /\ Len(trace_log) < MaxTrace
  /\ trace_log' = Append(trace_log, [core |-> c, what |-> what])
  /\ UNCHANGED <<perfVars, traced, is_intel, global_trace_enabled, local_trace_enabled>>

AddNote(c) == Log(c, "note")
AddTracepoint(c) == c = First /\ Log(c, "point")
AddTimestamp(c) == c = First /\ Log(c, "stamp")
func_enter(c) == c = First /\ Log(c, "enter")
func_exit(c) == c = First /\ Log(c, "exit")

MeasureInit ==
  /\ value = [c \in Counter |-> 0] /\ sel = [c \in General |-> None]
  /\ is_intel \in BOOLEAN /\ global_trace_enabled \in BOOLEAN   \* trace::Init was called
  /\ fixedOn = {FixedOf(e) : e \in {f \in Fixed : is_intel /\ global_trace_enabled}}
  /\ global = {} /\ pmcs = {} /\ perf_global_ctrl = {}
  /\ obj = [k \in Object |-> None] /\ ideal = [k \in Object |-> Idle]
  /\ traced = FALSE /\ leaked = FALSE /\ shared = FALSE
  /\ local_trace_enabled = [c \in Core |-> FALSE] /\ trace_log = <<>>
  /\ occurred = 0 /\ steps = 0

MeasureNext ==
  \/ \E k \in Object : \/ \E e \in Usual \cup Fixed : New(k, e)
                       \/ Destroy(k) \/ Start(k) \/ Stop(k) \/ Clear(k)
                       \/ \E j \in Object : Move(k, j)
  \/ \E e \in Usual \cup Fixed : Occur(e)
  \/ \E c \in Core : \/ Enable(c) \/ Disable(c) \/ AddNote(c) \/ AddTracepoint(c)
                     \/ AddTimestamp(c) \/ func_enter(c) \/ func_exit(c)

MeasureSpec == MeasureInit /\ [][MeasureNext]_measureVars

-----------------------------------------------------------------------------
Both(k) == \E j \in Object \ {k} : Live(j) /\ obj[j].num = obj[k].num

\* A counter reads the number of its events that occurred while it was started, since it
\* was made or cleared, whatever other counters are made, moved, stopped and destroyed,
\* unless tracing has written the register that starts and stops them all; a fixed counter
\* also has to have been one object's at a time.  No two objects have the same general counter, and one that
\* belongs to no object is free for the next unless its object was assigned over.  Only
\* the first core writes the trace log, though AddNote does not ask which core calls it.
CountersRight ==
  /\ \A k \in Object : /\ Live(k) /\ ~traced
                     /\ (obj[k].evt \in Usual \/ (~shared /\ ~leaked))
                     => Read(k) = ideal[k].seen
  /\ \A k \in Object : Live(k) /\ obj[k].evt \in Usual => ~Both(k)
  /\ leaked \/ pmcs = {obj[k].num : k \in {j \in Object : Live(j) /\ obj[j].evt \in Usual}}
  /\ \A i \in DOMAIN trace_log : trace_log[i].core = First
=============================================================================
