------------------------------- MODULE Clock -------------------------------
(***************************************************************************)
(* The clocks (src/src/native/Clock.cc): PvClock.cc reads pages that the   *)
(* hypervisor rewrites while the core runs, PitClock.cc measures the speed *)
(* of the time stamp counter against the interval timer.                   *)
(*                                                                         *)
(* One core reads; the hypervisor takes a step between any two of its      *)
(* loads.  The fixed-point multiplier has Frac fractional bits (32), the   *)
(* interval timer counts modulo PitLimit (2^16).                           *)
(***************************************************************************)
EXTENDS Integers, Sequences, SequencesExt

CONSTANTS Rates,      \* <<multiplier, shift>> pairs the hypervisor may publish
          Walls,      \* <<sec, nsec>> pairs
          Frac, PitLimit, Speeds,  \* of Speeds: time stamps per tick of the interval timer
          Step,       \* time stamps the calibration waits for (10,000,000)
          MaxTsc,     \* bound: time stamps
          MaxUpdates, \* bound: updates of a page
          MaxCalls,   \* bound: calls
          None

VARIABLES pv,         \* cpuid::features.kvm_clocksource2
          tsc,        \* the time stamp counter
          page,       \* wall_clock and vcpu_time_info: version and fields
          writing,    \* of each page: the fields the hypervisor still has to write
          published,  \* history, of each page: the contents it has had
          call,       \* the call in progress: [kind] or None
          todo,       \* what it still does, the next step first
          version, local,   \* local variables of the read loop
          since,      \* history: contents of the page current when the loop began
          escaped,    \* history: a loop ended on an odd version
          out,        \* the last result: [kind, local, at, value] or None
          calls,
          speed, pit, rate, boot  \* the interval timer's side

pvVars == <<page, writing, published>>
readVars == <<call, todo, version, local, since, escaped, out, calls>>
pitVars == <<speed, pit, rate, boot>>
clockVars == <<pv, tsc, pvVars, readVars, pitVars>>

Page == {"wall", "time"}
Fields == [wall |-> <<"sec", "nsec">>, time |-> <<"tsc", "system", "mul", "shift">>]

\* The shift, mulq and shrd on a difference of time stamps.
Scale(d, f) ==
  ((IF f.shift >= 0 THEN d * 2 ^ f.shift ELSE d \div 2 ^ (-f.shift)) * f.mul) \div 2 ^ Frac

-----------------------------------------------------------------------------
(* external: the hypervisor and the processor.                              *)

Tick == tsc < MaxTsc /\ tsc' = tsc + 1 /\ UNCHANGED <<pv, pvVars, readVars, pitVars>>

\* The next contents of a page: time goes on from the one before at another rate.
Contents(p) ==
  IF p = "wall" THEN {[sec |-> w[1], nsec |-> w[2]] : w \in Walls}
  ELSE LET f == page.time.fields
       IN {[tsc |-> tsc, system |-> f.system + Scale(tsc - f.tsc, f), mul |-> r[1], shift |-> r[2]] :
             r \in Rates}

BeginUpdate(p) ==
  /\ pv /\ writing[p] = None /\ Len(published[p]) <= MaxUpdates
  /\ page' = [page EXCEPT ![p].version = @ + 1]
  /\ \E c \in Contents(p) : writing' = [writing EXCEPT ![p] = [left |-> Fields[p], to |-> c]]
  /\ UNCHANGED <<pv, tsc, published, readVars, pitVars>>

Update(p) ==
  /\ writing[p] # None
  /\ LET w == writing[p] IN
     IF w.left # <<>>
     THEN /\ page' = [page EXCEPT ![p].fields[Head(w.left)] = w.to[Head(w.left)]]
          /\ writing' = [writing EXCEPT ![p].left = Tail(@)]
          /\ UNCHANGED published
     ELSE /\ page' = [page EXCEPT ![p].version = @ + 1]
          /\ writing' = [writing EXCEPT ![p] = None]
          /\ published' = [published EXCEPT ![p] = Append(@, w.to)]
  /\ UNCHANGED <<pv, tsc, readVars, pitVars>>

-----------------------------------------------------------------------------
(* PvClock: a call runs the read loop of one or two pages.  Fields that are *)
(* loaded: all of the page, or for TscToNano the rate only.                 *)

LoadsOf(kind, p) ==
  IF kind = "convert" THEN <<"mul", "shift">> ELSE Fields[p]

Loop(kind, p) ==
  <<<<"version", p>>>> \o [i \in DOMAIN LoadsOf(kind, p) |-> <<LoadsOf(kind, p)[i], p>>]
  \o <<<<"check", p>>>>

\* Now() is WallClockBoot and then SystemTime; Uptime() and TscToNano() read one page.
Call(kind) ==
  /\ pv /\ call = None /\ calls < MaxCalls
  /\ call' = [kind |-> kind]
  /\ todo' = (IF kind = "now" THEN Loop(kind, "wall") ELSE <<>>) \o Loop(kind, "time")
  /\ calls' = calls + 1
  /\ local' = [f \in {"sec", "nsec", "tsc", "system", "mul", "shift"} |->
                 IF f \in {"sec", "nsec"} THEN None ELSE 0]
  /\ UNCHANGED <<pv, tsc, pvVars, version, since, escaped, out, pitVars>>

\* Seeded fault: the page's version is not looked at again.
CheckNever(p) ==
  IF p = "time" THEN Tail(todo)
  ELSE IF version # page[p].version THEN Loop(call.kind, p) \o Tail(todo) ELSE Tail(todo)

\* The condition of the do-while: with a changed version the loop begins again.
Check(p) ==
  IF version # page[p].version THEN Loop(call.kind, p) \o Tail(todo) ELSE Tail(todo)

\* One load.  continue on an odd version goes on to the condition of the loop, which
\* ends it when the version is still the same.
Load ==
  /\ call # None /\ todo # <<>>
  /\ LET step == Head(todo)[1] p == Head(todo)[2] IN
     CASE step = "version" ->
            /\ version' = page[p].version
            /\ since' = [since EXCEPT ![p] = Len(published[p])]
            /\ escaped' = [escaped EXCEPT ![p] = FALSE]
            /\ todo' = IF page[p].version % 2 = 1
                       THEN SubSeq(todo, Len(LoadsOf(call.kind, p)) + 2, Len(todo))
                       ELSE Tail(todo)
            /\ UNCHANGED local
       [] step = "check" ->
            /\ todo' = Check(p)
            /\ escaped' = [escaped EXCEPT ![p] = version % 2 = 1]
            /\ UNCHANGED <<version, local, since>>
       [] OTHER ->
            /\ local' = [local EXCEPT ![step] = page[p].fields[step]]
            /\ todo' = Tail(todo)
            /\ UNCHANGED <<version, since, escaped>>
  /\ UNCHANGED <<pv, tsc, pvVars, call, out, calls, pitVars>>

\* rdtsc and the arithmetic.
Return ==
  /\ call # None /\ todo = <<>>
  /\ out' = [kind |-> call.kind, local |-> local, at |-> tsc,
             value |-> IF call.kind = "convert" THEN Scale(1, local)
                       ELSE local.system + Scale(tsc - local.tsc, local)]
  /\ call' = None
  /\ UNCHANGED <<pv, tsc, pvVars, todo, version, local, since, escaped, calls, pitVars>>

-----------------------------------------------------------------------------
(* PitClock.                                                                *)

\* CalibrateSystemTime: the loop ends when Step time stamps, and late more, have passed.
CalibrateSystemTime(late) ==
  /\ ~pv /\ rate = None
  /\ LET passed == Step + late
         start == pit
         end == (pit - passed \div speed) % PitLimit
     IN /\ pit' = end
        /\ rate' = [ticks |-> (start - end) % PitLimit, tsc |-> passed]
        /\ tsc' = tsc + passed
  /\ boot' = tsc
  /\ UNCHANGED <<pv, pvVars, readVars, speed>>

\* Now(), in ticks of the interval timer.
PitNow ==
  /\ ~pv /\ rate # None /\ calls < MaxCalls
  /\ calls' = calls + 1
  /\ out' = [kind |-> "pit", value |-> ((tsc - boot) * rate.ticks) \div rate.tsc, at |-> tsc]
  /\ UNCHANGED <<pv, tsc, pvVars, call, todo, version, local, since, escaped, pitVars>>

ClockInit ==
  /\ pv \in BOOLEAN
  /\ tsc = 0
  /\ \E r \in Rates, w \in Walls :
       page = [wall |-> [version |-> 0, fields |-> [sec |-> w[1], nsec |-> w[2]]],
               time |-> [version |-> 0,
                         fields |-> [tsc |-> 0, system |-> 0, mul |-> r[1], shift |-> r[2]]]]
  /\ published = [p \in Page |-> <<page[p].fields>>]
  /\ writing = [p \in Page |-> None]
  /\ call = None /\ todo = <<>> /\ version = 0 /\ local = None /\ calls = 0
  /\ since = [p \in Page |-> 0] /\ escaped = [p \in Page |-> FALSE] /\ out = None
  /\ speed \in Speeds /\ pit \in 0 .. PitLimit - 1 /\ (pv => pit = 0 /\ speed = 1)
  /\ rate = None /\ boot = 0

ClockNext ==
  \/ Tick
  \/ \E p \in Page : BeginUpdate(p) \/ Update(p)
  \/ \E kind \in {"now", "uptime", "convert"} : Call(kind)
  \/ Load \/ Return
  \/ \E late \in 0 .. 2 : CalibrateSystemTime(late)
  \/ PitNow

ClockSpec == ClockInit /\ [][ClockNext]_clockVars

-----------------------------------------------------------------------------
Agrees(p) ==
  \E n \in since[p] .. Len(published[p]) :
    n > 0 /\ \A i \in DOMAIN LoadsOf(out.kind, p) :
               LET f == LoadsOf(out.kind, p)[i] IN out.local[f] = published[p][n][f]

Returned(p) ==
  out # None /\ call = None /\ out.kind # "pit" /\ (p = "wall" => out.kind = "now")

\* A reading of a page of the hypervisor is a snapshot of it: all the fields belong to
\* one update that was current during the call, however the loads and the updates
\* interleave, unless the loop ended on an odd version.  The interval timer's clock shows
\* the ticks that have passed, when fewer than PitLimit pass while it is calibrated.
ReadingsConsistent ==
  /\ \A p \in Page : Returned(p) /\ ~escaped[p] => Agrees(p)
  /\ out # None /\ out.kind = "pit" /\ (Step + 2) \div speed < PitLimit =>
       out.value = ((out.at - boot) * (rate.tsc \div speed)) \div rate.tsc
=============================================================================
