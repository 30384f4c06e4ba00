------------------------------- MODULE Traps -------------------------------
(***************************************************************************)
(* Exceptions and interrupts of one core (src/src/native/Idt.cc, Idt.h and *)
(* Isr.S): the gates, what the processor and the entry code push, the      *)
(* frame a handler is given, and the way back.                             *)
(*                                                                         *)
(* A stack is the sequence of its words, the last pushed first; the place  *)
(* of the floating point state is one word.  The value of a register is a  *)
(* record of its name and of whose value it is.                            *)
(***************************************************************************)
EXTENDS Integers, Sequences, SequencesExt, FiniteSets

CONSTANTS Events,   \* interrupt vectors that occur, from 32 on
          MaxTraps, \* bound: exceptions and interrupts
          None

VARIABLES regs,     \* the registers, with fpu
          ist,      \* the words on interrupt stack 1, the exceptions'
          running,  \* what runs: Program, the handler of a vector, or Aborted
          frame,    \* the ExceptionFrame* of the handler, as it reads it
          before,   \* history: the registers when the exception was raised
          error,    \* history: the error code the processor gave
          event,    \* the number EventInterrupt was called with, or None
          taken, traps

trapVars == <<regs, ist, running, frame, before, error, event, taken, traps>>

Program == -1
Aborted == -2

General == <<"rax", "rbx", "rcx", "rdx", "rsi", "rdi", "rbp",
             "r8", "r9", "r10", "r11", "r12", "r13", "r14", "r15">>
Machine == <<"ss", "rsp", "rflags", "cs", "rip">>
Registers == Range(General) \cup Range(Machine) \cup {"fpu"}

\* external: the vectors for which the processor pushes an error code.
PushesError == {8, 10, 11, 12, 13, 14, 17}

-----------------------------------------------------------------------------
(* The gates: INTERRUPT_ENTRY of each exception that has one.               *)

Gates == (0 .. 19) \ {9, 15}

HasErrorCode(v) == v \in {8, 10, 11, 12, 13, 14, 17}
SavesFpu(v) == v # 16

\* Entry i of the table for an event is stub i - 32, which passes its own number.
EventEntry(i) == 32 + (i - 32)

\* The processor's words and then those of the entry code, down to the fxsave area and
\* the word that aligns it.
Pushed(v, code) ==
  LET word(r) == regs[r]
      hardware == [i \in 1 .. 5 |-> word(Machine[i])]
      errors == (IF v \in PushesError THEN <<code>> ELSE <<>>)
                \o (IF HasErrorCode(v) THEN <<>> ELSE <<[name |-> "zero", of |-> "entry"]>>)
      saved == [i \in DOMAIN General |-> word(General[i])]
      last == <<[name |-> "empty", of |-> "entry"],
                IF SavesFpu(v) THEN word("fpu") ELSE [name |-> "empty", of |-> "entry"]>>
  IN Reverse(hardware \o errors \o saved \o last)

\* struct ExceptionFrame
ExceptionFrame ==
  <<"fpu", "empty", "r15", "r14", "r13", "r12", "r11", "r10", "r9", "r8", "rbp", "rdi",
    "rsi", "rdx", "rcx", "rbx", "rax", "error_code", "rip", "cs", "rflags", "rsp", "ss">>

Word(stack, field) ==
  LET i == CHOOSE i \in DOMAIN ExceptionFrame : ExceptionFrame[i] = field
  IN IF i <= Len(stack) THEN stack[i] ELSE None

\* An exception: the entry code calls the handler with the stack pointer.
Raise(v) ==
  /\ running = Program /\ v \in Gates /\ traps < MaxTraps
  /\ LET code == [name |-> "error", of |-> "processor"] IN
     /\ ist' = Pushed(v, code)
     /\ error' = IF v \in PushesError THEN code ELSE [name |-> "zero", of |-> "entry"]
  /\ before' = regs
  /\ frame' = [f \in Range(ExceptionFrame) |-> Word(ist', f)]
  /\ running' = v
  /\ traps' = traps + 1
  /\ UNCHANGED <<regs, event, taken>>

\* PageFaultException returns, the other handlers print the frame and abort; by then
\* the compiled code has used the registers.
Handler ==
  /\ running \in Gates /\ regs["rax"].of = "program"
  /\ regs' = [r \in Registers |-> [name |-> r, of |-> "handler"]]
  /\ running' = IF running = 14 THEN running ELSE Aborted
  /\ UNCHANGED <<ist, frame, before, error, event, taken, traps>>

\* fxrstor, the pops in the order of the macro, the error code dropped, iretq.
Return ==
  /\ running = 14 /\ regs["rax"].of = "handler"
  /\ LET pops == Reverse(General)
         at(r) == CHOOSE i \in DOMAIN pops : pops[i] = r
         rest == SubSeq(ist, Len(pops) + 4, Len(ist))
     IN regs' = [r \in Registers |->
          CASE r = "fpu" -> ist[1]
            [] r \in Range(General) -> ist[2 + at(r)]
            [] OTHER -> rest[CHOOSE i \in 1 .. 5 : Reverse(Machine)[i] = r]]
  /\ ist' = <<>> /\ frame' = None
  /\ running' = Program
  /\ UNCHANGED <<before, error, event, taken, traps>>

\* An interrupt: EventInterrupt(num), which does not come back to the entry code.
Interrupt(v) ==
  /\ running = Program /\ v \in Events /\ traps < MaxTraps
  /\ event' = EventEntry(v) /\ taken' = v
  /\ traps' = traps + 1
  /\ UNCHANGED <<regs, ist, running, frame, before, error>>

TrapsInit ==
  /\ regs = [r \in Registers |-> [name |-> r, of |-> "program"]]
  /\ ist = <<>> /\ running = Program /\ frame = None /\ before = regs /\ error = None
  /\ event = None /\ taken = None /\ traps = 0

TrapsNext ==
  \/ \E v \in 0 .. 31 : Raise(v)
  \/ Handler \/ Return
  \/ \E v \in Events : Interrupt(v)

TrapsSpec == TrapsInit /\ [][TrapsNext]_trapVars

-----------------------------------------------------------------------------
\* Whatever the exception, each field of the frame a handler reads holds what its name
\* says: the register of that name as it was, the error code if the processor gave one
\* and zero otherwise, and the floating point state unless the entry does not save it.
\* A page fault gives the program back every register, and an event is called with the
\* number of its vector.
FramesRight ==
  /\ running \in Gates =>
       /\ \A f \in Registers \ {"fpu"} : frame[f] = before[f]
       /\ frame["error_code"] = error
       /\ SavesFpu(running) => frame["fpu"] = before["fpu"]
  /\ running = Program => regs = before
  /\ event = taken
=============================================================================
