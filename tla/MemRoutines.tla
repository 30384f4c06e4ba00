---------------------------- MODULE MemRoutines ----------------------------
(***************************************************************************)
(* memcpy, memset and memchr (src/src/native/Memcpy.S, Memset.S and        *)
(* Memchr.S), a step for each labelled block of the assembly.              *)
(*                                                                         *)
(* Addresses are offsets from the start of the buffers, whose alignment is *)
(* kept apart.  Of the memory, only the positions of the byte searched for *)
(* are kept; a copy is right if source and destination stay at the same    *)
(* offset.  W is the width of an SSE register in memchr (16); memcpy and   *)
(* memset have their own constants.                                        *)
(***************************************************************************)
EXTENDS Integers, FiniteSets, FiniteSetsExt

CONSTANTS W, CopyLengths, SetLengths, ChrLengths, Aligns, Finds, None

VARIABLES fn,      \* the routine
          n, al,   \* its length argument; alignment of the source or buffer
          hits,    \* memchr: offsets, in and around the buffer, of the byte
          pc,      \* label
          si, di, dx, cx,   \* registers; offsets for rsi and rdi
          written, \* memset: offsets written
          ax       \* memchr: result, an offset or None

args == <<fn, n, al, hits>>
memVars == <<args, pc, si, di, dx, cx, written, ax>>

Bit(x, b) == (x \div b) % 2 = 1
Block(from, k) == from .. from + k - 1

-----------------------------------------------------------------------------
(* memcpy                                                                   *)

\* k bytes are copied, and the routine goes on at label next.
Copy(k, next) == si' = si + k /\ di' = di + k /\ pc' = next

Jump(next) == pc' = next /\ UNCHANGED <<si, di>>

Lcopy ==
  /\ fn = "memcpy" /\ pc = "1try"
  /\ Jump(IF dx >= 32 THEN "aligntry" ELSE "1") /\ UNCHANGED <<args, dx, cx, written, ax>>

\* L(1) to L(1c): one, two, four and eight bytes, as the bits of the length say.
Ltiny ==
  /\ fn = "memcpy"
  /\ \E b \in {1, 2, 4, 8} :
       /\ pc = (CASE b = 1 -> "1" [] b = 2 -> "1a" [] b = 4 -> "1b" [] b = 8 -> "1c")
       /\ LET next == CASE b = 1 -> "1a" [] b = 2 -> "1b" [] b = 4 -> "1c" [] b = 8 -> "1d"
          IN IF Bit(dx, b) THEN Copy(b, next) ELSE Jump(next)
  /\ UNCHANGED <<args, dx, cx, written, ax>>

\* L(1d) and L(1loop): sixteen bytes at a time.
L1loop ==
  /\ fn = "memcpy" /\ pc \in {"1d", "1loop"}
  /\ LET left == IF pc = "1d" THEN (dx % 256) - (dx % 16) ELSE dx
     IN IF left = 0 THEN Jump("exit") /\ dx' = 0
        ELSE dx' = left - 16 /\ Copy(16, "1loop")
  /\ UNCHANGED <<args, cx, written, ax>>

\* L(aligntry) to L(alignloop): bytes, until the source is aligned to a word.
Lalign ==
  /\ fn = "memcpy"
  /\ \/ /\ pc = "aligntry"
        /\ LET off == (al + si) % 8
           IN IF off = 0 THEN Jump("32try") /\ UNCHANGED <<dx, cx>>
              ELSE dx' = off + dx - 8 /\ cx' = off - 8 /\ Jump("alignloop")
     \/ /\ pc = "alignloop"
        /\ cx' = cx + 1 /\ Copy(1, IF cx' = 0 THEN "32try" ELSE "alignloop") /\ UNCHANGED dx
  /\ UNCHANGED <<args, written, ax>>

\* L(32try) to L(32skip): 32 bytes at a time, up to 1 KB; the rest is done by L(1).
L32loop ==
  /\ fn = "memcpy"
  /\ \/ /\ pc = "32try"
        /\ IF dx > 1024 THEN Jump("fast") /\ UNCHANGED cx
           ELSE cx' = dx \div 32 /\ Jump(IF cx' = 0 THEN "32skip" ELSE "32loop")
        /\ UNCHANGED dx
     \/ /\ pc = "32loop"
        /\ cx' = cx - 1 /\ Copy(32, IF cx' = 0 THEN "32skip" ELSE "32loop") /\ UNCHANGED dx
     \/ /\ pc = "32skip"
        /\ dx' = dx % 32 /\ Jump(IF dx' = 0 THEN "exit" ELSE "1") /\ UNCHANGED cx
  /\ UNCHANGED <<args, written, ax>>

\* L(fast): movsq, then the bytes that are left.
Lfast ==
  /\ fn = "memcpy" /\ pc = "fast"
  /\ dx' = dx % 8
  /\ Copy(8 * (dx \div 8), IF dx' = 0 THEN "exit" ELSE "1")
  /\ UNCHANGED <<args, cx, written, ax>>

-----------------------------------------------------------------------------
(* memset: the ends are written with stores that may overlap.               *)

Ends == UNION {Block(o, 16) : o \in {0, 16, 32, 48, n - 16, n - 32, n - 48, n - 64}}

Less16 ==
  CASE Bit(n, 8) \/ Bit(n, 16) -> Block(0, 8) \cup Block(n - 8, 8)
    [] ~(Bit(n, 8) \/ Bit(n, 16)) /\ Bit(n, 4) -> Block(0, 4) \cup Block(n - 4, 4)
    [] OTHER -> (IF Bit(n, 1) THEN {0} ELSE {}) \cup (IF Bit(n, 2) THEN Block(n - 2, 2) ELSE {})

Lentry ==
  /\ fn = "memset" /\ pc = "entry"
  /\ IF n > 64
     THEN /\ written' = Ends
          /\ LET down(x) == x - ((al + x) % 64)
             IN cx' = down(64) /\ dx' = down(n)
          /\ pc' = IF cx' = dx' THEN "exit" ELSE "loop"
     ELSE /\ written' = IF n <= 16 THEN Less16
                        ELSE Block(0, 16) \cup Block(n - 16, 16)
                             \cup (IF n > 32 THEN Block(16, 16) \cup Block(n - 32, 16) ELSE {})
          /\ pc' = "exit" /\ UNCHANGED <<cx, dx>>
  /\ UNCHANGED <<args, si, di, ax>>

Lloop ==
  /\ fn = "memset" /\ pc = "loop"
  /\ written' = written \cup Block(cx, 64)
  /\ cx' = cx + 64
  /\ pc' = IF cx' = dx THEN "exit" ELSE "loop"
  /\ UNCHANGED <<args, si, di, dx, ax>>

-----------------------------------------------------------------------------
(* memchr: di is the offset of the block, dx what is left of the length.    *)

In(from) == hits \cap Block(from, W)
Match(from) == ax' = Min(In(from)) /\ pc' = "exit" /\ UNCHANGED <<di, dx, cx>>
Null == ax' = None /\ pc' = "exit" /\ UNCHANGED <<di, dx, cx>>
To(next, d, x) == di' = d /\ dx' = x /\ pc' = next /\ UNCHANGED <<cx, ax>>

\* .Lmatches_1 and its like: a match that may lie behind the end.
MatchIn(from, left) == IF left <= Min(In(from)) - from THEN Null ELSE Match(from)

\* The first blocks of the aligned line at di that hold the byte, in order; rest if none does.
FirstOf(blocks, rest) ==
  LET full == {b \in blocks : In(di + b * W) # {}}
  IN IF full = {} THEN rest ELSE Match(di + Min(full) * W)

Lstart ==
  /\ fn = "memchr" /\ pc = "start"
  /\ LET line == al % (4 * W)
         off == al % W
     IN CASE n = 0 -> Null
          [] n # 0 /\ line > 3 * W ->
               \* .Lcrosscache: the aligned block, without the bytes before the buffer.
               LET here == In(-off) \ Block(-off, off)
               IN IF here # {}
                  THEN IF n <= Min(here) THEN Null
                       ELSE ax' = Min(here) /\ pc' = "exit" /\ UNCHANGED <<di, dx, cx>>
                  ELSE IF n + off <= W THEN Null
                  ELSE LET left == n + off - W - 4 * W
                       IN To(IF left <= 0 THEN "exit_loop" ELSE "prolog", W - off, left)
          [] OTHER ->
               IF In(0) # {} THEN MatchIn(0, n)
               ELSE IF n <= W THEN Null
               ELSE LET left == n - W + off - 4 * W
                    IN To(IF left <= 0 THEN "exit_loop" ELSE "prolog", W - off, left)
  /\ UNCHANGED <<args, si, written>>

\* .Lloop_prolog: one line, and a second one if the first did not end on a line.
Lprolog ==
  /\ fn = "memchr" /\ pc \in {"prolog", "prolog2"}
  /\ FirstOf(0 .. 3,
       LET d == di + 4 * W
           over == (al + d) % (4 * W)
       IN IF pc = "prolog"
          THEN IF over = 0 THEN To("align64", d, dx)
               ELSE To(IF dx - 4 * W <= 0 THEN "exit_loop" ELSE "prolog2", d, dx - 4 * W)
          ELSE To("align64", d - over, dx + over))
  /\ UNCHANGED <<args, si, written>>

Lalign64 ==
  /\ fn = "memchr" /\ pc = "align64"
  /\ IF dx - 4 * W <= 0 THEN To("exit_loop", di, dx - 4 * W)
     ELSE FirstOf(0 .. 3, To("align64", di + 4 * W, dx - 4 * W))
  /\ UNCHANGED <<args, si, written>>

\* .Lexit_loop and .Lexit_loop_32: what is left is at most a line.
Lexit_loop ==
  /\ fn = "memchr" /\ pc = "exit_loop"
  /\ LET left == dx + 2 * W IN
     IF left > 0
     THEN FirstOf(0 .. 1,
            IF In(di + 2 * W) # {} THEN MatchIn(di + 2 * W, left)
            ELSE IF left <= W \/ In(di + 3 * W) = {} THEN Null
            ELSE MatchIn(di + 3 * W, left - W))
     ELSE IF In(di) # {} THEN MatchIn(di, left + 2 * W)
     ELSE IF left + W <= 0 \/ In(di + W) = {} THEN Null
     ELSE MatchIn(di + W, left + W)
  /\ UNCHANGED <<args, si, written>>

MemInit ==
  /\ \/ fn = "memcpy" /\ n \in CopyLengths /\ al \in 0 .. 7 /\ hits = {} /\ pc = "1try"
     \/ fn = "memset" /\ n \in SetLengths /\ al \in Aligns /\ hits = {} /\ pc = "entry"
     \/ fn = "memchr" /\ n \in ChrLengths /\ al \in 0 .. 4 * W - 1 /\ hits \in Finds /\ pc = "start"
  /\ si = 0 /\ di = 0 /\ dx = n /\ cx = 0 /\ written = {} /\ ax = None

MemNext ==
  \/ Lcopy \/ Ltiny \/ L1loop \/ Lalign \/ L32loop \/ Lfast
  \/ Lentry \/ Lloop
  \/ Lstart \/ Lprolog \/ Lalign64 \/ Lexit_loop

MemSpec == MemInit /\ [][MemNext]_memVars

-----------------------------------------------------------------------------
\* Whatever the length and the alignment: memcpy copies each byte to its own place and
\* no byte behind the length, memset writes the bytes of the buffer and no others, and
\* memchr returns the first place of the byte in the buffer, never one before or behind it.
RoutinesRight ==
  /\ fn = "memcpy" => si = di /\ di <= n /\ (pc = "exit" => di = n)
  /\ fn = "memset" => written \subseteq 0 .. n - 1 /\ (pc = "exit" => written = 0 .. n - 1)
  /\ fn = "memchr" /\ pc = "exit" =>
       LET inside == hits \cap (0 .. n - 1)
       IN ax = IF inside = {} THEN None ELSE Min(inside)
=============================================================================
