----------------------------- MODULE FileSystem -----------------------------
(***************************************************************************)
(* The file system Ebb (src/libs/filesystem/FileSystem.cc): a back end     *)
(* asks the front end to stat, open and read, and matches the replies to   *)
(* its promises by number.  One promise table per kind of answer.          *)
(*                                                                         *)
(* Callers run on the cores of one back end; the reply is handled in an    *)
(* event of its own, so it may come before the caller has taken the future *)
(* of the promise.  The messages of one connection stay in order.          *)
(***************************************************************************)
EXTENDS Integers, Sequences, FiniteSets, SequencesExt

CONSTANTS Client,       \* events that call
          Content,      \* of the file
          MaxTakes,     \* bound: calls altogether
          Lengths,      \* that are read
          Void

\* The number of calls is bounded; what is called with what is not restricted.
FsConstants == MaxTakes \in Nat

VARIABLES request_,      \* the next number
          promises,      \* number -> [table, caller] of stat_, string_ and open_promises_
          at,            \* where each caller is
          call,          \* its request
          answer,        \* its future
          requests, returns,   \* messages to the front end and back
          front,         \* the front end runs, or an exception ended it
          fds,           \* fds[n]: file position of descriptor n
          truth,         \* history: what the front end found for each number
          asserted       \* history: a reply found no promise
fsVars == <<request_, promises, at, call, answer, requests, returns, front, fds, truth, asserted>>

\* A future without a value.
Pending == <<>>

Table(op) == CASE op \in {"stat", "lstat", "fstat"} -> "stat" [] op = "open" -> "open" [] OTHER -> "string"

FsInit ==
  /\ request_ = 0 /\ promises = {} /\ requests = <<>> /\ returns = <<>>
  /\ at = [c \in Client |-> "idle"] /\ call = [c \in Client |-> Void] /\ answer = [c \in Client |-> Pending]
  /\ front = "up" /\ fds = <<>> /\ truth = [n \in 0..(MaxTakes - 1) |-> Void] /\ asserted = FALSE

\* Seeded fault: the number is used and not counted up.
NumberLate(c) == UNCHANGED request_

\* v = request_++ under lock_.
Number(c) == request_' = request_ + 1

\* What the six calls do up to unlock: a number and a promise.
Take(c, op, fd, len, offset) ==
  /\ at[c] = "idle" /\ request_ < MaxTakes
  /\ promises' = promises \cup {[id |-> request_, table |-> Table(op), caller |-> c]}
  /\ call' = [call EXCEPT ![c] = [id |-> request_, op |-> op, fd |-> fd, len |-> len, offset |-> offset]]
  /\ Number(c)
  /\ at' = [at EXCEPT ![c] = "send"] /\ answer' = [answer EXCEPT ![c] = Pending]
  /\ UNCHANGED <<requests, returns, front, fds, truth, asserted>>

FileStat(c) == Take(c, "stat", 0, 0, -1)
LStat(c) == Take(c, "lstat", 0, 0, -1)
FStat(c) == \E fd \in DOMAIN fds : Take(c, "fstat", fd, 0, -1)
GetCwd(c) == Take(c, "getcwd", 0, 0, -1)
Open(c) == Take(c, "open", 0, 0, -1)
Read(c) == \E fd \in DOMAIN fds, len \in Lengths, offset \in {-1, 0, 1} : Take(c, "read", fd, len, offset)

\* The message is built and sent.
SendMessage(c) ==
  /\ at[c] = "send"
  /\ requests' = Append(requests, call[c])
  /\ at' = [at EXCEPT ![c] = "future"]
  /\ UNCHANGED <<request_, promises, call, answer, returns, front, fds, truth, asserted>>

\* p.GetFuture(), through the reference taken under the lock.  When the reply
\* was there first the promise is moved from and erased: the future is nobody's.
GetFuture(c) ==
  /\ at[c] = "future"
  /\ at' = [at EXCEPT ![c] = IF \E p \in promises : p.caller = c THEN "wait" ELSE "dangling"]
  /\ UNCHANGED <<request_, promises, call, answer, requests, returns, front, fds, truth, asserted>>

-----------------------------------------------------------------------------
\* ReceiveMessage of the front end: the system call and the reply.

\* The bytes that read and pread return from the file.
Bytes(pos, len) == SubSeq(Content, pos + 1, IF pos + len > Len(Content) THEN Len(Content) ELSE pos + len)

\* One of the system calls fails: the exception is nobody's.
Fail ==
  /\ front = "up" /\ requests # <<>> /\ front' = "ended"
  /\ UNCHANGED <<request_, promises, at, call, answer, requests, returns, fds, truth, asserted>>

Reply(r, value) ==
  /\ returns' = Append(returns, [id |-> r.id, table |-> Table(r.op), value |-> value])
  /\ truth' = [truth EXCEPT ![r.id] = value]

Arrives(ops) == front = "up" /\ requests # <<>> /\ Head(requests).op \in ops
Served == /\ requests' = Tail(requests)
          /\ UNCHANGED <<request_, promises, at, call, answer, front, asserted>>

ServeStat ==
  /\ Arrives({"stat", "lstat", "fstat"}) /\ Served /\ UNCHANGED fds
  /\ LET r == Head(requests) IN Reply(r, <<r.op, r.fd>>)
ServeGetCwd ==
  /\ Arrives({"getcwd"}) /\ Served /\ UNCHANGED fds
  /\ Reply(Head(requests), <<"cwd">>)
ServeOpen ==
  /\ Arrives({"open"}) /\ Served /\ fds' = Append(fds, 0)
  /\ Reply(Head(requests), <<"fd", Len(fds')>>)
\* A read without an offset moves the position of the descriptor.
ServeRead ==
  /\ Arrives({"read"}) /\ Served
  /\ LET r == Head(requests)
         data == Bytes(IF r.offset < 0 THEN fds[r.fd] ELSE r.offset, r.len)
     IN  /\ Reply(r, <<"data", data>>)
         /\ fds' = IF r.offset < 0 THEN [fds EXCEPT ![r.fd] = @ + Len(data)] ELSE fds

\* ReceiveMessage of the back end: find, move, erase, SetValue.
Receive ==
  /\ returns # <<>> /\ returns' = Tail(returns)
  /\ LET r == Head(returns)
         found == {p \in promises : p.id = r.id /\ p.table = r.table}
     IN  /\ asserted' = (asserted \/ found = {})
         /\ promises' = promises \ found
         /\ answer' = [c \in Client |-> IF \E p \in found : p.caller = c THEN r.value ELSE answer[c]]
  /\ UNCHANGED <<request_, at, call, requests, front, fds, truth>>

\* The caller goes on with the answer.
Resume(c) ==
  /\ at[c] = "wait" /\ answer[c] # Pending
  /\ at' = [at EXCEPT ![c] = "idle"]
  /\ UNCHANGED <<request_, promises, call, answer, requests, returns, front, fds, truth, asserted>>

FsNext ==
  \/ \E c \in Client : \/ FileStat(c) \/ LStat(c) \/ FStat(c) \/ GetCwd(c) \/ Open(c) \/ Read(c)
                       \/ SendMessage(c) \/ GetFuture(c) \/ Resume(c)
  \/ Fail \/ ServeStat \/ ServeGetCwd \/ ServeOpen \/ ServeRead \/ Receive

FsSpec == FsInit /\ [][FsNext]_fsVars

-----------------------------------------------------------------------------
Waiting(c) == at[c] \in {"future", "wait"} /\ answer[c] = Pending

\* Every caller is answered with what the front end found for its own request,
\* of the kind it asked for, whoever else asks at the same time; a reply always
\* finds its promise (the assert of ReceiveMessage); a caller that still waits
\* has its request or its reply under way, unless an exception ended the front
\* end.
FileAnswers ==
  /\ ~asserted
  /\ \A c \in Client : answer[c] # Pending => answer[c] = truth[call[c].id]
  /\ \A c \in Client : Waiting(c) =>
       \/ front = "ended"
       \/ \E i \in DOMAIN requests : requests[i] = call[c]
       \/ \E i \in DOMAIN returns : returns[i].id = call[c].id
=============================================================================
