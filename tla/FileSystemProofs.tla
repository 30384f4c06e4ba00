--------------------------- MODULE FileSystemProofs ---------------------------
(***************************************************************************)
(* FileSystem: FileAnswers holds for any number of callers and calls.      *)
(*                                                                         *)
(* A number belongs to one call at most (CallsInv), the promises are those *)
(* of the calls without an answer (PromisesInv), and each of these that    *)
(* was sent has one request or one reply on its way (WaysInv).  So a reply *)
(* finds one promise, that of its own call.                                *)
(***************************************************************************)
EXTENDS FileSystem, SeqFacts

Entries(q) == {q[i] : i \in DOMAIN q}

\* No number twice.
Single(q) == \A i, j \in DOMAIN q : q[i].id = q[j].id => i = j

Promise(k, c) == [id |-> k.id, table |-> Table(k.op), caller |-> c]
Asking(c) == at[c] = "send" \/ Waiting(c)
Called(c) == at[c] # "idle" \/ answer[c] # Pending

\* r is the reply to call k.
Replying(r, k) == r.id = k.id /\ r.table = Table(k.op) /\ r.value # Pending /\ r.value = truth[k.id]

CallsInv ==
  /\ request_ \in Nat /\ request_ <= MaxTakes /\ DOMAIN truth = 0 .. (MaxTakes - 1)
  /\ DOMAIN at = Client /\ DOMAIN call = Client /\ DOMAIN answer = Client
  /\ \A c \in Client : /\ at[c] \in {"idle", "send", "future", "wait", "dangling"}
                       /\ at[c] = "send" => answer[c] = Pending
                       /\ at[c] = "dangling" => answer[c] # Pending
                       /\ Called(c) => call[c].id \in Nat /\ call[c].id < request_
                       /\ answer[c] # Pending => answer[c] = truth[call[c].id]
  /\ \A c, d \in Client : Called(c) /\ Called(d) /\ call[c].id = call[d].id => c = d

PromisesInv ==
  /\ \A p \in promises : p.caller \in Client /\ Asking(p.caller) /\ p = Promise(call[p.caller], p.caller)
  /\ \A c \in Client : Asking(c) => Promise(call[c], c) \in promises

WaysInv ==
  /\ ~asserted /\ IsQueue(requests) /\ IsQueue(returns) /\ Single(requests) /\ Single(returns)
  /\ \A r \in Entries(requests) : \E c \in Client : Waiting(c) /\ r = call[c]
  /\ \A r \in Entries(returns) : \E c \in Client : Waiting(c) /\ Replying(r, call[c])
  /\ \A r \in Entries(requests), s \in Entries(returns) : r.id # s.id
  /\ \A c \in Client : Waiting(c) => \/ call[c] \in Entries(requests)
                                     \/ \E r \in Entries(returns) : r.id = call[c].id

FsInv == CallsInv /\ PromisesInv /\ WaysInv

-----------------------------------------------------------------------------
\* Appending an entry with a number of its own keeps the numbers apart.
LEMMA AppendEntry ==
  ASSUME NEW q, IsQueue(q), Single(q), NEW r, \A s \in Entries(q) : s.id # r.id
  PROVE  IsQueue(Append(q, r)) /\ Single(Append(q, r)) /\ Entries(Append(q, r)) = Entries(q) \cup {r}
  <1> DEFINE n == Len(q)
             p == Append(q, r)
  <1>1. /\ n \in Nat /\ DOMAIN q = 1 .. n /\ DOMAIN p = 1 .. n + 1 /\ p[n + 1] = r /\ IsQueue(p)
        /\ \A i \in 1 .. n : p[i] = q[i]
    BY AppendPlaces, Zenon
  <1> HIDE DEF n, p
  <1>2. DOMAIN p = DOMAIN q \cup {n + 1} /\ n + 1 \notin DOMAIN q
    BY <1>1
  <1>3. \A i \in DOMAIN q : p[i] = q[i] /\ q[i].id # r.id
    BY <1>1, Zenon DEF Entries
  <1>4. Single(p)
    <2> SUFFICES ASSUME NEW i \in DOMAIN p, NEW j \in DOMAIN p, p[i].id = p[j].id PROVE i = j
      BY Zenon DEF Single
    <2> QED BY <1>1, <1>2, <1>3, Zenon DEF Single
  <1>5. Entries(p) = Entries(q) \cup {r}
    BY <1>1, <1>2, <1>3, Zenon DEF Entries
  <1> QED BY <1>1, <1>4, <1>5, Zenon DEF p

\* Popping an entry takes that one and no other.
LEMMA TailEntry ==
  ASSUME NEW q, IsQueue(q), q # <<>>, Single(q)
  PROVE  /\ IsQueue(Tail(q)) /\ Single(Tail(q)) /\ Head(q) \in Entries(q)
         /\ Entries(q) = Entries(Tail(q)) \cup {Head(q)}
         /\ \A s \in Entries(Tail(q)) : s.id # Head(q).id
  <1> DEFINE n == Len(q)
             p == Tail(q)
  <1>1. /\ n \in Nat \ {0} /\ DOMAIN q = 1 .. n /\ Head(q) = q[1] /\ DOMAIN p = 1 .. n - 1 /\ IsQueue(p)
        /\ \A i \in 1 .. n - 1 : p[i] = q[i + 1]
    BY TailPlaces, Zenon
  <1> HIDE DEF n, p
  <1>2. /\ 1 \in DOMAIN q
        /\ \A i \in DOMAIN p : i \in Int /\ i + 1 \in DOMAIN q /\ i + 1 # 1 /\ p[i] = q[i + 1]
        /\ \A i \in DOMAIN q : i = 1 \/ (i - 1 \in DOMAIN p /\ p[i - 1] = q[i])
    BY <1>1
  <1>3. Single(p)
    <2> SUFFICES ASSUME NEW i \in DOMAIN p, NEW j \in DOMAIN p, p[i].id = p[j].id PROVE i = j
      BY Zenon DEF Single
    <2>1. i + 1 \in DOMAIN q /\ j + 1 \in DOMAIN q /\ q[i + 1].id = q[j + 1].id /\ i \in Int /\ j \in Int
      BY <1>2, Zenon
    <2>2. i + 1 = j + 1
      BY <2>1, Zenon DEF Single
    <2> QED BY <2>1, <2>2
  <1>4. Head(q) \in Entries(q)
    BY <1>1, <1>2, Zenon DEF Entries
  <1>5. \A s \in Entries(p) : s \in Entries(q) /\ s.id # Head(q).id
    <2> TAKE s \in Entries(p)
    <2>1. PICK i \in DOMAIN p : s = p[i]
      BY Zenon DEF Entries
    <2>2. i + 1 \in DOMAIN q /\ i + 1 # 1 /\ s = q[i + 1]
      BY <1>2, <2>1, Zenon
    <2> QED BY <1>1, <1>2, <2>2, Zenon DEF Single, Entries
  <1>6. \A s \in Entries(q) : s \in Entries(p) \/ s = Head(q)
    <2> TAKE s \in Entries(q)
    <2>1. PICK i \in DOMAIN q : s = q[i]
      BY Zenon DEF Entries
    <2>2. i = 1 \/ (i - 1 \in DOMAIN p /\ p[i - 1] = s)
      BY <1>2, <2>1, Zenon
    <2> QED BY <1>1, <2>1, <2>2, Zenon DEF Entries
  <1>7. Entries(q) = Entries(p) \cup {Head(q)}
    BY <1>4, <1>5, <1>6, Zenon
  <1> QED BY <1>1, <1>3, <1>4, <1>5, <1>7, Zenon DEF p

\* The fields of a promise.
LEMMA PromiseFields ==
  ASSUME NEW k, NEW c
  PROVE  Promise(k, c).id = k.id /\ Promise(k, c).table = Table(k.op) /\ Promise(k, c).caller = c
  BY DEF Promise

\* Who waits, asks and called: a call that waits was made.
LEMMA AskingCalled == \A c : (Waiting(c) => Asking(c)) /\ (Asking(c) => Called(c))
  BY DEF Waiting, Asking, Called

-----------------------------------------------------------------------------
\* A call takes the next number, which is nobody else's, and makes its promise.
LEMMA TakeKeeps ==
  ASSUME FsConstants, FsInv, NEW c \in Client, NEW op, NEW fd, NEW len, NEW offset,
         Take(c, op, fd, len, offset)
  PROVE  FsInv'
  <1> DEFINE k == [id |-> request_, op |-> op, fd |-> fd, len |-> len, offset |-> offset]
  <1>0. CallsInv /\ PromisesInv /\ WaysInv
    BY Zenon DEF FsInv
  <1>1. /\ at[c] = "idle" /\ request_ < MaxTakes /\ request_' = request_ + 1
        /\ requests' = requests /\ returns' = returns /\ truth' = truth /\ asserted' = asserted
        /\ promises' = promises \cup {[id |-> request_, table |-> Table(op), caller |-> c]}
        /\ call' = [call EXCEPT ![c] = k]
        /\ at' = [at EXCEPT ![c] = "send"] /\ answer' = [answer EXCEPT ![c] = Pending]
    BY Zenon DEF Take, Number
  <1>2. k.id = request_ /\ k.op = op
    OBVIOUS
  <1> HIDE DEF k
  <1>3. /\ DOMAIN at' = Client /\ DOMAIN call' = Client /\ DOMAIN answer' = Client
        /\ at'[c] = "send" /\ answer'[c] = Pending /\ call'[c] = k
        /\ \A d \in Client : d # c => at'[d] = at[d] /\ answer'[d] = answer[d] /\ call'[d] = call[d]
    BY <1>0, <1>1 DEF CallsInv
  <1>4. promises' = promises \cup {Promise(k, c)}
    BY <1>1, <1>2 DEF Promise
  <1>5. ~Waiting(c) /\ ~Asking(c) /\ ~Waiting(c)' /\ Asking(c)' /\ Called(c)'
    BY <1>1, <1>3 DEF Waiting, Asking, Called
  <1>6. \A d \in Client : d # c => /\ Waiting(d)' <=> Waiting(d)
                                   /\ Asking(d)' <=> Asking(d)
                                   /\ Called(d)' <=> Called(d)
    BY <1>3, Zenon DEF Waiting, Asking, Called
  <1>7. CallsInv'
    <2>1. request_ \in Nat /\ MaxTakes \in Nat /\ request_ <= MaxTakes
      BY <1>0, Zenon DEF CallsInv, FsConstants
    <2>2. request_' \in Nat /\ request_' <= MaxTakes /\ request_ < request_'
      BY <1>1, <2>1
    <2>3. ASSUME NEW d \in Client, d # c, Called(d) PROVE call[d].id \in Nat /\ call[d].id < request_' /\ call[d].id # k.id
      <3>1. call[d].id \in Nat /\ call[d].id < request_
        BY <1>0, <2>3, Zenon DEF CallsInv
      <3> QED BY <1>2, <2>1, <2>2, <3>1
    <2>4. ASSUME NEW d \in Client
          PROVE  /\ at'[d] \in {"idle", "send", "future", "wait", "dangling"}
                 /\ at'[d] = "send" => answer'[d] = Pending
                 /\ at'[d] = "dangling" => answer'[d] # Pending
                 /\ Called(d)' => call'[d].id \in Nat /\ call'[d].id < request_'
                 /\ answer'[d] # Pending => answer'[d] = truth'[call'[d].id]
      <3>1. CASE d = c
        BY <1>2, <1>3, <2>1, <2>2, <3>1
      <3>2. CASE d # c
        BY <1>0, <1>1, <1>3, <1>6, <2>3, <3>2, Zenon DEF CallsInv
      <3> QED BY <3>1, <3>2, Zenon
    <2>5. ASSUME NEW d \in Client, NEW e \in Client, Called(d)', Called(e)', call'[d].id = call'[e].id
          PROVE  d = e
      BY <1>0, <1>3, <1>6, <2>3, <2>5, Zenon DEF CallsInv
    <2> QED BY <1>0, <1>1, <1>3, <2>2, <2>4, <2>5, Zenon DEF CallsInv
  <1>8. PromisesInv'
    <2>1. ASSUME NEW p \in promises'
          PROVE  p.caller \in Client /\ Asking(p.caller)' /\ p = Promise(call'[p.caller], p.caller)
      <3>1. CASE p \in promises
        BY <1>0, <1>3, <1>5, <1>6, <3>1, Zenon DEF PromisesInv
      <3>2. CASE p = Promise(k, c)
        BY <1>3, <1>5, <3>2, PromiseFields, Zenon
      <3> QED BY <1>4, <2>1, <3>1, <3>2, Zenon
    <2>2. ASSUME NEW d \in Client, Asking(d)' PROVE Promise(call'[d], d) \in promises'
      BY <1>0, <1>3, <1>4, <1>6, <2>2, Zenon DEF PromisesInv
    <2> QED BY <2>1, <2>2, Zenon DEF PromisesInv
  <1>9. WaysInv'
    <2>1. ASSUME NEW r \in Entries(requests') PROVE \E d \in Client : Waiting(d)' /\ r = call'[d]
      <3>1. PICK d \in Client : Waiting(d) /\ r = call[d]
        BY <1>0, <1>1, <2>1, Zenon DEF WaysInv
      <3> QED BY <1>3, <1>5, <1>6, <3>1, Zenon
    <2>2. ASSUME NEW r \in Entries(returns') PROVE \E d \in Client : Waiting(d)' /\ Replying(r, call[d])'
      <3>1. PICK d \in Client : Waiting(d) /\ Replying(r, call[d])
        BY <1>0, <1>1, <2>2, Zenon DEF WaysInv
      <3>2. d # c /\ Waiting(d)' /\ call'[d] = call[d]
        BY <1>3, <1>5, <1>6, <3>1, Zenon
      <3> QED BY <1>1, <3>1, <3>2, Zenon DEF Replying
    <2>3. ASSUME NEW d \in Client, Waiting(d)'
          PROVE  call'[d] \in Entries(requests') \/ \E r \in Entries(returns') : r.id = call'[d].id
      BY <1>0, <1>1, <1>3, <1>5, <1>6, <2>3, Zenon DEF WaysInv
    <2> QED BY <1>0, <1>1, <2>1, <2>2, <2>3, Zenon DEF WaysInv
  <1> QED BY <1>7, <1>8, <1>9, Zenon DEF FsInv

\* Steps after which the same callers called, ask and wait.
LEMMA SameKeeps ==
  ASSUME FsInv, DOMAIN at' = Client,
         \A d \in Client : /\ at'[d] \in {"idle", "send", "future", "wait", "dangling"}
                           /\ at'[d] = "send" => answer[d] = Pending
                           /\ at'[d] = "dangling" => answer[d] # Pending
                           /\ Waiting(d)' <=> Waiting(d)
                           /\ Asking(d)' <=> Asking(d)
                           /\ Called(d)' <=> Called(d),
         request_' = request_, promises' = promises, call' = call, answer' = answer,
         requests' = requests, returns' = returns, truth' = truth, asserted' = asserted
  PROVE  FsInv'
  <1>0. CallsInv /\ PromisesInv /\ WaysInv
    BY Zenon DEF FsInv
  <1>1. CallsInv'
    BY <1>0, Zenon DEF CallsInv
  <1>2. PromisesInv'
    BY <1>0, Zenon DEF PromisesInv
  <1>3. WaysInv'
    <2>1. ASSUME NEW r \in Entries(requests') PROVE \E d \in Client : Waiting(d)' /\ r = call'[d]
      BY <1>0, <2>1, Zenon DEF WaysInv
    <2>2. ASSUME NEW r \in Entries(returns') PROVE \E d \in Client : Waiting(d)' /\ Replying(r, call[d])'
      <3>1. PICK d \in Client : Waiting(d) /\ Replying(r, call[d])
        BY <1>0, <2>2, Zenon DEF WaysInv
      <3> QED BY <3>1, Zenon DEF Replying
    <2>3. ASSUME NEW d \in Client, Waiting(d)'
          PROVE  call'[d] \in Entries(requests') \/ \E r \in Entries(returns') : r.id = call'[d].id
      BY <1>0, <2>3, Zenon DEF WaysInv
    <2>4. \A r \in Entries(requests'), s \in Entries(returns') : r.id # s.id
      <3>1. \A r \in Entries(requests), s \in Entries(returns) : r.id # s.id
        BY <1>0, Zenon DEF WaysInv
      <3> QED BY <3>1
    <2>5. ~asserted' /\ IsQueue(requests') /\ IsQueue(returns') /\ Single(requests') /\ Single(returns')
      <3>1. ~asserted /\ IsQueue(requests) /\ IsQueue(returns) /\ Single(requests) /\ Single(returns)
        BY <1>0, Zenon DEF WaysInv
      <3> QED BY <3>1
    <2> QED BY <2>1, <2>2, <2>3, <2>4, <2>5, Zenon DEF WaysInv
  <1> QED BY <1>1, <1>2, <1>3, Zenon DEF FsInv

\* Steps of a caller that send nothing (GetFuture, Resume).
LEMMA MoveKeeps ==
  ASSUME FsInv, NEW c \in Client, NEW to \in {"idle", "wait", "dangling"},
         at' = [at EXCEPT ![c] = to], at[c] \in {"future", "wait"},
         to = "wait" <=> answer[c] = Pending,
         UNCHANGED <<request_, promises, call, answer, requests, returns, truth, asserted>>
  PROVE  FsInv'
  <1>0. CallsInv
    BY Zenon DEF FsInv
  <1>1. /\ request_' = request_ /\ promises' = promises /\ call' = call /\ answer' = answer
        /\ requests' = requests /\ returns' = returns /\ truth' = truth /\ asserted' = asserted
    OBVIOUS
  <1>2. DOMAIN at' = Client /\ at'[c] = to /\ \A d \in Client : d # c => at'[d] = at[d]
    BY <1>0 DEF CallsInv
  <1>3. (Waiting(c)' <=> Waiting(c)) /\ (Asking(c)' <=> Asking(c)) /\ (Called(c)' <=> Called(c))
    BY <1>1, <1>2 DEF Waiting, Asking, Called
  <1>4. \A d \in Client : (Waiting(d)' <=> Waiting(d)) /\ (Asking(d)' <=> Asking(d)) /\ (Called(d)' <=> Called(d))
    BY <1>1, <1>2, <1>3, Zenon DEF Waiting, Asking, Called
  <1>5. ASSUME NEW d \in Client
        PROVE  /\ at'[d] \in {"idle", "send", "future", "wait", "dangling"}
               /\ at'[d] = "send" => answer[d] = Pending
               /\ at'[d] = "dangling" => answer[d] # Pending
    <2>1. CASE d = c
      BY <1>2, <2>1
    <2>2. CASE d # c
      BY <1>0, <1>2, <2>2, Zenon DEF CallsInv
    <2> QED BY <2>1, <2>2, Zenon
  <1> QED BY <1>1, <1>2, <1>4, <1>5, SameKeeps, Zenon

\* The future of a promise that is gone is nobody's: only once there is an answer.
LEMMA GetFutureKeeps == ASSUME FsInv, NEW c \in Client, GetFuture(c) PROVE FsInv'
  <1>1. at[c] = "future" /\ CallsInv /\ PromisesInv
    BY Zenon DEF GetFuture, FsInv
  <1>2. (\E p \in promises : p.caller = c) <=> Asking(c)
    BY PromiseFields, <1>1, Zenon DEF PromisesInv
  <1>3. Asking(c) <=> answer[c] = Pending
    BY <1>1 DEF Asking, Waiting
  <1> DEFINE to == IF \E p \in promises : p.caller = c THEN "wait" ELSE "dangling"
  <1>4. to \in {"idle", "wait", "dangling"} /\ (to = "wait" <=> answer[c] = Pending)
    BY <1>2, <1>3
  <1>5. /\ at' = [at EXCEPT ![c] = to] /\ at[c] \in {"future", "wait"}
        /\ UNCHANGED <<request_, promises, call, answer, requests, returns, truth, asserted>>
    BY Zenon DEF GetFuture
  <1> HIDE DEF to
  <1> QED BY <1>4, <1>5, MoveKeeps, Zenon

\* A caller with its answer goes on.
LEMMA ResumeKeeps == ASSUME FsInv, NEW c \in Client, Resume(c) PROVE FsInv'
  <1>1. /\ at' = [at EXCEPT ![c] = "idle"] /\ at[c] \in {"future", "wait"} /\ answer[c] # Pending
        /\ UNCHANGED <<request_, promises, call, answer, requests, returns, truth, asserted>>
    BY Zenon DEF Resume
  <1>2. "idle" \in {"idle", "wait", "dangling"} /\ "idle" # "wait"
    OBVIOUS
  <1> QED BY <1>1, <1>2, MoveKeeps, Zenon

\* The request of a call goes out once: nothing on its way has its number.
LEMMA SendKeeps == ASSUME FsInv, NEW c \in Client, SendMessage(c) PROVE FsInv'
  <1>0. CallsInv /\ PromisesInv /\ WaysInv
    BY Zenon DEF FsInv
  <1>1. /\ at[c] = "send" /\ requests' = Append(requests, call[c]) /\ at' = [at EXCEPT ![c] = "future"]
        /\ request_' = request_ /\ promises' = promises /\ call' = call /\ answer' = answer
        /\ returns' = returns /\ truth' = truth /\ asserted' = asserted
    BY Zenon DEF SendMessage
  <1>2. DOMAIN at' = Client /\ at'[c] = "future" /\ \A d \in Client : d # c => at'[d] = at[d]
    BY <1>0, <1>1 DEF CallsInv
  <1>3. answer[c] = Pending /\ answer'[c] = Pending
    BY <1>0, <1>1, Zenon DEF CallsInv
  <1>4. ~Waiting(c) /\ Waiting(c)' /\ Asking(c) /\ Asking(c)' /\ Called(c) /\ Called(c)'
    BY <1>1, <1>2, <1>3 DEF Waiting, Asking, Called
  <1>5. \A d \in Client : /\ d # c => (Waiting(d)' <=> Waiting(d))
                          /\ (Asking(d)' <=> Asking(d)) /\ (Called(d)' <=> Called(d))
    BY <1>1, <1>2, <1>4, Zenon DEF Waiting, Asking, Called
  <1>6. CallsInv'
    <2>1. ASSUME NEW d \in Client
          PROVE  /\ at'[d] \in {"idle", "send", "future", "wait", "dangling"}
                 /\ at'[d] = "send" => answer'[d] = Pending
                 /\ at'[d] = "dangling" => answer'[d] # Pending
      <3>1. CASE d = c
        BY <1>2, <1>3, <3>1
      <3>2. CASE d # c
        BY <1>0, <1>1, <1>2, <3>2, Zenon DEF CallsInv
      <3> QED BY <3>1, <3>2, Zenon
    <2> QED BY <1>0, <1>1, <1>2, <1>5, <2>1, Zenon DEF CallsInv
  <1>7. PromisesInv'
    BY <1>0, <1>1, <1>5, Zenon DEF PromisesInv
  <1>8. \A d \in Client : Waiting(d) => d # c /\ call[d].id # call[c].id
    BY <1>0, <1>4, AskingCalled, Zenon DEF CallsInv
  <1>9. (\A r \in Entries(requests) : r.id # call[c].id) /\ (\A r \in Entries(returns) : r.id # call[c].id)
    <2>1. ASSUME NEW r \in Entries(requests) PROVE r.id # call[c].id
      <3>1. PICK d \in Client : Waiting(d) /\ r = call[d]
        BY <1>0, <2>1, Zenon DEF WaysInv
      <3> QED BY <1>8, <3>1, Zenon
    <2>2. ASSUME NEW r \in Entries(returns) PROVE r.id # call[c].id
      <3>1. PICK d \in Client : Waiting(d) /\ Replying(r, call[d])
        BY <1>0, <2>2, Zenon DEF WaysInv
      <3> QED BY <1>8, <3>1, Zenon DEF Replying
    <2> QED BY <2>1, <2>2, Zenon
  <1>10. IsQueue(requests') /\ Single(requests') /\ Entries(requests') = Entries(requests) \cup {call[c]}
    BY <1>0, <1>1, <1>9, AppendEntry, Zenon DEF WaysInv
  <1>11. WaysInv'
    <2>1. ASSUME NEW r \in Entries(requests') PROVE \E d \in Client : Waiting(d)' /\ r = call'[d]
      <3>1. CASE r = call[c]
        BY <1>1, <1>4, <3>1, Zenon
      <3>2. CASE r \in Entries(requests)
        BY <1>0, <1>1, <1>4, <1>5, <3>2, Zenon DEF WaysInv
      <3> QED BY <1>10, <2>1, <3>1, <3>2, Zenon
    <2>2. ASSUME NEW r \in Entries(returns') PROVE \E d \in Client : Waiting(d)' /\ Replying(r, call[d])'
      <3>1. PICK d \in Client : Waiting(d) /\ Replying(r, call[d])
        BY <1>0, <1>1, <2>2, Zenon DEF WaysInv
      <3>2. Waiting(d)'
        BY <1>4, <1>5, <3>1, Zenon
      <3> QED BY <1>1, <3>1, <3>2, Zenon DEF Replying
    <2>3. ASSUME NEW d \in Client, Waiting(d)'
          PROVE  call'[d] \in Entries(requests') \/ \E r \in Entries(returns') : r.id = call'[d].id
      BY <1>0, <1>1, <1>5, <1>10, <2>3, Zenon DEF WaysInv
    <2>4. \A r \in Entries(requests'), t \in Entries(returns') : r.id # t.id
      BY <1>0, <1>1, <1>9, <1>10, Zenon DEF WaysInv
    <2> QED BY <1>0, <1>1, <1>10, <2>1, <2>2, <2>3, <2>4, Zenon DEF WaysInv
  <1> QED BY <1>6, <1>7, <1>11, Zenon DEF FsInv

-----------------------------------------------------------------------------
\* The front end answers the request at the head of the queue (ServeStat,
\* ServeGetCwd, ServeOpen, ServeRead): nothing else has its number.
LEMMA ServeKeeps ==
  ASSUME FsConstants, FsInv, requests # <<>>, Served, NEW value, value # Pending, Reply(Head(requests), value)
  PROVE  FsInv'
  <1> DEFINE k == Head(requests)
             t == [id |-> k.id, table |-> Table(k.op), value |-> value]
  <1>0. CallsInv /\ PromisesInv /\ WaysInv
    BY Zenon DEF FsInv
  <1>1. /\ requests' = Tail(requests) /\ returns' = Append(returns, t) /\ truth' = [truth EXCEPT ![k.id] = value]
        /\ request_' = request_ /\ promises' = promises /\ at' = at /\ call' = call /\ answer' = answer
        /\ asserted' = asserted
    BY Zenon DEF Served, Reply
  <1>2. t.id = k.id /\ t.table = Table(k.op) /\ t.value = value
    OBVIOUS
  <1>3. /\ IsQueue(requests') /\ Single(requests') /\ k \in Entries(requests)
        /\ Entries(requests) = Entries(requests') \cup {k}
        /\ \A r \in Entries(requests') : r.id # k.id
    BY <1>0, <1>1, TailEntry, Zenon DEF WaysInv
  <1> HIDE DEF k, t
  <1>4. PICK c \in Client : Waiting(c) /\ k = call[c]
    BY <1>0, <1>3, Zenon DEF WaysInv
  <1>5. \A r \in Entries(returns) : r.id # k.id
    BY <1>0, <1>3, Zenon DEF WaysInv
  <1>6. IsQueue(returns') /\ Single(returns') /\ Entries(returns') = Entries(returns) \cup {t}
    <2>1. IsQueue(returns) /\ Single(returns) /\ \A r \in Entries(returns) : r.id # t.id
      BY <1>0, <1>2, <1>5, Zenon DEF WaysInv
    <2> QED BY <1>1, <2>1, AppendEntry, Zenon
  <1>7. \A d \in Client : (Waiting(d)' <=> Waiting(d)) /\ (Asking(d)' <=> Asking(d)) /\ (Called(d)' <=> Called(d))
    BY <1>1, Zenon DEF Waiting, Asking, Called
  <1>8. \A d \in Client : Called(d) /\ d # c => call[d].id # k.id
    BY <1>0, <1>4, AskingCalled, Zenon DEF CallsInv
  <1>9. /\ DOMAIN truth' = DOMAIN truth /\ truth'[k.id] = value
        /\ \A n : n \in DOMAIN truth /\ n # k.id => truth'[n] = truth[n]
    <2>1. k.id \in Nat /\ k.id < request_ /\ request_ \in Nat /\ request_ <= MaxTakes /\ MaxTakes \in Nat
      BY <1>0, <1>4, AskingCalled, Zenon DEF CallsInv, FsConstants
    <2>2. k.id \in DOMAIN truth
      <3>1. DOMAIN truth = 0 .. (MaxTakes - 1)
        BY <1>0, Zenon DEF CallsInv
      <3> QED BY <2>1, <3>1
    <2> QED BY <1>1, <2>2
  <1>10. ASSUME NEW d \in Client, Called(d), d # c PROVE truth'[call[d].id] = truth[call[d].id]
    <2>1. call[d].id \in DOMAIN truth
      <3>1. call[d].id \in Nat /\ call[d].id < request_ /\ request_ \in Nat /\ request_ <= MaxTakes
        BY <1>0, <1>10, Zenon DEF CallsInv
      <3>2. DOMAIN truth = 0 .. (MaxTakes - 1) /\ MaxTakes \in Nat
        BY <1>0, Zenon DEF CallsInv, FsConstants
      <3> QED BY <3>1, <3>2
    <2> QED BY <1>8, <1>9, <1>10, <2>1, Zenon
  <1>11. CallsInv'
    <2>1. ASSUME NEW d \in Client, answer'[d] # Pending PROVE answer'[d] = truth'[call'[d].id]
      <3>1. d # c /\ Called(d) /\ answer[d] = truth[call[d].id]
        BY <1>0, <1>1, <1>4, <2>1, Zenon DEF CallsInv, Waiting, Called
      <3> QED BY <1>1, <1>10, <3>1, Zenon
    <2> QED BY <1>0, <1>1, <1>7, <1>9, <2>1, Zenon DEF CallsInv
  <1>12. PromisesInv'
    BY <1>0, <1>1, <1>7, Zenon DEF PromisesInv
  <1>13. WaysInv'
    <2>1. ASSUME NEW r \in Entries(requests') PROVE \E d \in Client : Waiting(d)' /\ r = call'[d]
      BY <1>0, <1>1, <1>3, <1>7, <2>1, Zenon DEF WaysInv
    <2>2. ASSUME NEW r \in Entries(returns') PROVE \E d \in Client : Waiting(d)' /\ Replying(r, call[d])'
      <3>1. CASE r = t
        <4>1. Replying(r, call[c])'
          BY <1>1, <1>2, <1>4, <1>9, <3>1, Zenon DEF Replying
        <4> QED BY <1>4, <1>7, <4>1, Zenon
      <3>2. CASE r \in Entries(returns)
        <4>1. PICK d \in Client : Waiting(d) /\ Replying(r, call[d])
          BY <1>0, <3>2, Zenon DEF WaysInv
        <4>2. d # c
          BY <1>4, <1>5, <3>2, <4>1, Zenon DEF Replying
        <4>3. Replying(r, call[d])'
          BY <1>1, <1>10, <4>1, <4>2, AskingCalled, Zenon DEF Replying
        <4> QED BY <1>7, <4>1, <4>3, Zenon
      <3> QED BY <1>6, <2>2, <3>1, <3>2, Zenon
    <2>3. ASSUME NEW d \in Client, Waiting(d)'
          PROVE  call'[d] \in Entries(requests') \/ \E r \in Entries(returns') : r.id = call'[d].id
      <3>1. call[d] \in Entries(requests) \/ \E r \in Entries(returns) : r.id = call[d].id
        BY <1>0, <1>7, <2>3, Zenon DEF WaysInv
      <3> QED BY <1>1, <1>2, <1>3, <1>6, <3>1, Zenon
    <2>4. \A r \in Entries(requests'), s \in Entries(returns') : r.id # s.id
      BY <1>0, <1>2, <1>3, <1>6, Zenon DEF WaysInv
    <2> QED BY <1>0, <1>1, <1>3, <1>6, <2>1, <2>2, <2>3, <2>4, Zenon DEF WaysInv
  <1> QED BY <1>11, <1>12, <1>13, Zenon DEF FsInv

\* A reply finds the promise of its own call, and no other.
LEMMA ReceiveKeeps == ASSUME FsInv, Receive PROVE FsInv'
  <1> DEFINE r == Head(returns)
             found == {p \in promises : p.id = r.id /\ p.table = r.table}
  <1>0. CallsInv /\ PromisesInv /\ WaysInv
    BY Zenon DEF FsInv
  <1>1. /\ returns # <<>> /\ returns' = Tail(returns) /\ asserted' = (asserted \/ found = {})
        /\ promises' = promises \ found
        /\ answer' = [c \in Client |-> IF \E p \in found : p.caller = c THEN r.value ELSE answer[c]]
        /\ request_' = request_ /\ at' = at /\ call' = call /\ requests' = requests /\ truth' = truth
    BY Zenon DEF Receive
  <1>2. /\ IsQueue(returns') /\ Single(returns') /\ r \in Entries(returns)
        /\ Entries(returns) = Entries(returns') \cup {r}
        /\ \A s \in Entries(returns') : s.id # r.id
    BY <1>0, <1>1, TailEntry, Zenon DEF WaysInv
  <1> HIDE DEF r
  <1>3. PICK c \in Client : Waiting(c) /\ Replying(r, call[c])
    BY <1>0, <1>2, Zenon DEF WaysInv
  <1>4. Asking(c) /\ Called(c) /\ Promise(call[c], c) \in promises
    BY <1>0, <1>3, AskingCalled, Zenon DEF PromisesInv
  <1>5. ASSUME NEW p \in promises PROVE p \in found <=> p.caller = c
    <2>1. p.caller \in Client /\ Called(p.caller) /\ p = Promise(call[p.caller], p.caller)
      BY <1>0, <1>5, AskingCalled, Zenon DEF PromisesInv
    <2>2. p.id = call[p.caller].id /\ p.table = Table(call[p.caller].op)
      <3>1. /\ Promise(call[p.caller], p.caller).id = call[p.caller].id
            /\ Promise(call[p.caller], p.caller).table = Table(call[p.caller].op)
        BY PromiseFields, Zenon
      <3> QED BY <2>1, <3>1, Zenon
    <2>3. p.id = r.id => p.caller = c
      BY <1>0, <1>3, <1>4, <2>1, <2>2, Zenon DEF CallsInv, Replying
    <2>4. p.caller = c => p.id = r.id /\ p.table = r.table
      BY <1>3, <2>2, Zenon DEF Replying
    <2> QED BY <1>5, <2>3, <2>4, Zenon
  <1>6. found # {} /\ \A d : (\E p \in found : p.caller = d) <=> d = c
    <2>1. Promise(call[c], c) \in found
      BY <1>4, <1>5, PromiseFields, Zenon
    <2> QED BY <1>5, <2>1, PromiseFields, Zenon
  <1>7. /\ ~asserted' /\ \A p : p \in promises' <=> p \in promises /\ p.caller # c
        /\ DOMAIN answer' = Client /\ answer'[c] = r.value /\ \A d \in Client : d # c => answer'[d] = answer[d]
    <2>1. \A p : p \in promises' <=> p \in promises /\ p.caller # c
      BY <1>1, <1>5, Zenon
    <2> HIDE DEF found
    <2> QED BY <1>0, <1>1, <1>6, <2>1 DEF WaysInv
  <1>8. answer'[c] # Pending /\ answer'[c] = truth[call[c].id] /\ r.id = call[c].id
    BY <1>3, <1>7, Zenon DEF Replying
  <1>9. at[c] \in {"future", "wait"}
    BY <1>3, Zenon DEF Waiting
  <1>10. ~Waiting(c)' /\ ~Asking(c)' /\ Called(c)'
    BY <1>1, <1>8, <1>9 DEF Waiting, Asking, Called
  <1>11. /\ \A d \in Client : d # c => (Waiting(d)' <=> Waiting(d)) /\ (Asking(d)' <=> Asking(d))
         /\ \A d \in Client : Called(d)' <=> Called(d)
    BY <1>1, <1>4, <1>7, <1>10, Zenon DEF Waiting, Asking, Called
  <1>12. CallsInv'
    <2>1. ASSUME NEW d \in Client
          PROVE  /\ at'[d] = "send" => answer'[d] = Pending
                 /\ at'[d] = "dangling" => answer'[d] # Pending
                 /\ answer'[d] # Pending => answer'[d] = truth'[call'[d].id]
      <3>1. CASE d = c
        BY <1>1, <1>8, <1>9, <3>1
      <3>2. CASE d # c
        BY <1>0, <1>1, <1>7, <3>2, Zenon DEF CallsInv
      <3> QED BY <3>1, <3>2, Zenon
    <2> QED BY <1>0, <1>1, <1>7, <1>11, <2>1, Zenon DEF CallsInv
  <1>13. PromisesInv'
    <2>1. ASSUME NEW p \in promises'
          PROVE  p.caller \in Client /\ Asking(p.caller)' /\ p = Promise(call'[p.caller], p.caller)
      BY <1>0, <1>1, <1>7, <1>11, <2>1, Zenon DEF PromisesInv
    <2>2. ASSUME NEW d \in Client, Asking(d)' PROVE Promise(call'[d], d) \in promises'
      <3>1. d # c /\ Promise(call[d], d) \in promises
        BY <1>0, <1>10, <1>11, <2>2, Zenon DEF PromisesInv
      <3>2. Promise(call[d], d).caller = d
        BY PromiseFields, Zenon
      <3> QED BY <1>1, <1>7, <3>1, <3>2, Zenon
    <2> QED BY <2>1, <2>2, Zenon DEF PromisesInv
  <1>14. WaysInv'
    <2>1. ASSUME NEW q \in Entries(requests') PROVE \E d \in Client : Waiting(d)' /\ q = call'[d]
      <3>1. PICK d \in Client : Waiting(d) /\ q = call[d]
        BY <1>0, <1>1, <2>1, Zenon DEF WaysInv
      <3>2. q.id # r.id
        BY <1>0, <1>1, <1>2, <2>1, Zenon DEF WaysInv
      <3> QED BY <1>1, <1>8, <1>11, <3>1, <3>2, Zenon
    <2>2. ASSUME NEW s \in Entries(returns') PROVE \E d \in Client : Waiting(d)' /\ Replying(s, call[d])'
      <3>1. s \in Entries(returns) /\ s.id # r.id
        BY <1>2, <2>2, Zenon
      <3>2. PICK d \in Client : Waiting(d) /\ Replying(s, call[d])
        BY <1>0, <3>1, Zenon DEF WaysInv
      <3>3. d # c /\ Replying(s, call[d])'
        BY <1>1, <1>8, <3>1, <3>2, Zenon DEF Replying
      <3> QED BY <1>11, <3>2, <3>3, Zenon
    <2>3. ASSUME NEW d \in Client, Waiting(d)'
          PROVE  call'[d] \in Entries(requests') \/ \E s \in Entries(returns') : s.id = call'[d].id
      <3>1. d # c /\ Waiting(d)
        BY <1>10, <1>11, <2>3, Zenon
      <3>2. call[d].id # r.id
        BY <1>0, <1>4, <1>8, <3>1, AskingCalled, Zenon DEF CallsInv
      <3>3. call[d] \in Entries(requests) \/ \E s \in Entries(returns) : s.id = call[d].id
        BY <1>0, <3>1, Zenon DEF WaysInv
      <3> QED BY <1>1, <1>2, <3>2, <3>3, Zenon
    <2>4. /\ ~asserted' /\ IsQueue(requests') /\ IsQueue(returns') /\ Single(requests') /\ Single(returns')
          /\ \A q \in Entries(requests'), s \in Entries(returns') : q.id # s.id
      <3>1. /\ IsQueue(requests) /\ Single(requests)
            /\ \A q \in Entries(requests), s \in Entries(returns) : q.id # s.id
        BY <1>0, Zenon DEF WaysInv
      <3> QED BY <1>1, <1>2, <1>7, <3>1, Zenon
    <2> QED BY <2>1, <2>2, <2>3, <2>4, Zenon DEF WaysInv
  <1> QED BY <1>12, <1>13, <1>14, Zenon DEF FsInv

-----------------------------------------------------------------------------
\* At the start nobody has called.
LEMMA FsInitInv == FsConstants /\ FsInit => FsInv
  <1> SUFFICES ASSUME FsConstants, FsInit PROVE FsInv
    OBVIOUS
  <1>1. /\ request_ = 0 /\ promises = {} /\ requests = <<>> /\ returns = <<>> /\ ~asserted
        /\ DOMAIN at = Client /\ DOMAIN call = Client /\ DOMAIN answer = Client
        /\ DOMAIN truth = 0 .. (MaxTakes - 1) /\ \A c \in Client : at[c] = "idle" /\ answer[c] = Pending
    BY DEF FsInit
  <1>2. \A c \in Client : ~Waiting(c) /\ ~Asking(c) /\ ~Called(c)
    BY <1>1 DEF Waiting, Asking, Called
  <1>3. CallsInv
    <2>1. request_ \in Nat /\ request_ <= MaxTakes
      BY <1>1 DEF FsConstants
    <2>2. \A c \in Client : /\ at[c] \in {"idle", "send", "future", "wait", "dangling"}
                            /\ at[c] # "send" /\ at[c] # "dangling"
      BY <1>1
    <2> QED BY <1>1, <1>2, <2>1, <2>2, Zenon DEF CallsInv
  <1>4. PromisesInv
    BY <1>1, <1>2, Zenon DEF PromisesInv
  <1>5. IsQueue(<<>>) /\ Entries(<<>>) = {} /\ Single(<<>>)
    <2>1. <<>> \in Seq({}) /\ DOMAIN <<>> = {}
      OBVIOUS
    <2> QED BY <2>1, Zenon DEF IsQueue, Entries, Single
  <1>6. WaysInv
    BY <1>1, <1>2, <1>5, Zenon DEF WaysInv
  <1> QED BY <1>3, <1>4, <1>6, Zenon DEF FsInv

\* Every step of the callers and of the front end keeps the invariant.
LEMMA FsStep == FsConstants /\ FsInv /\ [FsNext]_fsVars => FsInv'
  <1> SUFFICES ASSUME FsConstants, FsInv, [FsNext]_fsVars PROVE FsInv'
    OBVIOUS
  <1>1. ASSUME NEW c \in Client, FileStat(c) \/ LStat(c) \/ FStat(c) \/ GetCwd(c) \/ Open(c) \/ Read(c) PROVE FsInv'
    <2>1. \E op, fd, len, offset : Take(c, op, fd, len, offset)
      BY <1>1, Zenon DEF FileStat, LStat, FStat, GetCwd, Open, Read
    <2> QED BY <2>1, TakeKeeps, Zenon
  <1>2. ASSUME ServeStat \/ ServeGetCwd \/ ServeOpen \/ ServeRead PROVE FsInv'
    <2>1. requests # <<>> /\ Served
      BY <1>2, Zenon DEF ServeStat, ServeGetCwd, ServeOpen, ServeRead, Arrives
    <2>2. \A x, y : <<x, y>> # Pending /\ <<x>> # Pending
      BY DEF Pending
    <2>3. \E x, y : Reply(Head(requests), <<x, y>>) \/ Reply(Head(requests), <<x>>)
      BY <1>2, Zenon DEF ServeStat, ServeGetCwd, ServeOpen, ServeRead
    <2> QED BY <2>1, <2>2, <2>3, ServeKeeps, Zenon
  <1>3. CASE Fail \/ UNCHANGED fsVars
    <2>1. /\ request_' = request_ /\ promises' = promises /\ at' = at /\ call' = call /\ answer' = answer
          /\ requests' = requests /\ returns' = returns /\ truth' = truth /\ asserted' = asserted
      BY <1>3, Zenon DEF Fail, fsVars
    <2>2. \A d \in Client : (Waiting(d)' <=> Waiting(d)) /\ (Asking(d)' <=> Asking(d)) /\ (Called(d)' <=> Called(d))
      BY <2>1, Zenon DEF Waiting, Asking, Called
    <2>3. CallsInv
      BY Zenon DEF FsInv
    <2>4. DOMAIN at' = Client /\ \A d \in Client : /\ at'[d] \in {"idle", "send", "future", "wait", "dangling"}
                                                   /\ at'[d] = "send" => answer[d] = Pending
                                                   /\ at'[d] = "dangling" => answer[d] # Pending
      BY <2>1, <2>3, Zenon DEF CallsInv
    <2> QED BY <2>1, <2>2, <2>4, SameKeeps, Zenon
  <1> QED BY <1>1, <1>2, <1>3, SendKeeps, GetFutureKeeps, ResumeKeeps, ReceiveKeeps, Zenon DEF FsNext

\* Every caller of the file system is answered with what the front end found for
\* its own request; a reply always finds its promise (the assert of ReceiveMessage);
\* a caller that still waits has its request or reply on its way: for any number of
\* callers and calls, any file and any interleaving of lock_, SendMessage,
\* GetFuture and the replies.
THEOREM FileAnswersAlways == ASSUME FsConstants PROVE FsSpec => []FileAnswers
  <1>1. FsInit => FsInv
    BY FsInitInv, Zenon
  <1>2. FsInv /\ [FsNext]_fsVars => FsInv'
    BY FsStep, Zenon
  <1>3. FsInv => FileAnswers
    <2> SUFFICES ASSUME FsInv PROVE FileAnswers
      OBVIOUS
    <2>1. ASSUME NEW c \in Client, Waiting(c)
          PROVE  \/ \E i \in DOMAIN requests : requests[i] = call[c]
                 \/ \E i \in DOMAIN returns : returns[i].id = call[c].id
      <3>1. call[c] \in Entries(requests) \/ \E r \in Entries(returns) : r.id = call[c].id
        BY <2>1, Zenon DEF FsInv, WaysInv
      <3> QED BY <3>1, Zenon DEF Entries
    <2> QED BY <2>1, Zenon DEF FsInv, CallsInv, WaysInv, FileAnswers
  <1> QED BY <1>1, <1>2, <1>3, PTL DEF FsSpec
=============================================================================
