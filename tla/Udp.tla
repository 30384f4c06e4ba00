--------------------------------- MODULE Udp ---------------------------------
(***************************************************************************)
(* UDP endpoints (src/src/native/NetUdp.cc) over the RCU hash table that   *)
(* finds them (RcuTable.h, RcuList.h) and the pool of port numbers         *)
(* (SharedPoolAllocator.h).                                                *)
(*                                                                         *)
(* Writers hold udp_write_lock_ and publish with a single store, so insert *)
(* and erase are one step each; events that receive a datagram walk the    *)
(* bucket without a lock, one load at a time.  A grace period ends when    *)
(* the events under way have ended, which EventManager is shown to do.     *)
(***************************************************************************)
EXTENDS Integers, FiniteSets, FiniteSetsExt

CONSTANTS Pcb,           \* endpoints; each is also its UdpEntry
          Reader,         \* events that receive a datagram
          PortLimit,     \* ports are below PortLimit; 0 is "not bound"
          Asked,         \* ports that owners ask for, 0 for any
          Sought,        \* ports that datagrams are sent to
          PoolFrom,      \* first port of the pool (49152)
          ReserveFrom,   \* first port that Bind asks the pool for (49162)
          Buckets,       \* number of buckets
          Nil

VARIABLES set,                     \* set_ of the port allocator
          heads, nexts, pprevs,    \* head_ of each bucket, next and pprev of each entry
          port,                    \* UdpEntry::port
          phase,                   \* where the owner of an endpoint is
          grace,                   \* events that the Close of an endpoint waits for
          at, pos, key,            \* of each event: position, entry reached, port looked for
          owed                     \* history: entries of that port that stayed in the table

\* Ports are numbers, and Nil is no entry.
UdpConstants ==
  /\ Buckets \in Nat \ {0} /\ ReserveFrom \in Nat \ {0} /\ PoolFrom \in Nat /\ PortLimit \in Nat
  /\ Asked \subseteq Nat /\ Sought \subseteq Nat /\ Nil \notin Pcb

table == <<heads, nexts, pprevs>>
readers == <<at, pos, key, owed>>
udpVars == <<set, table, port, phase, grace, readers>>

Bucket(p) == p % Buckets

UdpInit ==
  /\ set = PoolFrom .. PortLimit - 1
  /\ heads = [b \in 0 .. Buckets - 1 |-> Nil]
  /\ nexts = [e \in Pcb |-> Nil] /\ pprevs = [e \in Pcb |-> Nil]
  /\ port = [e \in Pcb |-> 0] /\ phase = [e \in Pcb |-> "closed"] /\ grace = [e \in Pcb |-> {}]
  /\ at = [v \in Reader |-> "idle"] /\ pos = [v \in Reader |-> Nil]
  /\ key = [v \in Reader |-> 0] /\ owed = [v \in Reader |-> {}]

-----------------------------------------------------------------------------
(* The owner of an endpoint: Bind, Close, and deletion or another Bind when *)
(* the future of Close is fulfilled.                                        *)

\* Bind: the port is allocated, reserved, or taken as it is.
BindTo(p) ==
  \/ /\ p = 0 /\ set # {}
     /\ set' = set \ {Min(set)}
  \/ /\ p >= ReserveFrom /\ p \in set
     /\ set' = set \ {p}
  \/ /\ p # 0 /\ p < ReserveFrom
     /\ UNCHANGED set

Bind(e, p) ==
  /\ phase[e] = "closed"
  /\ BindTo(p)
  /\ port' = [port EXCEPT ![e] = IF p = 0 THEN Min(set) ELSE p]
  /\ phase' = [phase EXCEPT ![e] = "insert"]
  /\ UNCHANGED <<table, grace, readers>>

\* RcuHashTable::insert, push_front of the bucket.
Insert(e) ==
  LET b == Bucket(port[e])
      head == heads[b]
  IN
  /\ phase[e] = "insert"
  /\ nexts' = [nexts EXCEPT ![e] = head]
  /\ heads' = [heads EXCEPT ![b] = e]
  /\ pprevs' = [x \in Pcb |-> IF x = e THEN <<"head", b>> ELSE IF x = head THEN <<"next", e>> ELSE pprevs[x]]
  /\ phase' = [phase EXCEPT ![e] = "bound"]
  /\ UNCHANGED <<set, port, grace, readers>>

\* Close gives the port back before it takes the lock.
Close(e) ==
  /\ phase[e] = "bound"
  /\ set' = set \cup {port[e]}
  /\ phase' = [phase EXCEPT ![e] = "erase"]
  /\ UNCHANGED <<table, port, grace, readers>>

\* Seeded fault: an erased entry no longer leads to the rest of its bucket.
UnlinkCleared(e) ==
  LET next == nexts[e]
      from == pprevs[e]
  IN
  /\ heads' = IF from[1] = "head" THEN [heads EXCEPT ![from[2]] = next] ELSE heads
  /\ nexts' = [x \in Pcb |-> IF x = e THEN Nil ELSE IF from = <<"next", x>> THEN next ELSE nexts[x]]
  /\ pprevs' = [x \in Pcb |-> IF x = next THEN from ELSE pprevs[x]]

\* RcuHList::erase: *pprev = next; the entry keeps its own next.
Unlink(e) ==
  LET next == nexts[e]
      from == pprevs[e]
  IN
  /\ heads' = IF from[1] = "head" THEN [heads EXCEPT ![from[2]] = next] ELSE heads
  /\ nexts' = IF from[1] = "next" THEN [nexts EXCEPT ![from[2]] = next] ELSE nexts
  /\ pprevs' = [x \in Pcb |-> IF x = next THEN from ELSE pprevs[x]]

\* The rest of Close: erase, port = 0, and CallRcu.
Erase(e) ==
  /\ phase[e] = "erase"
  /\ Unlink(e)
  /\ port' = [port EXCEPT ![e] = 0]
  /\ grace' = [grace EXCEPT ![e] = {v \in Reader : at[v] # "idle"}]
  /\ phase' = [phase EXCEPT ![e] = "grace"]
  /\ owed' = [v \in Reader |-> owed[v] \ {e}]
  /\ UNCHANGED <<set, at, pos, key>>

\* The future is fulfilled.
Closed(e) ==
  /\ phase[e] = "grace" /\ grace[e] = {}
  /\ phase' = [phase EXCEPT ![e] = "closed"]
  /\ UNCHANGED <<set, table, port, grace, readers>>

\* UdpEntryDeleter: kassert(port == 0), delete.
Delete(e) ==
  /\ phase[e] = "closed"
  /\ phase' = [phase EXCEPT ![e] = "deleted"]
  /\ UNCHANGED <<set, table, port, grace, readers>>

-----------------------------------------------------------------------------
(* ReceiveUdp: RcuHashTable::find, then a call of the entry's function.     *)

\* begin() of the bucket.
ReceiveUdp(v, p) ==
  /\ at[v] = "idle"
  /\ at' = [at EXCEPT ![v] = "compare"]
  /\ key' = [key EXCEPT ![v] = p]
  /\ pos' = [pos EXCEPT ![v] = heads[Bucket(p)]]
  /\ owed' = [owed EXCEPT ![v] = {e \in Pcb : phase[e] \in {"bound", "erase"} /\ port[e] = p}]
  /\ UNCHANGED <<set, table, port, phase, grace>>

Compare(v) ==
  /\ at[v] = "compare" /\ pos[v] # Nil
  /\ at' = [at EXCEPT ![v] = IF port[pos[v]] = key[v] THEN "call" ELSE "next"]
  /\ UNCHANGED <<set, table, port, phase, grace, pos, key, owed>>

Increment(v) ==
  /\ at[v] = "next"
  /\ pos' = [pos EXCEPT ![v] = nexts[pos[v]]]
  /\ at' = [at EXCEPT ![v] = "compare"]
  /\ UNCHANGED <<set, table, port, phase, grace, key, owed>>

\* The event ends: the datagram was dropped, or the function has returned.
End(v) ==
  /\ at[v] = "call" \/ (at[v] = "compare" /\ pos[v] = Nil)
  /\ at' = [at EXCEPT ![v] = "idle"] /\ pos' = [pos EXCEPT ![v] = Nil]
  /\ key' = [key EXCEPT ![v] = 0] /\ owed' = [owed EXCEPT ![v] = {}]
  /\ grace' = [e \in Pcb |-> grace[e] \ {v}]
  /\ UNCHANGED <<set, table, port, phase>>

UdpNext ==
  \/ \E e \in Pcb : \/ \E p \in Asked : Bind(e, p)
                    \/ Insert(e) \/ Close(e) \/ Erase(e) \/ Closed(e) \/ Delete(e)
  \/ \E v \in Reader : \/ \E p \in Sought : ReceiveUdp(v, p)
                      \/ Compare(v) \/ Increment(v) \/ End(v)

UdpSpec == UdpInit /\ [][UdpNext]_udpVars

-----------------------------------------------------------------------------
(* Properties.                                                              *)

\* "wait for an RCU grace period to ensure that Receive can no longer be
\* called": once the future of Close is fulfilled no event can reach the entry.
\* A datagram is dropped only when no entry of its port was in the table all
\* the while, however entries around it come and go.
DatagramsFindPcb ==
  \A v \in Reader :
    /\ pos[v] # Nil => phase[pos[v]] \notin {"closed", "deleted"}
    /\ at[v] = "compare" /\ pos[v] = Nil => owed[v] = {}

\* No two endpoints own the same port of the range that is reserved, and none
\* of these ports is in the pool while an endpoint owns it.
PortsApart ==
  \A e \in Pcb : phase[e] \in {"insert", "bound"} /\ port[e] >= ReserveFrom =>
    /\ port[e] \notin set
    /\ \A f \in Pcb : phase[f] \in {"insert", "bound"} /\ port[f] = port[e] => f = e

\* Endpoints are found while they are bound and not after, and their ports are
\* their own (Bind, Close and ReceiveUdp).
UdpSafe == DatagramsFindPcb /\ PortsApart
=============================================================================
