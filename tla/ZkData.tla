------------------------------- MODULE ZkData -------------------------------
(***************************************************************************)
(* The data of the ZooKeeper client, in three parts with variables of      *)
(* their own: the records and archives of its protocol, the tables of its  *)
(* watchers, and the texts that it is given.                               *)
(***************************************************************************)
EXTENDS Integers, Sequences, FiniteSets, SequencesExt

CONSTANT None    \* a null pointer

-----------------------------------------------------------------------------
(***************************************************************************)
(* The records of the ZooKeeper protocol and the archives they are written *)
(* to and read from: zookeeper.jute.c and recordio.c.  A record is the     *)
(* sequence of its fields; a record inside another one is spliced in, as   *)
(* the archives write nothing for the start and the end of a record.       *)
(* Writing takes one step for each piece that is copied to the buffer,     *)
(* which grows in between; reading takes one step for each record, from a  *)
(* buffer that may end anywhere.  Allocation does not fail.                *)
(***************************************************************************)

CONSTANTS Initial,    \* bytes of a new buffer (128 in create_buffer_oarchive)
          Seeds       \* numbers from which the values of a record follow

VARIABLES record,     \* the fields of the record that is written
          written,    \* the primitive values written for them
          pieces,     \* the pieces still to be copied to the buffer
          bytes,      \* the contents of the output buffer, up to priv->off
          len,        \* its size, priv->len
          got         \* what deserializing returned, and from how many bytes

juteVars == <<record, written, pieces, bytes, len, got>>

Leaf(kind) == [kind |-> kind, of |-> <<>>]
Vector(fields) == [kind |-> "vector", of |-> fields]

Int32 == Leaf("int")
Long == Leaf("long")
Bool == Leaf("bool")
String == Leaf("string")
Buffer == Leaf("buffer")

-----------------------------------------------------------------------------
\* What serialize_R writes and deserialize_R reads, in order, for each R: first the
\* ones that others contain, then the others, in the order of the source.

Id == <<String, String>>
ACL == <<Int32>> \o Id
Stat == <<Long, Long, Long, Long, Int32, Int32, Int32, Long, Int32, Int32, Long>>
String_vector == Vector(<<String>>)
ACL_vector == Vector(ACL)
Id_vector == Vector(Id)
Txn == <<Int32, Buffer>>
Txn_vector == Vector(Txn)

SessionRecords ==
  [StatPersisted |-> <<Long, Long, Long, Long, Int32, Int32, Int32, Long, Long>>,
   StatPersistedV1 |-> <<Long, Long, Long, Long, Int32, Int32, Int32, Long>>,
   ConnectRequest |-> <<Int32, Long, Int32, Long, Buffer>>,
   ConnectResponse |-> <<Int32, Int32, Long, Buffer>>]
HeaderRecords ==
  [SetWatches |-> <<Long, String_vector, String_vector, String_vector>>,
   RequestHeader |-> <<Int32, Int32>>,
   MultiHeader |-> <<Int32, Bool, Int32>>,
   AuthPacket |-> <<Int32, String, Buffer>>,
   ReplyHeader |-> <<Int32, Long, Int32>>]
DataRecords ==
  [GetDataRequest |-> <<String, Bool>>,
   SetDataRequest |-> <<String, Buffer, Int32>>,
   SetDataResponse |-> Stat,
   GetSASLRequest |-> <<Buffer>>,
   SetSASLRequest |-> <<Buffer>>,
   SetSASLResponse |-> <<Buffer>>]
NodeRecords ==
  [CreateRequest |-> <<String, Buffer, ACL_vector, Int32>>,
   DeleteRequest |-> <<String, Int32>>,
   GetChildrenRequest |-> <<String, Bool>>,
   GetChildren2Request |-> <<String, Bool>>,
   CheckVersionRequest |-> <<String, Int32>>,
   GetMaxChildrenRequest |-> <<String>>,
   GetMaxChildrenResponse |-> <<Int32>>]
AclRecords ==
  [SetMaxChildrenRequest |-> <<String, Int32>>,
   SyncRequest |-> <<String>>,
   SyncResponse |-> <<String>>,
   GetACLRequest |-> <<String>>,
   SetACLRequest |-> <<String, ACL_vector, Int32>>,
   SetACLResponse |-> Stat,
   WatcherEvent |-> <<Int32, Int32, String>>,
   ErrorResponse |-> <<Int32>>]
ResponseRecords ==
  [CreateResponse |-> <<String>>,
   ExistsRequest |-> <<String, Bool>>,
   ExistsResponse |-> Stat,
   GetDataResponse |-> <<Buffer>> \o Stat,
   GetChildrenResponse |-> <<String_vector>>,
   GetChildren2Response |-> <<String_vector>> \o Stat,
   GetACLResponse |-> <<ACL_vector>> \o Stat,
   LearnerInfo |-> <<Long, Int32>>]
ServerRecords ==
  [QuorumPacket |-> <<Int32, Long, Buffer, Id_vector>>,
   FileHeader |-> <<Int32, Int32, Long>>,
   TxnHeader |-> <<Long, Int32, Long, Long, Int32>>,
   CreateTxnV0 |-> <<String, Buffer, ACL_vector, Bool>>,
   CreateTxn |-> <<String, Buffer, ACL_vector, Bool, Int32>>,
   DeleteTxn |-> <<String>>]
TxnRecords ==
  [SetDataTxn |-> <<String, Buffer, Int32>>,
   CheckVersionTxn |-> <<String, Int32>>,
   SetACLTxn |-> <<String, ACL_vector, Int32>>,
   SetMaxChildrenTxn |-> <<String, Int32>>,
   CreateSessionTxn |-> <<Int32>>,
   ErrorTxn |-> <<Int32>>]
MultiTxn == <<Txn_vector>>

Records ==
  {Id, ACL, Stat, Txn, MultiTxn} \cup Range(SessionRecords) \cup Range(HeaderRecords)
    \cup Range(DataRecords) \cup Range(NodeRecords) \cup Range(AclRecords)
    \cup Range(ResponseRecords) \cup Range(ServerRecords) \cup Range(TxnRecords)

-----------------------------------------------------------------------------
\* The big-endian bytes of an integer in two's complement, and back.
RECURSIVE ToBytes(_, _)
ToBytes(v, n) == IF n = 0 THEN <<>> ELSE ToBytes(v \div 256, n - 1) \o <<v % 256>>

FromBytes(b) ==
  LET RECURSIVE Value(_)
      Value(i) == IF i = 1 THEN IF b[1] < 128 THEN b[1] ELSE b[1] - 256
                           ELSE Value(i - 1) * 256 + b[i]
  IN  Value(Len(b))

\* What the oa_serialize functions copy to the buffer, piece by piece.
oa_serialize_int(v) == <<ToBytes(v, 4)>>
oa_serialize_long(v) == <<ToBytes(v, 8)>>
oa_serialize_bool(v) == <<<<IF v = 0 THEN 0 ELSE 1>>>>
oa_serialize_buffer(b) == IF b = None THEN oa_serialize_int(-1) ELSE oa_serialize_int(Len(b)) \o <<b>>
oa_serialize_string(s) == IF s = None THEN oa_serialize_int(-1) ELSE oa_serialize_int(Len(s)) \o <<s>>

Pieces(w) == CASE w.kind = "int" -> oa_serialize_int(w.val)
               [] w.kind = "long" -> oa_serialize_long(w.val)
               [] w.kind = "bool" -> oa_serialize_bool(w.val)
               [] w.kind = "buffer" -> oa_serialize_buffer(w.val)
               [] w.kind = "string" -> oa_serialize_string(w.val)

\* resize_buffer: doubles the size until it suffices.
resize_buffer(size, newlen) ==
  LET RECURSIVE Doubled(_)
      Doubled(s) == IF s < newlen THEN Doubled(s * 2) ELSE s
  IN  Doubled(size)

-----------------------------------------------------------------------------
\* The ia_deserialize functions: r holds the result of the calls so far, the
\* offset in the buffer b and the values read.
Take(r, kind, val, n) == [r EXCEPT !.off = @ + n, !.vals = Append(@, [kind |-> kind, val |-> val])]
At(b, off, n) == SubSeq(b, off + 1, off + n)

ia_deserialize_int(b, r) ==
  IF Len(b) - r.off < 4 THEN [r EXCEPT !.rc = "E2BIG"]
  ELSE Take(r, "int", FromBytes(At(b, r.off, 4)), 4)

ia_deserialize_long(b, r) ==
  IF Len(b) - r.off < 8 THEN [r EXCEPT !.rc = "E2BIG"]
  ELSE Take(r, "long", FromBytes(At(b, r.off, 8)), 8)

ia_deserialize_bool(b, r) ==
  IF Len(b) - r.off < 1 THEN [r EXCEPT !.rc = "E2BIG"]
  ELSE Take(r, "bool", b[r.off + 1], 1)

ia_deserialize_buffer(b, r) ==
  LET i == ia_deserialize_int(b, r)
      n == Last(i.vals).val
      body == [i EXCEPT !.vals = r.vals]
  IN  CASE i.rc # "ok" -> i
        [] i.rc = "ok" /\ Len(b) - i.off < n -> [body EXCEPT !.rc = "E2BIG"]
        [] i.rc = "ok" /\ n = -1 -> Take(body, "buffer", None, 0)
        [] i.rc = "ok" /\ n < -1 -> [body EXCEPT !.rc = "ENOMEM"]
        [] OTHER -> Take(body, "buffer", At(b, i.off, n), n)

ia_deserialize_string(b, r) ==
  LET i == ia_deserialize_int(b, r)
      n == Last(i.vals).val
      body == [i EXCEPT !.vals = r.vals]
  IN  CASE i.rc # "ok" -> i
        [] i.rc = "ok" /\ Len(b) - i.off < n -> [body EXCEPT !.rc = "E2BIG"]
        [] i.rc = "ok" /\ n < 0 -> [body EXCEPT !.rc = "EINVAL"]
        [] OTHER -> Take(body, "string", At(b, i.off, n), n)

\* deserialize_R: field after field until one fails.  A vector returns what
\* end_vector returns, which is success whatever its elements returned.
RECURSIVE Deserialize(_, _, _)
Deserialize(fields, b, r) ==
  IF fields = <<>> \/ r.rc # "ok" THEN r
  ELSE LET f == Head(fields)
           count == ia_deserialize_int(b, r)
           elements == FlattenSeq([i \in 1..Last(count.vals).val |-> f.of])
           next == CASE f.kind = "int" -> ia_deserialize_int(b, r)
                     [] f.kind = "long" -> ia_deserialize_long(b, r)
                     [] f.kind = "bool" -> ia_deserialize_bool(b, r)
                     [] f.kind = "buffer" -> ia_deserialize_buffer(b, r)
                     [] f.kind = "string" -> ia_deserialize_string(b, r)
                     [] f.kind = "vector" ->
                          LET read == IF count.rc = "ok" THEN Deserialize(elements, b, count) ELSE count
                          IN  [read EXCEPT !.rc = "ok"]
       IN  Deserialize(Tail(fields), b, next)

-----------------------------------------------------------------------------
\* The values of the fields of a record, from a number.
Samples == [int |-> <<0, -1, 258, 65536>>, long |-> <<1, -2, 70000>>, bool |-> <<0, 1>>,
            string |-> <<<<65, 66>>, <<>>, None, <<67>>>>, buffer |-> <<<<1, 2, 255>>, None, <<>>>>]

RECURSIVE Values(_, _)
Values(fields, n) ==
  IF fields = <<>> THEN <<>>
  ELSE LET f == Head(fields)
       IN  (IF f.kind = "vector"
            THEN <<[kind |-> "int", val |-> n % 3]>> \o FlattenSeq([i \in 1..(n % 3) |-> Values(f.of, n + i)])
            ELSE <<[kind |-> f.kind, val |-> Samples[f.kind][1 + (n % Len(Samples[f.kind]))]]>>)
           \o Values(Tail(fields), n + 1)

JuteInit ==
  /\ record \in Records
  /\ \E seed \in Seeds : written = Values(record, seed)
  /\ pieces = FlattenSeq([i \in DOMAIN written |-> Pieces(written[i])])
  /\ bytes = <<>> /\ len = Initial /\ got = None

\* One copy to the output buffer, for which there is room or is made.
Serialize ==
  /\ pieces # <<>>
  /\ LET piece == Head(pieces)
     IN  /\ len' = IF len - Len(bytes) < Len(piece) THEN resize_buffer(len, len + Len(piece)) ELSE len
         /\ bytes' = bytes \o piece
  /\ pieces' = Tail(pieces)
  /\ UNCHANGED <<record, written, got>>

\* A whole record read from the first n bytes.
Read(n) ==
  /\ pieces = <<>> /\ got = None
  /\ got' = [n |-> n, res |-> Deserialize(record, SubSeq(bytes, 1, n), [rc |-> "ok", off |-> 0, vals |-> <<>>])]
  /\ UNCHANGED <<record, written, pieces, bytes, len>>

JuteNext == Serialize \/ (\E n \in 0..Len(bytes) : Read(n))

JuteSpec == JuteInit /\ [][JuteNext]_juteVars

-----------------------------------------------------------------------------
\* The archives agree.  What is written stays inside the buffer however the
\* record makes it grow; a record whose strings are not null is read back as
\* it was written, to its last byte; reading never passes the end of a shorter
\* buffer, and reports success there only where a vector was cut, the one
\* place where zookeeper.jute.c forgets an error.
ReadAsWritten ==
  /\ Len(bytes) <= len
  /\ got # None =>
       LET res == got.res
       IN  /\ res.off <= got.n
           /\ (got.n = Len(bytes) /\ [kind |-> "string", val |-> None] \notin ToSet(written)) =>
                res.rc = "ok" /\ res.vals = written /\ res.off = got.n
           /\ (got.n < Len(bytes) /\ \A i \in DOMAIN record : record[i].kind # "vector") => res.rc # "ok"

-----------------------------------------------------------------------------
(***************************************************************************)
(* The tables in which the ZooKeeper client keeps the active watchers of   *)
(* each path: zk_hashtable.c over the chained hash tables of hashtable.c   *)
(* and the iterator of hashtable_itr.c.  An entry is named by its key, as  *)
(* a path is inserted only when a search does not find it; a chain is what *)
(* the next pointers make of it.  Allocation does not fail.                *)
(***************************************************************************)

CONSTANTS Path, Watcher,
          Default,      \* the watcher of the session
          Hash,         \* the hash value of a path
          Primes,       \* the sizes a table may have
          MinSize,      \* what create_zk_hashtable asks for (32)
          MaxOps

VARIABLES tables, delivered, active, ops, alive, freed

tableVars == <<tables, delivered, active, ops, alive, freed>>

Tables == {"node", "exist", "child"}

-----------------------------------------------------------------------------
\* hashtable.c

hash(k) == Hash[k]
indexFor(h, k) == hash(k) % h.len

\* ceil(size * 0.65)
loadlimit(h) == (h.len * 65 + 99) \div 100

create_hashtable ==
  LET i == CHOOSE j \in DOMAIN Primes : Primes[j] > MinSize /\ \A m \in 1..(j - 1) : Primes[m] <= MinSize
  IN  [len |-> Primes[i], prime |-> i, count |-> 0, table |-> [b \in 0..(Primes[i] - 1) |-> None],
       next |-> [k \in Path |-> None], list |-> [k \in Path |-> <<>>]]

\* Links the entry of k in front of its chain.
Link(h, k) ==
  [h EXCEPT !.next[k] = h.table[indexFor(h, k)], !.table[indexFor(h, k)] = k]

\* Seeded fault: the entries stay in the chains of the smaller table.
hashtable_expandKeep(h) ==
  IF h.prime = Len(Primes) THEN h
  ELSE LET size == Primes[h.prime + 1]
       IN  [h EXCEPT !.len = size, !.prime = @ + 1,
                     !.table = [b \in 0..(size - 1) |-> IF b < h.len THEN h.table[b] ELSE None]]

\* Moves every entry, chain by chain and first to last, to a larger table.
hashtable_expand(h) ==
  LET size == Primes[h.prime + 1]
      RECURSIVE Move(_, _, _)
      Move(new, b, e) ==
        IF e # None THEN Move(Link(new, e), b, h.next[e])
        ELSE IF b + 1 < h.len THEN Move(new, b + 1, h.table[b + 1]) ELSE new
  IN  IF h.prime = Len(Primes) THEN h
      ELSE Move([h EXCEPT !.len = size, !.prime = @ + 1, !.table = [b \in 0..(size - 1) |-> None]],
                0, h.table[0])

hashtable_insert(h, k, list) ==
  LET counted == [h EXCEPT !.count = @ + 1]
      grown == IF counted.count > loadlimit(h) THEN hashtable_expand(counted) ELSE counted
  IN  [Link(grown, k) EXCEPT !.list[k] = list]

\* The entries of a chain from e on.
RECURSIVE Chain(_, _)
Chain(h, e) == IF e = None THEN <<>> ELSE <<e>> \o Chain(h, h.next[e])

hashtable_search(h, k) == k \in ToSet(Chain(h, h.table[indexFor(h, k)]))

hashtable_remove(h, k) ==
  LET b == indexFor(h, k)
      chain == Chain(h, h.table[b])
      before == {e \in ToSet(chain) : h.next[e] = k}
      gone == [h EXCEPT !.count = @ - 1, !.next = [e \in Path |-> CASE e = k -> None
                                                                  [] e \in before -> h.next[k]
                                                                  [] OTHER -> h.next[e]],
                        !.list[k] = <<>>]
  IN  CASE k \notin ToSet(chain) -> h
        [] k = h.table[b] -> [gone EXCEPT !.table[b] = h.next[k]]
        [] OTHER -> gone

-----------------------------------------------------------------------------
\* hashtable_itr.c

\* The first chain from b on that is not empty.
FirstFrom(h, b) ==
  LET full == {c \in b..(h.len - 1) : h.table[c] # None}
  IN  IF full = {} THEN [index |-> h.len, e |-> None, parent |-> None]
      ELSE LET c == CHOOSE c \in full : \A d \in full : c <= d
           IN  [index |-> c, e |-> h.table[c], parent |-> None]

hashtable_iterator(h) == FirstFrom(h, IF h.count = 0 THEN h.len ELSE 0)

hashtable_iterator_advance(h, it) ==
  CASE it.e = None -> it
    [] it.e # None /\ h.next[it.e] # None -> [it EXCEPT !.parent = it.e, !.e = h.next[it.e]]
    [] OTHER -> FirstFrom(h, it.index + 1)

\* Takes the current entry out of its chain, advances and corrects the parent.
hashtable_iterator_remove(h, it) ==
  LET out == IF it.parent = None THEN [h EXCEPT !.table[it.index] = h.next[it.e]]
             ELSE [h EXCEPT !.next[it.parent] = h.next[it.e]]
      next == hashtable_iterator_advance(out, it)
  IN  [h |-> [out EXCEPT !.count = @ - 1, !.next[it.e] = None, !.list[it.e] = <<>>],
       it |-> IF next.parent = it.e THEN [next EXCEPT !.parent = it.parent] ELSE next]

\* The keys in the order of iteration.
collect_keys(h) ==
  LET RECURSIVE Keys(_, _)
      Keys(it, n) == IF n = 0 THEN <<>> ELSE <<it.e>> \o Keys(hashtable_iterator_advance(h, it), n - 1)
  IN  Keys(hashtable_iterator(h), h.count)

-----------------------------------------------------------------------------
\* zk_hashtable.c

\* add_to_list: in front, unless it is there.
add_to_list(list, w) == IF w \in ToSet(list) THEN list ELSE <<w>> \o list

copy_watchers(from, to) == FoldLeft(add_to_list, to, from)

do_insert_watcher_object(h, k, w) ==
  IF hashtable_search(h, k) THEN [h EXCEPT !.list[k] = add_to_list(@, w)] ELSE hashtable_insert(h, k, <<w>>)

\* copy_table: every watcher of a table, entry by entry.
copy_table(h, to) ==
  LET RECURSIVE Copy(_, _)
      Copy(it, list) == IF it.e = None THEN list
                        ELSE Copy(hashtable_iterator_advance(h, it), copy_watchers(h.list[it.e], list))
  IN  Copy(hashtable_iterator(h), to)

\* do_clean_hashtable: the entries removed, in order, and what is left.
do_clean_hashtable(h) ==
  LET RECURSIVE Clean(_, _, _)
      Clean(g, it, out) ==
        IF it.e = None THEN [h |-> g, out |-> out]
        ELSE LET r == hashtable_iterator_remove(g, it) IN Clean(r.h, r.it, Append(out, it.e))
  IN  Clean(h, hashtable_iterator(h), <<>>)

\* The tables an event takes its watchers from, in this order.
Affected(type) == CASE type \in {"created", "changed"} -> <<"node", "exist">>
                    [] type = "child" -> <<"child">>
                    [] type = "deleted" -> <<"node", "exist", "child">>

-----------------------------------------------------------------------------
TablesInit ==
  /\ tables = [t \in Tables |-> create_hashtable]
  /\ delivered = None /\ active = {} /\ ops = 0 /\ alive = TRUE /\ freed = <<>>

Operates == alive /\ ops < MaxOps /\ ops' = ops + 1

activateWatcher(t, k, w) ==
  /\ Operates
  /\ tables' = [tables EXCEPT ![t] = do_insert_watcher_object(@, k, w)]
  /\ active' = active \cup {<<t, k, w>>}
  /\ delivered' = None /\ UNCHANGED <<alive, freed>>

\* collectWatchers for an event of a node: its watchers move to the list that
\* is delivered.
collectWatchers(type, k) ==
  LET from == Affected(type)
      moved == {a \in active : a[1] \in ToSet(from) /\ a[2] = k}
  IN  /\ Operates
      /\ delivered' = [list |-> FoldLeft(LAMBDA list, t :
                                           IF hashtable_search(tables[t], k)
                                           THEN copy_watchers(tables[t].list[k], list) ELSE list,
                                         <<>>, from),
                       due |-> {a[3] : a \in moved}]
      /\ tables' = [t \in Tables |-> IF t \in ToSet(from) THEN hashtable_remove(tables[t], k) ELSE tables[t]]
      /\ active' = active \ moved
      /\ UNCHANGED <<alive, freed>>

\* collectWatchers for an event of the session: copies of all watchers.
collect_session_watchers ==
  /\ Operates
  /\ delivered' = [list |-> FoldLeft(LAMBDA list, t : copy_table(tables[t], list),
                                     <<Default>>, <<"node", "exist", "child">>),
                   due |-> {Default} \cup {a[3] : a \in active}]
  /\ UNCHANGED <<tables, active, alive, freed>>

\* destroy_zk_hashtable of the three tables, when the handle is closed.
destroy_zk_hashtable ==
  /\ alive /\ alive' = FALSE
  /\ freed' = [t \in Tables |-> do_clean_hashtable(tables[t]).out]
  /\ tables' = [t \in Tables |-> do_clean_hashtable(tables[t]).h]
  /\ UNCHANGED <<delivered, active, ops>>

TablesNext ==
  \/ \E t \in Tables, k \in Path, w \in Watcher : activateWatcher(t, k, w)
  \/ \E type \in {"changed", "child", "deleted"}, k \in Path : collectWatchers(type, k)
  \/ collect_session_watchers
  \/ destroy_zk_hashtable

TablesSpec == TablesInit /\ [][TablesNext]_tableVars

-----------------------------------------------------------------------------
\* The tables lose nothing: whatever was inserted, moved by growing and taken
\* out, a search finds the watchers that are active for a path, collect_keys
\* lists every watched path once (they are what a new session watches again),
\* an event is delivered to each watcher it is due to exactly once, and
\* closing the handle frees each entry exactly once.
NoWatcherLost ==
  LET paths(t) == {a[2] : a \in {b \in active : b[1] = t}}
  IN  /\ alive => \A t \in Tables :
           /\ \A k \in Path : hashtable_search(tables[t], k) <=> k \in paths(t)
           /\ \A k \in Path : {<<t, k, w>> : w \in ToSet(tables[t].list[k])} = {a \in active : a[1] = t /\ a[2] = k}
           /\ ToSet(collect_keys(tables[t])) = paths(t)
           /\ IsInjective(collect_keys(tables[t])) /\ tables[t].count = Cardinality(paths(t))
      /\ delivered # None => ToSet(delivered.list) = delivered.due /\ IsInjective(delivered.list)
      /\ ~alive => \A t \in Tables : /\ ToSet(freed[t]) = paths(t) /\ IsInjective(freed[t])
                                     /\ tables[t].count = 0

-----------------------------------------------------------------------------
(***************************************************************************)
(* What zookeeper_init and the requests make of the text they are given:   *)
(* the host string with its chroot, the addresses of the hosts in a random *)
(* order, and the paths, which are put below the chroot before they are    *)
(* checked and taken out again for the watchers.  A text is a sequence of  *)
(* characters.                                                             *)
(***************************************************************************)

CONSTANTS Texts,      \* the client paths tried
          Roots,      \* what follows the hosts in the host string, from its first "/"
          HostLists,  \* lists of hosts, each the families of its addresses or a fault of the text
          Slots       \* by how many the array of addresses grows (16)

VARIABLES chroot, hosts, path, sequence, step, addrs, alen, left, full_path, rc, client_path

argVars == <<chroot, hosts, path, sequence, step, addrs, alen, left, full_path, rc, client_path>>

isValidPath(p, seq) ==
  LET Ends(i) == (i = Len(p) /\ ~seq) \/ (i < Len(p) /\ p[i + 1] = "/")
  IN  /\ Len(p) > 0 /\ p[1] = "/"
      /\ Len(p) > 1 => p[Len(p)] # "/" \/ seq
      /\ \A i \in 2..Len(p) :
           /\ ~(p[i] = "/" /\ p[i - 1] = "/")
           /\ ~(p[i] = "." /\ p[i - 1] = "." /\ p[i - 2] = "/" /\ Ends(i))
           /\ ~(p[i] = "." /\ p[i - 1] = "/" /\ Ends(i))
           /\ p[i] # "ctl"

\* The chroot itself for a path of one character, else the two after another.
prepend_string(p) ==
  CASE chroot = None -> p
    [] chroot # None /\ Len(p) = 1 -> chroot
    [] OTHER -> chroot \o p

sub_string(p) ==
  CASE chroot = None -> p
    [] chroot # None /\ ~IsPrefix(chroot, p) -> p
    [] chroot # None /\ p = chroot -> <<"/">>
    [] OTHER -> SubSeq(p, Len(chroot) + 1, Len(p))

-----------------------------------------------------------------------------
ArgumentsInit ==
  /\ path \in Texts /\ sequence \in BOOLEAN
  /\ hosts \in HostLists
  /\ chroot \in Roots \cup {None}
  /\ step = "init" /\ addrs = <<>> /\ alen = 0 /\ left = hosts
  /\ full_path = None /\ rc = None /\ client_path = None

\* zookeeper_init: "/" alone is no chroot, any other must be a valid path.
zookeeper_init ==
  /\ step = "init"
  /\ chroot' = IF chroot = <<"/">> THEN None ELSE chroot
  /\ IF chroot' # None /\ ~isValidPath(chroot', FALSE)
     THEN step' = "aborted" /\ rc' = "EINVAL"
     ELSE step' = "getaddrs" /\ rc' = rc
  /\ UNCHANGED <<hosts, path, sequence, addrs, alen, left, full_path, client_path>>

\* getaddrs: the next host, whose addresses of known families are appended.
getaddrs ==
  /\ step = "getaddrs" /\ left # <<>>
  /\ LET host == Head(left)
         known == SelectSeq(host.families, LAMBDA f : f # "unknown")
         RECURSIVE Grown(_, _, _)
         Grown(i, n, a) == IF i > Len(host.families) THEN a
                           ELSE LET more == IF n = a THEN a + Slots ELSE a
                                IN  Grown(i + 1, IF host.families[i] = "unknown" THEN n ELSE n + 1, more)
     IN  IF host.fault # "none"
         THEN /\ step' = "aborted" /\ addrs' = <<>> /\ alen' = 0
              /\ rc' = IF host.fault = "resolve" THEN "ZSYSTEMERROR" ELSE "ZBADARGUMENTS"
         ELSE /\ addrs' = addrs \o known /\ alen' = Grown(1, Len(addrs), alen)
              /\ UNCHANGED <<step, rc>>
  /\ left' = Tail(left)
  /\ UNCHANGED <<chroot, hosts, path, sequence, full_path, client_path>>

\* The shuffle of getaddrs, from the last address down.
Permute ==
  /\ step = "getaddrs" /\ left = <<>>
  /\ LET RECURSIVE Shuffled(_, _)
         Shuffled(i, s) == IF i <= 1 THEN {s}
                           ELSE UNION {Shuffled(i - 1, [s EXCEPT ![i] = s[j], ![j] = s[i]]) : j \in 1..i}
     IN  addrs' \in Shuffled(Len(addrs), addrs)
  /\ step' = "open"
  /\ UNCHANGED <<chroot, hosts, path, sequence, alen, left, full_path, rc, client_path>>

Request_path_init ==
  /\ step = "open" /\ rc = None
  /\ full_path' = prepend_string(path)
  /\ rc' = IF isValidPath(full_path', sequence) THEN "ZOK" ELSE "ZBADARGUMENTS"
  /\ UNCHANGED <<chroot, hosts, path, sequence, step, addrs, alen, left, client_path>>

\* do_foreach_watcher, with the path of an event of that node.
do_foreach_watcher ==
  /\ rc = "ZOK" /\ client_path = None
  /\ client_path' = sub_string(full_path)
  /\ UNCHANGED <<chroot, hosts, path, sequence, step, addrs, alen, left, full_path, rc>>

ArgumentsNext == zookeeper_init \/ getaddrs \/ Permute \/ Request_path_init \/ do_foreach_watcher

ArgumentsSpec == ArgumentsInit /\ [][ArgumentsNext]_argVars

-----------------------------------------------------------------------------
\* The components of a text that starts with "/".
Components(p) ==
  LET cuts == {i \in 1..Len(p) : p[i] = "/"} \cup {Len(p) + 1}
  IN  {SubSeq(p, c[1] + 1, c[2] - 1) :
         c \in {d \in cuts \X cuts : d[1] < d[2] /\ \A i \in cuts : i <= d[1] \/ i >= d[2]}}

\* A path in the words of the ZooKeeper rules: from the root, without control
\* characters, no component empty or one of the two dot names; the name that a
\* sequence number will be appended to may be any of those.
Proper(p, seq) ==
  LET named == IF seq THEN Append(p, "1") ELSE p
  IN  /\ Len(p) > 0 /\ p[1] = "/" /\ "ctl" \notin ToSet(p)
      /\ p # <<"/">> => Components(named) \cap {<<>>, <<".">>, <<".", ".">>} = {}

\* isValidPath, a scan with one character of look-ahead, accepts exactly the
\* proper paths; a watcher is told the path its client asked for, except that
\* below a chroot any path of at most one character stands for it; and
\* zookeeper_init keeps every address of a known family once, in some order,
\* inside the array it has grown.
ArgumentsRight ==
  /\ rc # None /\ step = "open" => (rc = "ZOK" <=> Proper(full_path, sequence))
  /\ step = "open" /\ chroot # None => Proper(chroot, FALSE)
  /\ client_path # None => client_path = path \/ (chroot # None /\ Len(path) <= 1 /\ client_path = <<"/">>)
  /\ Len(addrs) <= alen
  /\ step = "open" =>
       /\ \A i \in DOMAIN hosts : hosts[i].fault = "none"
       /\ LET kept == FlattenSeq([i \in DOMAIN hosts |-> hosts[i].families])
              Times(f, list) == Cardinality({i \in DOMAIN list : list[i] = f})
          IN  \A f \in ToSet(kept) \cup ToSet(addrs) :
                Times(f, addrs) = IF f = "unknown" THEN 0 ELSE Times(f, kept)

=============================================================================
