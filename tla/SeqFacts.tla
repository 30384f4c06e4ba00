------------------------------ MODULE SeqFacts ------------------------------
(***************************************************************************)
(* What appending, prepending, concatenating and popping do to the set of  *)
(* elements of a queue and to the absence of repetitions in it; and that a *)
(* set of numbers has a first one.                                         *)
(***************************************************************************)
EXTENDS Integers, Sequences, Functions, SequenceTheorems, WellFoundedInduction, TLAPS

\* Outside of Skip, no element occurs at two positions of q.
Distinct(q, Skip) == \A i, j \in DOMAIN q : q[i] = q[j] /\ q[i] \notin Skip => i = j

\* The elements of a queue are the values at its positions.
LEMMA RangeMember ==
  ASSUME NEW S, NEW q \in Seq(S), NEW x
  PROVE x \in Range(q) <=> \E i \in 1 .. Len(q) : q[i] = x
  BY DEF Range

\* Appending a task adds it to the elements (tasks_.push_back).
LEMMA RangeAppend ==
  ASSUME NEW S, NEW q \in Seq(S), NEW x \in S
  PROVE Range(Append(q, x)) = Range(q) \cup {x}
<1> DEFINE r == Append(q, x)
<1>1. r \in Seq(S) /\ Len(r) = Len(q) + 1
  OBVIOUS
<1>2. (\A i \in 1 .. Len(q) : r[i] = q[i]) /\ r[Len(q) + 1] = x
  OBVIOUS
<1>3. ASSUME NEW y PROVE y \in Range(r) <=> \E i \in 1 .. Len(q) + 1 : r[i] = y
  BY <1>1, RangeMember
<1>4. ASSUME NEW y PROVE y \in Range(q) <=> \E i \in 1 .. Len(q) : q[i] = y
  BY RangeMember
<1> HIDE DEF r
<1>5. ASSUME NEW y PROVE y \in Range(r) <=> y \in Range(q) \cup {x}
  <2>1. y \in Range(r) => y \in Range(q) \cup {x}
    <3>1. SUFFICES ASSUME NEW i \in 1 .. Len(q) + 1, r[i] = y PROVE y \in Range(q) \cup {x}
      BY <1>3
    <3> QED BY <3>1, <1>2, <1>4, LenProperties
  <2>2. y \in Range(q) \cup {x} => y \in Range(r)
    BY <1>2, <1>3, <1>4, LenProperties
  <2> QED BY <2>1, <2>2
<1> QED BY <1>5 DEF r

\* Splicing two queues unites their elements (tasks_.splice).
LEMMA RangeConcat ==
  ASSUME NEW S, NEW q \in Seq(S), NEW p \in Seq(S)
  PROVE Range(q \o p) = Range(q) \cup Range(p)
<1> DEFINE r == q \o p
<1>1. r \in Seq(S) /\ Len(r) = Len(q) + Len(p)
  OBVIOUS
<1>2. \A i \in 1 .. Len(q) : r[i] = q[i]
  OBVIOUS
<1>3. \A i \in 1 .. Len(p) : r[Len(q) + i] = p[i]
  OBVIOUS
<1>4. ASSUME NEW y PROVE y \in Range(r) <=> \E i \in 1 .. Len(q) + Len(p) : r[i] = y
  BY <1>1, RangeMember
<1>5. ASSUME NEW y PROVE y \in Range(q) <=> \E i \in 1 .. Len(q) : q[i] = y
  BY RangeMember
<1>6. ASSUME NEW y PROVE y \in Range(p) <=> \E i \in 1 .. Len(p) : p[i] = y
  BY RangeMember
<1> HIDE DEF r
<1>7. ASSUME NEW y PROVE y \in Range(r) <=> y \in Range(q) \cup Range(p)
  <2>1. y \in Range(r) => y \in Range(q) \cup Range(p)
    <3>1. SUFFICES ASSUME NEW i \in 1 .. Len(q) + Len(p), r[i] = y
                   PROVE y \in Range(q) \cup Range(p)
      BY <1>4
    <3>2. CASE i <= Len(q)
      BY <3>1, <3>2, <1>2, <1>5, LenProperties
    <3>3. CASE i > Len(q)
      <4>1. i - Len(q) \in 1 .. Len(p) /\ Len(q) + (i - Len(q)) = i
        BY <3>3, LenProperties
      <4> QED BY <3>1, <4>1, <1>3, <1>6
    <3> QED BY <3>2, <3>3, LenProperties
  <2>2. y \in Range(q) => y \in Range(r)
    BY <1>2, <1>4, <1>5, LenProperties
  <2>3. y \in Range(p) => y \in Range(r)
    <3>1. SUFFICES ASSUME NEW i \in 1 .. Len(p), p[i] = y PROVE y \in Range(r)
      BY <1>6
    <3>2. Len(q) + i \in 1 .. Len(q) + Len(p)
      BY LenProperties
    <3> QED BY <3>1, <3>2, <1>3, <1>4
  <2> QED BY <2>1, <2>2, <2>3
<1> QED BY <1>7 DEF r

\* Pushing on a stack adds the element (free_stacks_.push).
LEMMA RangeCons ==
  ASSUME NEW S, NEW q \in Seq(S), NEW x \in S
  PROVE Range(<<x>> \o q) = Range(q) \cup {x} /\ <<x>> \o q \in Seq(S)
<1>1. <<x>> \in Seq(S)
  OBVIOUS
<1>2. Range(<<x>>) = {x}
  BY DEF Range
<1>3. Range(<<x>> \o q) = Range(<<x>>) \cup Range(q)
  BY <1>1, RangeConcat, ZenonT(60)
<1>4. <<x>> \o q \in Seq(S)
  BY <1>1
<1> QED BY <1>2, <1>3, <1>4

\* A queue that is not empty is its head followed by its tail.
LEMMA HeadTail ==
  ASSUME NEW S, NEW q \in Seq(S), q # <<>>
  PROVE /\ Head(q) \in S
        /\ Tail(q) \in Seq(S)
        /\ q = <<Head(q)>> \o Tail(q)
  OBVIOUS

\* Popping removes at most the head from the elements.
LEMMA RangeTail ==
  ASSUME NEW S, NEW q \in Seq(S), q # <<>>
  PROVE Range(q) = Range(Tail(q)) \cup {Head(q)}
<1> DEFINE h == Head(q)
           t == Tail(q)
<1>1. h \in S /\ t \in Seq(S) /\ q = <<h>> \o t
  BY HeadTail
<1> HIDE DEF h, t
<1>2. Range(<<h>> \o t) = Range(t) \cup {h}
  BY <1>1, RangeCons
<1> QED BY <1>1, <1>2 DEF h, t

\* Pushing an element that is not in the queue, and popping, keep it free of
\* repetitions; so does joining two such queues that share no element.
LEMMA DistinctAppend ==
  ASSUME NEW S, NEW q \in Seq(S), NEW x \in S, NEW Skip, Distinct(q, Skip),
         x \notin Range(q) \/ x \in Skip
  PROVE Distinct(Append(q, x), Skip)
<1> DEFINE r == Append(q, x)
<1>1. r \in Seq(S) /\ Len(r) = Len(q) + 1 /\ DOMAIN r = 1 .. Len(q) + 1 /\ DOMAIN q = 1 .. Len(q)
  BY LenProperties
<1>2. (\A i \in 1 .. Len(q) : r[i] = q[i]) /\ r[Len(q) + 1] = x
  OBVIOUS
<1>3. \A i \in 1 .. Len(q) : q[i] \in Range(q)
  BY RangeMember
<1> HIDE DEF r
<1>4. ASSUME NEW i \in 1 .. Len(q) + 1, NEW j \in 1 .. Len(q) + 1, r[i] = r[j], r[i] \notin Skip
      PROVE i = j
  BY <1>1, <1>2, <1>3, <1>4, LenProperties DEF Distinct
<1> QED BY <1>1, <1>4 DEF Distinct, r

\* Two queues without repetitions and without a common element concatenate
\* to one without repetitions.
LEMMA DistinctConcat ==
  ASSUME NEW S, NEW q \in Seq(S), NEW p \in Seq(S), NEW Skip, Distinct(q, Skip), Distinct(p, Skip),
         Range(q) \cap Range(p) \subseteq Skip
  PROVE Distinct(q \o p, Skip)
<1> DEFINE r == q \o p
           n == Len(q)
           m == Len(p)
<1>1. r \in Seq(S) /\ DOMAIN r = 1 .. n + m /\ DOMAIN q = 1 .. n /\ DOMAIN p = 1 .. m /\ n \in Nat /\ m \in Nat
  BY LenProperties
<1>2. \A i \in 1 .. n : r[i] = q[i] /\ q[i] \in Range(q)
  BY RangeMember
<1>3. \A i \in n + 1 .. n + m : r[i] = p[i - n] /\ p[i - n] \in Range(p)
  <2>1. \A i \in 1 .. m : p[i] \in Range(p)
    BY RangeMember
  <2> QED BY <2>1
<1> HIDE DEF r, n, m
<1>4. ASSUME NEW i \in 1 .. n + m, NEW j \in 1 .. n + m, r[i] = r[j], r[i] \notin Skip
      PROVE i = j
  <2>1. CASE i \in 1 .. n /\ j \in 1 .. n
    BY <2>1, <1>1, <1>2, <1>4 DEF Distinct
  <2>2. CASE i \in n + 1 .. n + m /\ j \in n + 1 .. n + m
    <3>1. i - n \in 1 .. m /\ j - n \in 1 .. m
      BY <2>2, <1>1
    <3>2. p[i - n] = p[j - n] /\ p[i - n] \notin Skip
      BY <2>2, <1>3, <1>4
    <3>3. i - n = j - n
      BY <3>1, <3>2, <1>1 DEF Distinct
    <3> QED BY <3>3, <1>1, <2>2
  <2>3. CASE i \in 1 .. n /\ j \in n + 1 .. n + m
    BY <2>3, <1>2, <1>3, <1>4
  <2>4. CASE i \in n + 1 .. n + m /\ j \in 1 .. n
    BY <2>4, <1>2, <1>3, <1>4
  <2> QED BY <2>1, <2>2, <2>3, <2>4, <1>1
<1> QED BY <1>1, <1>4 DEF Distinct, r

\* Pushing an element that is not there yet causes no repetition.
LEMMA DistinctCons ==
  ASSUME NEW S, NEW q \in Seq(S), NEW x \in S, NEW Skip, Distinct(q, Skip),
         x \notin Range(q) \/ x \in Skip
  PROVE Distinct(<<x>> \o q, Skip)
<1> DEFINE p == <<x>>
<1>1. p \in Seq(S) /\ DOMAIN p = {1} /\ p[1] = x
  OBVIOUS
<1> HIDE DEF p
<1>2. Range(p) = {x} /\ Distinct(p, Skip)
  BY <1>1 DEF Range, Distinct
<1>3. Range(p) \cap Range(q) \subseteq Skip
  BY <1>2
<1>4. Distinct(p \o q, Skip)
  BY <1>1, <1>2, <1>3, DistinctConcat
<1> QED BY <1>4 DEF p

\* Popping causes no repetition, and the popped element is gone.
LEMMA DistinctTail ==
  ASSUME NEW S, NEW q \in Seq(S), q # <<>>, NEW Skip, Distinct(q, Skip)
  PROVE Distinct(Tail(q), Skip) /\ (Head(q) \notin Range(Tail(q)) \/ Head(q) \in Skip)
<1> DEFINE r == Tail(q)
           n == Len(q)
<1>1. /\ r \in Seq(S) /\ n \in Nat /\ n >= 1
      /\ DOMAIN r = 1 .. n - 1 /\ DOMAIN q = 1 .. n
      /\ Len(r) = n - 1 /\ Head(q) = q[1]
  BY LenProperties
<1>2. \A i \in 1 .. n - 1 : r[i] = q[i + 1] /\ i + 1 \in 1 .. n
  OBVIOUS
<1> HIDE DEF r, n
<1>3. ASSUME NEW x PROVE x \in Range(r) <=> \E i \in 1 .. n - 1 : r[i] = x
  BY <1>1, RangeMember
<1>4. Distinct(r, Skip)
  <2>1. ASSUME NEW i \in 1 .. n - 1, NEW j \in 1 .. n - 1, r[i] = r[j], r[i] \notin Skip
        PROVE i = j
    <3>1. q[i + 1] = q[j + 1] /\ q[i + 1] \notin Skip /\ i + 1 \in DOMAIN q /\ j + 1 \in DOMAIN q
      BY <1>1, <1>2, <2>1
    <3>2. i + 1 = j + 1
      BY <3>1 DEF Distinct
    <3> QED BY <3>2
  <2> QED BY <1>1, <2>1 DEF Distinct
<1>5. Head(q) \notin Range(r) \/ Head(q) \in Skip
  <2>1. SUFFICES ASSUME NEW i \in 1 .. n - 1, r[i] = Head(q) PROVE Head(q) \in Skip
    BY <1>3
  <2>2. q[i + 1] = q[1] /\ i + 1 \in DOMAIN q /\ 1 \in DOMAIN q /\ i + 1 # 1
    BY <1>1, <1>2, <2>1
  <2> QED BY <1>1, <2>2 DEF Distinct
<1> QED BY <1>4, <1>5 DEF r

-----------------------------------------------------------------------------
\* A set of numbers that is not empty has a first one.
LEMMA FirstNumber ==
  ASSUME NEW S \in SUBSET Nat, S # {}
  PROVE \E m \in S : \A k \in S : m <= k
<1> DEFINE Less == {p \in Nat \X Nat : p[1] < p[2]}
<1>1. IsWellFoundedOn(Less, Nat)
  BY NatLessThanWellFounded, Zenon DEF OpToRel
<1>2. PICK m \in S : \A k \in S : ~(<<k, m>> \in Less)
  <2> HIDE DEF Less
  <2> QED BY <1>1, WFMin
<1>3. \A k, j \in Nat : <<k, j>> \in Less <=> k < j
  OBVIOUS
<1> HIDE DEF Less
<1>4. \A k \in S : ~(k < m) /\ k \in Nat /\ m \in Nat
  BY <1>2, <1>3
<1> QED BY <1>4

-----------------------------------------------------------------------------
\* A queue of anything.
IsQueue(q) == \E S : q \in Seq(S)

\* Appending leaves every place as it was and adds one.
LEMMA AppendPlaces ==
  ASSUME NEW q, IsQueue(q), NEW x
  PROVE  /\ IsQueue(Append(q, x)) /\ Len(q) \in Nat /\ DOMAIN q = 1 .. Len(q)
         /\ DOMAIN Append(q, x) = 1 .. Len(q) + 1 /\ Append(q, x)[Len(q) + 1] = x
         /\ \A i \in 1 .. Len(q) : Append(q, x)[i] = q[i]
<1>1. PICK S : q \in Seq(S)
  BY DEF IsQueue
<1>2. q \in Seq(S \cup {x}) /\ x \in S \cup {x}
  BY <1>1
<1>3. Append(q, x) \in Seq(S \cup {x})
  BY <1>2
<1> QED BY <1>2, <1>3 DEF IsQueue

\* Popping the front moves every other place by one.
LEMMA TailPlaces ==
  ASSUME NEW q, IsQueue(q), q # <<>>
  PROVE  /\ IsQueue(Tail(q)) /\ Len(q) \in Nat \ {0} /\ DOMAIN q = 1 .. Len(q)
         /\ Head(q) = q[1] /\ DOMAIN Tail(q) = 1 .. Len(q) - 1
         /\ \A i \in 1 .. Len(q) - 1 : Tail(q)[i] = q[i + 1]
<1>1. PICK S : q \in Seq(S)
  BY DEF IsQueue
<1>2. Tail(q) \in Seq(S) /\ Len(q) \in Nat \ {0} /\ DOMAIN q = 1 .. Len(q)
  BY <1>1
<1>3. Head(q) = q[1] /\ Len(Tail(q)) = Len(q) - 1 /\ \A i \in 1 .. Len(q) - 1 : Tail(q)[i] = q[i + 1]
  BY <1>1, <1>2
<1>4. DOMAIN Tail(q) = 1 .. Len(q) - 1
  BY <1>2, <1>3
<1>5. IsQueue(Tail(q))
  BY <1>2 DEF IsQueue
<1> QED BY <1>2, <1>3, <1>4, <1>5
=============================================================================
