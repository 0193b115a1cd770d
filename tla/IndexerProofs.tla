---------------------------- MODULE IndexerProofs ----------------------------
(***************************************************************************)
(* The projection of an escrow follows the node's chain, for every number   *)
(* of events, blocks, range sizes, reorganisations and workers, and of      *)
(* replays where the finality is safe.                                      *)
(***************************************************************************)
EXTENDS Indexer, TLAPS, FiniteSetTheorems, NaturalsInduction

-----------------------------------------------------------------------------
(* Natural numbers *)

(* the order on the natural numbers is well-founded *)
LEMMA BelowWellFounded == IsWellFoundedOn({p \in Nat \X Nat : p[1] < p[2]}, Nat)
<1>1. OpToRel(<, Nat) = {p \in Nat \X Nat : p[1] < p[2]}
  BY DEF OpToRel
<1> QED
  BY <1>1, NatLessThanWellFounded

(* a non-empty set of natural numbers has a least element *)
LEMMA LeastMember ==
    ASSUME NEW S, S \subseteq Nat, S # {}
    PROVE  \E x \in S : \A y \in S : x <= y
<1> DEFINE below == {p \in Nat \X Nat : p[1] < p[2]}
<1>1. PICK x \in S : \A y \in S : ~(<<y, x>> \in below)
  <2> HIDE DEF below
  <2> QED
    BY BelowWellFounded, WFMin DEF below
<1>2. ASSUME NEW y \in S PROVE x <= y
  <2>1. x \in Nat /\ y \in Nat /\ ~(<<y, x>> \in below)
    BY <1>1
  <2>2. <<y, x>> \in below <=> y < x
    BY <2>1
  <2> QED
    BY <2>1, <2>2
<1> QED
  BY <1>2

(* a set of naturals with zero and the successor of each member *)
LEMMA NatSetInduction ==
    ASSUME NEW S, 0 \in S, \A n \in Nat : n \in S => n + 1 \in S
    PROVE  \A n \in Nat : n \in S
<1> DEFINE bad == Nat \ S
<1> SUFFICES ASSUME bad # {} PROVE FALSE
  OBVIOUS
<1>1. PICK m \in bad : \A n \in bad : m <= n
  BY LeastMember
<1>2. m \in Nat /\ m # 0 /\ m - 1 \in Nat
  OBVIOUS
<1>3. m - 1 \in S
  BY <1>1, <1>2
<1> QED
  BY <1>1, <1>2, <1>3

-----------------------------------------------------------------------------
(* Lists: the members of a set, each once, by ascending key *)

Lists(h, S, key) ==
    /\ h \in Seq(S)
    /\ \A x \in S : \E i \in 1..Len(h) : h[i] = x
    /\ \A i, j \in 1..Len(h) : i < j => key[h[i]] < key[h[j]]

(* keys are natural numbers *)
Keyed(S, key) == \A x \in S : key[x] \in Nat

(* a list as a function on its positions *)
LEMMA ListPositions ==
    ASSUME NEW S, NEW h \in Seq(S)
    PROVE  /\ Len(h) \in Nat /\ DOMAIN h = 1..Len(h)
           /\ h = [i \in 1..Len(h) |-> h[i]]
           /\ \A i \in 1..Len(h) : h[i] \in S
OBVIOUS

(* what a list gives *)
LEMMA ListFacts ==
    ASSUME NEW S, NEW key, Keyed(S, key), NEW h, Lists(h, S, key)
    PROVE  /\ Len(h) \in Nat
           /\ \A i \in 1..Len(h) : h[i] \in S /\ key[h[i]] \in Nat
           /\ \A x \in S : key[x] \in Nat /\ \E i \in 1..Len(h) : h[i] = x
           /\ \A i, j \in 1..Len(h) : i < j => key[h[i]] < key[h[j]]
<1>1. h \in Seq(S)
  BY DEF Lists
<1>2. Len(h) \in Nat /\ \A i \in 1..Len(h) : h[i] \in S
  BY <1>1, ListPositions
<1> QED
  BY <1>2, Zenon DEF Lists, Keyed

(* no member is listed twice *)
LEMMA ListedOnce ==
    ASSUME NEW S, NEW key, Keyed(S, key), NEW h, Lists(h, S, key),
           NEW i \in 1..Len(h), NEW j \in 1..Len(h), h[i] = h[j]
    PROVE  i = j
<1>1. Len(h) \in Nat /\ key[h[i]] \in Nat /\ key[h[i]] = key[h[j]]
  BY ListFacts
<1>2. (i < j => key[h[i]] < key[h[j]]) /\ (j < i => key[h[j]] < key[h[i]])
  BY ListFacts
<1> QED
  BY <1>1, <1>2

(* members with the same key are the same *)
LEMMA KeysDistinct ==
    ASSUME NEW S, NEW key, Keyed(S, key), NEW h, Lists(h, S, key),
           NEW x \in S, NEW y \in S, key[x] = key[y]
    PROVE  x = y
<1>1. PICK i, j \in 1..Len(h) : h[i] = x /\ h[j] = y
  BY ListFacts
<1>2. Len(h) \in Nat /\ key[x] \in Nat
  BY ListFacts
<1>3. (i < j => key[x] < key[y]) /\ (j < i => key[y] < key[x])
  BY <1>1, ListFacts
<1> QED
  BY <1>1, <1>2, <1>3

(* two lists of a set agree as far as the first goes *)
LEMMA ListExtends ==
    ASSUME NEW S, NEW key, Keyed(S, key), NEW h, Lists(h, S, key), NEW g, Lists(g, S, key),
           NEW i \in 1..Len(h)
    PROVE  i <= Len(g) /\ h[i] = g[i]
<1> DEFINE differ == {n \in 1..Len(h) : ~(n <= Len(g) /\ h[n] = g[n])}
<1>0. /\ Len(h) \in Nat /\ Len(g) \in Nat
      /\ \A x \in S : \E m \in 1..Len(h) : h[m] = x
  <2>1. Len(h) \in Nat
    BY ListFacts
  <2>2. Len(g) \in Nat
    BY ListFacts
  <2>3. \A x \in S : \E m \in 1..Len(h) : h[m] = x
    BY DEF Lists
  <2> QED
    BY <2>1, <2>2, <2>3
<1> SUFFICES ASSUME differ # {} PROVE FALSE
  OBVIOUS
<1>1. PICK n \in differ : \A m \in differ : n <= m
  <2>1. differ \subseteq Nat
    BY <1>0
  <2> HIDE DEF differ
  <2> QED
    BY <2>1, LeastMember
<1>2. n \in 1..Len(h) /\ \A m \in 1..Len(h) : m < n => m <= Len(g) /\ h[m] = g[m]
  BY <1>0, <1>1
<1>3. h[n] \in S /\ key[h[n]] \in Nat
  BY <1>2, ListFacts
<1>4. PICK j \in 1..Len(g) : g[j] = h[n]
  BY <1>3, Zenon DEF Lists
<1>5. j > n
  <2>1. CASE j < n
    BY <1>0, <1>2, <1>4, <2>1, ListedOnce
  <2>2. CASE j = n
    BY <1>0, <1>1, <1>4, <2>2
  <2> QED
    BY <1>0, <1>2, <2>1, <2>2
<1>6. n \in 1..Len(g)
  BY <1>0, <1>2, <1>4, <1>5
<1>7. g[n] \in S /\ key[g[n]] \in Nat /\ key[g[n]] < key[h[n]]
  BY <1>4, <1>5, <1>6, ListFacts
<1>8. PICK m \in 1..Len(h) : h[m] = g[n]
  BY <1>0, <1>7
<1>9. m > n
  <2>1. CASE m < n
    BY <1>0, <1>2, <1>6, <1>8, <2>1, ListedOnce
  <2>2. CASE m = n
    BY <1>3, <1>6, <1>8, <2>2
  <2> QED
    BY <1>0, <1>2, <2>1, <2>2
<1>10. key[h[n]] < key[h[m]]
  BY <1>2, <1>9, ListFacts
<1> QED
  BY <1>3, <1>7, <1>8, <1>10

(* A set is listed in one way only. *)
LEMMA ListUnique ==
    ASSUME NEW S, NEW key, Keyed(S, key), NEW h, Lists(h, S, key), NEW g, Lists(g, S, key)
    PROVE  h = g
<1>1. Len(h) \in Nat /\ Len(g) \in Nat
  BY ListPositions DEF Lists
<1>2. \A i \in 1..Len(h) : i <= Len(g) /\ h[i] = g[i]
  BY ListExtends
<1>3. \A i \in 1..Len(g) : i <= Len(h)
  BY ListExtends
<1>4. Len(h) = Len(g)
  BY <1>1, <1>2, <1>3
<1>5. h = [i \in 1..Len(h) |-> h[i]] /\ g = [i \in 1..Len(g) |-> g[i]]
  BY ListPositions DEF Lists
<1> QED
  BY <1>2, <1>4, <1>5

(* the size of an initial segment of the naturals *)
LEMMA SegmentCounts ==
    ASSUME NEW n \in Nat
    PROVE  IsFiniteSet(1..n) /\ Cardinality(1..n) = n
BY FS_Interval

(* the number of members is the length of the list *)
LEMMA ListCounts ==
    ASSUME NEW S, NEW key, Keyed(S, key), NEW h, Lists(h, S, key)
    PROVE  IsFiniteSet(S) /\ Cardinality(S) = Len(h)
<1>1. Len(h) \in Nat /\ h \in [1..Len(h) -> S]
  BY ListPositions DEF Lists
<1>2. h \in Bijection(1..Len(h), S)
  BY <1>1, ListedOnce DEF Lists, Bijection, Injection, Surjection, IsInjective
<1>3. IsFiniteSet(1..Len(h)) /\ Cardinality(1..Len(h)) = Len(h)
  BY <1>1, SegmentCounts
<1> QED
  BY <1>2, <1>3, FS_Bijection DEF ExistsBijection

(* Ordered finds the list of a set. *)
LEMMA OrderedLists ==
    ASSUME NEW S, NEW key, Keyed(S, key), NEW h, Lists(h, S, key)
    PROVE  Ordered(S, key) = h
<1> DEFINE n == Cardinality(S)
           sorted(s) == \A i, j \in DOMAIN s : i < j => key[s[i]] <= key[s[j]]
           o == Ordered(S, key)
<1>1. IsFiniteSet(S) /\ n = Len(h) /\ n \in Nat /\ h \in [1..n -> S]
  <2>1. IsFiniteSet(S) /\ n = Len(h)
    BY ListCounts
  <2>2. h \in Seq(S)
    BY DEF Lists
  <2>3. Len(h) \in Nat /\ h \in [1..Len(h) -> S]
    BY <2>2, ListPositions
  <2> QED
    BY <2>1, <2>3
<1>2. \A i \in 1..n : h[i] \in S /\ key[h[i]] \in Nat
  BY <1>1 DEF Keyed
<1>3. h \in SetToSeqs(S) /\ sorted(h)
  <2>1. \A i, j \in 1..n : i # j => h[i] # h[j]
    BY <1>1, ListedOnce
  <2>2. sorted(h)
    BY <1>1, <1>2 DEF Lists
  <2> QED
    BY <1>1, <2>1, <2>2 DEF SetToSeqs
<1>4. o \in SetToSeqs(S) /\ sorted(o)
  BY <1>3 DEF Ordered
<1>5. o \in [1..n -> S] /\ \A i, j \in 1..n : i # j => o[i] # o[j]
  BY <1>4 DEF SetToSeqs
<1> HIDE DEF o
<1>6. o \in Seq(S) /\ Len(o) = n
  BY <1>1, <1>5
<1>7. \A x \in S : \E i \in 1..Len(o) : o[i] = x
  <2>1. o \in Injection(1..n, S)
    BY <1>5 DEF Injection, IsInjective
  <2>2. Cardinality(1..n) = Cardinality(S)
    BY <1>1, SegmentCounts
  <2>3. o \in Surjection(1..n, S)
    BY <1>1, <2>1, <2>2, FS_Injection
  <2> QED
    BY <1>6, <2>3 DEF Surjection
<1>8. ASSUME NEW i \in 1..n, NEW j \in 1..n, i < j PROVE key[o[i]] < key[o[j]]
  <2>1. o[i] \in S /\ o[j] \in S /\ key[o[i]] <= key[o[j]] /\ o[i] # o[j]
    BY <1>1, <1>4, <1>5, <1>8
  <2>2. key[o[i]] # key[o[j]] /\ key[o[i]] \in Nat /\ key[o[j]] \in Nat
    BY <2>1, KeysDistinct DEF Keyed
  <2> QED
    BY <2>1, <2>2
<1>9. Lists(o, S, key)
  BY <1>6, <1>7, <1>8 DEF Lists
<1> QED
  BY <1>9, ListUnique DEF o

(* a list by one key is one by another key with the same values *)
LEMMA ListSameKeys ==
    ASSUME NEW S, NEW key, NEW other, NEW h, Lists(h, S, key),
           \A x \in S : other[x] = key[x]
    PROVE  Lists(h, S, other)
<1>1. h \in Seq(S)
  BY DEF Lists
<1>2. \A i \in 1..Len(h) : h[i] \in S
  BY <1>1, ListPositions
<1>3. \A i \in 1..Len(h) : other[h[i]] = key[h[i]]
  BY <1>2
<1> QED
  BY <1>1, <1>3, Zenon DEF Lists

(* nothing is listed by the empty sequence *)
LEMMA ListEmpty ==
    ASSUME NEW key
    PROVE  Lists(<<>>, {}, key)
BY DEF Lists

(* the last member is added at the end *)
LEMMA ListAppend ==
    ASSUME NEW S, NEW key, Keyed(S, key), NEW h, Lists(h, S, key),
           NEW x, key[x] \in Nat, \A y \in S : key[y] < key[x]
    PROVE  Lists(Append(h, x), S \cup {x}, key)
<1> DEFINE g == Append(h, x)
           n == Len(h)
<1>1. /\ n \in Nat /\ \A i \in 1..n : h[i] \in S
      /\ \A y \in S : \E i \in 1..n : h[i] = y
      /\ \A i, j \in 1..n : i < j => key[h[i]] < key[h[j]]
  BY ListFacts
<1>2. h \in Seq(S)
  BY DEF Lists
<1>3. g \in Seq(S \cup {x}) /\ Len(g) = n + 1
  <2>1. h \in Seq(S \cup {x})
    BY <1>2
  <2> QED
    BY <1>2, <2>1
<1>4. g[n + 1] = x /\ \A i \in 1..n : g[i] = h[i]
  BY <1>2
<1> HIDE DEF g, n
<1>5. ASSUME NEW y \in S \cup {x} PROVE \E i \in 1..Len(g) : g[i] = y
  <2>1. CASE y = x
    BY <1>1, <1>3, <1>4, <2>1
  <2>2. CASE y \in S
    <3>1. PICK i \in 1..n : h[i] = y
      BY <1>1, <2>2
    <3>2. i \in 1..Len(g) /\ g[i] = y
      BY <1>1, <1>3, <1>4, <3>1
    <3> QED
      BY <3>2
  <2> QED
    BY <2>1, <2>2
<1>6. ASSUME NEW i \in 1..Len(g), NEW j \in 1..Len(g), i < j PROVE key[g[i]] < key[g[j]]
  <2>1. i \in 1..n /\ g[i] = h[i] /\ h[i] \in S
    BY <1>1, <1>3, <1>4, <1>6
  <2>2. CASE j = n + 1
    BY <1>4, <2>1, <2>2
  <2>3. CASE j # n + 1
    <3>1. j \in 1..n /\ g[j] = h[j]
      BY <1>1, <1>3, <1>4, <2>3
    <3>2. key[h[i]] < key[h[j]]
      BY <1>1, <1>6, <2>1, <3>1
    <3> QED
      BY <2>1, <3>1, <3>2
  <2> QED
    BY <2>2, <2>3
<1> QED
  BY <1>3, <1>5, <1>6 DEF Lists, g

(* the members of T among the first m of a list *)
Among(h, m, T) == {x \in T : \E i \in 1..Len(h) : i <= m /\ h[i] = x}

(* one member more *)
LEMMA AmongNext ==
    ASSUME NEW h, Len(h) \in Nat, NEW T, NEW m \in Nat, m + 1 <= Len(h)
    PROVE  Among(h, m + 1, T) = Among(h, m, T) \cup (IF h[m + 1] \in T THEN {h[m + 1]} ELSE {})
<1>1. m + 1 \in 1..Len(h)
  OBVIOUS
<1>2. \A i \in 1..Len(h) : i <= m + 1 <=> i <= m \/ i = m + 1
  OBVIOUS
<1> QED
  BY <1>1, <1>2 DEF Among

(* a part of a set that has a list has one *)
LEMMA PartListed ==
    ASSUME NEW S, NEW key, Keyed(S, key), NEW h, Lists(h, S, key), NEW T \in SUBSET S
    PROVE  \E g : Lists(g, T, key)
<1> DEFINE C == {m \in Nat : m <= Len(h) => \E g : Lists(g, Among(h, m, T), key)}
<1>1. /\ Len(h) \in Nat /\ \A i \in 1..Len(h) : h[i] \in S /\ key[h[i]] \in Nat
      /\ \A x \in S : key[x] \in Nat /\ \E i \in 1..Len(h) : h[i] = x
      /\ \A i, j \in 1..Len(h) : i < j => key[h[i]] < key[h[j]]
  BY ListFacts
<1>2. 0 \in C
  <2>1. Among(h, 0, T) = {}
    BY <1>1 DEF Among
  <2> QED
    BY <2>1, ListEmpty
<1>3. ASSUME NEW m \in Nat, m \in C PROVE m + 1 \in C
  <2>0. m + 1 \in Nat
    OBVIOUS
  <2>1. SUFFICES ASSUME m + 1 <= Len(h) PROVE \E g : Lists(g, Among(h, m + 1, T), key)
    BY <2>0, Zenon
  <2>2. m <= Len(h)
    BY <1>1, <2>1
  <2>3. PICK g : Lists(g, Among(h, m, T), key)
    BY <1>3, <2>2, Zenon
  <2> DEFINE x == h[m + 1]
  <2>4. m + 1 \in 1..Len(h) /\ x \in S /\ key[x] \in Nat
    BY <1>1, <2>1
  <2>5. Keyed(Among(h, m, T), key)
    BY <1>1 DEF Keyed, Among
  <2>6. \A y \in Among(h, m, T) : key[y] < key[x]
    BY <1>1, <2>4 DEF Among
  <2>7. Among(h, m + 1, T) = Among(h, m, T) \cup (IF x \in T THEN {x} ELSE {})
    BY <1>1, <2>1, AmongNext
  <2> HIDE DEF x
  <2>8. CASE x \in T
    <3>1. Lists(Append(g, x), Among(h, m, T) \cup {x}, key)
      BY <2>3, <2>4, <2>5, <2>6, ListAppend
    <3>2. Among(h, m + 1, T) = Among(h, m, T) \cup {x}
      BY <2>7, <2>8
    <3> QED
      BY <3>1, <3>2
  <2>9. CASE x \notin T
    <3>1. Among(h, m + 1, T) = Among(h, m, T)
      BY <2>7, <2>9
    <3> QED
      BY <2>3, <3>1
  <2> QED
    BY <2>8, <2>9
<1>4. Len(h) \in C
  <2> HIDE DEF C
  <2> QED
    BY <1>1, <1>2, <1>3, NatSetInduction
<1>5. Among(h, Len(h), T) = T
  BY <1>1 DEF Among
<1>6. Len(h) <= Len(h)
  BY <1>1
<1>7. \E g : Lists(g, Among(h, Len(h), T), key)
  BY <1>4, <1>6
<1> QED
  BY <1>5, <1>7

(* Ordered lists every part of a set that has a list *)
LEMMA OrderedPart ==
    ASSUME NEW S, NEW key, Keyed(S, key), NEW h, Lists(h, S, key), NEW T \in SUBSET S
    PROVE  Lists(Ordered(T, key), T, key)
<1>1. PICK g : Lists(g, T, key)
  BY PartListed
<1>2. Keyed(T, key)
  BY DEF Keyed
<1> QED
  BY <1>1, <1>2, OrderedLists

-----------------------------------------------------------------------------
(* Blocks *)

(* an interval is listed in its order *)
LEMMA IntervalListed ==
    ASSUME NEW from \in Nat, NEW to \in Nat
    PROVE  \E h : Lists(h, from..to, [n \in from..to |-> n])
<1> DEFINE len == IF from <= to THEN to - from + 1 ELSE 0
           h == [i \in 1..len |-> from + i - 1]
           key == [n \in from..to |-> n]
<1>1. len \in Nat /\ \A i \in 1..len : from + i - 1 \in from..to
  OBVIOUS
<1>2. h \in Seq(from..to) /\ Len(h) = len
  BY <1>1
<1>3. ASSUME NEW x \in from..to PROVE \E i \in 1..len : h[i] = x
  <2>1. x - from + 1 \in 1..len /\ from + (x - from + 1) - 1 = x
    OBVIOUS
  <2> QED
    BY <2>1
<1>4. \A i, j \in 1..len : i < j => key[h[i]] < key[h[j]]
  BY <1>1
<1> HIDE DEF h, len, key
<1>5. Lists(h, from..to, key)
  BY <1>2, <1>3, <1>4 DEF Lists
<1> QED
  BY <1>5 DEF key

(* the blocks with an event, in their order *)
EventBlocks(from, to) == Ordered(BlocksWithEvent(from, to), [n \in from..to |-> n])

LEMMA BlocksListed ==
    ASSUME NEW from \in Nat, NEW to \in Nat
    PROVE  Lists(EventBlocks(from, to), BlocksWithEvent(from, to), [n \in from..to |-> n])
<1> DEFINE key == [n \in from..to |-> n]
<1>1. PICK h : Lists(h, from..to, key)
  BY IntervalListed
<1>2. Keyed(from..to, key) /\ BlocksWithEvent(from, to) \in SUBSET (from..to)
  BY DEF Keyed, BlocksWithEvent
<1> HIDE DEF key
<1> QED
  BY <1>1, <1>2, OrderedPart DEF EventBlocks, key

(* one log for each block with an event, in the order of the blocks *)
Covers(logs, from, to) ==
    /\ Len(logs) \in Nat /\ DOMAIN logs = 1..Len(logs)
    /\ \A i \in 1..Len(logs) :
          /\ logs[i].block \in from..to /\ chain[logs[i].block].event # NoEvent
          /\ logs[i].event = chain[logs[i].block].event
          /\ logs[i].hash = HashAt(logs[i].block)
    /\ \A n \in from..to : chain[n].event # NoEvent =>
          \E i \in 1..Len(logs) : logs[i].block = n
    /\ \A i, j \in 1..Len(logs) : i < j => logs[i].block < logs[j].block

(* The node answers with the logs of all blocks of the range.                 *)
LEMMA LogsOfBlocks ==
    ASSUME NEW from \in Nat, NEW to \in Nat
    PROVE  Covers(LogsBetween(from, to), from, to)
<1> DEFINE logs == LogsBetween(from, to)
           b == EventBlocks(from, to)
           key == [n \in from..to |-> n]
<1>1. Lists(b, BlocksWithEvent(from, to), key)
  BY BlocksListed
<1>2. Keyed(BlocksWithEvent(from, to), key)
  BY DEF Keyed, BlocksWithEvent
<1> HIDE DEF b, key
<1>3. /\ Len(b) \in Nat /\ \A i \in 1..Len(b) : b[i] \in BlocksWithEvent(from, to)
      /\ \A n \in BlocksWithEvent(from, to) : \E i \in 1..Len(b) : b[i] = n
      /\ \A i, j \in 1..Len(b) : i < j => key[b[i]] < key[b[j]]
  BY <1>1, <1>2, ListFacts
<1>4. DOMAIN b = 1..Len(b)
  BY <1>1, ListPositions DEF Lists
<1>5. logs = [i \in 1..Len(b) |->
          [event |-> chain[b[i]].event, block |-> b[i], hash |-> HashAt(b[i])]]
  BY <1>4 DEF LogsBetween, b, EventBlocks
<1> HIDE DEF logs
<1>6. Len(logs) = Len(b) /\ DOMAIN logs = 1..Len(b)
  BY <1>3, <1>5
<1>7. \A i \in 1..Len(b) : b[i] \in from..to /\ key[b[i]] = b[i] /\ chain[b[i]].event # NoEvent
  BY <1>3 DEF BlocksWithEvent, key
<1>8. \A n \in from..to : chain[n].event # NoEvent => n \in BlocksWithEvent(from, to)
  BY DEF BlocksWithEvent
<1>9. \A i \in 1..Len(b) : /\ logs[i].block = b[i] /\ logs[i].event = chain[b[i]].event
                           /\ logs[i].hash = HashAt(b[i])
  BY <1>5
<1>10. \A i, j \in 1..Len(b) : i < j => b[i] < b[j]
  BY <1>3, <1>7
<1>11. \A n \in from..to : chain[n].event # NoEvent => \E i \in 1..Len(b) : b[i] = n
  BY <1>3, <1>8
<1>12. Covers(logs, from, to)
  <2>1. /\ Len(logs) \in Nat /\ DOMAIN logs = 1..Len(logs)
        /\ \A i \in 1..Len(logs) :
              /\ logs[i].block \in from..to /\ chain[logs[i].block].event # NoEvent
              /\ logs[i].event = chain[logs[i].block].event
              /\ logs[i].hash = HashAt(logs[i].block)
    BY <1>3, <1>6, <1>7, <1>9
  <2>2. \A n \in from..to : chain[n].event # NoEvent =>
            \E i \in 1..Len(logs) : logs[i].block = n
    BY <1>6, <1>9, <1>11
  <2>3. \A i, j \in 1..Len(logs) : i < j => logs[i].block < logs[j].block
    BY <1>6, <1>9, <1>10
  <2> QED
    BY <2>1, <2>2, <2>3, Zenon DEF Covers
<1> QED
  BY <1>12 DEF logs

-----------------------------------------------------------------------------
(* Folds *)

(* the tables after each of the first m logs *)
Projecting(f, m, db, logs) ==
    f = [n \in 0..m |-> IF n = 0 THEN db ELSE ProjectLog(f[n - 1], logs[n])]

(* the states of a fold exist *)
LEMMA ProjectingExists ==
    ASSUME NEW db, NEW logs, NEW m \in Nat
    PROVE  \E f : Projecting(f, m, db, logs)
<1> DEFINE C == {k \in Nat : \E f : Projecting(f, k, db, logs)}
<1>1. 0 \in C
  <2> DEFINE f == [n \in 0..0 |-> db]
  <2>1. f = [n \in 0..0 |-> IF n = 0 THEN db ELSE ProjectLog(f[n - 1], logs[n])]
    OBVIOUS
  <2> QED
    BY <2>1 DEF Projecting
<1>2. ASSUME NEW k \in Nat, k \in C PROVE k + 1 \in C
  <2>1. PICK f : f = [n \in 0..k |-> IF n = 0 THEN db ELSE ProjectLog(f[n - 1], logs[n])]
    BY <1>2 DEF Projecting
  <2>2. PICK last : last = ProjectLog(f[k], logs[k + 1])
    OBVIOUS
  <2> DEFINE g == [n \in 0..(k + 1) |-> IF n <= k THEN f[n] ELSE last]
  <2>3. ASSUME NEW n \in 0..(k + 1)
        PROVE  g[n] = IF n = 0 THEN db ELSE ProjectLog(g[n - 1], logs[n])
    <3>1. CASE n = 0
      <4>1. f[0] = db
        BY <2>1
      <4> QED
        BY <3>1, <4>1
    <3>2. CASE n # 0 /\ n <= k
      <4>1. f[n] = ProjectLog(f[n - 1], logs[n])
        BY <2>1, <3>2
      <4>2. g[n] = f[n] /\ g[n - 1] = f[n - 1]
        BY <3>2
      <4> QED
        BY <3>2, <4>1, <4>2
    <3>3. CASE n = k + 1
      <4>1. g[n] = last /\ g[n - 1] = f[k] /\ n # 0
        BY <3>3
      <4> QED
        BY <2>2, <3>3, <4>1
    <3> QED
      BY <3>1, <3>2, <3>3
  <2>4. g = [n \in 0..(k + 1) |-> g[n]]
    OBVIOUS
  <2> HIDE DEF g
  <2>5. Projecting(g, k + 1, db, logs)
    BY <2>3, <2>4 DEF Projecting
  <2> QED
    BY <2>5
<1>3. m \in C
  <2> HIDE DEF C
  <2> QED
    BY <1>1, <1>2, NatSetInduction
<1> QED
  BY <1>3

(* ProjectLogs takes the last of them. *)
LEMMA ProjectLogsStates ==
    ASSUME NEW db, NEW logs, Len(logs) \in Nat
    PROVE  \E f : /\ ProjectLogs(db, logs) = f[Len(logs)]
                  /\ f[0] = db
                  /\ \A n \in 1..Len(logs) : f[n] = ProjectLog(f[n - 1], logs[n])
<1> DEFINE f == CHOOSE g : g = [n \in 0..Len(logs) |->
                                  IF n = 0 THEN db ELSE ProjectLog(g[n - 1], logs[n])]
<1>1. f = [n \in 0..Len(logs) |-> IF n = 0 THEN db ELSE ProjectLog(f[n - 1], logs[n])]
  <2>1. \E g : g = [n \in 0..Len(logs) |->
                      IF n = 0 THEN db ELSE ProjectLog(g[n - 1], logs[n])]
    <3>1. PICK g : Projecting(g, Len(logs), db, logs)
      BY ProjectingExists
    <3> QED
      BY <3>1 DEF Projecting
  <2> QED
    BY <2>1
<1>2. ProjectLogs(db, logs) = f[Len(logs)]
  BY DEF ProjectLogs
<1> HIDE DEF f
<1>3. f[0] = db /\ \A n \in 1..Len(logs) : f[n] = ProjectLog(f[n - 1], logs[n])
  BY <1>1
<1> QED
  BY <1>2, <1>3

(* the tables with other effects *)
Restored(db, e) == [rows |-> db.rows, projection |-> db.projection, effects |-> e,
                    failed |-> db.failed]

(* undoing an event puts its snapshot back *)
LEMMA UndoRestores ==
    ASSUME NEW db, NEW e, NEW ev
    PROVE  UndoEvent(Restored(db, e), ev) = Restored(db, db.rows[ev].undo)
BY DEF UndoEvent, Restored

(* Undoing touches nothing but the effects, and leaves the snapshot of the    *)
(* event that is undone last.                                                 *)
LEMMA UndoEventsLast ==
    ASSUME NEW db, db = Restored(db, db.effects), NEW evs, Len(evs) \in Nat
    PROVE  UndoEvents(db, evs) =
              Restored(db, IF Len(evs) = 0 THEN db.effects ELSE db.rows[evs[Len(evs)]].undo)
<1> DEFINE states(g) == g = [n \in 0..Len(evs) |->
                               IF n = 0 THEN db ELSE UndoEvent(g[n - 1], evs[n])]
           f == CHOOSE g : states(g)
           left(n) == IF n = 0 THEN db.effects ELSE db.rows[evs[n]].undo
           u == [n \in 0..Len(evs) |-> Restored(db, left(n))]
<1>1. states(u)
  <2>1. ASSUME NEW n \in 0..Len(evs)
        PROVE  u[n] = IF n = 0 THEN db ELSE UndoEvent(u[n - 1], evs[n])
    <3>1. CASE n = 0
      BY <3>1
    <3>2. CASE n # 0
      <4>1. u[n - 1] = Restored(db, left(n - 1)) /\ u[n] = Restored(db, db.rows[evs[n]].undo)
        BY <3>2
      <4>2. UndoEvent(Restored(db, left(n - 1)), evs[n]) = Restored(db, db.rows[evs[n]].undo)
        BY UndoRestores
      <4> QED
        BY <3>2, <4>1, <4>2
    <3> QED
      BY <3>1, <3>2
  <2>2. u = [n \in 0..Len(evs) |-> u[n]]
    OBVIOUS
  <2> HIDE DEF u
  <2> QED
    BY <2>1, <2>2
<1>2. states(f)
  BY <1>1
<1>3. UndoEvents(db, evs) = f[Len(evs)]
  BY DEF UndoEvents
<1> HIDE DEF f, u
<1>4. f[0] = db /\ \A n \in 1..Len(evs) : f[n] = UndoEvent(f[n - 1], evs[n])
  BY <1>2
<1> DEFINE same == {n \in Nat : n <= Len(evs) => f[n] = Restored(db, left(n))}
<1>5. 0 \in same
  BY <1>4
<1>6. ASSUME NEW n \in Nat, n \in same PROVE n + 1 \in same
  <2>1. SUFFICES ASSUME n + 1 <= Len(evs)
                 PROVE  f[n + 1] = Restored(db, db.rows[evs[n + 1]].undo)
    OBVIOUS
  <2>2. f[n] = Restored(db, left(n))
    BY <1>6, <2>1
  <2>3. n + 1 \in 1..Len(evs) /\ f[n + 1] = UndoEvent(f[n], evs[n + 1])
    BY <1>4, <2>1
  <2> HIDE DEF left
  <2> QED
    BY <2>2, <2>3, UndoRestores
<1>7. Len(evs) \in same
  <2> HIDE DEF same
  <2> QED
    BY <1>5, <1>6, NatSetInduction
<1>8. f[Len(evs)] = Restored(db, left(Len(evs)))
  BY <1>7
<1> QED
  BY <1>3, <1>8

-----------------------------------------------------------------------------
(* The inductive invariant *)

RowType == [block : Nat, hash : Nat, canonical : BOOLEAN, undo : Seq(Events)]

(* the canonical events, and those of them in lower blocks *)
Standing(r) == {ev \in Events : r[ev].canonical}
Before(r, ev) == {x \in Standing(r) : r[x].block < r[ev].block}

(* a stored event has the hash the node has for its block *)
Matched(ev) == rows[ev].hash = HashAt(rows[ev].block)

(* nothing the worker has stored contradicts the chain *)
Clean == ~CheckpointMismatch /\ \A ev \in Standing(rows) : Matched(ev)

(* the node: each event is on the chain once, each block has a hash of its own *)
NodeOK ==
    /\ finality \in Finalities
    /\ mined \in Nat /\ Len(chain) <= MaxHeight /\ safe \in 0..Len(chain)
    /\ chain \in Seq([hash : 1..mined, event : Events \cup {NoEvent}])
    /\ \A m, n \in 1..Len(chain) :
          chain[m].event # NoEvent /\ chain[m].event = chain[n].event => m = n

(* stored events were on some fork, in a block the chain has reached *)
RowsOK ==
    /\ rows \in [Events -> RowType]
    /\ \A ev \in Standing(rows) :
          /\ rows[ev].block \in 1..Len(chain) /\ rows[ev].hash \in 1..mined
          /\ Matched(ev) => chain[rows[ev].block].event = ev
          /\ finality = "safe" => rows[ev].block <= safe

(* projection and effects list the canonical events, and each snapshot the    *)
(* canonical events in lower blocks                                           *)
Listed(r, p, e) ==
    /\ Lists(p, Standing(r), BlockOf(r))
    /\ Lists(e, Standing(r), BlockOf(r))
    /\ \A ev \in Standing(r) : Lists(r[ev].undo, Before(r, ev), BlockOf(r))

CursorOK ==
    /\ checkpoint \in [lastScanned : Nat, hash : Nat \cup {Unset}, replay : BOOLEAN]
    /\ checkpoint.lastScanned <= SafeHead /\ checkpoint.hash <= mined
    /\ finality = "latest" /\ checkpoint.hash = Unset => checkpoint.lastScanned = 0
    /\ finality = "safe" => Clean

(* rows and chain agree up to block k, where they part: the cursor is below k *)
(* unless its hash tells, and the target of a rewind always is                *)
AgreesTo(k) ==
    /\ \A n \in 1..k : chain[n].event # NoEvent =>
          /\ chain[n].event \in Standing(rows)
          /\ rows[chain[n].event].block = n /\ rows[chain[n].event].hash = chain[n].hash
    /\ \A ev \in Standing(rows) : Matched(ev) <=> rows[ev].block <= k
    /\ RewindTarget(checkpoint.lastScanned) <= k
    /\ ~CheckpointMismatch => checkpoint.lastScanned <= k

Fork == \E k \in 0..Len(chain) : AgreesTo(k)

(* the worker is about to rewind *)
Rewinding(s) == s.pc \in {"candidates", "target", "rewind"}

(* nothing was stored since the tick began *)
Fresh(s) ==
    /\ s.expected = checkpoint
    /\ s.pc # "candidates" =>
          s.stale = {ev \in Standing(rows) : ~Matched(ev) /\ rows[ev].block > s.target}

(* The rewind would mark and undo what another worker's rewind has marked and *)
(* undone before.                                                             *)
Repeats(s) ==
    /\ \A n \in 1..s.expected.lastScanned : chain[n].event # NoEvent =>
          chain[n].event \in Standing(rows) /\ rows[chain[n].event].block = n
    /\ s.pc # "candidates" =>
          /\ s.stale \subseteq Events \ Standing(rows)
          /\ Lists(Ordered(s.stale, BlockOf(rows)), s.stale, BlockOf(rows))
          /\ s.stale # {} =>
                Lists(rows[Ordered(s.stale, BlockOf(rows))[1]].undo, Standing(rows), BlockOf(rows))

(* Another worker's transaction came first: this one's will be refused, for   *)
(* good once the cursor is beyond the checkpoint that it expects or the chain *)
(* has another hash there; otherwise it repeats a rewind.                     *)
Spent(s) ==
    /\ Clean
    /\ \/ checkpoint.lastScanned > s.expected.lastScanned
       \/ s.expected.hash \notin {Unset, HashAt(s.expected.lastScanned)}
       \/ Repeats(s)

(* what a worker has read is still so *)
ReadOK(s) ==
    /\ Rewinding(s) =>
          /\ finality = "latest"
          /\ s.expected.lastScanned \in Nat /\ s.expected.lastScanned <= SafeHead
          /\ Fresh(s) \/ Spent(s)
    /\ s.pc \in {"target", "rewind"} => s.target = RewindTarget(s.expected.lastScanned)
    /\ s.pc = "rewind" => s.targetHash = HashAt(s.target)
    /\ s.pc \in {"scan", "blocks", "commit"} => Clean
    /\ s.pc \in {"blocks", "commit"} =>
          /\ s.to \in Nat /\ s.expected.lastScanned \in Nat
          /\ s.expected.lastScanned < s.to /\ s.to <= SafeHead
          /\ s.logs = LogsBetween(s.expected.lastScanned + 1, s.to)
    /\ s.pc = "commit" => s.toHash = HashAt(s.to)

(* workers that are about to rewind began from the same checkpoint *)
Together ==
    \A v, w \in Workers : Rewinding(worker[v]) /\ Rewinding(worker[w]) =>
        worker[v].expected = worker[w].expected

Reads ==
    /\ worker = [w \in Workers |-> worker[w]]
    /\ \A w \in Workers : ReadOK(worker[w])
    /\ Together

IndexerInv ==
    NodeOK /\ RowsOK /\ Listed(rows, projection, effects) /\ CursorOK /\ Fork /\ Reads

-----------------------------------------------------------------------------
(* Tables that follow the chain *)

(* the tables hold exactly the events of the chain up to block m *)
Follows(db, m) ==
    /\ db.rows \in [Events -> RowType]
    /\ \A ev \in Standing(db.rows) :
          /\ db.rows[ev].block \in 1..m /\ chain[db.rows[ev].block].event = ev
          /\ db.rows[ev].hash = chain[db.rows[ev].block].hash
    /\ \A n \in 1..m : chain[n].event # NoEvent =>
          chain[n].event \in Standing(db.rows) /\ db.rows[chain[n].event].block = n
    /\ Listed(db.rows, db.projection, db.effects)

(* blocks are keys *)
LEMMA BlocksAreKeys ==
    ASSUME NEW r \in [Events -> RowType]
    PROVE  /\ Keyed(Standing(r), BlockOf(r))
           /\ \A ev \in Events : BlockOf(r)[ev] = r[ev].block /\ r[ev].block \in Nat
BY DEF RowType, Keyed, BlockOf, Standing

(* blocks of the chain *)
LEMMA BlockFacts ==
    ASSUME NodeOK, NEW n \in 1..Len(chain)
    PROVE  /\ Len(chain) \in Nat /\ n \in DOMAIN chain /\ HashAt(n) = chain[n].hash
           /\ chain[n].hash \in 1..mined
           /\ chain[n].event \in Events \cup {NoEvent}
<1>1. chain \in Seq([hash : 1..mined, event : Events \cup {NoEvent}])
  BY DEF NodeOK
<1>2. /\ Len(chain) \in Nat /\ n \in DOMAIN chain
      /\ chain[n] \in [hash : 1..mined, event : Events \cup {NoEvent}]
  BY <1>1, ListPositions
<1> QED
  BY <1>2 DEF HashAt

(* blocks without an event change nothing *)
LEMMA FollowsOn ==
    ASSUME NEW db, NEW m \in Nat, Follows(db, m), NEW n \in Nat, m <= n,
           \A i \in (m + 1)..n : chain[i].event = NoEvent
    PROVE  Follows(db, n)
<1>1. \A i \in 1..n : i \in 1..m \/ i \in (m + 1)..n
  OBVIOUS
<1>2. \A i \in 1..m : i \in 1..n
  OBVIOUS
<1> QED
  BY <1>1, <1>2, Zenon DEF Follows

(* a log that is known already is passed over *)
LEMMA FollowsKnown ==
    ASSUME NodeOK, NEW db, NEW m \in 0..Len(chain), Follows(db, m),
           NEW log, log.block \in 1..m, log.event = chain[log.block].event,
           log.event # NoEvent, log.hash = HashAt(log.block)
    PROVE  ProjectLog(db, log) = db
<1>1. log.block \in 1..Len(chain)
  BY DEF NodeOK
<1>2. log.hash = chain[log.block].hash
  BY <1>1, BlockFacts
<1>3. log.event \in Standing(db.rows) /\ db.rows[log.event].block = log.block
  BY DEF Follows
<1>4. db.rows[log.event].canonical /\ db.rows[log.event].hash = log.hash
  BY <1>2, <1>3 DEF Follows, Standing
<1> QED
  BY <1>4 DEF ProjectLog

(* a log of the next block is folded into all tables *)
LEMMA FollowsNext ==
    ASSUME NodeOK, NEW db, ~db.failed, NEW b \in 1..Len(chain), Follows(db, b - 1),
           NEW log, log.block = b, log.event = chain[b].event,
           log.event # NoEvent, log.hash = HashAt(b)
    PROVE  Follows(ProjectLog(db, log), b) /\ ~ProjectLog(db, log).failed
<1> DEFINE r == db.rows
           ev == log.event
<1>0. /\ Len(chain) \in Nat /\ b \in Nat /\ b - 1 \in Nat /\ ev \in Events
      /\ log.hash = chain[b].hash /\ chain[b].hash \in Nat
  <2>1. chain[b].hash \in 1..mined /\ mined \in Nat
    BY BlockFacts DEF NodeOK
  <2> QED
    BY <2>1, BlockFacts
<1>1. /\ r \in [Events -> RowType]
      /\ \A x \in Standing(r) : /\ r[x].block \in 1..(b - 1) /\ chain[r[x].block].event = x
                                /\ r[x].hash = chain[r[x].block].hash
      /\ \A n \in 1..(b - 1) : chain[n].event # NoEvent =>
            chain[n].event \in Standing(r) /\ r[chain[n].event].block = n
      /\ Listed(r, db.projection, db.effects)
  BY DEF Follows
<1>2. /\ Keyed(Standing(r), BlockOf(r))
      /\ \A x \in Events : BlockOf(r)[x] = r[x].block /\ r[x].block \in Nat
  BY <1>1, BlocksAreKeys
<1>3. ev \notin Standing(r) /\ ~r[ev].canonical
  <2>1. ASSUME ev \in Standing(r) PROVE FALSE
    <3>1. r[ev].block \in 1..Len(chain) /\ r[ev].block # b /\ chain[r[ev].block].event = chain[b].event
      BY <1>0, <1>1, <2>1
    <3> QED
      BY <3>1 DEF NodeOK
  <2> QED
    BY <1>0, <2>1 DEF Standing
<1>4. History(r, 0..(b - 1)) = db.projection
  <2>1. CanonicalRows(r, 0..(b - 1)) = Standing(r)
    BY <1>0, <1>1 DEF CanonicalRows, Standing
  <2> QED
    BY <1>1, <1>2, <2>1, OrderedLists DEF History, Listed
<1>5. ev \notin ToSet(db.projection)
  <2>1. \A i \in DOMAIN db.projection : db.projection[i] \in Standing(r)
    BY <1>1, ListPositions DEF Listed, Lists
  <2> QED
    BY <1>3, <2>1 DEF ToSet
<1>6. PICK row : row = [block |-> log.block, hash |-> log.hash, canonical |-> TRUE,
                        undo |-> db.effects]
  OBVIOUS
<1>7. PICK q : q = [r EXCEPT ![ev] = row]
  OBVIOUS
<1>8. ProjectLog(db, log) = [rows |-> q, projection |-> Append(db.projection, ev),
                            effects |-> Append(db.effects, ev), failed |-> FALSE]
  BY <1>3, <1>4, <1>5, <1>6, <1>7 DEF ProjectLog
<1>9. /\ Lists(db.effects, Standing(r), BlockOf(r)) /\ Lists(db.projection, Standing(r), BlockOf(r))
      /\ \A x \in Standing(r) : Lists(r[x].undo, Before(r, x), BlockOf(r))
  BY <1>1 DEF Listed
<1>10. row \in RowType /\ row.block = b /\ row.hash = chain[b].hash /\ row.canonical
       /\ row.undo = db.effects
  <2>1. db.effects \in Seq(Events)
    <3>1. db.effects \in Seq(Standing(r)) /\ Standing(r) \subseteq Events
      BY <1>9 DEF Lists, Standing
    <3> QED
      BY <3>1
  <2> QED
    BY <1>0, <1>6, <2>1 DEF RowType
<1>11. q \in [Events -> RowType] /\ q[ev] = row /\ \A x \in Events : x # ev => q[x] = r[x]
  BY <1>0, <1>1, <1>7, <1>10
<1>12. Standing(q) = Standing(r) \cup {ev}
  BY <1>0, <1>10, <1>11 DEF Standing
<1>13. \A x \in Standing(r) : x \in Events /\ x # ev /\ q[x] = r[x] /\ r[x].block < b
  BY <1>0, <1>1, <1>3, <1>11 DEF Standing
<1>14. /\ Keyed(Standing(q), BlockOf(q))
       /\ \A x \in Events : BlockOf(q)[x] = q[x].block /\ q[x].block \in Nat
  BY <1>11, BlocksAreKeys
<1>15. \A x \in Standing(r) : BlockOf(q)[x] = BlockOf(r)[x] /\ BlockOf(q)[x] < BlockOf(q)[ev]
  BY <1>0, <1>2, <1>10, <1>11, <1>13, <1>14
<1>16. Keyed(Standing(r), BlockOf(q)) /\ BlockOf(q)[ev] \in Nat
  BY <1>0, <1>13, <1>14 DEF Keyed
<1>17. ASSUME NEW h, Lists(h, Standing(r), BlockOf(r))
       PROVE  Lists(Append(h, ev), Standing(q), BlockOf(q))
  <2>1. Lists(h, Standing(r), BlockOf(q))
    BY <1>15, <1>17, ListSameKeys
  <2>2. Lists(Append(h, ev), Standing(r) \cup {ev}, BlockOf(q))
    BY <1>15, <1>16, <2>1, ListAppend
  <2> QED
    BY <1>12, <2>2
<1>18. ASSUME NEW x \in Standing(q) PROVE Lists(q[x].undo, Before(q, x), BlockOf(q))
  <2>1. CASE x = ev
    <3>1. Before(q, x) = Standing(r)
      BY <1>0, <1>10, <1>11, <1>12, <1>13, <2>1 DEF Before
    <3>2. Lists(db.effects, Standing(r), BlockOf(q))
      BY <1>9, <1>15, ListSameKeys
    <3> QED
      BY <1>10, <1>11, <2>1, <3>1, <3>2
  <2>2. CASE x \in Standing(r)
    <3>1. Before(q, x) = Before(r, x)
      BY <1>0, <1>2, <1>10, <1>11, <1>12, <1>13, <2>2 DEF Before
    <3>2. Before(r, x) \subseteq Standing(r) /\ Lists(r[x].undo, Before(r, x), BlockOf(r))
      BY <1>9, <2>2 DEF Before
    <3>3. Lists(r[x].undo, Before(r, x), BlockOf(q))
      BY <1>15, <3>2, ListSameKeys
    <3> QED
      BY <1>13, <2>2, <3>1, <3>3
  <2> QED
    BY <1>12, <2>1, <2>2
<1>19. Listed(q, Append(db.projection, ev), Append(db.effects, ev))
  BY <1>9, <1>17, <1>18 DEF Listed
<1>20. ASSUME NEW x \in Standing(q)
       PROVE  /\ q[x].block \in 1..b /\ chain[q[x].block].event = x
              /\ q[x].hash = chain[q[x].block].hash
  <2>1. CASE x = ev
    BY <1>0, <1>10, <1>11, <2>1
  <2>2. CASE x \in Standing(r)
    BY <1>0, <1>1, <1>13, <2>2
  <2> QED
    BY <1>12, <2>1, <2>2
<1>21. ASSUME NEW n \in 1..b, chain[n].event # NoEvent
       PROVE  chain[n].event \in Standing(q) /\ q[chain[n].event].block = n
  <2>1. CASE n = b
    BY <1>10, <1>11, <1>12, <2>1
  <2>2. CASE n # b
    <3>1. n \in 1..(b - 1)
      BY <1>0, <2>2
    <3> QED
      BY <1>1, <1>12, <1>13, <1>21, <3>1
  <2> QED
    BY <2>1, <2>2
<1>22. Follows([rows |-> q, projection |-> Append(db.projection, ev),
                effects |-> Append(db.effects, ev), failed |-> FALSE], b)
  BY <1>11, <1>19, <1>20, <1>21 DEF Follows
<1> QED
  BY <1>8, <1>22

(* a failed transaction stays failed *)
LEMMA FailureStays ==
    ASSUME NEW db, db.failed, NEW log
    PROVE  ProjectLog(db, log) = db
BY DEF ProjectLog

(* Projecting the logs of a range that begins at or below the block the       *)
(* tables follow the chain to brings them to the end of the range.            *)
LEMMA FollowsRange ==
    ASSUME NodeOK, NEW db, ~db.failed, NEW k \in 0..Len(chain), Follows(db, k),
           NEW from \in Nat \ {0}, NEW to \in Nat, from <= k + 1, from <= to, to <= Len(chain),
           NEW logs, logs = LogsBetween(from, to),
           ~ProjectLogs(db, logs).failed
    PROVE  Follows(ProjectLogs(db, logs), IF k < to THEN to ELSE k)
<1> DEFINE l == Len(logs)
           next(i) == IF i < l THEN logs[i + 1].block - 1 ELSE to
           upto(i) == IF k < next(i) THEN next(i) ELSE k
<1>1. /\ l \in Nat /\ Len(chain) \in Nat /\ k \in Nat
      /\ \A i \in 1..l :
            /\ logs[i].block \in from..to /\ chain[logs[i].block].event # NoEvent
            /\ logs[i].event = chain[logs[i].block].event
            /\ logs[i].hash = HashAt(logs[i].block)
      /\ \A n \in from..to : chain[n].event # NoEvent => \E i \in 1..l : logs[i].block = n
      /\ \A i, j \in 1..l : i < j => logs[i].block < logs[j].block
  <2>1. Len(chain) \in Nat /\ k \in Nat
    BY ListPositions DEF NodeOK
  <2>2. from \in Nat
    OBVIOUS
  <2>3. Covers(logs, from, to)
    BY <2>2, LogsOfBlocks
  <2> QED
    BY <2>1, <2>3, Zenon DEF Covers
<1>2. PICK f : /\ ProjectLogs(db, logs) = f[l] /\ f[0] = db
               /\ \A n \in 1..l : f[n] = ProjectLog(f[n - 1], logs[n])
  <2>1. Len(logs) \in Nat
    BY <1>1
  <2> QED
    BY <2>1, ProjectLogsStates
<1> HIDE DEF l
<1>3. \A i \in 1..l : logs[i].block \in 1..Len(chain) /\ logs[i].block \in Nat
  BY <1>1
<1>4. \A i \in 0..l : /\ next(i) \in Nat /\ upto(i) \in Nat /\ upto(i) <= Len(chain)
                      /\ k <= upto(i) /\ next(i) <= upto(i) /\ next(i) <= to
  <2>1. ASSUME NEW i \in 0..l PROVE next(i) \in Nat /\ next(i) <= to
    <3>1. CASE i < l
      <4>1. i + 1 \in 1..l
        BY <1>1, <3>1
      <4>2. logs[i + 1].block \in from..to
        BY <1>1, <4>1
      <4> QED
        BY <3>1, <4>2
    <3>2. CASE ~(i < l)
      BY <3>2
    <3> QED
      BY <3>1, <3>2
  <2> HIDE DEF next
  <2> QED
    BY <1>1, <2>1
<1>5. ASSUME NEW i \in 0..l, NEW n \in from..next(i), chain[n].event # NoEvent
      PROVE  \E j \in 1..l : j <= i /\ logs[j].block = n
  <2>1. n \in from..to
    BY <1>1, <1>4
  <2>2. PICK j \in 1..l : logs[j].block = n
    BY <1>1, <1>5, <2>1
  <2>3. CASE j <= i
    BY <2>2, <2>3
  <2>4. CASE j > i
    <3>1. i < l /\ i + 1 \in 1..l /\ j >= i + 1
      <4>1. l \in Nat /\ i \in Nat /\ i <= l /\ j \in Nat /\ j <= l
        BY <1>1
      <4> QED
        BY <4>1, <2>4
    <3>2. logs[i + 1].block <= logs[j].block
      <4>1. CASE j = i + 1
        BY <1>3, <4>1
      <4>2. CASE j # i + 1
        BY <1>1, <1>3, <3>1, <4>2
      <4> QED
        BY <4>1, <4>2
    <3>3. next(i) = logs[i + 1].block - 1
      BY <3>1
    <3> HIDE DEF next
    <3>4. n <= next(i) /\ n \in Nat
      BY <1>4
    <3> QED
      BY <1>3, <2>2, <3>1, <3>2, <3>3, <3>4
  <2> QED
    BY <1>1, <2>3, <2>4
<1>6. ASSUME NEW i \in 0..l, NEW m \in Nat, m <= upto(i), k <= m,
             \A j \in 1..l : j <= i => logs[j].block <= m,
             NEW d, Follows(d, m)
      PROVE  Follows(d, upto(i))
  <2>1. ASSUME NEW n \in (m + 1)..upto(i) PROVE chain[n].event = NoEvent
    <3>1. n \in from..next(i)
      BY <1>1, <1>4, <1>6
    <3>2. \A j \in 1..l : j <= i => logs[j].block # n
      BY <1>3, <1>6
    <3> HIDE DEF next
    <3> QED
      BY <1>5, <3>1, <3>2
  <2> HIDE DEF upto
  <2> QED
    BY <1>4, <1>6, <2>1, FollowsOn
<1> DEFINE good == {i \in Nat : i <= l => f[i].failed \/ Follows(f[i], upto(i))}
<1>7. 0 \in good
  <2>1. Follows(f[0], upto(0))
    <3>1. 0 \in 0..l /\ k <= upto(0)
      BY <1>1, <1>4
    <3>2. \A j \in 1..l : j <= 0 => logs[j].block <= k
      BY <1>1
    <3> HIDE DEF upto
    <3> QED
      BY <1>1, <1>2, <1>6, <3>1, <3>2
  <2> QED
    BY <2>1
<1>8. ASSUME NEW i \in Nat, i \in good PROVE i + 1 \in good
  <2>0. i + 1 \in Nat
    OBVIOUS
  <2>1. SUFFICES ASSUME i + 1 <= l PROVE f[i + 1].failed \/ Follows(f[i + 1], upto(i + 1))
    BY <2>0, Zenon
  <2>2. i \in 0..l /\ i + 1 \in 0..l /\ i + 1 \in 1..l /\ i < l
    BY <1>1, <2>1
  <2>3. f[i].failed \/ Follows(f[i], upto(i))
    BY <1>8, <1>1, <2>2
  <2> DEFINE b == logs[i + 1].block
  <2>4. f[i + 1] = ProjectLog(f[i], logs[i + 1])
    BY <1>2, <2>2
  <2>5. b \in 1..Len(chain) /\ b \in Nat /\ next(i) = b - 1
    BY <1>3, <2>2
  <2>6. /\ logs[i + 1].event = chain[b].event /\ logs[i + 1].event # NoEvent
        /\ logs[i + 1].hash = HashAt(b)
    BY <1>1, <2>2
  <2>7. b <= next(i + 1)
    <3>1. CASE i + 1 < l
      <4>1. i + 1 + 1 \in 1..l
        BY <1>1, <2>2, <3>1
      <4>2. b < logs[i + 1 + 1].block /\ logs[i + 1 + 1].block \in Nat
        BY <1>1, <1>3, <2>2, <4>1
      <4> QED
        BY <2>5, <3>1, <4>2
    <3>2. CASE ~(i + 1 < l)
      BY <1>1, <2>2, <3>2
    <3> QED
      BY <3>1, <3>2
  <2>8. \A j \in 1..l : j <= i + 1 => logs[j].block <= b
    <3>1. ASSUME NEW j \in 1..l, j <= i + 1 PROVE logs[j].block <= b
      <4>1. CASE j = i + 1
        BY <2>5, <4>1
      <4>2. CASE j # i + 1
        <5>1. logs[j].block < logs[i + 1].block
          BY <1>1, <2>2, <3>1, <4>2
        <5> QED
          BY <1>3, <2>5, <5>1
      <4> QED
        BY <4>1, <4>2
    <3> QED
      BY <3>1
  <2>9. CASE f[i].failed
    BY <2>4, <2>9, FailureStays
  <2>10. CASE ~f[i].failed /\ b <= k
    <3>1. upto(i) = k
      BY <1>1, <2>5, <2>10
    <3>2. f[i + 1] = f[i]
      <4>1. Follows(f[i], k) /\ b \in 1..k
        BY <1>1, <2>3, <2>5, <2>10, <3>1
      <4> HIDE DEF b
      <4> QED
        BY <2>4, <2>6, <4>1, FollowsKnown DEF b
    <3>3. \A j \in 1..l : j <= i + 1 => logs[j].block <= k
      BY <1>1, <1>3, <2>5, <2>8, <2>10
    <3>4. Follows(f[i + 1], k)
      BY <2>3, <2>10, <3>1, <3>2
    <3>5. k <= upto(i + 1) /\ k <= k
      BY <1>1, <1>4, <2>2
    <3> HIDE DEF upto
    <3> QED
      BY <1>1, <1>6, <2>2, <3>3, <3>4, <3>5
  <2>11. CASE ~f[i].failed /\ b > k
    <3>1. upto(i) = b - 1 /\ k <= b
      <4> HIDE DEF next, b
      <4> QED
        BY <1>1, <2>5, <2>11
    <3>2. Follows(f[i], b - 1)
      BY <2>3, <2>11, <3>1
    <3>3. Follows(f[i + 1], b)
      <4> HIDE DEF b, upto
      <4> QED
        BY <2>4, <2>5, <2>6, <2>11, <3>2, FollowsNext DEF b
    <3>4. b <= upto(i + 1)
      <4>1. next(i + 1) <= upto(i + 1) /\ next(i + 1) \in Nat /\ upto(i + 1) \in Nat
        BY <1>4, <2>2
      <4> HIDE DEF next, upto, b
      <4> QED
        BY <2>5, <2>7, <4>1
    <3> HIDE DEF upto, b
    <3> QED
      BY <1>6, <2>2, <2>5, <2>8, <3>1, <3>3, <3>4
  <2> QED
    BY <1>1, <2>5, <2>9, <2>10, <2>11
<1>9. l \in good
  <2> HIDE DEF good
  <2> QED
    BY <1>1, <1>7, <1>8, NatSetInduction
<1>10. Follows(f[l], upto(l))
  <2>1. ~f[l].failed
    BY <1>2
  <2>2. l <= l
    BY <1>1
  <2> HIDE DEF upto
  <2> QED
    BY <1>9, <2>1, <2>2
<1>11. upto(l) = IF k < to THEN to ELSE k
  BY <1>1
<1> QED
  BY <1>2, <1>10, <1>11

-----------------------------------------------------------------------------
(* Steps of the node *)

(* Projecting logs that are all known already changes nothing.                *)
LEMMA KnownRange ==
    ASSUME NodeOK, NEW db, NEW from \in Nat \ {0}, NEW to \in Nat, to <= Len(chain),
           NEW logs, logs = LogsBetween(from, to),
           \A n \in from..to : chain[n].event # NoEvent =>
               /\ chain[n].event \in Standing(db.rows)
               /\ db.rows[chain[n].event].hash = HashAt(n)
    PROVE  ProjectLogs(db, logs) = db
<1>1. PICK l : l = Len(logs)
  OBVIOUS
<1>2. /\ l \in Nat
      /\ \A i \in 1..l :
            /\ logs[i].block \in from..to /\ chain[logs[i].block].event # NoEvent
            /\ logs[i].event = chain[logs[i].block].event
            /\ logs[i].hash = HashAt(logs[i].block)
  <2>1. from \in Nat
    OBVIOUS
  <2>2. Covers(logs, from, to)
    BY <2>1, LogsOfBlocks
  <2> QED
    BY <1>1, <2>2, Zenon DEF Covers
<1>3. PICK f : /\ ProjectLogs(db, logs) = f[l] /\ f[0] = db
               /\ \A n \in 1..l : f[n] = ProjectLog(f[n - 1], logs[n])
  BY <1>1, <1>2, ProjectLogsStates
<1>4. \A i \in 1..l : ProjectLog(db, logs[i]) = db
  <2>1. ASSUME NEW i \in 1..l PROVE ProjectLog(db, logs[i]) = db
    <3>1. logs[i].event \in Standing(db.rows) /\ db.rows[logs[i].event].hash = logs[i].hash
      BY <1>2
    <3> QED
      BY <3>1 DEF ProjectLog, Standing
  <2> QED
    BY <2>1
<1> DEFINE same == {n \in Nat : n <= l => f[n] = db}
<1>5. 0 \in same
  BY <1>3
<1>6. ASSUME NEW n \in Nat, n \in same PROVE n + 1 \in same
  <2>1. SUFFICES ASSUME n + 1 <= l PROVE f[n + 1] = db
    OBVIOUS
  <2>2. f[n] = db /\ n + 1 \in 1..l /\ (n + 1) - 1 = n
    BY <1>2, <1>6, <2>1
  <2> QED
    BY <1>3, <1>4, <2>2
<1>7. l \in same
  <2> HIDE DEF same
  <2> QED
    BY <1>2, <1>5, <1>6, NatSetInduction
<1> QED
  BY <1>2, <1>3, <1>7

(* finality, cursor and rows in plain numbers *)
LEMMA InvFacts ==
    ASSUME NodeOK, RowsOK, CursorOK
    PROVE  /\ Len(chain) \in Nat /\ mined \in Nat /\ safe \in Nat /\ safe <= Len(chain)
           /\ SafeHead \in Nat /\ SafeHead <= Len(chain)
           /\ checkpoint.lastScanned \in Nat /\ checkpoint.lastScanned <= SafeHead
           /\ checkpoint.lastScanned <= Len(chain)
           /\ checkpoint.hash \in Nat \cup {Unset}
           /\ finality \in {"safe", "latest"}
           /\ ReorgWindow \in Nat
           /\ RewindTarget(checkpoint.lastScanned) \in Nat
           /\ RewindTarget(checkpoint.lastScanned) <= checkpoint.lastScanned
           /\ \A ev \in Standing(rows) :
                 /\ rows[ev].block \in Nat /\ rows[ev].block \in 1..Len(chain)
                 /\ rows[ev].hash \in Nat /\ rows[ev].hash <= mined /\ rows[ev].block <= SafeHead
<1>1. /\ Len(chain) \in Nat /\ mined \in Nat /\ safe \in Nat /\ safe <= Len(chain)
      /\ finality \in {"safe", "latest"}
  BY ListPositions, IndexerAssumption DEF NodeOK
<1>2. SafeHead \in Nat /\ SafeHead <= Len(chain)
  BY <1>1 DEF SafeHead
<1>3. /\ checkpoint.lastScanned \in Nat /\ checkpoint.lastScanned <= SafeHead
      /\ checkpoint.hash \in Nat \cup {Unset}
  BY DEF CursorOK
<1>4. ReorgWindow \in Nat
  BY IndexerAssumption
<1>5. /\ RewindTarget(checkpoint.lastScanned) \in Nat
      /\ RewindTarget(checkpoint.lastScanned) <= checkpoint.lastScanned
  BY <1>3, <1>4 DEF RewindTarget
<1>6. ASSUME NEW ev \in Standing(rows)
      PROVE  /\ rows[ev].block \in Nat /\ rows[ev].block \in 1..Len(chain)
             /\ rows[ev].hash \in Nat /\ rows[ev].hash <= mined /\ rows[ev].block <= SafeHead
  <2>1. /\ rows[ev].block \in 1..Len(chain) /\ rows[ev].hash \in 1..mined
        /\ finality = "safe" => rows[ev].block <= safe
    BY DEF RowsOK
  <2> QED
    BY <1>1, <2>1 DEF SafeHead
<1> QED
  BY <1>1, <1>2, <1>3, <1>4, <1>5, <1>6

(* stored events are in blocks below the bound on heights *)
LEMMA RowsBelow ==
    ASSUME NodeOK, RowsOK
    PROVE  /\ MaxHeight \in Nat
           /\ \A ev \in Standing(rows) :
                 rows[ev].block \in 1..Len(chain) /\ rows[ev].block \in 1..MaxHeight
<1>1. MaxHeight \in Nat
  BY IndexerAssumption
<1>2. Len(chain) \in Nat /\ Len(chain) <= MaxHeight
  BY ListPositions DEF NodeOK
<1>3. \A ev \in Standing(rows) : rows[ev].block \in 1..Len(chain)
  BY DEF RowsOK
<1> QED
  BY <1>1, <1>2, <1>3

(* the logs of a range of blocks that stay on the chain *)
LEMMA SameLogs ==
    ASSUME NEW from \in Nat, NEW to \in Nat,
           \A n \in from..to : chain'[n] = chain[n] /\ HashAt(n)' = HashAt(n)
    PROVE  LogsBetween(from, to)' = LogsBetween(from, to)
<1>1. BlocksWithEvent(from, to)' = BlocksWithEvent(from, to)
  BY DEF BlocksWithEvent
<1>2. PICK b : b = EventBlocks(from, to)
  OBVIOUS
<1>3. EventBlocks(from, to)' = b
  BY <1>1, <1>2 DEF EventBlocks
<1>4. \A i \in DOMAIN b : b[i] \in from..to
  <2>1. b \in Seq(BlocksWithEvent(from, to))
    BY <1>2, BlocksListed DEF Lists
  <2>2. \A i \in DOMAIN b : b[i] \in BlocksWithEvent(from, to)
    BY <2>1, ListPositions
  <2> QED
    BY <2>2 DEF BlocksWithEvent
<1>5. LogsBetween(from, to) = [i \in DOMAIN b |->
          [event |-> chain[b[i]].event, block |-> b[i], hash |-> HashAt(b[i])]]
  BY <1>2 DEF LogsBetween, EventBlocks
<1>6. LogsBetween(from, to)' = [i \in DOMAIN b |->
          [event |-> chain'[b[i]].event, block |-> b[i], hash |-> HashAt(b[i])']]
  BY <1>3 DEF LogsBetween, EventBlocks
<1>7. \A i \in DOMAIN b :
         [event |-> chain'[b[i]].event, block |-> b[i], hash |-> HashAt(b[i])']
         = [event |-> chain[b[i]].event, block |-> b[i], hash |-> HashAt(b[i])]
  BY <1>4
<1> QED
  BY <1>5, <1>6, <1>7

(* what a step of the node may do: keep the blocks up to n, put blocks of its *)
(* own above, and advance the safe head; not beside a tick when it cuts below *)
(* the head that is scanned                                                   *)
NodeStep(n) ==
    /\ UNCHANGED <<finality, dbVars, worker, replays>>
    /\ NodeOK' /\ mined <= mined' /\ Len(chain) <= Len(chain)' /\ safe <= safe'
    /\ \A i \in 1..n : chain'[i] = chain[i]
    /\ \A i \in 1..Len(chain)' : i > n => chain'[i].hash > mined
    /\ safe <= n /\ Len(chain) <= n + ReorgWindow
    /\ finality = "latest" /\ n # Len(chain) => \A w \in Workers : worker[w] = Idle

(* hashes after a step of the node *)
LEMMA NodeStepHashes ==
    ASSUME NodeOK, NEW n \in 0..Len(chain), NodeStep(n)
    PROVE  /\ Len(chain)' \in Nat /\ mined' \in Nat
           /\ \A i \in 0..n : HashAt(i)' = HashAt(i)
           /\ \A i \in 1..Len(chain)' : i > n => HashAt(i)' > mined /\ HashAt(i)' \in Nat
<1>1. /\ Len(chain) \in Nat /\ Len(chain') \in Nat /\ mined' \in Nat /\ Len(chain) <= Len(chain')
      /\ DOMAIN chain = 1..Len(chain) /\ DOMAIN chain' = 1..Len(chain')
      /\ \A i \in 1..Len(chain') : chain'[i].hash \in Nat
  <2>1. /\ chain \in Seq([hash : 1..mined, event : Events \cup {NoEvent}])
        /\ chain' \in Seq([hash : 1..mined', event : Events \cup {NoEvent}])
        /\ mined' \in Nat /\ Len(chain) <= Len(chain')
    BY DEF NodeOK, NodeStep
  <2>2. \A i \in 1..Len(chain') : chain'[i] \in [hash : 1..mined', event : Events \cup {NoEvent}]
    BY <2>1, ListPositions
  <2> QED
    BY <2>1, <2>2, ListPositions
<1>2. ASSUME NEW i \in 0..n PROVE HashAt(i)' = HashAt(i)
  <2>1. CASE i = 0
    BY <1>1, <2>1 DEF HashAt
  <2>2. CASE i # 0
    <3>1. i \in 1..n /\ i \in DOMAIN chain /\ i \in DOMAIN chain'
      BY <1>1, <2>2
    <3>2. chain'[i] = chain[i]
      BY <3>1 DEF NodeStep
    <3> QED
      BY <3>1, <3>2 DEF HashAt
  <2> QED
    BY <2>1, <2>2
<1>3. ASSUME NEW i \in 1..Len(chain'), i > n PROVE HashAt(i)' > mined /\ HashAt(i)' \in Nat
  <2>1. chain'[i].hash > mined
    BY <1>3 DEF NodeStep
  <2> QED
    BY <1>1, <2>1 DEF HashAt
<1> QED
  BY <1>1, <1>2, <1>3

(* where stored events match after a step of the node *)
LEMMA NodeStepMatches ==
    ASSUME NodeOK, RowsOK, CursorOK, NEW n \in 0..Len(chain), NodeStep(n), NEW ev \in Standing(rows)
    PROVE  Matched(ev)' <=> rows[ev].block <= n /\ Matched(ev)
<1>1. /\ rows[ev].block \in 1..Len(chain) /\ rows[ev].hash \in Nat /\ rows[ev].hash <= mined
      /\ mined \in Nat /\ rows' = rows /\ Len(chain) \in Nat
      /\ Len(chain') \in Nat /\ Len(chain) <= Len(chain')
  BY InvFacts, NodeStepHashes DEF NodeStep, dbVars
<1>2. PICK b : b = rows[ev].block
  OBVIOUS
<1>3. /\ Matched(ev)' <=> rows[ev].hash = HashAt(b)'
      /\ Matched(ev) <=> rows[ev].hash = HashAt(b)
  BY <1>1, <1>2 DEF Matched
<1>4. CASE b <= n
  <2>1. HashAt(b)' = HashAt(b)
    BY <1>1, <1>2, <1>4, NodeStepHashes
  <2> QED
    BY <1>2, <1>3, <1>4, <2>1
<1>5. CASE b > n
  <2>1. b \in 1..Len(chain)'
    BY <1>1, <1>2
  <2>2. HashAt(b)' > mined /\ HashAt(b)' \in Nat
    BY <1>5, <2>1, NodeStepHashes
  <2> QED
    BY <1>1, <1>2, <1>3, <1>5, <2>2
<1> QED
  BY <1>1, <1>2, <1>4, <1>5

(* a step that keeps the scanned head keeps what the worker has stored true *)
LEMMA NodeStepClean ==
    ASSUME NodeOK, RowsOK, CursorOK, NEW n \in 0..Len(chain), NodeStep(n), SafeHead <= n
    PROVE  /\ Clean => Clean'
           /\ \A ev \in Standing(rows) : Matched(ev)' <=> Matched(ev)
           /\ \A i \in 0..SafeHead : HashAt(i)' = HashAt(i)
           /\ \A a, b \in Nat : 0 < a /\ b <= SafeHead =>
                 LogsBetween(a, b)' = LogsBetween(a, b)
<1>1. /\ SafeHead \in Nat /\ rows' = rows /\ checkpoint' = checkpoint /\ n \in Nat
      /\ checkpoint.lastScanned \in 0..SafeHead
      /\ \A ev \in Standing(rows) : rows[ev].block \in Nat /\ rows[ev].block <= SafeHead
  BY InvFacts DEF NodeStep, dbVars
<1>2. \A i \in 0..SafeHead : HashAt(i)' = HashAt(i)
  <2>1. \A i \in 0..SafeHead : i \in 0..n
    BY <1>1
  <2> QED
    BY <2>1, NodeStepHashes
<1>3. \A ev \in Standing(rows) : Matched(ev)' <=> Matched(ev)
  <2>1. ASSUME NEW ev \in Standing(rows) PROVE Matched(ev)' <=> Matched(ev)
    <3>1. rows[ev].block <= n
      BY <1>1
    <3> QED
      BY <3>1, NodeStepMatches
  <2> QED
    BY <2>1
<1>4. CheckpointMismatch' <=> CheckpointMismatch
  BY <1>1, <1>2 DEF CheckpointMismatch
<1>5. Standing(rows)' = Standing(rows)
  BY <1>1 DEF Standing
<1>6. Clean => Clean'
  BY <1>3, <1>4, <1>5 DEF Clean
<1>7. ASSUME NEW a \in Nat, NEW b \in Nat, 0 < a, b <= SafeHead
      PROVE  LogsBetween(a, b)' = LogsBetween(a, b)
  <2>1. \A i \in a..b : i \in 1..n /\ i \in 0..SafeHead
    BY <1>1, <1>7
  <2>2. \A i \in a..b : chain'[i] = chain[i] /\ HashAt(i)' = HashAt(i)
    BY <1>2, <2>1 DEF NodeStep
  <2> QED
    BY <2>2, SameLogs
<1> QED
  BY <1>2, <1>3, <1>6, <1>7

(* A step of the node preserves the invariant.                                *)
LEMMA NodeStepInv ==
    ASSUME IndexerInv, NEW n \in 0..Len(chain), NodeStep(n)
    PROVE  IndexerInv'
<1>1. NodeOK /\ RowsOK /\ Listed(rows, projection, effects) /\ CursorOK /\ Fork /\ Reads
  BY DEF IndexerInv
<1>2. /\ finality' = finality /\ rows' = rows /\ projection' = projection /\ effects' = effects
      /\ checkpoint' = checkpoint /\ worker' = worker
      /\ NodeOK' /\ mined <= mined' /\ Len(chain) <= Len(chain)' /\ safe <= safe' /\ safe <= n
  BY DEF NodeStep, dbVars
<1>3. /\ n \in Nat /\ Len(chain)' \in Nat /\ mined' \in Nat /\ safe' \in Nat
      /\ Standing(rows)' = Standing(rows) /\ \A i \in Nat : RewindTarget(i)' = RewindTarget(i)
  <2>1. n \in Nat /\ Len(chain)' \in Nat /\ mined' \in Nat
    BY <1>1, InvFacts, NodeStepHashes
  <2> QED
    BY <1>2, <2>1 DEF Standing, RewindTarget, NodeOK
<1>4. RowsOK'
  <2>1. ASSUME NEW ev \in Standing(rows)
        PROVE  /\ rows[ev].block \in 1..Len(chain)' /\ rows[ev].hash \in 1..mined'
               /\ Matched(ev)' => chain'[rows[ev].block].event = ev
               /\ finality = "safe" => rows[ev].block <= safe'
    <3>1. /\ rows[ev].block \in 1..Len(chain) /\ rows[ev].hash \in 1..mined
          /\ Matched(ev) => chain[rows[ev].block].event = ev
          /\ finality = "safe" => rows[ev].block <= safe
      BY <1>1 DEF RowsOK
    <3>2. Len(chain) \in Nat /\ mined \in Nat /\ safe \in Nat
      BY <1>1, InvFacts
    <3>3. Matched(ev)' => chain'[rows[ev].block].event = ev
      <4>1. SUFFICES ASSUME Matched(ev)' PROVE chain'[rows[ev].block].event = ev
        OBVIOUS
      <4>2. rows[ev].block <= n /\ Matched(ev)
        BY <1>1, <4>1, NodeStepMatches
      <4>3. rows[ev].block \in 1..n
        BY <3>1, <4>2
      <4> QED
        BY <3>1, <4>2, <4>3 DEF NodeStep
    <3> QED
      BY <1>2, <1>3, <3>1, <3>2, <3>3
  <2>2. rows \in [Events -> RowType]
    BY <1>1 DEF RowsOK
  <2> QED
    BY <1>2, <1>3, <2>1, <2>2 DEF RowsOK
<1>5. Listed(rows, projection, effects)'
  BY <1>1, <1>2
<1>6. SafeHead \in Nat /\ SafeHead' \in Nat /\ SafeHead <= SafeHead'
  <2>1. Len(chain) \in Nat /\ safe \in Nat
    BY <1>1, InvFacts
  <2> QED
    BY <1>2, <1>3, <2>1 DEF SafeHead
<1>7. finality = "safe" => SafeHead <= n
  BY <1>1, <1>2, InvFacts DEF SafeHead
<1>8. CursorOK'
  <2>1. /\ checkpoint \in [lastScanned : Nat, hash : Nat \cup {Unset}, replay : BOOLEAN]
        /\ checkpoint.lastScanned \in Nat /\ checkpoint.lastScanned <= SafeHead
        /\ checkpoint.hash \in Nat \cup {Unset} /\ checkpoint.hash <= mined /\ mined \in Nat
        /\ finality = "latest" /\ checkpoint.hash = Unset => checkpoint.lastScanned = 0
    BY <1>1, InvFacts DEF CursorOK
  <2>2. finality = "safe" => Clean'
    <3>1. ASSUME finality = "safe" PROVE Clean'
      <4>1. Clean /\ SafeHead <= n
        BY <1>1, <1>7, <3>1 DEF CursorOK
      <4> QED
        BY <1>1, <4>1, NodeStepClean
    <3> QED
      BY <3>1
  <2>3. checkpoint.lastScanned <= SafeHead'
    BY <1>6, <2>1
  <2>4. checkpoint.hash <= mined'
    BY <1>2, <1>3, <2>1 DEF Unset
  <2> QED
    BY <1>2, <2>1, <2>2, <2>3, <2>4 DEF CursorOK, Unset
<1>9. Fork'
  <2>1. PICK k \in 0..Len(chain) : AgreesTo(k)
    BY <1>1 DEF Fork
  <2>2. PICK m : m = IF k <= n THEN k ELSE n
    OBVIOUS
  <2>3. /\ m \in 0..Len(chain) /\ m \in 0..Len(chain)' /\ m <= k /\ m <= n
        /\ k \in Nat /\ m \in Nat /\ Len(chain) \in Nat
    BY <1>1, <1>2, <1>3, <2>2, InvFacts
  <2>4. ASSUME NEW i \in 1..m, chain'[i].event # NoEvent
        PROVE  /\ chain'[i].event \in Standing(rows)
               /\ rows[chain'[i].event].block = i /\ rows[chain'[i].event].hash = chain'[i].hash
    <3>1. i \in 1..k /\ i \in 1..n
      BY <1>3, <2>3
    <3>2. chain'[i] = chain[i]
      BY <3>1 DEF NodeStep
    <3> QED
      BY <2>1, <2>4, <3>1, <3>2 DEF AgreesTo
  <2>5. ASSUME NEW ev \in Standing(rows) PROVE Matched(ev)' <=> rows[ev].block <= m
    <3>1. Matched(ev)' <=> rows[ev].block <= n /\ Matched(ev)
      BY <1>1, NodeStepMatches
    <3>2. Matched(ev) <=> rows[ev].block <= k
      BY <2>1 DEF AgreesTo
    <3>3. rows[ev].block \in Nat
      BY <1>1, InvFacts
    <3> QED
      BY <1>3, <2>2, <2>3, <3>1, <3>2, <3>3
  <2>6. RewindTarget(checkpoint.lastScanned) <= m
    <3>1. /\ RewindTarget(checkpoint.lastScanned) \in Nat
          /\ RewindTarget(checkpoint.lastScanned) <= k
      BY <1>1, <2>1, InvFacts DEF AgreesTo
    <3>2. RewindTarget(checkpoint.lastScanned) <= n
      <4>1. /\ ReorgWindow \in Nat /\ checkpoint.lastScanned \in Nat
            /\ checkpoint.lastScanned <= Len(chain) /\ Len(chain) <= n + ReorgWindow
        BY <1>1, InvFacts DEF NodeStep
      <4> QED
        BY <1>3, <2>3, <4>1 DEF RewindTarget
    <3> QED
      BY <2>2, <3>1, <3>2
  <2>7. ~CheckpointMismatch' => checkpoint.lastScanned <= m
    <3>1. SUFFICES ASSUME ~CheckpointMismatch', ~(checkpoint.lastScanned <= m) PROVE FALSE
      OBVIOUS
    <3>2. PICK l : l = checkpoint.lastScanned
      OBVIOUS
    <3>3. /\ l \in Nat /\ l <= SafeHead /\ l <= Len(chain) /\ l > m
          /\ checkpoint.hash \in Nat \cup {Unset} /\ checkpoint.hash <= mined /\ mined \in Nat
          /\ finality \in {"safe", "latest"}
          /\ finality = "latest" /\ checkpoint.hash = Unset => l = 0
      BY <1>1, <2>3, <3>1, <3>2, InvFacts DEF CursorOK
    <3>4. checkpoint.hash = Unset \/ checkpoint.hash = HashAt(l)'
      BY <1>2, <3>1, <3>2 DEF CheckpointMismatch
    <3>5. CASE l <= n
      <4>1. HashAt(l)' = HashAt(l)
        BY <1>1, <3>3, <3>5, NodeStepHashes
      <4>2. ~CheckpointMismatch
        BY <3>2, <3>4, <4>1 DEF CheckpointMismatch
      <4>3. l <= k
        BY <2>1, <3>2, <4>2 DEF AgreesTo
      <4> QED
        BY <1>3, <2>2, <2>3, <3>3, <3>5, <4>3
    <3>6. CASE l > n
      <4>1. l \in 1..Len(chain)'
        BY <1>2, <1>3, <2>3, <3>3, <3>6
      <4>2. HashAt(l)' > mined /\ HashAt(l)' \in Nat
        BY <1>1, <3>6, <4>1, NodeStepHashes
      <4>3. checkpoint.hash = Unset
        BY <3>3, <3>4, <4>2
      <4>4. finality = "safe"
        BY <2>3, <3>3, <4>3
      <4> QED
        BY <1>3, <1>6, <1>7, <3>3, <3>6, <4>4
    <3> QED
      BY <1>3, <3>3, <3>5, <3>6
  <2>8. AgreesTo(m)'
    BY <1>2, <1>3, <2>4, <2>5, <2>6, <2>7 DEF AgreesTo, Standing, RewindTarget
  <2> QED
    BY <2>3, <2>8 DEF Fork
<1>10. Reads'
  <2>1. ASSUME NEW w \in Workers PROVE ReadOK(worker[w])'
    <3>1. PICK s : s = worker[w]
      OBVIOUS
    <3>2. ReadOK(s)
      BY <1>1, <3>1 DEF Reads
    <3>3. CASE s = Idle
      BY <1>2, <3>1, <3>3 DEF ReadOK, Rewinding, Idle
    <3>4. CASE s # Idle
      <4>1. SafeHead <= n
        <5>1. CASE finality = "safe"
          BY <1>7, <5>1
        <5>2. CASE finality = "latest"
          <6>1. n = Len(chain)
            BY <3>1, <3>4, <5>2 DEF NodeStep
          <6> QED
            BY <1>1, <6>1, InvFacts
        <5> QED
          BY <1>1, <5>1, <5>2, InvFacts
      <4>2. /\ Clean => Clean'
            /\ \A ev \in Standing(rows) : Matched(ev)' <=> Matched(ev)
            /\ \A i \in 0..SafeHead : HashAt(i)' = HashAt(i)
            /\ \A a, b \in Nat : 0 < a /\ b <= SafeHead =>
                  LogsBetween(a, b)' = LogsBetween(a, b)
        BY <1>1, <4>1, NodeStepClean
      <4>4. /\ Rewinding(s) =>
                  /\ finality = "latest"
                  /\ s.expected.lastScanned \in Nat /\ s.expected.lastScanned <= SafeHead
                  /\ Fresh(s) \/ Spent(s)
            /\ s.pc \in {"target", "rewind"} => s.target = RewindTarget(s.expected.lastScanned)
            /\ s.pc = "rewind" => s.targetHash = HashAt(s.target)
            /\ s.pc \in {"scan", "blocks", "commit"} => Clean
            /\ s.pc \in {"blocks", "commit"} =>
                  /\ s.to \in Nat /\ s.expected.lastScanned \in Nat
                  /\ s.expected.lastScanned < s.to /\ s.to <= SafeHead
                  /\ s.logs = LogsBetween(s.expected.lastScanned + 1, s.to)
            /\ s.pc = "commit" => s.toHash = HashAt(s.to)
        BY <3>2 DEF ReadOK
      <4>5. Rewinding(s) => s.expected.lastScanned <= SafeHead' /\ (Fresh(s) \/ Spent(s))'
        <5>1. SUFFICES ASSUME Rewinding(s)
                       PROVE  s.expected.lastScanned <= SafeHead' /\ (Fresh(s) \/ Spent(s))'
          OBVIOUS
        <5>2. CASE Fresh(s)
          <6>1. Fresh(s)'
            BY <1>2, <1>3, <4>2, <5>2 DEF Fresh
          <6> QED
            BY <1>6, <4>4, <5>1, <6>1
        <5>3. CASE Spent(s)
          <6>1. PICK l : l = s.expected.lastScanned
            OBVIOUS
          <6>2. l \in 0..SafeHead /\ HashAt(l)' = HashAt(l) /\ Clean'
            BY <1>6, <4>2, <4>4, <5>1, <5>3, <6>1 DEF Spent
          <6>3. \A i \in 1..l : chain'[i] = chain[i]
            <7>1. \A i \in 1..l : i \in 1..n
              BY <1>3, <1>6, <4>1, <6>2
            <7> QED
              BY <7>1 DEF NodeStep
          <6>4. Repeats(s) => Repeats(s)'
            BY <1>2, <1>3, <6>1, <6>3 DEF Repeats
          <6>5. Spent(s)'
            BY <1>2, <5>3, <6>1, <6>2, <6>4 DEF Spent
          <6> QED
            BY <1>6, <4>4, <5>1, <6>5
        <5> QED
          BY <4>4, <5>1, <5>2, <5>3
      <4>6. s.pc = "rewind" => s.targetHash = HashAt(s.target)'
        <5>1. SUFFICES ASSUME s.pc = "rewind" PROVE HashAt(s.target)' = HashAt(s.target)
          BY <4>4
        <5>2. s.target \in 0..SafeHead
          <6>1. /\ s.target = RewindTarget(s.expected.lastScanned) /\ ReorgWindow \in Nat
                /\ s.expected.lastScanned \in Nat /\ s.expected.lastScanned <= SafeHead
            BY <1>1, <4>4, <5>1, InvFacts DEF Rewinding
          <6> QED
            BY <1>6, <6>1 DEF RewindTarget
        <5> QED
          BY <4>2, <5>2
      <4>7. s.pc \in {"blocks", "commit"} =>
               /\ s.to <= SafeHead'
               /\ s.logs = LogsBetween(s.expected.lastScanned + 1, s.to)'
        <5>1. SUFFICES ASSUME s.pc \in {"blocks", "commit"}
                       PROVE  /\ s.to <= SafeHead'
                              /\ s.logs = LogsBetween(s.expected.lastScanned + 1, s.to)'
          OBVIOUS
        <5>2. /\ s.to \in Nat /\ s.expected.lastScanned \in Nat /\ s.to <= SafeHead
              /\ s.logs = LogsBetween(s.expected.lastScanned + 1, s.to)
          BY <4>4, <5>1
        <5>3. PICK a \in Nat : a = s.expected.lastScanned + 1 /\ 0 < a
          BY <5>2
        <5>4. LogsBetween(a, s.to)' = LogsBetween(a, s.to)
          BY <4>2, <5>2, <5>3
        <5> QED
          BY <1>6, <5>2, <5>3, <5>4
      <4>8. s.pc = "commit" => s.toHash = HashAt(s.to)'
        BY <1>6, <4>2, <4>4
      <4>9. ReadOK(s)'
        BY <1>2, <4>2, <4>4, <4>5, <4>6, <4>7, <4>8 DEF ReadOK, Rewinding, RewindTarget
      <4> QED
        BY <1>2, <3>1, <4>9
    <3> QED
      BY <3>3, <3>4
  <2>2. Together'
    BY <1>1, <1>2 DEF Reads, Together, Rewinding
  <2> QED
    BY <1>1, <1>2, <2>1, <2>2 DEF Reads
<1> QED
  BY <1>2, <1>4, <1>5, <1>8, <1>9, <1>10 DEF IndexerInv

(* sequences over a larger set, and with one more member *)
LEMMA SeqWider ==
    ASSUME NEW A, NEW B, A \subseteq B, NEW s \in Seq(A)
    PROVE  s \in Seq(B)
OBVIOUS

LEMMA AppendFacts ==
    ASSUME NEW A, NEW s \in Seq(A), NEW x \in A
    PROVE  /\ Append(s, x) \in Seq(A) /\ Len(s) \in Nat /\ Len(Append(s, x)) = Len(s) + 1
           /\ Append(s, x)[Len(s) + 1] = x
           /\ \A i \in 1..Len(s) : Append(s, x)[i] = s[i] /\ s[i] \in A
OBVIOUS

(* the beginning of a sequence *)
LEMMA PrefixFacts ==
    ASSUME NEW A, NEW s \in Seq(A), NEW n \in 0..Len(s)
    PROVE  /\ SubSeq(s, 1, n) \in Seq(A) /\ Len(SubSeq(s, 1, n)) = n
           /\ \A i \in 1..n : SubSeq(s, 1, n)[i] = s[i]
OBVIOUS

(* a function on 1..n is a sequence *)
LEMMA AsSequence ==
    ASSUME NEW A, NEW n \in Nat, NEW f \in [1..n -> A]
    PROVE  f \in Seq(A) /\ Len(f) = n
<1>1. f \in Seq(A)
  OBVIOUS
<1>2. Len(f) \in Nat /\ DOMAIN f = 1..Len(f) /\ DOMAIN f = 1..n
  BY <1>1, ListPositions
<1>3. \A m, l \in Nat : 1..m = 1..l => m = l
  <2>1. ASSUME NEW m \in Nat, NEW l \in Nat, 1..m = 1..l PROVE m <= l
    <3>1. CASE m = 0
      BY <3>1
    <3>2. CASE m # 0
      <4>1. m \in 1..m
        BY <3>2
      <4>2. m \in 1..l
        BY <2>1, <4>1
      <4> QED
        BY <4>2
    <3> QED
      BY <3>1, <3>2
  <2>2. ASSUME NEW m \in Nat, NEW l \in Nat, 1..m = 1..l PROVE m = l
    <3>1. m <= l /\ l <= m
      BY <2>1, <2>2
    <3> QED
      BY <3>1
  <2> QED
    BY <2>2
<1> QED
  BY <1>1, <1>2, <1>3

(* one sequence after another *)
LEMMA ConcatFacts ==
    ASSUME NEW A, NEW s \in Seq(A), NEW t \in Seq(A)
    PROVE  /\ s \o t \in Seq(A) /\ Len(s \o t) = Len(s) + Len(t)
           /\ \A i \in 1..Len(s) : (s \o t)[i] = s[i]
           /\ \A i \in 1..(Len(s) + Len(t)) : i > Len(s) => (s \o t)[i] = t[i - Len(s)]
OBVIOUS

(* what the node's own actions change is what NodeStep allows *)
LEMMA MineIsNodeStep ==
    ASSUME NodeOK, NEW event \in Events \cup {NoEvent}, Mine(event)
    PROVE  NodeStep(Len(chain)) /\ Len(chain) \in 0..Len(chain)
<1>1. PICK c : c = chain'
  OBVIOUS
<1>2. /\ chain \in Seq([hash : 1..mined, event : Events \cup {NoEvent}])
      /\ mined \in Nat /\ safe \in 0..Len(chain) /\ Len(chain) \in Nat
      /\ c = Append(chain, [hash |-> mined + 1, event |-> event])
      /\ mined' = mined + 1 /\ safe' = safe /\ finality' = finality
      /\ Len(chain) < MaxHeight /\ event \notin EventsOn(chain)
  BY <1>1, ListPositions DEF Mine, NodeOK
<1>3. PICK l : l = Len(chain)
  OBVIOUS
<1>14. PICK A, B : /\ A = [hash : 1..mined, event : Events \cup {NoEvent}]
                   /\ B = [hash : 1..(mined + 1), event : Events \cup {NoEvent}]
  OBVIOUS
<1>15. A \subseteq B /\ [hash |-> mined + 1, event |-> event] \in B
  BY <1>2, <1>14
<1>16. PICK x : x = [hash |-> mined + 1, event |-> event]
  OBVIOUS
<1>17. chain \in Seq(A) /\ x \in B /\ c = Append(chain, x)
  BY <1>2, <1>14, <1>15, <1>16
<1>18. chain \in Seq(B)
  BY <1>15, <1>17, SeqWider
<1>19. /\ c \in Seq(B) /\ l \in Nat /\ Len(c) = l + 1 /\ c[l + 1] = x
       /\ \A i \in 1..l : c[i] = chain[i]
  BY <1>3, <1>17, <1>18, AppendFacts
<1>4. /\ l \in Nat /\ Len(c) = l + 1 /\ c[l + 1] = [hash |-> mined + 1, event |-> event]
      /\ \A i \in 1..l : c[i] = chain[i]
  BY <1>16, <1>19
<1>5. c \in Seq([hash : 1..(mined + 1), event : Events \cup {NoEvent}])
  BY <1>14, <1>19
<1>6. \A i \in 1..l : chain[i].event # NoEvent => chain[i].event # event
  <2>1. \A i \in 1..l : i \in DOMAIN chain
    BY <1>2, <1>3
  <2> QED
    BY <1>2, <2>1 DEF EventsOn
<1>7. ASSUME NEW i \in 1..Len(c), NEW j \in 1..Len(c), c[i].event # NoEvent, c[i].event = c[j].event
      PROVE  i = j
  <2>1. \A k \in 1..Len(c) : k \in 1..l \/ k = l + 1
    BY <1>4
  <2>2. CASE i \in 1..l /\ j \in 1..l
    BY <1>3, <1>4, <1>7, <2>2 DEF NodeOK
  <2>3. CASE i = l + 1 /\ j \in 1..l
    BY <1>4, <1>6, <1>7, <2>3
  <2>4. CASE i \in 1..l /\ j = l + 1
    BY <1>4, <1>6, <1>7, <2>4
  <2> QED
    BY <2>1, <2>2, <2>3, <2>4
<1>8. Len(c) <= MaxHeight /\ MaxHeight \in Nat
  BY <1>2, <1>3, <1>4, IndexerAssumption
<1>9. NodeOK'
  <2>1. finality \in Finalities
    BY DEF NodeOK
  <2>2. safe \in 0..Len(c) /\ mined + 1 \in Nat
    BY <1>2, <1>3, <1>4
  <2> QED
    BY <1>1, <1>2, <1>5, <1>7, <1>8, <2>1, <2>2 DEF NodeOK
<1>10. /\ UNCHANGED <<finality, dbVars, worker, replays>>
       /\ mined <= mined' /\ Len(chain) <= Len(chain)' /\ safe <= safe'
  BY <1>1, <1>2, <1>3, <1>4 DEF Mine
<1>11. \A i \in 1..Len(chain)' : i > Len(chain) => chain'[i].hash > mined
  <2>1. \A i \in 1..Len(c) : i > l => i = l + 1
    BY <1>4
  <2>2. c[l + 1].hash > mined
    BY <1>2, <1>4
  <2> QED
    BY <1>1, <1>3, <2>1, <2>2
<1>12. safe <= Len(chain) /\ Len(chain) <= Len(chain) + ReorgWindow /\ Len(chain) \in 0..Len(chain)
  BY <1>2, IndexerAssumption
<1>13. \A i \in 1..Len(chain) : chain'[i] = chain[i]
  BY <1>1, <1>3, <1>4
<1> QED
  BY <1>9, <1>10, <1>11, <1>12, <1>13 DEF NodeStep

LEMMA ReorganiseIsNodeStep ==
    ASSUME NodeOK, finality = "latest" => QuietTicks, NEW n \in 0..(Len(chain) - 1),
           NEW moved \in [1..(Len(chain) - n) -> Events \cup {NoEvent}], Reorganise(n, moved)
    PROVE  NodeStep(n) /\ n \in 0..Len(chain)
<1> DEFINE top == [i \in DOMAIN moved |-> [hash |-> mined + i, event |-> moved[i]]]
           kept == SubSeq(chain, 1, n)
<1>1. PICK c : c = chain'
  OBVIOUS
<1>2. PICK l : l = Len(chain)
  OBVIOUS
<1>3. /\ chain \in Seq([hash : 1..mined, event : Events \cup {NoEvent}])
      /\ mined \in Nat /\ safe \in 0..l /\ l \in Nat /\ n \in Nat /\ n <= l
      /\ l <= MaxHeight /\ finality \in Finalities
      /\ \A i, j \in 1..l : chain[i].event # NoEvent /\ chain[i].event = chain[j].event => i = j
  BY <1>2, ListPositions DEF NodeOK
<1>20. PICK d : d = l - n
  OBVIOUS
<1>21. d \in Nat /\ d = Len(chain) - n
  BY <1>2, <1>3, <1>20
<1>22. moved \in [1..d -> Events \cup {NoEvent}]
  BY <1>21
<1>4. /\ DOMAIN moved = 1..(l - n) /\ \A i \in 1..(l - n) : moved[i] \in Events \cup {NoEvent}
      /\ l - n \in Nat
  BY <1>20, <1>21, <1>22
<1>5. Len(moved) = l - n
  BY <1>2 DEF Reorganise
<1>6. /\ n >= safe /\ n + ReorgWindow >= l
      /\ \A i, j \in DOMAIN moved : moved[i] # NoEvent =>
            moved[i] \notin EventsOn(kept) /\ (i # j => moved[i] # moved[j])
      /\ c = kept \o top /\ mined' = mined + (l - n)
      /\ UNCHANGED <<finality, safe, dbVars, worker, replays>> /\ MayReorganise
  BY <1>1, <1>2, <1>5 DEF Reorganise
<1>23. PICK A, B : /\ A = [hash : 1..mined, event : Events \cup {NoEvent}]
                   /\ B = [hash : 1..(mined + d), event : Events \cup {NoEvent}]
  OBVIOUS
<1>24. A \subseteq B /\ \A i \in 1..d : [hash |-> mined + i, event |-> moved[i]] \in B
  <2>1. mined \in Nat /\ mined + d \in Nat /\ 1..mined \subseteq 1..(mined + d)
    BY <1>3, <1>21
  <2>2. A \subseteq B
    BY <1>23, <2>1
  <2>3. \A i \in 1..d : mined + i \in 1..(mined + d) /\ moved[i] \in Events \cup {NoEvent}
    BY <1>21, <1>22, <2>1
  <2> QED
    BY <1>23, <2>2, <2>3
<1>25. chain \in Seq(A) /\ n \in 0..Len(chain)
  BY <1>2, <1>3, <1>23
<1>7. kept \in Seq(A) /\ Len(kept) = n /\ \A i \in 1..n : kept[i] = chain[i]
  BY <1>25, PrefixFacts
<1>26. top \in [1..d -> B] /\ \A i \in 1..d : top[i].hash = mined + i /\ top[i].event = moved[i]
  BY <1>4, <1>20, <1>24
<1> HIDE DEF top, kept
<1>27. top \in Seq(B) /\ Len(top) = d
  <2>1. d \in Nat /\ top \in [1..d -> B]
    BY <1>21, <1>26
  <2> QED
    BY <2>1, AsSequence, Zenon
<1>28. kept \in Seq(B)
  BY <1>7, <1>24, SeqWider
<1>29. /\ c \in Seq(B) /\ Len(c) = n + d /\ \A i \in 1..n : c[i] = kept[i]
       /\ \A i \in 1..(n + d) : i > n => c[i] = top[i - n]
  <2>1. /\ kept \o top \in Seq(B) /\ Len(kept \o top) = Len(kept) + Len(top)
        /\ \A i \in 1..Len(kept) : (kept \o top)[i] = kept[i]
        /\ \A i \in 1..(Len(kept) + Len(top)) : i > Len(kept) => (kept \o top)[i] = top[i - Len(kept)]
    BY <1>27, <1>28, ConcatFacts
  <2> QED
    BY <1>6, <1>7, <1>27, <2>1
<1>9. /\ Len(c) = l /\ \A i \in 1..n : c[i] = chain[i]
      /\ \A i \in 1..l : i > n => c[i] = top[i - n]
  <2>1. l = n + d /\ n \in Nat /\ d \in Nat
    BY <1>3, <1>20, <1>21
  <2> QED
    BY <1>7, <1>29, <2>1
<1>10. c \in Seq([hash : 1..(mined + (l - n)), event : Events \cup {NoEvent}])
  BY <1>20, <1>23, <1>29
<1>11. \A i \in 1..n : chain[i].event # NoEvent => chain[i].event \in EventsOn(kept)
  <2>1. \A i \in 1..n : i \in DOMAIN kept
    BY <1>3, <1>7
  <2> QED
    BY <1>7, <2>1 DEF EventsOn
<1>12. \A i \in 1..l : i > n => /\ i - n \in DOMAIN moved /\ c[i].event = moved[i - n]
                               /\ c[i].hash = mined + (i - n) /\ i - n > 0
  <2>1. \A i \in 1..l : i > n => i - n \in 1..d
    BY <1>3, <1>20, <1>21
  <2> QED
    BY <1>4, <1>9, <1>20, <1>26, <2>1
<1>13. ASSUME NEW i \in 1..l, NEW j \in 1..l, c[i].event # NoEvent, c[i].event = c[j].event
       PROVE  i = j
  <2>1. \A x \in 1..l : x \in 1..n \/ x > n
    BY <1>3
  <2>2. CASE i \in 1..n /\ j \in 1..n
    BY <1>3, <1>9, <1>13, <2>2
  <2>6. ASSUME NEW a \in 1..l, NEW b \in 1..n, a > n, c[a].event # NoEvent,
               c[a].event = c[b].event
        PROVE  FALSE
    <3>1. a - n \in DOMAIN moved /\ c[a].event = moved[a - n] /\ c[b] = chain[b]
      BY <1>9, <1>12, <2>6
    <3>2. moved[a - n] \in EventsOn(kept)
      BY <1>11, <2>6, <3>1
    <3>3. moved[a - n] # NoEvent
      BY <2>6, <3>1
    <3> QED
      BY <1>6, <3>1, <3>2, <3>3
  <2>3. CASE i > n /\ j \in 1..n
    BY <1>13, <2>3, <2>6
  <2>4. CASE i \in 1..n /\ j > n
    BY <1>13, <2>4, <2>6
  <2>5. CASE i > n /\ j > n
    <3>1. i - n = j - n
      BY <1>6, <1>12, <1>13, <2>5
    <3> QED
      BY <1>3, <3>1
  <2> QED
    BY <2>1, <2>2, <2>3, <2>4, <2>5
<1>14. NodeOK'
  <2>1. mined + (l - n) \in Nat
    BY <1>3, <1>4
  <2> QED
    BY <1>1, <1>3, <1>6, <1>9, <1>10, <1>13, <2>1 DEF NodeOK
<1>15. mined <= mined' /\ Len(chain) <= Len(chain)' /\ safe <= safe'
  BY <1>1, <1>2, <1>3, <1>4, <1>6, <1>9
<1>16. \A i \in 1..Len(chain)' : i > n => chain'[i].hash > mined
  BY <1>1, <1>3, <1>9, <1>12
<1>17. \A i \in 1..n : chain'[i] = chain[i]
  BY <1>1, <1>9
<1>18. safe <= n /\ Len(chain) <= n + ReorgWindow /\ n \in 0..Len(chain)
  BY <1>2, <1>3, <1>6, IndexerAssumption
<1>19. finality = "latest" => \A w \in Workers : worker[w] = Idle
  BY <1>6 DEF MayReorganise
<1> QED
  BY <1>6, <1>14, <1>15, <1>16, <1>17, <1>18, <1>19 DEF NodeStep

LEMMA AdvanceSafeIsNodeStep ==
    ASSUME NodeOK, AdvanceSafe
    PROVE  NodeStep(Len(chain)) /\ Len(chain) \in 0..Len(chain)
<1>1. /\ Len(chain) \in Nat /\ safe \in Nat /\ safe < Len(chain) /\ safe' = safe + 1
      /\ mined \in Nat /\ UNCHANGED <<finality, chain, mined, dbVars, worker, replays>>
  BY ListPositions DEF AdvanceSafe, NodeOK
<1>2. NodeOK'
  BY <1>1 DEF NodeOK
<1>3. Len(chain) <= Len(chain) + ReorgWindow
  BY <1>1, IndexerAssumption
<1> QED
  BY <1>1, <1>2, <1>3 DEF NodeStep

(* the node preserves the invariant *)
LEMMA NodeInv ==
    ASSUME IndexerInv, finality = "latest" => QuietTicks, Node
    PROVE  IndexerInv'
<1>1. NodeOK
  BY DEF IndexerInv
<1>2. CASE \E event \in Events \cup {NoEvent} : Mine(event)
  BY <1>1, <1>2, MineIsNodeStep, NodeStepInv
<1>3. CASE \E n \in 0..(Len(chain) - 1) :
              \E moved \in [1..(Len(chain) - n) -> Events \cup {NoEvent}] : Reorganise(n, moved)
  <2>1. PICK n \in 0..(Len(chain) - 1) :
              \E moved \in [1..(Len(chain) - n) -> Events \cup {NoEvent}] : Reorganise(n, moved)
    BY <1>3
  <2>2. PICK moved \in [1..(Len(chain) - n) -> Events \cup {NoEvent}] : Reorganise(n, moved)
    BY <2>1
  <2>3. NodeStep(n) /\ n \in 0..Len(chain)
    BY <1>1, <2>2, ReorganiseIsNodeStep
  <2> QED
    BY <2>3, NodeStepInv
<1>4. CASE AdvanceSafe
  BY <1>1, <1>4, AdvanceSafeIsNodeStep, NodeStepInv
<1> QED
  BY <1>2, <1>3, <1>4 DEF Node

-----------------------------------------------------------------------------
(* Steps of a worker that only read *)

(* what does not depend on the workers *)
LEMMA SameTables ==
    ASSUME NodeOK, RowsOK, Listed(rows, projection, effects), CursorOK, Fork,
           UNCHANGED <<chainVars, dbVars>>
    PROVE  NodeOK' /\ RowsOK' /\ Listed(rows, projection, effects)' /\ CursorOK' /\ Fork'
<1>1. /\ finality' = finality /\ chain' = chain /\ safe' = safe /\ mined' = mined
      /\ rows' = rows /\ projection' = projection /\ effects' = effects
      /\ checkpoint' = checkpoint
  BY DEF chainVars, dbVars
<1>2. \A n : HashAt(n)' = HashAt(n)
  BY <1>1 DEF HashAt
<1>3. \A ev : Matched(ev)' <=> Matched(ev)
  BY <1>1, <1>2 DEF Matched, HashAt
<1>4. CheckpointMismatch' <=> CheckpointMismatch
  BY <1>1 DEF CheckpointMismatch, HashAt
<1>5. Clean' <=> Clean
  BY <1>1, <1>3, <1>4 DEF Clean, Standing
<1>6. NodeOK'
  BY <1>1 DEF NodeOK
<1>7. RowsOK'
  BY <1>1, <1>3 DEF RowsOK, Standing
<1>8. Listed(rows, projection, effects)'
  BY <1>1
<1>9. CursorOK'
  BY <1>1, <1>5 DEF CursorOK, SafeHead
<1>10. Fork'
  <2>1. PICK k \in 0..Len(chain) : AgreesTo(k)
    BY DEF Fork
  <2>2. AgreesTo(k)'
    BY <1>1, <1>3, <1>4, <2>1 DEF AgreesTo, Standing, RewindTarget
  <2> QED
    BY <1>1, <2>1, <2>2 DEF Fork
<1> QED
  BY <1>6, <1>7, <1>8, <1>9, <1>10

(* a repeated rewind stays one while chain and rows are the same *)
LEMMA RepeatsStays ==
    ASSUME chain' = chain, rows' = rows, NEW s, Repeats(s)
    PROVE  Repeats(s)'
BY DEF Repeats, Standing, BlockOf

(* what has been read stays true while chain and tables are the same *)
LEMMA SameReads ==
    ASSUME UNCHANGED <<chainVars, dbVars>>, NEW s, ReadOK(s)
    PROVE  ReadOK(s)'
<1>1. /\ finality' = finality /\ chain' = chain /\ safe' = safe /\ mined' = mined
      /\ rows' = rows /\ projection' = projection /\ effects' = effects
      /\ checkpoint' = checkpoint
  BY DEF chainVars, dbVars
<1>2. Clean' <=> Clean
  BY <1>1 DEF Clean, Standing, Matched, CheckpointMismatch, HashAt
<1>3. SafeHead' = SafeHead /\ HashAt(s.to)' = HashAt(s.to) /\ HashAt(s.target)' = HashAt(s.target)
  BY <1>1 DEF SafeHead, HashAt
<1>4. s.pc \in {"blocks", "commit"} => s.logs = LogsBetween(s.expected.lastScanned + 1, s.to)'
  <2>1. SUFFICES ASSUME s.pc \in {"blocks", "commit"}
                 PROVE  s.logs = LogsBetween(s.expected.lastScanned + 1, s.to)'
    OBVIOUS
  <2>2. /\ s.to \in Nat /\ s.expected.lastScanned \in Nat
        /\ s.logs = LogsBetween(s.expected.lastScanned + 1, s.to)
    BY <2>1 DEF ReadOK
  <2>3. PICK a \in Nat : a = s.expected.lastScanned + 1
    BY <2>2
  <2>4. \A n \in a..s.to : chain'[n] = chain[n] /\ HashAt(n)' = HashAt(n)
    BY <1>1 DEF HashAt
  <2>5. LogsBetween(a, s.to)' = LogsBetween(a, s.to)
    BY <2>2, <2>4, SameLogs
  <2> QED
    BY <2>2, <2>3, <2>5
<1>5. {ev \in Standing(rows) : ~Matched(ev) /\ rows[ev].block > s.target}'
      = {ev \in Standing(rows) : ~Matched(ev) /\ rows[ev].block > s.target}
  BY <1>1 DEF Matched, Standing, HashAt
<1>6. Fresh(s) => Fresh(s)'
  BY <1>1, <1>5 DEF Fresh
<1>7. Repeats(s) => Repeats(s)'
  BY <1>1, RepeatsStays
<1>8. Spent(s) => Spent(s)'
  BY <1>1, <1>2, <1>7 DEF Spent, HashAt
<1> QED
  BY <1>1, <1>2, <1>3, <1>4, <1>6, <1>8 DEF ReadOK, Rewinding, RewindTarget

(* the worker reads something that is so *)
LEMMA ReaderInv ==
    ASSUME IndexerInv, NEW w \in Workers, NEW s, ReadOK(s),
           Rewinding(s) => \A v \in Workers : Rewinding(worker[v]) =>
                                worker[v].expected = s.expected,
           worker' = [worker EXCEPT ![w] = s], UNCHANGED <<chainVars, dbVars>>
    PROVE  IndexerInv'
<1>1. NodeOK /\ RowsOK /\ Listed(rows, projection, effects) /\ CursorOK /\ Fork /\ Reads
  BY DEF IndexerInv
<1>2. NodeOK' /\ RowsOK' /\ Listed(rows, projection, effects)' /\ CursorOK' /\ Fork'
  BY <1>1, SameTables
<1>3. worker = [v \in Workers |-> worker[v]]
  BY <1>1 DEF Reads
<1>4. /\ worker' = [v \in Workers |-> worker'[v]] /\ worker'[w] = s
      /\ \A v \in Workers : v # w => worker'[v] = worker[v]
  BY <1>3
<1>5. ASSUME NEW v \in Workers PROVE ReadOK(worker[v])'
  <2>1. PICK t : t = worker'[v]
    OBVIOUS
  <2>2. ReadOK(t)
    BY <1>1, <1>4, <2>1 DEF Reads
  <2>3. ReadOK(t)'
    BY <2>2, SameReads
  <2> QED
    BY <2>1, <2>3
<1>6. Together'
  <2>1. ASSUME NEW u \in Workers, NEW v \in Workers,
               Rewinding(worker'[u]), Rewinding(worker'[v])
        PROVE  worker'[u].expected = worker'[v].expected
    BY <1>1, <1>4, <2>1 DEF Reads, Together
  <2> QED
    BY <2>1 DEF Together, Rewinding
<1> QED
  BY <1>2, <1>4, <1>5, <1>6 DEF IndexerInv, Reads

(* the list of nothing *)
LEMMA NothingListed ==
    ASSUME NEW key
    PROVE  Lists(Ordered({}, key), {}, key)
<1>1. Keyed({}, key)
  BY DEF Keyed
<1> QED
  BY <1>1, ListEmpty, OrderedLists

(* a tick begins: a worker that finds no mismatch finds none below the cursor either *)
LEMMA DetectReorgInv ==
    ASSUME IndexerInv, NEW w \in Workers, DetectReorg(w)
    PROVE  IndexerInv'
<1>1. NodeOK /\ RowsOK /\ CursorOK /\ Fork /\ Reads
  BY DEF IndexerInv
<1>2. PICK s : s = IF CheckpointMismatch \/ AheadMismatch
                   THEN [pc |-> "candidates", expected |-> checkpoint] ELSE [pc |-> "scan"]
  OBVIOUS
<1>3. CASE CheckpointMismatch \/ AheadMismatch
  <2>1. ~Clean
    BY <1>3 DEF Clean, AheadMismatch, CanonicalRows, Standing, Matched
  <2>2. finality = "latest"
    BY <1>1, <2>1, InvFacts DEF CursorOK
  <2>3. s = [pc |-> "candidates", expected |-> checkpoint]
    BY <1>2, <1>3
  <2>4. ReadOK(s)
    BY <1>1, <2>2, <2>3, InvFacts DEF ReadOK, Rewinding, Fresh
  <2>5. \A v \in Workers : Rewinding(worker[v]) => worker[v].expected = s.expected
    BY <1>1, <2>1, <2>3 DEF Reads, ReadOK, Fresh, Spent
  <2>6. worker' = [worker EXCEPT ![w] = s] /\ UNCHANGED <<chainVars, dbVars>>
    BY <1>2 DEF DetectReorg
  <2> QED
    BY <2>4, <2>5, <2>6, ReaderInv
<1>4. CASE ~(CheckpointMismatch \/ AheadMismatch)
  <2>1. PICK k \in 0..Len(chain) : AgreesTo(k)
    BY <1>1 DEF Fork
  <2>2. checkpoint.lastScanned <= k /\ checkpoint.lastScanned \in Nat /\ k \in Nat
    BY <1>1, <1>4, <2>1, InvFacts DEF AgreesTo
  <2>3. ASSUME NEW ev \in Standing(rows) PROVE Matched(ev)
    <3>1. /\ rows[ev].block \in Nat /\ rows[ev].block <= Len(chain) /\ Len(chain) \in Nat
          /\ Len(chain) <= MaxHeight /\ MaxHeight \in Nat
      BY <1>1, InvFacts, IndexerAssumption DEF NodeOK
    <3>2. CASE rows[ev].block <= checkpoint.lastScanned
      <4>1. rows[ev].block <= k
        BY <2>2, <3>1, <3>2
      <4> QED
        BY <2>1, <4>1 DEF AgreesTo
    <3>3. CASE rows[ev].block > checkpoint.lastScanned
      <4>1. rows[ev].block \in (checkpoint.lastScanned + 1)..MaxHeight
        BY <2>2, <3>1, <3>3
      <4> QED
        BY <1>4, <4>1 DEF AheadMismatch, CanonicalRows, Standing, Matched
    <3> QED
      BY <2>2, <3>1, <3>2, <3>3
  <2>4. Clean
    BY <1>4, <2>3 DEF Clean
  <2>5. s = [pc |-> "scan"]
    BY <1>2, <1>4
  <2>6. ReadOK(s) /\ ~Rewinding(s)
    BY <2>4, <2>5 DEF ReadOK, Rewinding
  <2>7. worker' = [worker EXCEPT ![w] = s] /\ UNCHANGED <<chainVars, dbVars>>
    BY <1>2 DEF DetectReorg
  <2> QED
    BY <2>6, <2>7, ReaderInv
<1> QED
  BY <1>3, <1>4

LEMMA CollectStaleInv ==
    ASSUME IndexerInv, NEW w \in Workers, CollectStale(w)
    PROVE  IndexerInv'
<1>1. NodeOK /\ RowsOK /\ CursorOK /\ Reads
  BY DEF IndexerInv
<1>2. PICK o : o = worker[w]
  OBVIOUS
<1>3. /\ finality = "latest" /\ Rewinding(o) /\ (Fresh(o) \/ Spent(o))
      /\ o.expected.lastScanned \in Nat /\ o.expected.lastScanned <= SafeHead
  BY <1>1, <1>2 DEF Reads, ReadOK, CollectStale, Rewinding
<1>4. PICK target : target = RewindTarget(o.expected.lastScanned)
  OBVIOUS
<1>5. PICK stale : stale = {ev \in CanonicalRows(rows, (target + 1)..MaxHeight) :
                               rows[ev].hash # HashAt(rows[ev].block)}
  OBVIOUS
<1>6. PICK s : s = [pc |-> "target", expected |-> o.expected, target |-> target, stale |-> stale]
  OBVIOUS
<1>7. worker' = [worker EXCEPT ![w] = s]
  BY <1>2, <1>4, <1>5, <1>6 DEF CollectStale
<1>8. stale = {ev \in Standing(rows) : ~Matched(ev) /\ rows[ev].block > target}
  <2>1. /\ target \in Nat /\ MaxHeight \in Nat
        /\ \A ev \in Standing(rows) : rows[ev].block \in Nat /\ rows[ev].block <= MaxHeight
    <3>1. target \in Nat
      BY <1>3, <1>4, IndexerAssumption DEF RewindTarget
    <3>2. MaxHeight \in Nat /\ \A ev \in Standing(rows) : rows[ev].block \in 1..MaxHeight
      BY <1>1, RowsBelow
    <3> QED
      BY <3>1, <3>2
  <2>2. CanonicalRows(rows, (target + 1)..MaxHeight) = {ev \in Standing(rows) : rows[ev].block > target}
    BY <2>1 DEF CanonicalRows, Standing
  <2> QED
    BY <1>5, <2>2 DEF Matched
<1>9. Fresh(s) \/ Spent(s)
  <2>1. CASE Fresh(o)
    BY <1>6, <1>8, <2>1 DEF Fresh
  <2>2. CASE Spent(o)
    <3>1. stale = {}
      BY <1>8, <2>2 DEF Spent, Clean
    <3>2. Repeats(o) => Repeats(s)
      BY <1>6, <3>1, NothingListed DEF Repeats
    <3> QED
      BY <1>6, <2>2, <3>2 DEF Spent
  <2> QED
    BY <1>3, <2>1, <2>2
<1>10. ReadOK(s)
  BY <1>3, <1>4, <1>6, <1>9 DEF ReadOK, Rewinding
<1>11. \A v \in Workers : Rewinding(worker[v]) => worker[v].expected = s.expected
  BY <1>1, <1>2, <1>3, <1>6 DEF Reads, Together
<1> QED
  BY <1>7, <1>10, <1>11, ReaderInv DEF CollectStale

LEMMA ReadTargetInv ==
    ASSUME IndexerInv, NEW w \in Workers, ReadTarget(w)
    PROVE  IndexerInv'
<1>1. PICK o : o = worker[w]
  OBVIOUS
<1>2. ReadOK(o) /\ o.pc = "target" /\ Together
  BY <1>1 DEF IndexerInv, Reads, ReadTarget
<1>3. PICK s : s = [pc |-> "rewind", expected |-> o.expected, target |-> o.target,
                    stale |-> o.stale, targetHash |-> HashAt(o.target)]
  OBVIOUS
<1>4. worker' = [worker EXCEPT ![w] = s]
  BY <1>1, <1>3 DEF ReadTarget
<1>5. Rewinding(o) /\ (Fresh(o) => Fresh(s)) /\ (Spent(o) => Spent(s))
  BY <1>2, <1>3 DEF Rewinding, Fresh, Spent, Repeats
<1>6. ReadOK(s)
  BY <1>2, <1>3, <1>5 DEF ReadOK, Rewinding
<1>7. \A v \in Workers : Rewinding(worker[v]) => worker[v].expected = s.expected
  BY <1>1, <1>2, <1>3, <1>5 DEF Together
<1> QED
  BY <1>4, <1>6, <1>7, ReaderInv DEF ReadTarget

(* a tick that ends without a transaction *)
LEMMA StopInv ==
    ASSUME IndexerInv, NEW w \in Workers, NothingToScan(w) \/ Abort(w)
    PROVE  IndexerInv'
<1>1. ReadOK(Idle) /\ ~Rewinding(Idle)
  BY DEF ReadOK, Rewinding, Idle
<1> QED
  BY <1>1, ReaderInv DEF NothingToScan, Abort

LEMMA GetLogsInv ==
    ASSUME IndexerInv, NEW w \in Workers, NEW to \in 1..MaxHeight, GetLogs(w, to)
    PROVE  IndexerInv'
<1>1. NodeOK /\ RowsOK /\ CursorOK /\ Reads
  BY DEF IndexerInv
<1>2. Clean
  BY <1>1 DEF Reads, ReadOK, GetLogs
<1>3. PICK s : s = [pc |-> "blocks", expected |-> checkpoint, to |-> to, safe |-> SafeHead,
                    logs |-> LogsBetween(checkpoint.lastScanned + 1, to)]
  OBVIOUS
<1>4. /\ to \in Nat /\ checkpoint.lastScanned \in Nat /\ checkpoint.lastScanned < to
      /\ to <= SafeHead
  <2>1. checkpoint.lastScanned \in Nat /\ SafeHead \in Nat
    BY <1>1, InvFacts
  <2>2. to \in (checkpoint.lastScanned + 1)..SafeHead
    BY DEF GetLogs
  <2> QED
    BY <2>1, <2>2
<1>5. ReadOK(s) /\ ~Rewinding(s)
  BY <1>2, <1>3, <1>4 DEF ReadOK, Rewinding
<1> QED
  BY <1>3, <1>5, ReaderInv DEF GetLogs

LEMMA GetBlocksInv ==
    ASSUME IndexerInv, NEW w \in Workers, GetBlocks(w)
    PROVE  IndexerInv'
<1>1. PICK o : o = worker[w]
  OBVIOUS
<1>2. ReadOK(o) /\ o.pc = "blocks"
  BY <1>1 DEF IndexerInv, Reads, GetBlocks
<1>3. PICK s : s = [pc |-> "commit", expected |-> o.expected, to |-> o.to, safe |-> o.safe,
                    logs |-> o.logs, toHash |-> HashAt(o.to)]
  OBVIOUS
<1>4. worker' = [worker EXCEPT ![w] = s]
  BY <1>1, <1>3 DEF GetBlocks
<1>5. ReadOK(s) /\ ~Rewinding(s)
  BY <1>2, <1>3 DEF ReadOK, Rewinding
<1> QED
  BY <1>4, <1>5, ReaderInv DEF GetBlocks

-----------------------------------------------------------------------------
(* Transactions *)

(* tables that contradict the chain nowhere follow it beyond the cursor *)
LEMMA CleanFollows ==
    ASSUME NodeOK, RowsOK, Listed(rows, projection, effects), CursorOK, Clean,
           NEW k \in 0..Len(chain), AgreesTo(k)
    PROVE  Follows(Tables, k) /\ checkpoint.lastScanned <= k
<1>1. Tables.rows = rows /\ Tables.projection = projection /\ Tables.effects = effects
  BY DEF Tables
<1>2. ASSUME NEW ev \in Standing(rows)
      PROVE  /\ rows[ev].block \in 1..k /\ chain[rows[ev].block].event = ev
             /\ rows[ev].hash = chain[rows[ev].block].hash
  <2>1. Matched(ev) /\ rows[ev].block <= k
    BY DEF Clean, AgreesTo
  <2>2. rows[ev].block \in 1..Len(chain) /\ chain[rows[ev].block].event = ev
    BY <2>1 DEF RowsOK
  <2>3. HashAt(rows[ev].block) = chain[rows[ev].block].hash
    BY <2>2, BlockFacts
  <2>4. rows[ev].block \in 1..k
    BY <2>1, <2>2
  <2> QED
    BY <2>1, <2>2, <2>3, <2>4 DEF Matched
<1>3. \A n \in 1..k : chain[n].event # NoEvent =>
          chain[n].event \in Standing(rows) /\ rows[chain[n].event].block = n
  BY DEF AgreesTo
<1>4. rows \in [Events -> RowType]
  BY DEF RowsOK
<1>5. Follows(Tables, k)
  BY <1>1, <1>2, <1>3, <1>4 DEF Follows
<1> QED
  BY <1>5 DEF Clean, AgreesTo

(* the block where tables and chain part can be taken at or below the head *)
LEMMA ForkBelowHead ==
    ASSUME NodeOK, RowsOK, CursorOK, Fork
    PROVE  \E k \in 0..SafeHead : k \in 0..Len(chain) /\ AgreesTo(k)
<1>1. PICK k \in 0..Len(chain) : AgreesTo(k)
  BY DEF Fork
<1>2. PICK m : m = IF k <= SafeHead THEN k ELSE SafeHead
  OBVIOUS
<1>3. /\ SafeHead \in Nat /\ SafeHead <= Len(chain) /\ Len(chain) \in Nat
      /\ checkpoint.lastScanned \in Nat /\ checkpoint.lastScanned <= SafeHead
      /\ RewindTarget(checkpoint.lastScanned) \in Nat
      /\ RewindTarget(checkpoint.lastScanned) <= checkpoint.lastScanned
      /\ \A ev \in Standing(rows) : rows[ev].block \in Nat /\ rows[ev].block <= SafeHead
  BY InvFacts
<1>4. m \in 0..SafeHead /\ m \in 0..Len(chain) /\ m <= k /\ k \in Nat
  BY <1>2, <1>3
<1>5. \A n \in 1..m : n \in 1..k
  BY <1>3, <1>4
<1>6. AgreesTo(m)
  <2>1. \A ev \in Standing(rows) : rows[ev].block <= k <=> rows[ev].block <= m
    BY <1>2, <1>3, <1>4
  <2>2. RewindTarget(checkpoint.lastScanned) <= m
    BY <1>1, <1>2, <1>3, <1>4 DEF AgreesTo
  <2>3. ~CheckpointMismatch => checkpoint.lastScanned <= m
    BY <1>1, <1>2, <1>3, <1>4 DEF AgreesTo
  <2> QED
    BY <1>1, <1>5, <2>1, <2>2, <2>3 DEF AgreesTo
<1> QED
  BY <1>4, <1>6

(* Tables d that follow the chain up to block m are stored, and the cursor is *)
(* put at a block at or below m, with the hash the node has for it.           *)
LEMMA StoredInv ==
    ASSUME NodeOK, RowsOK, CursorOK, NEW m \in 0..SafeHead, NEW d, Follows(d, m),
           NEW a \in 0..m,
           UNCHANGED chainVars, rows' = d.rows, projection' = d.projection,
           effects' = d.effects,
           checkpoint' = [lastScanned |-> checkpoint'.lastScanned,
                          hash |-> checkpoint'.hash, replay |-> checkpoint'.replay],
           checkpoint'.replay \in BOOLEAN,
           checkpoint'.lastScanned = a,
           checkpoint'.hash = HashAt(a) \/ (checkpoint'.hash = Unset /\ finality = "safe")
    PROVE  /\ NodeOK' /\ RowsOK' /\ Listed(rows, projection, effects)' /\ CursorOK' /\ Fork'
           /\ Clean'
<1>1. /\ finality' = finality /\ chain' = chain /\ safe' = safe /\ mined' = mined
  BY DEF chainVars
<1>2. /\ SafeHead \in Nat /\ SafeHead <= Len(chain) /\ Len(chain) \in Nat
      /\ mined \in Nat /\ safe \in Nat /\ ReorgWindow \in Nat
      /\ m \in Nat /\ a \in Nat /\ a <= m /\ m <= SafeHead /\ m \in 0..Len(chain)
      /\ finality = "safe" => SafeHead = safe
  <2>1. /\ SafeHead \in Nat /\ SafeHead <= Len(chain) /\ Len(chain) \in Nat
        /\ mined \in Nat /\ safe \in Nat /\ ReorgWindow \in Nat
    BY InvFacts
  <2> QED
    BY <2>1 DEF SafeHead
<1>3. PICK r : r = d.rows
  OBVIOUS
<1>4. /\ r \in [Events -> RowType] /\ rows' = r
      /\ \A ev \in Standing(r) : /\ r[ev].block \in 1..m /\ chain[r[ev].block].event = ev
                                 /\ r[ev].hash = chain[r[ev].block].hash
      /\ \A n \in 1..m : chain[n].event # NoEvent =>
            chain[n].event \in Standing(r) /\ r[chain[n].event].block = n
      /\ Listed(r, d.projection, d.effects)
  BY <1>3 DEF Follows
<1>5. \A n : HashAt(n)' = HashAt(n)
  BY <1>1 DEF HashAt
<1>6. \A n \in 1..m : n \in 1..Len(chain) /\ HashAt(n) = chain[n].hash /\ chain[n].hash \in 1..mined
  BY <1>2, BlockFacts
<1>7. HashAt(0) = 0
  BY <1>2, ListPositions DEF HashAt, NodeOK
<1>8. ASSUME NEW ev \in Standing(r)
      PROVE  /\ Matched(ev)' /\ r[ev].block \in 1..Len(chain) /\ r[ev].hash \in 1..mined
             /\ r[ev].block <= m /\ r[ev].block \in Nat
  <2>1. PICK b : b = r[ev].block
    OBVIOUS
  <2>2. b \in 1..m /\ r[ev].hash = chain[b].hash
    BY <1>4, <2>1
  <2>3. b \in 1..Len(chain) /\ HashAt(b) = chain[b].hash /\ chain[b].hash \in 1..mined
    BY <1>6, <2>2
  <2>4. Matched(ev)'
    BY <1>4, <1>5, <2>1, <2>2, <2>3 DEF Matched
  <2> QED
    BY <1>2, <2>1, <2>2, <2>3, <2>4
<1>9. Standing(rows)' = Standing(r)
  BY <1>4 DEF Standing
<1>10. NodeOK'
  BY <1>1 DEF NodeOK
<1>11. RowsOK'
  BY <1>1, <1>2, <1>4, <1>8, <1>9 DEF RowsOK
<1>12. Listed(rows, projection, effects)'
  BY <1>4
<1>13. HashAt(a) \in Nat /\ HashAt(a) <= mined
  <2>1. CASE a = 0
    BY <1>2, <1>7, <2>1
  <2>2. CASE a # 0
    <3>1. a \in 1..m
      BY <1>2, <2>2
    <3> QED
      BY <1>2, <1>6, <3>1
  <2> QED
    BY <2>1, <2>2
<1>14. ~CheckpointMismatch'
  BY <1>5 DEF CheckpointMismatch
<1>15. Clean'
  BY <1>8, <1>9, <1>14 DEF Clean
<1>16. CursorOK'
  <2>1. SafeHead' = SafeHead
    BY <1>1 DEF SafeHead
  <2>2. checkpoint'.hash \in Nat \cup {Unset} /\ checkpoint'.hash <= mined
    BY <1>2, <1>13 DEF Unset
  <2>3. finality = "latest" => checkpoint'.hash # Unset
    BY <1>13 DEF Unset
  <2>4. checkpoint' \in [lastScanned : Nat, hash : Nat \cup {Unset}, replay : BOOLEAN]
    BY <1>2, <2>2
  <2>5. checkpoint'.lastScanned <= SafeHead
    BY <1>2
  <2> QED
    BY <1>1, <1>15, <2>1, <2>2, <2>3, <2>4, <2>5 DEF CursorOK
<1>17. RewindTarget(a) <= m
  BY <1>2 DEF RewindTarget
<1>18. ASSUME NEW n \in 1..m, chain[n].event # NoEvent
       PROVE  /\ chain[n].event \in Standing(r) /\ r[chain[n].event].block = n
              /\ r[chain[n].event].hash = chain[n].hash
  BY <1>4, <1>18
<1>19. AgreesTo(m)'
  <2>1. \A n \in 1..m : chain'[n].event # NoEvent =>
            /\ chain'[n].event \in Standing(rows)'
            /\ rows'[chain'[n].event].block = n /\ rows'[chain'[n].event].hash = chain'[n].hash
    BY <1>1, <1>4, <1>9, <1>18
  <2>2. \A ev \in Standing(rows)' : Matched(ev)' <=> rows'[ev].block <= m
    BY <1>4, <1>8, <1>9
  <2>3. RewindTarget(checkpoint'.lastScanned) <= m /\ checkpoint'.lastScanned <= m
    BY <1>2, <1>17
  <2> QED
    BY <2>1, <2>2, <2>3 DEF AgreesTo, RewindTarget
<1>20. Fork'
  BY <1>1, <1>2, <1>19 DEF Fork
<1> QED
  BY <1>10, <1>11, <1>12, <1>15, <1>16, <1>20

(* A worker that is about to rewind tables that contradict the chain nowhere  *)
(* has been overtaken.                                                        *)
LEMMA CleanSpent ==
    ASSUME Fork, Clean, NEW s, Rewinding(s), ReadOK(s)
    PROVE  Spent(s)
<1>1. CASE Spent(s)
  BY <1>1
<1>2. CASE Fresh(s)
  <2>1. PICK k \in 0..Len(chain) : AgreesTo(k)
    BY DEF Fork
  <2>2. s.expected = checkpoint /\ checkpoint.lastScanned <= k
    BY <1>2, <2>1 DEF Fresh, AgreesTo, Clean
  <2>3. s.expected.lastScanned \in Nat /\ k \in Nat
    BY <2>1 DEF ReadOK
  <2>4. ASSUME NEW n \in 1..s.expected.lastScanned, chain[n].event # NoEvent
        PROVE  chain[n].event \in Standing(rows) /\ rows[chain[n].event].block = n
    <3>1. n \in 1..k
      BY <2>2, <2>3
    <3> QED
      BY <2>1, <2>4, <3>1 DEF AgreesTo
  <2>5. s.pc # "candidates" => s.stale = {}
    BY <1>2 DEF Fresh, Clean
  <2>6. Repeats(s)
    BY <2>4, <2>5, NothingListed DEF Repeats
  <2> QED
    BY <2>6 DEF Spent
<1> QED
  BY <1>1, <1>2 DEF ReadOK

(* what another worker has read after a transaction that leaves the tables    *)
(* clean, given that its rewind is then spent                                 *)
LEMMA OtherReads ==
    ASSUME UNCHANGED chainVars, Clean', NEW s, ReadOK(s), Rewinding(s) => Spent(s)'
    PROVE  ReadOK(s)'
<1>1. finality' = finality /\ chain' = chain /\ safe' = safe
  BY DEF chainVars
<1>2. SafeHead' = SafeHead /\ HashAt(s.to)' = HashAt(s.to) /\ HashAt(s.target)' = HashAt(s.target)
  BY <1>1 DEF SafeHead, HashAt
<1>3. s.pc \in {"blocks", "commit"} => s.logs = LogsBetween(s.expected.lastScanned + 1, s.to)'
  <2>1. SUFFICES ASSUME s.pc \in {"blocks", "commit"}
                 PROVE  s.logs = LogsBetween(s.expected.lastScanned + 1, s.to)'
    OBVIOUS
  <2>2. /\ s.to \in Nat /\ s.expected.lastScanned \in Nat
        /\ s.logs = LogsBetween(s.expected.lastScanned + 1, s.to)
    BY <2>1 DEF ReadOK
  <2>3. PICK a \in Nat : a = s.expected.lastScanned + 1
    BY <2>2
  <2>4. \A n \in a..s.to : chain'[n] = chain[n] /\ HashAt(n)' = HashAt(n)
    BY <1>1 DEF HashAt
  <2>5. LogsBetween(a, s.to)' = LogsBetween(a, s.to)
    BY <2>2, <2>4, SameLogs
  <2> QED
    BY <2>2, <2>3, <2>5
<1> QED
  BY <1>1, <1>2, <1>3 DEF ReadOK, Rewinding, RewindTarget

(* a worker's transaction *)
LEMMA StoredReads ==
    ASSUME Reads, NEW w \in Workers, NEW s, ReadOK(s)', ~Rewinding(s), Clean',
           UNCHANGED chainVars, worker' = [worker EXCEPT ![w] = s],
           \A v \in Workers : \A t : worker[v] = t /\ Rewinding(t) => Spent(t)'
    PROVE  Reads'
<1>1. worker = [v \in Workers |-> worker[v]]
  BY DEF Reads
<1>2. /\ worker' = [v \in Workers |-> worker'[v]] /\ worker'[w] = s
      /\ \A v \in Workers : v # w => worker'[v] = worker[v]
  BY <1>1
<1>3. ASSUME NEW v \in Workers PROVE ReadOK(worker[v])'
  <2>1. CASE v = w
    BY <1>2, <2>1
  <2>2. CASE v # w
    <3>1. PICK t : t = worker[v]
      OBVIOUS
    <3>2. t = worker'[v]
      BY <1>2, <2>2, <3>1
    <3>3. ReadOK(t)
      BY <3>1 DEF Reads
    <3>4. Rewinding(t) => Spent(t)'
      BY <3>1
    <3>5. ReadOK(t)'
      BY <3>3, <3>4, OtherReads
    <3> QED
      BY <3>2, <3>5
  <2> QED
    BY <2>1, <2>2
<1>4. Together'
  <2>1. \A v \in Workers : Rewinding(worker'[v]) => v # w
    BY <1>2
  <2>2. \A u, v \in Workers : Rewinding(worker'[u]) /\ Rewinding(worker'[v]) =>
            worker'[u].expected = worker'[v].expected
    BY <1>2, <2>1 DEF Reads, Together
  <2> QED
    BY <2>2 DEF Together, Rewinding
<1> QED
  BY <1>2, <1>3, <1>4 DEF Reads

(* A range that is projected brings the tables to its last block, however far *)
(* beyond the cursor they had got before.                                     *)
LEMMA CommitScanInv ==
    ASSUME IndexerInv, NEW w \in Workers, CommitScan(w)
    PROVE  IndexerInv'
<1>1. NodeOK /\ RowsOK /\ Listed(rows, projection, effects) /\ CursorOK /\ Fork /\ Reads
  BY DEF IndexerInv
<1>2. PICK o : o = worker[w]
  OBVIOUS
<1>3. /\ Clean /\ o.to \in Nat /\ o.expected = checkpoint
      /\ o.to <= SafeHead /\ checkpoint.lastScanned < o.to /\ checkpoint.lastScanned \in Nat
      /\ o.logs = LogsBetween(checkpoint.lastScanned + 1, o.to) /\ o.toHash = HashAt(o.to)
  <2>1. ReadOK(o) /\ o.pc = "commit" /\ o.expected = checkpoint
    BY <1>1, <1>2 DEF Reads, CommitScan, CheckpointUnchanged
  <2> QED
    BY <2>1 DEF ReadOK
<1>4. PICK d : d = ProjectLogs(Tables, o.logs)
  OBVIOUS
<1>5. /\ ~d.failed /\ rows' = d.rows /\ projection' = d.projection /\ effects' = d.effects
      /\ checkpoint' = [lastScanned |-> o.to, hash |-> o.toHash,
                        replay |-> checkpoint.replay /\ o.to # o.safe]
      /\ worker' = [worker EXCEPT ![w] = Idle] /\ UNCHANGED chainVars
  BY <1>2, <1>4 DEF CommitScan, StoreTables
<1>6. PICK k \in 0..SafeHead : k \in 0..Len(chain) /\ AgreesTo(k)
  BY <1>1, ForkBelowHead
<1>7. Follows(Tables, k) /\ checkpoint.lastScanned <= k
  BY <1>1, <1>3, <1>6, CleanFollows
<1>8. PICK from : from = checkpoint.lastScanned + 1
  OBVIOUS
<1>9. PICK m : m = IF k < o.to THEN o.to ELSE k
  OBVIOUS
<1>10. /\ SafeHead \in Nat /\ SafeHead <= Len(chain) /\ Len(chain) \in Nat /\ k \in Nat
       /\ finality \in {"safe", "latest"}
  BY <1>1, <1>6, InvFacts
<1>11. /\ from \in Nat \ {0} /\ from <= k + 1 /\ from <= o.to /\ o.to <= Len(chain)
       /\ m \in 0..SafeHead /\ o.to \in 0..m
  BY <1>3, <1>7, <1>8, <1>9, <1>10
<1>12. Follows(d, m)
  <2>1. ~Tables.failed
    BY DEF Tables
  <2>2. o.logs = LogsBetween(from, o.to)
    BY <1>3, <1>8
  <2>3. ~ProjectLogs(Tables, o.logs).failed
    BY <1>4, <1>5
  <2>4. Follows(ProjectLogs(Tables, o.logs), IF k < o.to THEN o.to ELSE k)
    BY <1>1, <1>3, <1>6, <1>7, <1>11, <2>1, <2>2, <2>3, FollowsRange
  <2> QED
    BY <1>4, <1>9, <2>4
<1>13. /\ checkpoint' = [lastScanned |-> checkpoint'.lastScanned,
                         hash |-> checkpoint'.hash, replay |-> checkpoint'.replay]
       /\ checkpoint'.replay \in BOOLEAN
       /\ checkpoint'.lastScanned = o.to /\ checkpoint'.hash = HashAt(o.to)
  BY <1>3, <1>5
<1>14. /\ NodeOK' /\ RowsOK' /\ Listed(rows, projection, effects)' /\ CursorOK' /\ Fork'
       /\ Clean'
  BY <1>1, <1>5, <1>11, <1>12, <1>13, StoredInv
<1>15. ReadOK(Idle)' /\ ~Rewinding(Idle)
  BY DEF ReadOK, Rewinding, Idle
<1>16. ASSUME NEW v \in Workers, NEW t, worker[v] = t, Rewinding(t)
       PROVE  Spent(t)'
  <2>1. ReadOK(t) /\ Spent(t)
    BY <1>1, <1>3, <1>16, CleanSpent DEF Reads
  <2>2. PICK l \in Nat : l = t.expected.lastScanned
    BY <1>16, <2>1 DEF ReadOK
  <2>3. HashAt(l)' = HashAt(l) /\ chain' = chain
    BY <1>5 DEF chainVars, HashAt
  <2>4. checkpoint'.lastScanned = o.to
    BY <1>5
  <2>5. CASE checkpoint.lastScanned > l
    <3>1. checkpoint'.lastScanned > l
      BY <1>3, <2>2, <2>4, <2>5
    <3> QED
      BY <1>14, <2>2, <3>1 DEF Spent
  <2>6. CASE t.expected.hash \notin {Unset, HashAt(l)}
    BY <1>14, <2>2, <2>3, <2>6 DEF Spent
  <2>7. CASE Repeats(t)
    <3>1. CASE o.to > l
      BY <1>14, <2>2, <2>4, <3>1 DEF Spent
    <3>2. CASE o.to <= l
      <4>1. ASSUME NEW n \in from..o.to, chain[n].event # NoEvent
            PROVE  /\ chain[n].event \in Standing(Tables.rows)
                   /\ Tables.rows[chain[n].event].hash = HashAt(n)
        <5>1. n \in 1..l
          BY <1>3, <1>11, <3>2
        <5>2. chain[n].event \in Standing(rows) /\ rows[chain[n].event].block = n
          BY <2>2, <2>7, <4>1, <5>1 DEF Repeats
        <5> QED
          BY <1>3, <5>2 DEF Tables, Clean, Matched
      <4>2. o.logs = LogsBetween(from, o.to)
        BY <1>3, <1>8
      <4>3. ProjectLogs(Tables, o.logs) = Tables
        BY <1>1, <1>3, <1>11, <4>1, <4>2, KnownRange
      <4>4. rows' = rows
        BY <1>4, <1>5, <4>3 DEF Tables
      <4>5. Repeats(t)'
        BY <2>3, <2>7, <4>4, RepeatsStays
      <4> QED
        BY <1>14, <4>5 DEF Spent
    <3> QED
      BY <1>3, <2>2, <3>1, <3>2
  <2> QED
    BY <2>1, <2>2, <2>5, <2>6, <2>7 DEF Spent
<1>17. Reads'
  BY <1>1, <1>5, <1>14, <1>15, <1>16, StoredReads
<1> QED
  BY <1>14, <1>17 DEF IndexerInv

(* The first to rewind marks the events that stand above the fork, puts back  *)
(* the effects from before the earliest of them and lists the others again.   *)
LEMMA FirstRewindInv ==
    ASSUME IndexerInv, NEW w \in Workers, Rewind(w), ~Clean
    PROVE  IndexerInv'
<1>1. NodeOK /\ RowsOK /\ Listed(rows, projection, effects) /\ CursorOK /\ Fork /\ Reads
  BY DEF IndexerInv
<1>2. PICK o : o = worker[w]
  OBVIOUS
<1>3. PICK T : T = RewindTarget(checkpoint.lastScanned)
  OBVIOUS
<1>4. PICK stale : stale = o.stale
  OBVIOUS
<1>5. /\ o.target = T /\ o.targetHash = HashAt(T)
      /\ stale = {ev \in Standing(rows) : ~Matched(ev) /\ rows[ev].block > T}
  <2>1. ReadOK(o) /\ o.pc = "rewind"
    BY <1>1, <1>2 DEF Reads, Rewind
  <2>2. Rewinding(o) /\ Fresh(o)
    BY <2>1 DEF ReadOK, Rewinding, Spent
  <2> QED
    BY <1>3, <1>4, <2>1, <2>2 DEF ReadOK, Fresh
<1>6. PICK k \in 0..SafeHead : k \in 0..Len(chain) /\ AgreesTo(k)
  BY <1>1, ForkBelowHead
<1>7. /\ SafeHead \in Nat /\ SafeHead <= Len(chain) /\ Len(chain) \in Nat /\ k \in Nat
      /\ finality \in {"safe", "latest"} /\ T \in Nat /\ T <= k /\ MaxHeight \in Nat
      /\ \A ev \in Standing(rows) : rows[ev].block \in 1..Len(chain) /\ rows[ev].block \in 1..MaxHeight
  <2>1. /\ SafeHead \in Nat /\ SafeHead <= Len(chain) /\ Len(chain) \in Nat
        /\ finality \in {"safe", "latest"} /\ T \in Nat
    BY <1>1, <1>3, InvFacts
  <2>2. T <= k
    BY <1>3, <1>6 DEF AgreesTo
  <2>3. /\ MaxHeight \in Nat
        /\ \A ev \in Standing(rows) : rows[ev].block \in 1..Len(chain) /\ rows[ev].block \in 1..MaxHeight
    BY <1>1, RowsBelow
  <2> QED
    BY <2>1, <2>2, <2>3
<1>8. PICK r : r = rows
  OBVIOUS
<1>9. r \in [Events -> RowType] /\ stale = {ev \in Standing(r) : r[ev].block > k}
  <2>1. r \in [Events -> RowType]
    BY <1>1, <1>8 DEF RowsOK
  <2>2. \A ev \in Standing(r) : (~Matched(ev) /\ r[ev].block > T) <=> r[ev].block > k
    <3>1. \A ev \in Standing(r) : (Matched(ev) <=> r[ev].block <= k) /\ r[ev].block \in Nat
      BY <1>6, <1>7, <1>8 DEF AgreesTo
    <3> QED
      BY <1>7, <3>1
  <2> QED
    BY <1>5, <1>8, <2>1, <2>2
<1>10. PICK q : q = [ev \in Events |-> IF ev \in stale
                                       THEN [rows[ev] EXCEPT !.canonical = FALSE] ELSE rows[ev]]
  OBVIOUS
<1>11. /\ q \in [Events -> RowType]
       /\ \A ev \in Events : /\ q[ev].block = r[ev].block /\ q[ev].hash = r[ev].hash
                             /\ q[ev].undo = r[ev].undo
                             /\ q[ev].canonical <=> r[ev].canonical /\ ev \notin stale
  BY <1>8, <1>9, <1>10 DEF RowType
<1>12. Standing(q) = {ev \in Standing(r) : r[ev].block <= k}
  <2>1. \A ev \in Standing(r) : r[ev].block \in Nat
    BY <1>7, <1>8
  <2> QED
    BY <1>7, <1>9, <1>11, <2>1 DEF Standing
<1>13. PICK key : key = BlockOf(r)
  OBVIOUS
<1>14. /\ BlockOf(q) = key /\ Keyed(Standing(r), key)
       /\ \A ev \in Events : key[ev] = r[ev].block /\ r[ev].block \in Nat
  <2>1. BlockOf(q) = key
    BY <1>11, <1>13 DEF BlockOf
  <2> QED
    BY <1>9, <1>13, <2>1, BlocksAreKeys
<1>15. /\ Lists(projection, Standing(r), key) /\ Lists(effects, Standing(r), key)
       /\ \A ev \in Standing(r) : Lists(r[ev].undo, Before(r, ev), key)
  BY <1>1, <1>8, <1>13 DEF Listed
<1>16. stale \in SUBSET Standing(r) /\ Standing(q) \in SUBSET Standing(r) /\ Standing(r) \subseteq Events
  BY <1>9, <1>12 DEF Standing
<1>17. PICK s : s = Ordered(stale, key)
  OBVIOUS
<1>18. Lists(s, stale, key) /\ Keyed(stale, key)
  <2>1. Keyed(stale, key)
    BY <1>14, <1>16 DEF Keyed
  <2> QED
    BY <1>14, <1>15, <1>16, <1>17, <2>1, OrderedPart
<1>19. PICK z : z = Reverse(s)
  OBVIOUS
<1>20. z = LatestFirst(stale)
  BY <1>8, <1>13, <1>17, <1>19 DEF LatestFirst
<1>21. /\ Len(s) \in Nat /\ Len(z) = Len(s)
       /\ Len(s) > 0 => z[Len(z)] = s[1] /\ s[1] \in stale
       /\ \A ev \in stale : Len(s) > 0 /\ key[s[1]] <= key[ev]
  <2>1. /\ Len(s) \in Nat
        /\ \A i \in 1..Len(s) : s[i] \in stale /\ key[s[i]] \in Nat
        /\ \A x \in stale : key[x] \in Nat /\ \E i \in 1..Len(s) : s[i] = x
        /\ \A i, j \in 1..Len(s) : i < j => key[s[i]] < key[s[j]]
    BY <1>18, ListFacts
  <2>2. z = [i \in 1..Len(s) |-> s[Len(s) - i + 1]]
    BY <1>19 DEF Reverse
  <2>3. \A i \in 1..Len(s) : s[Len(s) - i + 1] \in stale
    <3>1. \A i \in 1..Len(s) : Len(s) - i + 1 \in 1..Len(s)
      BY <2>1
    <3> QED
      BY <2>1, <3>1
  <2>4. Len(z) = Len(s)
    BY <2>1, <2>2, <2>3, AsSequence
  <2>5. Len(s) > 0 => z[Len(z)] = s[1] /\ s[1] \in stale
    BY <2>1, <2>2, <2>4
  <2>6. ASSUME NEW ev \in stale PROVE Len(s) > 0 /\ key[s[1]] <= key[ev]
    <3>1. PICK i \in 1..Len(s) : s[i] = ev
      BY <2>1, <2>6
    <3>2. 1 \in 1..Len(s) /\ (i = 1 \/ 1 < i)
      BY <2>1
    <3> QED
      BY <2>1, <3>1, <3>2
  <2> QED
    BY <2>1, <2>4, <2>5, <2>6
<1>22. PICK db : db = [Tables EXCEPT !.rows = q]
  OBVIOUS
<1>23. /\ db = Restored(db, db.effects) /\ db.rows = q /\ db.effects = effects
       /\ db.projection = projection
  BY <1>22 DEF Tables, Restored
<1>24. PICK e : e = IF Len(z) = 0 THEN effects ELSE q[z[Len(z)]].undo
  OBVIOUS
<1>25. UndoEvents(db, z) = Restored(db, e)
  BY <1>21, <1>23, <1>24, UndoEventsLast
<1>26. Lists(e, Standing(q), key)
  <2>1. CASE Len(s) = 0
    <3>1. stale = {}
      BY <1>21, <2>1
    <3>2. Standing(q) = Standing(r)
      BY <1>9, <1>11, <3>1 DEF Standing
    <3> QED
      BY <1>15, <1>21, <1>24, <2>1, <3>2
  <2>2. CASE Len(s) > 0
    <3>1. PICK f : f = s[1]
      OBVIOUS
    <3>2. /\ f \in stale /\ f \in Standing(r) /\ f \in Events /\ r[f].block > k
          /\ \A ev \in stale : key[f] <= key[ev]
      BY <1>9, <1>16, <1>21, <2>2, <3>1
    <3>3. e = r[f].undo
      BY <1>11, <1>21, <1>24, <2>2, <3>1, <3>2
    <3>4. Before(r, f) = Standing(q)
      <4>1. ASSUME NEW x \in Standing(r) PROVE r[x].block < r[f].block <=> r[x].block <= k
        <5>1. x \in Events /\ r[x].block \in Nat /\ r[f].block \in Nat
          BY <1>14, <1>16, <3>2
        <5>2. r[x].block > k => r[f].block <= r[x].block
          BY <1>9, <1>14, <3>2, <5>1
        <5> QED
          BY <1>7, <3>2, <5>1, <5>2
      <4> QED
        BY <1>12, <4>1 DEF Before
    <3> QED
      BY <1>15, <3>2, <3>3, <3>4
  <2> QED
    BY <1>21, <2>1, <2>2
<1>27. PICK p : p = IF stale = {} THEN projection ELSE History(q, 1..MaxHeight)
  OBVIOUS
<1>28. Lists(p, Standing(q), key)
  <2>1. CASE stale = {}
    <3>1. Standing(q) = Standing(r)
      BY <1>9, <1>11, <2>1 DEF Standing
    <3> QED
      BY <1>15, <1>27, <2>1, <3>1
  <2>2. CASE stale # {}
    <3>1. CanonicalRows(q, 1..MaxHeight) = Standing(q)
      <4>1. \A ev \in Standing(q) : q[ev].block \in 1..MaxHeight
        BY <1>7, <1>8, <1>11, <1>12, <1>16
      <4> QED
        BY <4>1 DEF CanonicalRows, Standing
    <3>2. p = Ordered(Standing(q), key)
      BY <1>14, <1>27, <2>2, <3>1 DEF History
    <3> QED
      BY <1>14, <1>15, <1>16, <3>2, OrderedPart
  <2> QED
    BY <2>1, <2>2
<1>29. Listed(q, p, e)
  <2>1. ASSUME NEW ev \in Standing(q) PROVE Lists(q[ev].undo, Before(q, ev), key)
    <3>1. ev \in Standing(r) /\ ev \in Events /\ r[ev].block <= k
      BY <1>12, <1>16
    <3>2. Before(q, ev) = Before(r, ev)
      <4>1. \A x \in Standing(r) : r[x].block < r[ev].block => r[x].block <= k
        BY <1>7, <1>14, <1>16, <3>1
      <4>2. \A x \in Standing(q) : x \in Events
        BY <1>16
      <4> QED
        BY <1>11, <1>12, <3>1, <4>1, <4>2 DEF Before
    <3> QED
      BY <1>11, <1>15, <3>1, <3>2
  <2> QED
    BY <1>14, <1>26, <1>28, <2>1 DEF Listed
<1>30. PICK d : d = [rows |-> q, projection |-> p, effects |-> e, failed |-> FALSE]
  OBVIOUS
<1>31. Follows(d, k)
  <2>1. ASSUME NEW ev \in Standing(q)
        PROVE  /\ q[ev].block \in 1..k /\ chain[q[ev].block].event = ev
               /\ q[ev].hash = chain[q[ev].block].hash
    <3>1. ev \in Standing(r) /\ ev \in Events /\ r[ev].block <= k
      BY <1>12, <1>16
    <3>2. Matched(ev) /\ rows[ev].block \in 1..Len(chain) /\ chain[rows[ev].block].event = ev
      BY <1>1, <1>6, <1>8, <3>1 DEF AgreesTo, RowsOK
    <3>3. HashAt(rows[ev].block) = chain[rows[ev].block].hash
      BY <1>1, <3>2, BlockFacts
    <3>4. r[ev].block \in 1..k
      BY <1>7, <1>8, <3>1, <3>2
    <3> QED
      BY <1>8, <1>11, <3>1, <3>2, <3>3, <3>4 DEF Matched
  <2>2. ASSUME NEW n \in 1..k, chain[n].event # NoEvent
        PROVE  chain[n].event \in Standing(q) /\ q[chain[n].event].block = n
    <3>1. chain[n].event \in Standing(r) /\ r[chain[n].event].block = n
      BY <1>6, <1>8, <2>2 DEF AgreesTo
    <3>2. chain[n].event \in Standing(q)
      BY <1>12, <3>1
    <3> QED
      BY <1>11, <1>16, <3>1, <3>2
  <2>3. d.rows = q /\ d.projection = p /\ d.effects = e
    BY <1>30
  <2> QED
    BY <1>11, <1>29, <2>1, <2>2, <2>3 DEF Follows
<1>32. rows' = d.rows /\ projection' = d.projection /\ effects' = d.effects
  <2>1. StoreTables([UndoEvents(db, z) EXCEPT !.projection =
                        IF stale = {} THEN @ ELSE History(q, 1..MaxHeight)])
    BY <1>2, <1>4, <1>10, <1>20, <1>22 DEF Rewind
  <2>2. UndoEvents(db, z) = [rows |-> q, projection |-> projection, effects |-> e,
                             failed |-> db.failed]
    BY <1>23, <1>25 DEF Restored
  <2> QED
    BY <1>27, <1>30, <2>1, <2>2 DEF StoreTables
<1>33. /\ checkpoint' = [checkpoint EXCEPT !.lastScanned = T, !.hash = HashAt(T)]
       /\ worker' = [worker EXCEPT ![w] = [pc |-> "scan"]] /\ UNCHANGED chainVars
  BY <1>2, <1>5 DEF Rewind
<1>34. /\ checkpoint' = [lastScanned |-> checkpoint'.lastScanned,
                         hash |-> checkpoint'.hash, replay |-> checkpoint'.replay]
       /\ checkpoint'.replay \in BOOLEAN
       /\ checkpoint'.lastScanned = T /\ checkpoint'.hash = HashAt(T)
  <2>1. checkpoint \in [lastScanned : Nat, hash : Nat \cup {Unset}, replay : BOOLEAN]
    BY <1>1 DEF CursorOK
  <2> QED
    BY <1>33, <2>1
<1>35. /\ NodeOK' /\ RowsOK' /\ Listed(rows, projection, effects)' /\ CursorOK' /\ Fork'
       /\ Clean'
  <2>1. T \in 0..k
    BY <1>7
  <2> QED
    BY <1>1, <1>31, <1>32, <1>33, <1>34, <2>1, StoredInv
<1>36. ReadOK([pc |-> "scan"])' /\ ~Rewinding([pc |-> "scan"])
  BY <1>35 DEF ReadOK, Rewinding
<1>37. rows' = q /\ chain' = chain /\ BlockOf(rows)' = key /\ Standing(rows)' = Standing(q)
  <2>1. rows' = q /\ chain' = chain
    BY <1>30, <1>32, <1>33 DEF chainVars
  <2> QED
    BY <1>14, <2>1 DEF BlockOf, Standing
<1>38. ASSUME NEW v \in Workers, NEW t, worker[v] = t, Rewinding(t)
       PROVE  Spent(t)'
  <2>1. PICK l : l = checkpoint.lastScanned
    OBVIOUS
  <2>2. ReadOK(t) /\ t.expected = checkpoint /\ l \in Nat
        /\ (t.pc # "candidates" => t.stale = stale)
    <3>1. ReadOK(t) /\ Fresh(t)
      BY <1>1, <1>38 DEF Reads, ReadOK, Spent
    <3>2. t.pc # "candidates" => t.target = T
      BY <1>3, <1>38, <3>1 DEF ReadOK, Rewinding, Fresh
    <3> QED
      BY <1>1, <1>5, <2>1, <3>1, <3>2, InvFacts DEF Fresh
  <2>3. HashAt(l)' = HashAt(l)
    BY <1>37 DEF HashAt
  <2>4. CASE checkpoint.hash \notin {Unset, HashAt(l)}
    BY <1>35, <2>1, <2>2, <2>3, <2>4 DEF Spent
  <2>5. CASE checkpoint.hash \in {Unset, HashAt(l)}
    <3>1. l <= k
      BY <1>6, <2>1, <2>5 DEF CheckpointMismatch, AgreesTo
    <3>2. ASSUME NEW n \in 1..l, chain[n].event # NoEvent
          PROVE  chain[n].event \in Standing(q) /\ q[chain[n].event].block = n
      <4>1. n \in 1..k
        BY <1>7, <2>2, <3>1
      <4> QED
        BY <1>30, <1>31, <3>2, <4>1 DEF Follows
    <3>3. stale \subseteq Events \ Standing(q)
      BY <1>11, <1>16 DEF Standing
    <3>4. Lists(Ordered(stale, key), stale, key)
      BY <1>17, <1>18
    <3>5. stale # {} => Lists(q[Ordered(stale, key)[1]].undo, Standing(q), key)
      BY <1>17, <1>21, <1>24, <1>26
    <3>6. Repeats(t)'
      BY <1>37, <2>1, <2>2, <3>2, <3>3, <3>4, <3>5 DEF Repeats
    <3> QED
      BY <1>35, <3>6 DEF Spent
  <2> QED
    BY <2>4, <2>5
<1>39. Reads'
  BY <1>1, <1>33, <1>35, <1>36, <1>38, StoredReads
<1> QED
  BY <1>35, <1>39 DEF IndexerInv

(* A rewind that repeats another's moves the cursor and nothing else.         *)
LEMMA RepeatedRewindInv ==
    ASSUME IndexerInv, NEW w \in Workers, Rewind(w), Clean
    PROVE  IndexerInv'
<1>1. NodeOK /\ RowsOK /\ Listed(rows, projection, effects) /\ CursorOK /\ Fork /\ Reads
  BY DEF IndexerInv
<1>2. PICK o : o = worker[w]
  OBVIOUS
<1>3. PICK T : T = RewindTarget(checkpoint.lastScanned)
  OBVIOUS
<1>4. PICK stale : stale = o.stale
  OBVIOUS
<1>5. /\ Rewinding(o) /\ o.pc = "rewind" /\ o.expected = checkpoint
      /\ o.target = T /\ o.targetHash = HashAt(T) /\ Spent(o)
  <2>1. ReadOK(o) /\ o.pc = "rewind" /\ o.expected = checkpoint
    BY <1>1, <1>2 DEF Reads, Rewind, CheckpointUnchanged
  <2>2. Rewinding(o)
    BY <2>1 DEF Rewinding
  <2>3. Spent(o)
    BY <1>1, <2>1, <2>2, CleanSpent
  <2> QED
    BY <1>3, <2>1, <2>2, <2>3 DEF ReadOK
<1>6. PICK k \in 0..SafeHead : k \in 0..Len(chain) /\ AgreesTo(k)
  BY <1>1, ForkBelowHead
<1>7. Follows(Tables, k)
  BY <1>1, <1>6, CleanFollows
<1>8. /\ k \in Nat /\ T \in 0..k /\ MaxHeight \in Nat /\ checkpoint.lastScanned \in Nat
      /\ \A ev \in Standing(rows) : rows[ev].block \in 1..MaxHeight
  <2>1. SafeHead \in Nat /\ checkpoint.lastScanned \in Nat /\ T \in Nat
    BY <1>1, <1>3, InvFacts
  <2>2. T <= k
    BY <1>3, <1>6 DEF AgreesTo
  <2> QED
    BY <1>1, <2>1, <2>2, RowsBelow
<1>9. PICK r : r = rows
  OBVIOUS
<1>10. PICK key : key = BlockOf(r)
  OBVIOUS
<1>11. PICK s : s = Ordered(stale, key)
  OBVIOUS
<1>12. /\ stale \subseteq Events \ Standing(r) /\ Lists(s, stale, key)
       /\ stale # {} => Lists(r[s[1]].undo, Standing(r), key)
  <2>1. Repeats(o)
    BY <1>1, <1>5, <1>8 DEF Spent, Clean, CheckpointMismatch
  <2> QED
    BY <1>4, <1>5, <1>9, <1>10, <1>11, <2>1 DEF Repeats
<1>13. /\ r \in [Events -> RowType] /\ Keyed(Standing(r), key)
       /\ Lists(projection, Standing(r), key) /\ Lists(effects, Standing(r), key)
       /\ \A ev \in Events : key[ev] = r[ev].block /\ r[ev].block \in Nat
  BY <1>1, <1>9, <1>10, BlocksAreKeys DEF RowsOK, Listed
<1>14. [ev \in Events |-> IF ev \in stale
                          THEN [rows[ev] EXCEPT !.canonical = FALSE] ELSE rows[ev]] = r
  <2>1. ASSUME NEW ev \in Events
        PROVE  (IF ev \in stale THEN [rows[ev] EXCEPT !.canonical = FALSE] ELSE rows[ev]) = r[ev]
    <3>1. r[ev] \in RowType
      BY <1>13
    <3>2. ev \in stale => r[ev].canonical = FALSE
      BY <1>12, <3>1 DEF Standing, RowType
    <3> QED
      BY <1>9, <3>1, <3>2 DEF RowType
  <2>2. r = [ev \in Events |-> r[ev]]
    BY <1>13
  <2> QED
    BY <2>1, <2>2
<1>15. PICK z : z = Reverse(s)
  OBVIOUS
<1>16. z = LatestFirst(stale)
  BY <1>9, <1>10, <1>11, <1>15 DEF LatestFirst
<1>17. /\ Len(s) \in Nat /\ Len(z) = Len(s)
       /\ Len(s) > 0 => z[Len(z)] = s[1] /\ stale # {}
  <2>1. s \in Seq(stale)
    BY <1>12 DEF Lists
  <2>2. Len(s) \in Nat /\ \A i \in 1..Len(s) : s[i] \in stale
    BY <2>1, ListPositions
  <2>3. z = [i \in 1..Len(s) |-> s[Len(s) - i + 1]]
    BY <1>15 DEF Reverse
  <2>4. \A i \in 1..Len(s) : s[Len(s) - i + 1] \in stale
    <3>1. \A i \in 1..Len(s) : Len(s) - i + 1 \in 1..Len(s)
      BY <2>2
    <3> QED
      BY <2>2, <3>1
  <2>5. Len(z) = Len(s)
    BY <2>2, <2>3, <2>4, AsSequence
  <2>6. ASSUME Len(s) > 0 PROVE z[Len(z)] = s[1] /\ stale # {}
    <3>1. Len(s) \in 1..Len(s) /\ 1 \in 1..Len(s)
      BY <2>2, <2>6
    <3> QED
      BY <2>2, <2>3, <2>5, <3>1
  <2> QED
    BY <2>2, <2>5, <2>6
<1>18. PICK db : db = [Tables EXCEPT !.rows = r]
  OBVIOUS
<1>19. /\ db = Restored(db, db.effects) /\ db.rows = r /\ db.effects = effects
       /\ db.projection = projection
  BY <1>18 DEF Tables, Restored
<1>20. UndoEvents(db, z) = Restored(db, effects)
  <2>1. UndoEvents(db, z) =
            Restored(db, IF Len(z) = 0 THEN effects ELSE r[z[Len(z)]].undo)
    BY <1>17, <1>19, UndoEventsLast
  <2>2. Len(z) # 0 => r[z[Len(z)]].undo = effects
    <3>1. ASSUME Len(z) # 0 PROVE Lists(r[z[Len(z)]].undo, Standing(r), key)
      BY <1>12, <1>17, <3>1
    <3> QED
      BY <1>13, <3>1, ListUnique
  <2> QED
    BY <2>1, <2>2
<1>21. History(r, 1..MaxHeight) = projection
  <2>1. CanonicalRows(r, 1..MaxHeight) = Standing(r)
    BY <1>8, <1>9 DEF CanonicalRows, Standing
  <2> QED
    BY <1>10, <1>13, <2>1, OrderedLists DEF History
<1>22. rows' = rows /\ projection' = projection /\ effects' = effects
  <2>1. StoreTables([UndoEvents(db, z) EXCEPT !.projection =
                        IF stale = {} THEN @ ELSE History(r, 1..MaxHeight)])
    BY <1>2, <1>4, <1>14, <1>16, <1>18 DEF Rewind
  <2>2. UndoEvents(db, z) = [rows |-> r, projection |-> projection, effects |-> effects,
                             failed |-> db.failed]
    BY <1>19, <1>20 DEF Restored
  <2> QED
    BY <1>9, <1>21, <2>1, <2>2 DEF StoreTables
<1>23. /\ checkpoint' = [checkpoint EXCEPT !.lastScanned = T, !.hash = HashAt(T)]
       /\ worker' = [worker EXCEPT ![w] = [pc |-> "scan"]] /\ UNCHANGED chainVars
  BY <1>2, <1>5 DEF Rewind
<1>24. /\ checkpoint' = [lastScanned |-> checkpoint'.lastScanned,
                         hash |-> checkpoint'.hash, replay |-> checkpoint'.replay]
       /\ checkpoint'.replay \in BOOLEAN
       /\ checkpoint'.lastScanned = T /\ checkpoint'.hash = HashAt(T)
  <2>1. checkpoint \in [lastScanned : Nat, hash : Nat \cup {Unset}, replay : BOOLEAN]
    BY <1>1 DEF CursorOK
  <2> QED
    BY <1>23, <2>1
<1>25. PICK d : d = Tables
  OBVIOUS
<1>26. rows' = d.rows /\ projection' = d.projection /\ effects' = d.effects
  BY <1>22, <1>25 DEF Tables
<1>27. /\ NodeOK' /\ RowsOK' /\ Listed(rows, projection, effects)' /\ CursorOK' /\ Fork'
       /\ Clean'
  BY <1>1, <1>6, <1>7, <1>8, <1>23, <1>24, <1>25, <1>26, StoredInv
<1>28. ReadOK([pc |-> "scan"])' /\ ~Rewinding([pc |-> "scan"])
  BY <1>27 DEF ReadOK, Rewinding
<1>29. ASSUME NEW v \in Workers, NEW t, worker[v] = t, Rewinding(t)
       PROVE  Spent(t)'
  <2>1. ReadOK(t) /\ Spent(t)
    BY <1>1, <1>29, CleanSpent DEF Reads
  <2>2. t.expected = checkpoint
    BY <1>1, <1>2, <1>5, <1>29 DEF Reads, Together
  <2>3. Repeats(t)
    BY <1>8, <2>1, <2>2 DEF Spent, Clean, CheckpointMismatch
  <2>4. Repeats(t)'
    BY <1>22, <1>23, <2>3, RepeatsStays DEF chainVars
  <2> QED
    BY <1>27, <2>4 DEF Spent
<1>30. Reads'
  BY <1>1, <1>23, <1>27, <1>28, <1>29, StoredReads
<1> QED
  BY <1>27, <1>30 DEF IndexerInv

(* A replay moves the cursor back and leaves the projection as it is.         *)
LEMMA RequestReplayInv ==
    ASSUME IndexerInv, NEW from \in 1..(checkpoint.lastScanned + 1), RequestReplay(from),
           "latest" \notin Replayed
    PROVE  IndexerInv'
<1>1. NodeOK /\ RowsOK /\ Listed(rows, projection, effects) /\ CursorOK /\ Fork /\ Reads
  BY DEF IndexerInv
<1>2. finality = "safe"
  BY <1>1, InvFacts DEF RequestReplay
<1>3. Clean
  BY <1>1, <1>2 DEF CursorOK
<1>4. PICK k \in 0..SafeHead : k \in 0..Len(chain) /\ AgreesTo(k)
  BY <1>1, ForkBelowHead
<1>5. Follows(Tables, k) /\ checkpoint.lastScanned <= k
  BY <1>1, <1>3, <1>4, CleanFollows
<1>6. /\ MaxHeight \in Nat /\ checkpoint.lastScanned \in Nat /\ k \in Nat
      /\ \A ev \in Standing(rows) : rows[ev].block \in 1..MaxHeight
  BY <1>1, <1>4, RowsBelow, InvFacts
<1>7. projection' = projection
  <2>1. CanonicalRows(rows, 1..MaxHeight) = Standing(rows)
    BY <1>6 DEF CanonicalRows, Standing
  <2>2. rows \in [Events -> RowType] /\ Lists(projection, Standing(rows), BlockOf(rows))
    BY <1>1 DEF RowsOK, Listed
  <2>3. Keyed(Standing(rows), BlockOf(rows))
    BY <2>2, BlocksAreKeys
  <2>4. History(rows, 1..MaxHeight) = projection
    BY <2>1, <2>2, <2>3, OrderedLists DEF History
  <2> QED
    BY <2>4 DEF RequestReplay
<1>8. PICK a : a = from - 1
  OBVIOUS
<1>9. a \in 0..k
  BY <1>5, <1>6, <1>8
<1>10. PICK d : d = Tables
  OBVIOUS
<1>11. rows' = d.rows /\ projection' = d.projection /\ effects' = d.effects
  BY <1>7, <1>10 DEF RequestReplay, Tables
<1>12. /\ UNCHANGED chainVars /\ worker' = worker
       /\ checkpoint' = [lastScanned |-> checkpoint'.lastScanned,
                         hash |-> checkpoint'.hash, replay |-> checkpoint'.replay]
       /\ checkpoint'.replay \in BOOLEAN
       /\ checkpoint'.lastScanned = a /\ checkpoint'.hash = Unset
  BY <1>8 DEF RequestReplay
<1>13. /\ NodeOK' /\ RowsOK' /\ Listed(rows, projection, effects)' /\ CursorOK' /\ Fork'
       /\ Clean'
  BY <1>1, <1>2, <1>4, <1>5, <1>9, <1>10, <1>11, <1>12, StoredInv
<1>14. ASSUME NEW v \in Workers PROVE ReadOK(worker[v])'
  <2>1. PICK t : t = worker[v]
    OBVIOUS
  <2>2. ReadOK(t) /\ ~Rewinding(t)
    BY <1>1, <1>2, <2>1 DEF Reads, ReadOK
  <2>3. ReadOK(t)'
    BY <1>12, <1>13, <2>2, OtherReads
  <2> QED
    BY <1>12, <2>1, <2>3
<1>15. Reads'
  <2>1. Together'
    BY <1>1, <1>12 DEF Reads, Together, Rewinding
  <2> QED
    BY <1>1, <1>12, <1>14, <2>1 DEF Reads
<1> QED
  BY <1>13, <1>15 DEF IndexerInv

-----------------------------------------------------------------------------
(* The theorems *)

(* How the worker is deployed: with finality latest the chain does not        *)
(* reorganise while a worker ticks, and the operator does not replay          *)
Deployment ==
    /\ "latest" \in Finalities => QuietTicks
    /\ "latest" \notin Replayed

LEMMA InitInv ==
    ASSUME Init
    PROVE  IndexerInv
<1>1. /\ finality \in Finalities /\ chain = <<>> /\ safe = 0 /\ mined = 0
      /\ rows = [ev \in Events |-> NoRow] /\ projection = <<>> /\ effects = <<>>
      /\ checkpoint = [lastScanned |-> 0, hash |-> Unset, replay |-> FALSE]
      /\ worker = [w \in Workers |-> Idle]
  BY DEF Init
<1>2. Len(chain) = 0 /\ MaxHeight \in Nat /\ ReorgWindow \in Nat
  BY <1>1, IndexerAssumption
<1>3. Standing(rows) = {}
  BY <1>1 DEF Standing, NoRow
<1>4. NodeOK
  <2>1. chain \in Seq([hash : 1..mined, event : Events \cup {NoEvent}])
    BY <1>1
  <2> QED
    BY <1>1, <1>2, <2>1 DEF NodeOK
<1>5. RowsOK
  <2>1. <<>> \in Seq(Events)
    OBVIOUS
  <2>2. NoRow \in RowType
    BY <2>1 DEF NoRow, RowType
  <2> QED
    BY <1>1, <1>3, <2>2 DEF RowsOK
<1>6. Listed(rows, projection, effects)
  BY <1>1, <1>3, ListEmpty DEF Listed
<1>7. ~CheckpointMismatch
  BY <1>1 DEF CheckpointMismatch
<1>8. Clean
  BY <1>3, <1>7 DEF Clean
<1>9. CursorOK
  BY <1>1, <1>2, <1>8 DEF CursorOK, SafeHead, Unset
<1>10. Fork
  <2>1. RewindTarget(checkpoint.lastScanned) <= 0
    BY <1>1, <1>2 DEF RewindTarget
  <2>2. AgreesTo(0)
    BY <1>1, <1>3, <2>1 DEF AgreesTo
  <2> QED
    BY <1>2, <2>2 DEF Fork
<1>11. Reads
  BY <1>1 DEF Reads, Together, ReadOK, Rewinding, Idle
<1> QED
  BY <1>4, <1>5, <1>6, <1>9, <1>10, <1>11 DEF IndexerInv

LEMMA NextInv ==
    ASSUME Deployment, IndexerInv, [Next]_vars
    PROVE  IndexerInv'
<1>2. CASE Node
  <2>1. finality = "latest" => QuietTicks
    BY DEF Deployment, IndexerInv, NodeOK
  <2> QED
    BY <1>2, <2>1, NodeInv
<1>3. ASSUME NEW w \in Workers, WorkerStep(w)
      PROVE  IndexerInv'
  <2>2. CASE DetectReorg(w)
    BY <2>2, DetectReorgInv
  <2>3. CASE CollectStale(w)
    BY <2>3, CollectStaleInv
  <2>4. CASE ReadTarget(w)
    BY <2>4, ReadTargetInv
  <2>5. CASE Rewind(w)
    BY <2>5, FirstRewindInv, RepeatedRewindInv
  <2>6. CASE NothingToScan(w)
    BY <2>6, StopInv
  <2>7. CASE \E to \in 1..MaxHeight : GetLogs(w, to)
    BY <2>7, GetLogsInv
  <2>8. CASE GetBlocks(w)
    BY <2>8, GetBlocksInv
  <2>9. CASE CommitScan(w)
    BY <2>9, CommitScanInv
  <2> QED
    BY <1>3, <2>2, <2>3, <2>4, <2>5, <2>6, <2>7, <2>8, <2>9 DEF WorkerStep
<1>4. ASSUME NEW w \in Workers, Abort(w)
      PROVE  IndexerInv'
  BY <1>4, StopInv
<1>5. CASE \E from \in 1..(checkpoint.lastScanned + 1) : RequestReplay(from)
  BY <1>5, RequestReplayInv DEF Deployment
<1>6. CASE UNCHANGED vars
  <2>1. UNCHANGED <<chainVars, dbVars>> /\ worker' = worker
    BY <1>6 DEF vars
  <2>2. NodeOK /\ RowsOK /\ Listed(rows, projection, effects) /\ CursorOK /\ Fork /\ Reads
    BY DEF IndexerInv
  <2>3. NodeOK' /\ RowsOK' /\ Listed(rows, projection, effects)' /\ CursorOK' /\ Fork'
    BY <2>1, <2>2, SameTables
  <2>4. ASSUME NEW v \in Workers PROVE ReadOK(worker[v])'
    <3>1. PICK t : t = worker[v]
      OBVIOUS
    <3>2. ReadOK(t)
      BY <2>2, <3>1 DEF Reads
    <3>3. ReadOK(t)'
      BY <2>1, <3>2, SameReads
    <3> QED
      BY <2>1, <3>1, <3>3
  <2>5. Reads'
    BY <2>1, <2>2, <2>4 DEF Reads, Together, Rewinding
  <2> QED
    BY <2>3, <2>5 DEF IndexerInv
<1> QED
  BY <1>2, <1>3, <1>4, <1>5, <1>6 DEF Next

(* The indexer's tables, its cursor and what each worker has read are always  *)
(* consistent with the chain as IndexerInv says.                              *)
THEOREM AlwaysIndexerInv ==
    ASSUME Deployment
    PROVE  Spec => []IndexerInv
<1>1. Init => IndexerInv
  BY InitInv
<1>2. IndexerInv /\ [Next]_vars => IndexerInv'
  BY NextInv
<1> QED
  BY <1>1, <1>2, PTL DEF Spec

(* tables that follow the chain to its safe head hold its history *)
LEMMA HistoryOfChain ==
    ASSUME NodeOK, NEW m \in 0..Len(chain), Follows(Tables, m)
    PROVE  projection = ChainHistory(m) /\ Standing(rows) = EventsOn(SubSeq(chain, 1, m))
<1>1. PICK r : r = rows
  OBVIOUS
<1>2. PICK logs : logs = LogsBetween(1, m)
  OBVIOUS
<1>3. m \in Nat /\ Len(chain) \in Nat /\ m <= Len(chain) /\ chain \in Seq([hash : 1..mined, event : Events \cup {NoEvent}])
  BY ListPositions DEF NodeOK
<1>4. Covers(logs, 1, m)
  BY <1>2, <1>3, LogsOfBlocks
<1>5. PICK l : l = Len(logs)
  OBVIOUS
<1>6. /\ l \in Nat /\ DOMAIN logs = 1..l
      /\ \A i \in 1..l : /\ logs[i].block \in 1..m /\ chain[logs[i].block].event # NoEvent
                         /\ logs[i].event = chain[logs[i].block].event
      /\ \A n \in 1..m : chain[n].event # NoEvent => \E i \in 1..l : logs[i].block = n
      /\ \A i, j \in 1..l : i < j => logs[i].block < logs[j].block
  BY <1>4, <1>5, Zenon DEF Covers
<1>7. /\ r \in [Events -> RowType]
      /\ \A ev \in Standing(r) : r[ev].block \in 1..m /\ chain[r[ev].block].event = ev
      /\ \A n \in 1..m : chain[n].event # NoEvent =>
            chain[n].event \in Standing(r) /\ r[chain[n].event].block = n
      /\ Lists(projection, Standing(r), BlockOf(r))
  BY <1>1 DEF Follows, Tables, Listed
<1>8. /\ Keyed(Standing(r), BlockOf(r)) /\ Standing(r) \subseteq Events /\ NoEvent \notin Standing(r)
      /\ \A ev \in Events : BlockOf(r)[ev] = r[ev].block
  BY <1>7, BlocksAreKeys, IndexerAssumption DEF Standing
<1>9. PICK h : h = [i \in DOMAIN logs |-> logs[i].event]
  OBVIOUS
<1>10. ASSUME NEW i \in 1..l
       PROVE  logs[i].event \in Standing(r) /\ BlockOf(r)[logs[i].event] = logs[i].block
  <2>1. PICK b : b = logs[i].block
    OBVIOUS
  <2>2. b \in 1..m /\ chain[b].event # NoEvent /\ logs[i].event = chain[b].event
    BY <1>6, <2>1
  <2>3. chain[b].event \in Standing(r) /\ r[chain[b].event].block = b
    BY <1>7, <2>2
  <2> QED
    BY <1>8, <2>1, <2>2, <2>3
<1>11. h \in [1..l -> Standing(r)] /\ \A i \in 1..l : h[i] = logs[i].event
  BY <1>6, <1>9, <1>10
<1>12. h \in Seq(Standing(r)) /\ Len(h) = l
  <2>1. PICK S : S = Standing(r)
    OBVIOUS
  <2>2. l \in Nat /\ h \in [1..l -> S]
    BY <1>6, <1>11, <2>1
  <2>3. h \in Seq(S) /\ Len(h) = l
    BY <2>2, AsSequence
  <2> QED
    BY <2>1, <2>3
<1>13. ASSUME NEW ev \in Standing(r) PROVE \E i \in 1..l : h[i] = ev
  <2>1. PICK b : b = r[ev].block
    OBVIOUS
  <2>2. b \in 1..m /\ chain[b].event = ev /\ ev # NoEvent
    BY <1>7, <1>8, <2>1
  <2>3. PICK i \in 1..l : logs[i].block = b
    BY <1>6, <2>2
  <2> QED
    BY <1>6, <1>11, <2>2, <2>3
<1>14. Lists(h, Standing(r), BlockOf(r))
  <2>1. \A i \in 1..l : BlockOf(r)[h[i]] = logs[i].block
    BY <1>10, <1>11
  <2>2. \A i, j \in 1..l : i < j => BlockOf(r)[h[i]] < BlockOf(r)[h[j]]
    BY <1>6, <2>1
  <2> QED
    BY <1>12, <1>13, <2>2 DEF Lists
<1>15. projection = h
  BY <1>7, <1>8, <1>14, ListUnique
<1>16. projection = ChainHistory(m)
  BY <1>2, <1>9, <1>15 DEF ChainHistory
<1>17. PICK c : c = SubSeq(chain, 1, m)
  OBVIOUS
<1>18. DOMAIN c = 1..m /\ \A i \in 1..m : c[i] = chain[i]
  <2>1. /\ c \in Seq([hash : 1..mined, event : Events \cup {NoEvent}]) /\ Len(c) = m
        /\ \A i \in 1..m : c[i] = chain[i]
    BY <1>3, <1>17, PrefixFacts
  <2> QED
    BY <2>1, ListPositions
<1>19. Standing(r) = EventsOn(c)
  <2>1. ASSUME NEW ev \in Standing(r) PROVE ev \in EventsOn(c)
    BY <1>7, <1>8, <1>18 DEF EventsOn
  <2>2. ASSUME NEW ev \in EventsOn(c) PROVE ev \in Standing(r)
    BY <1>7, <1>18 DEF EventsOn
  <2> QED
    BY <2>1, <2>2
<1> QED
  BY <1>1, <1>16, <1>17, <1>19

(* A cursor that has caught up has lost and invented nothing: the projection  *)
(* folds exactly the events on the node's chain up to the safe head, in chain *)
(* order, and exactly those are canonical (scanner.ts, reorg.ts, replay.ts).  *)
THEOREM AlwaysAgreement ==
    ASSUME Deployment
    PROVE  Spec => []CaughtUpMeansAgreement
<1>1. ASSUME IndexerInv PROVE CaughtUpMeansAgreement
  <2>1. SUFFICES ASSUME CaughtUp
                 PROVE  /\ projection = ChainHistory(SafeHead)
                        /\ CanonicalRows(rows, 1..MaxHeight) = EventsOn(SubSeq(chain, 1, SafeHead))
    BY DEF CaughtUpMeansAgreement
  <2>2. NodeOK /\ RowsOK /\ Listed(rows, projection, effects) /\ CursorOK /\ Fork
    BY <1>1 DEF IndexerInv
  <2>3. PICK k \in 0..SafeHead : k \in 0..Len(chain) /\ AgreesTo(k)
    BY <2>2, ForkBelowHead
  <2>4. /\ SafeHead \in Nat /\ SafeHead <= Len(chain) /\ Len(chain) \in Nat
        /\ Len(chain) <= MaxHeight /\ MaxHeight \in Nat
        /\ \A ev \in Standing(rows) : rows[ev].block \in 1..Len(chain) /\ rows[ev].block <= SafeHead
    BY <2>2, InvFacts, IndexerAssumption DEF NodeOK
  <2>5. ~CheckpointMismatch /\ checkpoint.lastScanned = SafeHead
    BY <2>1 DEF CaughtUp, CheckpointMismatch
  <2>6. k = SafeHead
    BY <2>3, <2>4, <2>5 DEF AgreesTo
  <2>7. Clean
    BY <2>3, <2>4, <2>5, <2>6 DEF Clean, AgreesTo
  <2>8. Follows(Tables, SafeHead) /\ SafeHead \in 0..Len(chain)
    BY <2>2, <2>3, <2>6, <2>7, CleanFollows
  <2>9. CanonicalRows(rows, 1..MaxHeight) = Standing(rows)
    BY <2>4 DEF CanonicalRows, Standing
  <2> QED
    BY <2>2, <2>8, <2>9, HistoryOfChain
<1>2. Spec => []IndexerInv
  BY AlwaysIndexerInv
<1> QED
  BY <1>1, <1>2, PTL

(* The effects on other tables stand exactly for the events in the projection, *)
(* in its order, whatever was scanned, rewound and replayed (reorg.ts, undo.ts). *)
THEOREM AlwaysEffectsFollow ==
    ASSUME Deployment
    PROVE  Spec => []EffectsFollowProjection
<1>1. ASSUME IndexerInv PROVE EffectsFollowProjection
  <2>1. /\ Lists(projection, Standing(rows), BlockOf(rows))
        /\ Lists(effects, Standing(rows), BlockOf(rows)) /\ rows \in [Events -> RowType]
    BY <1>1 DEF IndexerInv, RowsOK, Listed
  <2>2. Keyed(Standing(rows), BlockOf(rows))
    BY <2>1, BlocksAreKeys
  <2> QED
    BY <2>1, <2>2, ListUnique DEF EffectsFollowProjection
<1>2. Spec => []IndexerInv
  BY AlwaysIndexerInv
<1> QED
  BY <1>1, <1>2, PTL
=============================================================================
