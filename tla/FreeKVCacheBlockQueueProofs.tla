--------------------- MODULE FreeKVCacheBlockQueueProofs ---------------------
(***************************************************************************)
(* The linked list of free blocks, for any number of blocks: it is always  *)
(* well linked, its counter is its length, and every pointer operation is  *)
(* the operation of FreeBlockQueue that it stands for.                     *)
(*                                                                         *)
(* The invariant says that the pointers are those of some chain of nodes   *)
(* from the fake head to the fake tail.  Every operation cuts a segment    *)
(* out of the chain or inserts one.                                        *)
(***************************************************************************)
EXTENDS FreeKVCacheBlockQueue, FiniteSetTheorems, WellFoundedInduction, TLAPS

\* The pointers are those of the chain c of n blocks between the fake ends; a
\* node outside the chain points nowhere.
Linked(c, n) ==
    /\ n \in Nat
    /\ c \in [0 .. n + 1 -> Node]
    /\ c[0] = FakeHead /\ c[n + 1] = FakeTail
    /\ \A i, j \in 0 .. n + 1 : c[i] = c[j] => i = j
    /\ \A i \in 0 .. n : next_free_block[c[i]] = c[i + 1] /\ prev_free_block[c[i + 1]] = c[i]
    /\ next_free_block[FakeTail] = None /\ prev_free_block[FakeHead] = None
    /\ \A x \in Node : (\A i \in 0 .. n + 1 : c[i] # x) =>
          next_free_block[x] = None /\ prev_free_block[x] = None

PointerTypes ==
    /\ prev_free_block \in [Node -> Node \cup {None}]
    /\ next_free_block \in [Node -> Node \cup {None}]

IInv ==
    /\ PointerTypes
    /\ \E n \in Nat : \E c \in [0 .. n + 1 -> Node] : Linked(c, n) /\ num_free_blocks = n

-----------------------------------------------------------------------------
(* The list that get_all_free_blocks walks is the chain. *)

\* The nodes are the numbers from the fake head to the fake tail.
LEMMA NodeFacts ==
  /\ NumBlocks \in Nat \ {0} /\ Node = -1 .. NumBlocks
  /\ None \notin Node /\ FakeHead \in Node /\ FakeTail \in Node /\ FakeHead # FakeTail
  /\ \A x \in Node : x \in Block <=> x # FakeHead /\ x # FakeTail
  BY NumBlocksAssumption DEF Node, Block, FakeHead, FakeTail, None

\* A set of numbers that is not empty has a least one.
LEMMA Least ==
  ASSUME NEW T \in SUBSET Nat, T # {}
  PROVE  \E x \in T : \A y \in T : x <= y
  <1>1. PICK x \in T : \A y \in T : ~(<<y, x>> \in OpToRel(<, Nat))
    BY NatLessThanWellFounded, WFMin, Zenon
  <1>2. \A y \in T : ~(y < x)
    BY <1>1, Zenon DEF OpToRel
  <1> QED
    BY <1>2

\* A chain has no more blocks than there are.
LEMMA ChainFits ==
  ASSUME NEW n \in Nat, NEW c \in [0 .. n + 1 -> Node],
         \A i, j \in 0 .. n + 1 : c[i] = c[j] => i = j
  PROVE  n <= NumBlocks
  <1>1. c \in Injection(0 .. n + 1, Node)
    BY Zenon DEF Injection, IsInjective
  <1>2. IsFiniteSet(Node) /\ Cardinality(Node) = NumBlocks + 2
    BY NodeFacts, FS_Interval
  <1>3. Cardinality(0 .. n + 1) = n + 2
    BY FS_Interval
  <1>4. Cardinality(0 .. n + 1) <= Cardinality(Node)
    BY <1>1, <1>2, FS_Injection, Zenon
  <1> QED
    BY <1>2, <1>3, <1>4, NodeFacts

\* Walking from the fake head visits the nodes of the chain in their order.
LEMMA WalkIsChain ==
  ASSUME NEW n, NEW c, Linked(c, n)
  PROVE  /\ n <= NumBlocks
         /\ \A k \in 0 .. NumBlocks + 1 : Walk[k] = IF k <= n + 1 THEN c[k] ELSE None
  <1> DEFINE D == 0 .. NumBlocks + 1
             w == [k \in D |-> IF k <= n + 1 THEN c[k] ELSE None]
  <1>1. n \in Nat /\ n <= NumBlocks /\ c \in [0 .. n + 1 -> Node]
    BY ChainFits, Zenon DEF Linked
  <1>2. /\ w[0] = FakeHead
        /\ \A k \in D \ {0} : k - 1 \in D /\ w[k] = Follow(w[k - 1])
    BY <1>1, NodeFacts DEF Linked, Follow
  <1>3. w = [k \in D |-> IF k = 0 THEN FakeHead ELSE Follow(w[k - 1])]
    BY <1>1, <1>2, Zenon
  <1>4. Walk = [k \in D |-> IF k = 0 THEN FakeHead ELSE Follow(Walk[k - 1])]
    BY <1>3, Zenon DEF Walk
  <1>5. \A k \in D : Walk[k] = w[k]
    <2> DEFINE T == {k \in D : Walk[k] # w[k]}
    <2> SUFFICES ASSUME T # {} PROVE FALSE
      BY Zenon
    <2>1. PICK k \in T : \A l \in T : k <= l
      <3>1. T \in SUBSET Nat
        BY NodeFacts
      <3> HIDE DEF T
      <3> QED
        BY <3>1, Least, Zenon
    <2>2. k # 0
      BY <1>2, <1>4, <2>1, NodeFacts, Zenon
    <2>3. Walk[k - 1] = w[k - 1]
      BY <2>1, <2>2, NodeFacts
    <2> QED
      BY <1>2, <1>4, <2>1, <2>2, <2>3
  <1> QED
    BY <1>1, <1>5, Zenon

\* The list that get_all_free_blocks returns is the chain without its ends.
LEMMA ListIsChain ==
  \A n \in Nat : \A c \in [0 .. n + 1 -> Node] :
     Linked(c, n) => get_all_free_blocks = [k \in 1 .. n |-> c[k]]
  <1> SUFFICES ASSUME NEW n \in Nat, NEW c \in [0 .. n + 1 -> Node], Linked(c, n)
               PROVE  get_all_free_blocks = [k \in 1 .. n |-> c[k]]
    BY Zenon
  <1> DEFINE seen == {k \in 1 .. NumBlocks + 1 : Follow(Walk[k]) # None}
  <1>1. n <= NumBlocks /\ \A k \in 1 .. NumBlocks + 1 : Walk[k] = IF k <= n + 1 THEN c[k] ELSE None
    BY WalkIsChain, NodeFacts
  <1>2. \A k \in 1 .. NumBlocks + 1 : Follow(Walk[k]) # None <=> k <= n
    <2>1. TAKE k \in 1 .. NumBlocks + 1
    <2>2. CASE k <= n
      BY <1>1, <2>2, NodeFacts, SMTT(20) DEF Linked, Follow
    <2>3. CASE k > n
      BY <1>1, <2>3, NodeFacts DEF Linked, Follow
    <2> QED
      BY <2>2, <2>3, NodeFacts
  <1>3. seen = 1 .. n
    BY <1>1, <1>2, NodeFacts
  <1>4. get_all_free_blocks = [k \in 1 .. Cardinality(seen) |-> Walk[k]]
    BY Zenon DEF get_all_free_blocks
  <1> HIDE DEF seen
  <1>5. Cardinality(1 .. n) = n
    BY FS_Interval
  <1>6. get_all_free_blocks = [k \in 1 .. n |-> Walk[k]]
    BY <1>3, <1>4, <1>5, Zenon
  <1>7. \A k \in 1 .. n : Walk[k] = c[k]
    BY <1>1, NodeFacts
  <1> QED
    BY <1>6, <1>7, Zenon

\* A chain is a list that is linked in both directions, and the blocks outside
\* it are those that are held.
LEMMA ChainIsConsistent ==
  ASSUME NEW n \in Nat, NEW c \in [0 .. n + 1 -> Node], Linked(c, n)
  PROVE  /\ DoublyLinked
         /\ Abstract!Elements(get_all_free_blocks) = Block \ Held
         /\ Held = {b \in Block : \A i \in 1 .. n : c[i] # b}
  <1>1. \A x \in Node : \/ \E i \in 0 .. n + 1 : c[i] = x
                        \/ next_free_block[x] = None /\ prev_free_block[x] = None
    BY Zenon DEF Linked
  <1>2. \A i \in 0 .. n + 1 : c[i] \in Node /\ (c[i] \in Block <=> i \in 1 .. n)
    <2>1. \A i \in 0 .. n + 1 : (c[i] = FakeHead <=> i = 0) /\ (c[i] = FakeTail <=> i = n + 1)
      BY DEF Linked
    <2> QED
      BY <2>1, NodeFacts
  <1>3. DoublyLinked
    <2>1. ASSUME NEW x \in Node, NEW y \in Node, next_free_block[x] = y
          PROVE  prev_free_block[y] = x
      <3>1. PICK i \in 0 .. n + 1 : c[i] = x
        BY <1>1, <2>1, NodeFacts, Zenon
      <3>2. i # n + 1
        BY <2>1, <3>1, NodeFacts DEF Linked
      <3> QED
        BY <2>1, <3>1, <3>2 DEF Linked
    <2>2. ASSUME NEW x \in Node, NEW y \in Node, prev_free_block[y] = x
          PROVE  next_free_block[x] = y
      <3>1. PICK i \in 0 .. n + 1 : c[i] = y
        BY <1>1, <2>2, NodeFacts, Zenon
      <3>2. i # 0
        BY <2>2, <3>1, NodeFacts DEF Linked
      <3>3. i - 1 \in 0 .. n /\ (i - 1) + 1 = i
        BY <3>2
      <3> QED
        BY <2>2, <3>1, <3>3 DEF Linked
    <2>3. next_free_block[FakeHead] # None
      BY <1>2, NodeFacts DEF Linked
    <2> QED
      BY <2>1, <2>2, <2>3 DEF DoublyLinked, Linked
  <1>4. \A b \in Block : prev_free_block[b] = None <=> \A i \in 1 .. n : c[i] # b
    <2>1. ASSUME NEW i \in 1 .. n
          PROVE  prev_free_block[c[i]] # None
      <3>1. i - 1 \in 0 .. n /\ (i - 1) + 1 = i
        OBVIOUS
      <3> QED
        <4>1. prev_free_block[c[i]] = c[i - 1]
          BY <3>1, Zenon DEF Linked
        <4> QED
          BY <1>2, <3>1, <4>1, NodeFacts
    <2>2. ASSUME NEW b \in Block, \A i \in 1 .. n : c[i] # b
          PROVE  prev_free_block[b] = None
      BY <1>1, <1>2, <2>2, Zenon DEF Node
    <2> QED
      BY <2>1, <2>2, Zenon
  <1>5. Held = {b \in Block : \A i \in 1 .. n : c[i] # b}
    BY <1>4, Zenon DEF Held
  <1>6. Abstract!Elements(get_all_free_blocks) = {c[i] : i \in 1 .. n}
    BY ListIsChain DEF Abstract!Elements
  <1> QED
    BY <1>2, <1>3, <1>5, <1>6

-----------------------------------------------------------------------------
(* Cutting a chain and inserting into it. *)

\* The chain c of n blocks without the m nodes after its j-th, and with the m
\* blocks bs after its j-th node.
CutFrom(c, n, j, m) == [i \in 0 .. (n - m) + 1 |-> IF i <= j THEN c[i] ELSE c[i + m]]
InsertedIn(c, n, j, m, bs) ==
    [i \in 0 .. (n + m) + 1 |->
        IF i <= j THEN c[i] ELSE IF i <= j + m THEN bs[i - j] ELSE c[i - m]]

\* The pointers go past the m nodes after the j-th, which are reset.
Cuts(c, j, m) ==
    /\ next_free_block'[c[j]] = c[j + m + 1] /\ prev_free_block'[c[j + m + 1]] = c[j]
    /\ \A i \in j + 1 .. j + m : next_free_block'[c[i]] = None /\ prev_free_block'[c[i]] = None
    /\ \A x \in Node : (\A i \in j .. j + m : c[i] # x) =>
          next_free_block'[x] = next_free_block[x]
    /\ \A x \in Node : (\A i \in j + 1 .. j + m + 1 : c[i] # x) =>
          prev_free_block'[x] = prev_free_block[x]

\* Pointing past a segment, and resetting the pointers of its nodes, leaves the
\* chain without the segment: popleft, popleft_n and remove.
LEMMA Cut ==
  ASSUME NEW n \in Nat, NEW c \in [0 .. n + 1 -> Node], Linked(c, n),
         NEW j \in Nat, NEW m \in Nat, j + m <= n, m > 0, Cuts(c, j, m)
  PROVE  /\ n - m \in Nat /\ CutFrom(c, n, j, m) \in [0 .. (n - m) + 1 -> Node]
         /\ Linked(CutFrom(c, n, j, m), n - m)'
  <1> DEFINE d == CutFrom(c, n, j, m)
  <1>1. /\ n - m \in Nat
        /\ \A i \in 0 .. j : i \in 0 .. (n - m) + 1 /\ i \in 0 .. n + 1 /\ d[i] = c[i]
        /\ \A i \in j + 1 .. (n - m) + 1 : i + m \in 0 .. n + 1 /\ i + m > j + m /\ d[i] = c[i + m]
    BY DEF CutFrom
  <1>2. d \in [0 .. (n - m) + 1 -> Node]
    BY <1>1 DEF CutFrom
  <1> HIDE DEF d
  <1>3. \A i, k \in 0 .. n + 1 : c[i] = c[k] => i = k
    BY Zenon DEF Linked
  <1>4. d[0] = FakeHead /\ d[(n - m) + 1] = FakeTail
    <2>1. /\ ((n - m) + 1) + m = n + 1 /\ (n - m) + 1 \in j + 1 .. (n - m) + 1
          /\ 0 \in 0 .. j
      BY <1>1
    <2>2. d[0] = c[0] /\ d[(n - m) + 1] = c[n + 1]
      BY <1>1, <2>1
    <2> QED
      BY <2>2, Zenon DEF Linked
  <1>5. \A i, k \in 0 .. (n - m) + 1 : d[i] = d[k] => i = k
    BY <1>1, <1>3
  <1>6. \A i \in 0 .. n - m : next_free_block'[d[i]] = d[i + 1] /\ prev_free_block'[d[i + 1]] = d[i]
    <2>1. TAKE i \in 0 .. n - m
    <2>2. CASE i < j
      <3>1. /\ d[i] = c[i] /\ d[i + 1] = c[i + 1] /\ i \in 0 .. n /\ i + 1 \in 0 .. n + 1
            /\ c[i] \in Node /\ c[i + 1] \in Node
        BY <1>1, <2>2
      <3>2. /\ \A k \in j .. j + m : c[k] # c[i]
            /\ \A k \in j + 1 .. j + m + 1 : c[k] # c[i + 1]
        BY <1>1, <1>3, <2>2, <3>1
      <3>3. next_free_block'[c[i]] = next_free_block[c[i]]
            /\ prev_free_block'[c[i + 1]] = prev_free_block[c[i + 1]]
        BY <3>1, <3>2, Zenon DEF Cuts
      <3> QED
        BY <3>1, <3>3, Zenon DEF Linked
    <2>3. CASE i = j
      <3>1. d[j] = c[j] /\ d[j + 1] = c[j + m + 1]
        BY <1>1, <2>3
      <3> QED
        BY <2>3, <3>1, Zenon DEF Cuts
    <2>4. CASE i > j
      <3>1. /\ d[i] = c[i + m] /\ d[i + 1] = c[i + m + 1] /\ i + m \in 0 .. n
            /\ i + m + 1 \in 0 .. n + 1 /\ c[i + m] \in Node /\ c[i + m + 1] \in Node
        BY <1>1, <2>4
      <3>2. /\ \A k \in j .. j + m : c[k] # c[i + m]
            /\ \A k \in j + 1 .. j + m + 1 : c[k] # c[i + m + 1]
        BY <1>1, <1>3, <2>4, <3>1
      <3>3. next_free_block'[c[i + m]] = next_free_block[c[i + m]]
            /\ prev_free_block'[c[i + m + 1]] = prev_free_block[c[i + m + 1]]
        BY <3>1, <3>2, Zenon DEF Cuts
      <3> QED
        BY <3>1, <3>3, Zenon DEF Linked
    <2> QED
      BY <2>2, <2>3, <2>4
  <1>7. next_free_block'[FakeTail] = None /\ prev_free_block'[FakeHead] = None
    <2>1. /\ \A k \in j .. j + m : c[k] # c[n + 1]
          /\ \A k \in j + 1 .. j + m + 1 : c[k] # c[0]
      BY <1>1, <1>3
    <2> QED
      BY <2>1, NodeFacts, Zenon DEF Linked, Cuts
  <1>8. ASSUME NEW x \in Node, \A i \in 0 .. (n - m) + 1 : d[i] # x
        PROVE  next_free_block'[x] = None /\ prev_free_block'[x] = None
    <2>1. CASE \E i \in j + 1 .. j + m : c[i] = x
      BY <2>1, Zenon DEF Cuts
    <2>2. CASE \A i \in j + 1 .. j + m : c[i] # x
      <3>1. \A i \in 0 .. n + 1 : c[i] # x
        <4>1. TAKE i \in 0 .. n + 1
        <4>2. CASE i <= j
          BY <1>1, <1>8, <4>2
        <4>3. CASE i > j + m
          <5>1. i - m \in j + 1 .. (n - m) + 1 /\ (i - m) + m = i
            BY <1>1, <4>3
          <5> QED
            BY <1>1, <1>8, <5>1
        <4> QED
          BY <2>2, <4>2, <4>3
      <3>2. next_free_block[x] = None /\ prev_free_block[x] = None
        BY <3>1, Zenon DEF Linked
      <3> QED
        BY <3>1, <3>2 DEF Cuts
    <2> QED
      BY <2>1, <2>2, Zenon
  <1> QED
    BY <1>1, <1>2, <1>4, <1>5, <1>6, <1>7, <1>8, Zenon DEF Linked, d

\* The pointers go through the m blocks bs after the j-th node.
Inserts(c, n, j, m, bs) ==
    LET d == InsertedIn(c, n, j, m, bs) IN
    /\ \A i \in j .. j + m : next_free_block'[d[i]] = d[i + 1] /\ prev_free_block'[d[i + 1]] = d[i]
    /\ \A x \in Node : (\A i \in j .. j + m : d[i] # x) =>
          next_free_block'[x] = next_free_block[x]
    /\ \A x \in Node : (\A i \in j + 1 .. j + m + 1 : d[i] # x) =>
          prev_free_block'[x] = prev_free_block[x]

\* The blocks bs are distinct, and not in the chain.
NewBlocks(c, n, m, bs) ==
    /\ m > 0
    /\ bs \in [1 .. m -> Block]
    /\ \A i, k \in 1 .. m : bs[i] = bs[k] => i = k
    /\ \A i \in 1 .. m : \A k \in 0 .. n + 1 : bs[i] # c[k]

\* The chain d consists of the chain c and the blocks bs after its j-th node.
Composed(c, n, j, m, bs, d) ==
    /\ d \in [0 .. (n + m) + 1 -> Node]
    /\ \A i \in 0 .. j : d[i] = c[i]
    /\ \A i \in 1 .. m : d[i + j] = bs[i]
    /\ \A i \in j + 1 .. n + 1 : d[i + m] = c[i]
    /\ \A i, k \in 0 .. (n + m) + 1 : d[i] = d[k] => i = k
    /\ d[0] = FakeHead /\ d[(n + m) + 1] = FakeTail

\* Where the nodes of a chain and the blocks inserted into it are.
LEMMA InsertedFacts ==
  ASSUME NEW n \in Nat, NEW c \in [0 .. n + 1 -> Node], Linked(c, n),
         NEW j \in Nat, NEW m \in Nat, j <= n, NEW bs, NewBlocks(c, n, m, bs),
         NEW d, d = InsertedIn(c, n, j, m, bs)
  PROVE  Composed(c, n, j, m, bs, d)
  <1>1. /\ \A i \in 0 .. j : i \in 0 .. n + 1 /\ d[i] = c[i]
        /\ \A i \in j + 1 .. j + m : i - j \in 1 .. m /\ d[i] = bs[i - j]
        /\ \A i \in j + m + 1 .. (n + m) + 1 : i - m \in j + 1 .. n + 1 /\ d[i] = c[i - m]
    BY DEF InsertedIn
  <1>2. \A i \in 1 .. m : bs[i] \in Node
    BY Zenon DEF Node, NewBlocks
  <1>3. d = [i \in 0 .. (n + m) + 1 |-> d[i]]
    BY Zenon DEF InsertedIn
  <1>4. d \in [0 .. (n + m) + 1 -> Node]
    <2>1. ASSUME NEW i \in 0 .. (n + m) + 1
          PROVE  d[i] \in Node
      <3>1. i \in 0 .. j \/ i \in j + 1 .. j + m \/ i \in j + m + 1 .. (n + m) + 1
        OBVIOUS
      <3> QED
        BY <1>1, <1>2, <3>1
    <2> QED
      BY <1>3, <2>1, Zenon
  <1>5. \A i, k \in 0 .. n + 1 : c[i] = c[k] => i = k
    BY Zenon DEF Linked
  <1>6. ASSUME NEW i \in 0 .. (n + m) + 1, NEW k \in 0 .. (n + m) + 1, d[i] = d[k]
        PROVE  i = k
    <2>5. /\ \A h, l \in 1 .. m : bs[h] = bs[l] => h = l
          /\ \A h \in 1 .. m : \A l \in 0 .. n + 1 : bs[h] # c[l]
      BY Zenon DEF NewBlocks
    <2>1. /\ \/ i \in 0 .. j \/ i \in j + 1 .. j + m \/ i \in j + m + 1 .. (n + m) + 1
          /\ \/ k \in 0 .. j \/ k \in j + 1 .. j + m \/ k \in j + m + 1 .. (n + m) + 1
      OBVIOUS
    <2>2. CASE i \in j + 1 .. j + m
      BY <1>1, <1>6, <2>1, <2>2, <2>5, SMTT(20)
    <2>3. CASE k \in j + 1 .. j + m
      BY <1>1, <1>6, <2>1, <2>3, <2>5
    <2>4. CASE i \notin j + 1 .. j + m /\ k \notin j + 1 .. j + m
      <3>1. \A h \in 0 .. (n + m) + 1 : h \notin j + 1 .. j + m =>
               \E l \in 0 .. n + 1 : d[h] = c[l] /\ h = IF l <= j THEN l ELSE l + m
        <4>1. TAKE h \in 0 .. (n + m) + 1
        <4>2. CASE h \in 0 .. j
          BY <1>1, <4>2
        <4>3. CASE h \in j + m + 1 .. (n + m) + 1
          <5>1. h - m \in 0 .. n + 1 /\ h - m > j /\ h = (h - m) + m /\ d[h] = c[h - m]
            BY <1>1, <4>3
          <5> QED
            BY <5>1
        <4> QED
          BY <4>2, <4>3
      <3> QED
        BY <1>5, <1>6, <2>4, <3>1
    <2> QED
      BY <2>2, <2>3, <2>4, Zenon
  <1>7. \A i \in 1 .. m : i + j \in j + 1 .. j + m /\ (i + j) - j = i
    OBVIOUS
  <1>8. \A i \in j + 1 .. n + 1 : i + m \in j + m + 1 .. (n + m) + 1 /\ (i + m) - m = i
    OBVIOUS
  <1>9. /\ \A i \in 1 .. m : d[i + j] = bs[i]
        /\ \A i \in j + 1 .. n + 1 : d[i + m] = c[i]
    BY <1>1, <1>7, <1>8, Zenon
  <1>10. d[0] = FakeHead /\ d[(n + m) + 1] = FakeTail
    <2>1. d[0] = c[0] /\ d[(n + 1) + m] = c[n + 1] /\ (n + 1) + m = (n + m) + 1
      BY <1>1, <1>9
    <2> QED
      BY <2>1, Zenon DEF Linked
  <1> QED
    BY <1>1, <1>4, <1>6, <1>9, <1>10, Zenon DEF Composed

\* Linking blocks into the list after a node leaves the chain with the blocks in
\* it: append, prepend_n and append_n.
LEMMA Insert ==
  ASSUME NEW n \in Nat, NEW c \in [0 .. n + 1 -> Node], Linked(c, n),
         NEW j \in Nat, NEW m \in Nat, j <= n, NEW bs, NewBlocks(c, n, m, bs),
         Inserts(c, n, j, m, bs)
  PROVE  /\ n + m \in Nat /\ InsertedIn(c, n, j, m, bs) \in [0 .. (n + m) + 1 -> Node]
         /\ Linked(InsertedIn(c, n, j, m, bs), n + m)'
  <1>0. PICK d : d = InsertedIn(c, n, j, m, bs)
    BY Zenon
  <1>1. /\ \A i \in j .. j + m : next_free_block'[d[i]] = d[i + 1] /\ prev_free_block'[d[i + 1]] = d[i]
        /\ \A x \in Node : (\A i \in j .. j + m : d[i] # x) =>
              next_free_block'[x] = next_free_block[x]
        /\ \A x \in Node : (\A i \in j + 1 .. j + m + 1 : d[i] # x) =>
              prev_free_block'[x] = prev_free_block[x]
    BY <1>0, Zenon DEF Inserts
  <1>2. /\ d \in [0 .. (n + m) + 1 -> Node]
        /\ \A i \in 0 .. j : d[i] = c[i]
        /\ \A i \in 1 .. m : d[i + j] = bs[i]
        /\ \A i \in j + 1 .. n + 1 : d[i + m] = c[i]
        /\ \A i, k \in 0 .. (n + m) + 1 : d[i] = d[k] => i = k
        /\ d[0] = FakeHead /\ d[(n + m) + 1] = FakeTail
    <2>1. Composed(c, n, j, m, bs, d)
      BY <1>0, InsertedFacts, Zenon
    <2> QED
      BY <2>1, Zenon DEF Composed
  <1>3. \A i \in 0 .. n + m : next_free_block'[d[i]] = d[i + 1] /\ prev_free_block'[d[i + 1]] = d[i]
    <2>1. TAKE i \in 0 .. n + m
    <2>2. i \in 0 .. (n + m) + 1 /\ i + 1 \in 0 .. (n + m) + 1 /\ d[i] \in Node /\ d[i + 1] \in Node
      BY <1>2
    <2>3. CASE i \in j .. j + m
      BY <1>1, <2>3, Zenon
    <2>4. CASE i \notin j .. j + m
      <3>1. /\ \A k \in j .. j + m : d[k] # d[i]
            /\ \A k \in j + 1 .. j + m + 1 : d[k] # d[i + 1]
        BY <1>2, <2>2, <2>4
      <3>2. /\ next_free_block'[d[i]] = next_free_block[d[i]]
            /\ prev_free_block'[d[i + 1]] = prev_free_block[d[i + 1]]
        BY <1>1, <2>2, <3>1, Zenon
      <3>3. next_free_block[d[i]] = d[i + 1] /\ prev_free_block[d[i + 1]] = d[i]
        <4>1. PICK k \in 0 .. n : d[i] = c[k] /\ d[i + 1] = c[k + 1]
          <5>1. CASE i < j
            BY <1>2, <5>1
          <5>2. CASE i > j + m
            <6>1. i - m \in j + 1 .. n + 1 /\ (i - m) + 1 \in j + 1 .. n + 1 /\ i - m \in 0 .. n
                  /\ (i - m) + m = i /\ ((i - m) + 1) + m = i + 1
              BY <5>2
            <6>2. d[(i - m) + m] = c[i - m] /\ d[((i - m) + 1) + m] = c[(i - m) + 1]
              BY <1>2, <6>1, Zenon
            <6> QED
              BY <6>1, <6>2
          <5> QED
            BY <2>4, <5>1, <5>2
        <4> QED
          BY <4>1, Zenon DEF Linked
      <3> QED
        BY <3>2, <3>3, Zenon
    <2> QED
      BY <2>3, <2>4, Zenon
  <1>4. next_free_block'[FakeTail] = None /\ prev_free_block'[FakeHead] = None
    <2>1. /\ \A k \in j .. j + m : d[k] # d[(n + m) + 1]
          /\ \A k \in j + 1 .. j + m + 1 : d[k] # d[0]
      BY <1>2
    <2> QED
      <3>1. next_free_block[FakeTail] = None /\ prev_free_block[FakeHead] = None
        BY Zenon DEF Linked
      <3> QED
        BY <1>1, <1>2, <2>1, <3>1, NodeFacts, Zenon
  <1>5. ASSUME NEW x \in Node, \A i \in 0 .. (n + m) + 1 : d[i] # x
        PROVE  next_free_block'[x] = None /\ prev_free_block'[x] = None
    <2>1. next_free_block'[x] = next_free_block[x] /\ prev_free_block'[x] = prev_free_block[x]
      <3>1. /\ \A i \in j .. j + m : d[i] # x
            /\ \A i \in j + 1 .. j + m + 1 : d[i] # x
        BY <1>5
      <3> QED
        BY <1>1, <3>1, Zenon
    <2>2. \A i \in 0 .. n + 1 : c[i] # x
      <3>1. TAKE i \in 0 .. n + 1
      <3>2. CASE i <= j
        BY <1>2, <1>5, <3>2
      <3>3. CASE i > j
        <4>1. i \in j + 1 .. n + 1 /\ i + m \in 0 .. (n + m) + 1
          BY <3>3
        <4> QED
          BY <1>2, <1>5, <4>1, Zenon
      <3> QED
        BY <3>2, <3>3
    <2> QED
      BY <2>1, <2>2, Zenon DEF Linked
  <1>6. n + m \in Nat
    OBVIOUS
  <1> QED
    BY <1>0, <1>2, <1>3, <1>4, <1>5, <1>6, ZenonT(30) DEF Linked

-----------------------------------------------------------------------------
(* The operations. *)

\* What is known of the neighbours of a node of the chain.
LEMMA ChainFacts ==
  ASSUME NEW n \in Nat, NEW c \in [0 .. n + 1 -> Node], Linked(c, n)
  PROVE  /\ c[0] = FakeHead /\ c[n + 1] = FakeTail
         /\ \A i, j \in 0 .. n + 1 : c[i] = c[j] => i = j
         /\ \A i \in 0 .. n : /\ next_free_block[c[i]] = c[i + 1]
                              /\ prev_free_block[c[i + 1]] = c[i]
         /\ \A i \in 0 .. n + 1 : c[i] \in Node
         /\ \A i \in 1 .. n : c[i] \in Block /\ c[i] # FakeHead /\ c[i] # FakeTail
  <1>1. /\ c[0] = FakeHead /\ c[n + 1] = FakeTail
        /\ \A i, j \in 0 .. n + 1 : c[i] = c[j] => i = j
    BY Zenon DEF Linked
  <1>2. \A i \in 1 .. n : c[i] \in Node /\ c[i] # FakeHead /\ c[i] # FakeTail
    BY <1>1
  <1>3. \A i \in 1 .. n : c[i] \in Block
    BY <1>2, NodeFacts, Zenon
  <1> QED
    BY <1>1, <1>2, <1>3, Zenon DEF Linked

\* popleft cuts the first block off.
LEMMA Popleft ==
  ASSUME PointerTypes, NEW n \in Nat, NEW c \in [0 .. n + 1 -> Node], Linked(c, n), popleft
  PROVE  PointerTypes' /\ n > 0 /\ Cuts(c, 0, 1)
  <1> DEFINE first == next_free_block[FakeHead]
  <1>1. /\ first # FakeTail
        /\ next_free_block' = [next_free_block EXCEPT
                                 ![FakeHead] = next_free_block[first], ![first] = None]
        /\ prev_free_block' = [prev_free_block EXCEPT
                                 ![next_free_block[first]] = FakeHead, ![first] = None]
    BY Zenon DEF popleft
  <1> HIDE DEF first
  <1>2. n > 0
    BY <1>1, ChainFacts DEF first
  <1>3. /\ first = c[1] /\ next_free_block[first] = c[2] /\ FakeHead = c[0]
        /\ c[0] \in Node /\ c[1] \in Node /\ c[2] \in Node
        /\ c[0] # c[1] /\ c[1] # c[2] /\ c[0] # c[2]
    BY <1>2, ChainFacts DEF first
  <1>4. /\ next_free_block' = [next_free_block EXCEPT ![c[0]] = c[2], ![c[1]] = None]
        /\ prev_free_block' = [prev_free_block EXCEPT ![c[2]] = c[0], ![c[1]] = None]
    BY <1>1, <1>3, Zenon
  <1>5. PointerTypes'
    BY <1>3, <1>4, Zenon DEF PointerTypes
  <1>6. Cuts(c, 0, 1)
    <2>1. /\ 0 + 1 + 1 = 2 /\ 0 + 1 .. 0 + 1 = {1} /\ 0 .. 0 + 1 = {0, 1}
          /\ 0 + 1 .. 0 + 1 + 1 = {1, 2}
      OBVIOUS
    <2>2. /\ next_free_block'[c[0]] = c[2] /\ next_free_block'[c[1]] = None
          /\ prev_free_block'[c[2]] = c[0] /\ prev_free_block'[c[1]] = None
      BY <1>3, <1>4, Zenon DEF PointerTypes
    <2>3. \A x \in Node : /\ x # c[0] /\ x # c[1] => next_free_block'[x] = next_free_block[x]
                          /\ x # c[1] /\ x # c[2] => prev_free_block'[x] = prev_free_block[x]
      BY <1>3, <1>4, Zenon DEF PointerTypes
    <2> QED
      BY <2>1, <2>2, <2>3, Zenon DEF Cuts
  <1> QED
    BY <1>2, <1>5, <1>6, Zenon

\* popleft_n cuts the first k blocks off: the walk visits them and stops at the
\* one behind them.
LEMMA PopleftN ==
  ASSUME PointerTypes, NEW n \in Nat, NEW c \in [0 .. n + 1 -> Node], Linked(c, n),
         num_free_blocks = n, NEW k \in 1 .. NumBlocks, popleft_n(k)
  PROVE  PointerTypes' /\ k <= n /\ Cuts(c, 0, k)
  <1> DEFINE popped == {Walk[i] : i \in 1 .. k}
             curr == Walk[k + 1]
  <1>1. /\ k <= n
        /\ next_free_block' = [x \in Node |-> IF x \in popped THEN None
                                 ELSE IF x = FakeHead /\ curr # None THEN curr
                                 ELSE next_free_block[x]]
        /\ prev_free_block' = [x \in Node |-> IF x \in popped THEN None
                                 ELSE IF x = curr THEN FakeHead ELSE prev_free_block[x]]
    BY Zenon DEF popleft_n
  <1>2. curr = c[k + 1] /\ \A i \in 1 .. k : Walk[i] = c[i]
    <2>1. /\ n <= NumBlocks
          /\ \A i \in 0 .. NumBlocks + 1 : Walk[i] = IF i <= n + 1 THEN c[i] ELSE None
      BY WalkIsChain, Zenon
    <2>2. k + 1 \in 0 .. NumBlocks + 1 /\ \A i \in 1 .. k : i \in 0 .. NumBlocks + 1
      BY NodeFacts
    <2> QED
      BY <1>1, <2>1, <2>2
  <1>3. popped = {c[i] : i \in 1 .. k}
    BY <1>2, Zenon
  <1> HIDE DEF popped, curr
  <1>4. /\ c[0] = FakeHead /\ c[0] \in Node /\ c[k + 1] \in Node
        /\ \A i \in 1 .. k : c[i] \in Node /\ c[i] # c[0] /\ c[i] # c[k + 1]
        /\ c[k + 1] # c[0]
    <2>1. /\ c[0] = FakeHead /\ \A i \in 0 .. n + 1 : c[i] \in Node
          /\ \A h, i \in 0 .. n + 1 : c[h] = c[i] => h = i
      BY ChainFacts, ZenonT(20)
    <2>2. k + 1 \in 0 .. n + 1 /\ k + 1 # 0 /\ 0 \in 0 .. n + 1
      BY <1>1
    <2>3. \A i \in 1 .. k : i \in 0 .. n + 1 /\ i # 0 /\ i # k + 1
      BY <1>1
    <2> QED
      BY <2>1, <2>2, <2>3, Zenon
  <1>5. c[0] \notin popped /\ c[k + 1] \notin popped /\ curr # None
    BY <1>2, <1>3, <1>4, NodeFacts, Zenon
  <1>6. PointerTypes'
    BY <1>1, <1>2, <1>4, Zenon DEF PointerTypes
  <1>7. Cuts(c, 0, k)
    <2>1. /\ 0 + k + 1 = k + 1 /\ 0 + 1 .. 0 + k = 1 .. k
          /\ 0 .. 0 + k = {0} \cup 1 .. k /\ 0 + 1 .. 0 + k + 1 = {k + 1} \cup 1 .. k
      OBVIOUS
    <2>2. /\ next_free_block'[c[0]] = c[k + 1] /\ prev_free_block'[c[k + 1]] = c[0]
          /\ \A i \in 1 .. k : next_free_block'[c[i]] = None /\ prev_free_block'[c[i]] = None
      BY <1>1, <1>2, <1>3, <1>4, <1>5, Zenon
    <2>3. \A x \in Node : (\A i \in 1 .. k : c[i] # x) =>
            /\ x # c[0] => next_free_block'[x] = next_free_block[x]
            /\ x # c[k + 1] => prev_free_block'[x] = prev_free_block[x]
      BY <1>1, <1>2, <1>3, <1>4, Zenon
    <2> QED
      BY <2>1, <2>2, <2>3, Zenon DEF Cuts
  <1> QED
    BY <1>1, <1>6, <1>7, Zenon

\* remove cuts a block out of the middle, which its two pointers locate.
LEMMA Remove ==
  ASSUME PointerTypes, NEW n \in Nat, NEW c \in [0 .. n + 1 -> Node], Linked(c, n),
         NEW b \in Block, remove(b)
  PROVE  PointerTypes' /\ \E j \in Nat : j + 1 <= n /\ c[j + 1] = b /\ Cuts(c, j, 1)
  <1>1. /\ prev_free_block[b] # None
        /\ next_free_block' = [next_free_block EXCEPT
                                 ![prev_free_block[b]] = next_free_block[b], ![b] = None]
        /\ prev_free_block' = [prev_free_block EXCEPT
                                 ![next_free_block[b]] = prev_free_block[b], ![b] = None]
    BY Zenon DEF remove
  <1>2. PICK l \in 1 .. n : c[l] = b
    <2>1. b \notin Held
      BY <1>1, Zenon DEF Held
    <2> QED
      BY <2>1, ChainIsConsistent
  <1>3. PICK j \in Nat : j + 1 <= n /\ c[j + 1] = b
    <2>1. l - 1 \in Nat /\ (l - 1) + 1 = l
      OBVIOUS
    <2> QED
      BY <1>2, <2>1
  <1>4. j \in 0 .. n /\ j + 1 \in 0 .. n /\ j \in 0 .. n + 1 /\ j + 1 \in 0 .. n + 1
        /\ j + 2 \in 0 .. n + 1 /\ (j + 1) + 1 = j + 2
    BY <1>3
  <1>5. /\ prev_free_block[b] = c[j] /\ next_free_block[b] = c[j + 2]
        /\ c[j] \in Node /\ c[j + 1] \in Node /\ c[j + 2] \in Node
        /\ c[j] # c[j + 1] /\ c[j + 1] # c[j + 2] /\ c[j] # c[j + 2]
    <2>1. /\ next_free_block[c[j + 1]] = c[j + 2] /\ prev_free_block[c[j + 1]] = c[j]
          /\ c[j] \in Node /\ c[j + 1] \in Node /\ c[j + 2] \in Node
      BY <1>4, Zenon DEF Linked
    <2>2. c[j] # c[j + 1] /\ c[j + 1] # c[j + 2] /\ c[j] # c[j + 2]
      <3>1. j # j + 1 /\ j + 1 # j + 2 /\ j # j + 2
        OBVIOUS
      <3> QED
        BY <1>4, <3>1, Zenon DEF Linked
    <2> QED
      BY <1>3, <2>1, <2>2, Zenon
  <1>6. /\ next_free_block' = [next_free_block EXCEPT ![c[j]] = c[j + 2], ![c[j + 1]] = None]
        /\ prev_free_block' = [prev_free_block EXCEPT ![c[j + 2]] = c[j], ![c[j + 1]] = None]
    BY <1>1, <1>3, <1>5, Zenon
  <1>7. PointerTypes'
    BY <1>5, <1>6, Zenon DEF PointerTypes
  <1>8. Cuts(c, j, 1)
    <2>1. /\ j + 1 + 1 = j + 2 /\ j + 1 .. j + 1 = {j + 1} /\ j .. j + 1 = {j, j + 1}
          /\ j + 1 .. j + 1 + 1 = {j + 1, j + 2}
      OBVIOUS
    <2>2. /\ next_free_block'[c[j]] = c[j + 2] /\ next_free_block'[c[j + 1]] = None
          /\ prev_free_block'[c[j + 2]] = c[j] /\ prev_free_block'[c[j + 1]] = None
      BY <1>5, <1>6, Zenon DEF PointerTypes
    <2>3. \A x \in Node : /\ x # c[j] /\ x # c[j + 1] => next_free_block'[x] = next_free_block[x]
                          /\ x # c[j + 1] /\ x # c[j + 2] => prev_free_block'[x] = prev_free_block[x]
      BY <1>5, <1>6, Zenon DEF PointerTypes
    <2> QED
      BY <2>1, <2>2, <2>3, Zenon DEF Cuts
  <1> QED
    BY <1>3, <1>7, <1>8, Zenon

\* append links one block in before the fake tail.
LEMMA AppendOne ==
  ASSUME PointerTypes, NEW n \in Nat, NEW c \in [0 .. n + 1 -> Node], Linked(c, n),
         NEW b \in Held, append(b), NEW bs, bs = [i \in 1 .. 1 |-> b]
  PROVE  PointerTypes' /\ NewBlocks(c, n, 1, bs) /\ Inserts(c, n, n, 1, bs)
  <1>1. b \in Block /\ b \in Node /\ \A i \in 1 .. n : c[i] # b
    BY ChainIsConsistent DEF Held, Node
  <1>2. b # FakeHead /\ b # FakeTail
    BY <1>1, NodeFacts, Zenon
  <1>3. /\ c[0] = FakeHead /\ c[n + 1] = FakeTail /\ prev_free_block[FakeTail] = c[n]
        /\ c[n] \in Node /\ c[n + 1] \in Node /\ c[n] # c[n + 1]
    BY DEF Linked
  <1>4. \A k \in 0 .. n + 1 : c[k] # b
    BY <1>1, <1>2, <1>3
  <1>5. NewBlocks(c, n, 1, bs)
    BY <1>1, <1>4 DEF NewBlocks
  <1>6. /\ next_free_block' = [next_free_block EXCEPT ![c[n]] = b, ![b] = FakeTail]
        /\ prev_free_block' = [prev_free_block EXCEPT ![b] = c[n], ![FakeTail] = b]
    BY <1>3, Zenon DEF append
  <1>7. PointerTypes'
    BY <1>1, <1>3, <1>6, Zenon DEF PointerTypes
  <1>8. PICK d : d = InsertedIn(c, n, n, 1, bs)
    BY Zenon
  <1>9. d[n] = c[n] /\ d[n + 1] = b /\ d[n + 2] = FakeTail
    <2>1. Composed(c, n, n, 1, bs, d)
      BY <1>5, <1>8, InsertedFacts
    <2>2. d[n] = c[n] /\ d[1 + n] = bs[1] /\ d[(n + 1) + 1] = FakeTail
      BY <2>1 DEF Composed
    <2> QED
      BY <2>2
  <1>10. Inserts(c, n, n, 1, bs)
    <2>1. n .. n + 1 = {n, n + 1} /\ n + 1 .. n + 1 + 1 = {n + 1, n + 2} /\ (n + 1) + 1 = n + 2
      OBVIOUS
    <2>2. b # c[n] /\ c[n] # FakeTail
      BY <1>3, <1>4
    <2>3. /\ next_free_block'[c[n]] = b /\ next_free_block'[b] = FakeTail
          /\ prev_free_block'[b] = c[n] /\ prev_free_block'[FakeTail] = b
      BY <1>1, <1>2, <1>3, <1>6, <2>2, Zenon DEF PointerTypes
    <2>4. \A x \in Node : /\ x # c[n] /\ x # b => next_free_block'[x] = next_free_block[x]
                          /\ x # b /\ x # FakeTail => prev_free_block'[x] = prev_free_block[x]
      BY <1>6, Zenon DEF PointerTypes
    <2>5. /\ \A i \in n .. n + 1 : /\ next_free_block'[d[i]] = d[i + 1]
                                   /\ prev_free_block'[d[i + 1]] = d[i]
          /\ \A x \in Node : (\A i \in n .. n + 1 : d[i] # x) =>
                next_free_block'[x] = next_free_block[x]
          /\ \A x \in Node : (\A i \in n + 1 .. n + 1 + 1 : d[i] # x) =>
                prev_free_block'[x] = prev_free_block[x]
      BY <1>9, <2>1, <2>3, <2>4, ZenonT(30)
    <2> QED
      BY <1>8, <2>5, Zenon DEF Inserts
  <1> QED
    BY <1>5, <1>7, <1>10, Zenon

\* In a sequence without repetitions, a position is found by its element.
LEMMA Position ==
  ASSUME NEW chain, \A i, k \in DOMAIN chain : chain[i] = chain[k] => i = k,
         NEW i \in DOMAIN chain
  PROVE  (CHOOSE k \in DOMAIN chain : chain[k] = chain[i]) = i
  BY Zenon

\* Splice links the blocks in between two neighbours.
LEMMA Spliced ==
  ASSUME PointerTypes, NEW n \in Nat, NEW c \in [0 .. n + 1 -> Node], Linked(c, n),
         NEW j \in Nat, NEW m \in Nat, j <= n, NEW bs \in Seq(Block), m = Len(bs),
         NewBlocks(c, n, m, bs), Splice(c[j], bs, c[j + 1])
  PROVE  PointerTypes' /\ Inserts(c, n, j, m, bs)
  <1> DEFINE chain == <<c[j]>> \o bs \o <<c[j + 1]>>
             pos(x) == CHOOSE i \in DOMAIN chain : chain[i] = x
             inner == {chain[i] : i \in DOMAIN chain}
  <1>1. /\ next_free_block' = [x \in Node |-> IF x \in inner \ {c[j + 1]} THEN chain[pos(x) + 1]
                                               ELSE next_free_block[x]]
        /\ prev_free_block' = [x \in Node |-> IF x \in inner \ {c[j]} THEN chain[pos(x) - 1]
                                               ELSE prev_free_block[x]]
    BY Zenon DEF Splice
  <1>2. c[j] \in Node /\ c[j + 1] \in Node /\ bs \in Seq(Node)
    BY DEF Node
  <1>3. /\ DOMAIN chain = 1 .. m + 2 /\ chain[1] = c[j] /\ chain[m + 2] = c[j + 1]
        /\ \A i \in 1 .. m : chain[i + 1] = bs[i]
    BY <1>2
  <1> HIDE DEF chain
  <1>4. PICK d : d = InsertedIn(c, n, j, m, bs)
    BY Zenon
  <1>5. Composed(c, n, j, m, bs, d)
    BY <1>4, InsertedFacts, Zenon
  <1>6. \A i \in j .. j + m + 1 : chain[(i - j) + 1] = d[i] /\ (i - j) + 1 \in 1 .. m + 2
    <2>1. /\ d[j] = c[j] /\ d[(j + 1) + m] = c[j + 1]
          /\ \A i \in 1 .. m : d[i + j] = bs[i]
      BY <1>5 DEF Composed
    <2>2. TAKE i \in j .. j + m + 1
    <2>3. CASE i = j
      BY <1>3, <2>1, <2>3
    <2>4. CASE i = j + m + 1
      <3>1. (i - j) + 1 = m + 2 /\ (j + 1) + m = i
        BY <2>4
      <3> QED
        BY <1>3, <2>1, <3>1
    <2>5. CASE i \in j + 1 .. j + m
      <3>1. i - j \in 1 .. m /\ (i - j) + j = i /\ (i - j) + 1 \in 1 .. m + 2
        BY <2>5
      <3>2. chain[(i - j) + 1] = bs[i - j] /\ d[(i - j) + j] = bs[i - j]
        BY <1>3, <2>1, <3>1, Zenon
      <3> QED
        BY <3>1, <3>2, Zenon
    <2> QED
      BY <2>3, <2>4, <2>5
  <1>7. \A k \in 1 .. m + 2 : (k + j) - 1 \in j .. j + m + 1 /\ chain[k] = d[(k + j) - 1]
    <2>1. TAKE k \in 1 .. m + 2
    <2>2. (k + j) - 1 \in j .. j + m + 1 /\ (((k + j) - 1) - j) + 1 = k
      OBVIOUS
    <2> QED
      BY <1>6, <2>2, Zenon
  <1>8. \A i \in j .. j + m + 1 : i \in 0 .. (n + m) + 1 /\ d[i] \in Node
    <2>1. \A i \in j .. j + m + 1 : i \in 0 .. (n + m) + 1
      OBVIOUS
    <2> QED
      BY <1>5, <2>1, Zenon DEF Composed
  <1>9. \A i, k \in j .. j + m + 1 : d[i] = d[k] => i = k
    BY <1>5, <1>8, Zenon DEF Composed
  <1>10. \A i, k \in DOMAIN chain : chain[i] = chain[k] => i = k
    <2>1. ASSUME NEW i \in 1 .. m + 2, NEW k \in 1 .. m + 2, chain[i] = chain[k]
          PROVE  i = k
      <3>1. d[(i + j) - 1] = d[(k + j) - 1]
        BY <1>7, <2>1, Zenon
      <3>2. (i + j) - 1 = (k + j) - 1
        BY <1>7, <1>9, <3>1, Zenon
      <3> QED
        BY <3>2
    <2> QED
      BY <1>3, <2>1, Zenon

  <1>12. \A k \in 1 .. m + 2 : pos(chain[k]) = k
    BY <1>3, <1>10, Position, Zenon
  <1>13. \A x : x \in inner <=> \E i \in j .. j + m + 1 : d[i] = x
    <2>1. ASSUME NEW x \in inner
          PROVE  \E i \in j .. j + m + 1 : d[i] = x
      <3>1. PICK k \in 1 .. m + 2 : x = chain[k]
        BY <1>3, <2>1, Zenon
      <3>2. \E i \in j .. j + m + 1 : d[i] = chain[k]
        BY <1>7, Zenon
      <3> QED
        BY <3>1, <3>2, Zenon
    <2>2. \A i \in j .. j + m + 1 : d[i] \in inner
      BY <1>3, <1>6, Zenon
    <2> QED
      BY <2>1, <2>2, Zenon
  <1> HIDE DEF pos, inner
  <1>14. d[j] = c[j] /\ d[j + m + 1] = c[j + 1]
    <2>1. d[j] = c[j] /\ d[(j + 1) + m] = c[j + 1] /\ (j + 1) + m = j + m + 1
      BY <1>5 DEF Composed
    <2> QED
      BY <2>1, Zenon
  <1>15. \A i \in j .. j + m : /\ next_free_block'[d[i]] = d[i + 1]
                               /\ prev_free_block'[d[i + 1]] = d[i]
    <2>1. TAKE i \in j .. j + m
    <2>2. /\ i \in j .. j + m + 1 /\ i + 1 \in j .. j + m + 1 /\ i # j + m + 1 /\ i + 1 # j
          /\ ((i - j) + 1) + 1 = ((i + 1) - j) + 1 /\ (((i + 1) - j) + 1) - 1 = (i - j) + 1
      OBVIOUS
    <2>3. pos(d[i]) = (i - j) + 1 /\ pos(d[i + 1]) = ((i + 1) - j) + 1
      BY <1>6, <1>12, <2>2, Zenon
    <2>4. chain[pos(d[i]) + 1] = d[i + 1] /\ chain[pos(d[i + 1]) - 1] = d[i]
      BY <1>6, <2>2, <2>3
    <2>5. d[i] \in inner \ {c[j + 1]} /\ d[i + 1] \in inner \ {c[j]}
      BY <1>9, <1>13, <1>14, <2>2
    <2> QED
      BY <1>1, <1>8, <2>2, <2>4, <2>5, Zenon
  <1>16. /\ \A x \in Node : (\A i \in j .. j + m : d[i] # x) =>
               next_free_block'[x] = next_free_block[x]
         /\ \A x \in Node : (\A i \in j + 1 .. j + m + 1 : d[i] # x) =>
               prev_free_block'[x] = prev_free_block[x]
    <2>1. ASSUME NEW x \in Node, \A i \in j .. j + m : d[i] # x
          PROVE  x \notin inner \ {c[j + 1]}
      BY <1>13, <1>14, <2>1
    <2>2. ASSUME NEW x \in Node, \A i \in j + 1 .. j + m + 1 : d[i] # x
          PROVE  x \notin inner \ {c[j]}
      BY <1>13, <1>14, <2>2
    <2> QED
      BY <1>1, <2>1, <2>2, Zenon
  <1>17. Inserts(c, n, j, m, bs)
    BY <1>4, <1>15, <1>16, Zenon DEF Inserts
  <1>18. PointerTypes'
    <2>1. ASSUME NEW x \in Node
          PROVE  next_free_block'[x] \in Node \cup {None}
      <3>1. CASE \E i \in j .. j + m : d[i] = x
        <4>1. PICK i \in j .. j + m : d[i] = x
          BY <3>1, Zenon
        <4>2. i + 1 \in j .. j + m + 1
          OBVIOUS
        <4> QED
          BY <1>8, <1>15, <4>1, <4>2, Zenon
      <3>2. CASE \A i \in j .. j + m : d[i] # x
        BY <1>16, <3>2, Zenon DEF PointerTypes
      <3> QED
        BY <3>1, <3>2, Zenon
    <2>3. ASSUME NEW x \in Node
          PROVE  prev_free_block'[x] \in Node \cup {None}
      <3>1. CASE \E i \in j + 1 .. j + m + 1 : d[i] = x
        <4>1. PICK i \in j + 1 .. j + m + 1 : d[i] = x
          BY <3>1, Zenon
        <4>2. i - 1 \in j .. j + m /\ i - 1 \in j .. j + m + 1 /\ (i - 1) + 1 = i
          OBVIOUS
        <4>3. prev_free_block'[d[i]] = d[i - 1]
          BY <1>15, <4>2, Zenon
        <4> QED
          BY <1>8, <4>1, <4>2, <4>3, Zenon
      <3>2. CASE \A i \in j + 1 .. j + m + 1 : d[i] # x
        BY <1>16, <3>2, Zenon DEF PointerTypes
      <3> QED
        BY <3>1, <3>2, Zenon
    <2>2. /\ next_free_block' = [x \in Node |-> next_free_block'[x]]
          /\ prev_free_block' = [x \in Node |-> prev_free_block'[x]]
      BY <1>1, Zenon
    <2> QED
      BY <2>1, <2>2, <2>3, Zenon DEF PointerTypes
  <1> QED
    BY <1>17, <1>18, Zenon

\* The callers of prepend_n and append_n give distinct blocks that they hold.
LEMMA Given ==
  ASSUME PointerTypes, NEW n \in Nat, NEW c \in [0 .. n + 1 -> Node], Linked(c, n),
         NEW bs \in Arrangements(Held), bs # <<>>
  PROVE  /\ bs \in Seq(Block) /\ Len(bs) \in 1 .. Cardinality(Held)
         /\ NewBlocks(c, n, Len(bs), bs)
  <1>1. PICK m \in 0 .. Cardinality(Held) :
          bs \in [1 .. m -> Held] /\ \A i, j \in 1 .. m : bs[i] = bs[j] => i = j
    BY Zenon DEF Arrangements
  <1>2. Held \subseteq Block /\ Cardinality(Held) \in Nat
    <2>1. Held \subseteq Block
      BY Zenon DEF Held
    <2>2. IsFiniteSet(Block)
      BY NodeFacts, FS_Interval DEF Block
    <2> QED
      BY <2>1, <2>2, FS_Subset, FS_CardinalityType, Zenon
  <1>3. m \in Nat /\ bs \in Seq(Block) /\ Len(bs) = m /\ m # 0 /\ bs \in [1 .. m -> Block]
    BY <1>1, <1>2
  <1>4. \A b \in Held : \A k \in 0 .. n + 1 : c[k] # b
    <2>1. ASSUME NEW b \in Held, NEW k \in 0 .. n + 1, c[k] = b
          PROVE  FALSE
      <3>1. b \in Block /\ \A i \in 1 .. n : c[i] # b
        BY ChainIsConsistent
      <3>2. b # FakeHead /\ b # FakeTail /\ c[0] = FakeHead /\ c[n + 1] = FakeTail
        BY <3>1, NodeFacts, Zenon DEF Linked, Node
      <3> QED
        BY <2>1, <3>1, <3>2
    <2> QED
      BY <2>1, Zenon
  <1> QED
    BY <1>1, <1>3, <1>4 DEF NewBlocks

\* A segment at the head, or a single block, is cut out of the chain.
CutStep(c, n) ==
    \E j, m \in Nat : /\ j + m <= n /\ m > 0 /\ (j = 0 \/ m = 1)
                      /\ Cuts(c, j, m) /\ num_free_blocks' = n - m

\* Blocks are inserted at one of the ends of the chain.
InsertStep(c, n) ==
    \E j, m \in Nat : \E bs \in [1 .. m -> Block] :
        /\ j <= n /\ (j = 0 \/ j = n) /\ m \in 1 .. Cardinality(Held)
        /\ NewBlocks(c, n, m, bs) /\ Inserts(c, n, j, m, bs) /\ num_free_blocks' = n + m

\* Each pointer operation is one of these two steps: popleft, popleft_n and remove
\* cut, append, prepend_n and append_n insert.
LEMMA Steps ==
  ASSUME PointerTypes, NEW n \in Nat, NEW c \in [0 .. n + 1 -> Node], Linked(c, n),
         num_free_blocks = n, Next
  PROVE  PointerTypes' /\ (CutStep(c, n) \/ InsertStep(c, n))
  <1>1. CASE popleft
    <2>1. PointerTypes' /\ n > 0 /\ Cuts(c, 0, 1)
      BY <1>1, Popleft, Zenon
    <2>2. num_free_blocks' = n - 1 /\ 0 \in Nat /\ 1 \in Nat /\ 0 + 1 <= n /\ 1 > 0
      BY <1>1, <2>1 DEF popleft
    <2> QED
      BY <2>1, <2>2, Zenon DEF CutStep
  <1>2. ASSUME NEW k \in 1 .. NumBlocks, popleft_n(k)
        PROVE  PointerTypes' /\ CutStep(c, n)
    <2>1. PointerTypes' /\ k <= n /\ Cuts(c, 0, k)
      BY <1>2, PopleftN, Zenon
    <2>2. num_free_blocks' = n - k /\ 0 \in Nat /\ k \in Nat /\ 0 + k <= n /\ k > 0
      BY <1>2, <2>1 DEF popleft_n
    <2> QED
      BY <2>1, <2>2, Zenon DEF CutStep
  <1>3. ASSUME NEW b \in Block, remove(b)
        PROVE  PointerTypes' /\ CutStep(c, n)
    <2>1. PICK j \in Nat : PointerTypes' /\ j + 1 <= n /\ c[j + 1] = b /\ Cuts(c, j, 1)
      BY <1>3, Remove, Zenon
    <2>2. num_free_blocks' = n - 1 /\ 1 \in Nat /\ 1 > 0
      BY <1>3 DEF remove
    <2> QED
      BY <2>1, <2>2, Zenon DEF CutStep
  <1>4. ASSUME NEW b \in Held, append(b)
        PROVE  PointerTypes' /\ InsertStep(c, n)
    <2>1. PICK bs : bs = [i \in 1 .. 1 |-> b]
      BY Zenon
    <2>2. PointerTypes' /\ NewBlocks(c, n, 1, bs) /\ Inserts(c, n, n, 1, bs)
      BY <1>4, <2>1, AppendOne, Zenon
    <2>3. 1 \in 1 .. Cardinality(Held)
      <3>1. Held \subseteq Block
        BY Zenon DEF Held
      <3>2. IsFiniteSet(Block)
        BY NodeFacts, FS_Interval DEF Block
      <3>3. IsFiniteSet(Held)
        BY <3>1, <3>2, FS_Subset, Zenon
      <3>4. Cardinality(Held) \in Nat /\ Cardinality(Held) # 0
        BY <1>4, <3>3, FS_CardinalityType, FS_EmptySet, Zenon
      <3> QED
        BY <3>4
    <2>4. bs \in [1 .. 1 -> Block] /\ n <= n /\ 1 \in Nat
      BY <2>2 DEF NewBlocks
    <2>5. num_free_blocks' = n + 1
      BY <1>4, Zenon DEF append
    <2> QED
      BY <2>2, <2>3, <2>4, <2>5, Zenon DEF InsertStep
  <1>5. ASSUME NEW bs \in Arrangements(Held), prepend_n(bs)
        PROVE  PointerTypes' /\ InsertStep(c, n)
    <2>1. bs # <<>> /\ Splice(c[0], bs, c[0 + 1]) /\ num_free_blocks' = n + Len(bs)
      <3>1. FakeHead = c[0] /\ next_free_block[FakeHead] = c[0 + 1]
        BY DEF Linked
      <3>2. bs # <<>> /\ Splice(FakeHead, bs, next_free_block[FakeHead])
            /\ num_free_blocks' = num_free_blocks + Len(bs)
        BY <1>5, Zenon DEF prepend_n
      <3> QED
        BY <3>1, <3>2, Zenon
    <2>2. /\ bs \in Seq(Block) /\ Len(bs) \in 1 .. Cardinality(Held)
          /\ NewBlocks(c, n, Len(bs), bs)
      BY <2>1, Given, Zenon
    <2>3. 0 \in Nat /\ 0 <= n /\ Len(bs) \in Nat /\ bs \in [1 .. Len(bs) -> Block]
      BY <2>2 DEF NewBlocks
    <2>4. PointerTypes' /\ Inserts(c, n, 0, Len(bs), bs)
      BY <2>1, <2>2, <2>3, Spliced, Zenon
    <2> QED
      BY <2>1, <2>2, <2>3, <2>4, Zenon DEF InsertStep
  <1>6. ASSUME NEW bs \in Arrangements(Held), append_n(bs)
        PROVE  PointerTypes' /\ InsertStep(c, n)
    <2>1. bs # <<>> /\ Splice(c[n], bs, c[n + 1]) /\ num_free_blocks' = n + Len(bs)
      <3>1. FakeTail = c[n + 1] /\ prev_free_block[FakeTail] = c[n]
        BY DEF Linked
      <3>2. bs # <<>> /\ Splice(prev_free_block[FakeTail], bs, FakeTail)
            /\ num_free_blocks' = num_free_blocks + Len(bs)
        BY <1>6, Zenon DEF append_n
      <3> QED
        BY <3>1, <3>2, Zenon
    <2>2. /\ bs \in Seq(Block) /\ Len(bs) \in 1 .. Cardinality(Held)
          /\ NewBlocks(c, n, Len(bs), bs)
      BY <2>1, Given, Zenon
    <2>3. n <= n /\ Len(bs) \in Nat /\ bs \in [1 .. Len(bs) -> Block]
      BY <2>2 DEF NewBlocks
    <2>4. PointerTypes' /\ Inserts(c, n, n, Len(bs), bs)
      BY <2>1, <2>2, <2>3, Spliced, Zenon
    <2> QED
      BY <2>1, <2>2, <2>3, <2>4, Zenon DEF InsertStep
  <1> QED
    BY <1>1, <1>2, <1>3, <1>4, <1>5, <1>6, Zenon DEF Next

-----------------------------------------------------------------------------
(* The list of a chain, before and after a step. *)

\* What get_all_free_blocks returns for the chain c of n blocks.
ListOf(c, n) == [k \in 1 .. n |-> c[k]]

\* The list q without its first m blocks, or without one of its blocks.
ListWithout(q, j, m, r) ==
    /\ j = 0 => r = SubSeq(q, m + 1, Len(q))
    /\ m = 1 => r = SubSeq(q, 1, j) \o SubSeq(q, j + 2, Len(q))

\* Cutting a chain takes the first blocks, or one block, out of its list.
LEMMA CutList ==
  ASSUME NEW n \in Nat, NEW c \in [0 .. n + 1 -> Node],
         NEW j \in Nat, NEW m \in Nat, j + m <= n, m > 0,
         NEW q, q = ListOf(c, n), NEW r, r = ListOf(CutFrom(c, n, j, m), n - m)
  PROVE  /\ q \in Seq(Node) /\ Len(q) = n
         /\ ListWithout(q, j, m, r)
  <1>1. q \in Seq(Node) /\ Len(q) = n /\ \A k \in 1 .. n : q[k] = c[k]
    BY DEF ListOf
  <1>2. /\ r \in Seq(Node) /\ Len(r) = n - m
        /\ \A k \in 1 .. n - m : r[k] = IF k <= j THEN q[k] ELSE q[k + m]
    BY <1>1 DEF ListOf, CutFrom
  <1>3. ASSUME j = 0
        PROVE  r = SubSeq(q, m + 1, Len(q))
    <2>1. PICK t : t = SubSeq(q, m + 1, Len(q))
      BY Zenon
    <2>2. t \in Seq(Node) /\ Len(t) = n - m /\ \A k \in 1 .. n - m : t[k] = q[k + m]
      BY <1>1, <2>1
    <2>3. \A k \in 1 .. n - m : r[k] = t[k]
      BY <1>2, <1>3, <2>2
    <2>4. r = t
      BY <1>2, <2>2, <2>3
    <2> QED
      BY <2>1, <2>4, Zenon
  <1>4. ASSUME m = 1
        PROVE  r = SubSeq(q, 1, j) \o SubSeq(q, j + 2, Len(q))
    <2>1. PICK t, u : t = SubSeq(q, 1, j) /\ u = SubSeq(q, j + 2, Len(q))
      BY Zenon
    <2>2. t \in Seq(Node) /\ Len(t) = j /\ \A k \in 1 .. j : t[k] = q[k]
      BY <1>1, <2>1
    <2>3. u \in Seq(Node) /\ Len(u) = n - (j + 1) /\ \A k \in 1 .. n - (j + 1) : u[k] = q[k + j + 1]
      BY <1>1, <1>4, <2>1
    <2>4. PICK w : w = t \o u
      BY Zenon
    <2>5. /\ w \in Seq(Node) /\ Len(w) = n - 1
          /\ \A k \in 1 .. n - 1 : w[k] = IF k <= j THEN t[k] ELSE u[k - j]
      BY <1>4, <2>2, <2>3, <2>4
    <2>6. ASSUME NEW k \in 1 .. n - 1
          PROVE  r[k] = w[k]
      <3>1. k \in 1 .. n - m
        BY <1>4, Zenon
      <3>2. CASE k <= j
        <4>1. r[k] = q[k] /\ w[k] = t[k] /\ t[k] = q[k]
          BY <1>2, <2>2, <2>5, <3>1, <3>2
        <4> QED
          BY <4>1, Zenon
      <3>3. CASE k > j
        <4>1. k - j \in 1 .. n - (j + 1) /\ (k - j) + j + 1 = k + 1 /\ ~(k <= j)
          BY <1>4, <3>3
        <4>2. w[k] = u[k - j] /\ u[k - j] = q[k + 1]
          BY <2>3, <2>5, <4>1, Zenon
        <4>3. r[k] = q[k + 1]
          BY <1>2, <1>4, <3>1, <4>1, Zenon
        <4> QED
          BY <4>2, <4>3, Zenon
      <3> QED
        BY <3>2, <3>3
    <2>7. Len(w) = Len(r)
      BY <1>2, <1>4, <2>5, Zenon
    <2>8. r = w
      <3>1. r = [k \in 1 .. Len(r) |-> r[k]] /\ w = [k \in 1 .. Len(w) |-> w[k]]
        BY <1>2, <2>5, SMTT(20)
      <3>2. 1 .. Len(w) = 1 .. n - 1
        BY <2>5
      <3> QED
        BY <2>6, <2>7, <3>1, <3>2, Zenon
    <2> QED
      BY <2>1, <2>4, <2>8, Zenon
  <1> QED
    BY <1>1, <1>3, <1>4, Zenon DEF ListWithout

\* A list with blocks put at one of its ends.
LEMMA InsertList ==
  ASSUME NEW n \in Nat, NEW c \in [0 .. n + 1 -> Node],
         NEW j \in Nat, NEW m \in Nat, j <= n, NEW bs, NEW d, Composed(c, n, j, m, bs, d),
         NEW q, q = ListOf(c, n), NEW r, r = ListOf(d, n + m)
  PROVE  /\ q \in Seq(Node) /\ Len(q) = n /\ Len(r) = n + m
         /\ j = 0 => SubSeq(r, m + 1, Len(r)) = q
         /\ j = n => SubSeq(r, 1, Len(q)) = q
         /\ Abstract!Distinct(r) /\ Abstract!Elements(r) \subseteq Block
  <1>1. q \in Seq(Node) /\ Len(q) = n /\ \A k \in 1 .. n : q[k] = c[k]
    BY DEF ListOf
  <1>2. d \in [0 .. (n + m) + 1 -> Node]
    BY Zenon DEF Composed
  <1>3. r \in Seq(Node) /\ Len(r) = n + m /\ DOMAIN r = 1 .. n + m /\ \A k \in 1 .. n + m : r[k] = d[k]
    BY <1>2 DEF ListOf
  <1>4. ASSUME j = 0
        PROVE  SubSeq(r, m + 1, Len(r)) = q
    <2>1. PICK t : t = SubSeq(r, m + 1, Len(r))
      BY Zenon
    <2>2. t \in Seq(Node) /\ Len(t) = n /\ \A k \in 1 .. n : t[k] = r[k + m]
      BY <1>3, <2>1
    <2>3. \A k \in 1 .. n : d[k + m] = c[k] /\ k + m \in 1 .. n + m
      BY <1>4 DEF Composed
    <2>4. ASSUME NEW k \in 1 .. n
          PROVE  t[k] = q[k]
      <3>1. k + m \in 1 .. n + m
        BY <2>3, Zenon
      <3>2. t[k] = r[k + m] /\ d[k + m] = c[k] /\ q[k] = c[k]
        BY <1>1, <2>2, <2>3, Zenon
      <3>3. r[k + m] = d[k + m]
        BY <1>3, <3>1, Zenon
      <3> QED
        BY <3>2, <3>3, Zenon
    <2>5. t = q
      BY <1>1, <2>2, <2>4
    <2> QED
      BY <2>1, <2>5, Zenon
  <1>5. ASSUME j = n
        PROVE  SubSeq(r, 1, Len(q)) = q
    <2>1. PICK t : t = SubSeq(r, 1, Len(q))
      BY Zenon
    <2>2. t \in Seq(Node) /\ Len(t) = n /\ \A k \in 1 .. n : t[k] = r[k]
      BY <1>1, <1>3, <2>1
    <2>3. \A k \in 1 .. n : d[k] = c[k]
      BY <1>5 DEF Composed
    <2>4. ASSUME NEW k \in 1 .. n
          PROVE  t[k] = q[k]
      <3>1. k \in 1 .. n + m
        OBVIOUS
      <3>2. t[k] = r[k] /\ d[k] = c[k] /\ q[k] = c[k]
        BY <1>1, <2>2, <2>3, Zenon
      <3>3. r[k] = d[k]
        BY <1>3, <3>1, Zenon
      <3> QED
        BY <3>2, <3>3, Zenon
    <2>5. t = q
      BY <1>1, <2>2, <2>4
    <2> QED
      BY <2>1, <2>5, Zenon
  <1>6. \A i, k \in 0 .. (n + m) + 1 : d[i] = d[k] => i = k
    BY Zenon DEF Composed
  <1>7. \A i, k \in 1 .. n + m : r[i] = r[k] => i = k
    BY <1>3, <1>6
  <1>8. \A i \in 1 .. n + m : r[i] \in Block
    <2>1. TAKE i \in 1 .. n + m
    <2>2. d[i] # FakeHead /\ d[i] # FakeTail /\ d[i] \in Node
      BY <1>2, <1>6 DEF Composed
    <2> QED
      BY <1>3, <2>2, NodeFacts, Zenon
  <1>9. Abstract!Distinct(r)
    BY <1>3, <1>7, Zenon DEF Abstract!Distinct
  <1>10. Abstract!Elements(r) \subseteq Block
    BY <1>3, <1>8, Zenon DEF Abstract!Elements
  <1> QED
    BY <1>1, <1>3, <1>4, <1>5, <1>9, <1>10, Zenon

-----------------------------------------------------------------------------
(* The theorems. *)

\* Whatever the chain that the pointers form, the list is the chain.
ChainIsListed ==
    \A n \in Nat : \A c \in [0 .. n + 1 -> Node] :
        Linked(c, n) => get_all_free_blocks = ListOf(c, n)

\* get_all_free_blocks returns the chain, before and after a step.
LEMMA Listed == ChainIsListed /\ ChainIsListed'
  <1>1. ChainIsListed
    BY ListIsChain, Zenon DEF ChainIsListed, ListOf
  <1> QED
    BY <1>1, PTL

\* A new list: every block points to its successor, and the counter is the
\* number of blocks given to __init__.
LEMMA InitInv == Init => IInv /\ Abstract!Init
  <1> SUFFICES ASSUME Init PROVE IInv /\ Abstract!Init
    BY Zenon
  <1>1. PICK c : c = [i \in 0 .. NumBlocks + 1 |-> i - 1]
    BY Zenon
  <1>2. c \in [0 .. NumBlocks + 1 -> Node] /\ \A i \in 0 .. NumBlocks + 1 : c[i] = i - 1
    BY <1>1, NodeFacts
  <1>3. PointerTypes
    BY NodeFacts DEF Init, PointerTypes, FakeHead, FakeTail
  <1>4. Linked(c, NumBlocks)
    <2>1. NumBlocks \in Nat
      BY NodeFacts, Zenon
    <2>2. c[0] = FakeHead /\ c[NumBlocks + 1] = FakeTail
      BY <1>2, <2>1 DEF FakeHead, FakeTail
    <2>3. \A i, j \in 0 .. NumBlocks + 1 : c[i] = c[j] => i = j
      BY <1>2, <2>1
    <2>4. ASSUME NEW i \in 0 .. NumBlocks
          PROVE  next_free_block[c[i]] = c[i + 1] /\ prev_free_block[c[i + 1]] = c[i]
      <3>1. c[i] = i - 1 /\ c[i + 1] = i /\ i - 1 \in Node /\ i \in Node
        BY <1>2, <2>1, NodeFacts
      <3> QED
        BY <2>1, <3>1, NodeFacts DEF Init, FakeHead, FakeTail
    <2>5. next_free_block[FakeTail] = None /\ prev_free_block[FakeHead] = None
      BY NodeFacts, Zenon DEF Init
    <2>6. \A x \in Node : \E i \in 0 .. NumBlocks + 1 : c[i] = x
      <3>1. TAKE x \in Node
      <3>2. x + 1 \in 0 .. NumBlocks + 1 /\ c[x + 1] = x
        BY <1>2, NodeFacts
      <3> QED
        BY <3>2, Zenon
    <2> QED
      BY <1>2, <2>1, <2>2, <2>3, <2>4, <2>5, <2>6, Zenon DEF Linked
  <1>5. num_free_blocks = NumBlocks /\ NumBlocks \in Nat
    BY NodeFacts, Zenon DEF Init
  <1>6. IInv
    BY <1>2, <1>3, <1>4, <1>5, Zenon DEF IInv
  <1>7. get_all_free_blocks = ListOf(c, NumBlocks)
    BY <1>2, <1>4, <1>5, Listed, Zenon DEF ChainIsListed
  <1>8. ListOf(c, NumBlocks) = [i \in 1 .. NumBlocks |-> i - 1]
    BY <1>2, <1>5 DEF ListOf
  <1> QED
    BY <1>6, <1>7, <1>8, Zenon DEF Abstract!Init

\* Cutting blocks out of the chain is popleft_n or remove on the sequence.
LEMMA CutRefines ==
  ASSUME PointerTypes', NEW n \in Nat, NEW c \in [0 .. n + 1 -> Node], Linked(c, n), CutStep(c, n)
  PROVE  IInv' /\ Abstract!Next
  <1>1. PICK j \in Nat, m \in Nat : /\ j + m <= n /\ m > 0 /\ (j = 0 \/ m = 1)
                                    /\ Cuts(c, j, m) /\ num_free_blocks' = n - m
    BY Zenon DEF CutStep
  <1>2. PICK d, p : d = CutFrom(c, n, j, m) /\ p = n - m
    BY Zenon
  <1>3. p \in Nat /\ d \in [0 .. p + 1 -> Node] /\ Linked(d, p)'
    BY <1>1, <1>2, Cut, Zenon
  <1>4. IInv'
    BY <1>1, <1>2, <1>3, Zenon DEF IInv
  <1>5. PICK q, r : q = ListOf(c, n) /\ r = ListOf(d, p)
    BY Zenon
  <1>6. get_all_free_blocks = q /\ get_all_free_blocks' = r
    BY <1>3, <1>5, Listed, Zenon DEF ChainIsListed
  <1>7. /\ q \in Seq(Node) /\ Len(q) = n
        /\ j = 0 => r = SubSeq(q, m + 1, Len(q))
        /\ m = 1 => r = SubSeq(q, 1, j) \o SubSeq(q, j + 2, Len(q))
    <2>1. q = ListOf(c, n) /\ r = ListOf(CutFrom(c, n, j, m), n - m)
      BY <1>2, <1>5, Zenon
    <2>2. q \in Seq(Node) /\ Len(q) = n /\ ListWithout(q, j, m, r)
      BY <1>1, <2>1, CutList
    <2> QED
      BY <2>2, Zenon DEF ListWithout
  <1>8. CASE j = 0
    <2>1. n <= NumBlocks
      BY ChainFits, Zenon DEF Linked
    <2>2. m \in 1 .. NumBlocks /\ m <= Len(q)
      BY <1>1, <1>7, <1>8, <2>1, NodeFacts
    <2>3. Abstract!PopLeftN(m)
      BY <1>6, <1>7, <1>8, <2>2, Zenon DEF Abstract!PopLeftN
    <2> QED
      BY <1>4, <2>2, <2>3, Zenon DEF Abstract!Next
  <1>9. CASE m = 1
    <2>1. j + 1 \in DOMAIN q /\ (j + 1) - 1 = j /\ (j + 1) + 1 = j + 2 /\ q[j + 1] = c[j + 1]
      BY <1>1, <1>5, <1>9 DEF ListOf
    <2>2. c[j + 1] \in Block
      <3>1. j + 1 \in 0 .. n + 1 /\ j + 1 # 0 /\ j + 1 # n + 1 /\ 0 \in 0 .. n + 1 /\ n + 1 \in 0 .. n + 1
        BY <1>1, <1>9
      <3>2. c[j + 1] # FakeHead /\ c[j + 1] # FakeTail /\ c[j + 1] \in Node
        BY <3>1, Zenon DEF Linked
      <3> QED
        BY <3>2, NodeFacts, Zenon
    <2>3. Abstract!Remove(c[j + 1])
      BY <1>6, <1>7, <1>9, <2>1, Zenon DEF Abstract!Remove
    <2>4. Block = Abstract!Block
      BY Zenon DEF Block, Abstract!Block
    <2> QED
      BY <1>4, <2>2, <2>3, <2>4, Zenon DEF Abstract!Next
  <1> QED
    BY <1>1, <1>8, <1>9, Zenon

\* Inserting blocks into the chain is prepend_n or append_n on the sequence.
LEMMA InsertRefines ==
  ASSUME PointerTypes', NEW n \in Nat, NEW c \in [0 .. n + 1 -> Node], Linked(c, n), InsertStep(c, n)
  PROVE  IInv' /\ Abstract!Next
  <1>1. PICK j \in Nat, m \in Nat : \E bs \in [1 .. m -> Block] :
          /\ j <= n /\ (j = 0 \/ j = n) /\ m \in 1 .. Cardinality(Held)
          /\ NewBlocks(c, n, m, bs) /\ Inserts(c, n, j, m, bs) /\ num_free_blocks' = n + m
    BY Zenon DEF InsertStep
  <1>2. PICK bs \in [1 .. m -> Block] :
          /\ j <= n /\ (j = 0 \/ j = n) /\ m \in 1 .. Cardinality(Held)
          /\ NewBlocks(c, n, m, bs) /\ Inserts(c, n, j, m, bs) /\ num_free_blocks' = n + m
    BY <1>1, Zenon
  <1>3. PICK d, p : d = InsertedIn(c, n, j, m, bs) /\ p = n + m
    BY Zenon
  <1>4. p \in Nat /\ d \in [0 .. p + 1 -> Node] /\ Linked(d, p)'
    BY <1>2, <1>3, Insert, Zenon
  <1>5. Composed(c, n, j, m, bs, d)
    BY <1>2, <1>3, InsertedFacts, Zenon
  <1>6. IInv'
    BY <1>2, <1>3, <1>4, Zenon DEF IInv
  <1>7. PICK q, r : q = ListOf(c, n) /\ r = ListOf(d, p)
    BY Zenon
  <1>8. get_all_free_blocks = q /\ get_all_free_blocks' = r
    BY <1>4, <1>7, Listed, Zenon DEF ChainIsListed
  <1>9. /\ q \in Seq(Node) /\ Len(q) = n /\ Len(r) = n + m
        /\ j = 0 => SubSeq(r, m + 1, Len(r)) = q
        /\ j = n => SubSeq(r, 1, Len(q)) = q
        /\ Abstract!Distinct(r) /\ Abstract!Elements(r) \subseteq Block
    BY <1>2, <1>3, <1>5, <1>7, InsertList
  <1>10. Block = Abstract!Block
    BY Zenon DEF Block, Abstract!Block
  <1>11. Abstract!Held = Held
    <2>1. Abstract!Elements(get_all_free_blocks) = Block \ Held
      BY ChainIsConsistent, Zenon
    <2>2. Held \subseteq Block
      BY Zenon DEF Held
    <2> QED
      BY <1>10, <2>1, <2>2, Zenon DEF Abstract!Held
  <1>12. Abstract!Cardinality(Abstract!Held) = Cardinality(Held)
    BY <1>11, Zenon DEF Cardinality, Abstract!Cardinality
  <1>13. Len(r) = m + Len(q) /\ Len(r) = Len(q) + m
    BY <1>9
  <1>14. CASE j = 0
    <2>1. /\ m \in 1 .. Abstract!Cardinality(Abstract!Held)
          /\ Len(get_all_free_blocks') = m + Len(get_all_free_blocks)
          /\ SubSeq(get_all_free_blocks', m + 1, Len(get_all_free_blocks')) = get_all_free_blocks
      BY <1>2, <1>8, <1>9, <1>12, <1>13, <1>14, Zenon
    <2>2. /\ Abstract!Distinct(get_all_free_blocks')
          /\ Abstract!Elements(get_all_free_blocks') \subseteq Abstract!Block
      BY <1>8, <1>9, <1>10, Zenon
    <2>3. Abstract!PrependN
      BY <2>1, <2>2, Zenon DEF Abstract!PrependN
    <2> QED
      BY <1>6, <2>3, Zenon DEF Abstract!Next
  <1>15. CASE j = n
    <2>1. /\ m \in 1 .. Abstract!Cardinality(Abstract!Held)
          /\ Len(get_all_free_blocks') = Len(get_all_free_blocks) + m
          /\ SubSeq(get_all_free_blocks', 1, Len(get_all_free_blocks)) = get_all_free_blocks
      BY <1>2, <1>8, <1>9, <1>12, <1>13, <1>15, ZenonT(30)
    <2>2. /\ Abstract!Distinct(get_all_free_blocks')
          /\ Abstract!Elements(get_all_free_blocks') \subseteq Abstract!Block
      BY <1>8, <1>9, <1>10, Zenon
    <2>3. Abstract!AppendN
      BY <2>1, <2>2, Zenon DEF Abstract!AppendN
    <2> QED
      BY <1>6, <2>3, Zenon DEF Abstract!Next
  <1> QED
    BY <1>2, <1>14, <1>15, Zenon

\* Every pointer operation keeps the invariant and is an operation of the queue.
LEMMA NextInv == IInv /\ [Next]_vars => IInv' /\ [Abstract!Next]_get_all_free_blocks
  <1> SUFFICES ASSUME IInv, [Next]_vars PROVE IInv' /\ [Abstract!Next]_get_all_free_blocks
    BY Zenon
  <1>1. PICK n \in Nat : \E c \in [0 .. n + 1 -> Node] : Linked(c, n) /\ num_free_blocks = n
    BY Zenon DEF IInv
  <1>2. PICK c \in [0 .. n + 1 -> Node] : Linked(c, n) /\ num_free_blocks = n
    BY <1>1, Zenon
  <1>3. PointerTypes
    BY Zenon DEF IInv
  <1>4. CASE Next
    <2>1. PointerTypes' /\ (CutStep(c, n) \/ InsertStep(c, n))
      BY <1>2, <1>3, <1>4, Steps, Zenon
    <2>2. IInv' /\ Abstract!Next
      BY <1>2, <2>1, CutRefines, InsertRefines, Zenon
    <2> QED
      BY <2>2, Zenon
  <1>5. CASE UNCHANGED vars
    <2>1. /\ next_free_block' = next_free_block /\ prev_free_block' = prev_free_block
          /\ num_free_blocks' = num_free_blocks
      BY <1>5, Zenon DEF vars
    <2>2. PointerTypes'
      BY <1>3, <2>1, Zenon DEF PointerTypes
    <2>3. Linked(c, n)' /\ num_free_blocks' = n
      BY <1>2, <2>1, Zenon DEF Linked
    <2>4. IInv'
      BY <2>2, <2>3, Zenon DEF IInv
    <2>5. get_all_free_blocks' = get_all_free_blocks
      BY <1>2, <2>3, Listed, Zenon DEF ChainIsListed
    <2> QED
      BY <2>4, <2>5, Zenon
  <1> QED
    BY <1>4, <1>5, Zenon

\* At every moment the list is linked in both directions between its fake ends,
\* num_free_blocks is its length, and exactly the blocks handed out are outside
\* it, for any number of blocks: what remove in the middle of the list and the
\* admission check on get_num_free_blocks rely on.
THEOREM ListStaysConsistent == Spec => []ListConsistent
  <1>1. IInv => ListConsistent
    <2> SUFFICES ASSUME IInv PROVE ListConsistent
      BY Zenon
    <2>1. PICK n \in Nat : \E c \in [0 .. n + 1 -> Node] : Linked(c, n) /\ num_free_blocks = n
      BY Zenon DEF IInv
    <2>2. PICK c \in [0 .. n + 1 -> Node] : Linked(c, n) /\ num_free_blocks = n
      BY <2>1, Zenon
    <2>3. DoublyLinked /\ Abstract!Elements(get_all_free_blocks) = Block \ Held
      BY <2>2, ChainIsConsistent, Zenon
    <2>4. n <= NumBlocks
      BY <2>2, ChainFits, Zenon DEF Linked
    <2>5. num_free_blocks \in 0 .. NumBlocks
      BY <2>2, <2>4, NodeFacts
    <2>6. get_all_free_blocks = ListOf(c, n)
      BY <2>2, Listed, Zenon DEF ChainIsListed
    <2>7. Len(ListOf(c, n)) = n
      BY DEF ListOf
    <2>8. TypeOK /\ CounterInSync
      BY <2>2, <2>3, <2>5, <2>6, <2>7, Zenon DEF TypeOK, CounterInSync, IInv, PointerTypes
    <2> QED
      BY <2>3, <2>8, Zenon DEF ListConsistent
  <1> QED
    BY <1>1, InitInv, NextInv, PTL DEF Spec

\* The linked list implements the queue of free blocks, for any number of blocks:
\* popleft and popleft_n take the first blocks, remove takes one block out of the
\* middle and keeps the order of the others, append, prepend_n and append_n put
\* held blocks at the ends.
THEOREM ListImplementsQueue == Spec => RefinesFreeBlockQueue
  BY InitInv, NextInv, PTL DEF Spec, RefinesFreeBlockQueue, Abstract!Spec

=============================================================================
