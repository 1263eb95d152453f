--------------------------- MODULE BlockPoolProofs ---------------------------
(***************************************************************************)
(* What the operations of BlockPool preserve, for every number of blocks:  *)
(* a pool whose free queue holds exactly the unreferenced blocks and whose *)
(* hash map agrees with the hashes in the blocks stays such a pool.        *)
(***************************************************************************)
EXTENDS BlockPool, FiniteSetTheorems, SequenceTheorems, TLAPS

\* The number of kept positions up to a position numbers the kept positions
\* 1, 2, ... without gaps: the counting behind Keep.
LEMMA RankBijection ==
    ASSUME NEW n \in Nat, NEW kept \in SUBSET (1 .. n)
    PROVE  LET rank == [i \in kept |-> Cardinality({j \in kept : j <= i})]
           IN /\ IsFiniteSet(kept)
              /\ Cardinality(kept) \in Nat
              /\ rank \in Bijection(kept, 1 .. Cardinality(kept))
<1> DEFINE upto(i) == {j \in kept : j <= i}
           rank == [i \in kept |-> Cardinality(upto(i))]
<1>1. IsFiniteSet(kept) /\ Cardinality(kept) \in Nat
  <2>1. IsFiniteSet(1 .. n)
    BY FS_Interval
  <2>2. IsFiniteSet(kept)
    BY <2>1, FS_Subset, Zenon
  <2> QED BY <2>2, FS_CardinalityType
<1>2. ASSUME NEW i \in kept
      PROVE  IsFiniteSet(upto(i)) /\ Cardinality(upto(i)) \in 1 .. Cardinality(kept)
  <2>1. IsFiniteSet(upto(i)) /\ Cardinality(upto(i)) <= Cardinality(kept)
    BY <1>1, FS_Subset
  <2>2. Cardinality(upto(i)) \in Nat
    BY <2>1, FS_CardinalityType
  <2>3. i \in upto(i)
    OBVIOUS
  <2>4. Cardinality(upto(i)) # 0
    BY <2>1, <2>3, FS_EmptySet
  <2> QED BY <1>1, <2>1, <2>2, <2>4
<1>3. ASSUME NEW i \in kept, NEW k \in kept, i < k
      PROVE  rank[i] < rank[k]
  <2>1. upto(i) \in SUBSET upto(k)
    <3>1. ASSUME NEW j \in upto(i) PROVE j \in upto(k)
      BY <1>3
    <3> QED BY <3>1, Zenon
  <2>2. k \in upto(k) /\ k \notin upto(i)
    BY <1>3
  <2>3. Cardinality(upto(i)) <= Cardinality(upto(k))
    BY <1>2, <2>1, FS_Subset
  <2>4. Cardinality(upto(i)) # Cardinality(upto(k))
    BY <1>2, <2>1, <2>2, FS_Subset
  <2> QED BY <1>2, <2>3, <2>4
<1>4. rank \in Injection(kept, 1 .. Cardinality(kept))
  <2>1. rank \in [kept -> 1 .. Cardinality(kept)]
    BY <1>2
  <2>2. ASSUME NEW i \in kept, NEW k \in kept, rank[i] = rank[k]
        PROVE  i = k
    <3>1. i \in Int /\ k \in Int /\ rank[i] \in Int
      BY <2>1, <1>1
    <3> HIDE DEF rank
    <3> QED BY <1>3, <2>2, <3>1
  <2> HIDE DEF rank
  <2> QED BY <2>1, <2>2 DEF Injection, IsInjective
<1>5. rank \in Surjection(kept, 1 .. Cardinality(kept))
  <2>1. IsFiniteSet(1 .. Cardinality(kept))
        /\ Cardinality(1 .. Cardinality(kept)) = Cardinality(kept)
    BY <1>1, FS_Interval
  <2> HIDE DEF rank
  <2> QED BY <1>1, <1>4, <2>1, FS_Injection
<1> QED BY <1>1, <1>4, <1>5 DEF Bijection

\* Keep drops the elements outside S and nothing else, keeps distinct elements
\* distinct, and is as long as the number of positions it keeps.
LEMMA KeepProperties ==
    ASSUME NEW T, NEW q \in Seq(T), NEW S
    PROVE  /\ Keep(q, S) \in Seq(T)
           /\ Elements(Keep(q, S)) = Elements(q) \cap S
           /\ Len(Keep(q, S)) = Cardinality({i \in DOMAIN q : q[i] \in S})
           /\ Distinct(q) => Distinct(Keep(q, S))
<1> DEFINE kept == {i \in DOMAIN q : q[i] \in S}
           rank == [i \in kept |-> Cardinality({j \in kept : j <= i})]
           at(k) == CHOOSE i \in kept : Cardinality({j \in kept : j <= i}) = k
           n == Cardinality(kept)
<1>1. kept \in SUBSET (1 .. Len(q)) /\ Len(q) \in Nat
  OBVIOUS
<1>2. n \in Nat /\ rank \in Bijection(kept, 1 .. n)
  BY <1>1, RankBijection, Zenon
<1>3. \A k \in 1 .. n : at(k) \in kept /\ rank[at(k)] = k
  <2>1. SUFFICES ASSUME NEW k \in 1 .. n
                 PROVE  at(k) \in kept /\ rank[at(k)] = k
    BY Zenon
  <2>2. \E i \in kept : rank[i] = k
    <3> HIDE DEF rank, kept, n
    <3> QED BY <1>2 DEF Bijection, Surjection
  <2> QED BY <2>2, Zenon
<1>4. \A i \in kept : rank[i] \in 1 .. n /\ at(rank[i]) = i
  <2>1. TAKE i \in kept
  <2>2. rank[i] \in 1 .. n
    <3> HIDE DEF rank, kept, n
    <3> QED BY <1>2 DEF Bijection, Injection
  <2>3. at(rank[i]) \in kept /\ rank[at(rank[i])] = rank[i]
    BY <1>3, <2>2, Zenon
  <2>4. \A j \in kept : rank[j] = rank[i] => j = i
    <3> HIDE DEF rank, kept, n
    <3> QED BY <1>2 DEF Bijection, Injection, IsInjective
  <2> QED BY <2>2, <2>3, <2>4
<1>5. Keep(q, S) = [k \in 1 .. n |-> q[at(k)]]
  BY DEF Keep
<1> HIDE DEF at, rank, n
<1>6. Keep(q, S) \in Seq(T) /\ Len(Keep(q, S)) = n
  BY <1>2, <1>3, <1>5, SMTT(30)
<1>7. Elements(Keep(q, S)) = Elements(q) \cap S
  <2>1. Elements(Keep(q, S)) \subseteq Elements(q) \cap S
    BY <1>3, <1>5 DEF Elements
  <2>2. ASSUME NEW i \in kept
        PROVE  q[i] \in Elements(Keep(q, S))
    BY <1>4, <1>5 DEF Elements
  <2> QED BY <2>1, <2>2 DEF Elements
<1>8. ASSUME Distinct(q) PROVE Distinct(Keep(q, S))
  <2>1. SUFFICES ASSUME NEW k \in 1 .. n, NEW m \in 1 .. n, q[at(k)] = q[at(m)]
                 PROVE  k = m
    BY <1>5 DEF Distinct
  <2>2. at(k) = at(m)
    BY <1>3, <1>8, <2>1 DEF Distinct
  <2> QED BY <1>3, <2>2
<1> QED BY <1>6, <1>7, <1>8 DEF n

\* Dropping a set of elements shortens a queue of distinct elements by the size
\* of the set.
LEMMA KeepLength ==
    ASSUME NEW T, NEW q \in Seq(T), Distinct(q), NEW L \in SUBSET Elements(q)
    PROVE  /\ Cardinality(L) \in Nat
           /\ Len(Keep(q, T \ L)) = Len(q) - Cardinality(L)
<1> DEFINE out == {i \in DOMAIN q : q[i] \in L}
           in == {i \in DOMAIN q : q[i] \in T \ L}
           f == [i \in out |-> q[i]]
<1>1. DOMAIN q = 1 .. Len(q) /\ Len(q) \in Nat
  OBVIOUS
<1>2. IsFiniteSet(DOMAIN q) /\ Cardinality(DOMAIN q) = Len(q)
  BY <1>1, FS_Interval, SMTT(30)
<1>3. IsFiniteSet(out) /\ Cardinality(out) \in Nat
  <2>1. IsFiniteSet(out)
    BY <1>2, FS_Subset
  <2> QED BY <2>1, FS_CardinalityType
<1>4. f \in Bijection(out, L)
  <2>1. f \in [out -> L]
    OBVIOUS
  <2>2. \A i, j \in out : f[i] = f[j] => i = j
    BY DEF Distinct
  <2>3. \A b \in L : \E i \in out : f[i] = b
    BY DEF Elements
  <2> QED BY <2>1, <2>2, <2>3 DEF Bijection, Injection, Surjection, IsInjective
<1>5. Cardinality(L) = Cardinality(out)
  BY <1>3, <1>4, FS_Bijection DEF ExistsBijection
<1>6. in = DOMAIN q \ out /\ DOMAIN q \cap out = out
  BY <1>1
<1>7. Cardinality(in) = Len(q) - Cardinality(out)
  <2>1. Cardinality(DOMAIN q \ out) = Cardinality(DOMAIN q) - Cardinality(DOMAIN q \cap out)
    <3> HIDE DEF out
    <3> QED BY <1>2, FS_Difference, Zenon
  <2> HIDE DEF out, in
  <2> QED BY <1>2, <1>6, <2>1, Zenon
<1>8. Len(Keep(q, T \ L)) = Cardinality(in)
  BY KeepProperties
<1> QED BY <1>3, <1>5, <1>7, <1>8

\* Taking n elements from the head of a queue of distinct elements splits it.
LEMMA SplitProperties ==
    ASSUME NEW T, NEW q \in Seq(T), Distinct(q), NEW n \in 0 .. Len(q)
    PROVE  /\ SubSeq(q, 1, n) \in Seq(T)
           /\ Len(SubSeq(q, 1, n)) = n
           /\ Distinct(SubSeq(q, 1, n))
           /\ Elements(SubSeq(q, 1, n)) \subseteq Elements(q)
           /\ SubSeq(q, n + 1, Len(q)) \in Seq(T)
           /\ Distinct(SubSeq(q, n + 1, Len(q)))
           /\ Elements(SubSeq(q, n + 1, Len(q))) = Elements(q) \ Elements(SubSeq(q, 1, n))
<1> DEFINE head == SubSeq(q, 1, n)
           tail == SubSeq(q, n + 1, Len(q))
<1>1. head \in Seq(T) /\ Len(head) = n /\ \A i \in 1 .. n : head[i] = q[i]
  OBVIOUS
<1>2. tail \in Seq(T) /\ Len(tail) = Len(q) - n /\ \A i \in 1 .. Len(q) - n : tail[i] = q[i + n]
  OBVIOUS
<1>3. DOMAIN head = 1 .. n /\ DOMAIN tail = 1 .. Len(q) - n /\ DOMAIN q = 1 .. Len(q)
  BY <1>1, <1>2
<1> HIDE DEF head, tail
<1>4. Distinct(head) /\ Distinct(tail)
  <2>1. \A i \in DOMAIN head : i \in DOMAIN q /\ head[i] = q[i]
    BY <1>1, <1>3
  <2>2. \A i \in DOMAIN tail : i \in Int /\ i + n \in DOMAIN q /\ tail[i] = q[i + n]
    BY <1>2, <1>3
  <2>3. Distinct(head)
    BY <2>1 DEF Distinct
  <2>4. ASSUME NEW i \in DOMAIN tail, NEW j \in DOMAIN tail, tail[i] = tail[j]
        PROVE  i = j
    <3>1. i + n = j + n
      BY <2>2, <2>4 DEF Distinct
    <3> QED BY <2>2, <3>1
  <2>5. Distinct(tail)
    BY <2>4 DEF Distinct
  <2> QED BY <2>3, <2>5
<1>5. Elements(head) \subseteq Elements(q) /\ Elements(tail) \subseteq Elements(q)
  <2>1. \A i \in DOMAIN head : i \in DOMAIN q /\ head[i] = q[i]
    BY <1>1, <1>3
  <2>2. \A i \in DOMAIN tail : i + n \in DOMAIN q /\ tail[i] = q[i + n]
    BY <1>2, <1>3
  <2> QED BY <2>1, <2>2, Zenon DEF Elements
<1>6. Elements(head) \cap Elements(tail) = {}
  <2>1. ASSUME NEW i \in DOMAIN head, NEW j \in DOMAIN tail, head[i] = tail[j]
        PROVE  FALSE
    <3>1. i \in DOMAIN q /\ j + n \in DOMAIN q /\ q[i] = q[j + n] /\ i # j + n
      BY <1>1, <1>2, <1>3, <2>1
    <3> QED BY <3>1 DEF Distinct
  <2> QED BY <2>1 DEF Elements
<1>7. ASSUME NEW i \in DOMAIN q PROVE q[i] \in Elements(head) \cup Elements(tail)
  <2>1. CASE i <= n
    BY <1>1, <1>3, <2>1 DEF Elements
  <2>2. CASE i > n
    <3>1. i - n \in 1 .. Len(q) - n /\ tail[i - n] = q[(i - n) + n] /\ (i - n) + n = i
      BY <1>2, <1>3, <2>2
    <3> QED BY <1>3, <3>1 DEF Elements
  <2> QED BY <1>3, <2>1, <2>2
<1>8. Elements(tail) = Elements(q) \ Elements(head)
  BY <1>5, <1>6, <1>7, Zenon DEF Elements
<1> QED BY <1>1, <1>2, <1>4, <1>5, <1>8 DEF head, tail

\* Appending a queue of distinct elements to a disjoint one.
LEMMA JoinProperties ==
    ASSUME NEW T, NEW q \in Seq(T), NEW s \in Seq(T)
    PROVE  /\ q \o s \in Seq(T)
           /\ Len(q \o s) = Len(q) + Len(s)
           /\ \A i \in DOMAIN (q \o s) : (q \o s)[i] = IF i <= Len(q) THEN q[i] ELSE s[i - Len(q)]
           /\ Elements(q \o s) = Elements(q) \cup Elements(s)
           /\ (Distinct(q) /\ Distinct(s) /\ Elements(q) \cap Elements(s) = {}) => Distinct(q \o s)
<1> DEFINE c == q \o s
<1>1. c \in Seq(T) /\ Len(c) = Len(q) + Len(s)
      /\ \A i \in 1 .. Len(q) + Len(s) : c[i] = IF i <= Len(q) THEN q[i] ELSE s[i - Len(q)]
  OBVIOUS
<1>2. DOMAIN c = 1 .. Len(q) + Len(s) /\ DOMAIN q = 1 .. Len(q) /\ DOMAIN s = 1 .. Len(s)
      /\ Len(q) \in Nat /\ Len(s) \in Nat
  BY <1>1
<1> HIDE DEF c
<1>3. \A i \in DOMAIN c : IF i <= Len(q) THEN i \in DOMAIN q /\ c[i] = q[i]
                          ELSE i - Len(q) \in DOMAIN s /\ c[i] = s[i - Len(q)]
  BY <1>1, <1>2
<1>4. Elements(c) \subseteq Elements(q) \cup Elements(s)
  BY <1>3 DEF Elements
<1>5. ASSUME NEW i \in DOMAIN q PROVE q[i] \in Elements(c)
  BY <1>1, <1>2 DEF Elements
<1>6. ASSUME NEW i \in DOMAIN s PROVE s[i] \in Elements(c)
  <2>1. i + Len(q) \in DOMAIN c /\ c[i + Len(q)] = s[(i + Len(q)) - Len(q)]
        /\ (i + Len(q)) - Len(q) = i
    BY <1>1, <1>2
  <2> QED BY <2>1 DEF Elements
<1>7. ASSUME Distinct(q), Distinct(s), Elements(q) \cap Elements(s) = {}
      PROVE  Distinct(c)
  <2>1. SUFFICES ASSUME NEW i \in DOMAIN c, NEW j \in DOMAIN c, c[i] = c[j], i < j
                 PROVE  FALSE
    BY <1>2 DEF Distinct
  <2>2. CASE j <= Len(q)
    BY <1>2, <1>3, <1>7, <2>1, <2>2 DEF Distinct
  <2>3. CASE i > Len(q)
    <3>1. i - Len(q) \in DOMAIN s /\ j - Len(q) \in DOMAIN s
          /\ s[i - Len(q)] = s[j - Len(q)]
      BY <1>2, <1>3, <2>1, <2>3
    <3>2. i - Len(q) = j - Len(q)
      BY <1>7, <3>1 DEF Distinct
    <3> QED BY <1>2, <2>1, <3>2
  <2>4. CASE i <= Len(q) /\ j > Len(q)
    BY <1>2, <1>3, <1>7, <2>1, <2>4 DEF Elements
  <2> QED BY <1>2, <2>2, <2>3, <2>4
<1>8. Elements(c) = Elements(q) \cup Elements(s)
  BY <1>4, <1>5, <1>6, SMTT(30) DEF Elements
<1> QED BY <1>1, <1>2, <1>7, <1>8 DEF c

\* Reversing keeps the elements and their distinctness.
LEMMA ReverseProperties ==
    ASSUME NEW T, NEW q \in Seq(T)
    PROVE  /\ Reverse(q) \in Seq(T)
           /\ Elements(Reverse(q)) = Elements(q)
           /\ Distinct(q) => Distinct(Reverse(q))
<1>1. DOMAIN q = 1 .. Len(q) /\ Len(q) \in Nat
      /\ \A i \in DOMAIN q : Len(q) + 1 - i \in DOMAIN q /\ Len(q) + 1 - (Len(q) + 1 - i) = i
  OBVIOUS
<1>2. Reverse(q) \in Seq(T)
  BY <1>1 DEF Reverse
<1>3. Elements(Reverse(q)) = Elements(q)
  <2>1. ASSUME NEW i \in DOMAIN q
        PROVE  Reverse(q)[Len(q) + 1 - i] = q[i] /\ Len(q) + 1 - i \in DOMAIN Reverse(q)
    BY <1>1 DEF Reverse
  <2> QED BY <1>1, <2>1, Zenon DEF Reverse, Elements
<1>4. Distinct(q) => Distinct(Reverse(q))
  BY <1>1 DEF Reverse, Distinct
<1> QED BY <1>2, <1>3, <1>4

-----------------------------------------------------------------------------

\* The pool part of the invariants: exactly the unreferenced blocks are in the
\* free queue, the map agrees with the hashes, the null block is never cached.
PoolInv(p) ==
    /\ p \in Pool
    /\ Distinct(p.free)
    /\ Elements(p.free) = {b \in Block \ {NullBlock} : p.ref_cnt[b] = 0}
    /\ p.cached = {<<p.block_hash[b], b>> : b \in {c \in Block : p.block_hash[c] # NoHash}}
    /\ p.block_hash[NullBlock] = NoHash

\* A fresh pool has every block but the null block in its free queue.
LEMMA EmptyPoolInv == PoolInv(EmptyPool)
<1>1. NoHash \in Hash
  BY DEF NoHash, Hash
<1>2. EmptyPool.free \in Seq(Block)
  BY NumBlocksAssumption DEF EmptyPool, Block
<1>3. EmptyPool \in Pool
  BY <1>1, <1>2 DEF EmptyPool, Pool
<1>4. Elements(EmptyPool.free) = Block \ {NullBlock}
  BY NumBlocksAssumption DEF EmptyPool, Elements, Block, NullBlock
<1>5. Distinct(EmptyPool.free)
  BY DEF EmptyPool, Distinct
<1>6. NullBlock \in Block
  BY NumBlocksAssumption DEF Block, NullBlock
<1> QED BY <1>3, <1>4, <1>5, <1>6 DEF PoolInv, EmptyPool

\* _maybe_evict_cached_block: every block of the set loses its hash, because
\* the map always holds it; the other blocks keep theirs.
LEMMA MaybeEvictInv ==
    ASSUME NEW p, PoolInv(p), NEW S \in SUBSET Block
    PROVE  /\ PoolInv(maybe_evict(p, S))
           /\ maybe_evict(p, S).ref_cnt = p.ref_cnt
           /\ maybe_evict(p, S).free = p.free
           /\ \A b \in Block : maybe_evict(p, S).block_hash[b] =
                                 IF b \in S THEN NoHash ELSE p.block_hash[b]
<1> DEFINE q == maybe_evict(p, S)
           evicted == {b \in S : p.block_hash[b] # NoHash /\ <<p.block_hash[b], b>> \in p.cached}
<1>1. p \in Pool /\ p.block_hash \in [Block -> Hash] /\ p.cached \in SUBSET (Hash \X Block)
  BY DEF PoolInv, Pool
<1>2. evicted = {b \in S : p.block_hash[b] # NoHash}
  BY <1>1 DEF PoolInv
<1>3. q = [p EXCEPT !.block_hash = [b \in Block |-> IF b \in evicted THEN NoHash
                                                     ELSE p.block_hash[b]],
                     !.cached = p.cached \ {<<p.block_hash[b], b>> : b \in evicted}]
  BY <1>1 DEF maybe_evict, Pool
<1>4. /\ q.ref_cnt = p.ref_cnt
      /\ q.free = p.free
      /\ q.block_hash = [b \in Block |-> IF b \in S THEN NoHash ELSE p.block_hash[b]]
      /\ q.cached = p.cached \ {<<p.block_hash[b], b>> : b \in evicted}
  <2>1. [b \in Block |-> IF b \in evicted THEN NoHash ELSE p.block_hash[b]]
        = [b \in Block |-> IF b \in S THEN NoHash ELSE p.block_hash[b]]
    BY <1>2
  <2> QED BY <1>1, <1>3, <2>1 DEF Pool
<1>5. NoHash \in Hash
  BY DEF NoHash, Hash
<1>6. q \in Pool
  <2>1. [b \in Block |-> IF b \in evicted THEN NoHash ELSE p.block_hash[b]] \in [Block -> Hash]
    BY <1>1, <1>5
  <2>2. p.cached \ {<<p.block_hash[b], b>> : b \in evicted} \in SUBSET (Hash \X Block)
    BY <1>1
  <2> HIDE DEF q, evicted
  <2> QED BY <1>1, <1>3, <2>1, <2>2, Zenon DEF Pool
<1>7. q.cached = {<<q.block_hash[b], b>> : b \in {c \in Block : q.block_hash[c] # NoHash}}
  BY <1>1, <1>2, <1>4 DEF PoolInv
<1>8. q.block_hash[NullBlock] = NoHash
  BY <1>4, NumBlocksAssumption DEF PoolInv, NullBlock, Block
<1> HIDE DEF q
<1> QED BY <1>4, <1>6, <1>7, <1>8 DEF PoolInv, q

\* get_new_blocks(n) with n free blocks: the blocks are distinct, were not
\* referenced, leave the free queue and have lost their hash.
LEMMA GetNewBlocksInv ==
    ASSUME NEW p, PoolInv(p), NEW n \in 0 .. Len(p.free)
    PROVE  LET q == get_new_blocks(p, n)
               new == new_blocks(p, n)
           IN /\ PoolInv(q)
              /\ new \in Seq(Block) /\ Len(new) = n /\ Distinct(new)
              /\ \A b \in Elements(new) : b \in Block /\ b # NullBlock /\ p.ref_cnt[b] = 0
              /\ \A b \in Block : q.ref_cnt[b] = IF b \in Elements(new) THEN p.ref_cnt[b] + 1
                                                 ELSE p.ref_cnt[b]
              /\ \A b \in Block : q.block_hash[b] = IF b \in Elements(new) THEN NoHash
                                                    ELSE p.block_hash[b]
<1> DEFINE q == get_new_blocks(p, n)
           new == new_blocks(p, n)
           taken == Elements(new)
           e == maybe_evict(p, taken)
           ref == [b \in Block |-> IF b \in taken THEN p.ref_cnt[b] + 1 ELSE p.ref_cnt[b]]
           rest == SubSeq(p.free, n + 1, Len(p.free))
<1>1. p.free \in Seq(Block) /\ p.ref_cnt \in [Block -> Nat] /\ Distinct(p.free)
      /\ Elements(p.free) = {b \in Block \ {NullBlock} : p.ref_cnt[b] = 0}
  BY DEF PoolInv, Pool
<1>2. /\ new \in Seq(Block) /\ Len(new) = n /\ Distinct(new)
      /\ taken \subseteq Elements(p.free)
      /\ rest \in Seq(Block) /\ Distinct(rest) /\ Elements(rest) = Elements(p.free) \ taken
  BY <1>1, SplitProperties DEF new_blocks
<1>3. taken \in SUBSET Block
  BY <1>1, <1>2
<1>4. /\ PoolInv(e) /\ e.ref_cnt = p.ref_cnt /\ e.free = p.free
      /\ \A b \in Block : e.block_hash[b] = IF b \in taken THEN NoHash ELSE p.block_hash[b]
  BY <1>3, MaybeEvictInv
<1>5. q = [e EXCEPT !.ref_cnt = ref, !.free = rest]
  BY <1>4 DEF get_new_blocks, PoolInv, Pool
<1> HIDE DEF e, q, new, rest
<1>6. e \in Pool
  BY <1>4 DEF PoolInv
<1>7. ref \in [Block -> Nat]
  BY <1>1
<1>8. q \in Pool
  <2> HIDE DEF ref
  <2> QED BY <1>2, <1>5, <1>6, <1>7, Zenon DEF Pool
<1>9. q.ref_cnt = ref /\ q.free = rest /\ q.block_hash = e.block_hash /\ q.cached = e.cached
  BY <1>5, <1>6, Zenon DEF Pool
<1>10. Elements(q.free) = {b \in Block \ {NullBlock} : q.ref_cnt[b] = 0}
  BY <1>1, <1>2, <1>9
<1>11. PoolInv(q)
  <2>1. q.cached = {<<q.block_hash[b], b>> : b \in {c \in Block : q.block_hash[c] # NoHash}}
        /\ q.block_hash[NullBlock] = NoHash
    <3>1. e.cached = {<<e.block_hash[b], b>> : b \in {c \in Block : e.block_hash[c] # NoHash}}
          /\ e.block_hash[NullBlock] = NoHash
      BY <1>4 DEF PoolInv
    <3>2. q.block_hash = e.block_hash /\ q.cached = e.cached
      BY <1>9
    <3> QED BY <3>1, <3>2
  <2>2. Distinct(q.free)
    BY <1>2, <1>9
  <2> QED BY <1>8, <1>10, <2>1, <2>2 DEF PoolInv
<1> QED BY <1>1, <1>2, <1>4, <1>9, <1>11 DEF q, new

\* touch: the hit blocks get one more reference and leave the free queue.
LEMMA TouchInv ==
    ASSUME NEW p, PoolInv(p), NEW hit \in Seq(Block), NullBlock \notin Elements(hit)
    PROVE  LET q == touch(p, hit)
           IN /\ PoolInv(q)
              /\ \A b \in Block : q.ref_cnt[b] = IF b \in Elements(hit) THEN p.ref_cnt[b] + 1
                                                 ELSE p.ref_cnt[b]
              /\ q.block_hash = p.block_hash
              /\ q.free = Keep(p.free, Block \ {b \in Elements(hit) : b # NullBlock /\ p.ref_cnt[b] = 0})
<1> DEFINE q == touch(p, hit)
           left == {b \in Elements(hit) : b # NullBlock /\ p.ref_cnt[b] = 0}
           ref == [b \in Block |-> IF b \in Elements(hit) THEN p.ref_cnt[b] + 1
                                   ELSE p.ref_cnt[b]]
           rest == Keep(p.free, Block \ left)
<1>1. p \in Pool /\ p.free \in Seq(Block) /\ p.ref_cnt \in [Block -> Nat] /\ Distinct(p.free)
      /\ Elements(p.free) = {b \in Block \ {NullBlock} : p.ref_cnt[b] = 0}
  BY DEF PoolInv, Pool
<1>2. rest \in Seq(Block) /\ Distinct(rest) /\ Elements(rest) = Elements(p.free) \cap (Block \ left)
  BY <1>1, KeepProperties, Zenon
<1>3. q = [p EXCEPT !.ref_cnt = ref, !.free = rest]
  BY <1>1 DEF touch, Pool
<1>4. ref \in [Block -> Nat]
  BY <1>1
<1> HIDE DEF q, rest
<1>5. q \in Pool
  <2> HIDE DEF ref
  <2> QED BY <1>1, <1>2, <1>3, <1>4, Zenon DEF Pool
<1>6. q.ref_cnt = ref /\ q.free = rest /\ q.block_hash = p.block_hash /\ q.cached = p.cached
  BY <1>1, <1>3 DEF Pool
<1>7. Elements(q.free) = {b \in Block \ {NullBlock} : q.ref_cnt[b] = 0}
  BY <1>1, <1>2, <1>6
<1>8. PoolInv(q)
  <2>1. q.cached = {<<q.block_hash[b], b>> : b \in {c \in Block : q.block_hash[c] # NoHash}}
        /\ q.block_hash[NullBlock] = NoHash
    <3>1. q.block_hash = p.block_hash /\ q.cached = p.cached
      BY <1>6
    <3> QED BY <3>1 DEF PoolInv
  <2>2. Distinct(q.free)
    BY <1>2, <1>6
  <2> QED BY <1>5, <1>7, <2>1, <2>2 DEF PoolInv
<1> QED BY <1>6, <1>8 DEF q, rest

\* free_blocks: the blocks whose last reference goes are put back in the queue.
LEMMA FreeBlocksInv ==
    ASSUME NEW p, PoolInv(p), NEW blocks \in Seq(Block), Distinct(blocks),
           \A b \in Elements(blocks) : b # NullBlock /\ p.ref_cnt[b] > 0
    PROVE  LET q == free_blocks(p, blocks)
           IN /\ PoolInv(q)
              /\ \A b \in Block : q.ref_cnt[b] = IF b \in Elements(blocks) THEN p.ref_cnt[b] - 1
                                                 ELSE p.ref_cnt[b]
              /\ q.block_hash = p.block_hash
<1> DEFINE q == free_blocks(p, blocks)
           ref == [b \in Block |-> IF b \in Elements(blocks) THEN p.ref_cnt[b] - 1
                                   ELSE p.ref_cnt[b]]
           freed == Keep(blocks, {b \in Block \ {NullBlock} : ref[b] = 0})
<1>1. p \in Pool /\ p.free \in Seq(Block) /\ p.ref_cnt \in [Block -> Nat] /\ Distinct(p.free)
      /\ Elements(p.free) = {b \in Block \ {NullBlock} : p.ref_cnt[b] = 0}
  BY DEF PoolInv, Pool
<1>2. freed \in Seq(Block) /\ Distinct(freed)
      /\ Elements(freed) = Elements(blocks) \cap {b \in Block \ {NullBlock} : ref[b] = 0}
  <2> HIDE DEF ref
  <2> QED BY KeepProperties, Zenon
<1>3. q = [p EXCEPT !.ref_cnt = ref, !.free = p.free \o freed]
  BY <1>1 DEF free_blocks, Pool
<1>4. ref \in [Block -> Nat]
  BY <1>1
<1> HIDE DEF q, freed
<1>5. Elements(p.free) \cap Elements(freed) = {}
  BY <1>1, <1>2
<1>6. /\ p.free \o freed \in Seq(Block) /\ Distinct(p.free \o freed)
      /\ Elements(p.free \o freed) = Elements(p.free) \cup Elements(freed)
  <2>1. p.free \in Seq(Block) /\ freed \in Seq(Block)
    BY <1>1, <1>2
  <2>2. Distinct(p.free) /\ Distinct(freed)
    BY <1>1, <1>2
  <2> HIDE DEF ref
  <2> QED BY <1>5, <2>1, <2>2, JoinProperties
<1>7. q \in Pool
  <2> HIDE DEF ref
  <2> QED BY <1>1, <1>3, <1>4, <1>6, Zenon DEF Pool
<1>8. q.ref_cnt = ref /\ q.free = p.free \o freed
      /\ q.block_hash = p.block_hash /\ q.cached = p.cached
  BY <1>1, <1>3 DEF Pool
<1>9. Elements(q.free) = {b \in Block \ {NullBlock} : q.ref_cnt[b] = 0}
  <2>1. Elements(q.free) = Elements(p.free) \cup Elements(freed)
    BY <1>6, <1>8
  <2>2. q.ref_cnt = ref
    BY <1>8
  <2>3. \A b \in Block : ref[b] = 0 <=> \/ p.ref_cnt[b] = 0
                                        \/ b \in Elements(blocks) /\ ref[b] = 0
    BY <1>1
  <2> HIDE DEF ref
  <2> QED BY <1>1, <1>2, <2>1, <2>2, <2>3
<1>10. q.cached = {<<q.block_hash[b], b>> : b \in {c \in Block : q.block_hash[c] # NoHash}}
       /\ q.block_hash[NullBlock] = NoHash
  <2>1. q.block_hash = p.block_hash /\ q.cached = p.cached
    BY <1>8
  <2> QED BY <2>1 DEF PoolInv
<1>11. Distinct(q.free)
  BY <1>6, <1>8
<1>12. PoolInv(q)
  BY <1>7, <1>9, <1>10, <1>11 DEF PoolInv
<1> QED BY <1>8, <1>12 DEF q

\* cache_full_blocks on distinct blocks that carry no hash yet: each gets the
\* hash of its position, and the map is extended by exactly these blocks.
LEMMA CacheFullBlocksInv ==
    ASSUME NEW p, PoolInv(p), NEW blocks \in Seq(Block), Distinct(blocks),
           NEW hashes \in Seq(Hash), NEW m \in Nat, NEW n \in Nat, n <= Len(hashes),
           \A i \in DOMAIN hashes : hashes[i] # NoHash,
           \A i \in new_full_blocks(blocks, m, n) : p.block_hash[blocks[i]] = NoHash
    PROVE  LET q == cache_full_blocks(p, hashes, blocks, m, n)
               new == new_full_blocks(blocks, m, n)
           IN /\ PoolInv(q)
              /\ q.ref_cnt = p.ref_cnt
              /\ \A i \in new : q.block_hash[blocks[i]] = hashes[i]
              /\ \A b \in Block : (\A i \in new : blocks[i] # b) => q.block_hash[b] = p.block_hash[b]
<1> DEFINE q == cache_full_blocks(p, hashes, blocks, m, n)
           new == new_full_blocks(blocks, m, n)
           at(b) == CHOOSE i \in new : blocks[i] = b
           hash == [b \in Block |-> IF \E i \in new : blocks[i] = b
                                    THEN hashes[at(b)] ELSE p.block_hash[b]]
           added == {<<hashes[i], blocks[i]>> : i \in new}
<1>1. p \in Pool /\ p.block_hash \in [Block -> Hash] /\ p.cached \in SUBSET (Hash \X Block)
      /\ p.cached = {<<p.block_hash[b], b>> : b \in {c \in Block : p.block_hash[c] # NoHash}}
      /\ p.block_hash[NullBlock] = NoHash
  BY DEF PoolInv, Pool
<1>2. \A i \in new : /\ i \in DOMAIN blocks /\ i \in DOMAIN hashes
                     /\ blocks[i] \in Block /\ blocks[i] # NullBlock
                     /\ hashes[i] \in Hash /\ hashes[i] # NoHash
                     /\ p.block_hash[blocks[i]] = NoHash
  BY DEF new_full_blocks
<1>3. \A i \in new : at(blocks[i]) = i
  BY <1>2 DEF Distinct
<1>4. q = [p EXCEPT !.block_hash = hash, !.cached = p.cached \cup added]
  BY <1>1 DEF cache_full_blocks, Pool
<1> HIDE DEF q, new, at
<1>5. /\ \A i \in new : hash[blocks[i]] = hashes[i]
      /\ \A b \in Block : (\A i \in new : blocks[i] # b) => hash[b] = p.block_hash[b]
      /\ \A b \in Block : (\E i \in new : blocks[i] = b) => hash[b] = hashes[at(b)] /\ at(b) \in new
  <2>1. \A b \in Block : (\E i \in new : blocks[i] = b) => at(b) \in new
    BY <1>3
  <2> QED BY <1>2, <1>3, <2>1
<1>6. hash \in [Block -> Hash] /\ added \in SUBSET (Hash \X Block)
  <2>1. \A b \in Block : hash[b] \in Hash
    BY <1>1, <1>2, <1>5
  <2> QED BY <1>2, <2>1
<1>7. p.cached \cup added = {<<hash[b], b>> : b \in {c \in Block : hash[c] # NoHash}}
  <2> HIDE DEF hash
  <2>1. ASSUME NEW b \in Block, p.block_hash[b] # NoHash
        PROVE  hash[b] = p.block_hash[b]
    BY <1>2, <1>5, <2>1
  <2>2. ASSUME NEW b \in Block, hash[b] # NoHash
        PROVE  <<hash[b], b>> \in p.cached \cup added
    <3>1. CASE \E i \in new : blocks[i] = b
      BY <1>2, <1>5, <3>1
    <3>2. CASE \A i \in new : blocks[i] # b
      BY <1>1, <1>5, <2>2, <3>2
    <3> QED BY <3>1, <3>2
  <2>3. \A i \in new : blocks[i] \in Block /\ hash[blocks[i]] = hashes[i] /\ hashes[i] # NoHash
    BY <1>2, <1>5
  <2>4. p.cached \subseteq {<<hash[b], b>> : b \in {c \in Block : hash[c] # NoHash}}
    BY <1>1, <2>1
  <2>5. added \subseteq {<<hash[b], b>> : b \in {c \in Block : hash[c] # NoHash}}
    BY <2>3, SMTT(30)
  <2> QED BY <2>2, <2>4, <2>5
<1> HIDE DEF hash, added
<1>8. q \in Pool
  BY <1>1, <1>4, <1>6, Zenon DEF Pool
<1>9. q.block_hash = hash /\ q.cached = p.cached \cup added
      /\ q.ref_cnt = p.ref_cnt /\ q.free = p.free
  BY <1>1, <1>4 DEF Pool
<1>10. hash[NullBlock] = NoHash
  <2>1. NullBlock \in Block
    BY NumBlocksAssumption DEF NullBlock, Block
  <2> QED BY <1>1, <1>2, <1>5, <2>1
<1>11. PoolInv(q)
  <2>1. q.cached = {<<q.block_hash[b], b>> : b \in {c \in Block : q.block_hash[c] # NoHash}}
    <3>1. q.block_hash = hash /\ q.cached = p.cached \cup added
      BY <1>9
    <3> QED BY <1>7, <3>1
  <2>2. Distinct(q.free) /\ Elements(q.free) = {b \in Block \ {NullBlock} : q.ref_cnt[b] = 0}
    BY <1>9 DEF PoolInv
  <2> QED BY <1>8, <1>9, <1>10, <2>1, <2>2 DEF PoolInv
<1> QED BY <1>5, <1>9, <1>11 DEF q, new

\* reset_prefix_cache leaves no hash anywhere and touches nothing else.
LEMMA ResetInv ==
    ASSUME NEW p, PoolInv(p)
    PROVE  LET q == reset_prefix_cache(p)
           IN /\ PoolInv(q)
              /\ q.ref_cnt = p.ref_cnt
              /\ \A b \in Block : q.block_hash[b] = NoHash
<1> DEFINE q == reset_prefix_cache(p)
           hash == [b \in Block |-> NoHash]
<1>1. p \in Pool
  BY DEF PoolInv
<1>2. q = [p EXCEPT !.block_hash = hash, !.cached = {}]
  BY DEF reset_prefix_cache
<1>3. hash \in [Block -> Hash]
  BY DEF NoHash, Hash
<1> HIDE DEF q, hash
<1>4. q \in Pool
  BY <1>1, <1>2, <1>3, Zenon DEF Pool
<1>5. q.block_hash = hash /\ q.cached = {} /\ q.ref_cnt = p.ref_cnt /\ q.free = p.free
  BY <1>1, <1>2 DEF Pool
<1>6. \A b \in Block : hash[b] = NoHash
  BY DEF hash
<1>7. NullBlock \in Block
  BY NumBlocksAssumption DEF NullBlock, Block
<1>8. q.cached = {<<q.block_hash[b], b>> : b \in {c \in Block : q.block_hash[c] # NoHash}}
  BY <1>5, <1>6
<1>9. Distinct(q.free) /\ Elements(q.free) = {b \in Block \ {NullBlock} : q.ref_cnt[b] = 0}
  BY <1>5 DEF PoolInv
<1> QED BY <1>4, <1>5, <1>6, <1>7, <1>8, <1>9 DEF PoolInv, q, hash
=============================================================================
