------------------------ MODULE KVCacheManagerProofs ------------------------
(***************************************************************************)
(* The invariants of KVCacheManager, for any finite set of requests, any   *)
(* number of blocks, any block size and any bound on the tables.           *)
(***************************************************************************)
EXTENDS KVCacheManager, BlockPoolProofs

\* A request has a hash for every block it has put in the prefix cache.
CachedHaveHashes ==
    \A r \in Request : num_cached_block[r] <= Len(block_hashes[r])

\* The i-th hash of a request stands for i blocks.
HashesChain ==
    \A r \in Request : \A i \in DOMAIN block_hashes[r] : Len(block_hashes[r][i]) = i

\* The inductive invariant.  The last two conjuncts are what the sharing
\* property needs: without them a request whose hashes grow or are looked up
\* could meet a block cached under a hash it does not have.
IInv ==
    /\ TypeOK
    /\ PoolInv(pool)
    /\ RefCountIsHolders
    /\ SharedOnlyWithSamePrefix
    /\ NoError
    /\ CachedHaveHashes
    /\ HashesChain

-----------------------------------------------------------------------------

LEMMA DivNat ==
    ASSUME NEW a \in Nat, NEW b \in Nat \ {0}
    PROVE  a \div b \in Nat
OBVIOUS

LEMMA EmptyElements == Elements(<<>>) = {}
BY DEF Elements

\* The counters and lengths are integers.
LEMMA Lengths ==
    ASSUME IInv, NEW r \in Request
    PROVE  /\ num_cached_block[r] \in Int /\ num_cached_block[r] >= Untracked
           /\ num_cached_block[r] <= Len(block_hashes[r])
           /\ Len(block_hashes[r]) \in Nat /\ DOMAIN block_hashes[r] = 1 .. Len(block_hashes[r])
           /\ Len(req_to_blocks[r]) \in Nat /\ DOMAIN req_to_blocks[r] = 1 .. Len(req_to_blocks[r])
<1>1. num_cached_block[r] \in Nat \/ num_cached_block[r] = Untracked
  BY DEF IInv, TypeOK
<1>2. block_hashes[r] \in Seq(Hash) /\ req_to_blocks[r] \in Seq(Block)
  BY DEF IInv, TypeOK
<1>3. num_cached_block[r] <= Len(block_hashes[r])
  BY DEF IInv, CachedHaveHashes
<1> QED BY <1>1, <1>2, <1>3 DEF Untracked

\* The holders of a block are a finite set, empty exactly when ref_cnt is 0.
LEMMA HoldersFinite ==
    ASSUME IInv, NEW b \in Block
    PROVE  /\ IsFiniteSet(Holders(b))
           /\ pool.ref_cnt[b] = 0 <=> Holders(b) = {}
<1>1. IsFiniteSet(Request) /\ Holders(b) \in SUBSET Request
  BY KVCacheAssumption DEF Holders
<1>2. IsFiniteSet(Holders(b))
  BY <1>1, FS_Subset
<1>3. pool.ref_cnt[b] = Cardinality(Holders(b))
  BY DEF IInv, RefCountIsHolders
<1> QED BY <1>2, <1>3, FS_EmptySet

LEMMA InitInv == Init => IInv
<1> SUFFICES ASSUME Init PROVE IInv
  OBVIOUS
<1> USE DEF Init
<1>1. PoolInv(pool)
  BY EmptyPoolInv
<1>2. TypeOK
  <2>1. pool \in Pool
    BY <1>1 DEF PoolInv
  <2>2. req_to_blocks \in [Request -> Seq(Block)] /\ block_hashes \in [Request -> Seq(Hash)]
    OBVIOUS
  <2>3. num_cached_block \in [Request -> Nat \cup {Untracked}]
    OBVIOUS
  <2> QED BY <2>1, <2>2, <2>3, Zenon DEF TypeOK
<1>3. RefCountIsHolders
  <2>1. \A b \in Block : Holders(b) = {}
    BY EmptyElements DEF Holders
  <2>2. \A b \in Block : pool.ref_cnt[b] = 0
    BY DEF EmptyPool
  <2>3. \A r \in Request : Elements(req_to_blocks[r]) = {} /\ Distinct(req_to_blocks[r])
    BY EmptyElements DEF Distinct
  <2> QED BY <2>1, <2>2, <2>3, FS_EmptySet, Zenon DEF RefCountIsHolders
<1>4. SharedOnlyWithSamePrefix
  BY DEF SharedOnlyWithSamePrefix
<1>5. NoError /\ CachedHaveHashes /\ HashesChain
  BY DEF NoError, CachedHaveHashes, HashesChain, Untracked
<1> QED BY <1>1, <1>2, <1>3, <1>4, <1>5 DEF IInv

\* Appended tokens add a hash at the end: what is cached keeps its hash.
LEMMA UpdateBlockHashesInv ==
    ASSUME IInv, NEW r \in Request, NEW c \in Content, update_block_hashes(r, c)
    PROVE  IInv'
<1> DEFINE hashes == block_hashes[r]
           parent == IF hashes = <<>> THEN NoHash ELSE hashes[Len(hashes)]
           hash == Append(parent, c)
<1>1. hashes \in Seq(Hash) /\ Len(hashes) \in Nat /\ block_hashes \in [Request -> Seq(Hash)]
  BY DEF IInv, TypeOK
<1>2. parent \in Seq(Content) /\ Len(parent) = Len(hashes)
  <2>1. CASE hashes = <<>>
    BY <2>1 DEF NoHash
  <2>2. CASE hashes # <<>>
    <3>1. Len(hashes) \in DOMAIN hashes
      BY <1>1, <2>2
    <3> QED BY <1>1, <2>2, <3>1 DEF IInv, HashesChain, Hash
  <2> QED BY <2>1, <2>2
<1>3. hash \in Hash /\ Len(hash) = Len(hashes) + 1
  BY <1>2 DEF Hash
<1> HIDE DEF parent
<1>4. block_hashes' = [block_hashes EXCEPT ![r] = Append(hashes, hash)]
  BY DEF update_block_hashes, parent
<1>5. UNCHANGED <<pool, req_to_blocks, num_cached_block, error>>
  BY DEF update_block_hashes
<1> HIDE DEF hash
<1>6. block_hashes' \in [Request -> Seq(Hash)]
  BY <1>1, <1>3, <1>4
<1>7. \A s \in Request : /\ Len(block_hashes'[s]) >= Len(block_hashes[s])
                         /\ \A i \in DOMAIN block_hashes[s] :
                               block_hashes'[s][i] = block_hashes[s][i]
  BY <1>1, <1>3, <1>4
<1>8. HashesChain'
  <2>1. SUFFICES ASSUME NEW s \in Request, NEW i \in DOMAIN block_hashes'[s]
                 PROVE  Len(block_hashes'[s][i]) = i
    BY DEF HashesChain
  <2>2. CASE s # r
    BY <1>1, <1>4, <2>1, <2>2 DEF IInv, HashesChain
  <2>3. CASE s = r
    <3>1. block_hashes'[s] = Append(hashes, hash)
      BY <1>1, <1>4, <2>3
    <3>2. CASE i \in DOMAIN hashes
      BY <1>1, <1>7, <2>3, <3>2 DEF IInv, HashesChain
    <3>3. CASE i \notin DOMAIN hashes
      BY <1>1, <1>3, <2>1, <3>1, <3>3
    <3> QED BY <3>2, <3>3
  <2> QED BY <2>2, <2>3
<1>9. CachedHaveHashes'
  <2>1. ASSUME NEW s \in Request
        PROVE  num_cached_block'[s] <= Len(block_hashes'[s])
    <3>1. Len(block_hashes'[s]) \in Nat
      BY <1>6
    <3> QED BY <1>5, <1>7, <3>1, Lengths
  <2> QED BY <2>1 DEF CachedHaveHashes
<1>10. SharedOnlyWithSamePrefix'
  <2>1. SUFFICES ASSUME NEW s \in Request, NEW i \in DOMAIN req_to_blocks[s],
                        i <= num_cached_block[s]
                 PROVE  block_hashes'[s][i] = block_hashes[s][i]
    BY <1>5 DEF IInv, SharedOnlyWithSamePrefix, Holders
  <2>2. i \in Nat \ {0}
    BY DEF IInv, TypeOK
  <2>3. i \in DOMAIN block_hashes[s]
    BY <2>1, <2>2, Lengths
  <2> QED BY <1>7, <2>3
<1>11. TypeOK'
  BY <1>5, <1>6 DEF IInv, TypeOK
<1>12. PoolInv(pool)' /\ RefCountIsHolders' /\ NoError'
  BY <1>5 DEF IInv, RefCountIsHolders, Holders, NoError
<1> QED BY <1>8, <1>9, <1>10, <1>11, <1>12 DEF IInv

\* A request that starts over holds no block.
LEMMA NewRequestInv ==
    ASSUME IInv, NEW r \in Request, new_request(r)
    PROVE  IInv'
<1>1. block_hashes' = [block_hashes EXCEPT ![r] = <<>>]
      /\ UNCHANGED <<pool, req_to_blocks, num_cached_block, error>>
      /\ req_to_blocks[r] = <<>> /\ num_cached_block[r] = Untracked
  BY DEF new_request
<1>2. block_hashes' \in [Request -> Seq(Hash)]
  BY <1>1 DEF IInv, TypeOK
<1>3. \A s \in Request : s # r => block_hashes'[s] = block_hashes[s]
  BY <1>1 DEF IInv, TypeOK
<1>4. block_hashes'[r] = <<>>
  BY <1>1 DEF IInv, TypeOK
<1>5. HashesChain'
  BY <1>3, <1>4 DEF IInv, HashesChain
<1>6. CachedHaveHashes'
  BY <1>1, <1>3, <1>4 DEF IInv, CachedHaveHashes, Untracked
<1>7. SharedOnlyWithSamePrefix'
  BY <1>1, <1>3 DEF IInv, SharedOnlyWithSamePrefix, Holders
<1>8. TypeOK'
  BY <1>1, <1>2 DEF IInv, TypeOK
<1>9. PoolInv(pool)' /\ RefCountIsHolders' /\ NoError'
  BY <1>1 DEF IInv, RefCountIsHolders, Holders, NoError
<1> QED BY <1>5, <1>6, <1>7, <1>8, <1>9 DEF IInv

\* Evicting from the cache and resetting it only take hashes away.
LEMMA FewerHashesInv ==
    ASSUME IInv, PoolInv(pool'), pool'.ref_cnt = pool.ref_cnt,
           \A b \in Block : pool'.block_hash[b] \in {NoHash, pool.block_hash[b]},
           UNCHANGED <<req_to_blocks, num_cached_block, block_hashes, error>>
    PROVE  IInv'
<1>1. TypeOK'
  BY DEF IInv, TypeOK, PoolInv
<1>2. RefCountIsHolders'
  BY DEF IInv, RefCountIsHolders, Holders
<1>3. SharedOnlyWithSamePrefix'
  <2>1. SUFFICES ASSUME NEW r \in Request, NEW i \in DOMAIN req_to_blocks[r]
                 PROVE  LET b == req_to_blocks[r][i]
                        IN IF i <= num_cached_block[r]
                           THEN pool'.block_hash[b] \in {NoHash, block_hashes[r][i]}
                           ELSE pool'.block_hash[b] = NoHash /\ Holders(b)' = {r}
    BY DEF SharedOnlyWithSamePrefix
  <2>2. req_to_blocks[r][i] \in Block
    BY DEF IInv, TypeOK
  <2>3. Holders(req_to_blocks[r][i])' = Holders(req_to_blocks[r][i])
    BY DEF Holders
  <2> QED BY <2>2, <2>3 DEF IInv, SharedOnlyWithSamePrefix
<1>4. NoError' /\ CachedHaveHashes' /\ HashesChain'
  BY DEF IInv, NoError, CachedHaveHashes, HashesChain
<1> QED BY <1>1, <1>2, <1>3, <1>4 DEF IInv

LEMMA EvictBlocksInv ==
    ASSUME IInv, NEW S \in SUBSET Block, evict_blocks(S)
    PROVE  IInv'
<1>1. pool' = maybe_evict(pool, S) /\ PoolInv(pool)
  BY DEF evict_blocks, IInv
<1>2. PoolInv(pool') /\ pool'.ref_cnt = pool.ref_cnt
      /\ \A b \in Block : pool'.block_hash[b] = IF b \in S THEN NoHash ELSE pool.block_hash[b]
  BY <1>1, MaybeEvictInv
<1> QED BY <1>2, FewerHashesInv DEF evict_blocks

LEMMA ResetCacheInv ==
    ASSUME IInv, reset_cache
    PROVE  IInv'
<1>1. pool' = reset_prefix_cache(pool) /\ PoolInv(pool)
  BY DEF reset_cache, IInv
<1>2. PoolInv(pool') /\ pool'.ref_cnt = pool.ref_cnt
      /\ \A b \in Block : pool'.block_hash[b] = NoHash
  BY <1>1, ResetInv
<1> QED BY <1>2, FewerHashesInv DEF reset_cache

\* free gives up exactly the references of the request.
LEMMA FreeInv ==
    ASSUME IInv, NEW r \in Request, free(r)
    PROVE  IInv'
<1> DEFINE table == req_to_blocks[r]
           blocks == Reverse(table)
<1>1. /\ pool' = free_blocks(pool, blocks)
      /\ req_to_blocks' = [req_to_blocks EXCEPT ![r] = <<>>]
      /\ num_cached_block' = [num_cached_block EXCEPT ![r] = Untracked]
      /\ UNCHANGED <<block_hashes, error>>
  BY DEF free
<1>2. /\ req_to_blocks \in [Request -> Seq(Block)]
      /\ num_cached_block \in [Request -> Nat \cup {Untracked}]
      /\ table \in Seq(Block) /\ Distinct(table) /\ NullBlock \notin Elements(table)
  BY DEF IInv, TypeOK, RefCountIsHolders
<1>3. blocks \in Seq(Block) /\ Distinct(blocks) /\ Elements(blocks) = Elements(table)
  BY <1>2, ReverseProperties
<1>4. \A b \in Elements(table) : b \in Block /\ r \in Holders(b)
  BY <1>2 DEF Elements, Holders
<1>5. \A b \in Elements(blocks) : b # NullBlock /\ pool.ref_cnt[b] > 0
  <2>1. \A b \in Block : pool.ref_cnt[b] \in Nat
    BY DEF IInv, PoolInv, Pool
  <2> QED BY <1>2, <1>3, <1>4, <2>1, HoldersFinite
<1> HIDE DEF blocks
<1>6. PoolInv(pool)
  BY DEF IInv
<1>7. /\ PoolInv(pool')
      /\ \A b \in Block : pool'.ref_cnt[b] = IF b \in Elements(blocks) THEN pool.ref_cnt[b] - 1
                                             ELSE pool.ref_cnt[b]
      /\ pool'.block_hash = pool.block_hash
  BY <1>1, <1>3, <1>5, <1>6, FreeBlocksInv
<1>8. \A s \in Request : req_to_blocks'[s] = IF s = r THEN <<>> ELSE req_to_blocks[s]
  BY <1>1, <1>2
<1>9. \A b \in Block : Holders(b)' = Holders(b) \ {r}
  BY <1>8, EmptyElements DEF Holders
<1>10. RefCountIsHolders'
  <2>1. ASSUME NEW s \in Request
        PROVE  Distinct(req_to_blocks'[s]) /\ NullBlock \notin Elements(req_to_blocks'[s])
    BY <1>8, EmptyElements DEF IInv, RefCountIsHolders, Distinct
  <2>2. ASSUME NEW b \in Block
        PROVE  pool'.ref_cnt[b] = Cardinality(Holders(b)')
    <3>1. IsFiniteSet(Holders(b)) /\ pool.ref_cnt[b] = Cardinality(Holders(b))
      BY HoldersFinite DEF IInv, RefCountIsHolders
    <3>2. Cardinality(Holders(b) \ {r}) = IF r \in Holders(b) THEN Cardinality(Holders(b)) - 1
                                          ELSE Cardinality(Holders(b))
      BY <3>1, FS_RemoveElement, Zenon
    <3>3. r \in Holders(b) <=> b \in Elements(blocks)
      BY <1>3 DEF Holders
    <3> QED BY <1>7, <1>9, <3>1, <3>2, <3>3
  <2> QED BY <2>1, <2>2 DEF RefCountIsHolders
<1>11. SharedOnlyWithSamePrefix'
  <2>1. SUFFICES ASSUME NEW s \in Request, s # r, NEW i \in DOMAIN req_to_blocks[s]
                 PROVE  LET b == req_to_blocks[s][i]
                        IN IF i <= num_cached_block[s]
                           THEN pool.block_hash[b] \in {NoHash, block_hashes[s][i]}
                           ELSE pool.block_hash[b] = NoHash /\ Holders(b)' = {s}
    BY <1>1, <1>2, <1>7, <1>8 DEF SharedOnlyWithSamePrefix
  <2>2. req_to_blocks[s][i] \in Block
    BY <1>2
  <2>3. Holders(req_to_blocks[s][i])' = Holders(req_to_blocks[s][i]) \ {r}
    BY <1>8, <1>9, <2>1, <2>2
  <2> QED BY <2>1, <2>3 DEF IInv, SharedOnlyWithSamePrefix
<1>12. TypeOK'
  <2>1. req_to_blocks' \in [Request -> Seq(Block)]
    BY <1>1, <1>2
  <2>2. num_cached_block' \in [Request -> Nat \cup {Untracked}]
    BY <1>1, <1>2
  <2> QED BY <1>1, <1>7, <2>1, <2>2 DEF IInv, TypeOK, PoolInv
<1>13. CachedHaveHashes'
  <2>1. \A s \in Request : num_cached_block'[s] \in {num_cached_block[s], Untracked}
    BY <1>1, <1>2
  <2>2. \A s \in Request : Untracked <= Len(block_hashes[s]) /\ num_cached_block[s] <= Len(block_hashes[s])
    BY Lengths DEF Untracked
  <2> QED BY <1>1, <2>1, <2>2 DEF CachedHaveHashes
<1>14. NoError' /\ HashesChain'
  BY <1>1 DEF IInv, NoError, HashesChain
<1> QED BY <1>7, <1>10, <1>11, <1>12, <1>13, <1>14 DEF IInv

\* Putting full blocks of r in the cache, when the blocks behind the cached
\* ones carry no hash and are held by r alone: the step shared by cache_blocks
\* and the end of allocate_slots.
LEMMA CachedSharing ==
    ASSUME NEW p, PoolInv(p), NEW blocks \in Seq(Block), Distinct(blocks),
           NEW hashes \in Seq(Hash), NEW m \in Nat, NEW n \in Nat, n <= Len(hashes),
           \A i \in DOMAIN hashes : hashes[i] # NoHash,
           NullBlock \notin Elements(blocks),
           \A i \in DOMAIN blocks : i > m => p.block_hash[blocks[i]] = NoHash
    PROVE  LET q == cache_full_blocks(p, hashes, blocks, m, n)
           IN /\ PoolInv(q)
              /\ q.ref_cnt = p.ref_cnt
              /\ \A i \in DOMAIN blocks :
                    q.block_hash[blocks[i]] = IF m < i /\ i <= n THEN hashes[i]
                                              ELSE p.block_hash[blocks[i]]
              /\ \A b \in Block \ Elements(blocks) : q.block_hash[b] = p.block_hash[b]
<1> DEFINE q == cache_full_blocks(p, hashes, blocks, m, n)
           new == new_full_blocks(blocks, m, n)
<1>1. new = {i \in DOMAIN blocks : m < i /\ i <= n}
  BY DEF new_full_blocks, Elements
<1>2. \A i \in new : p.block_hash[blocks[i]] = NoHash
  BY <1>1
<1> HIDE DEF q, new
<1>3. /\ PoolInv(q) /\ q.ref_cnt = p.ref_cnt
      /\ \A i \in new : q.block_hash[blocks[i]] = hashes[i]
      /\ \A b \in Block : (\A i \in new : blocks[i] # b) => q.block_hash[b] = p.block_hash[b]
  <2>1. \A i \in new_full_blocks(blocks, m, n) : p.block_hash[blocks[i]] = NoHash
    BY <1>2 DEF new
  <2>2. PoolInv(q) /\ q.ref_cnt = p.ref_cnt
    BY <2>1, CacheFullBlocksInv DEF q
  <2>3. \A i \in new : q.block_hash[blocks[i]] = hashes[i]
    BY <2>1, CacheFullBlocksInv, SMTT(30) DEF q, new
  <2>4. \A b \in Block : (\A i \in new : blocks[i] # b) => q.block_hash[b] = p.block_hash[b]
    BY <2>1, CacheFullBlocksInv DEF q, new
  <2> QED BY <2>2, <2>3, <2>4
<1>4. ASSUME NEW i \in DOMAIN blocks
      PROVE  q.block_hash[blocks[i]] = IF m < i /\ i <= n THEN hashes[i]
                                       ELSE p.block_hash[blocks[i]]
  <2>1. CASE i \in new
    BY <1>1, <1>3, <2>1
  <2>2. CASE i \notin new
    <3>1. \A j \in new : blocks[j] # blocks[i]
      BY <1>1, <2>2 DEF Distinct
    <3>2. blocks[i] \in Block
      OBVIOUS
    <3> QED BY <1>1, <1>3, <2>2, <3>1, <3>2
  <2> QED BY <2>1, <2>2
<1>5. ASSUME NEW b \in Block \ Elements(blocks)
      PROVE  q.block_hash[b] = p.block_hash[b]
  BY <1>1, <1>3 DEF Elements
<1> QED BY <1>3, <1>4, <1>5 DEF q

\* The hashes of a request are never NoHash.
LEMMA HashesNonEmpty ==
    ASSUME IInv, NEW r \in Request
    PROVE  \A i \in DOMAIN block_hashes[r] : block_hashes[r][i] # NoHash
<1>1. \A i \in DOMAIN block_hashes[r] : Len(block_hashes[r][i]) = i /\ i > 0
  BY Lengths DEF IInv, HashesChain
<1>2. Len(NoHash) = 0
  BY DEF NoHash
<1> QED BY <1>1, <1>2

LEMMA CacheBlocksInv ==
    ASSUME IInv, NEW r \in Request, NEW n \in Nat,
           n \div BlockSize <= Len(block_hashes[r]), cache_blocks(r, n)
    PROVE  IInv'
<1> DEFINE table == req_to_blocks[r]
           m == Max(num_cached_block[r], 0)
           full == n \div BlockSize
<1>2. m \in Nat /\ full \in Nat
  BY Lengths, DivNat, KVCacheAssumption DEF Max
<1>3. /\ table \in Seq(Block) /\ Distinct(table) /\ NullBlock \notin Elements(table)
      /\ block_hashes[r] \in Seq(Hash) /\ num_cached_block \in [Request -> Nat \cup {Untracked}]
      /\ PoolInv(pool)
  BY DEF IInv, TypeOK, RefCountIsHolders
<1>4. \A i \in DOMAIN table : i > m => /\ pool.block_hash[table[i]] = NoHash
                                       /\ Holders(table[i]) = {r}
  <2>1. \A i \in DOMAIN table : i > m => ~(i <= num_cached_block[r])
    BY Lengths DEF Max
  <2> QED BY <2>1, SMTT(30) DEF IInv, SharedOnlyWithSamePrefix
<1>5. ~cache_blocks_error(pool, table, m, n)
  BY <1>4 DEF cache_blocks_error, new_full_blocks
<1>5a. /\ m < full
      /\ pool' = cache_full_blocks(pool, block_hashes[r], table, m, full)
      /\ num_cached_block' = [num_cached_block EXCEPT ![r] = full]
      /\ UNCHANGED <<req_to_blocks, block_hashes, error>>
  BY <1>5 DEF cache_blocks
<1> HIDE DEF m, full, table
<1>6. /\ PoolInv(pool') /\ pool'.ref_cnt = pool.ref_cnt
      /\ \A i \in DOMAIN table :
            pool'.block_hash[table[i]] = IF m < i /\ i <= full THEN block_hashes[r][i]
                                         ELSE pool.block_hash[table[i]]
      /\ \A b \in Block \ Elements(table) : pool'.block_hash[b] = pool.block_hash[b]
  <2>1. full <= Len(block_hashes[r])
    BY DEF full
  <2>2. \A i \in DOMAIN block_hashes[r] : block_hashes[r][i] # NoHash
    BY HashesNonEmpty
  <2>3. \A i \in DOMAIN table : i > m => pool.block_hash[table[i]] = NoHash
    BY <1>4
  <2>4. pool' = cache_full_blocks(pool, block_hashes[r], table, m, full)
    BY <1>5a
  <2>5. PoolInv(pool') /\ pool'.ref_cnt = pool.ref_cnt
    BY <1>2, <1>3, <2>1, <2>2, <2>3, <2>4, CachedSharing, SMTT(30)
  <2>6. \A i \in DOMAIN table :
           pool'.block_hash[table[i]] = IF m < i /\ i <= full THEN block_hashes[r][i]
                                        ELSE pool.block_hash[table[i]]
    BY <1>2, <1>3, <2>1, <2>2, <2>3, <2>4, CachedSharing
  <2>7. \A b \in Block \ Elements(table) : pool'.block_hash[b] = pool.block_hash[b]
    BY <1>2, <1>3, <2>1, <2>2, <2>3, <2>4, CachedSharing
  <2> QED BY <2>5, <2>6, <2>7
<1>7. \A b : Holders(b)' = Holders(b)
  BY <1>5a DEF Holders
<1>8. RefCountIsHolders'
  BY <1>5a, <1>6, <1>7 DEF IInv, RefCountIsHolders
<1>9. \A s \in Request : num_cached_block'[s] = IF s = r THEN full ELSE num_cached_block[s]
  BY <1>5a, <1>3
<1>10. SharedOnlyWithSamePrefix'
  <2>1. SUFFICES ASSUME NEW s \in Request, NEW i \in DOMAIN req_to_blocks[s]
                 PROVE  LET b == req_to_blocks[s][i]
                        IN IF i <= num_cached_block'[s]
                           THEN pool'.block_hash[b] \in {NoHash, block_hashes[s][i]}
                           ELSE pool'.block_hash[b] = NoHash /\ Holders(b) = {s}
    BY <1>5a, <1>7, Zenon DEF SharedOnlyWithSamePrefix
  <2>2. IF i <= num_cached_block[s]
        THEN pool.block_hash[req_to_blocks[s][i]] \in {NoHash, block_hashes[s][i]}
        ELSE pool.block_hash[req_to_blocks[s][i]] = NoHash /\ Holders(req_to_blocks[s][i]) = {s}
    BY Zenon DEF IInv, SharedOnlyWithSamePrefix
  <2>3. i \in Nat /\ num_cached_block[s] \in Int /\ req_to_blocks[s][i] \in Block
    BY Lengths DEF IInv, TypeOK
  <2>4. CASE s = r
    <3>1. m >= num_cached_block[r]
      BY Lengths DEF m, Max
    <3>2. req_to_blocks[s] = table /\ num_cached_block'[s] = full
      BY <1>9, <2>4, SMTT(30) DEF table
    <3> QED BY <1>5a, <1>2, <1>4, <1>6, <2>1, <2>2, <2>3, <2>4, <3>1, <3>2, SMTT(30)
  <2>5. CASE s # r
    <3>1. ASSUME req_to_blocks[s][i] \in Elements(table)
          PROVE  /\ pool'.block_hash[req_to_blocks[s][i]] = pool.block_hash[req_to_blocks[s][i]]
      <4>1. PICK j \in DOMAIN table : table[j] = req_to_blocks[s][i]
        BY <3>1 DEF Elements
      <4>2. s \in Holders(table[j])
        BY <4>1 DEF Holders, Elements
      <4>3. ~(j > m)
        BY <1>4, <2>5, <4>2
      <4> QED BY <1>2, <1>6, <4>1, <4>3
    <3>2. pool'.block_hash[req_to_blocks[s][i]] = pool.block_hash[req_to_blocks[s][i]]
      BY <1>6, <2>3, <3>1
    <3>3. num_cached_block'[s] = num_cached_block[s]
      BY <1>9, <2>5, SMTT(30)
    <3> QED BY <2>2, <3>2, <3>3
  <2> QED BY <2>4, <2>5
<1>11. TypeOK'
  <2>1. num_cached_block' \in [Request -> Nat \cup {Untracked}]
    BY <1>5a, <1>2, <1>3
  <2> QED BY <1>5a, <1>6, <2>1 DEF IInv, TypeOK, PoolInv
<1>12. CachedHaveHashes'
  <2>1. full <= Len(block_hashes[r])
    BY DEF full
  <2> QED BY <1>5a, <1>9, <2>1 DEF IInv, CachedHaveHashes
<1>13. NoError' /\ HashesChain'
  BY <1>5a DEF IInv, NoError, HashesChain
<1> QED BY <1>6, <1>8, <1>10, <1>11, <1>12, <1>13 DEF IInv

\* allocate_slots.  The free-block check makes the calls of the pool succeed:
\* the blocks the hit takes out of the free queue are counted by the check.
LEMMA AllocateSlotsInv ==
    ASSUME IInv, NEW r \in Request, NEW computed \in Seq(Block), NEW has_computed \in BOOLEAN,
           NEW num_tokens \in Nat, NEW to_cache \in Nat,
           to_cache \div BlockSize <= Len(block_hashes[r]),
           Len(computed) <= Len(block_hashes[r]),
           \A i \in DOMAIN computed : pool.block_hash[computed[i]] = block_hashes[r][i],
           computed # <<>> => has_computed,
           has_computed => req_to_blocks[r] = <<>>,
           allocate_slots(r, computed, has_computed, num_tokens, to_cache)
    PROVE  IInv'
<1> DEFINE n == num_new_blocks(r, computed, num_tokens)
           touched == touch(pool, computed)
           allocated == get_new_blocks(touched, n)
           table == req_to_blocks[r]
           held == table \o computed
           new == new_blocks(touched, n)
           blocks == held \o new
           tracked == IF has_computed THEN Len(held) ELSE num_cached_block[r]
           m == Max(tracked, 0)
           full == to_cache \div BlockSize
           left == {b \in Elements(computed) : b # NullBlock /\ pool.ref_cnt[b] = 0}
<1>1. /\ PoolInv(pool)
      /\ pool.free \in Seq(Block) /\ pool.ref_cnt \in [Block -> Nat] /\ Distinct(pool.free)
      /\ Elements(pool.free) = {b \in Block \ {NullBlock} : pool.ref_cnt[b] = 0}
      /\ pool.block_hash[NullBlock] = NoHash
  BY DEF IInv, PoolInv, Pool
<1>2. /\ table \in Seq(Block) /\ Distinct(table) /\ NullBlock \notin Elements(table)
      /\ block_hashes[r] \in Seq(Hash) /\ num_cached_block \in [Request -> Nat \cup {Untracked}]
      /\ req_to_blocks \in [Request -> Seq(Block)]
  BY DEF IInv, TypeOK, RefCountIsHolders
<1>3. n + Cardinality({b \in Elements(computed) : pool.ref_cnt[b] = 0 /\ b # NullBlock})
         <= Len(pool.free)
  BY DEF allocate_slots, get_num_blocks_to_allocate, get_num_evictable_blocks, get_num_free_blocks
<1>4. n \in Nat
  <2>1. cdiv(num_tokens, BlockSize) \in Int
    BY KVCacheAssumption DEF cdiv
  <2> QED BY <2>1, Lengths DEF num_new_blocks, Max
<1>5. full \in Nat /\ full <= Len(block_hashes[r])
  BY DivNat, KVCacheAssumption
<1> HIDE DEF n, full
<1>6. /\ DOMAIN computed = 1 .. Len(computed) /\ Len(computed) \in Nat
      /\ \A i \in DOMAIN computed : /\ computed[i] \in Block
                                    /\ i \in DOMAIN block_hashes[r]
                                    /\ pool.block_hash[computed[i]] # NoHash
                                    /\ computed[i] # NullBlock
  <2>1. DOMAIN computed = 1 .. Len(computed) /\ Len(computed) \in Nat
    OBVIOUS
  <2>2. \A i \in DOMAIN computed : i \in DOMAIN block_hashes[r]
    BY <2>1, Lengths
  <2>3. \A i \in DOMAIN computed : pool.block_hash[computed[i]] # NoHash
    BY <2>2, HashesNonEmpty
  <2> QED BY <1>1, <2>1, <2>2, <2>3
<1>7. Distinct(computed)
  <2>1. SUFFICES ASSUME NEW i \in DOMAIN computed, NEW j \in DOMAIN computed,
                        computed[i] = computed[j]
                 PROVE  i = j
    BY DEF Distinct
  <2>2. block_hashes[r][i] = block_hashes[r][j]
    BY <2>1
  <2>3. Len(block_hashes[r][i]) = i /\ Len(block_hashes[r][j]) = j
    BY <1>6 DEF IInv, HashesChain
  <2> QED BY <2>2, <2>3
<1>8. NullBlock \notin Elements(computed)
  BY <1>6 DEF Elements
<1>9. /\ PoolInv(touched)
      /\ \A b \in Block : touched.ref_cnt[b] = IF b \in Elements(computed) THEN pool.ref_cnt[b] + 1
                                               ELSE pool.ref_cnt[b]
      /\ touched.block_hash = pool.block_hash
      /\ touched.free = Keep(pool.free, Block \ left)
  <2>1. PoolInv(pool)
    BY <1>1
  <2> QED BY <1>8, <2>1, TouchInv, Zenon
<1> HIDE DEF touched
<1>10. n \in 0 .. Len(touched.free)
  <2>1. left \in SUBSET Elements(pool.free)
    BY <1>1, <1>6 DEF Elements
  <2>2. Cardinality(left) \in Nat /\ Len(touched.free) = Len(pool.free) - Cardinality(left)
    <3>1. pool.free \in Seq(Block) /\ Distinct(pool.free)
      BY <1>1
    <3>2. touched.free = Keep(pool.free, Block \ left)
      BY <1>9
    <3> HIDE DEF left
    <3> QED BY <2>1, <3>1, <3>2, KeepLength
  <2>3. left = {b \in Elements(computed) : pool.ref_cnt[b] = 0 /\ b # NullBlock}
    OBVIOUS
  <2>4. Len(pool.free) \in Nat
    BY <1>1
  <2> HIDE DEF left
  <2> QED BY <1>3, <1>4, <2>2, <2>3, <2>4
<1>11. /\ PoolInv(allocated)
       /\ new \in Seq(Block) /\ Len(new) = n /\ Distinct(new)
       /\ \A b \in Elements(new) : b \in Block /\ b # NullBlock /\ touched.ref_cnt[b] = 0
       /\ \A b \in Block : allocated.ref_cnt[b] = IF b \in Elements(new) THEN touched.ref_cnt[b] + 1
                                                  ELSE touched.ref_cnt[b]
       /\ \A b \in Block : allocated.block_hash[b] = IF b \in Elements(new) THEN NoHash
                                                     ELSE touched.block_hash[b]
  <2>1. PoolInv(touched)
    BY <1>9, SMTT(30)
  <2> QED BY <1>10, <2>1, GetNewBlocksInv, Zenon
<1> HIDE DEF allocated, new
<1>12. /\ table = <<>> \/ computed = <<>>
       /\ held \in Seq(Block) /\ Len(held) = Len(table) + Len(computed) /\ Distinct(held)
       /\ Elements(held) = Elements(table) \cup Elements(computed)
       /\ DOMAIN held = 1 .. Len(held)
       /\ \A i \in DOMAIN held : held[i] = IF i <= Len(table) THEN table[i]
                                           ELSE computed[i - Len(table)]
  <2>1. table = <<>> \/ computed = <<>>
    OBVIOUS
  <2>2. Elements(table) \cap Elements(computed) = {}
    BY <2>1, EmptyElements
  <2>3. held \in Seq(Block)
    BY <1>2
  <2> QED BY <1>2, <1>7, <2>1, <2>2, <2>3, JoinProperties, SMTT(30)
<1>13. \A b \in Elements(new) : b \notin Elements(computed) /\ Holders(b) = {}
  <2>1. ASSUME NEW b \in Elements(new)
        PROVE  b \notin Elements(computed) /\ pool.ref_cnt[b] = 0
    <3>1. b \in Block /\ touched.ref_cnt[b] = 0
      BY <1>11
    <3>2. touched.ref_cnt[b] = IF b \in Elements(computed) THEN pool.ref_cnt[b] + 1
                               ELSE pool.ref_cnt[b]
      BY <1>9, <3>1
    <3>3. pool.ref_cnt[b] \in Nat
      BY <1>1, <3>1
    <3> QED BY <3>1, <3>2, <3>3
  <2>2. \A b \in Elements(new) : b \in Block
    BY <1>11
  <2> QED BY <2>1, <2>2, HoldersFinite
<1>14. \A b \in Block :
          /\ allocated.ref_cnt[b] = IF b \in Elements(computed) \cup Elements(new)
                                    THEN pool.ref_cnt[b] + 1 ELSE pool.ref_cnt[b]
          /\ allocated.block_hash[b] = IF b \in Elements(new) THEN NoHash ELSE pool.block_hash[b]
  <2>1. SUFFICES ASSUME NEW b \in Block
                 PROVE  /\ allocated.ref_cnt[b] = IF b \in Elements(computed) \cup Elements(new)
                                                  THEN pool.ref_cnt[b] + 1 ELSE pool.ref_cnt[b]
                        /\ allocated.block_hash[b] = IF b \in Elements(new) THEN NoHash
                                                     ELSE pool.block_hash[b]
    BY Zenon
  <2>2. /\ touched.ref_cnt[b] = IF b \in Elements(computed) THEN pool.ref_cnt[b] + 1
                                ELSE pool.ref_cnt[b]
        /\ touched.block_hash[b] = pool.block_hash[b]
    BY <1>9
  <2>3. /\ allocated.ref_cnt[b] = IF b \in Elements(new) THEN touched.ref_cnt[b] + 1
                                  ELSE touched.ref_cnt[b]
        /\ allocated.block_hash[b] = IF b \in Elements(new) THEN NoHash ELSE touched.block_hash[b]
    BY <1>11
  <2>4. b \in Elements(new) => b \notin Elements(computed)
    BY <1>13
  <2> QED BY <2>2, <2>3, <2>4
<1>15. /\ blocks \in Seq(Block) /\ Len(blocks) = Len(held) + n /\ Distinct(blocks)
       /\ Elements(blocks) = Elements(table) \cup Elements(computed) \cup Elements(new)
       /\ \A i \in DOMAIN blocks : blocks[i] = IF i <= Len(held) THEN held[i]
                                               ELSE new[i - Len(held)]
  <2>1. held \in Seq(Block) /\ new \in Seq(Block) /\ Len(new) = n /\ Distinct(held) /\ Distinct(new)
    BY <1>11, <1>12
  <2>2. Elements(held) = Elements(table) \cup Elements(computed)
    BY <1>12
  <2>3. Elements(held) \cap Elements(new) = {}
    <3>1. \A b \in Elements(table) : r \in Holders(b)
      BY DEF Holders
    <3> QED BY <1>13, <2>2, <3>1
  <2> HIDE DEF held
  <2>4. blocks \in Seq(Block) /\ Len(blocks) = Len(held) + n
    BY <2>1, JoinProperties
  <2>5. Elements(blocks) = Elements(held) \cup Elements(new)
    BY <2>1, JoinProperties
  <2>6. \A i \in DOMAIN blocks : blocks[i] = IF i <= Len(held) THEN held[i]
                                             ELSE new[i - Len(held)]
    BY <2>1, JoinProperties
  <2>7. Distinct(blocks)
    BY <2>1, <2>3, JoinProperties
  <2> HIDE DEF blocks
  <2> QED BY <2>2, <2>4, <2>5, <2>6, <2>7, SMTT(30)
<1> HIDE DEF held, blocks
<1>16. \A i \in DOMAIN blocks :
          /\ i \in Nat /\ i > 0 /\ blocks[i] \in Block /\ Len(held) \in Nat
          /\ i <= Len(held) => i \in DOMAIN held /\ blocks[i] = held[i]
          /\ i > Len(held) => blocks[i] \in Elements(new)
  <2>1. blocks \in Seq(Block) /\ Len(blocks) = Len(held) + n /\ Len(held) \in Nat
        /\ DOMAIN held = 1 .. Len(held)
    BY <1>12, <1>15
  <2>2. new \in Seq(Block) /\ Len(new) = n
    BY <1>11
  <2>3. SUFFICES ASSUME NEW i \in DOMAIN blocks
                 PROVE  /\ i \in Nat /\ i > 0 /\ blocks[i] \in Block /\ Len(held) \in Nat
                        /\ i <= Len(held) => i \in DOMAIN held /\ blocks[i] = held[i]
                        /\ i > Len(held) => blocks[i] \in Elements(new)
    BY Zenon
  <2>4. blocks[i] = IF i <= Len(held) THEN held[i] ELSE new[i - Len(held)]
    BY <1>15
  <2>5. i \in 1 .. Len(held) + n /\ blocks[i] \in Block
    BY <2>1
  <2>6. ASSUME i > Len(held) PROVE blocks[i] \in Elements(new)
    <3>1. i - Len(held) \in DOMAIN new /\ blocks[i] = new[i - Len(held)]
      BY <1>4, <2>1, <2>2, <2>4, <2>5, <2>6, SMTT(30)
    <3> QED BY <3>1 DEF Elements
  <2> QED BY <1>4, <2>1, <2>4, <2>5, <2>6, SMTT(30)
<1>17. /\ tracked \in Nat \cup {Untracked} /\ tracked \in Int /\ m \in Nat /\ m >= tracked
       /\ m = 0 \/ m = tracked
  <2>1. Len(held) \in Nat
    BY <1>12
  <2>2. num_cached_block[r] \in Nat \cup {Untracked} /\ num_cached_block[r] \in Int
    BY <1>2, Lengths
  <2>3. tracked \in Nat \cup {Untracked} /\ tracked \in Int
    BY <2>1, <2>2
  <2> HIDE DEF tracked
  <2> QED BY <2>3 DEF Max
<1> HIDE DEF m
<1>18. ASSUME NEW i \in DOMAIN blocks, ~(i <= tracked)
       PROVE  /\ allocated.block_hash[blocks[i]] = NoHash
              /\ \/ blocks[i] \in Elements(new)
                 \/ /\ Holders(blocks[i]) = {r}
                    /\ blocks[i] \notin Elements(computed)
  <2>1. CASE i > Len(held)
    BY <1>14, <1>16, <2>1, SMTT(30)
  <2>2. CASE i <= Len(held)
    <3>1. ~has_computed
      BY <1>18, <2>2
    <3>2. computed = <<>> /\ Len(computed) = 0 /\ ~(i <= num_cached_block[r])
      BY <1>18, <3>1, SMTT(30)
    <3>3. i \in DOMAIN table /\ blocks[i] = table[i]
      <4>1. i \in DOMAIN held /\ blocks[i] = held[i]
        BY <1>16, <2>2
      <4>2. i <= Len(table) /\ i \in Nat /\ i > 0
        BY <1>12, <1>16, <2>2, <3>2, Lengths, SMTT(30)
      <4>3. held[i] = table[i]
        BY <1>12, <4>1, <4>2
      <4> QED BY <4>1, <4>2, <4>3, Lengths
    <3>4. pool.block_hash[table[i]] = NoHash /\ Holders(table[i]) = {r}
      BY <3>2, <3>3, Zenon DEF IInv, SharedOnlyWithSamePrefix
    <3>5. blocks[i] \notin Elements(new)
      BY <1>13, <3>3, <3>4, Zenon
    <3> QED BY <1>14, <1>16, <3>2, <3>3, <3>4, <3>5, EmptyElements, SMTT(30)
  <2> QED BY <1>16, <2>1, <2>2
<1>19. \A i \in DOMAIN blocks : i > m => ~(i <= tracked)
  BY <1>16, <1>17
<1>20. /\ pool' = cache_full_blocks(allocated, block_hashes[r], blocks, m, full)
       /\ req_to_blocks' = [req_to_blocks EXCEPT ![r] = blocks]
       /\ num_cached_block' = [num_cached_block EXCEPT ![r] = IF m < full THEN full ELSE tracked]
       /\ UNCHANGED <<block_hashes, error>>
  <2>1. ~ \E b \in Elements(computed) :
             b # NullBlock /\ pool.ref_cnt[b] = 0 /\ b \notin Elements(pool.free)
    BY <1>1, <1>6 DEF Elements
  <2>2. ~(n > Len(touched.free))
    <3>1. Len(touched.free) \in Nat
      BY <1>9 DEF PoolInv, Pool
    <3> QED BY <1>10, <3>1
  <2>3. ~cache_blocks_error(allocated, blocks, m, to_cache)
    BY <1>18, <1>19 DEF cache_blocks_error, new_full_blocks
  <2> HIDE DEF left
  <2> QED BY <2>1, <2>2, <2>3
          DEF allocate_slots, get_num_free_blocks, n, touched, allocated, held, new, blocks,
              m, full
<1>21. /\ PoolInv(pool') /\ pool'.ref_cnt = allocated.ref_cnt
       /\ \A i \in DOMAIN blocks :
             pool'.block_hash[blocks[i]] = IF m < i /\ i <= full THEN block_hashes[r][i]
                                           ELSE allocated.block_hash[blocks[i]]
       /\ \A b \in Block \ Elements(blocks) : pool'.block_hash[b] = allocated.block_hash[b]
  <2>1. PoolInv(allocated) /\ blocks \in Seq(Block) /\ Distinct(blocks) /\ m \in Nat
        /\ block_hashes[r] \in Seq(Hash)
    BY <1>2, <1>11, <1>15, <1>17
  <2>2. \A i \in DOMAIN blocks : i > m => allocated.block_hash[blocks[i]] = NoHash
    BY <1>18, <1>19
  <2>3. \A i \in DOMAIN block_hashes[r] : block_hashes[r][i] # NoHash
    BY HashesNonEmpty, SMTT(30)
  <2>4. NullBlock \notin Elements(blocks)
    BY <1>2, <1>8, <1>11, <1>15, SMTT(30)
  <2>5. pool' = cache_full_blocks(allocated, block_hashes[r], blocks, m, full)
    BY <1>20, SMTT(30)
  <2>6. PoolInv(pool') /\ pool'.ref_cnt = allocated.ref_cnt
    BY <1>5, <2>1, <2>2, <2>3, <2>4, <2>5, CachedSharing, SMTT(30)
  <2>7. \A i \in DOMAIN blocks :
           pool'.block_hash[blocks[i]] = IF m < i /\ i <= full THEN block_hashes[r][i]
                                         ELSE allocated.block_hash[blocks[i]]
    BY <1>5, <2>1, <2>2, <2>3, <2>4, <2>5, CachedSharing, SMTT(30)
  <2>8. \A b \in Block \ Elements(blocks) : pool'.block_hash[b] = allocated.block_hash[b]
    BY <1>5, <2>1, <2>2, <2>3, <2>4, <2>5, CachedSharing, SMTT(30)
  <2> QED BY <2>6, <2>7, <2>8, SMTT(30)
<1>22. \A s \in Request : req_to_blocks'[s] = IF s = r THEN blocks ELSE req_to_blocks[s]
  <2>1. req_to_blocks' = [req_to_blocks EXCEPT ![r] = blocks]
    BY <1>20
  <2> QED BY <1>2, <2>1
<1>23. \A b \in Block : Holders(b)' = IF b \in Elements(computed) \cup Elements(new)
                                      THEN Holders(b) \cup {r} ELSE Holders(b)
  <2>1. Elements(blocks) = Elements(table) \cup Elements(computed) \cup Elements(new)
    BY <1>15
  <2> QED BY <1>22, <2>1 DEF Holders
<1>24. \A b \in Elements(computed) \cup Elements(new) : r \notin Holders(b)
  <2>1. ASSUME NEW b \in Elements(computed) PROVE r \notin Holders(b)
    <3>1. table = <<>>
      BY <1>12, EmptyElements
    <3> QED BY <3>1, EmptyElements DEF Holders
  <2> QED BY <1>13, <2>1
<1>25. RefCountIsHolders'
  <2>1. ASSUME NEW s \in Request
        PROVE  Distinct(req_to_blocks'[s]) /\ NullBlock \notin Elements(req_to_blocks'[s])
    <3>1. Distinct(blocks) /\ NullBlock \notin Elements(blocks)
      BY <1>2, <1>8, <1>11, <1>15, SMTT(30)
    <3> QED BY <1>22, <3>1, SMTT(30) DEF IInv, RefCountIsHolders
  <2>2. ASSUME NEW b \in Block
        PROVE  pool'.ref_cnt[b] = Cardinality(Holders(b)')
    <3>1. IsFiniteSet(Holders(b)) /\ pool.ref_cnt[b] = Cardinality(Holders(b))
      BY HoldersFinite DEF IInv, RefCountIsHolders
    <3>2. r \notin Holders(b) => Cardinality(Holders(b) \cup {r}) = Cardinality(Holders(b)) + 1
      BY <3>1, FS_AddElement, Zenon
    <3>3. pool'.ref_cnt[b] = allocated.ref_cnt[b]
      BY <1>21
    <3>4. CASE b \in Elements(computed) \cup Elements(new)
      BY <1>14, <1>23, <1>24, <3>1, <3>2, <3>3, <3>4, Zenon
    <3>5. CASE b \notin Elements(computed) \cup Elements(new)
      BY <1>14, <1>23, <3>1, <3>3, <3>5, Zenon
    <3> QED BY <3>4, <3>5, SMTT(30)
  <2> QED BY <2>1, <2>2 DEF RefCountIsHolders
<1>26. \A s \in Request : num_cached_block'[s] = IF s = r THEN IF m < full THEN full ELSE tracked
                                                 ELSE num_cached_block[s]
  <2>1. num_cached_block \in [Request -> Nat \cup {Untracked}]
    BY <1>2
  <2>2. num_cached_block' = [num_cached_block EXCEPT ![r] = IF m < full THEN full ELSE tracked]
    BY <1>20, SMTT(30)
  <2> QED BY <2>1, <2>2
<1> HIDE DEF tracked
<1>27. ASSUME NEW s \in Request \ {r}, NEW i \in DOMAIN req_to_blocks[s],
              NEW b \in Block, b = req_to_blocks[s][i]
       PROVE  /\ pool'.block_hash[b] = pool.block_hash[b]
              /\ pool.block_hash[b] = NoHash => Holders(b)' = Holders(b)
  <2>1. s \in Holders(b)
    BY <1>27 DEF Holders, Elements
  <2>2. b \notin Elements(new)
    BY <1>13, <2>1
  <2>3. allocated.block_hash[b] = pool.block_hash[b]
    BY <1>14, <2>2
  <2>4. pool'.block_hash[b] = pool.block_hash[b]
    <3>1. CASE b \notin Elements(blocks)
      BY <1>21, <2>3, <3>1, SMTT(30)
    <3>2. CASE b \in Elements(blocks)
      <4>1. PICK j \in DOMAIN blocks : blocks[j] = b
        BY <3>2 DEF Elements
      <4>2. CASE m < j
        <5>1. Holders(b) = {r}
          BY <1>16, <1>17, <1>18, <1>19, <2>2, <4>1, <4>2, SMTT(30)
        <5> QED BY <2>1, <5>1, SMTT(30)
      <4>3. CASE ~(m < j)
        BY <1>21, <2>3, <4>1, <4>3, SMTT(30)
      <4> QED BY <4>2, <4>3
    <3> QED BY <3>1, <3>2
  <2>5. ASSUME pool.block_hash[b] = NoHash PROVE b \notin Elements(computed)
    BY <1>6, <2>5 DEF Elements
  <2> QED BY <1>23, <2>2, <2>4, <2>5, SMTT(30)
<1>28. ASSUME NEW i \in DOMAIN blocks, NEW b \in Block, b = blocks[i], i <= tracked
       PROVE  pool'.block_hash[b] \in {NoHash, block_hashes[r][i]} /\ i <= num_cached_block'[r]
  <2>1. ~(m < i) /\ i <= num_cached_block'[r]
    BY <1>5, <1>16, <1>17, <1>26, <1>28, SMTT(30)
  <2>2. pool'.block_hash[b] = allocated.block_hash[b]
    BY <1>21, <1>28, <2>1
  <2>3. CASE b \in Elements(new)
    BY <1>14, <2>1, <2>2, <2>3, SMTT(30)
  <2>4. CASE b \notin Elements(new)
    <3>1. allocated.block_hash[b] = pool.block_hash[b]
      BY <1>14, <2>4
    <3>2. i \in DOMAIN held /\ b = held[i] /\ i <= Len(held) /\ i \in Nat /\ i > 0
      BY <1>16, <1>28, <2>4
    <3>3. held[i] = IF i <= Len(table) THEN table[i] ELSE computed[i - Len(table)]
      BY <1>12, <3>2, SMTT(30)
    <3>4. CASE has_computed
      <4>1. table = <<>> /\ Len(table) = 0
        BY <3>4
      <4>2. held[i] = computed[i] /\ i \in DOMAIN computed
        BY <1>6, <1>12, <3>2, <3>3, <4>1, SMTT(30)
      <4> QED BY <2>1, <2>2, <3>1, <3>2, <4>2
    <3>5. CASE ~has_computed
      <4>1. i <= num_cached_block[r] /\ computed = <<>> /\ Len(computed) = 0
        BY <1>28, <3>5, SMTT(30) DEF tracked
      <4>2. i \in DOMAIN table /\ b = table[i]
        BY <1>12, <3>2, <3>3, <4>1, Lengths
      <4>3. pool.block_hash[table[i]] \in {NoHash, block_hashes[r][i]}
        BY <4>1, <4>2, Zenon DEF IInv, SharedOnlyWithSamePrefix
      <4> QED BY <2>1, <2>2, <3>1, <4>2, <4>3, SMTT(30)
    <3> QED BY <3>4, <3>5
  <2> QED BY <2>3, <2>4, SMTT(30)
<1>29. ASSUME NEW i \in DOMAIN blocks, NEW b \in Block, b = blocks[i], ~(i <= tracked)
       PROVE  /\ pool'.block_hash[b] \in {NoHash, block_hashes[r][i]}
              /\ ~(i <= num_cached_block'[r]) => pool'.block_hash[b] = NoHash
              /\ Holders(b)' = {r}
  <2>1. allocated.block_hash[b] = NoHash
    BY <1>18, <1>29, SMTT(30)
  <2>2. pool'.block_hash[b] = IF m < i /\ i <= full THEN block_hashes[r][i] ELSE NoHash
    BY <1>21, <1>29, <2>1, SMTT(30)
  <2>3. ASSUME ~(i <= num_cached_block'[r]) PROVE ~(m < i /\ i <= full)
    BY <1>5, <1>16, <1>17, <1>26, <2>3, SMTT(30)
  <2>4. CASE b \in Elements(new)
    BY <1>13, <1>23, <2>2, <2>3, <2>4, SMTT(30)
  <2>5. CASE b \notin Elements(new)
    <3>1. Holders(b) = {r} /\ b \notin Elements(computed)
      BY <1>18, <1>29, <2>5, SMTT(30)
    <3>2. Holders(b)' = {r}
      BY <1>23, <2>5, <3>1, SMTT(30)
    <3> QED BY <2>2, <2>3, <3>2, SMTT(30)
  <2> QED BY <2>4, <2>5, SMTT(30)
<1>30. SharedOnlyWithSamePrefix'
  <2>1. \A s \in Request : \A i \in DOMAIN req_to_blocks'[s] : req_to_blocks'[s][i] \in Block
    <3>1. ASSUME NEW s \in Request, NEW i \in DOMAIN req_to_blocks'[s]
          PROVE  req_to_blocks'[s][i] \in Block
      <4>1. CASE s = r
        <5>1. req_to_blocks'[s] = blocks
          BY <1>22, <4>1
        <5> QED BY <1>16, <5>1, SMTT(30)
      <4>2. CASE s # r
        <5>1. req_to_blocks'[s] = req_to_blocks[s] /\ req_to_blocks[s] \in Seq(Block)
          BY <1>2, <1>22, <4>2, SMTT(30)
        <5> QED BY <5>1
      <4> QED BY <4>1, <4>2, SMTT(30)
    <3> QED BY <3>1, Zenon
  <2>2. SUFFICES ASSUME NEW s \in Request, NEW i \in DOMAIN req_to_blocks'[s],
                        NEW b \in Block, b = req_to_blocks'[s][i]
                 PROVE  IF i <= num_cached_block'[s]
                        THEN pool'.block_hash[b] \in {NoHash, block_hashes'[s][i]}
                        ELSE pool'.block_hash[b] = NoHash /\ Holders(b)' = {s}
    BY <2>1 DEF SharedOnlyWithSamePrefix
  <2>3. block_hashes' = block_hashes
    BY <1>20, SMTT(30)
  <2>4. CASE s = r
    <3>1. i \in DOMAIN blocks /\ b = blocks[i]
      BY <1>22, <2>2, <2>4, SMTT(30)
    <3>2. CASE i <= tracked
      BY <1>28, <2>3, <2>4, <3>1, <3>2, SMTT(30)
    <3>3. CASE ~(i <= tracked)
      BY <1>29, <2>3, <2>4, <3>1, <3>3, SMTT(30)
    <3> QED BY <3>2, <3>3, SMTT(30)
  <2>5. CASE s # r
    <3>1. req_to_blocks'[s] = req_to_blocks[s] /\ num_cached_block'[s] = num_cached_block[s]
      BY <1>22, <1>26, <2>5, SMTT(30)
    <3>2. i \in DOMAIN req_to_blocks[s] /\ b = req_to_blocks[s][i]
      BY <2>2, <3>1
    <3>3. IF i <= num_cached_block[s]
          THEN pool.block_hash[b] \in {NoHash, block_hashes[s][i]}
          ELSE pool.block_hash[b] = NoHash /\ Holders(b) = {s}
      BY <3>2, Zenon DEF IInv, SharedOnlyWithSamePrefix
    <3>4. /\ pool'.block_hash[b] = pool.block_hash[b]
          /\ pool.block_hash[b] = NoHash => Holders(b)' = Holders(b)
      BY <1>27, <2>5, <3>2, SMTT(30)
    <3> QED BY <2>3, <3>1, <3>3, <3>4, SMTT(30)
  <2> QED BY <2>4, <2>5
<1>31. TypeOK'
  <2>1. req_to_blocks' \in [Request -> Seq(Block)]
    <3>1. blocks \in Seq(Block) /\ req_to_blocks \in [Request -> Seq(Block)]
      BY <1>2, <1>15
    <3>2. req_to_blocks' = [req_to_blocks EXCEPT ![r] = blocks]
      BY <1>20
    <3> QED BY <3>1, <3>2, Zenon
  <2>2. num_cached_block' \in [Request -> Nat \cup {Untracked}]
    <3>1. num_cached_block \in [Request -> Nat \cup {Untracked}]
          /\ full \in Nat /\ tracked \in Nat \cup {Untracked}
      BY <1>2, <1>5, <1>17
    <3>2. num_cached_block' = [num_cached_block EXCEPT ![r] = IF m < full THEN full ELSE tracked]
      BY <1>20
    <3> QED BY <3>1, <3>2, SMTT(30)
  <2>3. pool' \in Pool
    <3>1. PoolInv(pool')
      BY <1>21
    <3> QED BY <3>1, Zenon DEF PoolInv
  <2>4. block_hashes' = block_hashes /\ error' = error
    BY <1>20
  <2>5. block_hashes \in [Request -> Seq(Hash)] /\ error \in BOOLEAN
    BY Zenon DEF IInv, TypeOK
  <2> QED BY <2>1, <2>2, <2>3, <2>4, <2>5, Zenon DEF TypeOK
<1>32. CachedHaveHashes'
  <2>1. tracked <= Len(block_hashes[r])
    BY <1>12, Lengths, SMTT(30) DEF tracked
  <2>2. \A s \in Request : num_cached_block'[s] <= Len(block_hashes[s])
    BY <1>5, <1>26, <2>1, Lengths, SMTT(30)
  <2> QED BY <1>20, <2>2, SMTT(30) DEF CachedHaveHashes
<1>33. NoError' /\ HashesChain'
  BY <1>20 DEF IInv, NoError, HashesChain
<1> QED BY <1>21, <1>25, <1>30, <1>31, <1>32, <1>33, SMTT(30) DEF IInv

\* A hit on the prefix cache returns blocks cached under the hashes of the
\* request.
LEMMA HitProperties ==
    ASSUME IInv, NEW r \in Request, NEW max \in 0 .. Len(block_hashes[r]),
           NEW computed \in find_longest_cache_hit(block_hashes[r], max)
    PROVE  /\ computed \in Seq(Block)
           /\ Len(computed) <= Len(block_hashes[r])
           /\ \A i \in DOMAIN computed : pool.block_hash[computed[i]] = block_hashes[r][i]
<1>1. PICK n \in 0 .. max : computed \in [1 .. n -> Block]
  BY DEF find_longest_cache_hit
<1>2. Len(block_hashes[r]) \in Nat
  BY Lengths
<1>3. computed \in Seq(Block) /\ Len(computed) = n
  BY <1>1, <1>2
<1>4. ASSUME NEW i \in DOMAIN computed
      PROVE  pool.block_hash[computed[i]] = block_hashes[r][i]
  <2>1. <<block_hashes[r][i], computed[i]>> \in pool.cached
    BY DEF find_longest_cache_hit, get_cached_block
  <2> QED BY <2>1 DEF IInv, PoolInv
<1> QED BY <1>1, <1>2, <1>3, <1>4

LEMMA NextInv == IInv /\ [Next]_kvVars => IInv'
<1> SUFFICES ASSUME IInv, [Next]_kvVars PROVE IInv'
  OBVIOUS
<1>1. ASSUME NEW r \in Request, NEW c \in Content, update_block_hashes(r, c) PROVE IInv'
  BY <1>1, UpdateBlockHashesInv
<1>2. ASSUME NEW r \in Request, new_request(r) PROVE IInv'
  BY <1>2, NewRequestInv
<1>3. ASSUME NEW r \in Request, schedule_waiting(r) PROVE IInv'
  <2>1. req_to_blocks[r] = <<>>
    BY <1>3 DEF schedule_waiting
  <2>2. PICK max \in 0 .. Len(block_hashes[r]) :
        \E computed \in find_longest_cache_hit(block_hashes[r], max) :
        \E has_computed \in {computed # <<>>, TRUE} :
        \E num_tokens \in NumTokens : \E to_cache \in Cacheable(r, num_tokens) :
          allocate_slots(r, computed, has_computed, num_tokens, to_cache)
    BY <1>3, Zenon DEF schedule_waiting
  <2>3. PICK computed \in find_longest_cache_hit(block_hashes[r], max) :
        \E has_computed \in {computed # <<>>, TRUE} :
        \E num_tokens \in NumTokens : \E to_cache \in Cacheable(r, num_tokens) :
          allocate_slots(r, computed, has_computed, num_tokens, to_cache)
    BY <2>2, Zenon
  <2>4. PICK has_computed \in {computed # <<>>, TRUE} :
        \E num_tokens \in NumTokens : \E to_cache \in Cacheable(r, num_tokens) :
          allocate_slots(r, computed, has_computed, num_tokens, to_cache)
    BY <2>3, Zenon
  <2>5. PICK num_tokens \in NumTokens : \E to_cache \in Cacheable(r, num_tokens) :
          allocate_slots(r, computed, has_computed, num_tokens, to_cache)
    BY <2>4
  <2>6. PICK to_cache \in Cacheable(r, num_tokens) :
          allocate_slots(r, computed, has_computed, num_tokens, to_cache)
    BY <2>5
  <2>7. num_tokens \in Nat /\ to_cache \in Nat /\ to_cache \div BlockSize <= Len(block_hashes[r])
    BY KVCacheAssumption DEF NumTokens, Cacheable
  <2>8. has_computed \in BOOLEAN /\ (computed # <<>> => has_computed)
    BY Zenon
  <2> QED BY <2>1, <2>6, <2>7, <2>8, HitProperties, AllocateSlotsInv, SMTT(30)
<1>4. ASSUME NEW r \in Request, schedule_running(r) PROVE IInv'
  <2>1. PICK num_tokens \in NumTokens : \E to_cache \in Cacheable(r, num_tokens) :
          allocate_slots(r, <<>>, FALSE, num_tokens, to_cache)
    BY <1>4, Zenon DEF schedule_running
  <2>2. PICK to_cache \in Cacheable(r, num_tokens) :
          allocate_slots(r, <<>>, FALSE, num_tokens, to_cache)
    BY <2>1, Zenon
  <2>3. num_tokens \in Nat /\ to_cache \in Nat /\ to_cache \div BlockSize <= Len(block_hashes[r])
    BY KVCacheAssumption DEF NumTokens, Cacheable
  <2>4. <<>> \in Seq(Block) /\ Len(<<>>) <= Len(block_hashes[r]) /\ DOMAIN <<>> = {}
    BY Lengths
  <2> QED BY <2>2, <2>3, <2>4, AllocateSlotsInv, Zenon
<1>5. ASSUME NEW r \in Request, NEW n \in Cacheable(r, Len(req_to_blocks[r]) * BlockSize),
             cache_blocks(r, n)
      PROVE  IInv'
  <2>1. n \in Nat /\ n \div BlockSize <= Len(block_hashes[r])
    BY KVCacheAssumption DEF NumTokens, Cacheable
  <2> QED BY <1>5, <2>1, CacheBlocksInv
<1>6. ASSUME NEW r \in Request, free(r) PROVE IInv'
  BY <1>6, FreeInv
<1>7. ASSUME NEW blocks \in SUBSET {b \in Block : pool.block_hash[b] # NoHash},
             evict_blocks(blocks)
      PROVE  IInv'
  BY <1>7, EvictBlocksInv
<1>8. ASSUME reset_cache PROVE IInv'
  BY <1>8, ResetCacheInv, SMTT(30)
<1>9. ASSUME UNCHANGED kvVars PROVE IInv'
  BY <1>9 DEF kvVars, IInv, TypeOK, RefCountIsHolders, SharedOnlyWithSamePrefix, Holders,
             NoError, CachedHaveHashes, HashesChain
<1> QED BY <1>1, <1>2, <1>3, <1>4, <1>5, <1>6, <1>7, <1>8, <1>9 DEF Next

-----------------------------------------------------------------------------

\* The block tables, counters, hashes and the pool keep their types.
THEOREM TypeCorrect == Spec => []TypeOK
<1>1. IInv => TypeOK
  BY DEF IInv
<1> QED BY <1>1, InitInv, NextInv, PTL DEF Spec

\* Every reference is accounted for, whatever sequence of allocations, hits,
\* frees and evictions happens.
THEOREM ReferencesCounted == Spec => []RefCountIsHolders
<1>1. IInv => RefCountIsHolders
  BY DEF IInv
<1> QED BY <1>1, InitInv, NextInv, PTL DEF Spec

\* Exactly the unreferenced blocks are in the free queue, each once.
THEOREM FreeQueueIsExact == Spec => []FreeQueueIsUnreferenced
<1>1. IInv => FreeQueueIsUnreferenced
  BY DEF IInv, PoolInv, FreeQueueIsUnreferenced
<1> QED BY <1>1, InitInv, NextInv, PTL DEF Spec

\* The map from hashes to blocks agrees with the hashes kept in the blocks.
THEOREM CacheMapAgrees == Spec => []CacheMapConsistent
<1>1. IInv => CacheMapConsistent
  BY DEF IInv, PoolInv, CacheMapConsistent
<1> QED BY <1>1, InitInv, NextInv, PTL DEF Spec

\* Requests share a block only where their prefixes agree.
THEOREM SharingIsSafe == Spec => []SharedOnlyWithSamePrefix
<1>1. IInv => SharedOnlyWithSamePrefix
  BY DEF IInv
<1> QED BY <1>1, InitInv, NextInv, PTL DEF Spec

\* No exception and no failed assertion once allocate_slots has passed its
\* free-block check.
THEOREM AllocationNeverFails == Spec => []NoError
<1>1. IInv => NoError
  BY DEF IInv
<1> QED BY <1>1, InitInv, NextInv, PTL DEF Spec
=============================================================================
