------------------------ MODULE FreeKVCacheBlockQueue ------------------------
(***************************************************************************)
(* The doubly linked list that holds the free KV-cache blocks, pointer by  *)
(* pointer: prev_free_block and next_free_block of every block and of the  *)
(* two fake end nodes, and the counter num_free_blocks that is kept beside *)
(* the list.  The list must behave as the sequence FreeBlockQueue.         *)
(*                                                                         *)
(* The loops of popleft_n, prepend_n and append_n are given by the         *)
(* pointers they leave behind.                                             *)
(***************************************************************************)
EXTENDS Integers, FiniteSets, Sequences

CONSTANT NumBlocks   \* BlockPool needs one for its null block

ASSUME NumBlocksAssumption == NumBlocks \in Nat \ {0}

VARIABLES
    prev_free_block,
    next_free_block,
    num_free_blocks

vars == <<prev_free_block, next_free_block, num_free_blocks>>

Block == 0 .. NumBlocks - 1
FakeHead == -1                  \* fake_free_list_head
FakeTail == NumBlocks           \* fake_free_list_tail
Node == Block \cup {FakeHead, FakeTail}
None == -2

Follow(x) == IF x = None THEN None ELSE next_free_block[x]

\* The node k links after the fake head, None once the chain has ended.
Walk ==
    LET step[k \in 0 .. NumBlocks + 1] ==
            IF k = 0 THEN FakeHead ELSE Follow(step[k - 1])
    IN step

get_all_free_blocks ==
    LET walk == Walk
        len == Cardinality({k \in 1 .. NumBlocks + 1 : Follow(walk[k]) # None})
    IN [k \in 1 .. len |-> walk[k]]

Abstract == INSTANCE FreeBlockQueue WITH queue <- get_all_free_blocks

-----------------------------------------------------------------------------

Init ==
    /\ num_free_blocks = NumBlocks
    /\ prev_free_block = [x \in Node |-> IF x = FakeHead THEN None ELSE x - 1]
    /\ next_free_block = [x \in Node |-> IF x = FakeTail THEN None ELSE x + 1]

popleft ==
    LET first == next_free_block[FakeHead]
    IN /\ first \notin {FakeTail, None}
       /\ next_free_block[first] # None
       /\ next_free_block' = [next_free_block EXCEPT
                                ![FakeHead] = next_free_block[first], ![first] = None]
       /\ prev_free_block' = [prev_free_block EXCEPT
                                ![next_free_block[first]] = FakeHead, ![first] = None]
       /\ num_free_blocks' = num_free_blocks - 1

\* Fault: the new first block keeps its pointer to a block that was popped.
popleft_n_no_relink(n) ==
    LET popped == {Walk[k] : k \in 1 .. n}
    IN /\ n > 0
       /\ num_free_blocks >= n
       /\ num_free_blocks' = num_free_blocks - n
       /\ next_free_block' = [x \in Node |-> IF x \in popped THEN None
                                ELSE IF x = FakeHead THEN Walk[n + 1]
                                ELSE next_free_block[x]]
       /\ prev_free_block' = [x \in Node |-> IF x \in popped THEN None
                                ELSE prev_free_block[x]]

popleft_n(n) ==
    LET popped == {Walk[k] : k \in 1 .. n}
        curr == Walk[n + 1]
    IN /\ n > 0
       /\ num_free_blocks >= n
       /\ num_free_blocks' = num_free_blocks - n
       /\ next_free_block' =
             [x \in Node |-> IF x \in popped THEN None
                             ELSE IF x = FakeHead /\ curr # None THEN curr
                             ELSE next_free_block[x]]
       /\ prev_free_block' =
             [x \in Node |-> IF x \in popped THEN None
                             ELSE IF x = curr THEN FakeHead
                             ELSE prev_free_block[x]]

\* Fault: the next block is not linked back to the previous one.
remove_one_way(b) ==
    /\ prev_free_block[b] # None
    /\ next_free_block[b] # None
    /\ next_free_block' = [next_free_block EXCEPT
                             ![prev_free_block[b]] = next_free_block[b], ![b] = None]
    /\ prev_free_block' = [prev_free_block EXCEPT ![b] = None]
    /\ num_free_blocks' = num_free_blocks - 1

remove(b) ==
    /\ prev_free_block[b] # None
    /\ next_free_block[b] # None
    /\ next_free_block' = [next_free_block EXCEPT
                             ![prev_free_block[b]] = next_free_block[b], ![b] = None]
    /\ prev_free_block' = [prev_free_block EXCEPT
                             ![next_free_block[b]] = prev_free_block[b], ![b] = None]
    /\ num_free_blocks' = num_free_blocks - 1

append(b) ==
    LET last == prev_free_block[FakeTail]
    IN /\ last # None
       /\ next_free_block' = [next_free_block EXCEPT ![last] = b, ![b] = FakeTail]
       /\ prev_free_block' = [prev_free_block EXCEPT ![b] = last, ![FakeTail] = b]
       /\ num_free_blocks' = num_free_blocks + 1

\* Links the blocks bs into the list between two neighbouring nodes.
Splice(left, bs, right) ==
    LET chain == <<left>> \o bs \o <<right>>
        pos(x) == CHOOSE i \in DOMAIN chain : chain[i] = x
        inner == {chain[i] : i \in DOMAIN chain}
    IN /\ next_free_block' =
             [x \in Node |-> IF x \in inner \ {right} THEN chain[pos(x) + 1]
                             ELSE next_free_block[x]]
       /\ prev_free_block' =
             [x \in Node |-> IF x \in inner \ {left} THEN chain[pos(x) - 1]
                             ELSE prev_free_block[x]]

prepend_n(bs) ==
    /\ bs # <<>>
    /\ next_free_block[FakeHead] # None
    /\ Splice(FakeHead, bs, next_free_block[FakeHead])
    /\ num_free_blocks' = num_free_blocks + Len(bs)

append_n(bs) ==
    /\ bs # <<>>
    /\ prev_free_block[FakeTail] # None
    /\ Splice(prev_free_block[FakeTail], bs, FakeTail)
    /\ num_free_blocks' = num_free_blocks + Len(bs)

\* A caller gives back only blocks that it holds: BlockPool.free_blocks passes
\* blocks whose ref_cnt has just dropped to zero.
Held == {b \in Block : prev_free_block[b] = None}

\* The sequences of distinct blocks of S.
Arrangements(S) ==
    UNION {{bs \in [1 .. n -> S] : \A i, j \in 1 .. n : bs[i] = bs[j] => i = j}
             : n \in 0 .. Cardinality(S)}

Next ==
    \/ popleft
    \/ \E n \in 1 .. NumBlocks : popleft_n(n)
    \/ \E b \in Block : remove(b)
    \/ \E b \in Held : append(b)
    \/ \E bs \in Arrangements(Held) : prepend_n(bs)
    \/ \E bs \in Arrangements(Held) : append_n(bs)

Spec == Init /\ [][Next]_vars

-----------------------------------------------------------------------------

\* Every pointer names a node or is None.
TypeOK ==
    /\ prev_free_block \in [Node -> Node \cup {None}]
    /\ next_free_block \in [Node -> Node \cup {None}]
    /\ num_free_blocks \in 0 .. NumBlocks

\* The two directions of the list agree, and the fake ends stay the ends: the
\* O(1) removal from the middle of the queue relies on it.
DoublyLinked ==
    /\ \A x, y \in Node : next_free_block[x] = y <=> prev_free_block[y] = x
    /\ prev_free_block[FakeHead] = None
    /\ next_free_block[FakeTail] = None
    /\ next_free_block[FakeHead] # None

\* The counter that get_num_free_blocks and every admission check read is the
\* length of the list, and exactly the blocks that have been handed out are
\* outside the list.
CounterInSync ==
    /\ num_free_blocks = Len(get_all_free_blocks)
    /\ Abstract!Elements(get_all_free_blocks) = Block \ Held

\* After every operation the list is well linked in both directions, and the
\* counter kept apart from it is its length: what an O(1) removal and an
\* admission check rely on.
ListConsistent == TypeOK /\ DoublyLinked /\ CounterInSync

\* Every pointer operation is the sequence operation it stands for: the list
\* handed out from the head is in eviction order whatever was removed from its
\* middle or put back at either end.
RefinesFreeBlockQueue == Abstract!Spec
=============================================================================
