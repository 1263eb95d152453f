--------------------------- MODULE FreeBlockQueue ---------------------------
(***************************************************************************)
(* What the queue of free KV-cache blocks promises: a sequence of distinct *)
(* blocks in eviction order, the next block to be handed out first.        *)
(***************************************************************************)
EXTENDS Naturals, FiniteSets, Sequences

CONSTANT NumBlocks   \* len(blocks) given to FreeKVCacheBlockQueue.__init__

VARIABLE queue

Block == 0 .. NumBlocks - 1

Elements(q) == {q[i] : i \in DOMAIN q}

Held == Block \ Elements(queue)

-----------------------------------------------------------------------------

Init == queue = [i \in 1 .. NumBlocks |-> i - 1]

PopLeft == queue # <<>> /\ queue' = Tail(queue)

PopLeftN(n) == n <= Len(queue) /\ queue' = SubSeq(queue, n + 1, Len(queue))

Remove(b) ==
    \E i \in DOMAIN queue :
        /\ queue[i] = b
        /\ queue' = SubSeq(queue, 1, i - 1) \o SubSeq(queue, i + 1, Len(queue))

Distinct(q) == \A i, j \in DOMAIN q : q[i] = q[j] => i = j

\* Some held blocks, in the order the caller chose, go to the front.
PrependN ==
    \E n \in 1 .. Cardinality(Held) :
        /\ Len(queue') = n + Len(queue)
        /\ SubSeq(queue', n + 1, Len(queue')) = queue
        /\ Distinct(queue') /\ Elements(queue') \subseteq Block

AppendN ==
    \E n \in 1 .. Cardinality(Held) :
        /\ Len(queue') = Len(queue) + n
        /\ SubSeq(queue', 1, Len(queue)) = queue
        /\ Distinct(queue') /\ Elements(queue') \subseteq Block

Next ==
    \/ PopLeft
    \/ \E n \in 1 .. NumBlocks : PopLeftN(n)
    \/ \E b \in Block : Remove(b)
    \/ PrependN
    \/ AppendN

Spec == Init /\ [][Next]_queue
=============================================================================
