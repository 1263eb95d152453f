------------------------- MODULE MessageQueueProofs -------------------------
(***************************************************************************)
(* The lock-free ring, for any number of readers, chunks and messages: no  *)
(* reader is ever inside a chunk with the writer, and ring and socket      *)
(* together implement BroadcastQueue.                                      *)
(*                                                                         *)
(* The flags say nothing of which message a chunk holds.  The argument     *)
(* counts: with P messages published and t taken by a reader, its chunk is *)
(* t % MaxChunks and the writer's is P % MaxChunks,                        *)
(* t <= P <= t + MaxChunks, and the flags of the last MaxChunks messages   *)
(* say which readers have taken them.                                      *)
(***************************************************************************)
EXTENDS MessageQueue, FiniteSetTheorems, TLAPS

\* The chunk of the message after the k-th.
chunk(k) == k % MaxChunks

\* The writer is inside its chunk.
inside == w_pc \in {"write", "written", "reset"}

\* How many chunks a reader has marked as read.
taken(r) == Len(received[r]) + missed[r] + (IF r_pc[r] = "recv" THEN 1 ELSE 0)

\* What the chunk of the n-th message says.
content(n) == IF n \in plan.overflows THEN Overflow ELSE n

\* Message k + 1 is in the ring: it is published, and its chunk has not been
\* taken for a later one.
InRing(k) == k \in 0 .. published - 1 /\ sent - MaxChunks <= k

\* The indices count modulo MaxChunks, and the writer is never more than a full
\* ring ahead of a reader, the message it is writing included.
IndexInv ==
    /\ w_idx = chunk(published)
    /\ \A r \in Reader :
          /\ r_idx[r] = chunk(taken(r))
          /\ taken(r) <= published
          /\ sent - taken(r) <= MaxChunks

\* The chunks of the ring hold their messages, with the flags of the readers that
\* have taken them.
RingInv ==
    /\ \A k \in 0 .. published - 1 : InRing(k) =>
          /\ written[chunk(k)]
          /\ data[chunk(k)] = content(k + 1)
          /\ \A r \in Reader : read[chunk(k)][r] <=> k < taken(r)
    /\ \A c \in Chunk : c >= published => ~written[c]

WriterInv ==
    /\ inside => ~written[w_idx] /\ sent > 0
    /\ w_pc = "reset" =>
          /\ data[w_idx] = content(sent)
          /\ \A r \in Reader : r < w_reader => ~read[w_idx][r]
    /\ w_pc # "reset" => w_reader = 1
    /\ w_pc = "send" => sent \in plan.overflows

ReaderInv ==
    \A r \in Reader :
        /\ r_pc[r] = "check_written" => ~read[r_idx[r]][r]
        /\ r_pc[r] \in {"read", "mark"} => taken(r) < published
        /\ r_pc[r] = "mark" => buf[r] = content(taken(r) + 1)

\* How many messages have been put on the socket, if they are large.
queued == IF w_pc = "send" THEN published - 1 ELSE published

\* The socket of a reader that has missed none holds the large messages it has
\* not received, in order.
SocketInv ==
    \A r \in Reader : missed[r] = 0 =>
        /\ Len(received[r]) <= queued
        /\ \A i \in DOMAIN socket[r] :
              /\ socket[r][i] \in plan.overflows
              /\ socket[r][i] \in Len(received[r]) + 1 .. queued
              /\ \A j \in DOMAIN socket[r] : i < j => socket[r][i] < socket[r][j]
        /\ \A k \in Len(received[r]) + 1 .. queued :
              k \in plan.overflows => \E i \in DOMAIN socket[r] : socket[r][i] = k
        /\ r_pc[r] = "recv" => taken(r) \in plan.overflows

TypeInv == TypeOK /\ plan \in Plans

IInv == TypeInv /\ IndexInv /\ RingInv /\ WriterInv /\ ReaderInv /\ SocketInv

-----------------------------------------------------------------------------

\* Quotient and remainder of a division.
LEMMA DivMod == ASSUME NEW M \in Nat \ {0}, NEW a \in Nat 
  PROVE /\ a \div M \in Nat /\ a % M \in 0 .. M - 1 /\ a = (M * (a \div M)) + (a % M)
  OBVIOUS

\* The remainder is the only one.
LEMMA ModUnique == ASSUME NEW M \in Nat \ {0}, NEW q \in Nat, NEW r \in 0 .. M - 1, NEW a \in Nat, a = (M * q) + r
  PROVE a % M = r
<1> DEFINE p == a \div M
           s == a % M
<1>1. p \in Nat /\ s \in 0 .. M - 1 /\ a = (M * p) + s
  BY DivMod, Zenon
<1> HIDE DEF p, s
<1>2. M * (p - q) = r - s
  BY <1>1
<1>3. CASE p - q >= 1
  <2>1. M * (p - q) >= M
    BY <1>1, <1>3
  <2> QED BY <2>1, <1>2, <1>1
<1>4. CASE q - p >= 1
  <2>1. M * (q - p) >= M
    BY <1>1, <1>4
  <2>2. M * (q - p) = s - r
    BY <1>1, <1>2
  <2> QED BY <2>1, <2>2, <1>1
<1>5. CASE p = q
  BY <1>2, <1>5, <1>1 DEF s
<1> QED BY <1>3, <1>4, <1>5, <1>1

\* next_idx: a counter and its remainder advance together.
LEMMA ModNext == ASSUME NEW M \in Nat \ {0}, NEW n \in Nat PROVE (n+1) % M = ((n % M) + 1) % M
<1> DEFINE p == n \div M
           s == n % M
<1>1. p \in Nat /\ s \in 0 .. M - 1 /\ n = (M * p) + s
  BY DivMod, Zenon
<1>s. s = n % M BY Zenon
<1> HIDE DEF p, s
<1>2. CASE s + 1 < M
  <2>1. (n + 1) % M = s + 1
    BY <1>1, <1>2, ModUnique
  <2>2. (s + 1) % M = s + 1
    BY <1>1, <1>2
  <2> QED BY <2>1, <2>2, <1>s, Zenon
<1>3. CASE s + 1 = M
  <2>0. n + 1 = (M * (p + 1)) + 0
    BY <1>1, <1>3
  <2>1. (n + 1) % M = 0
    BY <2>0, <1>1, ModUnique
  <2>3. s + 1 = (M * 1) + 0 BY <1>1, <1>3
  <2>2. (s + 1) % M = 0
    BY <1>1, <2>3, ModUnique
  <2> QED BY <2>1, <2>2, <1>s, Zenon
<1> QED BY <1>1, <1>2, <1>3

\* Two counters less than a full ring apart are in different chunks.
LEMMA ModDist == ASSUME NEW M \in Nat \ {0}, NEW a \in Nat, NEW b \in Nat, a < b, b - a < M PROVE a % M # b % M
<1> SUFFICES ASSUME a % M = b % M PROVE FALSE BY Zenon
<1> DEFINE p == a \div M
           q == b \div M
           s == a % M
<1>1. p \in Nat /\ s \in 0 .. M - 1 /\ a = (M * p) + s
  BY DivMod, Zenon
<1>2. q \in Nat /\ b = (M * q) + s
  BY DivMod, Zenon
<1> HIDE DEF p, q, s
<1>3. M * (q - p) = b - a
  BY <1>1, <1>2
<1>4. CASE q - p >= 1
  <2>1. M * (q - p) >= M
    BY <1>1, <1>2, <1>4
  <2> QED BY <2>1, <1>3
<1>5. CASE q - p <= 0
  <2>1. M * (q - p) <= 0
    BY <1>1, <1>2, <1>5
  <2> QED BY <2>1, <1>3
<1> QED BY <1>1, <1>2, <1>4, <1>5

\* Two counters a full ring apart are in the same chunk.
LEMMA ModPlus == ASSUME NEW M \in Nat \ {0}, NEW a \in Nat PROVE (a+M) % M = a % M
<1> DEFINE p == a \div M
           s == a % M
<1>1. p \in Nat /\ s \in 0 .. M - 1 /\ a = (M * p) + s
  BY DivMod, Zenon
<1>s. s = a % M BY Zenon
<1> HIDE DEF p, s
<1>2. a + M = (M * (p + 1)) + s
  BY <1>1
<1>3. (a + M) % M = s
  BY <1>1, <1>2, ModUnique
<1> QED BY <1>3, <1>s, Zenon

\* The same facts about the chunks of the ring.
LEMMA ChunkFacts ==
  /\ \A k \in Nat : chunk(k) \in Chunk
  /\ \A k \in Nat : next_idx(chunk(k)) = chunk(k + 1)
  /\ \A k, l \in Nat : k < l /\ l - k < MaxChunks => chunk(k) # chunk(l)
  /\ \A k \in Nat : chunk(k + MaxChunks) = chunk(k)
  /\ \A k \in Chunk : chunk(k) = k
  <1> USE MessageQueueAssumption
  <1>1. \A k \in Nat : chunk(k) \in Chunk
    BY DivMod, Zenon DEF chunk, Chunk
  <1>2. \A k \in Nat : next_idx(chunk(k)) = chunk(k + 1)
    BY ModNext, Zenon DEF chunk, next_idx
  <1>3. \A k, l \in Nat : k < l /\ l - k < MaxChunks => chunk(k) # chunk(l)
    BY ModDist, Zenon DEF chunk
  <1>4. \A k \in Nat : chunk(k + MaxChunks) = chunk(k)
    BY ModPlus, Zenon DEF chunk
  <1>5. \A k \in Chunk : chunk(k) = k
    BY DEF chunk, Chunk
  <1> QED
    BY <1>1, <1>2, <1>3, <1>4, <1>5, Zenon

\* acquire_write counts the read flags: when they are as many as the readers,
\* every reader's flag is set.
LEMMA AllHaveRead ==
  ASSUME TypeOK, NEW c \in Chunk, Cardinality({r \in Reader : read[c][r]}) = NReader
  PROVE  \A r \in Reader : read[c][r]
  <1> DEFINE S == {r \in Reader : read[c][r]}
  <1>1. IsFiniteSet(Reader) /\ Cardinality(Reader) = NReader
    BY MessageQueueAssumption, FS_Interval DEF Reader
  <1>2. S \subseteq Reader
    BY Zenon
  <1>3. S = Reader
    BY <1>1, <1>2, FS_Subset, Zenon
  <1> QED
    BY <1>3, Zenon

-----------------------------------------------------------------------------

\* No message is taken for a chunk that is being filled.
LEMMA ContentIsWhole == ASSUME NEW k \in Nat \ {0} PROVE content(k) # Torn
  BY DEF content, Torn, Overflow

\* Steps that touch neither the ring nor the writer, and take no message.
LEMMA RingFrame ==
  ASSUME IInv, UNCHANGED <<plan, written, read, data, w_pc, w_idx, w_reader, sent, r_idx>>,
         \A r \in Reader : taken(r)' = taken(r)
  PROVE  /\ IndexInv' /\ RingInv' /\ WriterInv'
         /\ UNCHANGED <<published, queued, inside>>
         /\ \A k : content(k)' = content(k)
  <1>1. UNCHANGED <<published, queued, inside>>
    BY Zenon DEF published, queued, inside
  <1>2. \A k : content(k)' = content(k)
    BY Zenon DEF content
  <1>3. IndexInv' /\ RingInv'
    BY <1>1, <1>2 DEF IInv, IndexInv, RingInv, InRing
  <1>4. WriterInv'
    BY <1>1, <1>2, Zenon DEF IInv, WriterInv
  <1> QED
    BY <1>1, <1>2, <1>3, <1>4, Zenon

\* How the counters are related.
LEMMA Counters ==
  ASSUME IInv
  PROVE  /\ published \in Nat
         /\ sent = IF inside THEN published + 1 ELSE published
         /\ w_idx = chunk(published)
         /\ \A r \in Reader :
               /\ taken(r) \in Nat
               /\ taken(r) <= published
               /\ sent - taken(r) <= MaxChunks
               /\ r_idx[r] = chunk(taken(r))
  <1>1. \A r \in Reader : taken(r) \in Nat
    BY DEF IInv, TypeInv, TypeOK, taken
  <1> QED
    BY <1>1 DEF IInv, TypeInv, TypeOK, IndexInv, WriterInv, inside, published

\* Two messages in the ring are in different chunks, and neither is in the chunk
\* that the writer is filling.
LEMMA DifferentChunks ==
  ASSUME IInv
  PROVE  /\ \A k, l \in 0 .. published - 1 :
               InRing(k) /\ InRing(l) /\ k # l => chunk(k) # chunk(l)
         /\ \A k \in 0 .. published - 1 :
               sent + 1 - MaxChunks <= k \/ (inside /\ InRing(k)) => chunk(k) # w_idx
  BY Counters, ChunkFacts, MessageQueueAssumption, SMTT(30) DEF InRing

\* The initial state: an empty ring.
LEMMA InitInv == Init => IInv
  <1> SUFFICES ASSUME Init PROVE IInv
    BY Zenon
  <1> USE DEF Init
  <1>1. sent = 0 /\ published = 0 /\ ~inside
    BY Zenon DEF published, inside
  <1>2. \A r \in Reader : taken(r) = 0
    BY DEF taken
  <1>3. chunk(0) = 0
    BY MessageQueueAssumption, ChunkFacts DEF Chunk
  <1>4. TypeInv
    BY MessageQueueAssumption DEF TypeInv, TypeOK, Chunk, Torn
  <1>5. IndexInv
    BY <1>1, <1>2, <1>3, MessageQueueAssumption DEF IndexInv
  <1>6. RingInv
    BY <1>1 DEF RingInv
  <1>7. WriterInv /\ ReaderInv
    BY <1>1, Zenon DEF WriterInv, ReaderInv
  <1>8. SocketInv
    BY <1>1 DEF SocketInv, queued
  <1> QED
    BY <1>4, <1>5, <1>6, <1>7, <1>8, Zenon DEF IInv

\* acquire_write: the chunk is free, so no reader is a full ring behind, and
\* the message that the chunk held, if any, leaves the ring.
LEMMA AcquireWrite == IInv /\ acquire_write => IInv'
  <1> SUFFICES ASSUME IInv, acquire_write PROVE IInv'
    BY Zenon
  <1>1. published' = published /\ sent' = published + 1 /\ sent = published /\ ~inside /\ inside'
    BY DEF IInv, TypeInv, TypeOK, acquire_write, published, inside
  <1>2. \A r \in Reader : taken(r)' = taken(r)
    BY Zenon DEF acquire_write, taken, readerVars
  <1>3. \A k : content(k)' = content(k)
    BY Zenon DEF acquire_write, content
  <1>4. TypeInv'
    BY DEF IInv, TypeInv, TypeOK, acquire_write, readerVars
  <1>5. \A r \in Reader : published + 1 - taken(r) <= MaxChunks
    <2>1. CASE published < MaxChunks
      BY <2>1, Counters, MessageQueueAssumption
    <2>2. CASE published >= MaxChunks
      <3> DEFINE k == published - MaxChunks
      <3>1. k \in 0 .. published - 1 /\ InRing(k) /\ chunk(k) = w_idx
        BY <1>1, <2>2, Counters, ChunkFacts, MessageQueueAssumption DEF InRing
      <3>2. written[w_idx] /\ \A r \in Reader : read[w_idx][r] <=> k < taken(r)
        BY <3>1, Zenon DEF IInv, RingInv
      <3>3. w_idx \in Chunk /\ TypeOK
        BY Zenon DEF IInv, TypeInv, TypeOK
      <3>4. \A r \in Reader : read[w_idx][r]
        BY <3>2, <3>3, AllHaveRead, Zenon DEF acquire_write, can_write
      <3> QED
        BY <3>2, <3>4, Counters, MessageQueueAssumption
    <2> QED
      BY <2>1, <2>2, Counters, MessageQueueAssumption
  <1>6. IndexInv'
    BY <1>1, <1>2, <1>5, Counters DEF IndexInv, acquire_write, readerVars
  <1>7. RingInv'
    <2>1. \A k \in 0 .. published - 1 : InRing(k)' => InRing(k) /\ chunk(k) # w_idx
      BY <1>1, Counters, DifferentChunks, MessageQueueAssumption DEF InRing
    <2>2. w_idx \in Chunk /\ written \in [Chunk -> BOOLEAN] /\ \A k \in Nat : chunk(k) \in Chunk
      BY ChunkFacts, Zenon DEF IInv, TypeInv, TypeOK
    <2>3. \A c \in Chunk : c # w_idx => written'[c] = written[c]
      BY <2>2, Zenon DEF acquire_write
    <2>4. written'[w_idx] = FALSE
      BY <2>2, Zenon DEF acquire_write
    <2> QED
      BY <1>1, <1>2, <1>3, <2>1, <2>2, <2>3, <2>4, Counters DEF RingInv, IInv, acquire_write
  <1>8. WriterInv'
    BY <1>1, Counters DEF IInv, TypeInv, TypeOK, WriterInv, acquire_write
  <1>9. ReaderInv'
    BY <1>1, <1>2, <1>3, Zenon DEF IInv, ReaderInv, acquire_write, readerVars
  <1>10. SocketInv'
    BY <1>1, <1>2 DEF IInv, SocketInv, queued, acquire_write, readerVars
  <1> QED
    BY <1>4, <1>6, <1>7, <1>8, <1>9, <1>10, Zenon DEF IInv

\* write and write_done change the data of the chunk that the writer is in.
LEMMA WriteData == IInv /\ (write \/ write_done) => IInv'
  <1> SUFFICES ASSUME IInv, write \/ write_done PROVE IInv'
    BY Zenon
  <1> USE DEF write, write_done
  <1>1. published' = published /\ inside /\ inside'
    BY Zenon DEF published, inside
  <1>2. \A r \in Reader : taken(r)' = taken(r)
    BY Zenon DEF taken, readerVars
  <1>3. \A k : content(k)' = content(k)
    BY Zenon DEF content
  <1>4. PICK d \in Nat \cup {Overflow} : data' = [data EXCEPT ![w_idx] = d]
    BY Zenon DEF IInv, TypeInv, TypeOK, Torn, Overflow
  <1>5. TypeInv'
    BY <1>4 DEF IInv, TypeInv, TypeOK, readerVars
  <1>6. IndexInv'
    BY <1>1, <1>2, Zenon DEF IInv, IndexInv, readerVars
  <1>7. RingInv'
    <2>1. \A k \in 0 .. published - 1 : InRing(k)' => InRing(k) /\ chunk(k) # w_idx
      BY <1>1, Counters, DifferentChunks, MessageQueueAssumption, Zenon DEF InRing
    <2>2. \A c \in Chunk : c # w_idx => data'[c] = data[c]
      BY <1>4, Zenon DEF IInv, TypeInv, TypeOK
    <2> QED
      BY <1>1, <1>2, <1>3, <2>1, <2>2, Counters, ChunkFacts DEF RingInv, IInv
  <1>8. WriterInv'
    <2>1. w_reader = 1 /\ w_idx \in Chunk /\ DOMAIN data = Chunk
      BY Zenon DEF IInv, WriterInv, TypeInv, TypeOK
    <2>2. write_done => data'[w_idx] = content(sent)
      BY <2>1, Zenon DEF content
    <2>3. \A r \in Reader : ~(r < 1)
      BY DEF Reader
    <2> QED
      BY <1>1, <1>3, <2>1, <2>2, <2>3, Zenon DEF IInv, WriterInv
  <1>9. ReaderInv'
    BY <1>1, <1>2, <1>3, Zenon DEF IInv, ReaderInv, readerVars
  <1>10. SocketInv'
    BY <1>1, <1>2 DEF IInv, SocketInv, queued, readerVars
  <1> QED
    BY <1>5, <1>6, <1>7, <1>8, <1>9, <1>10, Zenon DEF IInv

\* One iteration of the loop over the read flags of the writer's chunk.
LEMMA ResetReadFlag == IInv /\ reset_read_flag => IInv'
  <1> SUFFICES ASSUME IInv, reset_read_flag PROVE IInv'
    BY Zenon
  <1> USE DEF reset_read_flag
  <1>1. published' = published /\ inside /\ inside'
    BY Zenon DEF published, inside
  <1>2. \A r \in Reader : taken(r)' = taken(r)
    BY Zenon DEF taken, readerVars
  <1>3. \A k : content(k)' = content(k)
    BY Zenon DEF content
  <1>4. w_reader \in Reader /\ w_idx \in Chunk /\ read \in [Chunk -> [Reader -> BOOLEAN]]
    BY MessageQueueAssumption DEF IInv, TypeInv, TypeOK, Reader
  <1>5. /\ \A c \in Chunk, r \in Reader :
              read'[c][r] = IF c = w_idx /\ r = w_reader THEN FALSE ELSE read[c][r]
        /\ read' \in [Chunk -> [Reader -> BOOLEAN]]
    BY <1>4, Zenon
  <1>6. TypeInv'
    <2>1. w_reader' \in 1 .. NReader + 1
      BY <1>4, MessageQueueAssumption DEF Reader
    <2> QED
      BY <1>5, <2>1, Zenon DEF IInv, TypeInv, TypeOK, readerVars
  <1>7. IndexInv'
    BY <1>1, <1>2, Zenon DEF IInv, IndexInv, readerVars
  <1>8. RingInv'
    <2>1. \A k \in 0 .. published - 1 : InRing(k)' => InRing(k) /\ chunk(k) # w_idx
      BY <1>1, Counters, DifferentChunks, MessageQueueAssumption, Zenon DEF InRing
    <2> QED
      BY <1>1, <1>2, <1>3, <1>5, <2>1, Counters, ChunkFacts DEF RingInv, IInv
  <1>9. WriterInv'
    BY <1>1, <1>3, <1>4, <1>5 DEF IInv, WriterInv, Reader
  <1>10. ReaderInv'
    BY <1>1, <1>2, <1>3, <1>5 DEF IInv, TypeInv, TypeOK, ReaderInv, readerVars
  <1>11. SocketInv'
    BY <1>1, <1>2 DEF IInv, SocketInv, queued, readerVars
  <1> QED
    BY <1>6, <1>7, <1>8, <1>9, <1>10, <1>11, Zenon DEF IInv

\* mark_written publishes the message: it enters the ring, with no flag of a reader.
LEMMA MarkWritten == IInv /\ mark_written => IInv'
  <1> SUFFICES ASSUME IInv, mark_written PROVE IInv'
    BY Zenon
  <1> USE DEF mark_written
  <1>1. published' = published + 1 /\ inside /\ ~inside' /\ sent = published + 1
    BY DEF IInv, TypeInv, TypeOK, published, inside
  <1>2. \A r \in Reader : taken(r)' = taken(r)
    BY Zenon DEF taken, readerVars
  <1>3. \A k : content(k)' = content(k)
    BY Zenon DEF content
  <1>4. w_idx \in Chunk /\ written \in [Chunk -> BOOLEAN]
    BY Zenon DEF IInv, TypeInv, TypeOK
  <1>5. w_idx = chunk(published) /\ w_idx' = chunk(published + 1)
    BY Counters, ChunkFacts, Zenon
  <1>6. /\ \A c \in Chunk : written'[c] = IF c = w_idx THEN TRUE ELSE written[c]
        /\ written' \in [Chunk -> BOOLEAN]
    BY <1>4, Zenon
  <1>7. TypeInv'
    <2>1. w_idx' \in Chunk
      BY <1>5, Counters, ChunkFacts
    <2>2. w_reader' \in 1 .. NReader + 1
      BY MessageQueueAssumption
    <2> QED
      BY <1>6, <2>1, <2>2, Zenon DEF IInv, TypeInv, TypeOK, readerVars
  <1>8. IndexInv'
    BY <1>1, <1>2, <1>5, Counters DEF IndexInv, readerVars
  <1>9. RingInv'
    <2>1. \A k \in 0 .. published - 1 : InRing(k)' => InRing(k) /\ chunk(k) # w_idx
      BY <1>1, Counters, DifferentChunks, MessageQueueAssumption, Zenon DEF InRing
    <2>2. \A r \in Reader : ~read[w_idx][r] /\ taken(r) <= published
      <3>1. \A r \in Reader : r < w_reader
        BY MessageQueueAssumption DEF IInv, TypeInv, TypeOK, Reader
      <3> QED
        BY <3>1, Counters, Zenon DEF IInv, WriterInv
    <2>3. data[w_idx] = content(published + 1)
      BY <1>1, Zenon DEF IInv, WriterInv
    <2>4. \A k \in 0 .. published : InRing(k)' =>
            /\ written'[chunk(k)]
            /\ data[chunk(k)] = content(k + 1)
            /\ \A r \in Reader : read[chunk(k)][r] <=> k < taken(r)
      <3>1. TAKE k \in 0 .. published
      <3>2. CASE k = published
        BY <1>4, <1>5, <1>6, <2>2, <2>3, <3>2, Counters
      <3>3. CASE k # published
        BY <1>6, <2>1, <3>3, Counters, ChunkFacts, SMTT(30) DEF IInv, RingInv
      <3> QED
        BY <3>2, <3>3, Zenon
    <2>5. \A c \in Chunk : c >= published + 1 => ~written'[c]
      <3>1. \A c \in Chunk : c >= published + 1 => c # w_idx
        BY <1>5, Counters, ChunkFacts, MessageQueueAssumption DEF Chunk
      <3> QED
        BY <1>6, <3>1, Counters DEF IInv, RingInv, Chunk
    <2> QED
      BY <1>1, <1>2, <1>3, <2>4, <2>5, Counters DEF RingInv
  <1>10. WriterInv'
    BY <1>1, Zenon DEF WriterInv
  <1>11. ReaderInv'
    BY <1>1, <1>2, <1>3, Counters DEF IInv, ReaderInv, readerVars
  <1>12. SocketInv'
    <2>1. queued = published /\ queued' = IF sent \in plan.overflows THEN published ELSE published + 1
      BY <1>1, Counters DEF queued
    <2>2. \A r \in Reader : socket' = socket /\ received' = received /\ missed' = missed
                            /\ plan' = plan /\ r_pc' = r_pc /\ Len(received[r]) \in Nat
      BY DEF IInv, TypeInv, TypeOK, readerVars
    <2>3. queued' \in Int /\ queued <= queued' /\ published \in Nat
      BY <2>1, Counters
    <2>4. \A k \in Int : k \in plan.overflows /\ k <= queued' => k <= queued
      BY <1>1, <2>1, Counters
    <2>5. SUFFICES ASSUME NEW r \in Reader, missed[r] = 0
                   PROVE  /\ Len(received[r]) <= queued'
                          /\ \A i \in DOMAIN socket[r] :
                                /\ socket[r][i] \in plan.overflows
                                /\ socket[r][i] \in Len(received[r]) + 1 .. queued'
                                /\ \A j \in DOMAIN socket[r] : i < j => socket[r][i] < socket[r][j]
                          /\ \A k \in Len(received[r]) + 1 .. queued' :
                                k \in plan.overflows => \E i \in DOMAIN socket[r] : socket[r][i] = k
                          /\ r_pc[r] = "recv" => taken(r) \in plan.overflows
      BY <1>2, <2>2, Zenon DEF SocketInv
    <2> QED
      BY <2>1, <2>2, <2>3, <2>4, <2>5 DEF IInv, SocketInv
  <1> QED
    BY <1>7, <1>8, <1>9, <1>10, <1>11, <1>12, Zenon DEF IInv

\* send_overflow: the large message follows on every socket, after the earlier ones.
LEMMA SendOverflow == IInv /\ send_overflow => IInv'
  <1> SUFFICES ASSUME IInv, send_overflow PROVE IInv'
    BY Zenon
  <1> USE DEF send_overflow
  <1>1. published' = published /\ ~inside /\ ~inside' /\ sent = published /\ published \in Nat
    BY Counters, Zenon DEF published, inside
  <1>2. \A r \in Reader : taken(r)' = taken(r)
    BY Zenon DEF taken, readerVars
  <1>3. \A k : content(k)' = content(k)
    BY Zenon DEF content
  <1>4. TypeInv'
    BY DEF IInv, TypeInv, TypeOK, readerVars
  <1>5. IndexInv'
    BY <1>1, <1>2, Zenon DEF IInv, IndexInv, readerVars
  <1>6. RingInv'
    BY <1>1, <1>2, <1>3, Zenon DEF IInv, RingInv, InRing
  <1>7. WriterInv' /\ ReaderInv'
    BY <1>1, <1>2, <1>3, Zenon DEF IInv, WriterInv, ReaderInv, readerVars
  <1>8. SocketInv'
    <2>1. queued = published - 1 /\ queued' = published /\ published \in plan.overflows
      BY <1>1, Zenon DEF queued, IInv, WriterInv
    <2>2. SUFFICES ASSUME NEW r \in Reader, missed[r] = 0
                   PROVE  /\ Len(received[r]) <= published
                          /\ \A i \in DOMAIN socket'[r] :
                                /\ socket'[r][i] \in plan.overflows
                                /\ socket'[r][i] \in Len(received[r]) + 1 .. published
                                /\ \A j \in DOMAIN socket'[r] : i < j => socket'[r][i] < socket'[r][j]
                          /\ \A k \in Len(received[r]) + 1 .. published :
                                k \in plan.overflows => \E i \in DOMAIN socket'[r] : socket'[r][i] = k
                          /\ r_pc[r] = "recv" => taken(r) \in plan.overflows
      BY <1>2, <2>1 DEF SocketInv, readerVars
    <2> DEFINE n == Len(socket[r])
    <2>3. socket[r] \in Seq(Nat) /\ received[r] \in Seq(Nat) /\ missed[r] \in Nat
      BY Zenon DEF IInv, TypeInv, TypeOK
    <2>4. /\ DOMAIN socket[r] = 1 .. n /\ DOMAIN socket'[r] = 1 .. n + 1 /\ n \in Nat
          /\ \A i \in 1 .. n : socket'[r][i] = socket[r][i]
          /\ socket'[r][n + 1] = published
      BY <1>1, <2>3
    <2>5. Len(received[r]) < published /\ Len(received[r]) \in Nat
      BY <2>1, <2>2, <2>3, <1>1, SMTT(30) DEF IInv, SocketInv
    <2>6. /\ \A i \in 1 .. n :
                /\ socket[r][i] \in plan.overflows
                /\ socket[r][i] \in Len(received[r]) + 1 .. published - 1
                /\ \A j \in 1 .. n : i < j => socket[r][i] < socket[r][j]
          /\ \A k \in Len(received[r]) + 1 .. published - 1 :
                k \in plan.overflows => \E i \in 1 .. n : socket[r][i] = k
          /\ r_pc[r] = "recv" => taken(r) \in plan.overflows
      BY <2>1, <2>2, <2>4 DEF IInv, SocketInv
    <2> HIDE DEF n
    <2>7. \A i \in 1 .. n + 1 :
            /\ socket'[r][i] \in plan.overflows
            /\ socket'[r][i] \in Len(received[r]) + 1 .. published
            /\ \A j \in 1 .. n + 1 : i < j => socket'[r][i] < socket'[r][j]
      <3>1. TAKE i \in 1 .. n + 1
      <3>2. CASE i = n + 1
        BY <1>1, <2>1, <2>4, <2>5, <3>2
      <3>3. CASE i \in 1 .. n
        BY <1>1, <2>4, <2>5, <2>6, <3>3
      <3> QED
        BY <2>4, <3>2, <3>3
    <2>8. ASSUME NEW k \in Len(received[r]) + 1 .. published, k \in plan.overflows
          PROVE  \E i \in 1 .. n + 1 : socket'[r][i] = k
      <3>1. CASE k = published
        BY <2>4, <3>1
      <3>2. CASE k # published
        BY <1>1, <2>3, <2>4, <2>6, <2>8, <3>2
      <3> QED
        BY <3>1, <3>2, Zenon
    <2>9. DOMAIN socket'[r] = 1 .. n + 1 /\ Len(received[r]) <= published
      BY <1>1, <2>4, <2>5
    <2>10. \A k \in Len(received[r]) + 1 .. published :
             k \in plan.overflows => \E i \in DOMAIN socket'[r] : socket'[r][i] = k
      BY <2>8, <2>9, Zenon
    <2> QED
      BY <2>6, <2>7, <2>9, <2>10, Zenon
  <1> QED
    BY <1>4, <1>5, <1>6, <1>7, <1>8, Zenon DEF IInv

\* The steps of the writer outside its chunk that change only where it is.
LEMMA WriterMoves == IInv /\ (enqueue \/ acquire_write_timeout \/ notify) => IInv'
  <1> SUFFICES ASSUME IInv, enqueue \/ acquire_write_timeout \/ notify PROVE IInv'
    BY Zenon
  <1> USE DEF enqueue, acquire_write_timeout, notify
  <1>1. published' = published /\ ~inside /\ ~inside' /\ queued' = queued
    BY Zenon DEF published, inside, queued
  <1>2. \A r \in Reader : taken(r)' = taken(r)
    BY Zenon DEF taken, readerVars
  <1>3. \A k : content(k)' = content(k)
    BY Zenon DEF content
  <1>4. TypeInv'
    BY ZenonT(30) DEF IInv, TypeInv, TypeOK, readerVars
  <1>5. IndexInv'
    BY <1>1, <1>2, Zenon DEF IInv, IndexInv, readerVars
  <1>6. RingInv'
    BY <1>1, <1>2, <1>3, Zenon DEF IInv, RingInv, InRing
  <1>7. WriterInv' /\ ReaderInv'
    BY <1>1, <1>2, <1>3, Zenon DEF IInv, WriterInv, ReaderInv, inside, readerVars
  <1>8. SocketInv'
    BY <1>1, <1>2 DEF IInv, SocketInv, readerVars
  <1> QED
    BY <1>4, <1>5, <1>6, <1>7, <1>8, Zenon DEF IInv
-----------------------------------------------------------------------------
(* The readers' steps. *)

\* A reader that is to read its own flag and then the writer's finds a message
\* that it has not taken: not an old one, whose flag it would find set, nor the
\* one that the writer is filling, which is not marked as written.
LEMMA WrittenIsNew ==
  ASSUME IInv, NEW r \in Reader, r_pc[r] = "check_written", written[r_idx[r]]
  PROVE  taken(r) < published
  <1> SUFFICES ASSUME taken(r) = published PROVE FALSE
    BY Counters
  <1>1. r_idx[r] = w_idx /\ w_idx = chunk(published) /\ published \in Nat
    BY Counters, Zenon
  <1>2. ~inside /\ sent = published
    BY <1>1, Counters, Zenon DEF IInv, WriterInv
  <1>3. CASE published < MaxChunks
    <2>1. published \in Chunk /\ w_idx = published
      BY <1>1, <1>3, ChunkFacts, MessageQueueAssumption DEF Chunk
    <2> QED
      BY <1>1, <2>1 DEF IInv, RingInv, Chunk
  <1>4. CASE published >= MaxChunks
    <2> DEFINE k == published - MaxChunks
    <2>1. k \in Nat /\ k + MaxChunks = published /\ k < published
      BY <1>1, <1>4, MessageQueueAssumption
    <2>2. chunk(k) = w_idx
      BY <1>1, <2>1, ChunkFacts, Zenon
    <2>3. k \in 0 .. published - 1 /\ InRing(k)
      BY <1>1, <1>2, <2>1, MessageQueueAssumption DEF InRing
    <2>4. read[w_idx][r]
      BY <2>1, <2>2, <2>3, Zenon DEF IInv, RingInv
    <2> QED
      BY <1>1, <2>4, Zenon DEF IInv, ReaderInv
  <1> QED
    BY <1>1, <1>3, <1>4, MessageQueueAssumption

\* A reader that is to read its chunk finds the message after its last.
LEMMA ReadsNext ==
  ASSUME IInv, NEW r \in Reader, taken(r) < published
  PROVE  /\ taken(r) \in 0 .. published - 1
         /\ InRing(taken(r))
         /\ data[r_idx[r]] = content(taken(r) + 1)
  <1>1. taken(r) \in 0 .. published - 1 /\ InRing(taken(r))
    BY Counters, MessageQueueAssumption, SMTT(30) DEF InRing
  <1> QED
    BY <1>1, Counters, Zenon DEF IInv, RingInv

\* The steps of a reader that change only where it is, or what it has read.
ReaderMove(r) ==
    \/ dequeue(r) \/ check_read_flag(r) \/ check_written_flag(r) \/ wait_spin(r) \/ wait_poll(r)
    \/ wait_expires(r) \/ wait_timeout(r) \/ read_data(r) \/ shutdown(r) \/ cancel(r)

LEMMA ReaderMoves == ASSUME NEW r \in Reader PROVE IInv /\ ReaderMove(r) => IInv'
  <1> SUFFICES ASSUME IInv, ReaderMove(r) PROVE IInv'
    BY SMTT(30)
  <1> USE DEF ReaderMove, dequeue, check_read_flag, check_written_flag, wait_spin, wait_poll,
              wait_expires, wait_timeout, read_data, shutdown, cancel
  <1>1. UNCHANGED <<plan, written, read, data, w_pc, w_idx, w_reader, sent, r_idx, received,
                    missed, socket>>
    BY Zenon DEF writerVars, readerVars
  <1>2. /\ \A q \in Reader : q # r => r_pc'[q] = r_pc[q] /\ buf'[q] = buf[q]
        /\ r_pc'[r] = "recv" <=> r_pc[r] = "recv"
    BY ZenonT(30) DEF IInv, TypeInv, TypeOK, readerVars, after_wait
  <1>3. \A q \in Reader : taken(q)' = taken(q)
    BY <1>1, <1>2, Zenon DEF taken
  <1>4. /\ IndexInv' /\ RingInv' /\ WriterInv'
        /\ UNCHANGED <<published, queued, inside>> /\ \A k : content(k)' = content(k)
    BY <1>1, <1>3, RingFrame, Zenon
  <1>5. TypeInv'
    <2>1. r_pc' \in [Reader -> {"idle", "check", "check_written", "wait", "read", "mark", "recv",
                                "cancelled"}]
      BY Zenon DEF IInv, TypeInv, TypeOK, readerVars, after_wait
    <2>2. buf' \in [Reader -> Nat \cup {Overflow}]
      BY ZenonT(30) DEF IInv, TypeInv, TypeOK, readerVars
    <2>3. /\ notified' \in [Reader -> BOOLEAN] /\ expired' \in [Reader -> BOOLEAN]
          /\ shutting_down' \in [Reader -> BOOLEAN] /\ cancelled' \in [Reader -> BOOLEAN]
      BY Zenon DEF IInv, TypeInv, TypeOK, readerVars
    <2> QED
      BY <1>1, <2>1, <2>2, <2>3, Zenon DEF IInv, TypeInv, TypeOK
  <1>6. ReaderInv'
    <2>1. r_pc'[r] = "check_written" => ~read[r_idx[r]][r]
      BY Zenon DEF IInv, TypeInv, TypeOK, ReaderInv, readerVars, after_wait
    <2>2. r_pc'[r] \in {"read", "mark"} => taken(r) < published
      BY WrittenIsNew, Zenon DEF IInv, TypeInv, TypeOK, ReaderInv, readerVars, after_wait
    <2>3. r_pc'[r] = "mark" => buf'[r] = content(taken(r) + 1)
      BY <2>2, ReadsNext, Zenon DEF IInv, TypeInv, TypeOK, ReaderInv, readerVars, after_wait
    <2> QED
      BY <1>1, <1>2, <1>3, <1>4, <2>1, <2>2, <2>3, Zenon DEF IInv, ReaderInv
  <1>7. SocketInv'
    BY <1>1, <1>2, <1>3, <1>4, ZenonT(30) DEF IInv, SocketInv
  <1> QED
    BY <1>4, <1>5, <1>6, <1>7, Zenon DEF IInv

\* mark_read: the reader takes the message, and no flag of another message or
\* of the chunk that the writer is filling changes.
LEMMA MarkRead == ASSUME NEW r \in Reader PROVE IInv /\ mark_read(r) => IInv'
  <1> SUFFICES ASSUME IInv, mark_read(r) PROVE IInv'
    BY Zenon
  <1> DEFINE t == taken(r)
             large == buf[r] = Overflow
  <1>1. UNCHANGED <<plan, written, data, w_pc, w_idx, w_reader, sent, expired, missed, socket,
                    notified, shutting_down, cancelled>>
    BY Zenon DEF mark_read, writerVars
  <1>2. published' = published /\ queued' = queued /\ inside' = inside
    BY <1>1, Zenon DEF published, queued, inside
  <1>3. \A k : content(k)' = content(k)
    BY <1>1, Zenon DEF content
  <1>4. /\ t \in 0 .. published - 1 /\ t \in Nat /\ InRing(t) /\ r_idx[r] = chunk(t)
        /\ buf[r] = content(t + 1) /\ published \in Nat
    BY ReadsNext, Counters, Zenon DEF mark_read, IInv, ReaderInv
  <1>5. large <=> t + 1 \in plan.overflows
    BY <1>4 DEF content, Overflow
  <1>6. ~large => buf[r] = t + 1
    BY <1>4, <1>5, SMTT(30) DEF content
  <1>7. received[r] \in Seq(Nat) /\ missed[r] \in Nat /\ r_pc[r] = "mark"
    BY Zenon DEF mark_read, IInv, TypeInv, TypeOK
  <1>8. /\ r_pc' = [r_pc EXCEPT ![r] = IF large THEN "recv" ELSE "idle"]
        /\ received' = IF large THEN received
                                ELSE [received EXCEPT ![r] = Append(@, t + 1)]
    BY <1>6, Zenon DEF mark_read
  <1>9. /\ t = Len(received[r]) + missed[r]
        /\ taken(r)' = t + 1
        /\ \A q \in Reader : q # r => taken(q)' = taken(q)
    <2>1. DOMAIN r_pc = Reader /\ DOMAIN received = Reader
      BY Zenon DEF IInv, TypeInv, TypeOK
    <2>2. t = Len(received[r]) + missed[r]
      BY <1>7 DEF taken
    <2>3. \A q \in Reader : q # r => taken(q)' = taken(q)
      BY <1>1, <1>8, <2>1, Zenon DEF taken
    <2>4. CASE large
      BY <1>1, <1>7, <1>8, <2>1, <2>2, <2>4, SMTT(30) DEF taken
    <2>5. CASE ~large
      <3>1. received'[r] = Append(received[r], t + 1) /\ r_pc'[r] = "idle"
        BY <1>8, <2>1, <2>5, Zenon
      <3>2. Len(received'[r]) = Len(received[r]) + 1
        BY <1>7, <1>4, <3>1
      <3> QED
        BY <1>1, <1>7, <2>2, <2>3, <3>1, <3>2 DEF taken
    <2> QED
      BY <2>2, <2>3, <2>4, <2>5, Zenon
  <1> HIDE DEF t, large
  <1>10. /\ read'[chunk(t)][r]
         /\ \A c \in Chunk, q \in Reader :
               c # chunk(t) \/ q # r => (read'[c][q] <=> read[c][q])
         /\ read' \in [Chunk -> [Reader -> BOOLEAN]]
    <2> DEFINE c0 == chunk(t)
    <2>1. read' = [read EXCEPT ![c0][r] = TRUE] /\ c0 \in Chunk
      BY <1>4, ChunkFacts, Zenon DEF mark_read
    <2>2. read \in [Chunk -> [Reader -> BOOLEAN]]
      BY Zenon DEF IInv, TypeInv, TypeOK
    <2> HIDE DEF c0
    <2>3. read'[c0] = [read[c0] EXCEPT ![r] = TRUE] /\ \A c \in Chunk : c # c0 => read'[c] = read[c]
      BY <2>1, <2>2, Zenon
    <2>4. read'[c0][r] = TRUE /\ \A q \in Reader : q # r => read'[c0][q] = read[c0][q]
      BY <2>1, <2>2, <2>3, Zenon
    <2>5. read' \in [Chunk -> [Reader -> BOOLEAN]]
      BY <2>1, <2>2, SMTT(30)
    <2> QED
      BY <2>1, <2>3, <2>4, <2>5, Zenon DEF c0
  <1>11. /\ \A q \in Reader : r_idx'[q] = IF q = r THEN chunk(t + 1) ELSE r_idx[q]
         /\ r_idx' \in [Reader -> Chunk]
    BY <1>4, ChunkFacts, SMTT(30) DEF mark_read, IInv, TypeInv, TypeOK
  <1>12. TypeInv'
    <2>0. received \in [Reader -> Seq(Nat)]
      BY Zenon DEF IInv, TypeInv, TypeOK
    <2>1. received' \in [Reader -> Seq(Nat)]
      BY <1>4, <1>8, <2>0
    <2>2. r_pc' \in [Reader -> {"idle", "check", "check_written", "wait", "read", "mark", "recv",
                                "cancelled"}]
      BY <1>8, Zenon DEF IInv, TypeInv, TypeOK
    <2>3. buf' \in [Reader -> Nat \cup {Overflow}]
      BY Zenon DEF mark_read, IInv, TypeInv, TypeOK, Torn
    <2> QED
      BY <1>1, <1>10, <1>11, <2>1, <2>2, <2>3, SMTT(30) DEF IInv, TypeInv, TypeOK
  <1>13. IndexInv'
    BY <1>1, <1>2, <1>4, <1>9, <1>11, Counters, MessageQueueAssumption, SMTT(30) DEF IndexInv, t
  <1>14. RingInv'
    <2>1. ASSUME NEW k \in 0 .. published - 1, InRing(k), NEW q \in Reader
          PROVE  read'[chunk(k)][q] <=> k < taken(q)'
      <3>1. (read[chunk(k)][q] <=> k < taken(q)) /\ k \in Nat /\ chunk(k) \in Chunk
        BY <1>4, <2>1, ChunkFacts, SMTT(60) DEF IInv, RingInv
      <3>2. CASE q # r
        BY <1>9, <1>10, <3>1, <3>2, Zenon
      <3>3. CASE q = r /\ k = t
        BY <1>4, <1>9, <1>10, <3>3
      <3>4. CASE q = r /\ k # t
        <4>1. chunk(k) # chunk(t)
          BY <1>4, <2>1, <3>4, DifferentChunks, Zenon
        <4>2. k < t <=> k < t + 1
          BY <1>4, <3>1, <3>4, SMTT(30)
        <4> QED
          BY <1>9, <1>10, <3>1, <3>4, <4>1, <4>2, Zenon DEF t
      <3> QED
        BY <3>2, <3>3, <3>4, SMTT(30)
    <2> QED
      BY <1>1, <1>2, <1>3, <2>1, Zenon DEF IInv, RingInv, InRing
  <1>15. WriterInv'
    <2>1. inside => chunk(t) # w_idx
      BY <1>4, DifferentChunks, SMTT(30)
    <2> QED
      BY <1>1, <1>2, <1>3, <1>10, <2>1, Zenon DEF IInv, TypeInv, TypeOK, WriterInv, inside
  <1>16. ReaderInv'
    <2>1. r_pc'[r] \in {"recv", "idle"}
      BY <1>8, SMTT(30) DEF IInv, TypeInv, TypeOK
    <2>2. \A q \in Reader : q # r => r_pc'[q] = r_pc[q] /\ buf'[q] = buf[q]
      BY <1>8, Zenon DEF mark_read, IInv, TypeInv, TypeOK
    <2>3. \A q \in Reader : q # r => r_idx'[q] = r_idx[q] /\ r_idx[q] \in Chunk
      BY <1>11, Zenon DEF IInv, TypeInv, TypeOK
    <2>4. \A q \in Reader : q # r => (read'[r_idx'[q]][q] <=> read[r_idx[q]][q])
      BY <1>10, <2>3, Zenon
    <2> QED
      BY <1>2, <1>3, <1>9, <2>1, <2>2, <2>4, Zenon DEF IInv, ReaderInv
  <1>17. SocketInv'
    <2>1. ASSUME NEW q \in Reader, q # r
          PROVE  UNCHANGED <<taken(q), received[q], r_pc[q], missed[q], socket[q]>>
      BY <1>1, <1>8, <1>9, <2>1, Zenon DEF IInv, TypeInv, TypeOK
    <2>2. CASE large
      <3>1. r_pc'[r] = "recv" /\ received' = received
        BY <1>8, <2>2, SMTT(30) DEF IInv, TypeInv, TypeOK
      <3> QED
        BY <1>1, <1>2, <1>5, <1>9, <2>1, <2>2, <3>1, SMTT(30) DEF IInv, SocketInv
    <2>3. CASE ~large
      <3>1. r_pc'[r] = "idle" /\ received'[r] = Append(received[r], t + 1)
        BY <1>8, <2>3, Zenon DEF IInv, TypeInv, TypeOK
      <3>2. Len(received'[r]) = Len(received[r]) + 1 /\ Len(received[r]) \in Nat
        BY <1>4, <1>7, <3>1
      <3>3. \A k \in Int : k \in plan.overflows /\ missed[r] = 0 => k # Len(received[r]) + 1
        BY <1>5, <1>7, <1>9, <2>3
      <3>4. missed[r] = 0 => Len(received'[r]) <= queued
        \* The last message published is still to be sent only if it is large.
        BY <1>4, <1>5, <1>7, <1>9, <2>3, <3>2 DEF queued, published, inside, IInv, WriterInv
      <3>5. queued \in Int
        BY <1>4 DEF queued
      <3>6. \A k \in Int : k \in plan.overflows /\ missed[r] = 0 /\ k \in Len(received[r]) + 1 .. queued
                => k \in Len(received'[r]) + 1 .. queued
        BY <3>2, <3>3, <3>5
      <3>7. \A k \in Len(received'[r]) + 1 .. queued : k \in Len(received[r]) + 1 .. queued
        BY <3>2, <3>5, SMTT(30)
      <3>8. \A i \in DOMAIN socket[r] : socket[r][i] \in Int
        BY DEF IInv, TypeInv, TypeOK
      <3> QED
        BY <1>1, <1>2, <2>1, <3>1, <3>4, <3>6, <3>7, <3>8, SMTT(30) DEF IInv, SocketInv
    <2> QED
      BY <2>2, <2>3, SMTT(30)
  <1> QED
    BY <1>12, <1>13, <1>14, <1>15, <1>16, <1>17, Zenon DEF IInv

\* recv: the socket of a reader that has missed none begins with the message
\* whose chunk it has just taken.
LEMMA HeadIsNext ==
  ASSUME IInv, NEW r \in Reader, r_pc[r] = "recv", socket[r] # <<>>, missed[r] = 0
  PROVE  Head(socket[r]) = Len(received[r]) + 1
  <1> DEFINE n == Len(received[r])
             s == socket[r]
  <1>1. n \in Nat /\ s \in Seq(Nat) /\ taken(r) = n + 1
    BY SMTT(30) DEF IInv, TypeInv, TypeOK, taken
  <1>2. /\ n + 1 \in plan.overflows
        /\ \A i \in DOMAIN s : s[i] \in n + 1 .. queued
        /\ \A i, j \in DOMAIN s : i < j => s[i] < s[j]
        /\ \A k \in n + 1 .. queued : k \in plan.overflows => \E i \in DOMAIN s : s[i] = k
    BY <1>1, Zenon DEF IInv, SocketInv
  <1> HIDE DEF n, s
  <1>3. s # <<>> /\ DOMAIN s = 1 .. Len(s) /\ Len(s) \in Nat /\ 1 \in DOMAIN s
    BY <1>1 DEF s
  <1>4. queued \in Int /\ n + 1 \in n + 1 .. queued
    BY <1>1, <1>2, <1>3, Counters, SMTT(30) DEF queued
  <1>5. PICK i \in DOMAIN s : s[i] = n + 1
    BY <1>2, <1>4, Zenon
  <1>6. s[1] = n + 1
    BY <1>1, <1>2, <1>3, <1>5
  <1> QED
    BY <1>1, <1>3, <1>6 DEF n, s

\* recv gives the reader the first message of its socket.
LEMMA Recv == ASSUME NEW r \in Reader PROVE IInv /\ recv(r) => IInv'
  <1> SUFFICES ASSUME IInv, recv(r) PROVE IInv'
    BY Zenon
  <1>1. UNCHANGED <<plan, written, read, data, w_pc, w_idx, w_reader, sent, expired, missed, r_idx,
                    buf, notified, shutting_down, cancelled>>
    BY Zenon DEF recv, writerVars
  <1>2. /\ r_pc[r] = "recv" /\ r_pc'[r] = "idle"
        /\ socket[r] # <<>> /\ socket[r] \in Seq(Nat) /\ socket'[r] = Tail(socket[r])
        /\ received[r] \in Seq(Nat) /\ received'[r] = Append(received[r], Head(socket[r]))
        /\ missed[r] \in Nat
    BY SMTT(30) DEF recv, IInv, TypeInv, TypeOK
  <1>3. \A q \in Reader : q # r => UNCHANGED <<r_pc[q], socket[q], received[q]>>
    BY Zenon DEF recv, IInv, TypeInv, TypeOK
  <1>4. Head(socket[r]) \in Nat /\ Len(received'[r]) = Len(received[r]) + 1 /\ Len(received[r]) \in Nat
    BY <1>2, SMTT(30)
  <1>5. \A q \in Reader : taken(q)' = taken(q)
    <2>1. \A q \in Reader : q # r => taken(q)' = taken(q)
      BY <1>1, <1>3, Zenon DEF taken
    <2>2. taken(r)' = taken(r)
      BY <1>1, <1>2, <1>4, SMTT(30) DEF taken
    <2> QED
      BY <2>1, <2>2, Zenon
  <1>6. /\ IndexInv' /\ RingInv' /\ WriterInv'
         /\ UNCHANGED <<published, queued, inside>> /\ \A k : content(k)' = content(k)
    BY <1>1, <1>5, RingFrame, Zenon
  <1>7. TypeInv'
    <2>1. received' \in [Reader -> Seq(Nat)] /\ socket' \in [Reader -> Seq(Nat)]
      BY <1>2, <1>4, SMTT(60) DEF recv, IInv, TypeInv, TypeOK
    <2>2. r_pc' \in [Reader -> {"idle", "check", "check_written", "wait", "read", "mark", "recv",
                                "cancelled"}]
      BY Zenon DEF recv, IInv, TypeInv, TypeOK
    <2> QED
      BY <1>1, <2>1, <2>2, Zenon DEF IInv, TypeInv, TypeOK
  <1>8. ReaderInv'
    BY <1>1, <1>2, <1>3, <1>5, <1>6, Zenon DEF IInv, ReaderInv
  <1>9. SocketInv'
    <2>1. ASSUME missed[r] = 0
          PROVE  /\ Len(received'[r]) <= queued
                 /\ \A i \in DOMAIN socket'[r] :
                      /\ socket'[r][i] \in plan.overflows
                      /\ socket'[r][i] \in Len(received'[r]) + 1 .. queued
                      /\ \A j \in DOMAIN socket'[r] : i < j => socket'[r][i] < socket'[r][j]
                 /\ \A k \in Len(received'[r]) + 1 .. queued :
                      k \in plan.overflows => \E i \in DOMAIN socket'[r] : socket'[r][i] = k
      <3> DEFINE n == Len(received[r])
                 s == socket[r]
                 m == Len(s)
      <3>1. /\ \A i \in DOMAIN s : s[i] \in plan.overflows /\ s[i] \in n + 1 .. queued
            /\ \A i, j \in DOMAIN s : i < j => s[i] < s[j]
            /\ \A k \in n + 1 .. queued : k \in plan.overflows => \E i \in DOMAIN s : s[i] = k
        BY <2>1, Zenon DEF IInv, SocketInv
      <3>2. /\ DOMAIN s = 1 .. m /\ m \in Nat \ {0} /\ s[1] = n + 1
            /\ DOMAIN Tail(s) = 1 .. m - 1 /\ \A i \in 1 .. m - 1 : Tail(s)[i] = s[i + 1]
        BY <1>2, <2>1, HeadIsNext
      <3>3. n \in Nat /\ queued \in Int
        BY <1>4, Counters DEF queued
      <3> HIDE DEF n, s, m
      <3>4. n + 1 <= queued
        BY <3>1, <3>2, <3>3
      <3>5. ASSUME NEW i \in 1 .. m - 1
            PROVE  /\ Tail(s)[i] \in plan.overflows
                   /\ Tail(s)[i] \in n + 2 .. queued
                   /\ \A j \in 1 .. m - 1 : i < j => Tail(s)[i] < Tail(s)[j]
        <4>1. /\ i + 1 \in DOMAIN s /\ 1 \in DOMAIN s /\ 1 < i + 1 /\ Tail(s)[i] = s[i + 1]
              /\ \A j \in 1 .. m - 1 : i < j => j + 1 \in DOMAIN s /\ i + 1 < j + 1
          BY <3>2
        <4>2. s[1] < s[i + 1] /\ s[i + 1] \in n + 1 .. queued /\ s[i + 1] \in plan.overflows
          BY <3>1, <4>1, Zenon
        <4>3. s[i + 1] \in n + 2 .. queued
          BY <3>2, <3>3, <4>2
        <4>4. ASSUME NEW j \in 1 .. m - 1, i < j PROVE Tail(s)[i] < Tail(s)[j]
          BY <3>1, <3>2, <4>1, <4>4, Zenon
        <4> QED
          BY <4>1, <4>2, <4>3, <4>4, Zenon
      <3>6. ASSUME NEW k \in n + 2 .. queued, k \in plan.overflows
            PROVE  \E i \in 1 .. m - 1 : Tail(s)[i] = k
        <4>1. PICK i \in 1 .. m : s[i] = k
          BY <3>1, <3>2, <3>3, <3>6
        <4>2. i # 1 /\ i - 1 \in 1 .. m - 1 /\ Tail(s)[i - 1] = k
          BY <3>2, <3>3, <4>1
        <4> QED
          BY <4>2, Zenon
      <3>7. Len(received'[r]) = n + 1 /\ Len(received'[r]) + 1 = n + 2
        BY <1>4 DEF n
      <3>8. socket'[r] = Tail(s)
        BY <1>2, Zenon DEF s
      <3> QED
        BY <3>2, <3>4, <3>5, <3>6, <3>7, <3>8, Zenon
    <2>2. r_pc'[r] # "recv"
      BY <1>2, Zenon
    <2> QED
      BY <1>1, <1>3, <1>5, <1>6, <2>1, <2>2, SMTT(60) DEF IInv, SocketInv
  <1> QED
    BY <1>6, <1>7, <1>8, <1>9, Zenon DEF IInv

\* recv_timeout: the chunk stays taken, and nothing is promised to the reader any more.
LEMMA RecvTimeout == ASSUME NEW r \in Reader PROVE IInv /\ recv_timeout(r) => IInv'
  <1> SUFFICES ASSUME IInv, recv_timeout(r) PROVE IInv'
    BY Zenon
  <1>1. UNCHANGED <<plan, written, read, data, w_pc, w_idx, w_reader, sent, expired, received, r_idx,
                    buf, socket, notified, shutting_down, cancelled>>
    BY Zenon DEF recv_timeout, writerVars
  <1>2. /\ r_pc[r] = "recv" /\ r_pc'[r] = "idle"
        /\ missed[r] \in Nat /\ missed'[r] = missed[r] + 1
        /\ Len(received[r]) \in Nat
    BY DEF recv_timeout, IInv, TypeInv, TypeOK
  <1>3. \A q \in Reader : q # r => r_pc'[q] = r_pc[q] /\ missed'[q] = missed[q]
    BY SMTT(30) DEF recv_timeout, IInv, TypeInv, TypeOK
  <1>4. \A q \in Reader : taken(q)' = taken(q)
    <2>1. \A q \in Reader : q # r => taken(q)' = taken(q)
      BY <1>1, <1>3, Zenon DEF taken
    <2>2. taken(r)' = taken(r)
      BY <1>1, <1>2, SMTT(30) DEF taken
    <2> QED
      BY <2>1, <2>2, Zenon
  <1>5. TypeInv'
    BY <1>1, SMTT(30) DEF recv_timeout, IInv, TypeInv, TypeOK
  <1>6. /\ IndexInv' /\ RingInv' /\ WriterInv'
        /\ UNCHANGED <<published, queued, inside>> /\ \A k : content(k)' = content(k)
    BY <1>1, <1>4, RingFrame, Zenon
  <1>7. ReaderInv'
    BY <1>1, <1>2, <1>3, <1>4, <1>6, Zenon DEF IInv, ReaderInv
  <1>8. SocketInv'
    BY <1>1, <1>2, <1>3, <1>4, <1>6, SMTT(60) DEF IInv, SocketInv
  <1> QED
    BY <1>5, <1>6, <1>7, <1>8, Zenon DEF IInv

\* Every step of the writer and of a reader preserves the invariant.
LEMMA NextInv == IInv /\ [Next]_vars => IInv'
  <1> SUFFICES ASSUME IInv, [Next]_vars PROVE IInv'
    BY Zenon
  <1>1. ASSUME NEW r \in Reader, ReaderMove(r) PROVE IInv'
    BY <1>1, ReaderMoves, Zenon
  <1>2. ASSUME NEW r \in Reader, mark_read(r) PROVE IInv'
    BY <1>2, MarkRead, Zenon
  <1>3. ASSUME NEW r \in Reader, recv(r) PROVE IInv'
    BY <1>3, Recv, Zenon
  <1>4. ASSUME NEW r \in Reader, recv_timeout(r) PROVE IInv'
    BY <1>4, RecvTimeout, Zenon
  <1>5. CASE enqueue \/ Writer
    BY <1>5, AcquireWrite, WriteData, ResetReadFlag, MarkWritten, SendOverflow, WriterMoves, Zenon DEF Writer
  <1>6. CASE UNCHANGED vars
    <2>1. \A r \in Reader : taken(r)' = taken(r)
      BY <1>6, Zenon DEF vars, readerVars, taken
    <2>2. /\ IndexInv' /\ RingInv' /\ WriterInv'
          /\ UNCHANGED <<published, queued, inside>> /\ \A k : content(k)' = content(k)
      BY <1>6, <2>1, RingFrame, Zenon DEF vars, writerVars, readerVars
    <2>3. TypeInv'
      BY <1>6, Zenon DEF vars, writerVars, readerVars, IInv, TypeInv, TypeOK
    <2>4. ReaderInv' /\ SocketInv'
      BY <1>6, <2>1, <2>2 DEF vars, writerVars, readerVars, IInv, ReaderInv, SocketInv
    <2> QED
      BY <2>2, <2>3, <2>4, Zenon DEF IInv
  <1> QED
    BY <1>1, <1>2, <1>3, <1>4, <1>5, <1>6, Zenon DEF Next, ReaderStep, ReaderMove

\* In every reachable state the flags describe the ring.
LEMMA RingIsCounted == Spec => []IInv
  BY InitInv, NextInv, PTL DEF Spec

-----------------------------------------------------------------------------

\* No reader is ever inside a chunk together with the writer, and what it reads
\* is whole: for any number of readers, chunks and messages, with dequeues and
\* enqueues that time out and readers that are shut down.
THEOREM NeverTorn == Spec => []NoTornRead
  <1>1. IInv => NoTornRead
    <2> SUFFICES ASSUME IInv, NEW r \in Reader, r_pc[r] \in {"read", "mark"}
                 PROVE  /\ ~(w_pc \in {"write", "written", "reset"} /\ w_idx = r_idx[r])
                        /\ data[r_idx[r]] # Torn
      BY Zenon DEF NoTornRead, IInv, TypeInv
    <2>1. taken(r) < published
      BY SMTT(30) DEF IInv, ReaderInv
    <2>2. /\ taken(r) \in 0 .. published - 1 /\ InRing(taken(r))
          /\ data[r_idx[r]] = content(taken(r) + 1)
          /\ r_idx[r] = chunk(taken(r)) /\ taken(r) \in Nat
      BY <2>1, ReadsNext, Counters, SMTT(30)
    <2>3. inside => chunk(taken(r)) # w_idx
      BY <2>2, DifferentChunks, Zenon
    <2>4. content(taken(r) + 1) # Torn
      BY <2>2, taken(r) + 1 \in Nat \ {0}, ContentIsWhole, Zenon
    <2> QED
      BY <2>2, <2>3, <2>4, Zenon DEF inside
  <1> QED
    BY <1>1, RingIsCounted, PTL

\* mark_written publishes a message; a reader that sets its flag, or receives from
\* its socket, is given the message after its last; every other step is silent.
LEMMA StepRefines ==
  IInv /\ [Next]_vars =>
    [Abstract!Next \/ \E r \in Reader : DequeuesAny(r)]_<<published, received>>
  <1> SUFFICES ASSUME IInv, [Next]_vars
               PROVE  \/ Abstract!Next
                      \/ \E r \in Reader : DequeuesAny(r)
                      \/ published' = published /\ received' = received
    BY SMTT(30)
  <1>0. sent \in Nat
    BY Zenon DEF IInv, TypeInv, TypeOK
  <1>1. CASE enqueue \/ acquire_write \/ acquire_write_timeout \/ write \/ write_done
             \/ reset_read_flag \/ send_overflow \/ notify
    <2>1. CASE acquire_write
      BY <1>0, <2>1 DEF acquire_write, published, readerVars
    <2> QED
      BY <1>1, <2>1, Zenon DEF enqueue, acquire_write_timeout, write, write_done, reset_read_flag,
                        send_overflow, notify, published, readerVars
  <1>2. CASE mark_written
    <2>1. published' = published + 1 /\ received' = received
      BY <1>0, <1>2 DEF mark_written, published, readerVars
    <2> QED
      BY <2>1, Zenon DEF Abstract!Next, Abstract!Enqueue
  <1>3. ASSUME NEW r \in Reader, ReaderMove(r) \/ recv_timeout(r)
        PROVE  published' = published /\ received' = received
    BY <1>3, Zenon DEF ReaderMove, dequeue, check_read_flag, check_written_flag, wait_spin, wait_poll,
                wait_expires, wait_timeout, read_data, shutdown, cancel, recv_timeout,
                writerVars, readerVars, published
  <1>4. ASSUME NEW r \in Reader, NEW m, Len(received[r]) < published, published' = published,
               received' = [received EXCEPT ![r] = Append(@, m)],
               missed[r] = 0 => m = Len(received[r]) + 1
        PROVE  Abstract!Next \/ DequeuesAny(r)
    <2>1. CASE missed[r] = 0
      BY <1>4, <2>1, Zenon DEF Abstract!Next, Abstract!Dequeue
    <2>2. CASE missed[r] # 0
      BY <1>4, <2>2, SMTT(60) DEF DequeuesAny, IInv, TypeInv, TypeOK
    <2> QED
      BY <2>1, <2>2, Zenon
  <1>5. ASSUME NEW r \in Reader, mark_read(r)
        PROVE  Abstract!Next \/ DequeuesAny(r) \/ (published' = published /\ received' = received)
    <2>1. published' = published
      BY <1>5, Zenon DEF mark_read, writerVars, published
    <2>2. CASE buf[r] = Overflow
      BY <1>5, <2>1, <2>2, Zenon DEF mark_read
    <2>3. CASE buf[r] # Overflow
      <3>1. taken(r) < published /\ buf[r] = content(taken(r) + 1) /\ r_pc[r] = "mark"
        BY <1>5, Zenon DEF mark_read, IInv, ReaderInv
      <3>2. taken(r) = Len(received[r]) + missed[r] /\ Len(received[r]) \in Nat /\ missed[r] \in Nat
        BY <3>1 DEF taken, IInv, TypeInv, TypeOK
      <3>3. Len(received[r]) < published /\ (missed[r] = 0 => buf[r] = Len(received[r]) + 1)
        BY <2>3, <3>1, <3>2, Counters, SMTT(30) DEF content
      <3>4. received' = [received EXCEPT ![r] = Append(@, buf[r])]
        BY <1>5, <2>3, Zenon DEF mark_read
      <3> QED
        BY <1>4, <2>1, <3>3, <3>4, Zenon
    <2> QED
      BY <2>2, <2>3, Zenon
  <1>6. ASSUME NEW r \in Reader, recv(r)
        PROVE  Abstract!Next \/ DequeuesAny(r)
    <2>1. published' = published
      BY <1>6, Zenon DEF recv, writerVars, published
    <2>2. taken(r) = Len(received[r]) + missed[r] + 1 /\ Len(received[r]) \in Nat /\ missed[r] \in Nat
      BY <1>6 DEF recv, taken, IInv, TypeInv, TypeOK
    <2>3. Len(received[r]) < published
      BY <2>2, Counters, SMTT(30)
    <2>4. missed[r] = 0 => Head(socket[r]) = Len(received[r]) + 1
      BY <1>6, HeadIsNext, Zenon DEF recv
    <2> QED
      BY <1>4, <1>6, <2>1, <2>3, <2>4, Zenon DEF recv
  <1>7. CASE UNCHANGED vars
    BY <1>7, Zenon DEF vars, writerVars, readerVars, published
  <1> QED
    BY <1>1, <1>2, <1>3, <1>5, <1>6, <1>7, Zenon DEF Next, Writer, ReaderStep, ReaderMove

\* Ring and socket implement the broadcast queue, whatever the sizes of the messages:
\* every reader is given every message once and in the order of enqueue, until a
\* dequeue of its own has timed out between a chunk and its socket.
THEOREM RingImplementsBroadcast == Spec => RefinesBroadcastQueue
  <1>1. Init => Abstract!Init
    BY Zenon DEF Init, Abstract!Init, published
  <1> QED
    BY <1>1, RingIsCounted, StepRefines, PTL DEF Spec, RefinesBroadcastQueue

=============================================================================
