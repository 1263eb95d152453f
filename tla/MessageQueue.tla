---------------------------- MODULE MessageQueue ----------------------------
(***************************************************************************)
(* MessageQueue: a ring of chunks in shared memory with one writer and     *)
(* several reader processes.  Every chunk has a flag "written" and a flag  *)
(* "read" per reader, and there is no lock: each access to a flag or to    *)
(* the data of a chunk is a step of its own.  A message that does not fit  *)
(* in a chunk goes through a socket, the chunk only says so.  Readers that *)
(* have been idle for a while sleep on a notification socket.              *)
(*                                                                         *)
(* Memory is sequentially consistent: memory_fence() stands between the    *)
(* accesses whose order matters.  The n-th message enqueued is n.          *)
(***************************************************************************)
EXTENDS Integers, Sequences, FiniteSets

CONSTANTS
    NReader,         \* n_reader, all of them local
    MaxChunks,       \* max_chunks
    Plans            \* what may happen to the queue, one of which does

ASSUME MessageQueueAssumption ==
    /\ NReader \in Nat \ {0}
    /\ MaxChunks \in Nat \ {0}
    /\ \A p \in Plans :
          p \in [messages : Nat,                 \* how many are enqueued
                 overflows : SUBSET Nat,         \* those too large for a chunk
                 timeouts : SUBSET {"enqueue", "dequeue"},  \* calls that are given a timeout
                 shutdowns : BOOLEAN]            \* shutdown() may be called

Reader == 1 .. NReader
Chunk == 0 .. MaxChunks - 1

VARIABLES
    plan,            \* never changes
    written,         \* metadata_buffer[0] of every chunk
    read,            \* metadata_buffer[1 ..] of every chunk
    data,            \* the content of every chunk
    w_pc, w_idx,     \* where the writer is, and its current_idx
    w_reader,        \* the reader whose flag the writer resets next
    sent,            \* how many enqueues have begun their write
    r_pc, r_idx,     \* the same for every reader
    expired,         \* the deadline of the reader's dequeue has passed
    buf,             \* what the reader has read from its chunk
    socket,          \* local_socket: large messages on their way to a reader
    notified,        \* local_notify_socket holds a message (zmq.CONFLATE: one)
    shutting_down,
    cancelled,       \* read_cancel_socket holds a message; nobody receives it
    received,        \* what dequeue has returned
    missed           \* history: how many recvs have timed out after their chunk was read

writerVars == <<w_pc, w_idx, w_reader, sent>>
readerVars == <<r_pc, r_idx, expired, buf, received, missed>>
vars == <<plan, written, read, data, writerVars, readerVars, socket, notified, shutting_down, cancelled>>

Torn == 0            \* nothing, or a message that is only partly there
Overflow == -1       \* buf[0] = 1

Init ==
    /\ plan \in Plans
    /\ written = [c \in Chunk |-> FALSE]
    /\ read = [c \in Chunk |-> [r \in Reader |-> FALSE]]
    /\ data = [c \in Chunk |-> Torn]
    /\ w_pc = "idle" /\ w_idx = 0 /\ w_reader = 1 /\ sent = 0
    /\ r_pc = [r \in Reader |-> "idle"]
    /\ r_idx = [r \in Reader |-> 0]
    /\ expired = [r \in Reader |-> FALSE]
    /\ buf = [r \in Reader |-> Torn]
    /\ received = [r \in Reader |-> <<>>]
    /\ missed = [r \in Reader |-> 0]
    /\ socket = [r \in Reader |-> <<>>]
    /\ notified = [r \in Reader |-> FALSE]
    /\ shutting_down = [r \in Reader |-> FALSE]
    /\ cancelled = [r \in Reader |-> FALSE]

next_idx(i) == (i + 1) % MaxChunks

-----------------------------------------------------------------------------
\* enqueue

enqueue ==
    /\ w_pc = "idle"
    /\ sent < plan.messages
    /\ w_pc' = "acquire"
    /\ UNCHANGED <<plan, written, read, data, w_idx, w_reader, sent, readerVars, socket, notified,
                   shutting_down, cancelled>>

\* Fault: one reader that is still to read is overlooked.
can_write_off_by_one ==
    ~(written[w_idx] /\ Cardinality({r \in Reader : read[w_idx][r]}) < NReader - 1)

\* check() of acquire_write
can_write == ~(written[w_idx] /\ Cardinality({r \in Reader : read[w_idx][r]}) # NReader)

acquire_write ==
    /\ w_pc = "acquire"
    /\ can_write
    /\ written' = [written EXCEPT ![w_idx] = FALSE]
    /\ sent' = sent + 1
    /\ w_pc' = "write"
    /\ UNCHANGED <<plan, read, data, w_idx, w_reader, readerVars, socket, notified, shutting_down,
                   cancelled>>

\* acquire_write raises TimeoutError: nothing is written.
acquire_write_timeout ==
    /\ w_pc = "acquire"
    /\ "enqueue" \in plan.timeouts
    /\ ~can_write
    /\ w_pc' = "idle"
    /\ UNCHANGED <<plan, written, read, data, w_idx, w_reader, sent, readerVars, socket, notified,
                   shutting_down, cancelled>>

\* The caller fills the chunk byte by byte ...
write ==
    /\ w_pc = "write"
    /\ data' = [data EXCEPT ![w_idx] = Torn]
    /\ w_pc' = "written"
    /\ UNCHANGED <<plan, written, read, w_idx, w_reader, sent, readerVars, socket, notified,
                   shutting_down, cancelled>>

\* Fault: the written flag is set before the read flags are reset.
write_done_marks_first ==
    /\ w_pc = "written"
    /\ data' = [data EXCEPT ![w_idx] = IF sent \in plan.overflows THEN Overflow ELSE sent]
    /\ written' = [written EXCEPT ![w_idx] = TRUE]
    /\ w_pc' = "reset"
    /\ UNCHANGED <<plan, read, w_idx, w_reader, sent, readerVars, socket, notified, shutting_down,
                   cancelled>>

\* ... and at last it is whole.
write_done ==
    /\ w_pc = "written"
    /\ data' = [data EXCEPT ![w_idx] = IF sent \in plan.overflows THEN Overflow ELSE sent]
    /\ w_pc' = "reset"
    /\ UNCHANGED <<plan, written, read, w_idx, w_reader, sent, readerVars, socket, notified,
                   shutting_down, cancelled>>

\* One iteration of the loop that resets the read flags.
reset_read_flag ==
    /\ w_pc = "reset"
    /\ w_reader <= NReader
    /\ read' = [read EXCEPT ![w_idx][w_reader] = FALSE]
    /\ w_reader' = w_reader + 1
    /\ UNCHANGED <<plan, written, data, w_pc, w_idx, sent, readerVars, socket, notified,
                   shutting_down,
                   cancelled>>

mark_written ==
    /\ w_pc = "reset"
    /\ w_reader > NReader
    /\ written' = [written EXCEPT ![w_idx] = TRUE]
    /\ w_idx' = next_idx(w_idx)
    /\ w_reader' = 1
    /\ w_pc' = IF sent \in plan.overflows THEN "send" ELSE "notify"
    /\ UNCHANGED <<plan, read, data, sent, readerVars, socket, notified, shutting_down,
                   cancelled>>

\* A large message follows on the socket.
send_overflow ==
    /\ w_pc = "send"
    /\ socket' = [r \in Reader |-> Append(socket[r], sent)]
    /\ w_pc' = "notify"
    /\ UNCHANGED <<plan, written, read, data, w_idx, w_reader, sent, readerVars, notified,
                   shutting_down,
                   cancelled>>

\* Fault: sleeping readers are not woken.
notify_dropped ==
    /\ w_pc = "notify"
    /\ w_pc' = "idle"
    /\ UNCHANGED <<plan, written, read, data, w_idx, w_reader, sent, readerVars, socket, notified,
                   shutting_down, cancelled>>

\* SpinCondition.notify
notify ==
    /\ w_pc = "notify"
    /\ notified' = [r \in Reader |-> TRUE]
    /\ w_pc' = "idle"
    /\ UNCHANGED <<plan, written, read, data, w_idx, w_reader, sent, readerVars, socket,
                   shutting_down,
                   cancelled>>

-----------------------------------------------------------------------------
\* dequeue

dequeue(r) ==
    /\ r_pc[r] = "idle"
    /\ r_pc' = [r_pc EXCEPT ![r] = "check"]
    /\ expired' = [expired EXCEPT ![r] = FALSE]
    /\ UNCHANGED <<plan, written, read, data, writerVars, missed, r_idx, buf, received, socket,
                   notified,
                   shutting_down, cancelled>>

\* check() of acquire_read: first the reader's own flag, then the writer's.
check_read_flag(r) ==
    /\ r_pc[r] = "check"
    /\ r_pc' = [r_pc EXCEPT ![r] = IF read[r_idx[r]][r] THEN "wait" ELSE "check_written"]
    /\ UNCHANGED <<plan, written, read, data, writerVars, expired, missed, r_idx, buf, received,
                   socket, notified,
                   shutting_down, cancelled>>

check_written_flag(r) ==
    /\ r_pc[r] = "check_written"
    /\ r_pc' = [r_pc EXCEPT ![r] = IF written[r_idx[r]] THEN "read" ELSE "wait"]
    /\ UNCHANGED <<plan, written, read, data, writerVars, expired, missed, r_idx, buf, received,
                   socket, notified,
                   shutting_down, cancelled>>

\* What follows SpinCondition.wait
after_wait(r) == IF shutting_down[r] THEN "cancelled" ELSE "check"

\* SpinCondition.wait returns at once for a while after the last read.
wait_spin(r) ==
    /\ r_pc[r] = "wait"
    /\ ~expired[r]
    /\ r_pc' = [r_pc EXCEPT ![r] = after_wait(r)]
    /\ UNCHANGED <<plan, written, read, data, writerVars, expired, missed, r_idx, buf, received,
                   socket, notified,
                   shutting_down, cancelled>>

\* It sleeps until a notification comes or until shutdown() cancels it.
wait_poll(r) ==
    /\ r_pc[r] = "wait"
    /\ ~expired[r]
    /\ notified[r] \/ cancelled[r]
    /\ notified' = [notified EXCEPT ![r] = cancelled[r] /\ @]
    /\ r_pc' = [r_pc EXCEPT ![r] = after_wait(r)]
    /\ UNCHANGED <<plan, written, read, data, writerVars, expired, missed, r_idx, buf, received,
                   socket, shutting_down,
                   cancelled>>

\* The deadline passes: the flags are checked once more before TimeoutError.
wait_expires(r) ==
    /\ r_pc[r] = "wait"
    /\ "dequeue" \in plan.timeouts
    /\ ~expired[r]
    /\ expired' = [expired EXCEPT ![r] = TRUE]
    /\ r_pc' = [r_pc EXCEPT ![r] = after_wait(r)]
    /\ UNCHANGED <<plan, written, read, data, writerVars, missed, r_idx, buf, received, socket,
                   notified,
                   shutting_down, cancelled>>

wait_timeout(r) ==
    /\ r_pc[r] = "wait"
    /\ expired[r]
    /\ r_pc' = [r_pc EXCEPT ![r] = "idle"]
    /\ UNCHANGED <<plan, written, read, data, writerVars, expired, missed, r_idx, buf, received,
                   socket,
                   notified, shutting_down, cancelled>>

read_data(r) ==
    /\ r_pc[r] = "read"
    /\ buf' = [buf EXCEPT ![r] = data[r_idx[r]]]
    /\ r_pc' = [r_pc EXCEPT ![r] = "mark"]
    /\ UNCHANGED <<plan, written, read, data, writerVars, expired, missed, r_idx, received,
                   socket, notified,
                   shutting_down, cancelled>>

\* The reader sets its flag; dequeue returns unless the message is large.
mark_read(r) ==
    /\ r_pc[r] = "mark"
    /\ read' = [read EXCEPT ![r_idx[r]][r] = TRUE]
    /\ r_idx' = [r_idx EXCEPT ![r] = next_idx(@)]
    /\ IF buf[r] = Overflow
       THEN /\ r_pc' = [r_pc EXCEPT ![r] = "recv"]
            /\ UNCHANGED received
       ELSE /\ r_pc' = [r_pc EXCEPT ![r] = "idle"]
            /\ received' = [received EXCEPT ![r] = Append(@, buf[r])]
    /\ buf' = [buf EXCEPT ![r] = Torn]
    /\ UNCHANGED <<plan, written, data, writerVars, expired, missed, socket, notified,
                   shutting_down, cancelled>>

recv(r) ==
    /\ r_pc[r] = "recv"
    /\ socket[r] # <<>>
    /\ received' = [received EXCEPT ![r] = Append(@, Head(socket[r]))]
    /\ socket' = [socket EXCEPT ![r] = Tail(@)]
    /\ r_pc' = [r_pc EXCEPT ![r] = "idle"]
    /\ UNCHANGED <<plan, written, read, data, writerVars, expired, missed, r_idx, buf, notified,
                   shutting_down, cancelled>>

recv_timeout(r) ==
    /\ r_pc[r] = "recv"
    /\ "dequeue" \in plan.timeouts
    /\ socket[r] = <<>>
    /\ r_pc' = [r_pc EXCEPT ![r] = "idle"]
    /\ missed' = [missed EXCEPT ![r] = @ + 1]
    /\ UNCHANGED <<plan, written, read, data, writerVars, expired, r_idx, buf, received, socket,
                   notified,
                   shutting_down, cancelled>>

-----------------------------------------------------------------------------
\* shutdown(), called by another thread of the reader's process.

shutdown(r) ==
    /\ plan.shutdowns
    /\ ~shutting_down[r]
    /\ shutting_down' = [shutting_down EXCEPT ![r] = TRUE]
    /\ UNCHANGED <<plan, written, read, data, writerVars, readerVars, socket, notified,
                   cancelled>>

\* Fault: the sleeping reader is not woken.
cancel_dropped(r) == FALSE /\ UNCHANGED vars

\* SpinCondition.cancel
cancel(r) ==
    /\ shutting_down[r]
    /\ ~cancelled[r]
    /\ cancelled' = [cancelled EXCEPT ![r] = TRUE]
    /\ UNCHANGED <<plan, written, read, data, writerVars, readerVars, socket, notified,
                   shutting_down>>

-----------------------------------------------------------------------------

Writer ==
    \/ acquire_write \/ acquire_write_timeout \/ write \/ write_done \/ reset_read_flag
    \/ mark_written \/ send_overflow \/ notify

ReaderStep(r) ==
    \/ dequeue(r) \/ check_read_flag(r) \/ check_written_flag(r) \/ wait_poll(r)
    \/ wait_timeout(r) \/ read_data(r) \/ mark_read(r) \/ recv(r) \/ cancel(r)

Next ==
    \/ enqueue \/ Writer
    \/ \E r \in Reader : \/ ReaderStep(r) \/ wait_spin(r) \/ wait_expires(r) \/ recv_timeout(r)
                         \/ shutdown(r)

Spec == Init /\ [][Next]_vars

\* Every process keeps running.  wait_spin is not among the fair steps: the
\* time in which a reader may spin runs out.
Fairness == WF_vars(Writer) /\ \A r \in Reader : WF_vars(ReaderStep(r))

FairSpec == Spec /\ Fairness

-----------------------------------------------------------------------------

\* Flags, indices and program counters of the writer and of the readers stay in
\* range: current_idx wraps at max_chunks on both sides of the ring.
TypeOK ==
    /\ written \in [Chunk -> BOOLEAN]
    /\ read \in [Chunk -> [Reader -> BOOLEAN]]
    /\ data \in [Chunk -> Nat \cup {Overflow}]
    /\ w_pc \in {"idle", "acquire", "write", "written", "reset", "send", "notify"}
    /\ w_idx \in Chunk
    /\ w_reader \in 1 .. NReader + 1
    /\ sent \in Nat
    /\ r_pc \in [Reader -> {"idle", "check", "check_written", "wait", "read", "mark", "recv",
                            "cancelled"}]
    /\ r_idx \in [Reader -> Chunk]
    /\ buf \in [Reader -> Nat \cup {Overflow}]
    /\ socket \in [Reader -> Seq(Nat)]
    /\ received \in [Reader -> Seq(Nat)]
    /\ {notified, shutting_down, cancelled, expired} \subseteq [Reader -> BOOLEAN]
    /\ missed \in [Reader -> Nat]

\* Messages whose chunk is marked as written.
published == IF w_pc \in {"write", "written", "reset"} THEN sent - 1 ELSE sent

\* While a reader is inside a chunk the chunk is whole and the writer, which
\* may be a full ring ahead, is not inside it; both wrap around in range.
NoTornRead ==
    /\ TypeOK
    /\ \A r \in Reader : r_pc[r] \in {"read", "mark"} =>
         /\ ~(w_pc \in {"write", "written", "reset"} /\ w_idx = r_idx[r])
         /\ data[r_idx[r]] # Torn

\* The ring and its socket implement the abstract broadcast queue: every step
\* publishes a message, or gives a reader the one after its last, or changes
\* neither.  Only to a reader whose dequeue has timed out between the chunk and
\* the socket of a large message nothing is promised: its chunk counts as read,
\* and the message comes later, in the place of another one.
Abstract == INSTANCE BroadcastQueue WITH sent <- published
DequeuesAny(r) ==
    /\ missed[r] > 0
    /\ received' = [received EXCEPT ![r] = received'[r]]
    /\ UNCHANGED published
RefinesBroadcastQueue ==
    /\ Abstract!Init
    /\ [][Abstract!Next \/ \E r \in Reader : DequeuesAny(r)]_<<published, received>>

\* No wake-up is lost: a reader that is behind catches up, even one that went
\* to sleep while the writer was between its flag and notify().
EveryMessageIsReceived ==
    \A r \in Reader :
        (Len(received[r]) < published)
            ~> (Len(received[r]) = published \/ shutting_down[r] \/ missed[r] > 0)

\* shutdown() ends a reader that sleeps.
ShutdownEndsReader ==
    \A r \in Reader : shutting_down[r] ~> (r_pc[r] = "cancelled")
=============================================================================
