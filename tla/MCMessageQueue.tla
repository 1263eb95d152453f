--------------------------- MODULE MCMessageQueue ---------------------------
(* What happens to the queue in the model-checking run of MessageQueue. *)
EXTENDS MessageQueue

Plan(messages, overflows, timeouts, shutdowns) ==
    [messages |-> messages, overflows |-> overflows, timeouts |-> timeouts,
     shutdowns |-> shutdowns]

\* The ring wraps, with a large message in the middle and a writer that gives
\* up when it is full; dequeues time out around a large message; readers are
\* shut down.
AllPlans == {Plan(3, {2}, {"enqueue"}, FALSE), Plan(2, {1}, {"dequeue"}, FALSE),
             Plan(2, {2}, {}, TRUE), Plan(1, {}, {"dequeue"}, TRUE)}
=============================================================================
