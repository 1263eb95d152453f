--------------------------- MODULE BroadcastQueue ---------------------------
(***************************************************************************)
(* What MessageQueue promises: one writer, and every reader receives the   *)
(* messages that were sent, each once, in the order of sending.            *)
(* Messages are numbered 1, 2, ... in the order of sending.                *)
(***************************************************************************)
EXTENDS Naturals, Sequences

CONSTANT Reader

VARIABLES
    sent,        \* how many messages have been sent
    received     \* Reader -> the messages it has received

Init ==
    /\ sent = 0
    /\ received = [r \in Reader |-> <<>>]

Enqueue ==
    /\ sent' = sent + 1
    /\ UNCHANGED received

Dequeue(r) ==
    /\ Len(received[r]) < sent
    /\ received' = [received EXCEPT ![r] = Append(@, Len(@) + 1)]
    /\ UNCHANGED sent

Next == Enqueue \/ \E r \in Reader : Dequeue(r)

Spec == Init /\ [][Next]_<<sent, received>>
=============================================================================
