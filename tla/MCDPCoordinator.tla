-------------------------- MODULE MCDPCoordinator --------------------------
(* What the front ends do in the runs of DPCoordinator. *)
EXTENDS DPCoordinator

Base == [requests |-> <<Engine, {}>>, interval |-> 1, passes |-> 1,
         aborts |-> {}, publish |-> 0, pause |-> {}]

\* Two requests; one that may be aborted, with a publication in between; one
\* around a pause of each mode.
TwoRequests == [Base EXCEPT !.requests = <<Engine, {1}>>]
Abort == [Base EXCEPT !.interval = 2, !.aborts = {1}, !.publish = 1]
PauseKeep == [Base EXCEPT !.pause = {"keep"}]
PauseWait == [Base EXCEPT !.passes = 2, !.pause = {"wait"}]
PauseAbort == [Base EXCEPT !.pause = {"abort"}]

AllPlans == {TwoRequests, Abort, PauseKeep, PauseWait, PauseAbort}

\* A resume races the START_DP_WAVE for the next request.
PausePlans == {PauseKeep}
=============================================================================
