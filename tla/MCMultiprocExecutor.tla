------------------------- MODULE MCMultiprocExecutor -------------------------
(* The configurations and faults of the run of MultiprocExecutor. *)
EXTENDS MultiprocExecutor

Small == [kv_aggregator |-> FALSE, async_scheduling |-> FALSE, max_chunks |-> 1,
          outstanding |-> 2, calls |-> 5, faults |-> {}]

\* Rings of one chunk that fill up; workers that die, with a thread for the
\* outputs and every worker, or the output rank alone, replying to a step;
\* methods that raise; calls that time out, also with a dead worker.
AllConfigs ==
    LET Deaths == [Small EXCEPT !.max_chunks = 2, !.outstanding = 1, !.calls = 4,
                                !.faults = {"death"}, !.async_scheduling = TRUE]
    IN {Small,
        Deaths,
        [Deaths EXCEPT !.kv_aggregator = TRUE],
        [Deaths EXCEPT !.max_chunks = 1, !.calls = 3, !.async_scheduling = FALSE,
                        !.faults = {"death", "timeout"}],
        [Small EXCEPT !.max_chunks = 2, !.outstanding = 3, !.calls = 4, !.faults = {"failure"}],
        [Small EXCEPT !.max_chunks = 2, !.calls = 4, !.faults = {"timeout"}]}
=============================================================================
