----------------------------- MODULE MCScheduler -----------------------------
(***************************************************************************)
(* Instances of Scheduler: up to three requests, of which r1 and r2 share  *)
(* a first block.                                                          *)
(***************************************************************************)
EXTENDS Scheduler

CONSTANTS r1, r2, r3, x, y

Requests == {r1, r2, r3}

\* r1, which comes first in most behaviours, is the least urgent.
Priorities == r1 :> 2 @@ r2 :> 1 @@ r3 :> 0

Plain ==
    [requests |-> {r1, r2},
     prompt |-> r1 :> <<x, x, y>> @@ r2 :> <<x, x, x>> @@ r3 :> <<y>>,
     structured |-> {r2},
     max_tokens |-> 3,
     max_num_scheduled_tokens |-> 4,
     max_num_running_reqs |-> 2,
     long_prefill_token_threshold |-> 0,
     enable_chunked_prefill |-> TRUE,
     watermark_blocks |-> 0,
     scheduler_reserve_full_isl |-> FALSE,
     num_spec_tokens |-> 0,
     async_scheduling |-> FALSE,
     batch_queue_size |-> 1,
     priority_policy |-> FALSE,
     resets |-> 0]

\* Synchronous, with drafts and prompts computed in chunks.
Sync == [Plain EXCEPT !.num_spec_tokens = 1, !.max_num_scheduled_tokens = 2]

\* Asynchronous, with a forced reset.
Async == [Plain EXCEPT !.async_scheduling = TRUE, !.batch_queue_size = 2, !.max_tokens = 2,
                       !.resets = 1]

\* Asynchronous, with drafts.
AsyncSpec == [Plain EXCEPT !.async_scheduling = TRUE, !.batch_queue_size = 2,
                           !.num_spec_tokens = 1, !.max_num_scheduled_tokens = 3]

\* Two pipeline stages.
Pipeline == [Plain EXCEPT !.batch_queue_size = 2, !.long_prefill_token_threshold = 2]

\* Prompts computed whole, with a watermark; all of r2's may be cached.
Whole == [Plain EXCEPT !.prompt[r2] = <<x, x>>,
                       !.enable_chunked_prefill = FALSE, !.max_num_scheduled_tokens = 6,
                       !.watermark_blocks = 1, !.scheduler_reserve_full_isl = TRUE]

\* Three requests by priority, two at a time.
ByPriority == [Plain EXCEPT !.requests = {r1, r2, r3}, !.priority_policy = TRUE,
                            !.structured = {r3}, !.long_prefill_token_threshold = 2,
                            !.max_tokens = 2]

\* Three requests at the same time.
Sharing == [Plain EXCEPT !.requests = {r1, r2, r3}, !.structured = {},
                         !.max_num_scheduled_tokens = 6, !.max_num_running_reqs = 3,
                         !.max_tokens = 1]

\* The smaller ones, for liveness.
Fair == {Whole, Pipeline, [Async EXCEPT !.requests = {r1}], [AsyncSpec EXCEPT !.requests = {r1}]}

All == Fair \cup {Sync, Async, AsyncSpec, ByPriority, Sharing}

\* A long prompt in chunks and a more urgent request that needs a block.
LongVictim == [Plain EXCEPT !.prompt = r1 :> <<x, x, x, x, x, x>> @@ r2 :> <<y>> @@ r3 :> <<y>>,
                            !.structured = {}, !.priority_policy = TRUE,
                            !.long_prefill_token_threshold = 2, !.max_tokens = 2]

Preempting == {LongVictim}
=============================================================================
