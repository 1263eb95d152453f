------------------------ MODULE MCOffloadingConnector ------------------------
(***************************************************************************)
(* Instances of OffloadingConnector: requests r1 and r2 share a first      *)
(* token, or their prompt, on a device that cannot hold both with all      *)
(* their output; r3 shares nothing and takes the blocks they leave.        *)
(***************************************************************************)
EXTENDS OffloadingConnector

CONSTANTS r1, r2, r3, x, y, z

Requests == {r1, r2, r3}

Plain ==
    [text |-> r1 :> <<x, y, z, z>> @@ r2 :> <<x, z, x, x>> @@ r3 :> <<z, z, z, z>>,
     prompt |-> r1 :> 2 @@ r2 :> 2 @@ r3 :> 3,
     requests |-> {r1, r2},
     eos |-> {},
     aborts |-> {},
     async_scheduling |-> FALSE,
     num_workers |-> 1,
     num_cpu_blocks |-> 3,
     resets |-> 0]

\* All of r2's prompt may be on the host.
SamePrompt == [Plain EXCEPT !.text = r1 :> <<x, y, z, z>> @@ r2 :> <<x, y, x, x>>
                                      @@ r3 :> <<z, z, z, z>>]
LongPrompt == [SamePrompt EXCEPT !.prompt[r1] = 3]

\* r3 has part of its tokens loaded while r1 takes the blocks it needs next.
Growing == [Plain EXCEPT !.text = r1 :> <<x, y, z>> @@ r2 :> <<x, y, z, x>> @@ r3 :> <<z, z, z, z>>,
                         !.prompt = r1 :> 1 @@ r2 :> 1 @@ r3 :> 2,
                         !.requests = {r1, r2, r3},
                         !.num_cpu_blocks = 4]

\* r3 takes the blocks that r1 leaves, and r2 loads what r1 stored.
Evicted == [Plain EXCEPT !.text = r1 :> <<x, y, z>> @@ r2 :> <<x, y, x, x>> @@ r3 :> <<z, z, z, z>>,
                         !.prompt = r1 :> 2 @@ r2 :> 3 @@ r3 :> 3,
                         !.requests = {r1, r2, r3},
                         !.num_cpu_blocks = 5]

Host(c, n) == [c EXCEPT !.num_cpu_blocks = n]
Three(c) == [c EXCEPT !.requests = {r1, r2, r3}]
TwoWorkers(c) == [c EXCEPT !.num_workers = 2]
Aborted(c) == [c EXCEPT !.aborts = {r2}]
Async(c) == [c EXCEPT !.async_scheduling = TRUE]
StopsEarly(c) == [c EXCEPT !.eos = {r1}]
Reset(c) == [c EXCEPT !.resets = 1]

\* The smaller ones, for liveness.
Fair == {Host(Plain, 2), Three(Host(SamePrompt, 4)), TwoWorkers(Evicted), Aborted(SamePrompt),
         Async(LongPrompt), Reset(LongPrompt)}

All == Fair \cup
       {Three(SamePrompt), Growing, Reset(Plain),
        Async(Plain), Async(Host(SamePrompt, 4)), Async(Evicted),
        Async(StopsEarly(SamePrompt)), Async(Aborted(SamePrompt))}
=============================================================================
