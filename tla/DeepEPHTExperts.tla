-------------------------- MODULE DeepEPHTExperts --------------------------
(***************************************************************************)
(* One mixture-of-experts layer on one rank of an expert-parallel group:   *)
(* the tokens that DeepEP's high-throughput dispatch delivers, the         *)
(* receiver's expert ids, the schedule of expert blocks (the generic       *)
(* alignment or the direct assignment), the two expert GEMMs that share or *)
(* do not share a schedule, and the reduction over the top-k slots.        *)
(*                                                                         *)
(* A pair p is a (row, top-k slot) of the received tensor, numbered from 0 *)
(* as in the flattened topk_ids.  What a kernel computes for a pair is     *)
(* abstracted to <<expert, how often the router weight was applied>>.      *)
(***************************************************************************)
EXTENDS Integers, Sequences, FiniteSets, FiniteSetsExt

CONSTANTS
    NumRanks,
    NumLocal,           \* experts per rank
    NumTokens,          \* tokens of all ranks
    TopK,
    Capacity,           \* VLLM_DEEPEP_HT_FIXED_CAPACITY_NUM_WORST_TOKENS
    IdSpaces,           \* the id spaces set up by LOCAL_EXPERT_IDS and DIRECT_ASSIGNMENT
    BlockSizes,         \* values of BLOCK_SIZE_M of the two GEMMs
    Thresholds,         \* values of the MIN_TOKENS settings
    Routings            \* what the router may choose

ASSUME DeepEPHTExpertsAssumption ==
    /\ NumRanks \in Nat \ {0, 1}
    /\ NumLocal \in Nat \ {0}
    /\ NumTokens \in Nat
    /\ TopK \in 1 .. NumRanks * NumLocal
    /\ Capacity \in Nat /\ Capacity >= NumTokens
    /\ IdSpaces \subseteq {"global", "local", "direct"}
    /\ BlockSizes \subseteq [w1 : Nat \ {0}, w2 : Nat \ {0}]
    /\ Thresholds \subseteq Nat /\ Thresholds # {}
    /\ \A r \in Routings, t \in 1 .. NumTokens, j, k \in 1 .. TopK :
        r[t][k] \in 0 .. NumRanks * NumLocal - 1 /\ (r[t][j] = r[t][k] => j = k)

NumExperts == NumRanks * NumLocal
Token == 1 .. NumTokens
cdiv(a, b) == (a + b - 1) \div b

VARIABLES
    rank,
    env,                \* the settings the layer runs with
    routing,            \* Token -> the TopK distinct experts of the router
    pc,
    topk_ids,           \* pair -> expert id, as the experts see it
    sched,              \* the schedule: block, sorted_token_ids, expert_ids, post_padded
    write_offsets,      \* expert -> where its next pair goes
    pending,            \* pairs the sort kernel has still to place
    cache1, cache2, cache3,  \* pair -> the values written to its row
    out,                \* pair -> its contribution to the output
    oob                 \* a kernel left its buffers

inputs == <<rank, env, routing>>
vars == <<inputs, pc, topk_ids, sched, write_offsets, pending, cache1, cache2, cache3, out, oob>>

-----------------------------------------------------------------------------
\* The settings

Env == [ids : IdSpaces,
        fixed : BOOLEAN,                        \* FIXED_CAPACITY_DISPATCH
        raw : BOOLEAN,                          \* FIXED_CAPACITY_RAW_LOCAL_IDS
        supported : BOOLEAN,                    \* the shapes the direct kernel takes
        ignore : BOOLEAN,                       \* TRITON_EP_IGNORE_INVALID_EXPERTS
        masked : BOOLEAN,                       \* TRITON_EP_MASKED_ACTIVATION
        fusion : BOOLEAN,                       \* TRITON_W2_REDUCE_FUSION
        min_tokens : Thresholds,                \* the MIN_TOKENS of ignore or of fusion
        block : BlockSizes]

\* Fault: the capacity is not compared with the threshold of the masked path.
validated_any_threshold(e) ==
    e.fixed => e.ids = "global" /\ e.ignore /\ ~e.fusion

\* A fixed-capacity dispatch is refused unless padded rows are filtered.
validated(e) ==
    e.fixed => e.ids = "global" /\ e.ignore /\ ~e.fusion /\ e.min_tokens <= Capacity

\* Settings that are not read in a mode have one value.
distinct(e) ==
    /\ e.raw => e.fixed
    /\ ~e.supported => e.ids = "direct"
    /\ e.masked => e.ignore /\ ~e.fusion
    /\ ~e.ignore /\ ~e.fusion => e.min_tokens = Min(Thresholds)

-----------------------------------------------------------------------------
\* Dispatch

rank_expert_offset == rank * NumLocal
is_local(g) == g \in rank_expert_offset .. rank_expert_offset + NumLocal - 1

\* The tokens sent to this rank: those with an expert here.
Arrived == {t \in Token : \E k \in 1 .. TopK : is_local(routing[t][k])}

NumRows == IF env.fixed THEN Capacity ELSE Cardinality(Arrived)
numel == NumRows * TopK
Pair == 0 .. numel - 1

\* The router's expert for a pair, NumExperts in a padded row.
RoutedTo(p) ==
    LET row == p \div TopK + 1
        arrived == {t \in Arrived : Cardinality({u \in Arrived : u <= t}) = row}
    IN  IF arrived = {} THEN NumExperts ELSE routing[CHOOSE t \in arrived : TRUE][(p % TopK) + 1]

\* DeepEP returns ids local to the rank, -1 for experts of other ranks and in padded rows.
RawIds == [p \in Pair |-> IF is_local(RoutedTo(p)) THEN RoutedTo(p) - rank_expert_offset ELSE -1]

\* expert_alignment=1: the counts are exact.
expert_num_tokens == [e \in 0 .. NumLocal - 1 |-> Cardinality({p \in Pair : RawIds[p] = e})]

Init ==
    /\ rank \in 0 .. NumRanks - 1
    /\ env \in {e \in Env : validated(e) /\ distinct(e)}
    /\ routing \in Routings
    /\ pc = "receive"
    /\ topk_ids = <<>> /\ write_offsets = <<>> /\ pending = {}
    /\ sched = [block |-> 0, sorted |-> <<>>, expert_ids |-> <<>>, post_padded |-> 0]
    /\ cache1 = <<>> /\ cache2 = <<>> /\ cache3 = <<>> /\ out = <<>>
    /\ oob = FALSE

-----------------------------------------------------------------------------
\* The receiver

remap_deepep_ht_topk_ids(ids, invalid, offset) ==
    [p \in DOMAIN ids |-> IF ids[p] = -1 THEN invalid ELSE ids[p] + offset]

\* An expert of another rank.
invalid_expert_id == IF rank_expert_offset = 0 THEN NumExperts - 1 ELSE 0

_receiver ==
    /\ pc = "receive"
    /\ topk_ids' = CASE env.raw \/ env.ids = "direct" -> RawIds
                     [] env.ids = "local" -> remap_deepep_ht_topk_ids(RawIds, NumLocal, 0)
                     [] OTHER -> remap_deepep_ht_topk_ids(RawIds, invalid_expert_id, rank_expert_offset)
    /\ pc' = IF NumRows = 0 THEN "done" ELSE "w1_align"
    /\ UNCHANGED <<inputs, sched, write_offsets, pending, cache1, cache2, cache3, out, oob>>

determine_expert_map ==
    [g \in 0 .. NumExperts - 1 |-> IF is_local(g) THEN g - rank_expert_offset ELSE -1]

_get_local_expert_map == [e \in 0 .. NumLocal |-> IF e < NumLocal THEN e ELSE -1]

expert_map == IF env.raw \/ env.ids # "global" THEN _get_local_expert_map ELSE determine_expert_map

assignment_num_experts ==
    CASE env.raw -> NumLocal
      [] ~env.raw /\ env.ids = "global" -> NumExperts
      [] OTHER -> NumLocal + 1

-----------------------------------------------------------------------------
\* The schedule

_use_ep_ignore_invalid_experts == env.ignore /\ ~env.fusion /\ NumRows >= env.min_tokens

_use_deepep_ht_direct_assignment == env.ids = "direct" /\ env.supported

\* The generic path replaces the -1 of raw ids by the sentinel when the direct one declined.
generic_topk_ids ==
    IF env.ids = "direct" THEN remap_deepep_ht_topk_ids(topk_ids, NumLocal, 0) ELSE topk_ids

\* The schedule expert of a pair, -1 if the pair is left out: the generic kernels ...
align_expert(p) ==
    LET id == generic_topk_ids[p]
    IN  IF id \notin 0 .. assignment_num_experts - 1 THEN -1
        ELSE IF _use_ep_ignore_invalid_experts THEN expert_map[id] ELSE id

\* ... and the direct one, which puts invalid pairs behind the last expert.
direct_expert(p) ==
    IF topk_ids[p] \in 0 .. NumLocal - 1 THEN topk_ids[p]
    ELSE IF _use_ep_ignore_invalid_experts THEN -1 ELSE NumLocal

schedule_expert(p) == IF _use_deepep_ht_direct_assignment THEN direct_expert(p) ELSE align_expert(p)

\* Fault: the buffers have no room for the padding of the invalid pairs' block.
num_schedule_experts_local ==
    IF _use_deepep_ht_direct_assignment THEN NumLocal ELSE assignment_num_experts

num_schedule_experts ==
    IF ~_use_deepep_ht_direct_assignment THEN assignment_num_experts
    ELSE IF _use_ep_ignore_invalid_experts THEN NumLocal ELSE NumLocal + 1

\* The direct path takes the counts that came with the tokens.
_make_expert_counts ==
    [e \in 0 .. NumLocal |->
        IF e < NumLocal THEN expert_num_tokens[e]
        ELSE IF _use_ep_ignore_invalid_experts THEN 0
        ELSE numel - MapThenSumSet(LAMBDA x : expert_num_tokens[x], 0 .. NumLocal - 1)]

expert_counts ==
    IF _use_deepep_ht_direct_assignment THEN _make_expert_counts
    ELSE [e \in 0 .. assignment_num_experts - 1 |-> Cardinality({p \in Pair : align_expert(p) = e})]

pad(counts, bm) == [e \in DOMAIN counts |-> cdiv(counts[e], bm) * bm]

exclusive_sum(padded) ==
    [e \in DOMAIN padded |-> MapThenSumSet(LAMBDA x : padded[x], {x \in DOMAIN padded : x < e})]

max_num_tokens_padded(bm) ==
    LET room == numel + num_schedule_experts * (bm - 1)
    IN  IF ~_use_deepep_ht_direct_assignment /\ numel < assignment_num_experts
        THEN Min({numel * bm, room}) ELSE room

\* What a block of schedule expert e is labelled with.
block_label(e) ==
    CASE _use_deepep_ht_direct_assignment -> IF e < NumLocal THEN e ELSE -1
      [] ~_use_deepep_ht_direct_assignment /\ _use_ep_ignore_invalid_experts -> e
      [] OTHER -> expert_map[e]

fill_expert_ids(padded, offsets, num_blocks, bm) ==
    [b \in 0 .. num_blocks - 1 |->
        LET owner == {e \in DOMAIN padded : b * bm \in offsets[e] .. offsets[e] + padded[e] - 1}
        IN  IF owner = {} THEN -1 ELSE block_label(CHOOSE e \in owner : TRUE)]

\* assignment_cache: W2 uses the schedule of W13 if its blocks are as large.
cached(bm) == sched.block = bm

_get_expert_assignment(at, bm, scatter, gemm) ==
    LET padded == pad(expert_counts, bm)
        offsets == exclusive_sum(padded)
        size == max_num_tokens_padded(bm)
        post == MapThenSumSet(LAMBDA e : padded[e], DOMAIN padded)
    IN  /\ pc = at
        /\ IF cached(bm)
           THEN /\ pc' = gemm
                /\ UNCHANGED <<sched, write_offsets, pending, oob>>
           ELSE /\ pc' = scatter
                /\ sched' = [block |-> bm, sorted |-> [i \in 0 .. size - 1 |-> numel], post_padded |-> post,
                             expert_ids |-> fill_expert_ids(padded, offsets, cdiv(size, bm), bm)]
                /\ write_offsets' = offsets
                /\ pending' = {p \in Pair : schedule_expert(p) # -1}
                /\ oob' = (oob \/ post > cdiv(size, bm) * bm)    \* a label outside expert_ids
        /\ UNCHANGED <<inputs, topk_ids, cache1, cache2, cache3, out>>

\* One pair's atomic_add and store; the threads come in any order.
scatter_token_id(at, p) ==
    LET e == schedule_expert(p)
    IN  /\ pc = at /\ p \in pending
        /\ pending' = pending \ {p}
        /\ write_offsets' = [write_offsets EXCEPT ![e] = @ + 1]
        /\ IF write_offsets[e] \in DOMAIN sched.sorted
           THEN sched' = [sched EXCEPT !.sorted[write_offsets[e]] = p] /\ UNCHANGED oob
           ELSE oob' = TRUE /\ UNCHANGED sched
        /\ UNCHANGED <<inputs, pc, topk_ids, cache1, cache2, cache3, out>>

scatter_done(at, gemm) ==
    /\ pc = at /\ pending = {}
    /\ pc' = gemm
    /\ UNCHANGED <<inputs, topk_ids, sched, write_offsets, pending, cache1, cache2, cache3, out, oob>>

-----------------------------------------------------------------------------
\* The expert GEMMs

Zero == <<-1, 0>>
Junk == <<NumLocal, 0>>

\* Reading a row: what was written there, if one thing was.
load(row) == IF Cardinality(row) = 1 THEN CHOOSE v \in row : TRUE ELSE Junk

\* The blocks of bm rows the grid covers and the kernel does not skip.
programs(rows, top_k, bm) ==
    LET size == Cardinality(DOMAIN sched.sorted)
        EM == IF rows < bm THEN Min({size, rows * top_k * bm}) ELSE size
    IN  {b \in 0 .. cdiv(EM, bm) - 1 : b * bm < sched.post_padded}

\* The places of the schedule at which a launched block finds pair p.
slots(p, blocks, bm) ==
    {i \in DOMAIN sched.sorted : sched.sorted[i] = p /\ i \div bm \in blocks}

leaves_schedule(blocks, bm) ==
    \E b \in blocks : b \notin DOMAIN sched.expert_ids \/ (b + 1) * bm - 1 \notin DOMAIN sched.sorted

\* The expert of the block at place i, -1 behind the end of the labels.
label(i, bm) == IF i \div bm \in DOMAIN sched.expert_ids THEN sched.expert_ids[i \div bm] ELSE -1

\* W13: blocks labelled -1 write zeros.
w13_gemm ==
    LET bm == env.block.w1
        blocks == programs(NumRows, TopK, bm)
    IN  /\ pc = "w1"
        /\ cache1' = [p \in Pair |-> {IF label(i, bm) = -1 THEN Zero ELSE <<label(i, bm), 0>> :
                                      i \in slots(p, blocks, bm)}]
        /\ oob' = (oob \/ leaves_schedule(blocks, bm))
        /\ pc' = "activation"
        /\ UNCHANGED <<inputs, topk_ids, sched, write_offsets, pending, cache2, cache3, out>>

\* Both masks look the id up in the expert map.
valid_pair(p) == topk_ids[p] \in DOMAIN expert_map /\ expert_map[topk_ids[p]] >= 0

activation ==
    /\ pc = "activation"
    /\ cache2' = [p \in Pair |-> IF env.masked /\ _use_ep_ignore_invalid_experts /\ ~valid_pair(p)
                                 THEN {} ELSE cache1[p]]
    /\ pc' = "w2_align"
    /\ UNCHANGED <<inputs, topk_ids, sched, write_offsets, pending, cache1, cache3, out, oob>>

fuse_w2_reduce ==
    env.fusion /\ ~_use_ep_ignore_invalid_experts /\ NumRows >= env.min_tokens

w2_mul_routed_weight == IF _use_ep_ignore_invalid_experts THEN 0 ELSE 1

\* What W2 computes at place i from the row of p.
w2_value(p, i) ==
    LET expert == label(i, env.block.w2)
    IN  CASE expert = -1 -> Zero
          [] expert # -1 /\ load(cache2[p]) = <<expert, 0>> -> <<expert, w2_mul_routed_weight>>
          [] OTHER -> Junk

\* The fused kernel adds its blocks to a cleared output and writes no zeros.
w2_gemm ==
    LET bm == env.block.w2
        blocks == programs(numel, 1, bm)
        added(p) == {i \in slots(p, blocks, bm) : label(i, bm) # -1}
    IN  /\ pc = "w2"
        /\ cache3' = [p \in Pair |-> IF fuse_w2_reduce THEN {}
                                     ELSE {w2_value(p, i) : i \in slots(p, blocks, bm)}]
        /\ out' = IF ~fuse_w2_reduce THEN out
                  ELSE [p \in Pair |-> IF added(p) = {} THEN Zero
                                       ELSE IF Cardinality(added(p)) > 1 THEN Junk
                                       ELSE w2_value(p, CHOOSE i \in added(p) : TRUE)]
        /\ oob' = (oob \/ leaves_schedule(blocks, bm))
        /\ pc' = IF fuse_w2_reduce THEN "done" ELSE "reduce"
        /\ UNCHANGED <<inputs, topk_ids, sched, write_offsets, pending, cache1, cache2>>

\* moe_fused_mul_sum skips invalid pairs and applies the weight, moe_sum adds every row.
reduce ==
    /\ pc = "reduce"
    /\ out' = [p \in Pair |->
                 LET v == load(cache3[p])
                 IN  CASE ~_use_ep_ignore_invalid_experts -> v
                       [] _use_ep_ignore_invalid_experts /\ valid_pair(p) -> <<v[1], v[2] + 1>>
                       [] OTHER -> Zero]
    /\ pc' = "done"
    /\ UNCHANGED <<inputs, topk_ids, sched, write_offsets, pending, cache1, cache2, cache3, oob>>

w1_assignment ==
    \/ _get_expert_assignment("w1_align", env.block.w1, "w1_scatter", "w1")
    \/ \E p \in pending : scatter_token_id("w1_scatter", p)
    \/ scatter_done("w1_scatter", "w1")

w2_assignment ==
    \/ _get_expert_assignment("w2_align", env.block.w2, "w2_scatter", "w2")
    \/ \E p \in pending : scatter_token_id("w2_scatter", p)
    \/ scatter_done("w2_scatter", "w2")

Next == _receiver \/ w1_assignment \/ w13_gemm \/ activation \/ w2_assignment \/ w2_gemm \/ reduce

Spec == Init /\ [][Next]_vars

-----------------------------------------------------------------------------
(* Types.  Ids that go to a kernel which indexes the expert map with them  *)
(* without a test are in the map: all of them in the global and in the     *)
(* local id space.                                                         *)
TypeOK ==
    /\ rank \in 0 .. NumRanks - 1 /\ env \in Env
    /\ pc \in {"receive", "w1_align", "w1_scatter", "w1", "activation",
               "w2_align", "w2_scatter", "w2", "reduce", "done"}
    /\ pc # "receive" =>
        IF env.raw \/ env.ids = "direct" THEN topk_ids \in [Pair -> -1 .. NumLocal - 1]
        ELSE topk_ids \in [Pair -> DOMAIN expert_map]
    /\ pending \subseteq Pair
    /\ oob \in BOOLEAN

(* The buffers of a schedule, sized before the counts are known to the     *)
(* host (numel plus one block less one for every schedule expert), hold    *)
(* every block: no sort or GEMM kernel reads or writes outside of them,    *)
(* nor outside of the expert map.                                          *)
InBounds == TypeOK /\ ~oob

(* Whatever the id space, the path that builds the schedule, the settings  *)
(* and the order of the threads, a received pair contributes what the      *)
(* router's choice says: the output of its own expert, weighted once, if   *)
(* the expert is on this rank, and nothing otherwise.  In particular no    *)
(* row that a kernel left unwritten is added to the output.                *)
OutputIsRouted ==
    pc = "done" /\ NumRows > 0 =>
        out = [p \in Pair |-> IF is_local(RoutedTo(p)) THEN <<RoutedTo(p) - rank_expert_offset, 1>> ELSE Zero]
=============================================================================
