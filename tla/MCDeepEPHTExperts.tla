------------------------- MODULE MCDeepEPHTExperts -------------------------
(* Block sizes and routings for the run of DeepEPHTExperts. *)
EXTENDS DeepEPHTExperts

\* W2 shares the schedule of W13, or has one with smaller blocks.
SharedOrNot == {[w1 |-> 2, w2 |-> 2], [w1 |-> 3, w2 |-> 2]}

\* Any two experts for either token; the first token's come in order.
Choice == {s \in [1 .. TopK -> 0 .. NumExperts - 1] : s[1] # s[2]}
TwoTokens == {r \in [Token -> Choice] : r[1][1] < r[1][2]}
=============================================================================
