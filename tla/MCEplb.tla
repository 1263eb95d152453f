------------------------------- MODULE MCEplb -------------------------------
(***************************************************************************)
(* Two ranks in async mode, over a few placements; in sync mode two, three *)
(* and five ranks, and every pair of placements of a small group.          *)
(***************************************************************************)
EXTENDS Eplb

Async(nixl, ranks, local, experts, layers, models, dies, placements) ==
  [is_async |-> TRUE, nixl |-> nixl, ranks |-> ranks, local |-> local, experts |-> experts, layers |-> layers,
   models |-> models, interval |-> 1, placements |-> placements, dies |-> dies]

Sync(ranks, local, experts, placements) ==
  [is_async |-> FALSE, nixl |-> FALSE, ranks |-> ranks, local |-> local, experts |-> experts, layers |-> 1,
   models |-> 1, interval |-> 2, dies |-> FALSE, placements |-> placements]

Place(s) == [i \in 0 .. Len(s) - 1 |-> s[i + 1]]
Layers(ls) == [l \in 0 .. Len(ls) - 1 |-> Place(ls[l + 1])]
Models(ms) == [m \in 0 .. Len(ms) - 1 |-> Layers(ms[m + 1])]
One(s) == Models(<<<<s>>>>)

\* Async, with either kind of back end: two layers; a rank that needs an expert
\* twice and swaps its rows (with nixl, and back); workers that may die; with sends and
\* receives, a model and its drafter.  Sync: every placement of three
\* experts on two ranks; five ranks, where senders and receivers do not divide
\* evenly; three ranks of two slots.
Placements_ ==
  [layers |-> {Models(<<<<<<0, 1>>, <<1, 0>>>>>>), Models(<<<<<<1, 0>>, <<0, 1>>>>>>)},
   models |-> {Models(<<<<<<1, 0>>>>, <<<<1, 0>>>>>>)},
   swap |-> {One(<<1, 0>>)},
   doubled |-> {One(<<2, 2, 1, 0>>)},
   redoubled |-> {One(<<2, 2, 1, 0>>), One(<<0, 1, 2, 0>>)},
   all |-> {[m \in {0} |-> [l \in {0} |-> f]] :
              f \in {f \in [0 .. 3 -> 0 .. 2] : {f[s] : s \in 0 .. 3} = 0 .. 2}},
   uneven |-> {One(<<0, 0, 1, 1, 1>>), One(<<1, 1, 0, 0, 0>>), One(<<0, 1, 1, 1, 1>>),
               One(<<1, 0, 1, 0, 1>>)},
   triples |-> {One(<<0, 1, 2, 0, 1, 2>>), One(<<0, 0, 1, 1, 2, 2>>), One(<<2, 2, 0, 1, 1, 0>>),
                One(<<1, 2, 2, 2, 0, 0>>)}]

TwoLayers(nixl) == Async(nixl, 2, 1, 2, 2, 1, FALSE, "layers")
TwoModels == Async(FALSE, 2, 1, 2, 1, 2, FALSE, "models")
Doubled == Async(FALSE, 2, 2, 3, 1, 1, FALSE, "doubled")
Redoubled == Async(TRUE, 2, 2, 3, 1, 1, FALSE, "redoubled")
WorkersDie(nixl) == Async(nixl, 2, 1, 2, 1, 1, TRUE, "swap")

AllPlans ==
  UNION {{TwoLayers(x), WorkersDie(x)} : x \in BOOLEAN} \cup
  {TwoModels, Doubled, Redoubled, Sync(2, 2, 3, "all"), Sync(5, 1, 2, "uneven"),
   Sync(3, 2, 3, "triples")}

=============================================================================
