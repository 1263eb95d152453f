---------------------------- MODULE MCUbatching ----------------------------
(* Two micro-batches through one or two layers with either back end. *)
EXTENDS Ubatching

Pass(mode, layers, fixed, raises) ==
  [mode |-> mode, layers |-> layers, fixed |-> fixed, raises |-> raises]

AllPlans ==
  {Pass("ht", 2, FALSE, {}), Pass("ht", 2, TRUE, {}), Pass("ll", 2, FALSE, {}),
   Pass("ht", 1, FALSE, Thread), Pass("ll", 2, FALSE, Thread)}

=============================================================================
