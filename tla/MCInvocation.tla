---------------------------- MODULE MCInvocation ----------------------------
(* Handles are alike: TLC may exchange them. *)
EXTENDS Invocation, TLC

Handles == Permutations(Refs)
=============================================================================
