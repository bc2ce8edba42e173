-------------------------- MODULE MCThreadWrapper --------------------------
(* Instances of ThreadWrapper for TLC: which usage rules the clients keep. *)
EXTENDS ThreadWrapper

AllRules == {"vmFirst", "quiescentDestroy"}
=============================================================================
