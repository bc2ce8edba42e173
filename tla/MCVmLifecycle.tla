--------------------------- MODULE MCVmLifecycle ---------------------------
(* Instances of VmLifecycle for TLC: which usage rules the clients keep. *)
EXTENDS VmLifecycle

AllRules == {"vmFirst", "quiescentDestroy"}
EarlyEnvAllowed == AllRules \ {"vmFirst"}
=============================================================================
