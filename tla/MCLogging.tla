----------------------------- MODULE MCLogging -----------------------------
(* Instances of Logging for TLC: which usage rules the clients keep. *)
EXTENDS Logging

LogRules == {"notBoth", "resolvedFirst", "envFirst"}
NoResolvedFirst == LogRules \ {"resolvedFirst"}
=============================================================================
