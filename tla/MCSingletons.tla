---------------------------- MODULE MCSingletons ----------------------------
(* Two classes, one with two objects; three handles, so that a handle can  *)
(* be given out again for an object of the other class.                    *)
EXTENDS Singletons, TLC

CONSTANTS A, B, a1, a2, b1

ClassOfObject == (a1 :> A) @@ (a2 :> A) @@ (b1 :> B)
=============================================================================
