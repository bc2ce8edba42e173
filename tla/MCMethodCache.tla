--------------------------- MODULE MCMethodCache ---------------------------
(* Two Method objects of one JVM method, a field that only the Java search *)
(* finds, and an array of objects of their class.                          *)
EXTENDS MethodCache, TLC

CONSTANTS m1, m2, f1, a1, k, kf, cls

KeyOfMember == (m1 :> k) @@ (m2 :> k) @@ (f1 :> kf)
KindOfMember == (m1 :> "method") @@ (m2 :> "method") @@ (f1 :> "scannedField")
ClassOfMember == [m \in {m1, m2, f1, a1} |-> cls]

(* One method and one field, for the bootstrap race. *)
KeyOfFew == (m1 :> k) @@ (f1 :> kf)
ClassOfFew == [m \in {m1, f1, a1} |-> cls]
KindOfFew == (m1 :> "method") @@ (f1 :> "field")
=============================================================================
