------------------------------ MODULE MCArrays ------------------------------
(* Two threads share an array of two elements; a byte has four values.      *)
EXTENDS Arrays

(* The numbers at the edges of a C++ type and of the Java type for it.      *)
Edges(t) == {Smallest(t), 0, Largest(t)} \union (IF t \in Unsigned THEN {} ELSE {-1})
EdgesOfTypes == [t \in CppTypes |-> Edges(t) \union Edges(JniType[t])]
=============================================================================
