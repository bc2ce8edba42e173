--------------------------- MODULE MCExportLookup ---------------------------
(* A nested class with a superclass in another package, and the exporter.   *)
EXTENDS ExportLookup

MCClasses == {"Outer", "Inner", "Base", "JavaToNativeExporter"}
MCChain == [c \in MCClasses |-> IF c = "Inner" THEN <<"Inner", "Base">> ELSE <<c>>]
MCWithin == [c \in MCClasses |-> IF c = "Inner" THEN {"Inner", "Outer"} ELSE {c}]
MCPackageOf == [c \in MCClasses |-> IF c = "Base" THEN <<"com">> ELSE <<"com", "app">>]
MCPackages == {<<"com">>, <<"com", "app">>}
(* "one" and "other" take one parameter, "two" takes two. *)
MCNumParameters == [one |-> 1, other |-> 1, two |-> 2]
MCDeclarable == {"Inner"} \X {"one", "other"} \union {<<"Base", "one">>}
                  \union {"JavaToNativeExporter"} \X {"one", "two"}
MCPrefix == [c \in MCClasses |-> ""]
=============================================================================
