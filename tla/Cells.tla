------------------------------- MODULE Cells -------------------------------
(***************************************************************************)
(* What a Java array promises to those who share it: cells that hold what  *)
(* was last stored, for native code and for Java alike.                    *)
(***************************************************************************)
EXTENDS Naturals

CONSTANTS Indices, Values

VARIABLES
  cells,
  last   \* the last access: what was done, which cells, which values

CellsInit ==
  /\ cells = [i \in Indices |-> 0]
  /\ last = [op |-> "none", at |-> {}, values |-> << >>]

Access(op, S, f) == last' = [op |-> op, at |-> S, values |-> f]

(* Several cells are stored at once by the functions for regions. *)
Store(S, f) ==
  /\ cells' = [i \in Indices |-> IF i \in S THEN f[i] ELSE cells[i]]
  /\ Access("store", S, f)

Load(i) ==
  /\ Access("load", {i}, [k \in {i} |-> cells[i]])
  /\ UNCHANGED cells

(* Whether an array exists, is pinned or copied does not show. *)
NoAccess ==
  /\ last' = [op |-> "none", at |-> {}, values |-> << >>]
  /\ UNCHANGED cells

(* Some S and f, named by what last says afterwards, which spares TLC the  *)
(* search for them.                                                        *)
StoreAny ==
  LET S == last'.at
      f == last'.values
  IN  S \subseteq Indices /\ f \in [S -> Values] /\ Store(S, f)

CellsNext ==
  \/ StoreAny
  \/ \E i \in Indices : Load(i)
  \/ NoAccess

CellsSpec == CellsInit /\ [][CellsNext]_<<cells, last>>
=============================================================================
