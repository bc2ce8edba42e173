---------------------------- MODULE MemberTable ----------------------------
(***************************************************************************)
(* What the caches of methods and fields promise (comments at              *)
(* JniPlusPlus.hpp 67-69 and 90): a member object finds its MethodInfo in  *)
(* one go, and the objects for one key find the same one.                  *)
(***************************************************************************)
CONSTANTS Members, NoInfo,
          Key   \* the key of each member

VARIABLES
  table,     \* per key: the MethodInfo, or NoInfo
  resolved   \* per member: the MethodInfo it has, or NoInfo

Infos == Members \cup {NoInfo}

TableInit ==
  /\ \A m \in Members : table[Key[m]] = NoInfo
  /\ resolved = [m \in Members |-> NoInfo]

(* The first member with a key makes the MethodInfo. *)
Find(m) ==
  /\ resolved[m] = NoInfo /\ table[Key[m]] = NoInfo
  /\ table' = [table EXCEPT ![Key[m]] = m]
  /\ resolved' = [resolved EXCEPT ![m] = m]

Share(m) ==
  /\ resolved[m] = NoInfo /\ table[Key[m]] # NoInfo
  /\ resolved' = [resolved EXCEPT ![m] = table[Key[m]]]
  /\ UNCHANGED table

TableNext == \E m \in Members : Find(m) \/ Share(m)

TableSpec == TableInit /\ [][TableNext]_<<table, resolved>>
=============================================================================
