------------------------- MODULE MCTaskSessionLanes -------------------------
(* Small instances of TaskSessionLanes for TLC. *)
EXTENDS TaskSessionLanes, TLC

CONSTANTS c1, c2, o1, o2, o3, review, normal

OneLane == [o \in Op |-> review]
TwoLanes == (o1 :> review) @@ (o2 :> review) @@ (o3 :> normal)

ClientSymmetry == Permutations(Client)
=============================================================================
