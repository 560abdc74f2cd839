----------------------------- MODULE MCGatherNd -----------------------------
(* Model-checking instances of GatherNd.                                   *)
EXTENDS GatherNd

(* data of shape (2, 3): K = 1 reads rows of 3, K = 2 single elements.   *)
MCShape23 == [d \in 0 .. 1 |-> IF d = 0 THEN 2 ELSE 3]
MCStrides23 == [d \in 0 .. 1 |-> IF d = 0 THEN 3 ELSE 1]

(* data of shape (2, 2, 2): K = 2 reads slices of 2 elements. *)
MCShape222 == [d \in 0 .. 2 |-> 2]
MCStrides222 == [d \in 0 .. 2 |-> 2 ^ (2 - d)]

(* Coordinates: one negative, every valid one, one past the end. *)
MCIdxVals23 == -1 .. 3
MCIdxVals222 == -1 .. 2
=============================================================================
