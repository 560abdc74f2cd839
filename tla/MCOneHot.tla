------------------------------- MODULE MCOneHot -------------------------------
(* Model-checking instances of OneHot.                                     *)
EXTENDS OneHot

(* Ranks 1 and 2, extents 2 and 3: C order and axis insertion at every   *)
(* position of the output.                                                *)
MCShapes == {<<3>>, <<2, 2>>, <<2, 3>>}
MCDepths == {2, 3}
(* Every axis of a rank-2 input, from -3 to 2. *)
MCAxisVals == -3 .. 2
(* Values: negative, and inside the smaller depth. *)
MCValsIn == {-1, 0, 1}
(* A value past the depth. *)
MCValsPast == {0, 3}
=============================================================================
