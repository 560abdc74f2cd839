--------------------------- MODULE MCStridedSlice ---------------------------
(* Model-checking instances of StridedSlice on a (3, 2) input.            *)
EXTENDS StridedSlice

MCShape == <<3, 2>>

(* Bounds inside, at and past both ends of an axis. *)
MCBeginVals == {-4, -2, 0, 2}
MCEndVals == {-4, -1, 1, 3}
MCStrideVals == {-2, -1, 1, 2}
MCUnitStride == {1}

(* begin -1 on a shrink axis: the last element. *)
MCBeginLast == {-1}

(* Mask attributes: every combination of the given bits. *)
MCMasks(bm, em, ell, na, sh) ==
  [nm \in MaskNames |->
     CASE nm = "begin_mask" -> bm
       [] nm = "end_mask" -> em
       [] nm = "ellipsis_mask" -> ell
       [] nm = "new_axis_mask" -> na
       [] OTHER -> sh]

(* begin and end masks on any axes. *)
MCMaskBeginEnd == MCMasks(0 .. 3, 0 .. 3, {0}, {0}, {0})

(* begin and end masks with pass-through, new and shrink axes. *)
MCMaskAxisOps == MCMasks(0 .. 3, 0 .. 3, 0 .. 3, {0, 1, 2}, {0, 1, 2})

(* Pass-through and new axes. *)
MCMaskPassThrough == MCMasks({0}, {0}, 0 .. 3, {0, 1, 2}, {0})

(* A shrink on either axis. *)
MCMaskShrink == MCMasks({0}, {0}, {0}, {0}, {1, 2})

(* A new axis at axis 0 and a shrink of axis 1. *)
MCMaskNewThenShrink == MCMasks({0}, {0}, {0}, {1}, {2})
(* Any combination of the values. *)
MCAnyInput(m, s) == TRUE

(* Non-unit strides only where no axis is passed through, added or      *)
(* shrunk: the stride reset of lines 417-434 is the subject of a run of  *)
(* its own, and so is a new axis together with a shrink axis.            *)
MCUnitStrideForAxisOps(m, s) ==
  /\ m.new_axis_mask = 0 \/ m.shrink_axis_mask = 0
  /\ \/ m.ellipsis_mask = 0 /\ m.shrink_axis_mask = 0 /\ m.new_axis_mask = 0
     \/ \A a \in DOMAIN s : s[a] = 1

(* Begin values inside both axes. *)
MCBeginIn == {0, 1}

(* Two shrink axes. *)
MCMaskTwoShrink == MCMasks({0}, {0}, {0}, {0}, {3})
=============================================================================
