------------------------------- MODULE OneHot -------------------------------
(***************************************************************************)
(* one_hot_np (op_dsl.py lines 168-192), the kernel of the OneHot entry    *)
(* (line 689).  The code lists the index tuples of data in C order        *)
(* (itertools.product), inserts into the tuple at position temp the value *)
(* data.flatten()[temp], and then sets expect[loc] = on_value for every   *)
(* such loc whose inserted value is >= 0.  The first loop cannot raise,   *)
(* so its step for an element is taken together with the second loop's   *)
(* step for the same element: one action Place per element, in C order.  *)
(***************************************************************************)
EXTENDS Integers, Sequences

CONSTANTS
  Shapes,    \* shapes data may have
  Depths,    \* values of depth
  AxisVals,  \* values of axis
  Vals,      \* values an element of data may have
  MaxExt     \* bound on the extents of Shapes

ASSUME ConstAssumption ==
  /\ MaxExt \in Nat \ {0}
  /\ Shapes \subseteq Seq(1 .. MaxExt) /\ Depths \subseteq 1 .. MaxExt
  /\ AxisVals \subseteq Int /\ Vals \subseteq Int

VARIABLES
  node,    \* [shape, depth, axis, data]: the arguments
  axis,    \* the local axis after normalisation
  expect,  \* the output array: index tuple -> "on" or "off"
  temp,    \* position in C order of the element being placed
  pc       \* "start", "loop", "done" or "error"

vars == <<node, axis, expect, temp, pc>>

(* The index tuples of an array of shape s (entries 0-based). *)
Idx(s) == {u \in [1 .. Len(s) -> 0 .. MaxExt - 1] : \A d \in 1 .. Len(s) : u[d] < s[d]}

RECURSIVE Size(_)
Size(s) == IF s = <<>> THEN 1 ELSE Head(s) * Size(Tail(s))

(* indexs[t]: itertools.product over dims yields the index tuples in C     *)
(* order, the last axis fastest.                                          *)
ProductIdx(s, t) == [d \in 1 .. Len(s) |-> (t \div Size(SubSeq(s, d + 1, Len(s)))) % s[d]]

(* Mutant of FlatIdx: data.flatten("F"), the first axis fastest. *)
FlatIdxF(s, t) == [d \in 1 .. Len(s) |-> (t \div Size(SubSeq(s, 1, d - 1))) % s[d]]

(* The index of data.flatten()[t]: numpy's default order is C order too. *)
FlatIdx(s, t) == [d \in 1 .. Len(s) |-> (t \div Size(SubSeq(s, d + 1, Len(s)))) % s[d]]

(* list.insert(pos, v) on a tuple, pos 0-based. *)
Insert(u, pos, v) == SubSeq(u, 1, pos) \o <<v>> \o SubSeq(u, pos + 1, Len(u))

Init ==
  /\ node \in UNION {[shape : {s}, depth : Depths,
                      axis : AxisVals \cap -(Len(s) + 1) .. Len(s),
                      data : [Idx(s) -> Vals]] : s \in Shapes}
  /\ axis = 0 /\ expect = <<>> /\ temp = 0 /\ pc = "start"

(* if axis < 0: axis = axis + len(shape) + 1 *)
NormAxis(a, r) == IF a < 0 THEN a + r + 1 ELSE a

(* Lines 170-175: normalise axis, insert depth into the shape at axis and *)
(* fill the output with off_value.                                       *)
Start ==
  /\ pc = "start"
  /\ axis' = NormAxis(node.axis, Len(node.shape))
  /\ expect' = [v \in Idx(Insert(node.shape, axis', node.depth)) |-> "off"]
  /\ pc' = "loop"
  /\ UNCHANGED <<node, temp>>

(* Lines 184-190 for the element at C position temp: its index tuple with *)
(* the value inserted at axis; a value >= 0 sets on_value there, and one  *)
(* >= depth indexes past the axis and raises IndexError.                  *)
Place ==
  /\ pc = "loop"
  /\ temp < Size(node.shape)
  /\ LET u == ProductIdx(node.shape, temp)
         v == node.data[FlatIdx(node.shape, temp)]
     IN CASE v < 0 -> UNCHANGED <<expect, pc>>
          [] v >= node.depth -> pc' = "error" /\ UNCHANGED expect
          [] OTHER -> expect' = [expect EXCEPT ![Insert(u, axis, v)] = "on"]
                      /\ pc' = pc
  /\ temp' = temp + 1
  /\ UNCHANGED <<node, axis>>

(* The loops end; expect.astype(dtype) is returned. *)
Finish ==
  /\ pc = "loop"
  /\ temp = Size(node.shape)
  /\ pc' = "done"
  /\ UNCHANGED <<node, axis, expect, temp>>

Next == Start \/ Place \/ Finish

Spec == Init /\ [][Next]_vars /\ WF_vars(Next)

-----------------------------------------------------------------------------

(* The spec's one-hot (section 8): the output has a new axis of length     *)
(* depth at position axis (counted in the output's rank when negative);   *)
(* the entry at v is on exactly when v's position on the new axis is the  *)
(* value of data at v without that axis, so a row is all off for a        *)
(* negative value and for a value past the depth.                          *)
RefAxis == IF node.axis < 0 THEN node.axis + Len(node.shape) + 1 ELSE node.axis

Drop(v, a) == SubSeq(v, 1, a) \o SubSeq(v, a + 2, Len(v))

RefShape == SubSeq(node.shape, 1, RefAxis) \o <<node.depth>>
              \o SubSeq(node.shape, RefAxis + 1, Len(node.shape))

(* one_hot_np returns the spec's one-hot array for every data, depth and  *)
(* axis: the C-order walk of itertools.product and of data.flatten()      *)
(* stay aligned, and the value lands on the inserted axis.                *)
OneHotMatchesSpec ==
  pc \in {"done", "error"} =>
    /\ pc = "done"
    /\ DOMAIN expect = Idx(RefShape)
    /\ \A v \in DOMAIN expect :
         expect[v] = IF v[RefAxis + 1] = node.data[Drop(v, RefAxis)] THEN "on" ELSE "off"

=============================================================================
