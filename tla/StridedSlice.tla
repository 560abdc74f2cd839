---------------------------- MODULE StridedSlice ----------------------------
(***************************************************************************)
(* strided_slice_str (op_dsl.py lines 388-444) and the program it emits.  *)
(* The loop over the axes of begin resolves every axis to a slice          *)
(* start:end:stride from begin, end, strides and the five bit masks        *)
(* (bit i of a mask is character i of bin(mask)[-1:1:-1]); the emitted     *)
(* program then indexes the input with those slices, runs                  *)
(* np.expand_dims at the last new-axis position and np.squeeze at the last  *)
(* shrink position.                                                         *)
(*                                                                         *)
(* The result is abstracted to the source positions it holds: axes has one *)
(* record per output axis, [from |-> the 1-based input axis or 0 for an    *)
(* inserted axis, sel |-> the input positions it takes, in order], and     *)
(* picks the pairs <<input axis, position>> of the axes squeezed away.     *)
(***************************************************************************)
EXTENDS Integers, Sequences

CONSTANTS
  Shape,        \* inputs[0][0]["shape"]
  BeginVals,    \* values an entry of begin may take
  EndVals,      \* values an entry of end may take
  StrideVals,   \* values an entry of strides may take
  MaskVals,     \* [mask name -> the values that attribute may take]
  InputOK(_, _) \* which (mask, strides) pairs of those values a node has

MaskNames == {"begin_mask", "end_mask", "ellipsis_mask", "new_axis_mask",
              "shrink_axis_mask"}

ASSUME ShapeAssumption == Shape \in Seq(Nat \ {0}) /\ Shape # <<>>

ASSUME ValsAssumption ==
  /\ BeginVals \subseteq Int /\ EndVals \subseteq Int
  /\ StrideVals \subseteq Int \ {0}
  /\ MaskVals \in [MaskNames -> SUBSET Nat]

Rank == Len(Shape)

Axes == 1 .. Rank

VARIABLES
  begin, end, strides,  \* the attributes, one entry per axis
  mask,                 \* [mask name -> the integer attribute]
  i,                    \* loop index (1-based) over begin
  slices,               \* the start:end:stride resolved so far
  newAxis, shrinkAxis,  \* new_axis and shrink_axis, -1 when unset
  out,                  \* the emitted program's result
  pc                    \* "resolve", "done" or "error"

vars == <<begin, end, strides, mask, i, slices, newAxis, shrinkAxis, out, pc>>

(* i < len(pos) and pos[i] == '1' for pos = bin(m)[-1:1:-1], 0-based i. *)
Bit(m, ax) == (m \div 2 ^ ax) % 2 = 1

MaxOf(a, b) == IF a > b THEN a ELSE b
MinOf(a, b) == IF a < b THEN a ELSE b

(* Python's slice.indices: a negative bound counts from the end, then it  *)
(* is clamped to 0..len for a positive step and to -1..len-1 otherwise.   *)
Norm(v, len, s) ==
  IF s > 0 THEN IF v < 0 THEN MaxOf(v + len, 0) ELSE MinOf(v, len)
           ELSE IF v < 0 THEN MaxOf(v + len, -1) ELSE MinOf(v, len - 1)

(* The positions x[b:e:s] takes on an axis of length len. *)
Sel(len, b, e, s) ==
  LET lo == Norm(b, len, s)
      hi == Norm(e, len, s)
      cnt == IF s > 0 THEN MaxOf(0, (hi - lo + s - 1) \div s)
                      ELSE MaxOf(0, (lo - hi - s - 1) \div (-s))
  IN [q \in 1 .. cnt |-> lo + (q - 1) * s]

Init ==
  /\ begin \in [Axes -> BeginVals]
  /\ end \in [Axes -> EndVals]
  /\ strides \in [Axes -> StrideVals]
  /\ mask \in [begin_mask : MaskVals["begin_mask"], end_mask : MaskVals["end_mask"],
               ellipsis_mask : MaskVals["ellipsis_mask"],
               new_axis_mask : MaskVals["new_axis_mask"],
               shrink_axis_mask : MaskVals["shrink_axis_mask"]]
  /\ InputOK(mask, strides)
  /\ i = 1
  /\ slices = <<>>
  /\ newAxis = -1
  /\ shrinkAxis = -1
  /\ out = [axes |-> <<>>, picks |-> {}]
  /\ pc = "resolve"

(* Mutant of StartNum: the begin mask picks -1 for a positive stride and  *)
(* 0 for a negative one, the two cases swapped.                            *)
StartNumSwapped(ax) ==
  IF Bit(mask["begin_mask"], ax)
    THEN IF strides[ax + 1] >= 0 THEN -1 ELSE 0
    ELSE begin[ax + 1]

(* start_num before the ellipsis and new-axis overrides: the largest     *)
(* range under begin_mask, else begin[i].                                  *)
StartNum(ax) ==
  IF Bit(mask["begin_mask"], ax)
    THEN IF strides[ax + 1] >= 0 THEN 0 ELSE -1
    ELSE begin[ax + 1]

(* Mutant of EndNum: the end mask of a negative stride gives -shape[i]     *)
(* instead of -shape[i] - 1, so position 0 is left out.                    *)
EndNumOff(ax) ==
  IF Bit(mask["end_mask"], ax)
    THEN IF strides[ax + 1] >= 0 THEN Shape[ax + 1] ELSE -Shape[ax + 1]
    ELSE end[ax + 1]

(* end_num before the overrides: the largest range under end_mask. *)
EndNum(ax) ==
  IF Bit(mask["end_mask"], ax)
    THEN IF strides[ax + 1] >= 0 THEN Shape[ax + 1] ELSE -Shape[ax + 1] - 1
    ELSE end[ax + 1]

(* One iteration of "for i, bg in enumerate(begin)".  The ellipsis and    *)
(* new-axis blocks set start 0 and end shape[i]; the shrink block sets     *)
(* end = start + 1.  Each of the three blocks sets strides_num, the else   *)
(* branches to strides[i], so the last one decides: stride 1 on a shrink   *)
(* axis and strides[i] on every other axis.                                *)
ResolveAxis ==
  /\ pc = "resolve"
  /\ i <= Rank
  /\ LET ax == i - 1
         ell == Bit(mask["ellipsis_mask"], ax)
         na == Bit(mask["new_axis_mask"], ax)
         sh == Bit(mask["shrink_axis_mask"], ax)
         start == IF ell \/ na THEN 0 ELSE StartNum(ax)
         stop == IF ell \/ na THEN Shape[i] ELSE EndNum(ax)
     IN /\ slices' = Append(slices,
                            [start |-> start,
                             stop |-> IF sh THEN start + 1 ELSE stop,
                             step |-> IF sh THEN 1 ELSE strides[i]])
        /\ newAxis' = IF na THEN ax ELSE newAxis
        /\ shrinkAxis' = IF sh THEN ax ELSE shrinkAxis
  /\ i' = i + 1
  /\ UNCHANGED <<begin, end, strides, mask, out, pc>>

(* The emitted program: x[slices], then np.expand_dims(axis=new_axis),    *)
(* then np.squeeze(axis=shrink_axis), which raises ValueError when that   *)
(* axis does not have length 1.                                            *)
RunProgram ==
  /\ pc = "resolve"
  /\ i = Rank + 1
  /\ LET sliced == [a \in Axes |-> [from |-> a,
                                   sel |-> Sel(Shape[a], slices[a].start,
                                               slices[a].stop, slices[a].step)]]
         expanded == IF newAxis = -1 THEN sliced
                     ELSE SubSeq(sliced, 1, newAxis) \o <<[from |-> 0, sel |-> <<0>>]>>
                            \o SubSeq(sliced, newAxis + 1, Rank)
         gone == expanded[shrinkAxis + 1]
     IN IF shrinkAxis = -1
          THEN out' = [axes |-> expanded, picks |-> {}] /\ pc' = "done"
          ELSE IF Len(gone.sel) = 1
                 THEN /\ out' = [axes |-> SubSeq(expanded, 1, shrinkAxis)
                                          \o SubSeq(expanded, shrinkAxis + 2, Len(expanded)),
                                  picks |-> IF gone.from = 0 THEN {}
                                            ELSE {<<gone.from, gone.sel[1]>>}]
                      /\ pc' = "done"
                 ELSE out' = out /\ pc' = "error"
  /\ UNCHANGED <<begin, end, strides, mask, i, slices, newAxis, shrinkAxis>>

Next == ResolveAxis \/ RunProgram

Spec == Init /\ [][Next]_vars /\ WF_vars(Next)

-----------------------------------------------------------------------------

(* Spec 4.2, read axis by axis: what the slice must select.  A shrink axis *)
(* takes the element at its start (begin, or the first element in stride *)
(* direction under begin_mask, or 0 under ellipsis or new-axis) and is     *)
(* removed; an ellipsis or new-axis axis is passed through whole; a new    *)
(* axis of length 1 is inserted at a new-axis position; any other axis     *)
(* takes begin, begin + stride, ... up to end, or to the edge under the    *)
(* masks.                                                                    *)
RefBits(a) ==
  [bm |-> Bit(mask["begin_mask"], a - 1), em |-> Bit(mask["end_mask"], a - 1),
   ell |-> Bit(mask["ellipsis_mask"], a - 1), na |-> Bit(mask["new_axis_mask"], a - 1),
   sh |-> Bit(mask["shrink_axis_mask"], a - 1)]

RefWalk(a) ==
  LET len == Shape[a]
      st == strides[a]
      f == RefBits(a)
      first == IF f.bm THEN (IF st > 0 THEN 0 ELSE len - 1) ELSE Norm(begin[a], len, st)
      last == Norm(end[a], len, st)
      ok(x) == x \in 0 .. len - 1 /\ (f.em \/ (IF st > 0 THEN x < last ELSE x > last))
      cnt == CHOOSE c \in 0 .. len : (\A q \in 0 .. c - 1 : ok(first + q * st))
                                     /\ ~ok(first + c * st)
  IN [q \in 1 .. cnt |-> first + (q - 1) * st]

RefSel(a) ==
  IF RefBits(a).ell \/ RefBits(a).na THEN [q \in 1 .. Shape[a] |-> q - 1] ELSE RefWalk(a)

RefStart(a) ==
  IF RefBits(a).ell \/ RefBits(a).na THEN 0
  ELSE IF RefBits(a).bm THEN (IF strides[a] > 0 THEN 0 ELSE -1) ELSE begin[a]

RefRaises == \E a \in Axes : RefBits(a).sh /\ ~(-Shape[a] <= RefStart(a) /\ RefStart(a) < Shape[a])

RefOut ==
  LET piece(a) == (IF RefBits(a).na THEN <<[from |-> 0, sel |-> <<0>>]>> ELSE <<>>)
                  \o (IF RefBits(a).sh THEN <<>> ELSE <<[from |-> a, sel |-> RefSel(a)]>>)
      acc[a \in 0 .. Rank] == IF a = 0 THEN <<>> ELSE acc[a - 1] \o piece(a)
      wrap(p, len) == IF p < 0 THEN p + len ELSE p
  IN [axes |-> acc[Rank],
      picks |-> {<<a, wrap(RefStart(a), Shape[a])>> : a \in {b \in Axes : RefBits(b).sh}}]

(* The array a result stands for: its shape, and for every input axis the *)
(* positions it contributes (one position for an axis of length 1).  Two  *)
(* results are the same array exactly when these agree.                   *)
Canon(o) ==
  LET ax == o.axes
      pos(a) ==
        IF \E p \in o.picks : p[1] = a
          THEN <<(CHOOSE p \in o.picks : p[1] = a)[2]>>
          ELSE LET k == CHOOSE k \in 1 .. Len(ax) : ax[k].from = a
               IN IF Len(ax[k].sel) = 1 THEN ax[k].sel ELSE <<k>> \o ax[k].sel
  IN [shape |-> [k \in 1 .. Len(ax) |-> Len(ax[k].sel)],
      src |-> IF \E k \in 1 .. Len(ax) : ax[k].sel = <<>> THEN <<>>
              ELSE [a \in Axes |-> pos(a)]]

(* The emitted program computes the slice spec 4.2 describes: it raises   *)
(* only when a shrink axis starts outside its axis, and otherwise returns *)
(* the same array as the reference, whatever the masks and strides.       *)
SliceMatchesSpec ==
  pc \in {"done", "error"} =>
    IF RefRaises THEN pc = "error"
    ELSE pc = "done" /\ Canon(out) = Canon(RefOut)

=============================================================================
