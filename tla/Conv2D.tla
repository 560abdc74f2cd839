------------------------------- MODULE Conv2D -------------------------------
(***************************************************************************)
(* conv_2d_str (op_dsl.py lines 516-558) and the program it emits, run    *)
(* with numpy's slicing and broadcasting.  Batch, input and output        *)
(* channels are 1: the code treats them elementwise and sums over c, so   *)
(* they add nothing to the window arithmetic the properties are about.    *)
(*                                                                         *)
(* An output element is a sum of products data * filter.  It is kept as   *)
(* the set of its non-zero terms <<<<r, c>>, <<a, b>>>>: input element     *)
(* (r, c) times filter element (a, b).  A product with a pad element is 0 *)
(* and left out; an element never written is the empty sum.               *)
(***************************************************************************)
EXTENDS Integers

CONSTANTS
  Sizes,       \* input extents h, w
  KSizes,      \* filter extents kh, kw
  StrideVals,  \* entries of stride[2:]: s_h, s_w
  DilVals,     \* entries of dilation[2:]: d_h, d_w
  PadVals      \* entries of pad_list: p_l, p_r, p_t, p_b

ASSUME ConstAssumption ==
  /\ Sizes \subseteq Nat \ {0} /\ KSizes \subseteq Nat \ {0}
  /\ StrideVals \subseteq Nat \ {0} /\ DilVals \subseteq Nat \ {0}
  /\ PadVals \subseteq Nat

VARIABLES
  node,  \* the shapes and attributes of the Conv2D node
  oh,    \* out_h of the program
  ow,    \* out_w
  out,   \* the output array, over (0 .. out_h - 1) \X (0 .. out_w - 1)
  i,     \* the loop counters of the program
  j,
  pc     \* "setup", "loop", "done" or "error"

vars == <<node, oh, ow, out, i, j, pc>>

(* Nodes whose dilated filter fits the padded input: valid convolutions. *)
Nodes ==
  {n \in [h : Sizes, w : Sizes, kh : KSizes, kw : KSizes, sh : StrideVals,
          sw : StrideVals, dh : DilVals, dw : DilVals, pl : PadVals,
          pr : PadVals, pt : PadVals, pb : PadVals] :
     /\ (n.kh - 1) * n.dh + 1 <= n.h + n.pt + n.pb
     /\ (n.kw - 1) * n.dw + 1 <= n.w + n.pl + n.pr}

(* Mutant of Padded: the row offset is taken from p_l, the column offset *)
(* from p_t.                                                              *)
PaddedSwapped(n, r, c) ==
  IF n.pl <= r /\ r < n.pl + n.h /\ n.pt <= c /\ c < n.pt + n.w
    THEN {<<r - n.pl, c - n.pt>>} ELSE {}

(* data_pad[r, c]: the input inside the frame data_pad[p_t:p_t+h,        *)
(* p_l:p_l+w] was assigned, 0 outside.  With has_pad FALSE every pad is  *)
(* 0 and data_pad is the input itself, the same array.                   *)
Padded(n, r, c) ==
  IF n.pt <= r /\ r < n.pt + n.h /\ n.pl <= c /\ c < n.pl + n.w
    THEN {<<r - n.pt, c - n.pl>>} ELSE {}

MinOf(a, b) == IF a < b THEN a ELSE b

(* Length of the slice [start : start + (k - 1) * d + 1 : d] of an axis of *)
(* extent len: k, unless the slice is cut at the end of the axis.         *)
SliceLen(start, k, d, len) ==
  IF start >= len THEN 0 ELSE MinOf(k, (len - 1 - start) \div d + 1)

(* numpy broadcasting of a window axis of length l against a filter axis *)
(* of length k: the common length, or -1 when they do not broadcast.      *)
Bcast(l, k) ==
  IF l = k \/ l = 1 THEN k ELSE IF k = 1 THEN l ELSE -1

(* out[:, i, j, f] = np.sum(window * filter[f], axis=(1, 2, 3)): the      *)
(* terms of the broadcast product; a window axis of length 1 is repeated *)
(* against every filter position.                                          *)
Terms(n, ii, jj) ==
  LET lh == SliceLen(ii * n.sh, n.kh, n.dh, n.h + n.pt + n.pb)
      lw == SliceLen(jj * n.sw, n.kw, n.dw, n.w + n.pl + n.pr)
      at(l, x) == IF l = 1 THEN 0 ELSE x
  IN UNION {{<<p, <<at(n.kh, a), at(n.kw, b)>>>> :
                p \in Padded(n, ii * n.sh + at(lh, a) * n.dh, jj * n.sw + at(lw, b) * n.dw)} :
              a \in 0 .. Bcast(lh, n.kh) - 1, b \in 0 .. Bcast(lw, n.kw) - 1}

Init ==
  /\ node \in Nodes
  /\ oh = 0 /\ ow = 0
  /\ out = [x \in {} |-> {}]
  /\ i = 0 /\ j = 0
  /\ pc = "setup"

(* The program's prologue: out_h and out_w from the padded extents and   *)
(* the filter extents, and out = np.zeros(out_shape).                    *)
Setup ==
  /\ pc = "setup"
  /\ oh' = (node.h + node.pt + node.pb - node.kh) \div node.sh + 1
  /\ ow' = (node.w + node.pl + node.pr - node.kw) \div node.sw + 1
  /\ out' = [x \in (0 .. oh' - 1) \X (0 .. ow' - 1) |-> {}]
  /\ pc' = "loop"
  /\ UNCHANGED <<node, i, j>>

(* One iteration of the loops over i and j (f ranges over one channel):  *)
(* the statement raises ValueError when the cut window does not          *)
(* broadcast against the filter.                                          *)
Cell ==
  /\ pc = "loop"
  /\ LET lh == SliceLen(i * node.sh, node.kh, node.dh, node.h + node.pt + node.pb)
         lw == SliceLen(j * node.sw, node.kw, node.dw, node.w + node.pl + node.pr)
     IN IF Bcast(lh, node.kh) < 0 \/ Bcast(lw, node.kw) < 0
          THEN pc' = "error" /\ UNCHANGED <<out, i, j>>
          ELSE /\ out' = [out EXCEPT ![<<i, j>>] = Terms(node, i, j)]
               /\ IF j + 1 < ow
                    THEN j' = j + 1 /\ i' = i /\ pc' = "loop"
                    ELSE /\ j' = 0 /\ i' = i + 1
                         /\ pc' = IF i + 1 < oh THEN "loop" ELSE "done"
  /\ UNCHANGED <<node, oh, ow>>

Next == Setup \/ Cell

Spec == Init /\ [][Next]_vars /\ WF_vars(Next)

-----------------------------------------------------------------------------

(* The spec's convolution (4.6): a window of kh x kw taps d_h, d_w apart, *)
(* (h + p_t + p_b - ((kh - 1) * d_h + 1)) // s_h + 1 output rows.         *)
RefOH(n) == (n.h + n.pt + n.pb - ((n.kh - 1) * n.dh + 1)) \div n.sh + 1
RefOW(n) == (n.w + n.pl + n.pr - ((n.kw - 1) * n.dw + 1)) \div n.sw + 1

(* The input element at position (r, c) of the padded input, if any: the *)
(* frame is p_t rows above, p_l columns left of the input.               *)
RefInput(n, r, c) ==
  {p \in (0 .. n.h - 1) \X (0 .. n.w - 1) : p[1] + n.pt = r /\ p[2] + n.pl = c}

RefCell(n, ii, jj) ==
  {t \in ((0 .. n.h - 1) \X (0 .. n.w - 1)) \X ((0 .. n.kh - 1) \X (0 .. n.kw - 1)) :
     t[1] \in RefInput(n, ii * n.sh + t[2][1] * n.dh, jj * n.sw + t[2][2] * n.dw)}

(* Conv2D computes the spec's dilated convolution (spec 4.6: "written    *)
(* generically over spatial stride and dilation"): the generated program *)
(* finishes without raising, with the spec's output extents, and every   *)
(* output element is the sum over the kh x kw taps of its window.        *)
ConvMatchesSpec ==
  pc \in {"done", "error"} =>
    /\ pc = "done"
    /\ oh = RefOH(node) /\ ow = RefOW(node)
    /\ \A x \in DOMAIN out : out[x] = RefCell(node, x[1], x[2])

=============================================================================
