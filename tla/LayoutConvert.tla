---------------------------- MODULE LayoutConvert ----------------------------
(***************************************************************************)
(* The layout converter of op_dsl.py: get_trans_data_str (lines 313-333),  *)
(* which checks the (src_format, dst_format) pair and dispatches to        *)
(* trans_data_two2fractal (lines 254-290) or trans_data_fractal2two        *)
(* (lines 293-310), as trans_data_dsl (lines 336-343) calls it with the    *)
(* node's output shape as ori_shape.                                       *)
(*                                                                         *)
(* A tensor is a record [shape, val]: shape is a sequence of extents and   *)
(* val maps every index tuple of the shape to the element stored there.    *)
(* The converters only move elements and fill zeros, so the elements of    *)
(* the original dense tensor are labelled by their own index tuples and a  *)
(* pad element is 0.                                                       *)
(*                                                                         *)
(* A behaviour is a chain of up to MaxConversions TransData nodes applied  *)
(* to one dense input X0, each with any pair of formats of Formats.        *)
(***************************************************************************)
EXTENDS Integers, Sequences

CONSTANTS
  Tile,            \* the tile edge, 16 in the code
  Shapes,          \* the shapes the dense input may have
  Formats,         \* format names a node may carry
  MaxConversions   \* bound on the chain of TransData nodes

ASSUME TileAssumption == Tile \in Nat \ {0}

ASSUME ShapesAssumption == Shapes \subseteq Seq(Nat \ {0}) /\ Shapes # {}

ASSUME MaxConversionsAssumption == MaxConversions \in Nat

Dense == {"DefaultFormat", "NCHW"}

VARIABLES
  X0,     \* the dense input of the chain
  t,      \* the tensor the last node produced
  fmt,    \* its format
  hist,   \* the formats it went through, X0's first
  pc      \* "run" or "error" (a ValueError or IndexError was raised)

vars == <<X0, t, fmt, hist, pc>>

(* The index tuples of a shape: the domain of a numpy array of it. *)
RECURSIVE Idx(_)
Idx(s) == IF s = <<>> THEN {<<>>}
          ELSE {<<x>> \o r : x \in 0 .. s[1] - 1, r \in Idx(Tail(s))}

DenseTensor(s) == [shape |-> s, val |-> [u \in Idx(s) |-> u]]

MinOf(a, b) == IF a < b THEN a ELSE b

PadUp(m) == ((m + Tile - 1) \div Tile) * Tile

(* support_formats of get_trans_data_str. *)
Supported ==
  {<<"DefaultFormat", "FRACTAL_NZ">>, <<"NCHW", "FRACTAL_NZ">>,
   <<"FRACTAL_NZ", "DefaultFormat">>, <<"FRACTAL_NZ", "NCHW">>}

(* Mutant of TwoToFractal: the transpose yields (n1, m0, m1, n0), the row *)
(* tile axes in the wrong order.                                           *)
TwoToFractalAxesSwapped(x) ==
  LET s == x.shape
      r == Len(s)
      B == SubSeq(s, 1, r - 2)
      m == s[r - 1]
      n == s[r]
      needPad == m % Tile # 0 \/ n % Tile # 0
      pm == IF needPad THEN PadUp(m) ELSE m
      pn == IF needPad THEN PadUp(n) ELSE n
      copied == ~needPad \/ r \in {2, 3, 4}
      padded(b, p, q) == IF copied /\ p < m /\ q < n THEN x.val[b \o <<p, q>>] ELSE 0
      os == B \o <<pn \div Tile, Tile, pm \div Tile, Tile>>
  IN [shape |-> os,
      val |-> [u \in Idx(os) |->
                 padded(SubSeq(u, 1, r - 2),
                        u[r + 1] * Tile + u[r], u[r - 1] * Tile + u[r + 2])]]

(* trans_data_two2fractal: pad the last two axes up to multiples of Tile  *)
(* (copying the input only for ranks 2, 3 and 4), reshape them to         *)
(* (m1, m0, n1, n0) and transpose them to (n1, m1, m0, n0).  Defined for   *)
(* ranks >= 2: shape[-2] raises IndexError below.                          *)
TwoToFractal(x) ==
  LET s == x.shape
      r == Len(s)
      B == SubSeq(s, 1, r - 2)
      m == s[r - 1]
      n == s[r]
      needPad == m % Tile # 0 \/ n % Tile # 0
      pm == IF needPad THEN PadUp(m) ELSE m
      pn == IF needPad THEN PadUp(n) ELSE n
      copied == ~needPad \/ r \in {2, 3, 4}
      padded(b, p, q) == IF copied /\ p < m /\ q < n THEN x.val[b \o <<p, q>>] ELSE 0
      os == B \o <<pn \div Tile, pm \div Tile, Tile, Tile>>
  IN [shape |-> os,
      val |-> [u \in Idx(os) |->
                 padded(SubSeq(u, 1, r - 2),
                        u[r] * Tile + u[r + 1], u[r - 1] * Tile + u[r + 2])]]

(* trans_data_fractal2two, first part: transpose (n1, m1, m0, n0) to      *)
(* (m1, m0, n1, n0) and reshape to (m1 * m0, n1 * n0).                     *)
FractalToDense(y) ==
  LET s == y.shape
      r == Len(s)
      B == SubSeq(s, 1, r - 4)
      n1 == s[r - 3]
      m1 == s[r - 2]
      m0 == s[r - 1]
      n0 == s[r]
      ns == B \o <<m1 * m0, n1 * n0>>
  IN [shape |-> ns,
      val |-> [u \in Idx(ns) |->
                 LET p == u[r - 3]
                     q == u[r - 2]
                 IN y.val[SubSeq(u, 1, r - 4) \o
                          <<q \div n0, p \div m0, p % m0, q % n0>>]]]

(* The crop of trans_data_fractal2two for an original shape o of rank 2,  *)
(* 3 or 4, as the code writes it:                                           *)
(*   rank 2: bench_mark[:o[0], :o[1]]                                       *)
(*   rank 3: bench_mark[:, o[0], :o[1]]                                     *)
(*   rank 4: bench_mark[:, :, o[0], :o[1]]                                  *)
(* A slice bound past the extent is clamped by numpy; the integer index   *)
(* of ranks 3 and 4 drops its axis and raises IndexError past the extent. *)
CropOK(z, o) ==
  Len(o) \in {3, 4} => o[1] < z.shape[Len(o) - 1]

Crop(z, o) ==
  LET s == z.shape
  IN CASE Len(o) = 2 ->
            LET cs == <<MinOf(o[1], s[1]), MinOf(o[2], s[2])>>
            IN [shape |-> cs, val |-> [u \in Idx(cs) |-> z.val[u]]]
       [] Len(o) = 3 ->
            LET cs == <<s[1], MinOf(o[2], s[3])>>
            IN [shape |-> cs, val |-> [u \in Idx(cs) |-> z.val[<<u[1], o[1], u[2]>>]]]
       [] Len(o) = 4 ->
            LET cs == <<s[1], s[2], MinOf(o[2], s[4])>>
            IN [shape |-> cs,
                val |-> [u \in Idx(cs) |-> z.val[<<u[1], u[2], o[1], u[3]>>]]]
       [] OTHER -> z

Init ==
  /\ X0 \in {DenseTensor(s) : s \in Shapes}
  /\ t = X0
  /\ fmt = "DefaultFormat"
  /\ hist = <<"DefaultFormat">>
  /\ pc = "run"

(* A TransData node from the current format to dst, with ori_shape the   *)
(* dense input's shape: get_trans_data_str raises ValueError for a pair   *)
(* outside support_formats, then runs the converter the pair selects.     *)
TransData(dst) ==
  /\ pc = "run"
  /\ Len(hist) <= MaxConversions
  /\ hist' = Append(hist, dst)
  /\ fmt' = dst
  /\ CASE <<fmt, dst>> \notin Supported ->
            pc' = "error" /\ t' = t
       [] fmt \in Dense ->
            IF Len(t.shape) >= 2
              THEN t' = TwoToFractal(t) /\ pc' = "run"
              ELSE t' = t /\ pc' = "error"
       [] OTHER ->
            LET z == FractalToDense(t)
                o == X0.shape
            IN IF z.shape = o
                 THEN t' = z /\ pc' = "run"
                 ELSE IF CropOK(z, o)
                        THEN t' = Crop(z, o) /\ pc' = "run"
                        ELSE t' = t /\ pc' = "error"
  /\ UNCHANGED X0

Next == \E dst \in Formats : TransData(dst)

Spec == Init /\ [][Next]_vars

-----------------------------------------------------------------------------

(* The FRACTAL_NZ layout of a dense tensor x as spec 4.3 describes it:   *)
(* rows m and columns n padded with zeros up to whole tiles, element     *)
(* (n1, m1, m0, n0) of the tiled axes holding row m1 * 16 + m0 and column *)
(* n1 * 16 + n0, the batch axes kept in front.                             *)
SpecNZ(x) ==
  LET r == Len(x.shape)
      m == x.shape[r - 1]
      n == x.shape[r]
      tiles(e) == (e + Tile - 1) \div Tile
      os == SubSeq(x.shape, 1, r - 2) \o <<tiles(n), tiles(m), Tile, Tile>>
  IN [shape |-> os,
      val |-> [u \in Idx(os) |->
                 LET row == u[r] * Tile + u[r + 1]
                     col == u[r - 1] * Tile + u[r + 2]
                 IN IF row < m /\ col < n
                      THEN x.val[SubSeq(u, 1, r - 2) \o <<row, col>>] ELSE 0]]

(* Whatever chain of TransData nodes has run, supported pairs or not,    *)
(* while no node has raised the tensor is the dense input in the layout  *)
(* its format names: X0 itself in a dense format, SpecNZ(X0) in          *)
(* FRACTAL_NZ, and no other format is ever reached.  A wrong transpose   *)
(* in trans_data_two2fractal, a crop that keeps padding, or a pair that  *)
(* get_trans_data_str lets through without a converter breaks it.        *)
LayoutMatchesFormat ==
  pc = "run" =>
    \/ fmt \in Dense /\ t = X0
    \/ fmt = "FRACTAL_NZ" /\ t = SpecNZ(X0)

=============================================================================
