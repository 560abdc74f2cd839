-------------------------- MODULE GatherExactProofs --------------------------
(***************************************************************************)
(* Proof that gather_nd_np copies exactly the addressed data for an        *)
(* in-bounds index tuple when the tuple has one coordinate or as many as  *)
(* the data has axes.  For 1 < K < Rank the division inside the k loop    *)
(* (op_dsl.py line 57) reads the wrong row: the gather_nd_tail run.       *)
(***************************************************************************)
EXTENDS GatherNdProofs

(* The element offset of row w of data.reshape(-1, R): w * out.shape[1]. *)
Flat == w * RowLen(K)

(* The tuple lengths for which the division inside the loop is harmless. *)
ExactK == K = 1 \/ K = Rank

(* Inside the k loop, every stride read so far is a multiple of the last: *)
(* C order, unrolled one axis per step.                                   *)
StrideChain ==
  pc = "coord" /\ k >= 1 => \A q \in 0 .. k - 1 : Strides[q] % Strides[k - 1] = 0

(* Inside the k loop of an in-bounds prefix, Flat is the offset of an     *)
(* element whose first k coordinates are the ones read, aligned to the    *)
(* stride of the last axis read.                                           *)
Acc ==
  pc = "coord" /\ inbound =>
    /\ w \in Nat
    /\ k = 0 => w = 0
    /\ k >= 1 =>
         /\ Flat % Strides[k - 1] = 0
         /\ Flat < Total
         /\ \A q \in 0 .. k - 1 : (Flat \div Strides[q]) % DataShape[q] = idx[i][q]

(* The strengthening of GatherInBoundsExact. *)
EInv ==
  /\ IInv
  /\ StrideChain
  /\ ExactK => Acc /\ GatherInBoundsExact

-----------------------------------------------------------------------------
(* Division facts.  Each is about integers only and is proved once.      *)

(* Quotient and remainder are the unique q, r with y = b * q + r,       *)
(* 0 <= r < b.                                                             *)
LEMMA DivUnique ==
  ASSUME NEW y \in Int, NEW b \in Nat \ {0}, NEW d \in Int, NEW r \in 0 .. b - 1,
         y = b * d + r
  PROVE  y \div b = d /\ y % b = r
  BY SMT

(* A multiple of a times anything is a multiple of a. *)
LEMMA MultMod ==
  ASSUME NEW a \in Nat \ {0}, NEW u \in Int
  PROVE  (a * u) % a = 0 /\ (a * u) \div a = u
  BY DivUnique

(* Divisibility is transitive. *)
LEMMA ModTrans ==
  ASSUME NEW a \in Nat \ {0}, NEW b \in Nat \ {0}, NEW c \in Nat,
         c % b = 0, b % a = 0
  PROVE  c % a = 0
  <1>1. c = b * (c \div b) /\ b = a * (b \div a)
    BY SMT
  <1>2. c = a * ((b \div a) * (c \div b))
    BY <1>1, SMT
  <1> QED
    BY <1>2, MultMod, SMT

(* Adding less than a to a multiple of a does not change its quotient by *)
(* a multiple b of a.                                                     *)
LEMMA DivAddSmall ==
  ASSUME NEW a \in Nat \ {0}, NEW b \in Nat \ {0}, b % a = 0,
         NEW x \in Nat, x % a = 0, NEW e \in 0 .. a - 1
  PROVE  (x + e) \div b = x \div b
  <1> DEFINE v == b \div a
             u == x \div a
             d == u \div v
  <1>1. b = a * v /\ v \in Nat \ {0}
    BY SMT DEF v
  <1>2. x = a * u /\ u \in Nat
    BY SMT DEF u
  <1>3. u = v * d + (u % v) /\ u % v \in 0 .. v - 1 /\ d \in Nat
    BY <1>1, <1>2, SMT DEF d
  <1>4. x = b * d + a * (u % v)
    BY <1>1, <1>2, <1>3, SMT
  <1>5. a * (u % v) + e \in 0 .. b - 1
    <2>1. u % v <= v - 1
      BY <1>3
    <2>2. a * (u % v) <= a * (v - 1)
      BY <1>1, <1>3, <2>1, SMT
    <2> QED
      BY <1>1, <2>2, SMT
  <1>6. a * (u % v) \in 0 .. b - 1
    BY <1>5
  <1>7. x + e = b * d + (a * (u % v) + e)
    BY <1>4
  <1> DEFINE r == a * (u % v) + e
  <1>8. (x + e) \div b = d
    <2>1. x + e \in Int /\ d \in Int /\ r \in 0 .. b - 1 /\ x + e = b * d + r
      BY <1>3, <1>5, <1>7 DEF r
    <2> QED
      BY <2>1, SMT
  <1>9. x \div b = d
    BY <1>1, <1>3, <1>4, <1>6, SMT
  <1> QED
    BY <1>8, <1>9

(* Of two multiples of a, the smaller is at least a below the larger. *)
LEMMA MultGap ==
  ASSUME NEW a \in Nat \ {0}, NEW x \in Nat, NEW y \in Nat,
         x % a = 0, y % a = 0, x < y
  PROVE  x + a <= y
  <1>1. x = a * (x \div a) /\ y = a * (y \div a)
    BY SMT
  <1>2. x \div a < y \div a
    BY <1>1, SMT
  <1>3. a * (x \div a) + a <= a * (y \div a)
    BY <1>2, SMT
  <1> QED
    BY <1>1, <1>3

(* Adding a multiple of s to a multiple of s gives a multiple of s. *)
LEMMA AlignAdd ==
  ASSUME NEW s \in Nat \ {0}, NEW F \in Nat, NEW t \in Nat, F % s = 0
  PROVE  (F + t * s) % s = 0
  <1>1. F + t * s = s * (F \div s + t) /\ F \div s + t \in Int
    BY SMT
  <1> QED
    BY <1>1, MultMod

(* A coordinate t < dk of the new axis moves the offset by less than    *)
(* dk * s.                                                                  *)
LEMMA StepBound ==
  ASSUME NEW s \in Nat \ {0}, NEW dk \in Nat \ {0}, NEW t \in 0 .. dk - 1
  PROVE  t * s \in 0 .. dk * s - 1
  <1>1. t * s <= (dk - 1) * s
    BY SMT
  <1> QED
    BY <1>1, SMT

(* One more axis: adding t * s, t < dk, to a multiple F of dk * s gives  *)
(* an offset whose digit on the new axis is t.                            *)
LEMMA StepDigit ==
  ASSUME NEW s \in Nat \ {0}, NEW dk \in Nat \ {0}, NEW F \in Nat,
         NEW t \in 0 .. dk - 1, F % (dk * s) = 0
  PROVE  ((F + t * s) \div s) % dk = t
  <1> DEFINE m == F \div (dk * s)
  <1>1. F = (dk * s) * m /\ m \in Nat
    BY SMT DEF m
  <1>2. F + t * s = s * (dk * m + t) /\ dk * m + t \in Int
    BY <1>1, SMT
  <1>3. (s * (dk * m + t)) \div s = dk * m + t
    BY <1>2, MultMod
  <1>4. (dk * m + t) % dk = t
    <2>1. dk * m + t \in Int /\ m \in Int /\ t \in 0 .. dk - 1
          /\ dk * m + t = dk * m + t
      BY <1>1
    <2> QED
      BY <2>1, DivUnique
  <1> QED
    BY <1>2, <1>3, <1>4

-----------------------------------------------------------------------------
(* Facts about the shape constants. *)

(* The first axis: out.shape[1] for one coordinate is strides[0]; the    *)
(* data has Total = shape[0] * strides[0] elements.                       *)
LEMMA FirstAxis ==
  /\ RowLen(1) = Strides[0]
  /\ Strides[0] \in Nat \ {0} /\ DataShape[0] \in Nat \ {0}
  /\ Total = DataShape[0] * Strides[0]
  /\ NumRows(1) = DataShape[0]
  /\ RowLen(Rank) = 1 /\ NumRows(Rank) = Total
  <1>1. 0 \in Axes
    BY RankAssumption DEF Axes
  <1>2. Strides[0] \in Nat \ {0} /\ DataShape[0] \in Nat \ {0}
    BY <1>1, ShapeAssumption, StridesAssumption
  <1>3. RowLen(1) = Strides[0]
    <2>1. CASE Rank = 1
      BY <2>1, StridesAssumption DEF RowLen
    <2>2. CASE Rank # 1
      <3>1. 0 \in 0 .. Rank - 2 /\ 1 \in Axes
        BY <2>2, RankAssumption DEF Axes
      <3> QED
        BY <2>2, <3>1, StridesAssumption DEF RowLen
    <2> QED
      BY <2>1, <2>2
  <1>4. NumRows(1) = DataShape[0]
    <2>1. (Strides[0] * DataShape[0]) \div Strides[0] = DataShape[0]
      BY <1>2, MultMod
    <2>2. Total = Strides[0] * DataShape[0]
      BY <1>2 DEF Total
    <2> QED
      BY <1>3, <2>1, <2>2 DEF NumRows
  <1>5. NumRows(Rank) = Total
    <2>1. Total \in Int
      BY <1>2 DEF Total
    <2> QED
      BY <2>1 DEF NumRows, RowLen
  <1> QED
    BY <1>2, <1>3, <1>4, <1>5 DEF Total, RowLen

-----------------------------------------------------------------------------

(* A step that leaves K, the indices and the output alone, and writes    *)
(* no element that was not already written, keeps every written          *)
(* in-bounds element exact.                                               *)
LEMMA ExactFrame ==
  ASSUME GatherInBoundsExact, K' = K, idx' = idx, out' = out,
         \A r \in Rows, c \in 0 .. RowLen(K) - 1 : Written(r, c)' => Written(r, c)
  PROVE  GatherInBoundsExact'
  <1> SUFFICES ASSUME NEW r \in Rows, NEW c \in 0 .. RowLen(K) - 1,
                      Written(r, c)', InBounds(idx[r], K)
               PROVE  \E x \in 0 .. NumRows(K) - 1 :
                        Addresses(x, idx[r], K) /\ out[r][c] = DataLabel(x, c, K)
    BY DEF GatherInBoundsExact
  <1> QED
    BY DEF GatherInBoundsExact

(* One iteration of "for k" extends the stride chain by strides[k]:     *)
(* strides[k - 1] = data_shape[k] * strides[k] in C order.                 *)
LEMMA CoordChain ==
  ASSUME TypeInv, StrideChain, CoordStep
  PROVE  StrideChain'
  <1>1. pc' = "coord" /\ k' = k + 1 /\ pc = "coord" /\ k \in 0 .. K - 1 /\ K \in KRange
    BY RankAssumption DEF CoordStep, TypeInv, TypeOK, KRange
  <1>2. k \in Axes /\ Strides[k] \in Nat \ {0}
    BY <1>1, RankAssumption, StridesAssumption DEF KRange, Axes
  <1> SUFFICES ASSUME NEW q \in 0 .. k PROVE Strides[q] % Strides[k] = 0
    BY <1>1 DEF StrideChain
  <1>3. q \in Axes /\ Strides[q] \in Nat \ {0}
    BY <1>2, RankAssumption, StridesAssumption DEF Axes
  <1>4. CASE q = k
    <2>1. (Strides[k] * 1) % Strides[k] = 0
      BY <1>2, MultMod
    <2> QED
      BY <1>2, <1>4, <2>1, SMT
  <1>5. CASE q < k
    <2>1. k >= 1 /\ k - 1 \in 0 .. Rank - 2 /\ k - 1 \in Axes /\ q \in 0 .. k - 1
      BY <1>1, <1>2, <1>5, RankAssumption DEF KRange, Axes
    <2>2. Strides[k - 1] = DataShape[k] * Strides[k] /\ DataShape[k] \in Nat \ {0}
      <3>1. Strides[k - 1] = DataShape[(k - 1) + 1] * Strides[(k - 1) + 1]
        BY <2>1, StridesAssumption
      <3>2. (k - 1) + 1 = k
        BY <1>2, RankAssumption DEF Axes
      <3> QED
        BY <3>1, <3>2, <1>2, ShapeAssumption
    <2>3. Strides[q] % Strides[k - 1] = 0
      BY <1>1, <2>1 DEF StrideChain
    <2>4. (Strides[k] * DataShape[k]) % Strides[k] = 0
      BY <1>2, <2>2, MultMod
    <2>5. Strides[k - 1] % Strides[k] = 0 /\ Strides[k - 1] \in Nat \ {0}
      BY <1>2, <2>1, <2>2, <2>4, StridesAssumption, SMT
    <2> QED
      BY <1>2, <1>3, <2>3, <2>5, ModTrans
  <1> QED
    BY <1>4, <1>5, <1>2, RankAssumption, SMT DEF Axes

(* One iteration of "for k" on an in-bounds prefix, for K = 1 or K =    *)
(* Rank, adds temp_idx * strides[k] to the offset and the division by     *)
(* out.shape[1] loses nothing: the new offset has the coordinates read so *)
(* far, is aligned to strides[k] and stays inside the data.               *)
LEMMA CoordAcc ==
  ASSUME TypeInv, StrideChain, Acc, ExactK, CoordStep
  PROVE  Acc'
  <1>1. /\ pc = "coord" /\ k \in 0 .. K - 1 /\ K \in KRange /\ i \in Rows
        /\ pc' = "coord" /\ k' = k + 1 /\ K' = K /\ idx' = idx /\ i' = i
        /\ inbound' = (inbound /\ InAxis(idx[i][k], k))
        /\ w' = TruncDiv(w + idx[i][k] * Strides[k], RowLen(K))
        /\ idx[i][k] \in Int
    <2>1. pc = "coord" /\ k < K /\ k' = k + 1 /\ K' = K /\ idx' = idx /\ i' = i /\ pc' = pc
          /\ inbound' = (inbound /\ InAxis(idx[i][k], k))
          /\ w' = TruncDiv(w + idx[i][k] * Strides[k], RowLen(K))
      BY DEF CoordStep
    <2>2. K \in KRange /\ k \in 0 .. K /\ i \in 0 .. N /\ i < N
          /\ idx \in [Rows -> [0 .. K - 1 -> IdxVals]]
      BY <2>1 DEF TypeInv, TypeOK
    <2>3. k \in 0 .. K - 1 /\ i \in Rows
      BY <2>1, <2>2, RankAssumption, NAssumption DEF KRange, Rows
    <2>4. idx[i][k] \in Int
      BY <2>2, <2>3, IdxValsAssumption
    <2> QED
      BY <2>1, <2>2, <2>3, <2>4
  <1>2. k \in Axes /\ Strides[k] \in Nat \ {0} /\ DataShape[k] \in Nat \ {0}
    BY <1>1, RankAssumption, StridesAssumption, ShapeAssumption DEF KRange, Axes
  <1> SUFFICES ASSUME inbound'
               PROVE  /\ w' \in Nat
                      /\ Flat' % Strides[k] = 0
                      /\ Flat' < Total
                      /\ \A q \in 0 .. k : (Flat' \div Strides[q]) % DataShape[q] = idx[i][q]
    BY <1>1, <1>2, RankAssumption DEF Acc, Axes
  <1>3. inbound /\ idx[i][k] \in 0 .. DataShape[k] - 1 /\ idx[i][k] \in Nat
    <2>1. inbound /\ InAxis(idx[i][k], k)
      BY <1>1, Zenon
    <2> QED
      BY <1>1, <1>2, <2>1, SMT DEF InAxis
  <1>4. /\ w \in Nat
        /\ k = 0 => w = 0
        /\ k >= 1 => /\ Flat % Strides[k - 1] = 0
                     /\ Flat < Total
                     /\ \A q \in 0 .. k - 1 :
                          (Flat \div Strides[q]) % DataShape[q] = idx[i][q]
    BY <1>1, <1>3 DEF Acc
  <1>5. Strides[0] \in Nat \ {0} /\ DataShape[0] \in Nat \ {0}
    BY FirstAxis
  <1>9. Total = DataShape[0] * Strides[0]
    BY FirstAxis
  <1>6. CASE k = 0
    <2>1. Flat' = idx[i][k] * Strides[0] /\ w' \in Nat
      <3>1. CASE K = Rank
        <4>1. RowLen(K) = 1
          BY <3>1, FirstAxis
        <4>2. w' = idx[i][k] * Strides[0]
          BY <1>1, <1>3, <1>4, <1>5, <1>6, <4>1, SMT DEF TruncDiv
        <4> QED
          BY <1>1, <1>3, <1>5, <4>1, <4>2, SMT DEF Flat
      <3>2. CASE K = 1
        <4>1. RowLen(K) = Strides[0]
          BY <3>2, FirstAxis
        <4>2. (Strides[0] * idx[i][k]) \div Strides[0] = idx[i][k]
          BY <1>3, <1>5, MultMod
        <4>3. w' = idx[i][k]
          BY <1>1, <1>3, <1>4, <1>5, <1>6, <4>1, <4>2, SMT DEF TruncDiv
        <4> QED
          BY <1>1, <1>3, <4>1, <4>3, SMT DEF Flat
      <3> QED
        BY <3>1, <3>2 DEF ExactK
    <2>2. (Strides[0] * idx[i][k]) % Strides[0] = 0 /\ (Strides[0] * idx[i][k]) \div Strides[0] = idx[i][k]
      BY <1>3, <1>5, <1>6, MultMod
    <2>3. idx[i][k] % DataShape[0] = idx[i][k]
      <3>1. idx[i][k] \in 0 .. DataShape[0] - 1 /\ idx[i][k] = DataShape[0] * 0 + idx[i][k] /\ 0 \in Int
        BY <1>3, <1>5, <1>6, SMT
      <3> QED
        BY <1>5, <3>1, DivUnique
    <2>4. idx[i][k] * Strides[0] < Total
      <3>1. idx[i][k] * Strides[0] <= (DataShape[0] - 1) * Strides[0]
        BY <1>3, <1>5, <1>6, SMT
      <3>2. (DataShape[0] - 1) * Strides[0] = DataShape[0] * Strides[0] - Strides[0]
        BY <1>5, SMT
      <3>3. idx[i][k] * Strides[0] < DataShape[0] * Strides[0]
        BY <1>3, <1>5, <3>1, <3>2, SMT
      <3> QED
        BY <3>3, <1>9
    <2>5. Flat' < Total
      BY <2>1, <2>4
    <2>6. Flat' % Strides[0] = 0 /\ (Flat' \div Strides[0]) % DataShape[0] = idx[i][k]
      BY <1>3, <1>5, <2>1, <2>2, <2>3, SMT
    <2> QED
      BY <1>6, <2>1, <2>5, <2>6
  <1>7. CASE k >= 1
    <2>1. K = Rank /\ RowLen(K) = 1
      BY <1>1, <1>7, FirstAxis, RankAssumption DEF ExactK, KRange
    <2>2. w' = w + idx[i][k] * Strides[k] /\ Flat = w /\ Flat' = w'
      <3>1. w + idx[i][k] * Strides[k] \in Nat
        BY <1>2, <1>3, <1>4, SMT
      <3>2. w' = w + idx[i][k] * Strides[k]
        BY <1>1, <2>1, <3>1, SMT DEF TruncDiv
      <3> QED
        BY <1>1, <1>4, <2>1, <3>1, <3>2, SMT DEF Flat
    <2>3. /\ k - 1 \in Axes /\ Strides[k - 1] \in Nat \ {0}
          /\ Strides[k - 1] = DataShape[k] * Strides[k]
      <3>1. k - 1 \in 0 .. Rank - 2 /\ k - 1 \in Axes
        BY <1>1, <1>2, <1>7, RankAssumption DEF KRange, Axes
      <3>2. Strides[k - 1] = DataShape[(k - 1) + 1] * Strides[(k - 1) + 1]
        BY <3>1, StridesAssumption
      <3>3. (k - 1) + 1 = k
        BY <1>2, RankAssumption DEF Axes
      <3> QED
        BY <3>1, <3>2, <3>3, StridesAssumption
    <2>4. /\ idx[i][k] * Strides[k] \in 0 .. Strides[k - 1] - 1
          /\ (w + idx[i][k] * Strides[k]) % Strides[k] = 0
          /\ ((w + idx[i][k] * Strides[k]) \div Strides[k]) % DataShape[k] = idx[i][k]
      <3>1. w % (DataShape[k] * Strides[k]) = 0
        BY <1>4, <1>7, <2>2, <2>3
      <3>2. /\ Strides[k] \in Nat \ {0} /\ DataShape[k] \in Nat \ {0}
            /\ w \in Nat /\ idx[i][k] \in 0 .. DataShape[k] - 1
        BY <1>2, <1>3, <1>4
      <3>3. idx[i][k] * Strides[k] \in 0 .. DataShape[k] * Strides[k] - 1
        BY <3>2, StepBound
      <3>4. ((w + idx[i][k] * Strides[k]) \div Strides[k]) % DataShape[k] = idx[i][k]
        BY <3>1, <3>2, StepDigit
      <3>5. w % Strides[k] = 0
        <4>1. (Strides[k] * DataShape[k]) % Strides[k] = 0
          BY <1>2, MultMod
        <4>2. Strides[k - 1] % Strides[k] = 0
          BY <1>2, <2>3, <4>1, SMT
        <4> QED
          BY <1>2, <1>4, <2>3, <3>1, <4>2, ModTrans DEF Acc
      <3>6. (w + idx[i][k] * Strides[k]) % Strides[k] = 0
        BY <1>3, <3>2, <3>5, AlignAdd
      <3> QED
        BY <2>3, <3>3, <3>4, <3>6
    <2>5. w + Strides[k - 1] <= Total
      <3>1. 0 \in 0 .. k - 1
        BY <1>7, <1>2 DEF Axes
      <3>2. Strides[0] % Strides[k - 1] = 0
        BY <1>1, <1>7, <3>1 DEF StrideChain
      <3>3. (Strides[0] * DataShape[0]) % Strides[0] = 0
        BY <1>5, MultMod
      <3>4. Total \in Nat /\ Total % Strides[0] = 0
        <4>1. Strides[0] * DataShape[0] \in Nat
          BY <1>5, SMT
        <4>2. Total = Strides[0] * DataShape[0]
          <5>1. DataShape[0] * Strides[0] = Strides[0] * DataShape[0]
            BY <1>5, SMT
          <5> QED
            BY <1>9, <5>1
        <4> QED
          BY <3>3, <4>1, <4>2
      <3>5. Total % Strides[k - 1] = 0
        BY <1>5, <2>3, <3>2, <3>4, ModTrans
      <3>6. w % Strides[k - 1] = 0 /\ w < Total
        BY <1>4, <1>7, <2>2
      <3> QED
        BY <1>4, <2>3, <3>4, <3>5, <3>6, MultGap
    <2>6. ASSUME NEW q \in 0 .. k - 1
          PROVE  ((w + idx[i][k] * Strides[k]) \div Strides[q]) % DataShape[q] = idx[i][q]
      <3>1. q \in Axes /\ Strides[q] \in Nat \ {0} /\ Strides[q] % Strides[k - 1] = 0
        BY <1>1, <1>2, <1>7, RankAssumption, StridesAssumption DEF StrideChain, Axes
      <3>2. (w + idx[i][k] * Strides[k]) \div Strides[q] = w \div Strides[q]
        <4>1. /\ Strides[k - 1] \in Nat \ {0} /\ Strides[q] \in Nat \ {0}
              /\ Strides[q] % Strides[k - 1] = 0
              /\ w \in Nat /\ w % Strides[k - 1] = 0
              /\ idx[i][k] * Strides[k] \in 0 .. Strides[k - 1] - 1
          BY <1>4, <1>7, <2>2, <2>3, <2>4, <3>1
        <4> QED
          BY <4>1, DivAddSmall
      <3> QED
        BY <1>4, <1>7, <2>2, <3>2
    <2> QED
      <3>1. w' \in Nat /\ Flat' % Strides[k] = 0
        BY <1>1, <1>4, <2>1, <2>2, <2>3, <2>4, SMT
      <3>3. Flat' < Total
        <4>1. idx[i][k] * Strides[k] \in 0 .. Strides[k - 1] - 1
          BY <2>4
        <4>2. Flat' = w + idx[i][k] * Strides[k]
          BY <2>2
        <4>3. Total \in Nat
          BY FirstAxis, SMT
        <4> QED
          BY <1>4, <2>3, <2>5, <4>1, <4>2, <4>3, SMT
      <3>2. \A q \in 0 .. k : (Flat' \div Strides[q]) % DataShape[q] = idx[i][q]
        BY <1>2, <2>2, <2>4, <2>6 DEF Axes
      <3> QED
        BY <3>1, <3>2, <3>3
  <1> QED
    BY <1>6, <1>7, <1>2, RankAssumption DEF Axes

(* After the k loop, for K = 1 or K = Rank, an in-bounds tuple's        *)
(* index_write is a valid row of new_data, so no IndexError is raised,   *)
(* and out[i, j] gets the element the tuple addresses; an out-of-bounds  *)
(* tuple writes nothing.                                                  *)
LEMMA WriteExact ==
  ASSUME IInv, Acc, ExactK, GatherInBoundsExact, Write
  PROVE  GatherInBoundsExact'
  <1>1. /\ pc = "coord" /\ k = K /\ j' = j + 1 /\ K' = K /\ idx' = idx /\ i' = i
        /\ w' = w /\ inbound' = inbound
        /\ K \in KRange /\ i \in Rows /\ j \in 0 .. RowLen(K) - 1
        /\ out \in [Rows -> [0 .. RowLen(K) - 1 -> Nat]]
        /\ pc' \in {"row", "error"}
    <2>1. pc = "coord" /\ k = K /\ j' = j + 1 /\ K' = K /\ idx' = idx /\ i' = i
          /\ w' = w /\ inbound' = inbound /\ pc' \in {"row", "error"}
      BY DEF Write
    <2>2. K \in KRange /\ i \in 0 .. N /\ i < N /\ j \in 0 .. RowLen(K) /\ j < RowLen(K)
          /\ out \in [Rows -> [0 .. RowLen(K) - 1 -> Nat]]
      BY <2>1 DEF IInv, TypeInv, TypeOK
    <2>3. RowLen(K) \in Nat \ {0}
      BY <2>2, RowLenType
    <2> QED
      BY <2>1, <2>2, <2>3, NAssumption DEF Rows
  <1> SUFFICES ASSUME NEW r \in Rows, NEW c \in 0 .. RowLen(K) - 1,
                      Written(r, c)', InBounds(idx[r], K)
               PROVE  \E x \in 0 .. NumRows(K) - 1 :
                        Addresses(x, idx[r], K) /\ out'[r][c] = DataLabel(x, c, K)
    BY <1>1 DEF GatherInBoundsExact
  <1>2. r < i \/ (r = i /\ c < j + 1)
    BY <1>1 DEF Written
  <1>3. CASE r = i /\ c = j
    <2>1. inbound
      BY <1>1, <1>3 DEF IInv, InBounds
    <2>2. /\ w \in Nat
          /\ Flat % Strides[K - 1] = 0
          /\ Flat < Total
          /\ \A q \in 0 .. K - 1 : (Flat \div Strides[q]) % DataShape[q] = idx[i][q]
      BY <1>1, <2>1 DEF Acc, KRange
    <2>3. w \in 0 .. NumRows(K) - 1
      <3>1. CASE K = Rank
        <4>1. RowLen(K) = 1 /\ NumRows(K) = Total /\ Total \in Nat
          BY <3>1, FirstAxis, SMT
        <4> QED
          BY <2>2, <4>1, SMT DEF Flat
      <3>2. CASE K = 1
        <4>1. RowLen(K) = Strides[0] /\ NumRows(K) = DataShape[0]
              /\ Strides[0] \in Nat \ {0} /\ DataShape[0] \in Nat \ {0}
          BY <3>2, FirstAxis
        <4>2. Total = DataShape[0] * Strides[0]
          BY FirstAxis
        <4>3. w * Strides[0] < DataShape[0] * Strides[0]
          BY <2>2, <4>1, <4>2 DEF Flat
        <4>4. w < DataShape[0]
          <5> SUFFICES ASSUME w >= DataShape[0] PROVE FALSE
            BY <2>2, <4>1, SMT
          <5>1. w * Strides[0] >= DataShape[0] * Strides[0]
            BY <2>2, <4>1, SMT
          <5> QED
            BY <4>1, <4>3, <5>1, <2>2, SMT
        <4> QED
          BY <2>2, <4>1, <4>4, SMT
      <3> QED
        BY <3>1, <3>2 DEF ExactK
    <2>4. PyIndexOK(w, NumRows(K)) /\ PyIndex(w, NumRows(K)) = w
      <3>1. NumRows(K) \in Nat
        BY <1>1, NumRowsType
      <3> QED
        BY <2>3, <3>1, SMT DEF PyIndexOK, PyIndex
    <2>5. out' = [out EXCEPT ![i][j] = DataLabel(w, j, K)]
      BY <2>1, <2>4 DEF Write
    <2>6. out'[i][j] = DataLabel(w, j, K)
      BY <1>1, <2>5
    <2>7. Addresses(w, idx[i], K)
      BY <2>2 DEF Addresses, Flat
    <2> QED
      BY <1>3, <2>3, <2>6, <2>7
  <1>4. CASE ~(r = i /\ c = j)
    <2>1. Written(r, c)
      BY <1>1, <1>2, <1>4 DEF Written, Rows
    <2>2. out'[r][c] = out[r][c]
      <3>1. out' = out \/ \E v : out' = [out EXCEPT ![i][j] = v]
        BY Zenon DEF Write
      <3> QED
        BY <1>1, <1>4, <3>1
    <2> QED
      BY <2>1, <2>2 DEF GatherInBoundsExact
  <1> QED
    BY <1>3, <1>4

(* The helper starts outside the k loop with nothing written. *)
LEMMA InitEInv == Path = "gather_nd_np" /\ Init => EInv
  <1> SUFFICES ASSUME Path = "gather_nd_np", Init PROVE EInv
    OBVIOUS
  <1>1. IInv
    BY InitIInv
  <1>2. pc = "row" /\ i = 0 /\ j = 0
    BY DEF Init
  <1>3. GatherInBoundsExact
    BY <1>2 DEF GatherInBoundsExact, Written, Rows
  <1> QED
    BY <1>1, <1>2, <1>3 DEF EInv, StrideChain, Acc

(* Every step keeps the stride chain, the accumulated offset and the     *)
(* exactness of what is written.                                          *)
LEMMA NextEInv == EInv /\ [Next]_vars => EInv'
  <1> SUFFICES ASSUME EInv, [Next]_vars PROVE EInv'
    OBVIOUS
  <1>0. /\ IInv'
        /\ TypeInv /\ pc # "registry"
        /\ K \in KRange /\ RowLen(K) \in Nat \ {0}
    BY NextIInv, RowLenType DEF EInv, IInv, TypeInv, TypeOK
  <1>1. CASE BeginElem
    <2>1. pc' = "coord" /\ k' = 0 /\ w' = 0
      BY <1>1 DEF BeginElem
    <2>2. ExactK => GatherInBoundsExact'
      <3>1. K' = K /\ idx' = idx /\ out' = out /\ i' = i /\ j' = j
        BY <1>1 DEF BeginElem
      <3>2. \A r \in Rows, c \in 0 .. RowLen(K) - 1 : Written(r, c)' => Written(r, c)
        BY <3>1, <2>1, <1>1 DEF Written, BeginElem
      <3> QED
        BY <3>1, <3>2, ExactFrame DEF EInv, ExactK
    <2> QED
      BY <1>0, <2>1, <2>2, <1>1 DEF EInv, StrideChain, Acc, BeginElem, ExactK
  <1>2. CASE NextRow
    <2>1. pc' = "row" /\ j = RowLen(K) /\ i' = i + 1 /\ j' = 0 /\ pc = "row"
      BY <1>2 DEF NextRow
    <2>2. ASSUME NEW r \in Rows, NEW c \in 0 .. RowLen(K) - 1
          PROVE  Written(r, c)' => Written(r, c)
      BY <2>1, <1>0 DEF Written, TypeInv, TypeOK, Rows
    <2>3. ExactK => GatherInBoundsExact'
      <3>1. K' = K /\ idx' = idx /\ out' = out
        BY <1>2 DEF NextRow
      <3> QED
        BY <3>1, <2>2, ExactFrame DEF EInv, ExactK
    <2> QED
      BY <1>0, <2>1, <2>3, <1>2 DEF EInv, StrideChain, Acc, NextRow, ExactK
  <1>3. CASE Finish
    <2>1. pc' = "done" /\ i = N
      BY <1>3 DEF Finish
    <2>2. ASSUME NEW r \in Rows, NEW c \in 0 .. RowLen(K) - 1
          PROVE  Written(r, c)
      BY <2>1, NAssumption DEF Written, Rows
    <2>3. ExactK => GatherInBoundsExact'
      <3>1. K' = K /\ idx' = idx /\ out' = out
        BY <1>3 DEF Finish
      <3> QED
        BY <3>1, <2>2, ExactFrame DEF EInv, ExactK
    <2> QED
      BY <1>0, <2>1, <2>3, <1>3 DEF EInv, StrideChain, Acc, Finish, ExactK
  <1>4. CASE CoordStep
    <2>1. K' = K /\ idx' = idx /\ out' = out /\ i' = i /\ j' = j /\ pc' = pc
      BY <1>4 DEF CoordStep
    <2>2. StrideChain'
      BY <1>0, <1>4, CoordChain DEF EInv
    <2>3. ExactK' => Acc' /\ GatherInBoundsExact'
      <3> SUFFICES ASSUME ExactK' PROVE Acc' /\ GatherInBoundsExact'
        OBVIOUS
      <3>1. ExactK
        BY <2>1 DEF ExactK
      <3>2. Acc'
        BY <1>0, <1>4, <3>1, CoordAcc DEF EInv
      <3>3. \A r \in Rows, c \in 0 .. RowLen(K) - 1 : Written(r, c)' => Written(r, c)
        BY <2>1 DEF Written
      <3>4. GatherInBoundsExact'
        BY <2>1, <3>1, <3>3, ExactFrame DEF EInv
      <3> QED
        BY <3>2, <3>4
    <2> QED
      BY <1>0, <2>2, <2>3 DEF EInv
  <1>5. CASE Write
    <2>1. pc' \in {"row", "error"} /\ K' = K
      BY <1>5 DEF Write
    <2>2. ExactK' => GatherInBoundsExact'
      BY <1>5, <2>1, WriteExact DEF EInv, ExactK
    <2> QED
      BY <1>0, <2>1, <2>2 DEF EInv, StrideChain, Acc
  <1>6. CASE UNCHANGED vars
    BY <1>0, <1>6 DEF vars, EInv, StrideChain, Acc, GatherInBoundsExact, Written, Flat, ExactK
  <1> QED
    BY <1>1, <1>2, <1>3, <1>4, <1>5, <1>6 DEF Next

(* For a tuple of one coordinate or of as many as the data has axes,     *)
(* gather_nd_np copies, into every output element it has written for an  *)
(* in-bounds tuple, the element of data.reshape(-1, R) that the tuple    *)
(* addresses: for every shape, strides, index values and number of       *)
(* tuples.                                                                 *)
THEOREM InBoundsExact ==
  Path = "gather_nd_np" /\ Spec => [](ExactK => GatherInBoundsExact)
  <1>1. Path = "gather_nd_np" /\ Init => EInv
    BY InitEInv
  <1>2. EInv /\ [Next]_vars => EInv'
    BY NextEInv
  <1>3. EInv => (ExactK => GatherInBoundsExact)
    BY DEF EInv
  <1> QED
    BY <1>1, <1>2, <1>3, PTL DEF Spec

=============================================================================
