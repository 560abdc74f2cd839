------------------------- MODULE GatherRefineProofs -------------------------
(***************************************************************************)
(* Proof that gather_nd_np implements the tuple-at-a-time gather of        *)
(* GatherRows under the refinement mapping of GatherNd (AbsOut, row <- i,  *)
(* finished <- pc = "done"), for tuples of one coordinate or of as many as *)
(* the data has axes: every step of the loop nest is a GatherTuple, a      *)
(* Return or a stutter of the abstract gather.  GatherRows picks the       *)
(* addressed row with CHOOSE, so the proof needs that a tuple addresses    *)
(* one row only; the k loop establishes it one axis at a time.            *)
(***************************************************************************)
EXTENDS GatherExactProofs

(* Inside the k loop of an in-bounds prefix, every offset of the data     *)
(* with the coordinates read so far lies in the same block of             *)
(* strides[k - 1] elements as Flat.                                        *)
UInv ==
  pc = "coord" /\ inbound /\ k >= 1 =>
    \A y \in 0 .. Total - 1 :
      (\A q \in 0 .. k - 1 : (y \div Strides[q]) % DataShape[q] = idx[i][q]) =>
        y \div Strides[k - 1] = Flat \div Strides[k - 1]

(* Every tuple whose elements are written addresses one row only. *)
RowUnique ==
  \A r \in Rows, c \in 0 .. RowLen(K) - 1 :
    Written(r, c) /\ InBounds(idx[r], K) =>
      \A y, z \in 0 .. NumRows(K) - 1 :
        Addresses(y, idx[r], K) /\ Addresses(z, idx[r], K) => y = z

(* The invariant the refinement proof rests on. *)
RInv ==
  /\ EInv
  /\ ExactK => UInv /\ RowUnique

-----------------------------------------------------------------------------
(* Division facts. *)

(* Dividing by s, then by d, is dividing by d * s. *)
LEMMA DivDiv ==
  ASSUME NEW s \in Nat \ {0}, NEW d \in Nat \ {0}, NEW z \in Nat
  PROVE  z \div (d * s) = (z \div s) \div d
  <1> DEFINE u == z \div s
             v == u \div d
  <1>1. z = s * u + (z % s) /\ z % s \in 0 .. s - 1 /\ u \in Nat
    BY SMT DEF u
  <1>2. u = d * v + (u % d) /\ u % d \in 0 .. d - 1 /\ v \in Nat
    BY <1>1, SMT DEF v
  <1>3. z = (d * s) * v + (s * (u % d) + (z % s))
    BY <1>1, <1>2, SMT
  <1>4. s * (u % d) + (z % s) \in 0 .. d * s - 1
    <2>1. s * (u % d) <= s * (d - 1)
      BY <1>2, SMT
    <2> QED
      BY <1>1, <1>2, <2>1, SMT
  <1>5. d * s \in Nat \ {0} /\ v \in Int /\ z \in Int
    BY <1>2, SMT
  <1> QED
    BY <1>3, <1>4, <1>5, DivUnique DEF u, v

(* The quotient by s is d times the quotient by d * s, plus the digit of *)
(* the axis of extent d and stride s.                                     *)
LEMMA DivSplit ==
  ASSUME NEW s \in Nat \ {0}, NEW d \in Nat \ {0}, NEW z \in Nat
  PROVE  z \div s = d * (z \div (d * s)) + ((z \div s) % d)
  <1>1. z \div (d * s) = (z \div s) \div d
    BY DivDiv
  <1>2. z \div s \in Nat
    BY SMT
  <1> QED
    BY <1>1, <1>2, SMT

(* Below d * s, the quotient by s is below d. *)
LEMMA DivBelow ==
  ASSUME NEW s \in Nat \ {0}, NEW d \in Nat \ {0}, NEW z \in 0 .. d * s - 1
  PROVE  z \div s \in 0 .. d - 1
  <1>1. z \div s \in Nat /\ s * (z \div s) <= z
    BY SMT
  <1>2. SUFFICES ASSUME z \div s >= d PROVE FALSE
    BY <1>1
  <1>3. s * (z \div s) >= s * d
    BY <1>1, <1>2, SMT
  <1> QED
    BY <1>1, <1>3, SMT

(* An offset below Total whose first coordinate is t has quotient t by  *)
(* strides[0].                                                             *)
LEMMA FirstDigit ==
  ASSUME NEW z \in 0 .. Total - 1, NEW t \in Int,
         (z \div Strides[0]) % DataShape[0] = t
  PROVE  z \div Strides[0] = t
  <1>1. Strides[0] \in Nat \ {0} /\ DataShape[0] \in Nat \ {0}
    BY FirstAxis
  <1>2. z \in 0 .. DataShape[0] * Strides[0] - 1
    BY FirstAxis
  <1>3. z \div Strides[0] \in 0 .. DataShape[0] - 1
    BY <1>1, <1>2, DivBelow
  <1>4. z \div Strides[0] = DataShape[0] * 0 + (z \div Strides[0]) /\ 0 \in Int
          /\ z \div Strides[0] \in Int
    BY <1>3, <1>1, SMT
  <1>5. (z \div Strides[0]) % DataShape[0] = z \div Strides[0]
    BY <1>1, <1>3, <1>4, DivUnique
  <1> QED
    BY <1>5

-----------------------------------------------------------------------------

(* One iteration of "for k" on an in-bounds prefix, for K = 1 or K =    *)
(* Rank: the offsets of the data with the coordinates read so far, the    *)
(* new one included, are the block of strides[k] elements that the new    *)
(* Flat starts.                                                            *)
LEMMA CoordUnique ==
  ASSUME TypeInv, StrideChain, Acc, UInv, ExactK, CoordStep
  PROVE  UInv'
  <1>1. /\ pc = "coord" /\ k \in 0 .. K - 1 /\ K \in KRange
        /\ pc' = "coord" /\ k' = k + 1 /\ K' = K /\ idx' = idx /\ i' = i
        /\ inbound' = (inbound /\ InAxis(idx[i][k], k))
    <2>1. pc = "coord" /\ k < K /\ k' = k + 1 /\ K' = K /\ idx' = idx /\ i' = i /\ pc' = pc
          /\ inbound' = (inbound /\ InAxis(idx[i][k], k))
      BY DEF CoordStep
    <2>2. K \in KRange /\ k \in 0 .. K
      BY <2>1 DEF TypeInv, TypeOK
    <2> QED
      BY <2>1, <2>2, RankAssumption DEF KRange
  <1>2. k \in Axes /\ Strides[k] \in Nat \ {0} /\ DataShape[k] \in Nat \ {0}
    BY <1>1, RankAssumption, StridesAssumption, ShapeAssumption DEF KRange, Axes
  <1>3. Acc'
    BY CoordAcc
  <1> SUFFICES ASSUME inbound', NEW y \in 0 .. Total - 1,
                      \A q \in 0 .. k : (y \div Strides[q]) % DataShape[q] = idx[i][q]
               PROVE  y \div Strides[k] = Flat' \div Strides[k]
    <2>1. (k + 1) - 1 = k
      BY <1>2 DEF Axes
    <2> QED
      BY <1>1, <2>1 DEF UInv
  <1>4. inbound
    BY <1>1, Zenon
  <1>5. /\ Flat' \in 0 .. Total - 1
        /\ \A q \in 0 .. k : (Flat' \div Strides[q]) % DataShape[q] = idx[i][q]
    <2>1. /\ w' \in Nat /\ Flat' < Total
          /\ \A q \in 0 .. (k + 1) - 1 : (Flat' \div Strides[q]) % DataShape[q] = idx[i][q]
      BY <1>1, <1>3, <1>2 DEF Acc, Axes
    <2>2. RowLen(K) \in Nat \ {0}
      BY <1>1, RowLenType
    <2>3. Flat' \in Nat
      BY <1>1, <2>1, <2>2, SMT DEF Flat
    <2>4. (k + 1) - 1 = k
      BY <1>2 DEF Axes
    <2>5. Total \in Nat
      BY FirstAxis, SMT
    <2>6. Flat' \in 0 .. Total - 1
      BY <2>1, <2>3, <2>5, SMT
    <2>7. \A q \in 0 .. k : (Flat' \div Strides[q]) % DataShape[q] = idx[i][q]
      BY <2>1, <2>4
    <2> QED
      BY <2>6, <2>7
  <1>6. idx[i][k] \in Int
    <2>1. i \in Rows /\ idx \in [Rows -> [0 .. K - 1 -> IdxVals]]
      BY <1>1, NAssumption DEF TypeInv, TypeOK, Rows
    <2> QED
      BY <1>1, <2>1, IdxValsAssumption
  <1>7. CASE k = 0
    <2>1. ASSUME NEW z \in 0 .. Total - 1,
                 \A q \in 0 .. k : (z \div Strides[q]) % DataShape[q] = idx[i][q]
          PROVE  z \div Strides[0] = idx[i][0]
      <3>1. (z \div Strides[0]) % DataShape[0] = idx[i][0]
        BY <1>7, <2>1
      <3>2. idx[i][0] \in Int
        BY <1>6, <1>7
      <3> QED
        BY <3>1, <3>2, FirstDigit
    <2> QED
      BY <1>5, <1>7, <2>1
  <1>8. CASE k >= 1
    <2>1. Strides[k - 1] = DataShape[k] * Strides[k]
      <3>1. k - 1 \in 0 .. Rank - 2
        BY <1>1, <1>2, <1>8, RankAssumption DEF KRange, Axes
      <3>2. Strides[k - 1] = DataShape[(k - 1) + 1] * Strides[(k - 1) + 1]
        BY <3>1, StridesAssumption
      <3>3. (k - 1) + 1 = k
        BY <1>2 DEF Axes
      <3> QED
        BY <3>2, <3>3
    <2>2. ASSUME NEW z \in 0 .. Total - 1,
                 \A q \in 0 .. k : (z \div Strides[q]) % DataShape[q] = idx[i][q]
          PROVE  z \div Strides[k]
                   = DataShape[k] * (Flat \div Strides[k - 1]) + idx[i][k]
      <3>1. z \div Strides[k - 1] = Flat \div Strides[k - 1]
        <4>1. \A q \in 0 .. k - 1 : (z \div Strides[q]) % DataShape[q] = idx[i][q]
          BY <2>2, <1>2 DEF Axes
        <4> QED
          BY <1>1, <1>4, <1>8, <4>1 DEF UInv
      <3>2. z \div Strides[k]
              = DataShape[k] * (z \div (DataShape[k] * Strides[k]))
                + ((z \div Strides[k]) % DataShape[k])
        <4>1. z \in Nat
          OBVIOUS
        <4> QED
          BY <1>2, <4>1, DivSplit
      <3>3. (z \div Strides[k]) % DataShape[k] = idx[i][k]
        BY <2>2, <1>2 DEF Axes
      <3> QED
        BY <2>1, <3>1, <3>2, <3>3
    <2> QED
      BY <1>5, <2>2
  <1> QED
    BY <1>7, <1>8, <1>2 DEF Axes

(* After the k loop of an in-bounds tuple, for K = 1 or K = Rank, the   *)
(* only row of new_data the tuple addresses is index_write: the element   *)
(* out[i, j] is copied from is the one the tuple names.                   *)
LEMMA WriteUnique ==
  ASSUME IInv, Acc, UInv, ExactK, RowUnique, Write
  PROVE  RowUnique'
  <1>1. /\ pc = "coord" /\ k = K /\ j' = j + 1 /\ K' = K /\ idx' = idx /\ i' = i
        /\ w' = w /\ pc' \in {"row", "error"}
        /\ K \in KRange /\ i \in Rows /\ j \in 0 .. RowLen(K) - 1
    <2>1. pc = "coord" /\ k = K /\ j' = j + 1 /\ K' = K /\ idx' = idx /\ i' = i
          /\ w' = w /\ pc' \in {"row", "error"}
      BY DEF Write
    <2>2. K \in KRange /\ i \in 0 .. N /\ i < N /\ j \in 0 .. RowLen(K) /\ j < RowLen(K)
      BY <2>1 DEF IInv, TypeInv, TypeOK
    <2>3. RowLen(K) \in Nat \ {0}
      BY <2>2, RowLenType
    <2> QED
      BY <2>1, <2>2, <2>3, NAssumption DEF Rows
  <1> SUFFICES ASSUME NEW r \in Rows, NEW c \in 0 .. RowLen(K) - 1,
                      Written(r, c)', InBounds(idx[r], K),
                      NEW y \in 0 .. NumRows(K) - 1, NEW z \in 0 .. NumRows(K) - 1,
                      Addresses(y, idx[r], K), Addresses(z, idx[r], K)
               PROVE  y = z
    BY <1>1 DEF RowUnique
  <1>2. r < i \/ (r = i /\ c < j + 1)
    BY <1>1 DEF Written
  <1>3. CASE r = i /\ c = j
    <2>1. inbound /\ K >= 1
      BY <1>1, <1>3, RankAssumption DEF IInv, InBounds, KRange
    <2>2. w \in Nat
      BY <1>1, <2>1 DEF Acc
    <2>3. ASSUME NEW x \in 0 .. NumRows(K) - 1, Addresses(x, idx[i], K)
          PROVE  x = w
      <3>1. x * RowLen(K) \in 0 .. Total - 1
        <4>1. CASE K = Rank
          BY <4>1, FirstAxis, SMT
        <4>2. CASE K = 1
          <5>1. /\ RowLen(K) = Strides[0] /\ NumRows(K) = DataShape[0]
                /\ Strides[0] \in Nat \ {0} /\ DataShape[0] \in Nat \ {0}
            BY <4>2, FirstAxis
          <5>2. x \in 0 .. DataShape[0] - 1
            BY <5>1
          <5>3. x * Strides[0] \in 0 .. DataShape[0] * Strides[0] - 1
            BY <5>1, <5>2, StepBound
          <5>4. Total = DataShape[0] * Strides[0]
            BY FirstAxis
          <5> QED
            BY <5>1, <5>3, <5>4
        <4> QED
          BY <4>1, <4>2 DEF ExactK
      <3>2. \A q \in 0 .. k - 1 :
              ((x * RowLen(K)) \div Strides[q]) % DataShape[q] = idx[i][q]
        BY <1>1, <2>3 DEF Addresses
      <3>3. (x * RowLen(K)) \div Strides[K - 1] = (w * RowLen(K)) \div Strides[K - 1]
        BY <1>1, <2>1, <3>1, <3>2 DEF UInv, Flat
      <3>4. CASE K = Rank
        <4>1. RowLen(K) = 1 /\ Strides[K - 1] = 1
          BY <3>4, FirstAxis, StridesAssumption
        <4>2. x \in Int
          BY <1>1, NumRowsType, SMT
        <4> QED
          BY <2>2, <3>3, <4>1, <4>2, SMT
      <3>5. CASE K = 1
        <4>1. RowLen(K) = Strides[0] /\ Strides[K - 1] = Strides[0]
              /\ Strides[0] \in Nat \ {0}
          BY <3>5, FirstAxis
        <4>2. x \in Int
          BY <1>1, NumRowsType, SMT
        <4>3. (Strides[0] * x) \div Strides[0] = x
          BY <4>1, <4>2, MultMod
        <4>5. (Strides[0] * w) \div Strides[0] = w
          BY <2>2, <4>1, MultMod
        <4>4. x * Strides[0] = Strides[0] * x /\ w * Strides[0] = Strides[0] * w
          BY <2>2, <4>1, <4>2, SMT
        <4> QED
          BY <3>3, <4>1, <4>3, <4>4, <4>5
      <3> QED
        BY <3>4, <3>5 DEF ExactK
    <2> QED
      BY <1>3, <2>3
  <1>4. CASE ~(r = i /\ c = j)
    <2>1. Written(r, c)
      BY <1>1, <1>2, <1>4 DEF Written, Rows
    <2> QED
      BY <2>1 DEF RowUnique
  <1> QED
    BY <1>3, <1>4

(* A step that leaves K and the indices alone and writes no element     *)
(* that was not already written keeps every written tuple's row unique.  *)
LEMMA UniqueFrame ==
  ASSUME RowUnique, K' = K, idx' = idx,
         \A r \in Rows, c \in 0 .. RowLen(K) - 1 : Written(r, c)' => Written(r, c)
  PROVE  RowUnique'
  BY DEF RowUnique

(* The helper starts outside the k loop with nothing written. *)
LEMMA InitRInv == Path = "gather_nd_np" /\ Init => RInv
  <1> SUFFICES ASSUME Path = "gather_nd_np", Init PROVE RInv
    OBVIOUS
  <1>1. EInv
    BY InitEInv
  <1>2. pc = "row" /\ i = 0 /\ j = 0
    BY DEF Init
  <1>3. RowUnique
    BY <1>2 DEF RowUnique, Written, Rows
  <1> QED
    BY <1>1, <1>2, <1>3 DEF RInv, UInv

(* Every step keeps the block of the coordinates read and the uniqueness *)
(* of the rows written.                                                    *)
LEMMA NextRInv == RInv /\ [Next]_vars => RInv'
  <1> SUFFICES ASSUME RInv, [Next]_vars PROVE RInv'
    OBVIOUS
  <1>0. /\ EInv' /\ EInv /\ IInv /\ TypeInv /\ pc # "registry"
    BY NextEInv DEF RInv, EInv, IInv
  <1>1. K' = K /\ idx' = idx
    BY DEF Next, vars, BeginElem, NextRow, Finish, CoordStep, Write
  <1> SUFFICES ASSUME ExactK PROVE UInv' /\ RowUnique'
    BY <1>0, <1>1 DEF RInv, ExactK
  <1>2. UInv /\ RowUnique /\ Acc /\ StrideChain
    BY DEF RInv, EInv
  <1>3. CASE BeginElem
    <2>1. UInv'
      BY <1>3 DEF BeginElem, UInv
    <2>2. \A r \in Rows, c \in 0 .. RowLen(K) - 1 : Written(r, c)' => Written(r, c)
      BY <1>3 DEF BeginElem, Written
    <2> QED
      BY <1>1, <1>2, <2>1, <2>2, UniqueFrame
  <1>4. CASE NextRow
    <2>1. UInv'
      BY <1>4 DEF NextRow, UInv
    <2>2. \A r \in Rows, c \in 0 .. RowLen(K) - 1 : Written(r, c)' => Written(r, c)
      <3>1. pc' = "row" /\ j = RowLen(K) /\ i' = i + 1 /\ j' = 0 /\ pc = "row"
        BY <1>4 DEF NextRow
      <3> QED
        BY <3>1, <1>0 DEF Written, TypeInv, TypeOK, Rows
    <2> QED
      BY <1>1, <1>2, <2>1, <2>2, UniqueFrame
  <1>5. CASE Finish
    <2>1. UInv'
      BY <1>5 DEF Finish, UInv
    <2>2. \A r \in Rows, c \in 0 .. RowLen(K) - 1 : Written(r, c)
      <3>1. i = N
        BY <1>5 DEF Finish
      <3> QED
        BY <3>1, NAssumption DEF Written, Rows
    <2> QED
      BY <1>1, <1>2, <2>1, <2>2, UniqueFrame
  <1>6. CASE CoordStep
    <2>1. UInv'
      BY <1>0, <1>2, <1>6, CoordUnique
    <2>2. \A r \in Rows, c \in 0 .. RowLen(K) - 1 : Written(r, c)' => Written(r, c)
      BY <1>6 DEF CoordStep, Written
    <2> QED
      BY <1>1, <1>2, <2>1, <2>2, UniqueFrame
  <1>7. CASE Write
    <2>1. UInv'
      BY <1>7 DEF Write, UInv
    <2> QED
      BY <1>0, <1>2, <1>7, <2>1, WriteUnique
  <1>8. CASE UNCHANGED vars
    BY <1>2, <1>8 DEF vars, UInv, RowUnique, Written, Flat
  <1> QED
    BY <1>3, <1>4, <1>5, <1>6, <1>7, <1>8 DEF Next

-----------------------------------------------------------------------------
(* The refinement. *)

(* When the "for j" loop of tuple i is exhausted, out[i] is the slice    *)
(* GatherRows gives that tuple: the addressed row of an in-bounds tuple,  *)
(* zeros for an out-of-bounds one.                                         *)
LEMMA TupleSlice ==
  ASSUME RInv, ExactK, pc = "row", i < N, j = RowLen(K)
  PROVE  out[i] = Abs!SliceOf(idx[i], K)
  <1>1. /\ K \in KRange /\ i \in Rows /\ RowLen(K) \in Nat \ {0}
        /\ out[i] \in [0 .. RowLen(K) - 1 -> Nat]
    <2>1. K \in KRange /\ i \in 0 .. N /\ out \in [Rows -> [0 .. RowLen(K) - 1 -> Nat]]
      BY DEF RInv, EInv, IInv, TypeInv, TypeOK
    <2> QED
      BY <2>1, RowLenType, NAssumption DEF Rows
  <1>2. \A c \in 0 .. RowLen(K) - 1 : Written(i, c)
    BY <1>1 DEF Written
  <1>3. GatherInBoundsExact /\ RowUnique
    BY DEF RInv, EInv
  <1>4. CASE InBounds(idx[i], K)
    <2>1. 0 \in 0 .. RowLen(K) - 1
      BY <1>1
    <2>2. \E x \in 0 .. NumRows(K) - 1 : Addresses(x, idx[i], K)
      BY <1>2, <1>3, <1>4, <2>1, <1>1 DEF GatherInBoundsExact
    <2>3. PICK x0 \in 0 .. NumRows(K) - 1 :
            x0 = CHOOSE x \in 0 .. NumRows(K) - 1 : Addresses(x, idx[i], K)
      BY <2>2
    <2>4. Addresses(x0, idx[i], K)
      BY <2>2, <2>3
    <2>5. Abs!SliceOf(idx[i], K) = [c \in 0 .. RowLen(K) - 1 |-> DataLabel(x0, c, K)]
      <3>1. Abs!SliceOf(idx[i], K)
              = [c \in 0 .. RowLen(K) - 1 |->
                   DataLabel(CHOOSE x \in 0 .. NumRows(K) - 1 : Addresses(x, idx[i], K), c, K)]
        BY <1>4, Zenon DEF Abs!SliceOf,
         Abs!InBounds, InBounds, Abs!RowLen, RowLen, Abs!NumRows, NumRows,
         Abs!Addresses, Addresses, Abs!DataLabel, DataLabel, Abs!Total, Total
      <3> QED
        BY <2>3, <3>1
    <2>6. ASSUME NEW c \in 0 .. RowLen(K) - 1
          PROVE  out[i][c] = DataLabel(x0, c, K)
      <3>1. PICK xc \in 0 .. NumRows(K) - 1 :
              Addresses(xc, idx[i], K) /\ out[i][c] = DataLabel(xc, c, K)
        BY <1>1, <1>2, <1>3, <1>4 DEF GatherInBoundsExact
      <3>2. xc = x0
        BY <1>1, <1>2, <1>3, <1>4, <2>4, <3>1 DEF RowUnique
      <3> QED
        BY <3>1, <3>2
    <2> QED
      BY <1>1, <2>5, <2>6
  <1>5. CASE ~InBounds(idx[i], K)
    <2>1. \A c \in 0 .. RowLen(K) - 1 : out[i][c] = 0
      BY <1>1, <1>5 DEF RInv, EInv, IInv
    <2>2. Abs!SliceOf(idx[i], K) = [c \in 0 .. RowLen(K) - 1 |-> 0]
      BY <1>5 DEF Abs!SliceOf,
         Abs!InBounds, InBounds, Abs!RowLen, RowLen, Abs!NumRows, NumRows,
         Abs!Addresses, Addresses, Abs!DataLabel, DataLabel, Abs!Total, Total
    <2> QED
      BY <1>1, <2>1, <2>2
  <1> QED
    BY <1>4, <1>5

(* Every step of gather_nd_np is a step of GatherRows under the mapping: *)
(* exhausting "for j" gathers tuple i, exhausting "for i" returns, and    *)
(* every other step leaves the gathered rows, the tuple count and the     *)
(* return flag alone.                                                      *)
LEMMA RefineStep == RInv /\ ExactK /\ [Next]_vars => [Abs!GNext]_Abs!gvars
  <1> SUFFICES ASSUME RInv, ExactK, [Next]_vars PROVE [Abs!GNext]_Abs!gvars
    OBVIOUS
  <1>0. /\ K \in KRange /\ i \in 0 .. N /\ pc # "registry"
        /\ out \in [Rows -> [0 .. RowLen(K) - 1 -> Nat]]
    BY DEF RInv, EInv, IInv, TypeInv, TypeOK
  <1>1. CASE BeginElem
    <2>1. K' = K /\ idx' = idx /\ out' = out /\ i' = i /\ pc = "row" /\ pc' = "coord"
      BY <1>1 DEF BeginElem
    <2>2. AbsOut' = AbsOut
      BY <2>1 DEF AbsOut
    <2> QED
      BY <2>1, <2>2 DEF Abs!gvars
  <1>2. CASE NextRow
    <2>1. /\ K' = K /\ idx' = idx /\ out' = out /\ i' = i + 1 /\ i < N
          /\ pc = "row" /\ pc' = "row" /\ j = RowLen(K)
      BY <1>2 DEF NextRow
    <2>2. i \in Rows
      BY <1>0, <2>1, NAssumption DEF Rows
    <2>3. out[i] = Abs!SliceOf(idx[i], K)
      BY <2>1, TupleSlice
    <2>4. AbsOut' = [AbsOut EXCEPT ![i] = Abs!SliceOf(idx[i], K)]
      <3>1. AbsOut' = [r \in Rows |->
                         IF r < i + 1 THEN out[r] ELSE [c \in 0 .. RowLen(K) - 1 |-> 0]]
        BY <2>1 DEF AbsOut
      <3>2. [AbsOut EXCEPT ![i] = out[i]]
              = [r \in Rows |->
                   IF r < i + 1 THEN out[r] ELSE [c \in 0 .. RowLen(K) - 1 |-> 0]]
        <4>1. AbsOut = [r \in Rows |->
                          IF r < i THEN out[r] ELSE [c \in 0 .. RowLen(K) - 1 |-> 0]]
          BY <2>1 DEF AbsOut
        <4>2. ASSUME NEW r \in Rows
              PROVE  (IF r = i THEN out[i]
                      ELSE IF r < i THEN out[r] ELSE [c \in 0 .. RowLen(K) - 1 |-> 0])
                     = IF r < i + 1 THEN out[r] ELSE [c \in 0 .. RowLen(K) - 1 |-> 0]
          BY <1>0, <2>2, NAssumption DEF Rows
        <4> QED
          BY <2>2, <4>1, <4>2
      <3> QED
        BY <2>3, <3>1, <3>2
    <2>5. Abs!GatherTuple
      BY <2>1, <2>4 DEF Abs!GatherTuple
    <2> QED
      BY <2>5 DEF Abs!GNext
  <1>3. CASE Finish
    <2>1. K' = K /\ idx' = idx /\ out' = out /\ i' = i /\ i = N /\ pc = "row" /\ pc' = "done"
      BY <1>3 DEF Finish
    <2>2. AbsOut' = AbsOut
      BY <2>1, NAssumption DEF AbsOut, Rows
    <2>3. Abs!Return
      BY <2>1, <2>2 DEF Abs!Return
    <2> QED
      BY <2>3 DEF Abs!GNext
  <1>4. CASE CoordStep
    <2>1. K' = K /\ idx' = idx /\ out' = out /\ i' = i /\ pc = "coord" /\ pc' = "coord"
      BY <1>4 DEF CoordStep
    <2>2. AbsOut' = AbsOut
      BY <2>1 DEF AbsOut
    <2> QED
      BY <2>1, <2>2 DEF Abs!gvars
  <1>5. CASE Write
    <2>1. /\ K' = K /\ idx' = idx /\ i' = i /\ pc = "coord" /\ pc' \in {"row", "error"}
          /\ (out' = out \/ \E v : out' = [out EXCEPT ![i][j] = v])
      BY <1>5, Zenon DEF Write
    <2>2. \A r \in Rows : r < i => out'[r] = out[r]
      BY <1>0, <2>1
    <2>3. AbsOut' = AbsOut
      BY <2>1, <2>2 DEF AbsOut
    <2> QED
      BY <2>1, <2>3 DEF Abs!gvars
  <1>6. CASE UNCHANGED vars
    BY <1>6 DEF vars, Abs!gvars, AbsOut
  <1> QED
    BY <1>1, <1>2, <1>3, <1>4, <1>5, <1>6 DEF Next

(* gather_nd_np implements the safety part of the spec's gather (4.4)   *)
(* for a tuple of one coordinate or of as many as the data has axes: it   *)
(* starts as GatherRows starts, and each of its steps gathers the next    *)
(* whole tuple, returns once all are gathered, or leaves the gathered     *)
(* rows alone; for every shape, strides, index values and number of       *)
(* tuples.  The fairness conjunct of GatherRefines stays with TLC.         *)
THEOREM RefinesGatherRows ==
  Path = "gather_nd_np" /\ Spec /\ ExactK => Abs!GInit /\ [][Abs!GNext]_Abs!gvars
  <1>1. Path = "gather_nd_np" /\ Init => RInv
    BY InitRInv
  <1>2. RInv /\ [Next]_vars => RInv'
    BY NextRInv
  <1>3. ExactK /\ [Next]_vars => ExactK'
    <2>1. [Next]_vars => K' = K
      BY DEF Next, vars, BeginElem, NextRow, Finish, CoordStep, Write
    <2> QED
      BY <2>1 DEF ExactK
  <1>4. Path = "gather_nd_np" /\ Init => Abs!GInit
    <2> SUFFICES ASSUME Path = "gather_nd_np", Init PROVE Abs!GInit
      OBVIOUS
    <2>1. K \in KRange /\ idx \in [Rows -> [0 .. K - 1 -> IdxVals]]
          /\ out = ZeroOut(K) /\ i = 0 /\ pc = "row"
      BY DEF Init
    <2>2. AbsOut = [r \in 0 .. N - 1 |-> [c \in 0 .. Abs!RowLen(K) - 1 |-> 0]]
      BY <2>1, NAssumption DEF AbsOut, ZeroOut, Rows, Abs!RowLen, RowLen
    <2> QED
      BY <2>1, <2>2 DEF Abs!GInit, Rows, Abs!KRange, KRange
  <1>5. RInv /\ ExactK /\ [Next]_vars => [Abs!GNext]_Abs!gvars
    BY RefineStep
  <1> QED
    BY <1>1, <1>2, <1>3, <1>4, <1>5, PTL DEF Spec

=============================================================================
