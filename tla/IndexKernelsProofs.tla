------------------------- MODULE IndexKernelsProofs -------------------------
(***************************************************************************)
(* Facts about the index arithmetic shared by gather_nd_np and             *)
(* tensor_scatter_add_np, for every shape, C-order strides and number of  *)
(* index tuples.                                                           *)
(***************************************************************************)
EXTENDS IndexKernels, FiniteSetTheorems, TLAPS

(* A product of two positive extents is positive. *)
LEMMA ProdPos ==
  ASSUME NEW a \in Nat \ {0}, NEW b \in Nat \ {0}
  PROVE  a * b \in Nat \ {0}
  BY SMT

(* out.shape[1] = prod(data_shape[K:]) is a positive number of columns. *)
LEMMA RowLenType == \A kk \in KRange : RowLen(kk) \in Nat \ {0}
  <1> SUFFICES ASSUME NEW kk \in KRange PROVE RowLen(kk) \in Nat \ {0}
    OBVIOUS
  <1>1. CASE kk = Rank
    BY <1>1 DEF RowLen
  <1>2. CASE kk # Rank
    <2>1. kk \in Axes
      BY <1>2, RankAssumption DEF KRange, Axes
    <2>2. DataShape[kk] \in Nat \ {0} /\ Strides[kk] \in Nat \ {0}
      BY <2>1, ShapeAssumption, StridesAssumption
    <2> QED
      BY <1>2, <2>2, ProdPos DEF RowLen
  <1> QED
    BY <1>1, <1>2

(* The number of rows of data.reshape(-1, R) is a natural number. *)
LEMMA NumRowsType == \A kk \in KRange : NumRows(kk) \in Nat
  <1> SUFFICES ASSUME NEW kk \in KRange PROVE NumRows(kk) \in Nat
    OBVIOUS
  <1>1. Total \in Nat
    <2>1. 0 \in Axes
      BY RankAssumption DEF Axes
    <2> QED
      BY <2>1, ShapeAssumption, StridesAssumption, ProdPos DEF Total
  <1>2. RowLen(kk) \in Nat \ {0}
    BY RowLenType
  <1> QED
    BY <1>1, <1>2 DEF NumRows

(* Python int(a / b) of an integer by a positive divisor is an integer. *)
LEMMA TruncDivType ==
  ASSUME NEW a \in Int, NEW b \in Nat \ {0}
  PROVE  TruncDiv(a, b) \in Int
  BY DEF TruncDiv

(* An index Python accepts on an axis of length len lands in 0..len-1. *)
LEMMA PyIndexRange ==
  ASSUME NEW p \in Int, NEW len \in Nat, PyIndexOK(p, len)
  PROVE  PyIndex(p, len) \in 0 .. len - 1
  BY DEF PyIndexOK, PyIndex

(* Every data label differs from the zero of np.zeros. *)
LEMMA DataLabelPos ==
  ASSUME NEW r \in Nat, NEW c \in Nat, NEW kk \in KRange
  PROVE  DataLabel(r, c, kk) \in Nat \ {0}
  BY RowLenType DEF DataLabel

(* Two to a natural power is a positive natural: the number of subsets of *)
(* a set of that many elements.                                            *)
LEMMA PowTwoType ==
  ASSUME NEW n \in Nat
  PROVE  2 ^ n \in Nat \ {0}
  <1>1. IsFiniteSet(1 .. n) /\ Cardinality(1 .. n) = n
    BY FS_Interval
  <1>2. IsFiniteSet(SUBSET (1 .. n)) /\ Cardinality(SUBSET (1 .. n)) = 2 ^ n
    BY <1>1, FS_SUBSET
  <1>3. Cardinality(SUBSET (1 .. n)) \in Nat
    BY <1>2, FS_CardinalityType
  <1>4. SUBSET (1 .. n) # {}
    OBVIOUS
  <1>5. Cardinality(SUBSET (1 .. n)) # 0
    BY <1>2, <1>4, FS_EmptySet
  <1> QED
    BY <1>2, <1>3, <1>5

=============================================================================
