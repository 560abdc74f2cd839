---------------------------- MODULE ScatterProofs ----------------------------
(***************************************************************************)
(* Type correctness of tensor_scatter_add_np for every data shape, every   *)
(* number of index tuples, every set of coordinate values and both        *)
(* branches of indices.ndim.                                               *)
(***************************************************************************)
EXTENDS TensorScatterAdd, IndexKernelsProofs, TLAPS

(* The type invariant with what the loop structure guarantees: the       *)
(* current element exists inside the k loop, and the column count of     *)
(* new_indices is a valid tuple length, whichever branch of indices.ndim *)
(* built it.                                                               *)
ScatterTypeInv ==
  /\ TypeOK
  /\ Cols(K) \in KRange
  /\ pc = "coord" => i < N /\ j < R

-----------------------------------------------------------------------------

(* out.shape[1], the rows of out and the label of an update are naturals. *)
LEMMA ScatterShapes ==
  ASSUME Cols(K) \in KRange
  PROVE  /\ R \in Nat \ {0}
         /\ NumRows(Cols(K)) \in Nat
         /\ \A ii \in Nat : UpdLabel(ii) \in Nat
  <1>1. R \in Nat \ {0} /\ NumRows(Cols(K)) \in Nat
    BY RowLenType, NumRowsType DEF R
  <1>2. Total \in Nat
    <2>1. 0 \in Axes
      BY RankAssumption DEF Axes
    <2> QED
      BY <2>1, ShapeAssumption, StridesAssumption, ProdPos DEF Total
  <1>3. ASSUME NEW ii \in Nat PROVE UpdLabel(ii) \in Nat
    <2>1. 2 ^ ii \in Nat \ {0}
      BY PowTwoType
    <2> QED
      BY <1>2, <2>1 DEF UpdLabel
  <1> QED
    BY <1>1, <1>3

(* out starts as the copy of data, of the shape the index array selects. *)
LEMMA InitScatterTypeInv == Init => ScatterTypeInv
  <1> SUFFICES ASSUME Init PROVE ScatterTypeInv
    OBVIOUS
  <1>1. Cols(K) \in KRange /\ K \in KRange \cup {N}
    <2>1. CASE IndexNdim > 1
      BY <2>1 DEF Init, Cols
    <2>2. CASE ~(IndexNdim > 1)
      BY <2>2, RankAssumption DEF Init, Cols, KRange
    <2> QED
      BY <2>1, <2>2
  <1>2. R \in Nat \ {0} /\ NumRows(Cols(K)) \in Nat /\ K \in Nat
    BY <1>1, ScatterShapes, NAssumption DEF KRange
  <1>3. DataOut(Cols(K)) \in [0 .. NumRows(Cols(K)) - 1 -> [0 .. R - 1 -> Nat]]
    <2> SUFFICES ASSUME NEW r \in 0 .. NumRows(Cols(K)) - 1, NEW c \in 0 .. R - 1
                 PROVE  DataLabel(r, c, Cols(K)) \in Nat
      BY DEF DataOut, R
    <2>1. r \in Nat /\ c \in Nat
      BY <1>2
    <2>2. DataLabel(r, c, Cols(K)) \in Nat \ {0}
      BY <1>1, <2>1, DataLabelPos
    <2> QED
      BY <2>2
  <1> QED
    BY <1>1, <1>2, <1>3, NAssumption DEF Init, ScatterTypeInv, TypeOK

(* A step that keeps K and the indices and moves the other variables     *)
(* within their types keeps the invariant.                                 *)
LEMMA ScatterFrame ==
  ASSUME ScatterTypeInv, K' = K, idx' = idx,
         out' \in [0 .. NumRows(Cols(K)) - 1 -> [0 .. R - 1 -> Nat]],
         i' \in 0 .. N, j' \in 0 .. R, k' \in 0 .. K, w' \in Int,
         inbound' \in BOOLEAN, pc' \in {"row", "coord", "done", "error"},
         pc' = "coord" => i' < N /\ j' < R
  PROVE  ScatterTypeInv'
  <1>1. Cols(K)' = Cols(K) /\ R' = R /\ NumRows(Cols(K))' = NumRows(Cols(K))
    BY DEF R, Cols
  <1>2. K' \in KRange \cup {N} /\ Cols(K)' \in KRange
    BY <1>1 DEF ScatterTypeInv, TypeOK
  <1>3. idx' \in [Rows -> [0 .. Cols(K)' - 1 -> IdxVals]]
    BY <1>1 DEF ScatterTypeInv, TypeOK
  <1>4. out' \in [0 .. NumRows(Cols(K))' - 1 -> [0 .. R' - 1 -> Nat]]
    BY <1>1
  <1>5. j' \in 0 .. R' /\ k' \in 0 .. K' /\ (pc' = "coord" => i' < N /\ j' < R')
    BY <1>1
  <1> QED
    BY <1>2, <1>3, <1>4, <1>5 DEF ScatterTypeInv, TypeOK

(* Every loop step keeps every variable in its type and the current     *)
(* element in range, the accumulating write included.                    *)
LEMMA NextScatterTypeInv == ScatterTypeInv /\ [Next]_vars => ScatterTypeInv'
  <1> SUFFICES ASSUME ScatterTypeInv, [Next]_vars PROVE ScatterTypeInv'
    OBVIOUS
  <1>0. /\ R \in Nat \ {0} /\ NumRows(Cols(K)) \in Nat /\ K \in Nat
        /\ i \in 0 .. N /\ j \in 0 .. R /\ k \in 0 .. K /\ w \in Int
        /\ inbound \in BOOLEAN /\ pc \in {"row", "coord", "done", "error"}
        /\ out \in [0 .. NumRows(Cols(K)) - 1 -> [0 .. R - 1 -> Nat]]
        /\ idx \in [Rows -> [0 .. Cols(K) - 1 -> IdxVals]]
        /\ (pc = "coord" => i < N /\ j < R)
    <2>1. Cols(K) \in KRange /\ K \in KRange \cup {N}
      BY DEF ScatterTypeInv, TypeOK
    <2>2. R \in Nat \ {0} /\ NumRows(Cols(K)) \in Nat /\ \A ii \in Nat : UpdLabel(ii) \in Nat
      BY <2>1, ScatterShapes
    <2>3. K \in Nat
      BY <2>1, NAssumption DEF KRange
    <2> QED
      BY <2>2, <2>3 DEF ScatterTypeInv, TypeOK
  <1>8. \A ii \in Nat : UpdLabel(ii) \in Nat
    <2>1. Cols(K) \in KRange
      BY DEF ScatterTypeInv
    <2> QED
      BY <2>1, ScatterShapes
  <1>1. CASE BeginElem
    <2>1. K' = K /\ idx' = idx /\ out' = out /\ i' = i /\ j' = j /\ pc' = "coord"
          /\ k' = 0 /\ w' = 0 /\ inbound' = TRUE /\ i < N /\ j < R
      BY <1>1 DEF BeginElem
    <2>2. /\ out' \in [0 .. NumRows(Cols(K)) - 1 -> [0 .. R - 1 -> Nat]]
          /\ i' \in 0 .. N /\ j' \in 0 .. R /\ k' \in 0 .. K /\ w' \in Int
          /\ inbound' \in BOOLEAN /\ pc' \in {"row", "coord", "done", "error"}
          /\ (pc' = "coord" => i' < N /\ j' < R)
      BY <1>0, <2>1
    <2> QED
      BY <2>1, <2>2, ScatterFrame
  <1>2. CASE NextRow
    <2>1. K' = K /\ idx' = idx /\ out' = out /\ i' = i + 1 /\ j' = 0 /\ pc' = "row"
          /\ k' = k /\ w' = w /\ inbound' = inbound /\ i < N
      BY <1>2 DEF NextRow
    <2>2. /\ out' \in [0 .. NumRows(Cols(K)) - 1 -> [0 .. R - 1 -> Nat]]
          /\ i' \in 0 .. N /\ j' \in 0 .. R /\ k' \in 0 .. K /\ w' \in Int
          /\ inbound' \in BOOLEAN /\ pc' \in {"row", "coord", "done", "error"}
          /\ (pc' = "coord" => i' < N /\ j' < R)
      BY <1>0, <2>1, NAssumption
    <2> QED
      BY <2>1, <2>2, ScatterFrame
  <1>3. CASE Finish
    <2>1. K' = K /\ idx' = idx /\ out' = out /\ i' = i /\ j' = j /\ pc' = "done"
          /\ k' = k /\ w' = w /\ inbound' = inbound
      BY <1>3 DEF Finish
    <2>2. /\ out' \in [0 .. NumRows(Cols(K)) - 1 -> [0 .. R - 1 -> Nat]]
          /\ i' \in 0 .. N /\ j' \in 0 .. R /\ k' \in 0 .. K /\ w' \in Int
          /\ inbound' \in BOOLEAN /\ pc' \in {"row", "coord", "done", "error"}
          /\ (pc' = "coord" => i' < N /\ j' < R)
      BY <1>0, <2>1
    <2> QED
      BY <2>1, <2>2, ScatterFrame
  <1>4. CASE CoordStep
    <2>1. /\ pc = "coord" /\ k < K /\ k' = k + 1 /\ K' = K /\ idx' = idx /\ out' = out
          /\ i' = i /\ j' = j
      BY <1>4 DEF CoordStep
    <2>2. k' \in 0 .. K /\ i < N /\ j < R
      BY <1>0, <2>1
    <2>3. CASE k < Cols(K)
      <3>1. i \in Rows /\ k \in 0 .. Cols(K) - 1 /\ k \in Axes
        <4>1. Cols(K) \in KRange
          BY DEF ScatterTypeInv
        <4>2. k \in Nat /\ k < Cols(K) /\ Cols(K) <= Rank /\ i \in Nat /\ i < N
          BY <1>0, <2>2, <2>3, <4>1 DEF KRange
        <4> QED
          BY <4>1, <4>2, NAssumption, RankAssumption DEF Rows, Axes, KRange
      <3>2. idx[i][k] \in Int
        BY <1>0, <3>1, IdxValsAssumption
      <3>3. Strides[k] \in Nat \ {0}
        BY <3>1, StridesAssumption
      <3>4. w' = TruncDiv(w + idx[i][k] * Strides[k], R)
            /\ inbound' = (inbound /\ InAxis(idx[i][k], k)) /\ pc' = pc
        BY <1>4, <2>3 DEF CoordStep
      <3>5. w' \in Int
        <4>1. w + idx[i][k] * Strides[k] \in Int /\ R \in Nat \ {0}
          BY <1>0, <3>2, <3>3
        <4>2. TruncDiv(w + idx[i][k] * Strides[k], R) \in Int
          BY <4>1, TruncDivType
        <4> QED
          BY <3>4, <4>2
      <3>6. inbound' \in BOOLEAN
        BY <3>4
      <3>7. /\ out' \in [0 .. NumRows(Cols(K)) - 1 -> [0 .. R - 1 -> Nat]]
            /\ i' \in 0 .. N /\ j' \in 0 .. R /\ k' \in 0 .. K /\ w' \in Int
            /\ inbound' \in BOOLEAN /\ pc' \in {"row", "coord", "done", "error"}
            /\ (pc' = "coord" => i' < N /\ j' < R)
        BY <1>0, <2>1, <2>2, <3>4, <3>5, <3>6
      <3> QED
        BY <2>1, <3>7, ScatterFrame
    <2>4. CASE ~(k < Cols(K))
      <3>1. pc' = "error" /\ inbound' = inbound /\ w' = w
        BY <1>4, <2>4 DEF CoordStep
      <3>2. /\ out' \in [0 .. NumRows(Cols(K)) - 1 -> [0 .. R - 1 -> Nat]]
            /\ i' \in 0 .. N /\ j' \in 0 .. R /\ k' \in 0 .. K /\ w' \in Int
            /\ inbound' \in BOOLEAN /\ pc' \in {"row", "coord", "done", "error"}
            /\ (pc' = "coord" => i' < N /\ j' < R)
        BY <1>0, <2>1, <2>2, <3>1
      <3> QED
        BY <2>1, <3>2, ScatterFrame
    <2> QED
      BY <2>3, <2>4
  <1>5. CASE Write
    <2>1. /\ pc = "coord" /\ k = K /\ j' = j + 1 /\ K' = K /\ idx' = idx /\ i' = i
          /\ k' = k /\ w' = w /\ inbound' = inbound
      BY <1>5 DEF Write
    <2>2. i \in Rows /\ j \in 0 .. R - 1 /\ j' \in 0 .. R /\ i' \in 0 .. N
      BY <1>0, <2>1, NAssumption DEF Rows
    <2>3. CASE inbound /\ PyIndexOK(w, NumRows(Cols(K)))
      <3>1. PyIndex(w, NumRows(Cols(K))) \in 0 .. NumRows(Cols(K)) - 1
        BY <1>0, <2>3, PyIndexRange
      <3>2. UpdLabel(i) + out[PyIndex(w, NumRows(Cols(K)))][j] \in Nat
        <4>1. UpdLabel(i) \in Nat
          BY <1>8, <2>2 DEF Rows
        <4>2. out[PyIndex(w, NumRows(Cols(K)))][j] \in Nat
          BY <1>0, <2>2, <3>1
        <4> QED
          BY <4>1, <4>2
      <3>3. out' = [out EXCEPT ![PyIndex(w, NumRows(Cols(K)))][j] = UpdLabel(i) + @]
            /\ pc' = "row"
        BY <1>5, <2>3 DEF Write
      <3>4. out' \in [0 .. NumRows(Cols(K)) - 1 -> [0 .. R - 1 -> Nat]]
        BY <1>0, <2>2, <3>1, <3>2, <3>3
      <3>5. /\ i' \in 0 .. N /\ j' \in 0 .. R /\ k' \in 0 .. K /\ w' \in Int
            /\ inbound' \in BOOLEAN /\ pc' \in {"row", "coord", "done", "error"}
            /\ (pc' = "coord" => i' < N /\ j' < R)
        BY <1>0, <2>1, <2>2, <3>3
      <3> QED
        BY <2>1, <3>4, <3>5, ScatterFrame
    <2>4. CASE ~(inbound /\ PyIndexOK(w, NumRows(Cols(K))))
      <3>1. out' = out /\ pc' \in {"row", "error"}
        BY <1>5, <2>4 DEF Write
      <3>2. /\ out' \in [0 .. NumRows(Cols(K)) - 1 -> [0 .. R - 1 -> Nat]]
            /\ i' \in 0 .. N /\ j' \in 0 .. R /\ k' \in 0 .. K /\ w' \in Int
            /\ inbound' \in BOOLEAN /\ pc' \in {"row", "coord", "done", "error"}
            /\ (pc' = "coord" => i' < N /\ j' < R)
        BY <1>0, <2>1, <2>2, <3>1
      <3> QED
        BY <2>1, <3>2, ScatterFrame
    <2> QED
      BY <2>3, <2>4
  <1>6. CASE UNCHANGED vars
    <2>1. K' = K /\ idx' = idx /\ out' = out /\ i' = i /\ j' = j /\ k' = k /\ w' = w
          /\ inbound' = inbound /\ pc' = pc
      BY <1>6 DEF vars
    <2>2. /\ out' \in [0 .. NumRows(Cols(K)) - 1 -> [0 .. R - 1 -> Nat]]
          /\ i' \in 0 .. N /\ j' \in 0 .. R /\ k' \in 0 .. K /\ w' \in Int
          /\ inbound' \in BOOLEAN /\ pc' \in {"row", "coord", "done", "error"}
          /\ (pc' = "coord" => i' < N /\ j' < R)
      BY <1>0, <2>1
    <2> QED
      BY <2>1, <2>2, ScatterFrame
  <1> QED
    BY <1>1, <1>2, <1>3, <1>4, <1>5, <1>6 DEF Next

(* Type correctness of tensor_scatter_add_np, for every data shape,      *)
(* index set and number of tuples, and both branches of indices.ndim:    *)
(* the accumulating write stays inside out and keeps its elements natural. *)
THEOREM ScatterTypeOK == Spec => []TypeOK
  <1>1. Init => ScatterTypeInv
    BY InitScatterTypeInv
  <1>2. ScatterTypeInv /\ [Next]_vars => ScatterTypeInv'
    BY NextScatterTypeInv
  <1>3. ScatterTypeInv => TypeOK
    BY DEF ScatterTypeInv
  <1> QED
    BY <1>1, <1>2, <1>3, PTL DEF Spec

=============================================================================
