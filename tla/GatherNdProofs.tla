--------------------------- MODULE GatherNdProofs ---------------------------
(***************************************************************************)
(* Proofs about GatherNd for every data shape, every number of index      *)
(* tuples and every set of coordinate values.                             *)
(***************************************************************************)
EXTENDS GatherNd, IndexKernelsProofs, TLAPS

(* The type invariant with what the loop structure guarantees inside the *)
(* k loop: the current element (i, j) exists and k has not passed K.    *)
TypeInv ==
  /\ TypeOK
  /\ pc = "coord" => i < N /\ j < RowLen(K)

(* The strengthening of GatherOOBZero for the gather_nd_np path: inside   *)
(* the k loop inbound says exactly whether the coordinates seen so far    *)
(* are in their axes, and a non-zero output element belongs to a tuple    *)
(* that is in bounds.                                                      *)
IInv ==
  /\ TypeInv
  /\ pc # "registry"
  /\ pc = "coord" =>
       (inbound <=> \A q \in 0 .. k - 1 : 0 <= idx[i][q] /\ idx[i][q] < DataShape[q])
  /\ \A r \in Rows, c \in 0 .. RowLen(K) - 1 :
       out[r][c] # 0 => InBounds(idx[r], K)

-----------------------------------------------------------------------------

(* The output starts as np.zeros of the shape the index array selects. *)
LEMMA InitTypeInv == Init => TypeInv
  <1> SUFFICES ASSUME Init PROVE TypeInv
    OBVIOUS
  <1>1. K \in Nat \ {0} /\ RowLen(K) \in Nat \ {0}
    BY RowLenType, RankAssumption DEF Init, KRange
  <1> QED
    BY <1>1, NAssumption DEF Init, TypeInv, TypeOK, ZeroOut, Rows

(* Every loop step of the helper keeps every variable in its type and   *)
(* the current element in range.                                         *)
LEMMA NextTypeInv == TypeInv /\ [Next]_vars => TypeInv'
  <1> SUFFICES ASSUME TypeInv, [Next]_vars PROVE TypeInv'
    OBVIOUS
  <1> USE NAssumption DEF TypeInv, TypeOK
  <1>0. K \in Nat \ {0} /\ RowLen(K) \in Nat \ {0} /\ NumRows(K) \in Nat
    BY RowLenType, NumRowsType, RankAssumption DEF KRange
  <1>1. CASE BeginElem
    BY <1>0, <1>1 DEF BeginElem
  <1>2. CASE NextRow
    BY <1>2, <1>0 DEF NextRow
  <1>3. CASE Finish
    BY <1>0, <1>3 DEF Finish
  <1>4. CASE CoordStep
    <2>1. i \in Rows /\ k \in 0 .. K - 1 /\ k \in Axes
      BY <1>0, <1>4, RankAssumption DEF CoordStep, Rows, KRange, Axes
    <2>2. idx[i][k] \in Int
      <3>1. idx[i] \in [0 .. K - 1 -> IdxVals]
        BY <2>1
      <3> QED
        BY <2>1, <3>1, IdxValsAssumption
    <2>3. Strides[k] \in Nat \ {0}
      <3>1. Strides \in [Axes -> Nat \ {0}]
        BY StridesAssumption
      <3> QED
        BY <2>1, <3>1
    <2>4. idx[i][k] * Strides[k] \in Int
      BY <2>2, <2>3
    <2>5. w' \in Int
      BY <1>0, <1>4, <2>4, TruncDivType DEF CoordStep
    <2> QED
      BY <1>0, <1>4, <2>5 DEF CoordStep
  <1>5. CASE Write
    <2>1. CASE inbound /\ PyIndexOK(w, NumRows(K))
      <3>1. PyIndex(w, NumRows(K)) \in Nat
        BY <2>1, <1>0, PyIndexRange
      <3>2. DataLabel(PyIndex(w, NumRows(K)), j, K) \in Nat
        BY <3>1, DataLabelPos
      <3>3. out' = [out EXCEPT ![i][j] = DataLabel(PyIndex(w, NumRows(K)), j, K)]
            /\ pc' = "row" /\ j' = j + 1
        BY <1>5, <2>1 DEF Write
      <3>4. i \in Rows /\ j \in 0 .. RowLen(K) - 1
        BY <1>0, <1>5 DEF Write, Rows
      <3>5. out' \in [Rows -> [0 .. RowLen(K) - 1 -> Nat]]
        BY <3>2, <3>3, <3>4
      <3> QED
        BY <1>0, <1>5, <3>3, <3>4, <3>5 DEF Write
    <2>2. CASE ~(inbound /\ PyIndexOK(w, NumRows(K)))
      <3>1. out' = out /\ pc' \in {"row", "error"} /\ j' = j + 1
        BY <1>5, <2>2 DEF Write
      <3> QED
        BY <1>0, <1>5, <3>1 DEF Write
    <2> QED
      BY <2>1, <2>2
  <1>6. CASE UNCHANGED vars
    BY <1>0, <1>6 DEF vars
  <1> QED
    BY <1>1, <1>2, <1>3, <1>4, <1>5, <1>6 DEF Next

(* The registry's one-shot gather keeps every variable in its type: the *)
(* rows it reads are rows of data.                                        *)
LEMMA RegistryTypeInv == TypeInv /\ [RegistryGather]_vars => TypeInv'
  <1> SUFFICES ASSUME TypeInv, [RegistryGather]_vars PROVE TypeInv'
    OBVIOUS
  <1> USE NAssumption DEF TypeInv, TypeOK
  <1>0. K \in Nat \ {0} /\ RowLen(K) \in Nat \ {0} /\ NumRows(K) \in Nat
    BY RowLenType, NumRowsType, RankAssumption DEF KRange
  <1>1. CASE RegistryGather
    <2>1. CASE \A r \in Rows, q \in 0 .. K - 1 : PyIndexOK(idx[r][q], DataShape[q])
      <3>1. PICK row \in [Rows -> 0 .. NumRows(K) - 1] :
              out' = [r \in Rows |-> [c \in 0 .. RowLen(K) - 1 |->
                                        DataLabel(row[r], c, K)]]
              /\ pc' = "done"
        BY <1>1, <2>1 DEF RegistryGather
      <3>2. \A r \in Rows, c \in 0 .. RowLen(K) - 1 : DataLabel(row[r], c, K) \in Nat
        <4> SUFFICES ASSUME NEW r \in Rows, NEW c \in 0 .. RowLen(K) - 1
                     PROVE DataLabel(row[r], c, K) \in Nat
          OBVIOUS
        <4>1. row[r] \in Nat /\ c \in Nat
          BY <1>0, <3>1
        <4> QED
          BY <4>1, DataLabelPos
      <3>3. out' \in [Rows -> [0 .. RowLen(K) - 1 -> Nat]]
        BY <3>1, <3>2
      <3> QED
        BY <1>1, <3>1, <3>3 DEF RegistryGather
    <2>2. CASE ~\A r \in Rows, q \in 0 .. K - 1 : PyIndexOK(idx[r][q], DataShape[q])
      BY <1>1, <2>2 DEF RegistryGather
    <2> QED
      BY <2>1, <2>2
  <1>2. CASE UNCHANGED vars
    BY <1>0, <1>2 DEF vars
  <1> QED
    BY <1>1, <1>2

(* Type correctness of both gather paths for every shape and index set. *)
LEMMA TypeCorrect == (Spec => []TypeInv) /\ (RegistrySpec => []TypeInv)
  <1>1. Spec => []TypeInv
    BY InitTypeInv, NextTypeInv, PTL DEF Spec
  <1>2. RegistrySpec => []TypeInv
    BY InitTypeInv, RegistryTypeInv, PTL DEF RegistrySpec
  <1> QED
    BY <1>1, <1>2

(* The type invariant the runs check: on both gather paths (the loop    *)
(* nest and the registry lambda) the output keeps the shape             *)
(* np.zeros(out_shape) gave it and the loop counters stay in range.     *)
THEOREM GatherTypeOK == (Spec => []TypeOK) /\ (RegistrySpec => []TypeOK)
  <1>1. TypeInv => TypeOK
    BY DEF TypeInv
  <1> QED
    BY <1>1, TypeCorrect, PTL

-----------------------------------------------------------------------------
(* Out-of-bounds suppression.                                              *)

(* The helper starts with pc = "row" and an all-zero output. *)
LEMMA InitIInv == Path = "gather_nd_np" /\ Init => IInv
  <1> SUFFICES ASSUME Path = "gather_nd_np", Init PROVE IInv
    OBVIOUS
  <1>1. TypeInv
    BY InitTypeInv
  <1>2. pc = "row" /\ out = ZeroOut(K)
    BY DEF Init
  <1> QED
    BY <1>1, <1>2 DEF IInv, ZeroOut

(* A step of the helper keeps inbound equal to the bounds test of the    *)
(* coordinates read so far, and writes a non-zero value only into the row *)
(* of a tuple whose K coordinates all passed that test.                   *)
LEMMA NextIInv == IInv /\ [Next]_vars => IInv'
  <1> SUFFICES ASSUME IInv, [Next]_vars PROVE IInv'
    OBVIOUS
  <1> DEFINE Seen(kk) == \A q \in 0 .. kk - 1 : 0 <= idx[i][q] /\ idx[i][q] < DataShape[q]
  <1>0. TypeInv'
    BY NextTypeInv DEF IInv
  <1>1. K \in Nat \ {0} /\ RowLen(K) \in Nat \ {0}
    BY RowLenType, RankAssumption DEF IInv, TypeInv, TypeOK, KRange
  <1>2. CASE BeginElem
    <2>1. pc' = "coord" /\ k' = 0 /\ inbound' /\ pc # "registry"
      BY <1>2 DEF BeginElem, IInv
    <2> QED
      BY <1>0, <1>2, <2>1 DEF BeginElem, IInv
  <1>3. CASE NextRow
    BY <1>0, <1>3 DEF NextRow, IInv
  <1>4. CASE Finish
    BY <1>0, <1>4 DEF Finish, IInv
  <1>5. CASE CoordStep
    <2>1. k \in 0 .. K - 1 /\ k' = k + 1
      BY <1>1, <1>5 DEF CoordStep, IInv, TypeInv, TypeOK
    <2>2. inbound <=> Seen(k)
      BY <1>5 DEF CoordStep, IInv
    <2>3. inbound' <=> inbound /\ 0 <= idx[i][k] /\ idx[i][k] < DataShape[k]
      BY <1>5 DEF CoordStep, InAxis
    <2>4. Seen(k + 1) <=> Seen(k) /\ 0 <= idx[i][k] /\ idx[i][k] < DataShape[k]
      BY <2>1
    <2>5. (inbound <=> Seen(k))'
      BY <1>5, <2>1, <2>2, <2>3, <2>4 DEF CoordStep
    <2> QED
      BY <1>0, <1>5, <2>5 DEF CoordStep, IInv
  <1>6. CASE Write
    <2>1. pc' # "coord" /\ pc' # "registry"
      BY <1>6 DEF Write
    <2>2. i \in Rows /\ j \in 0 .. RowLen(K) - 1 /\ k = K
      BY <1>1, <1>6, NAssumption DEF Write, IInv, TypeInv, TypeOK, Rows
    <2>3. inbound => InBounds(idx[i], K)
      BY <1>6, <2>2 DEF Write, IInv, InBounds
    <2>4. \A r \in Rows, c \in 0 .. RowLen(K) - 1 :
            out'[r][c] # 0 => InBounds(idx[r], K)
      <3> SUFFICES ASSUME NEW r \in Rows, NEW c \in 0 .. RowLen(K) - 1,
                          out'[r][c] # 0
                   PROVE  InBounds(idx[r], K)
        OBVIOUS
      <3>1. CASE inbound /\ PyIndexOK(w, NumRows(K))
        <4>1. out' = [out EXCEPT ![i][j] = DataLabel(PyIndex(w, NumRows(K)), j, K)]
          BY <1>6, <3>1 DEF Write
        <4>2. CASE r = i
          BY <2>3, <3>1, <4>2
        <4>3. CASE r # i
          <5>1. out'[r][c] = out[r][c]
            BY <2>2, <4>1, <4>3 DEF IInv, TypeInv, TypeOK
          <5> QED
            BY <5>1 DEF IInv
        <4> QED
          BY <4>2, <4>3
      <3>2. CASE ~(inbound /\ PyIndexOK(w, NumRows(K)))
        <4>1. out' = out
          BY <1>6, <3>2 DEF Write
        <4> QED
          BY <4>1 DEF IInv
      <3> QED
        BY <3>1, <3>2
    <2> QED
      BY <1>0, <1>6, <2>1, <2>4 DEF Write, IInv
  <1>7. CASE UNCHANGED vars
    BY <1>0, <1>7 DEF vars, IInv
  <1> QED
    BY <1>2, <1>3, <1>4, <1>5, <1>6, <1>7 DEF Next

(* gather_nd_np (op_dsl.py 38-62) returns an all-zero slice for every    *)
(* index tuple with a coordinate outside its data axis, for every data    *)
(* shape, every number of tuples and every set of coordinate values.      *)
THEOREM OOBZero == Path = "gather_nd_np" /\ Spec => []GatherOOBZero
  <1>1. Path = "gather_nd_np" /\ Init => IInv
    BY InitIInv
  <1>2. IInv /\ [Next]_vars => IInv'
    BY NextIInv
  <1>3. IInv => GatherOOBZero
    BY DEF IInv, GatherOOBZero
  <1> QED
    BY <1>1, <1>2, <1>3, PTL DEF Spec

=============================================================================
