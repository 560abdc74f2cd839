-------------------------- MODULE TensorScatterAdd --------------------------
(***************************************************************************)
(* tensor_scatter_add_np (op_dsl.py lines 65-91), the kernel behind the    *)
(* registry's "TensorScatterAdd" entry (lines 775-778).  out starts as a   *)
(* copy of data viewed as a (rows x R) matrix; for every index tuple i and *)
(* column j the K coordinates are folded into index_write[0] exactly as in *)
(* gather_nd_np, and an in-bounds element is accumulated:                  *)
(*      out[index_write] = new_updates[i, j] + out[index_write]            *)
(*                                                                         *)
(* IndexNdim is indices.ndim: 2 stands for every ndim > 1 (the code only   *)
(* tests ndim > 1).  With ndim 1 the code views the indices as N tuples of *)
(* one coordinate but still loops k over indices.shape[-1] = N.            *)
(***************************************************************************)
EXTENDS IndexKernels

CONSTANT IndexNdim

ASSUME IndexNdimAssumption == IndexNdim \in {1, 2}

VARIABLES
  K,        \* indices.shape[-1]: the k loop's bound
  idx,      \* new_indices: N rows of Cols(K) coordinates
  out,      \* out, data.reshape(-1, R) being accumulated into
  i,        \* loop variable over index tuples
  j,        \* loop variable over slice columns
  k,        \* loop variable over coordinates
  w,        \* index_write[0]
  inbound,  \* inbound
  pc        \* "row", "coord", "done" or "error"

vars == <<K, idx, out, i, j, k, w, inbound, pc>>

Rows == 0 .. N - 1

(* new_indices.shape[1]: K, or 1 for a one-dimensional index array. *)
Cols(kk) == IF IndexNdim > 1 THEN kk ELSE 1

(* out.shape[1]: prod(data_shape[K:]), or prod(data_shape[1:]). *)
R == RowLen(Cols(K))

(* new_updates[i, j]: updates are labelled so that every subset of them   *)
(* has its own sum and no sum of updates equals a data label difference.  *)
UpdLabel(ii) == (Total + 1) * 2 ^ ii

(* The copy of data that out starts from. *)
DataOut(kk) == [r \in 0 .. NumRows(kk) - 1 |->
                  [c \in 0 .. RowLen(kk) - 1 |-> DataLabel(r, c, kk)]]

Init ==
  /\ K \in IF IndexNdim > 1 THEN KRange ELSE {N}
  /\ idx \in [Rows -> [0 .. Cols(K) - 1 -> IdxVals]]
  /\ out = DataOut(Cols(K))
  /\ i = 0
  /\ j = 0
  /\ k = 0
  /\ w = 0
  /\ inbound = TRUE
  /\ pc = "row"

(* Mutant of BeginElem: the "for j" bound is not tested. *)
BeginElemNoBound ==
  /\ pc = "row"
  /\ i < N
  /\ w' = 0
  /\ inbound' = TRUE
  /\ k' = 0
  /\ pc' = "coord"
  /\ UNCHANGED <<K, idx, out, i, j>>

(* Entering the body of "for j": index_write = [0, 0], inbound = True. *)
BeginElem ==
  /\ pc = "row"
  /\ i < N
  /\ j < R
  /\ w' = 0
  /\ inbound' = TRUE
  /\ k' = 0
  /\ pc' = "coord"
  /\ UNCHANGED <<K, idx, out, i, j>>

NextRow ==
  /\ pc = "row"
  /\ i < N
  /\ j = R
  /\ i' = i + 1
  /\ j' = 0
  /\ UNCHANGED <<K, idx, out, k, w, inbound, pc>>

(* out.reshape(data_shape) is returned. *)
Finish ==
  /\ pc = "row"
  /\ i = N
  /\ pc' = "done"
  /\ UNCHANGED <<K, idx, out, i, j, k, w, inbound>>

(* One iteration of "for k in range(indices_shape[-1])"; new_indices[i, k] *)
(* raises IndexError when k is not a column of new_indices.                 *)
CoordStep ==
  /\ pc = "coord"
  /\ k < K
  /\ IF k < Cols(K)
       THEN LET t == idx[i][k] IN
              /\ inbound' = (inbound /\ InAxis(t, k))
              /\ w' = TruncDiv(w + t * Strides[k], R)
              /\ pc' = pc
       ELSE /\ pc' = "error"
            /\ UNCHANGED <<inbound, w>>
  /\ k' = k + 1
  /\ UNCHANGED <<K, idx, out, i, j>>

(* Mutant of Write: the update overwrites instead of accumulating. *)
WriteOverwrite ==
  /\ pc = "coord"
  /\ k = K
  /\ IF inbound
       THEN IF PyIndexOK(w, NumRows(Cols(K)))
              THEN /\ out' = [out EXCEPT ![PyIndex(w, NumRows(Cols(K)))][j] =
                                UpdLabel(i)]
                   /\ pc' = "row"
              ELSE /\ out' = out
                   /\ pc' = "error"
       ELSE /\ out' = out
            /\ pc' = "row"
  /\ j' = j + 1
  /\ UNCHANGED <<K, idx, i, k, w, inbound>>

(* After the k loop: accumulate new_updates[i, j] into out[index_write, j]; *)
(* an index_write outside out's rows raises IndexError.                      *)
Write ==
  /\ pc = "coord"
  /\ k = K
  /\ IF inbound
       THEN IF PyIndexOK(w, NumRows(Cols(K)))
              THEN /\ out' = [out EXCEPT ![PyIndex(w, NumRows(Cols(K)))][j] =
                                UpdLabel(i) + @]
                   /\ pc' = "row"
              ELSE /\ out' = out
                   /\ pc' = "error"
       ELSE /\ out' = out
            /\ pc' = "row"
  /\ j' = j + 1
  /\ UNCHANGED <<K, idx, i, k, w, inbound>>

Next ==
  \/ BeginElem
  \/ NextRow
  \/ Finish
  \/ CoordStep
  \/ Write

(* A sequential function call: it runs to its end or to an exception. *)
Spec == Init /\ [][Next]_vars /\ WF_vars(Next)

-----------------------------------------------------------------------------

TypeOK ==
  /\ K \in KRange \cup {N}
  /\ idx \in [Rows -> [0 .. Cols(K) - 1 -> IdxVals]]
  /\ out \in [0 .. NumRows(Cols(K)) - 1 -> [0 .. R - 1 -> Nat]]
  /\ i \in 0 .. N
  /\ j \in 0 .. R
  /\ k \in 0 .. K
  /\ w \in Int
  /\ inbound \in BOOLEAN
  /\ pc \in {"row", "coord", "done", "error"}

(* What scatter-add must return: data plus, at every element, the sum of  *)
(* the updates of all in-bounds tuples addressing its row.                 *)
RefScatter ==
  LET kk == Cols(K)
      Hits(r) == {ii \in Rows : InBounds(idx[ii], kk) /\ Addresses(r, idx[ii], kk)}
      sum[S \in SUBSET Rows] ==
        IF S = {} THEN 0
        ELSE LET m == CHOOSE m \in S : TRUE IN UpdLabel(m) + sum[S \ {m}]
  IN [r \in 0 .. NumRows(kk) - 1 |->
        [c \in 0 .. RowLen(kk) - 1 |-> DataLabel(r, c, kk) + sum[Hits(r)]]]

(* Scatter-add (spec 4.4, 8): when the kernel returns, every in-bounds    *)
(* update has been added to the element its tuple addresses, updates to   *)
(* the same element sum instead of overwriting, and out-of-bounds tuples  *)
(* change nothing.                                                          *)
ScatterMatchesReference == pc = "done" => out = RefScatter

(* The kernel returns: no index array makes it raise. *)
Termination == <>(pc = "done")

=============================================================================
