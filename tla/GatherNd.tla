------------------------------ MODULE GatherNd ------------------------------
(***************************************************************************)
(* Gather by index tuple, as op_dsl.py computes it along two paths:        *)
(*                                                                         *)
(*  - gather_nd_np (lines 38-62), the bounds-suppressing helper: a loop    *)
(*    over the N index tuples i and the R columns j of a slice, with an    *)
(*    inner loop over the K coordinates k that accumulates the row to read *)
(*    and the in-bounds flag; an in-bounds element is copied, an           *)
(*    out-of-bounds one keeps the zero of np.zeros;                        *)
(*                                                                         *)
(*  - the registry's "GatherNd" entry (lines 779-781), which evaluates     *)
(*    data[tuple(indices.transpose().tolist())], numpy advanced indexing.  *)
(*                                                                         *)
(* Path selects which one a run models: Spec is the helper, whose element *)
(* (i, j) is one BeginElem, K CoordStep and one Write step in the code's   *)
(* loop order; RegistrySpec is the registry's one-shot evaluation.         *)
(***************************************************************************)
EXTENDS IndexKernels

CONSTANT Path    \* "gather_nd_np" or "registry"

ASSUME PathAssumption == Path \in {"gather_nd_np", "registry"}

VARIABLES
  K,        \* indices.shape[-1]
  idx,      \* new_indices: N tuples of K coordinates
  out,      \* out, viewed as an N x R matrix
  i,        \* loop variable over index tuples
  j,        \* loop variable over slice columns
  k,        \* loop variable over coordinates
  w,        \* index_write[0]
  inbound,  \* inbound
  pc        \* "row", "coord", "registry", "done" or "error"

vars == <<K, idx, out, i, j, k, w, inbound, pc>>

Rows == 0 .. N - 1

(* The np.zeros output of the right shape for K coordinates. *)
ZeroOut(kk) == [r \in Rows |-> [c \in 0 .. RowLen(kk) - 1 |-> 0]]

Init ==
  /\ K \in KRange
  /\ idx \in [Rows -> [0 .. K - 1 -> IdxVals]]
  /\ out = ZeroOut(K)
  /\ i = 0
  /\ j = 0
  /\ k = 0
  /\ w = 0
  /\ inbound = TRUE
  /\ pc = IF Path = "gather_nd_np" THEN "row" ELSE "registry"

(* Mutant of BeginElem: the "for j" bound is not tested. *)
BeginElemNoBound ==
  /\ pc = "row"
  /\ i < N
  /\ w' = 0
  /\ inbound' = TRUE
  /\ k' = 0
  /\ pc' = "coord"
  /\ UNCHANGED <<K, idx, out, i, j>>

(* Entering the body of "for j": index_write = [0, 0], inbound = True. *)
BeginElem ==
  /\ pc = "row"
  /\ i < N
  /\ j < RowLen(K)
  /\ w' = 0
  /\ inbound' = TRUE
  /\ k' = 0
  /\ pc' = "coord"
  /\ UNCHANGED <<K, idx, out, i, j>>

(* The "for j" loop is exhausted: next index tuple. *)
NextRow ==
  /\ pc = "row"
  /\ i < N
  /\ j = RowLen(K)
  /\ i' = i + 1
  /\ j' = 0
  /\ UNCHANGED <<K, idx, out, k, w, inbound, pc>>

(* The "for i" loop is exhausted: out.reshape(out_shape) is returned. *)
Finish ==
  /\ pc = "row"
  /\ i = N
  /\ pc' = "done"
  /\ UNCHANGED <<K, idx, out, i, j, k, w, inbound>>

(* One iteration of "for k": bounds test, then the two index_write       *)
(* updates, the second dividing by out.shape[1] inside the loop.         *)
CoordStep ==
  /\ pc = "coord"
  /\ k < K
  /\ LET t == idx[i][k] IN
       /\ inbound' = (inbound /\ InAxis(t, k))
       /\ w' = TruncDiv(w + t * Strides[k], RowLen(K))
  /\ k' = k + 1
  /\ UNCHANGED <<K, idx, out, i, j, pc>>

(* Mutant of Write: index_write[1] = j is forgotten, column 0 is read. *)
WriteNoCol ==
  /\ pc = "coord"
  /\ k = K
  /\ IF inbound
       THEN IF PyIndexOK(w, NumRows(K))
              THEN /\ out' = [out EXCEPT ![i][j] =
                                DataLabel(PyIndex(w, NumRows(K)), 0, K)]
                   /\ pc' = "row"
              ELSE /\ out' = out
                   /\ pc' = "error"
       ELSE /\ out' = out
            /\ pc' = "row"
  /\ j' = j + 1
  /\ UNCHANGED <<K, idx, i, k, w, inbound>>

(* After the k loop: if inbound, out[i, j] = new_data[index_write, j];   *)
(* an index_write outside new_data's rows raises IndexError.             *)
Write ==
  /\ pc = "coord"
  /\ k = K
  /\ IF inbound
       THEN IF PyIndexOK(w, NumRows(K))
              THEN /\ out' = [out EXCEPT ![i][j] =
                                DataLabel(PyIndex(w, NumRows(K)), j, K)]
                   /\ pc' = "row"
              ELSE /\ out' = out
                   /\ pc' = "error"
       ELSE /\ out' = out
            /\ pc' = "row"
  /\ j' = j + 1
  /\ UNCHANGED <<K, idx, i, k, w, inbound>>

(* data[tuple(indices.T)]: each coordinate is a numpy index into its     *)
(* axis, negative ones wrap and out-of-range ones raise IndexError; tuple *)
(* r reads row[r], the row its wrapped coordinates address.  Indices are  *)
(* the (N, K) array of the model; for three or more dimensions the code's *)
(* transpose() also reverses the batch axes, which is not represented.    *)
RegistryGather ==
  /\ pc = "registry"
  /\ IF \A r \in Rows, q \in 0 .. K - 1 : PyIndexOK(idx[r][q], DataShape[q])
       THEN \E row \in [Rows -> 0 .. NumRows(K) - 1] :
              /\ \A r \in Rows :
                   Addresses(row[r], [q \in 0 .. K - 1 |->
                                       PyIndex(idx[r][q], DataShape[q])], K)
              /\ out' = [r \in Rows |-> [c \in 0 .. RowLen(K) - 1 |->
                                            DataLabel(row[r], c, K)]]
              /\ pc' = "done"
       ELSE /\ out' = out
            /\ pc' = "error"
  /\ UNCHANGED <<K, idx, i, j, k, w, inbound>>

Next ==
  \/ BeginElem
  \/ NextRow
  \/ Finish
  \/ CoordStep
  \/ Write

(* A sequential function call: it runs to its end or to an exception. *)
Spec == Init /\ [][Next]_vars /\ WF_vars(Next)

(* The registry's lambda: one evaluation of the numpy expression. *)
RegistrySpec == Init /\ [][RegistryGather]_vars

-----------------------------------------------------------------------------

TypeOK ==
  /\ K \in KRange
  /\ idx \in [Rows -> [0 .. K - 1 -> IdxVals]]
  /\ out \in [Rows -> [0 .. RowLen(K) - 1 -> Nat]]
  /\ i \in 0 .. N
  /\ j \in 0 .. RowLen(K)
  /\ k \in 0 .. K
  /\ w \in Int
  /\ inbound \in BOOLEAN
  /\ pc \in {"row", "coord", "registry", "done", "error"}

(* Element (r, c) has been produced by the code. *)
Written(r, c) == pc = "done" \/ r < i \/ (r = i /\ c < j)

(* Out-of-bounds suppression (spec 4.4, 7): an index tuple with a        *)
(* component < 0 or >= the data axis contributes an all-zero output row,  *)
(* whatever the other tuples read.                                         *)
GatherOOBZero ==
  \A r \in Rows :
    ~InBounds(idx[r], K) => \A c \in 0 .. RowLen(K) - 1 : out[r][c] = 0

(* Every output element already produced for an in-bounds tuple holds    *)
(* the data element the tuple addresses: column c of the row of          *)
(* data.reshape(-1, R) whose first K coordinates are the tuple.            *)
GatherInBoundsExact ==
  \A r \in Rows, c \in 0 .. RowLen(K) - 1 :
    Written(r, c) /\ InBounds(idx[r], K) =>
      \E x \in 0 .. NumRows(K) - 1 :
        Addresses(x, idx[r], K) /\ out[r][c] = DataLabel(x, c, K)

(* The helper always returns: no index tuple makes it raise. *)
Termination == <>(pc = "done")

(* The rows the abstract gather has produced: those of the tuples the     *)
(* "for i" loop has finished; the row being filled still reads as zeros.  *)
AbsOut == [r \in Rows |-> IF r < i \/ pc = "done" THEN out[r]
                          ELSE [c \in 0 .. RowLen(K) - 1 |-> 0]]

Abs == INSTANCE GatherRows WITH out <- AbsOut, row <- i, finished <- (pc = "done")

(* gather_nd_np implements the spec's gather (4.4): its element-by-      *)
(* element loop, with the coordinate loop and the in-bounds flag, is a    *)
(* gather of one whole index tuple each time the "for j" loop completes, *)
(* and it returns once every tuple is gathered.                           *)
GatherRefines == Abs!GSpec

=============================================================================
