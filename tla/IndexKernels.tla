---------------------------- MODULE IndexKernels ----------------------------
(***************************************************************************)
(* Shared constants and index arithmetic of the two tuple-indexed kernels  *)
(* of src/python/akg/utils/op_dsl.py: gather_nd_np and                     *)
(* tensor_scatter_add_np.  Both flatten the index array to N rows of K     *)
(* coordinates, view the data as a (rows x R) matrix where                 *)
(* R = prod(data_shape[K:]), and compute the row to access with the same   *)
(* loop over k:                                                            *)
(*                                                                         *)
(*    index_write[0] += int(temp_idx * data.strides[k] / data.itemsize)    *)
(*    index_write[0]  = int(index_write[0] / out.shape[1])                 *)
(*                                                                         *)
(* Axes are 0-indexed as in the code: DataShape and Strides are functions  *)
(* on 0..Rank-1.  Strides is data.strides / data.itemsize, the element     *)
(* strides of a C-contiguous array (what np.random and np.zeros build).    *)
(*                                                                         *)
(* Data is abstracted to labels: the element of flat position f holds      *)
(* f + 1, so every element is told apart from every other and from the     *)
(* zero that np.zeros fills the output with.  The kernels only move and    *)
(* add values, so labels are as general as any data.                      *)
(***************************************************************************)
EXTENDS Integers

CONSTANTS
  Rank,       \* data.ndim
  DataShape,  \* data.shape, a function on 0..Rank-1
  Strides,    \* data.strides[k] / data.itemsize
  N,          \* number of index tuples, new_indices.shape[0]
  IdxVals     \* the values an index component may take

Axes == 0 .. Rank - 1

ASSUME RankAssumption == Rank \in Nat \ {0}

ASSUME ShapeAssumption == DataShape \in [Axes -> Nat \ {0}]

(* data.strides of a C-contiguous array, in elements *)
ASSUME StridesAssumption ==
  /\ Strides \in [Axes -> Nat \ {0}]
  /\ Strides[Rank - 1] = 1
  /\ \A d \in 0 .. Rank - 2 : Strides[d] = DataShape[d + 1] * Strides[d + 1]

ASSUME NAssumption == N \in Nat \ {0}

ASSUME IdxValsAssumption == IdxVals \subseteq Int /\ IdxVals # {}

(* Number of coordinates per index tuple: indices.shape[-1]. *)
KRange == 1 .. Rank

(* out.shape[1] = prod(data_shape[K:]), the length of one gathered slice. *)
RowLen(K) == IF K = Rank THEN 1 ELSE DataShape[K] * Strides[K]

(* Total number of elements, np.prod(data_shape). *)
Total == DataShape[0] * Strides[0]

(* prod(data_shape[:K]): rows of data.reshape(-1, RowLen(K)). *)
NumRows(K) == Total \div RowLen(K)

(* Python int(a / b) for b > 0: division truncating toward zero. *)
TruncDiv(a, b) == IF a >= 0 THEN a \div b ELSE -((-a) \div b)

(* Mutants of InAxis: the lower or the upper bound test dropped. *)
InAxisNoLower(v, k) == v < DataShape[k]
InAxisNoUpper(v, k) == v >= 0

(* The component test of the loop: 0 <= temp_idx < data_shape[k]. *)
InAxis(v, k) == v >= 0 /\ v < DataShape[k]

(* The spec's in-bounds tuple (4.4): every component t[q] of the K is    *)
(* >= 0 and < the extent of data axis q.                                  *)
InBounds(t, K) == \A q \in 0 .. K - 1 : 0 <= t[q] /\ t[q] < DataShape[q]

(* numpy's row-major layout: element e of data.reshape(-1) has          *)
(* coordinate (e \div Strides[q]) % DataShape[q] on axis q.  Row r of      *)
(* data.reshape(-1, R) starts at element r * R, and index tuple t of K     *)
(* coordinates addresses it when those are its first K coordinates.        *)
Addresses(r, t, K) ==
  \A q \in 0 .. K - 1 : ((r * RowLen(K)) \div Strides[q]) % DataShape[q] = t[q]

(* Python indexing of an axis of length len: negative positions wrap,    *)
(* positions outside -len..len-1 raise IndexError.                       *)
PyIndexOK(p, len) == p >= -len /\ p < len
PyIndex(p, len) == IF p < 0 THEN p + len ELSE p

(* Label of the element at row r, column c of data.reshape(-1, R). *)
DataLabel(r, c, K) == r * RowLen(K) + c + 1

=============================================================================
