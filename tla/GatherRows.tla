----------------------------- MODULE GatherRows -----------------------------
(***************************************************************************)
(* The gather-by-index-tuple the spec promises (section 4.4), one index    *)
(* tuple per step: the output row of an in-bounds tuple is the slice of    *)
(* data its K coordinates address, the row of an out-of-bounds tuple is    *)
(* zero.  GatherNd's element-by-element loop implements it.               *)
(***************************************************************************)
EXTENDS IndexKernels

VARIABLES
  K,         \* number of coordinates per tuple
  idx,       \* the N index tuples
  out,       \* the N x RowLen(K) output
  row,       \* the tuples gathered so far
  finished   \* the result has been returned

gvars == <<K, idx, out, row, finished>>

(* The slice of data tuple t addresses, or zeros when t is out of bounds. *)
SliceOf(t, kk) ==
  IF InBounds(t, kk)
    THEN LET x == CHOOSE x \in 0 .. NumRows(kk) - 1 : Addresses(x, t, kk)
         IN [c \in 0 .. RowLen(kk) - 1 |-> DataLabel(x, c, kk)]
    ELSE [c \in 0 .. RowLen(kk) - 1 |-> 0]

GInit ==
  /\ K \in KRange
  /\ idx \in [0 .. N - 1 -> [0 .. K - 1 -> IdxVals]]
  /\ out = [r \in 0 .. N - 1 |-> [c \in 0 .. RowLen(K) - 1 |-> 0]]
  /\ row = 0
  /\ finished = FALSE

(* Gather the next tuple. *)
GatherTuple ==
  /\ row < N
  /\ out' = [out EXCEPT ![row] = SliceOf(idx[row], K)]
  /\ row' = row + 1
  /\ UNCHANGED <<K, idx, finished>>

(* All tuples gathered: return. *)
Return ==
  /\ row = N
  /\ ~finished
  /\ finished' = TRUE
  /\ UNCHANGED <<K, idx, out, row>>

GNext == GatherTuple \/ Return

GSpec == GInit /\ [][GNext]_gvars /\ WF_gvars(GNext)

=============================================================================
