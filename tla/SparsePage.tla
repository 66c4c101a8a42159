------------------------------ MODULE SparsePage ------------------------------
(***************************************************************************)
(* A SparsePage (src/src/data/data.cc) as one CSR container and the        *)
(* operations that mutate it in place, each as one atomic step.  The       *)
(* parallel loops of SortIndices, SortRows and Reindex touch disjoint rows *)
(* or entries, so one step per call loses no interleaving; Push(batch) is  *)
(* refined into its two parallel passes by module PushAdapter.             *)
(***************************************************************************)
EXTENDS PageOps

CONSTANTS
  InitPages,   \* pages as a caller hands them over (created empty, or filled)
  Missings,    \* missing sentinels a caller may pass to Push
  OtherPages,  \* pages a caller may append with Push(const SparsePage&)
  Offsets,     \* feature offsets a caller may pass to Reindex
  MaxRows,     \* bound on the rows of the page
  MaxIndex,    \* bound on the column index sums Reindex may compute
  IndexWidth   \* bits of bst_feature_t, the type of Entry::index

VARIABLES
  offset,      \* SparsePage::offset
  data,        \* SparsePage::data
  max_columns  \* value returned by the last Push(batch)

vars == <<offset, data, max_columns>>

\* A page is created empty (offset = [0]); a caller may also hand over one
\* that earlier operations filled.
Init ==
  /\ \E p \in InitPages : offset = p.offset /\ data = p.data
  /\ max_columns = 0

\* Push(batch, missing, nthread) on a non-empty batch that passes the
\* pass-1 checks: batch_size new rows holding the valid entries by key.
PushAdapterBatch(b, missing) ==
  /\ BatchAccepted(NumRows(offset), b, missing)
  /\ NumRows(offset) + Len(b.lines) <= MaxRows
  /\ offset' = PushBatchOffset(offset, b, missing)
  /\ data' = PushBatchData(data, NumRows(offset), b, missing)
  /\ max_columns' = BatchMaxColumns(b)

\* Push on an empty batch returns 0 before touching the page.
PushEmptyBatch ==
  /\ max_columns' = 0
  /\ UNCHANGED <<offset, data>>

\* Push(const SparsePage& batch): rows of batch appended after ours.
PushPage(p) ==
  /\ NumRows(offset) + NumRows(p.offset) <= MaxRows
  /\ offset' = PushPageOffset(offset, p.offset)
  /\ data' = PushPageData(offset, data, p.data)
  /\ UNCHANGED max_columns

SortIndices ==
  /\ data' \in SortEachRow(offset, data, "index")
  /\ UNCHANGED <<offset, max_columns>>

SortRows ==
  /\ data' \in SortEachRow(offset, data, "value")
  /\ UNCHANGED <<offset, max_columns>>

Reindex(feature_offset) ==
  /\ \A k \in 1 .. Len(data) : data[k].index + feature_offset <= MaxIndex
  /\ data' = ReindexData(data, feature_offset, IndexWidth)
  /\ UNCHANGED <<offset, max_columns>>

Next ==
  \/ \E m \in Missings :
       \E b \in Batches(BaseRowId + NumRows(offset)) \cup Batches(BaseRowId) :
         PushAdapterBatch(b, m)
  \/ PushEmptyBatch
  \/ \E p \in OtherPages : PushPage(p)
  \/ SortIndices
  \/ SortRows
  \/ \E k \in Offsets : Reindex(k)

Spec == Init /\ [][Next]_vars

-----------------------------------------------------------------------------
EntryType == [index : Nat, fvalue : Int]

\* Types, and the CSR shape every operation must keep: offset starts at 0,
\* never decreases, and ends at the length of data.
TypeOK ==
  /\ offset \in Seq(Nat) /\ data \in Seq(EntryType) /\ max_columns \in Nat
  /\ Len(offset) >= 1 /\ offset[1] = 0
  /\ \A i \in 1 .. Len(offset) - 1 : offset[i] <= offset[i + 1]
  /\ Last(offset) = Len(data)

\* Once SortIndices has run, IsIndicesSorted reports the page sorted, even
\* when a row holds two entries of the same column (adapters may emit them).
SortIndicesEstablishesSorted ==
  [][SortIndices => IsIndicesSorted(offset', data')]_vars

\* The CSR arrays always encode the rows the operations put there: the page
\* implements the row-multiset matrix of SparseMatrix, sorting being a
\* stuttering step of it.
Matrix == INSTANCE SparseMatrix WITH
  rows <- [i \in 1 .. NumRows(offset) |-> ToBag(RowSlice(offset, data, i - 1))]
MatrixRefinement == Matrix!Spec

=============================================================================
