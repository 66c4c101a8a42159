----------------------------- MODULE SparseMatrix -----------------------------
(***************************************************************************)
(* What a SparsePage promises its consumers, with the CSR layout           *)
(* abstracted away: a sequence of rows, each the multiset of the entries   *)
(* the row holds.  Order inside a row is not part of the promise (spec     *)
(* section 4.2: only SortIndices fixes it), so sorting a page is a         *)
(* stuttering step here, and appending or re-indexing rows are the only    *)
(* changes.                                                                *)
(***************************************************************************)
EXTENDS PageOps

CONSTANTS InitPages, Missings, OtherPages, Offsets, MaxRows, MaxIndex

VARIABLES rows, max_columns

vars == <<rows, max_columns>>

RowBag(s) == ToBag(s)
ShiftBag(B, k) ==
  [e \in {[x EXCEPT !.index = @ + k] : x \in DOMAIN B} |-> B[[e EXCEPT !.index = @ - k]]]

PageRows(p) == [i \in 1 .. NumRows(p.offset) |-> RowBag(RowSlice(p.offset, p.data, i - 1))]

Init == (\E p \in InitPages : rows = PageRows(p)) /\ max_columns = 0

\* An accepted batch appends one row per line holding its valid entries.
AppendBatch(b, missing) ==
  /\ BatchAccepted(Len(rows), b, missing)
  /\ Len(rows) + Len(b.lines) <= MaxRows
  /\ rows' = rows \o [i \in 1 .. Len(b.lines) |-> RowBag(BatchRows(Len(rows), b, missing)[i])]
  /\ max_columns' = BatchMaxColumns(b)

AppendEmptyBatch == max_columns' = 0 /\ UNCHANGED rows

AppendPage(p) ==
  /\ Len(rows) + NumRows(p.offset) <= MaxRows
  /\ rows' = rows \o PageRows(p)
  /\ UNCHANGED max_columns

ShiftColumns(k) ==
  /\ \A i \in 1 .. Len(rows) : \A e \in DOMAIN rows[i] : e.index + k <= MaxIndex
  /\ rows' = [i \in 1 .. Len(rows) |-> ShiftBag(rows[i], k)]
  /\ UNCHANGED max_columns

Next ==
  \/ \E m \in Missings : \E b \in Batches(BaseRowId + Len(rows)) \cup Batches(BaseRowId) :
       AppendBatch(b, m)
  \/ AppendEmptyBatch
  \/ \E p \in OtherPages : AppendPage(p)
  \/ \E k \in Offsets : ShiftColumns(k)

Spec == Init /\ [][Next]_vars

=============================================================================
