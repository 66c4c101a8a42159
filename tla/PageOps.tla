------------------------------- MODULE PageOps -------------------------------
(***************************************************************************)
(* The data of a SparsePage (src/src/data/data.cc) and the pure functions   *)
(* its operations are made of: the float classes the validity filter tells *)
(* apart, Entry and its comparators, row slices of the CSR arrays, adapter *)
(* batches, and the single-threaded meaning of every page operation.       *)
(*                                                                         *)
(* A page is the pair <<offset, data>> of sequences.  offset[1] is the     *)
(* code's offset[0], so row i (0-based, as in the code) is the slice       *)
(* data[offset[i+1]+1 .. offset[i+2]].                                     *)
(***************************************************************************)
EXTENDS Integers, Sequences, SequencesExt

CONSTANTS
  BaseRowId,     \* SparsePage::base_rowid: global id of the page's row 0
  Cols,          \* column indices an adapter line may carry
  Vals,          \* float values an adapter line may carry (see NaN below)
  MaxLines,      \* lines in one adapter batch
  MaxLineLen,    \* elements in one adapter line
  MaxBatchElems  \* elements in one adapter batch

ASSUME BaseRowId \in Nat /\ Cols \subseteq Nat
ASSUME MaxLines \in Nat /\ MaxLineLen \in Nat /\ MaxBatchElems \in Nat

(***************************************************************************)
(* Floats.  Finite values are small naturals; the three IEEE classes that  *)
(* the code tests for get codes outside that range.  NaN is never ordered   *)
(* and never equal, as in C++.                                             *)
(***************************************************************************)
NaN    == -100
NegInf == -1
PosInf == 1000

IsNaN(v) == v = NaN
IsInf(v) == v \in {NegInf, PosInf}
\* operator!= on floats: true whenever either side is NaN
FNotEq(a, b) == IsNaN(a) \/ IsNaN(b) \/ a # b
FLess(a, b) == ~IsNaN(a) /\ ~IsNaN(b) /\ a < b

\* Pass-1 admissibility: an infinite value is an error unless the missing
\* sentinel is itself infinite.
Admissible(v, missing) == ~(~IsInf(missing) /\ IsInf(v))

\* Pass-1 filter deciding whether an element is budgeted.
Counted(v, missing) == ~IsNaN(v) /\ FNotEq(v, missing)

\* Mutant: a pass-2 filter that only drops NaN.
IsValidIgnoringMissing(v, missing) == ~IsNaN(v)

\* Pass-2 filter (IsValidFunctor) deciding whether an element is placed.
IsValid(v, missing) == ~(IsNaN(v) \/ ~FNotEq(v, missing))

(***************************************************************************)
(* Entry and its two orders.                                               *)
(***************************************************************************)
Entry(index, fvalue) == [index |-> index, fvalue |-> fvalue]
CmpIndex(a, b) == a.index < b.index
CmpValue(a, b) == FLess(a.fvalue, b.fvalue)
\* The comparator a sort is given: "index" (Entry::CmpIndex) or "value"
\* (Entry::CmpValue).
Less(cmp, a, b) == IF cmp = "index" THEN CmpIndex(a, b) ELSE CmpValue(a, b)

(***************************************************************************)
(* Rows of a page.                                                         *)
(***************************************************************************)
NumRows(offset) == Len(offset) - 1
RowSlice(offset, data, i) == SubSeq(data, offset[i + 1] + 1, offset[i + 2])

\* std::is_sorted: no element is less than its predecessor.
IsSortedBy(s, cmp) == \A j \in 1 .. Len(s) - 1 : ~Less(cmp, s[j + 1], s[j])

\* offset extended by rows of the given lengths, each starting where the
\* previous one ends.
PrefixSum(lens, i) ==
  LET f[k \in 0 .. i] == IF k = 0 THEN 0 ELSE f[k - 1] + lens[k] IN f[i]
AppendOffsets(offset, lens) ==
  offset \o [i \in 1 .. Len(lens) |-> Last(offset) + PrefixSum(lens, i)]

(***************************************************************************)
(* Adapter batches (row-major).  Line i of a batch is the row with global  *)
(* id first + i - 1; every element of it is the COOTuple                   *)
(* (that row, column_idx, value).                                          *)
(***************************************************************************)
Elements == [column_idx : Cols, value : Vals]
Lines == UNION {[1 .. n -> Elements] : n \in 0 .. MaxLineLen}
BatchElems(lines) == PrefixSum([i \in 1 .. Len(lines) |-> Len(lines[i])], Len(lines))
BatchLines ==
  {ls \in UNION {[1 .. n -> Lines] : n \in 1 .. MaxLines} : BatchElems(ls) <= MaxBatchElems}
Batches(first) == {[first |-> first, lines |-> ls] : ls \in BatchLines}

LineRow(b, i) == b.first + i - 1
\* The key of a row in the builder: its index relative to the page.
Key(row) == row - BaseRowId

\* Both pass-1 checks hold for every element of the batch.
BatchAccepted(nrows, b, missing) ==
  \A i \in 1 .. Len(b.lines) :
    \A j \in 1 .. Len(b.lines[i]) :
      /\ Admissible(b.lines[i][j].value, missing)
      /\ Key(LineRow(b, i)) >= nrows

\* Pass-1 result: one past the largest column seen, valid or not.
BatchMaxColumns(b) ==
  LET all == UNION {{b.lines[i][j].column_idx + 1 : j \in 1 .. Len(b.lines[i])} :
                       i \in 1 .. Len(b.lines)}
  IN IF all = {} THEN 0 ELSE Max(all)

\* The entries of a line that survive the validity filter, in line order.
ValidEntries(line, missing) ==
  LET kept == SelectSeq(line, LAMBDA e : IsValid(e.value, missing))
  IN [j \in 1 .. Len(kept) |-> Entry(kept[j].column_idx, kept[j].value)]

\* Single-threaded meaning of SparsePage::Push(batch, missing, nthread).
\* The builder is budgeted for batch_size new rows (expected_rows), and an
\* element goes to the row of its key, not of its line: new row j holds
\* the line whose key is nrows + j - 1, or nothing when no line has it
\* (lines keyed below the page must then be empty, or pass 1 throws).
BatchRows(nrows, b, missing) ==
  LET shift == nrows - Key(b.first)
  IN [j \in 1 .. Len(b.lines) |->
        IF j + shift <= Len(b.lines) THEN ValidEntries(b.lines[j + shift], missing) ELSE <<>>]
PushBatchOffset(offset, b, missing) ==
  LET rows == BatchRows(NumRows(offset), b, missing)
  IN AppendOffsets(offset, [j \in 1 .. Len(rows) |-> Len(rows[j])])
PushBatchData(data, nrows, b, missing) == data \o FlattenSeq(BatchRows(nrows, b, missing))

(***************************************************************************)
(* SparsePage::Push(const SparsePage&): row-major concatenation.           *)
(***************************************************************************)
\* Mutant: the new offsets read from other_offset[i] instead of [i + 1].
PushPageOffsetOffByOne(offset, other_offset) ==
  offset \o [i \in 1 .. NumRows(other_offset) |-> Last(offset) + other_offset[i]]
PushPageOffset(offset, other_offset) ==
  offset \o [i \in 1 .. NumRows(other_offset) |-> Last(offset) + other_offset[i + 1]]
\* data is resized to offset.back() (value-initialising any new slot) before
\* the other page's data is copied after it.
PushPageData(offset, data, other_data) ==
  [k \in 1 .. Last(offset) |-> IF k <= Len(data) THEN data[k] ELSE Entry(0, 0)] \o other_data

(***************************************************************************)
(* Per-row std::sort.  std::sort is not stable, so entries that compare    *)
(* equal may end in any order: the result is any sorted arrangement.       *)
(***************************************************************************)
Arrangements(s) ==
  {[k \in 1 .. Len(s) |-> s[p[k]]] : p \in Bijection(1 .. Len(s), 1 .. Len(s))}
SortedArrangements(s, cmp) == {t \in Arrangements(s) : IsSortedBy(t, cmp)}
\* Mutant: one sort over the whole data array, across row boundaries.
SortWholePage(offset, data, cmp) == SortedArrangements(data, cmp)
\* Every data array obtained by sorting each row of the page on its own.
SortEachRow(offset, data, cmp) ==
  LET n == NumRows(offset)
      choices == [i \in 1 .. n |-> SortedArrangements(RowSlice(offset, data, i - 1), cmp)]
  IN {FlattenSeq(r) : r \in {r \in [1 .. n -> UNION {choices[i] : i \in 1 .. n}] :
                               \A i \in 1 .. n : r[i] \in choices[i]}}

\* Mutant: rows counted as sorted only when strictly ascending.
IsIndicesSortedStrict(offset, data) ==
  Cardinality({i \in 0 .. NumRows(offset) - 1 :
                 LET s == RowSlice(offset, data, i)
                 IN \A j \in 1 .. Len(s) - 1 : s[j].index < s[j + 1].index})
    = NumRows(offset)

\* SparsePage::IsIndicesSorted: the per-thread counts of sorted rows sum to
\* the number of rows.
IsIndicesSorted(offset, data) ==
  Cardinality({i \in 0 .. NumRows(offset) - 1 :
                 IsSortedBy(RowSlice(offset, data, i), "index")}) = NumRows(offset)

\* SparsePage::Reindex: every column index shifted by feature_offset; the
\* 64-bit sum is stored back into the width-bit Entry::index.
ReindexData(data, feature_offset, width) ==
  [k \in 1 .. Len(data) |-> [data[k] EXCEPT !.index = (@ + feature_offset) % (2 ^ width)]]

(***************************************************************************)
(* Single-threaded meaning of SparsePage::GetTranspose(num_columns): group *)
(* c holds Entry(base_rowid + i, fvalue) for every entry of column c of    *)
(* row i, rows ascending, each row's entries in page order.                *)
(***************************************************************************)
ColumnOf(offset, data, c) ==
  FlattenSeq([i \in 1 .. NumRows(offset) |->
                LET kept == SelectSeq(RowSlice(offset, data, i - 1),
                                      LAMBDA e : e.index = c)
                IN [k \in 1 .. Len(kept) |-> Entry(BaseRowId + i - 1, kept[k].fvalue)]])
TransposeOffset(offset, data, num_columns) ==
  AppendOffsets(<<0>>, [c \in 1 .. num_columns |-> Len(ColumnOf(offset, data, c - 1))])
TransposeData(offset, data, num_columns) ==
  FlattenSeq([c \in 1 .. num_columns |-> ColumnOf(offset, data, c - 1)])

=============================================================================
