------------------------------ MODULE CscMerge ------------------------------
(***************************************************************************)
(* SparsePage::PushCSC(batch) (data.cc:1211-1269): a caller accumulates    *)
(* column-major pages (row c of a CSC page is column c of the matrix) by   *)
(* merging each incoming page into its own, column by column.  Each call   *)
(* is one atomic step; its branches are the code's early returns, the      *)
(* CHECK_EQ on the column counts, and the merge loop.                      *)
(***************************************************************************)
EXTENDS PageOps

CONSTANTS
  OtherPages,  \* CSC pages a caller may merge in
  MaxEntries   \* bound on the entries of the accumulated page

VARIABLES
  offset, data, \* the accumulating page
  phase,        \* "ok", or "failed" once a CHECK has aborted the process
  merged        \* the non-empty pages merged in so far, in call order (history)

vars == <<offset, data, phase, merged>>

Blank == Entry(0, 0)

\* The page starts as a new SparsePage: offset [0], no data.
Init ==
  /\ offset = <<0>> /\ data = <<>>
  /\ phase = "ok" /\ merged = <<>>

\* other_data.empty(): the offsets are replaced by the other page's.
PushCSCEmptyOther(o) ==
  /\ phase = "ok"
  /\ Len(o.data) = 0
  /\ offset' = o.offset
  /\ UNCHANGED <<data, phase, merged>>

\* self_data.empty(): the page adopts the other page as it is.
PushCSCAdopt(o) ==
  /\ phase = "ok"
  /\ Len(o.data) > 0 /\ Len(data) = 0
  /\ offset' = o.offset /\ data' = o.data
  /\ merged' = Append(merged, o)
  /\ UNCHANGED phase

\* CHECK_EQ(self_offset.size(), other_offset.size()) fails.
PushCSCMismatch(o) ==
  /\ phase = "ok"
  /\ Len(o.data) > 0 /\ Len(data) > 0
  /\ Len(offset) # Len(o.offset)
  /\ phase' = "failed"
  /\ UNCHANGED <<offset, data, merged>>

\* Mutant: the other page's slice copied before this page's.
MergedColumnsOtherFirst(so, sd, oo, od) ==
  [i \in 1 .. NumRows(oo) |-> SubSeq(od, oo[i] + 1, oo[i + 1]) \o SubSeq(sd, so[i] + 1, so[i + 1])]

\* The merge loop: column i of the result is self's slice of column i
\* followed by other's; offset[i + 1] is the running length beg.  The new
\* data vector has self_data.size() + other_data.size() value-initialised
\* entries, of which the loop fills the first beg.
MergedColumns(so, sd, oo, od) ==
  [i \in 1 .. NumRows(oo) |-> SubSeq(sd, so[i] + 1, so[i + 1]) \o SubSeq(od, oo[i] + 1, oo[i + 1])]
\* Mutant: ptr starting at 0, so offset[0] holds the first column's end.
MergedOffsetFromZero(so, sd, oo, od) ==
  LET cols == MergedColumns(so, sd, oo, od)
      full == AppendOffsets(<<0>>, [i \in 1 .. Len(cols) |-> Len(cols[i])])
  IN [k \in 1 .. Len(full) |-> IF k < Len(full) THEN full[k + 1] ELSE full[k]]
MergedOffset(so, sd, oo, od) ==
  LET cols == MergedColumns(so, sd, oo, od)
  IN AppendOffsets(<<0>>, [i \in 1 .. Len(cols) |-> Len(cols[i])])
MergedData(so, sd, oo, od) ==
  LET filled == FlattenSeq(MergedColumns(so, sd, oo, od))
  IN filled \o [k \in 1 .. Len(sd) + Len(od) - Len(filled) |-> Blank]

PushCSCMerge(o) ==
  /\ phase = "ok"
  /\ Len(o.data) > 0 /\ Len(data) > 0
  /\ Len(offset) = Len(o.offset)
  /\ Len(data) + Len(o.data) <= MaxEntries
  /\ offset' = MergedOffset(offset, data, o.offset, o.data)
  /\ data' = MergedData(offset, data, o.offset, o.data)
  /\ merged' = Append(merged, o)
  /\ UNCHANGED phase

Next ==
  \E o \in OtherPages :
    \/ PushCSCEmptyOther(o)
    \/ PushCSCAdopt(o)
    \/ PushCSCMismatch(o)
    \/ PushCSCMerge(o)

Spec == Init /\ [][Next]_vars

-----------------------------------------------------------------------------
TypeOK ==
  /\ offset \in Seq(Nat) /\ Len(offset) >= 1 /\ offset[1] = 0
  /\ data \in Seq([index : Nat, fvalue : Int])
  /\ phase \in {"ok", "failed"}
  /\ merged \in Seq([offset : Seq(Nat), data : Seq([index : Nat, fvalue : Int])])

\* spec.md section 8: after every mutating operation data.size() equals
\* offset.back(); section 4.7 says merging an empty page keeps this page's
\* offsets unless this page is empty.
CscShape == Last(offset) = Len(data)

\* Column i of every page merged so far, earlier calls first.
Accumulated(i) ==
  FlattenSeq([k \in 1 .. Len(merged) |-> RowSlice(merged[k].offset, merged[k].data, i)])

\* Across any sequence of PushCSC calls (adopting the first page, merging
\* the next ones, refusing a page of another width), each column of the
\* accumulated page holds that column of every page merged in, in the
\* order of the calls, for as long as the page is a CSC page at all (the
\* merge of an empty page breaks CscShape, and the page stays broken).
ColumnsAccumulate ==
  CscShape => \A i \in 0 .. NumRows(offset) - 1 : RowSlice(offset, data, i) = Accumulated(i)

=============================================================================
