------------------------------ MODULE Transpose ------------------------------
(***************************************************************************)
(* SparsePage::GetTranspose(num_columns, n_threads) (data.cc:1015-1047):   *)
(* CSR -> CSC with a ParallelGroupBuilder of num_columns groups.  Two      *)
(* common::ParallelFor loops run over the source rows; each thread owns a  *)
(* contiguous, ascending block of rows (static schedule) and visits its    *)
(* rows' entries in order, counting in pass 1 and placing                  *)
(* Entry(base_rowid + i, fvalue) in pass 2, in any interleaving.  The      *)
(* transposed row id is narrowed to bst_uint, IndexWidth bits wide.        *)
(***************************************************************************)
EXTENDS PageOps, ParallelGroupBuilder

CONSTANTS
  SrcPages,    \* source pages (CSR), all of base_rowid BaseRowId
  NumColumns,  \* num_columns values a caller may pass
  NThreads,    \* n_threads
  IndexWidth   \* bits of bst_uint, the type of Entry::index

ASSUME NThreads \in Nat \ {0} /\ IndexWidth \in Nat \ {0}

VARIABLES
  page,        \* the source page (const during the call)
  num_columns,
  block,       \* block[t]: the rows [lo, hi) ParallelFor gives thread t
  phase,       \* "pass1", "pass2", then "done" or "failed"
  pos,         \* pos[t]: entries of its block thread t has visited
  budget, cursor,
  toffset, tdata \* transpose.offset, transpose.data

vars == <<page, num_columns, block, phase, pos, budget, cursor, toffset, tdata>>

Threads == 0 .. NThreads - 1
Blank == Entry(0, 0)

\* Mutant: the row id narrowed to a signed type of the same width.
ToIndexSigned(row) ==
  IF row % (2 ^ IndexWidth) >= 2 ^ (IndexWidth - 1)
  THEN (row % (2 ^ IndexWidth)) - 2 ^ IndexWidth
  ELSE row % (2 ^ IndexWidth)
\* static_cast<bst_uint>(base_rowid + i): the row id modulo 2^IndexWidth.
ToIndex(row) == row % (2 ^ IndexWidth)

\* Mutant: contiguous blocks handed to the threads in any order, as a
\* dynamic schedule would.
StaticBlocksAnyOrder(n) ==
  {[t \in Threads |-> [lo |-> b[p[t]], hi |-> b[p[t] + 1]]] :
     b \in {b \in [0 .. NThreads -> 0 .. n] :
              b[0] = 0 /\ b[NThreads] = n /\ \A t \in Threads : b[t] <= b[t + 1]},
     p \in Bijection(Threads, Threads)}
\* schedule(static): contiguous blocks of rows, ascending with the thread
\* id; how the rows are split is up to the OpenMP runtime.
StaticBlocks(n) ==
  {[t \in Threads |-> [lo |-> b[t], hi |-> b[t + 1]]] :
     b \in {b \in [0 .. NThreads -> 0 .. n] :
              b[0] = 0 /\ b[NThreads] = n /\ \A t \in Threads : b[t] <= b[t + 1]}}

\* The entries thread t visits, in order, each with its 0-based row.
BlockElems(t) ==
  FlattenSeq([k \in 1 .. block[t].hi - block[t].lo |->
                LET i == block[t].lo + k - 1
                    inst == RowSlice(page.offset, page.data, i)
                IN [j \in 1 .. Len(inst) |-> [row |-> i, entry |-> inst[j]]]])
Current(t) == BlockElems(t)[pos[t] + 1]

\* A new SparsePage (offset [0], no data) and builder.InitBudget.  The
\* caller passes num_columns covering every column index of the page.
Init ==
  /\ page \in SrcPages
  /\ num_columns \in {n \in NumColumns : \A k \in 1 .. Len(page.data) : page.data[k].index < n}
  /\ block \in StaticBlocks(NumRows(page.offset))
  /\ phase = "pass1"
  /\ pos = [t \in Threads |-> 0]
  /\ budget = InitBudget(num_columns, Threads)
  /\ cursor = InitBudget(0, Threads)
  /\ toffset = <<0>> /\ tdata = <<>>

\* Pass 1: builder.AddBudget(entry.index, tid).
Pass1Step(t) ==
  /\ phase = "pass1"
  /\ pos[t] < Len(BlockElems(t))
  /\ budget' = AddBudget(budget, Current(t).entry.index, t)
  /\ pos' = [pos EXCEPT ![t] = @ + 1]
  /\ UNCHANGED <<page, num_columns, block, phase, cursor, toffset, tdata>>

\* End of the first ParallelFor: builder.InitStorage().
EndPass1 ==
  /\ phase = "pass1"
  /\ \A t \in Threads : pos[t] = Len(BlockElems(t))
  /\ phase' = "pass2"
  /\ toffset' = InitStorageOffset(toffset, budget)
  /\ tdata' = InitStorageData(tdata, budget, Blank)
  /\ cursor' = InitStorageCursor(toffset, budget)
  /\ pos' = [t \in Threads |-> 0]
  /\ UNCHANGED <<page, num_columns, block, budget>>

\* Pass 2: builder.Push(entry.index, Entry(base_rowid + i, fvalue), tid).
Pass2Step(t) ==
  /\ phase = "pass2"
  /\ pos[t] < Len(BlockElems(t))
  /\ LET e == Current(t)
     IN /\ tdata' = BuilderPushData(tdata, cursor, e.entry.index,
                                    Entry(ToIndex(BaseRowId + e.row), e.entry.fvalue), t)
        /\ cursor' = BuilderPushCursor(cursor, e.entry.index, t)
  /\ pos' = [pos EXCEPT ![t] = @ + 1]
  /\ UNCHANGED <<page, num_columns, block, phase, budget, toffset>>

\* After the second ParallelFor: an empty source gets num_columns + 1 zero
\* offsets, then CHECK_EQ(transpose.offset.Size(), num_columns + 1).
EndPass2 ==
  /\ phase = "pass2"
  /\ \A t \in Threads : pos[t] = Len(BlockElems(t))
  /\ LET off == IF Len(page.data) = 0 THEN [k \in 1 .. num_columns + 1 |-> 0] ELSE toffset
     IN /\ toffset' = off
        /\ phase' = IF Len(off) = num_columns + 1 THEN "done" ELSE "failed"
  /\ UNCHANGED <<page, num_columns, block, pos, budget, cursor, tdata>>

Next ==
  \/ \E t \in Threads : Pass1Step(t) \/ Pass2Step(t)
  \/ EndPass1
  \/ EndPass2

Spec == Init /\ [][Next]_vars

-----------------------------------------------------------------------------
TypeOK ==
  /\ phase \in {"pass1", "pass2", "done", "failed"}
  /\ pos \in [Threads -> Nat]
  /\ toffset \in Seq(Nat) /\ tdata \in Seq([index : Nat, fvalue : Int])
  /\ \A t \in Threads : block[t].lo <= block[t].hi

\* Whatever the split of the rows among the threads and the interleaving of
\* their writes, the transpose returned is the single-threaded one: column
\* c holds Entry(row, value) for the entries of column c, rows ascending.
\* This rests on the static schedule giving lower threads lower rows and
\* the builder giving lower threads the front of every group.
TransposeMatchesReference ==
  phase = "done" =>
    /\ toffset = TransposeOffset(page.offset, page.data, num_columns)
    /\ tdata = TransposeData(page.offset, page.data, num_columns)

\* The (row, column, value) triples of a CSR page of base row base, and of
\* a CSC page whose row c is column c.
CsrTriples(offset, data, base) ==
  FlattenSeq([i \in 1 .. NumRows(offset) |->
                LET inst == RowSlice(offset, data, i - 1)
                IN [k \in 1 .. Len(inst) |-> <<base + i - 1, inst[k].index, inst[k].fvalue>>]])
CscTriples(offset, data) ==
  FlattenSeq([c \in 1 .. NumRows(offset) |->
                LET col == RowSlice(offset, data, c - 1)
                IN [k \in 1 .. Len(col) |-> <<col[k].index, c - 1, col[k].fvalue>>]])

\* spec.md section 8: the transpose holds the page's (row, column, value)
\* triples, so transposing it back reproduces the page up to order; the
\* row is what GetTranspose stores as the transposed Entry::index.
RoundTrip ==
  phase = "done" =>
    ToBag(CscTriples(toffset, tdata)) = ToBag(CsrTriples(page.offset, page.data, BaseRowId))

=============================================================================
