------------------------------ MODULE PushAdapter ------------------------------
(***************************************************************************)
(* SparsePage::Push(batch, missing, nthread) for a row-major adapter batch *)
(* (src/src/data/data.cc:1113-1209) as the code runs it: nthread OpenMP    *)
(* threads each walk a contiguous slice of the batch's lines element by    *)
(* element, in any interleaving, first counting valid elements into a      *)
(* ParallelGroupBuilder, then, after the implicit barrier and              *)
(* InitStorage, placing them.  Pass-1 errors (an infinite value with a     *)
(* finite sentinel, a row below the page) are reported after the barrier.  *)
(***************************************************************************)
EXTENDS PageOps, ParallelGroupBuilder

CONSTANTS
  InitPages,   \* pages a caller may push into
  Missings,    \* missing sentinels a caller may pass
  NThreads,    \* nthread: the OpenMP team size
  MaxRows      \* bound on the rows of the page

ASSUME NThreads \in Nat \ {0}

VARIABLES
  offset, data,   \* the page
  max_columns,    \* value returned by the last Push
  phase,          \* "call", "pass1", "pass2", then "done" or "failed"
  batch, missing, \* arguments of the Push in progress
  pos,            \* pos[t]: elements of its slice thread t has visited
  budget,         \* the builder's per-thread counts (pass 1)
  cursor,         \* the builder's per-thread write positions (pass 2)
  valid,          \* std::atomic<bool> valid
  thrown,         \* some thread's CHECK_GE threw (dmlc::OMPException)
  max_columns_vector, \* per-thread maxima of column_idx + 1
  overflow        \* some Push wrote past the end of data

page_vars == <<offset, data, max_columns>>
vars == <<offset, data, max_columns, phase, batch, missing, pos, budget, cursor,
          valid, thrown, max_columns_vector, overflow>>

Threads == 0 .. NThreads - 1
Blank == Entry(0, 0)

\* The lines of thread tid: batch_size / nthread each, the last thread also
\* taking the remainder (data.cc:1143, 1154-1155).
SliceBegin(b, tid) == tid * (Len(b.lines) \div NThreads)
SliceEnd(b, tid) ==
  IF tid # NThreads - 1 THEN (tid + 1) * (Len(b.lines) \div NThreads) ELSE Len(b.lines)
\* Elements thread tid visits, in order, each with its (1-based) line.
SliceElems(b, tid) ==
  FlattenSeq([i \in 1 .. SliceEnd(b, tid) - SliceBegin(b, tid) |->
                LET line == SliceBegin(b, tid) + i
                IN [j \in 1 .. Len(b.lines[line]) |-> [line |-> line, elem |-> b.lines[line][j]]]])

\* builder_base_row_offset: the rows the page held when Push started.
BuilderBase == IF phase = "pass2" THEN NumRows(offset) - Len(batch.lines) ELSE NumRows(offset)
Current(t) == SliceElems(batch, t)[pos[t] + 1]
KeyOf(t) == Key(LineRow(batch, Current(t).line))

\* The page as the caller hands it over and the arguments of the call.
Init ==
  /\ \E p \in InitPages : offset = p.offset /\ data = p.data
  /\ \E first \in {BaseRowId + NumRows(offset), BaseRowId} :
       \E b \in Batches(first) \cup {[first |-> first, lines |-> <<>>]} :
         /\ NumRows(offset) + Len(b.lines) <= MaxRows
         /\ batch = b
  /\ missing \in Missings
  /\ max_columns = 0
  /\ phase = "call"
  /\ pos = [t \in Threads |-> 0]
  /\ budget = InitBudget(0, Threads)
  /\ cursor = InitBudget(0, Threads)
  /\ valid = TRUE /\ thrown = FALSE
  /\ max_columns_vector = [t \in Threads |-> 0]
  /\ overflow = FALSE

\* A non-empty batch: the builder is budgeted for one row per line
\* (expected_rows = batch_size for row-major batches).
Begin ==
  /\ phase = "call"
  /\ Len(batch.lines) > 0
  /\ phase' = "pass1"
  /\ budget' = InitBudget(Len(batch.lines), Threads)
  /\ UNCHANGED <<offset, data, max_columns, batch, missing, pos, cursor, valid, thrown,
                 max_columns_vector, overflow>>

\* An empty batch: Push returns 0 before touching the page.
ReturnEmpty ==
  /\ phase = "call"
  /\ Len(batch.lines) = 0
  /\ phase' = "done"
  /\ max_columns' = 0
  /\ UNCHANGED <<offset, data, batch, missing, pos, budget, cursor, valid,
                 thrown, max_columns_vector, overflow>>

\* Thread t visits one element in pass 1.  The infinity check only lowers
\* the shared flag; a row below the page throws, which ends the thread's
\* slice; otherwise the column maximum is updated and a valid element is
\* budgeted for its row.
Pass1Step(t) ==
  /\ phase = "pass1"
  /\ pos[t] < Len(SliceElems(batch, t))
  /\ LET e == Current(t).elem
         key == KeyOf(t)
     IN /\ valid' = (valid /\ Admissible(e.value, missing))
        /\ IF key < BuilderBase
           THEN /\ thrown' = TRUE
                /\ pos' = [pos EXCEPT ![t] = Len(SliceElems(batch, t))]
                /\ UNCHANGED <<budget, max_columns_vector>>
           ELSE /\ max_columns_vector' =
                     [max_columns_vector EXCEPT ![t] = IF @ >= e.column_idx + 1
                                                       THEN @ ELSE e.column_idx + 1]
                /\ budget' = IF Counted(e.value, missing)
                             THEN AddBudget(budget, key - BuilderBase, t)
                             ELSE budget
                /\ pos' = [pos EXCEPT ![t] = @ + 1]
                /\ UNCHANGED thrown
  /\ UNCHANGED <<offset, data, max_columns, phase, batch, missing, cursor, overflow>>

\* The barrier after pass 1: exec.Rethrow(), CHECK(valid), then
\* builder.InitStorage() grows offset and data for the new rows.
EndPass1 ==
  /\ phase = "pass1"
  /\ \A t \in Threads : pos[t] = Len(SliceElems(batch, t))
  /\ IF thrown \/ ~valid
     THEN /\ phase' = "failed"
          /\ UNCHANGED <<offset, data, pos, cursor>>
     ELSE /\ phase' = "pass2"
          /\ offset' = InitStorageOffset(offset, budget)
          /\ data' = InitStorageData(data, budget, Blank)
          /\ cursor' = InitStorageCursor(offset, budget)
          /\ pos' = [t \in Threads |-> 0]
  /\ UNCHANGED <<max_columns, batch, missing, budget, valid, thrown,
                 max_columns_vector, overflow>>

\* Thread t visits one element in pass 2 and places it if it is valid.
Pass2Step(t) ==
  /\ phase = "pass2"
  /\ pos[t] < Len(SliceElems(batch, t))
  /\ LET e == Current(t).elem
         g == KeyOf(t) - BuilderBase
     IN IF IsValid(e.value, missing)
        THEN /\ data' = BuilderPushData(data, cursor, g, Entry(e.column_idx, e.value), t)
             /\ overflow' = (overflow \/ cursor[t][g] >= Len(data))
             /\ cursor' = BuilderPushCursor(cursor, g, t)
        ELSE UNCHANGED <<data, cursor, overflow>>
  /\ pos' = [pos EXCEPT ![t] = @ + 1]
  /\ UNCHANGED <<offset, max_columns, phase, batch, missing, budget, valid, thrown,
                 max_columns_vector>>

\* The barrier after pass 2: Push returns the largest per-thread maximum.
EndPass2 ==
  /\ phase = "pass2"
  /\ \A t \in Threads : pos[t] = Len(SliceElems(batch, t))
  /\ phase' = "done"
  /\ max_columns' = FoldFunction(LAMBDA x, y : IF x >= y THEN x ELSE y, 0, max_columns_vector)
  /\ UNCHANGED <<offset, data, batch, missing, pos, budget, cursor, valid, thrown,
                 max_columns_vector, overflow>>

Next ==
  \/ Begin
  \/ ReturnEmpty
  \/ \E t \in Threads : Pass1Step(t) \/ Pass2Step(t)
  \/ EndPass1
  \/ EndPass2

Spec == Init /\ [][Next]_vars

-----------------------------------------------------------------------------
TypeOK ==
  /\ phase \in {"call", "pass1", "pass2", "done", "failed"}
  /\ offset \in Seq(Nat) /\ data \in Seq([index : Nat, fvalue : Int])
  /\ pos \in [Threads -> Nat] /\ max_columns_vector \in [Threads -> Nat]
  /\ DOMAIN budget = Threads
  /\ \A t \in Threads : DOMAIN budget[t] \in {0 .. n - 1 : n \in 0 .. MaxLines}
                      /\ \A g \in DOMAIN budget[t] : budget[t][g] \in Nat
  /\ \A t \in DOMAIN cursor : \A g \in DOMAIN cursor[t] : cursor[t][g] \in Nat
  /\ valid \in BOOLEAN /\ thrown \in BOOLEAN /\ overflow \in BOOLEAN

\* The range pass 1 budgeted for thread t in new row g ends where the
\* threads up to t have placed all the row's elements they counted.
BudgetEnd(t, g) == offset[BuilderBase + g + 1] + CountBelow(budget, g, t + 1)

\* In pass 2 no thread ever places more elements in a row than it counted
\* for that row in pass 1: the two passes filter elements alike, so every
\* write of builder.Push lands in the thread's own pre-computed range.
BudgetRespected ==
  phase = "pass2" =>
    \A t \in Threads : \A g \in 0 .. Len(batch.lines) - 1 : cursor[t][g] <= BudgetEnd(t, g)

\* The page seen by callers: the rows it held before the Push until the Push
\* returns; a failed Push leaves it as it was.
AbsOffset ==
  IF phase = "pass2" THEN SubSeq(offset, 1, Len(offset) - Len(batch.lines)) ELSE offset
AbsData == SubSeq(data, 1, Last(AbsOffset))

\* Whatever the interleaving of the threads, a Push has the effect of the
\* single-threaded Push of SparsePage: rows in line order, each row's
\* entries in line order, the same returned column count, and no change
\* at all when pass 1 reports an error.
Atomic == INSTANCE SparsePage WITH
  offset <- AbsOffset, data <- AbsData,
  OtherPages <- {}, Offsets <- {}, MaxIndex <- 0, IndexWidth <- 32
\* The Push in progress is the witness of the abstract step.
PushRefinesSparsePage ==
  /\ Atomic!Init
  /\ [][Atomic!PushAdapterBatch(batch, missing) \/ Atomic!PushEmptyBatch]_<<AbsOffset, AbsData, max_columns>>

=============================================================================
