------------------------------ MODULE MetaInfo ------------------------------
(***************************************************************************)
(* The sample-indexed part of MetaInfo (src/src/data/data.cc:205-211,      *)
(* 301-312, 537-617, 709-785, 811-856): the row and column counts, labels, *)
(* weights and the query-group pointer, the calls that set them one by     *)
(* one, Extend (appending another batch's MetaInfo), Validate and the      *)
(* cached LabelAbsSort.  Each call is one step of the single caller that   *)
(* owns the MetaInfo.  Values are abstracted to small integers; a label is *)
(* one float, the labels tensor a row count and its flat values.           *)
(***************************************************************************)
EXTENDS Integers, Sequences, SequencesExt

CONSTANTS
  NumRows,     \* num_row_ values the data loader may have set
  NumCols,     \* num_col_ values the data loader may have set
  LabelArrays, \* 1-d label arrays a caller may pass to SetInfo("label")
  BadLabel,    \* a label LabelsCheck rejects (NaN, infinity, too large)
  WeightArrays,\* weight arrays a caller may pass to SetInfo("weight")
  GroupArrays, \* group-size arrays a caller may pass to SetInfo("group")
  RowSelections, \* ridxs a caller may pass to Slice
  OtherInfos,  \* MetaInfo of batches a caller may Extend by
  MaxRowCount, \* bound on num_row_ reached by Extend
  MaxInfoSize  \* bound on the labels, weights and groups held

VARIABLES
  num_row, num_col,
  labels,            \* [rows |-> labels.Shape(0), vals |-> flat values]
  weights, group_ptr,
  label_order_cache, \* mutable cache of LabelAbsSort
  status             \* "ok", or "failed" once a CHECK aborted the process

vars == <<num_row, num_col, labels, weights, group_ptr, label_order_cache, status>>
info == <<num_row, num_col, labels, weights, group_ptr>>

NoLabels == [rows |-> 0, vals |-> <<>>]
\* labels.Shape(1): the number of targets.
Targets(l) == IF l.rows = 0 THEN 1 ELSE Len(l.vals) \div l.rows
Abs(x) == IF x < 0 THEN -x ELSE x

Init ==
  /\ num_row \in NumRows /\ num_col \in NumCols
  /\ labels = NoLabels /\ weights = <<>> /\ group_ptr = <<>>
  /\ label_order_cache = <<>>
  /\ status = "ok"

\* MetaInfo::Clear.  label_order_cache_ is not reset.
Clear ==
  /\ status = "ok"
  /\ num_row' = 0 /\ num_col' = 0
  /\ labels' = NoLabels /\ weights' = <<>> /\ group_ptr' = <<>>
  /\ UNCHANGED <<label_order_cache, status>>

\* SetInfoFromHost("label"): the array is copied into labels with shape
\* (n, 1), reshaped to (num_row_, n / num_row_) when num_row_ is known,
\* differs and divides n (CHECK_EQ otherwise); then every label must pass
\* LabelsCheck.  Both CHECKs come after the copy.
SetLabel(arr) ==
  /\ status = "ok"
  /\ LET reshape == num_row # 0 /\ Len(arr) # num_row
         divides == Len(arr) % num_row = 0
     IN /\ labels' = [rows |-> IF reshape /\ divides THEN num_row ELSE Len(arr), vals |-> arr]
        /\ status' = IF /\ reshape => divides
                        /\ \A i \in 1 .. Len(arr) : arr[i] # BadLabel
                     THEN "ok" ELSE "failed"
  /\ UNCHANGED <<num_row, num_col, weights, group_ptr, label_order_cache>>

\* SetInfoFromHost("weight"): every weight must be non-negative and finite.
SetWeight(arr) ==
  /\ status = "ok"
  /\ weights' = arr
  /\ status' = IF \A i \in 1 .. Len(arr) : arr[i] >= 0 THEN "ok" ELSE "failed"
  /\ UNCHANGED <<num_row, num_col, labels, group_ptr, label_order_cache>>

\* SetInfoFromHost("group"): group_ptr_ = 0 followed by the partial sums of
\* the group sizes; ValidateQueryGroup accepts it (sizes are unsigned).
SetGroup(sizes) ==
  /\ status = "ok"
  /\ group_ptr' = <<0>> \o [i \in 1 .. Len(sizes) |-> FoldLeft(LAMBDA x, y : x + y, 0, SubSeq(sizes, 1, i))]
  /\ UNCHANGED <<num_row, num_col, labels, weights, label_order_cache, status>>

\* MetaInfo::Extend(that, accumulate_rows, check_column), in the code's
\* order: rows, columns (a CHECK_EQ throws with num_row_ already added),
\* num_col_ taken over, labels stacked (linalg::Stack throws on unequal
\* target counts with num_col_ already set), weights
\* appended, then group_ptr_ taken over or continued (CHECK_NE throws
\* with labels and weights already extended).  The feature-indexed fields
\* are left out.
StackLabels(l, r) ==
  IF Len(l.vals) = 0 THEN r
  ELSE IF Len(r.vals) = 0 THEN l
  ELSE [rows |-> l.rows + r.rows, vals |-> l.vals \o r.vals]
InfoSize(l, w, gp) == Len(l.vals) + Len(w) + Len(gp)
\* Mutant: the incoming pointers appended without the shift.
ContinueGroupsUnshifted(gp, tgp) == gp \o [i \in 1 .. Len(tgp) - 1 |-> tgp[i + 1]]
\* Mutant: the shift subtracted.
ContinueGroupsSubtract(gp, tgp) == gp \o [i \in 1 .. Len(tgp) - 1 |-> tgp[i + 1] - Last(gp)]
ContinueGroups(gp, tgp) == gp \o [i \in 1 .. Len(tgp) - 1 |-> tgp[i + 1] + Last(gp)]
Extend(that, accumulate_rows, check_column) ==
  /\ status = "ok"
  /\ LET rows == IF accumulate_rows THEN num_row + that.num_row ELSE num_row
         colsOk == ~(num_col # 0 /\ check_column /\ num_col # that.num_col)
         labelsOk == Len(labels.vals) = 0 \/ Len(that.labels.vals) = 0
                     \/ Targets(labels) = Targets(that.labels)
         groupsOk == Len(group_ptr) = 0 \/ Len(that.group_ptr) # 0
     IN /\ rows <= MaxRowCount
        /\ InfoSize(labels, weights, group_ptr)
             + InfoSize(that.labels, that.weights, that.group_ptr) <= MaxInfoSize
        /\ num_row' = rows
        /\ IF ~colsOk
           THEN /\ status' = "failed"
                /\ UNCHANGED <<num_col, labels, weights, group_ptr>>
           ELSE IF ~labelsOk
           THEN /\ num_col' = that.num_col
                /\ status' = "failed"
                /\ UNCHANGED <<labels, weights, group_ptr>>
           ELSE /\ num_col' = that.num_col
                /\ labels' = StackLabels(labels, that.labels)
                /\ weights' = weights \o that.weights
                /\ IF groupsOk
                   THEN /\ group_ptr' = IF Len(group_ptr) = 0 THEN that.group_ptr
                                        ELSE ContinueGroups(group_ptr, that.group_ptr)
                        /\ UNCHANGED status
                   ELSE /\ status' = "failed"
                        /\ UNCHANGED group_ptr
  /\ UNCHANGED label_order_cache

\* MetaInfo::Validate on the CPU, with its early returns: the first field
\* found set decides which size checks run.
ValidatePasses ==
  IF Len(group_ptr) # 0 /\ Len(weights) # 0 THEN Len(group_ptr) = Len(weights) + 1
  ELSE /\ Len(group_ptr) # 0 => Last(group_ptr) = num_row
       /\ IF Len(weights) # 0 THEN Len(weights) = num_row
          ELSE Len(labels.vals) # 0 => labels.rows = num_row
Validate ==
  /\ status = "ok"
  /\ status' = IF ValidatePasses THEN "ok" ELSE "failed"
  /\ UNCHANGED <<num_row, num_col, labels, weights, group_ptr, label_order_cache>>

\* Indices 0 .. n-1 stably sorted by the absolute value of their label.
AbsOrder(l) ==
  SortSeq([i \in 1 .. Len(l) |-> i - 1],
          LAMBDA i, j : Abs(l[i + 1]) < Abs(l[j + 1]) \/ (Abs(l[i + 1]) = Abs(l[j + 1]) /\ i < j))

\* MetaInfo::LabelAbsSort returns label_order_cache_: reused as it is
\* whenever its size is that of the labels, rebuilt (Iota, then StableSort
\* by |label|) otherwise.
LabelAbsSort ==
  /\ status = "ok"
  /\ label_order_cache' = IF Len(label_order_cache) = Len(labels.vals)
                          THEN label_order_cache
                          ELSE AbsOrder(labels.vals)
  /\ UNCHANGED <<num_row, num_col, labels, weights, group_ptr, status>>

\* Gather(in, ridxs, stride): the stride-long records of the given rows;
\* an empty input gives an empty output.
Gather(in, ridxs, stride) ==
  IF Len(in) = 0 THEN <<>>
  ELSE [k \in 1 .. Len(ridxs) * stride |->
          in[ridxs[(k - 1) \div stride + 1] * stride + ((k - 1) % stride) + 1]]
\* Every read Gather makes is inside its input.
GatherInRange(in, ridxs, stride) ==
  Len(in) = 0 \/ \A i \in 1 .. Len(ridxs) : (ridxs[i] + 1) * stride <= Len(in)

\* MetaInfo::Slice(ctx, ridxs, nnz) on the CPU, with the caller going on
\* with the sliced MetaInfo: the rows are the selected ones, labels and
\* weights are gathered (with the labels' stride when their size is not
\* num_row_), the groups are left to the caller, and per-group weights
\* (weights_.Size() + 1 == group_ptr_.size()) are assigned from the new
\* MetaInfo's own, empty, weights.
Slice(ridxs) ==
  /\ status = "ok"
  /\ \A i \in 1 .. Len(ridxs) : ridxs[i] < num_row
  /\ LET stride == IF Len(labels.vals) # num_row THEN Targets(labels) ELSE 1
         perGroup == Len(weights) + 1 = Len(group_ptr)
     IN /\ GatherInRange(labels.vals, ridxs, stride)
        /\ perGroup \/ GatherInRange(weights, ridxs, 1)
        /\ num_row' = Len(ridxs)
        /\ labels' = [rows |-> Len(ridxs), vals |-> Gather(labels.vals, ridxs, stride)]
        /\ weights' = IF perGroup THEN <<>> ELSE Gather(weights, ridxs, 1)
        /\ group_ptr' = <<>>
  /\ UNCHANGED <<num_col, label_order_cache, status>>

Next ==
  \/ Clear
  \/ \E arr \in LabelArrays : SetLabel(arr)
  \/ \E arr \in WeightArrays : SetWeight(arr)
  \/ \E sizes \in GroupArrays : SetGroup(sizes)
  \/ \E that \in OtherInfos, acc, chk \in BOOLEAN : Extend(that, acc, chk)
  \/ Validate
  \/ LabelAbsSort
  \/ \E ridxs \in RowSelections : Slice(ridxs)

Spec == Init /\ [][Next]_vars

-----------------------------------------------------------------------------
TypeOK ==
  /\ num_row \in Nat /\ num_col \in Nat
  /\ labels.rows \in Nat /\ labels.vals \in Seq(Int)
  /\ weights \in Seq(Int) /\ group_ptr \in Seq(Nat)
  /\ label_order_cache \in Seq(Nat)
  /\ status \in {"ok", "failed"}

\* Query groups cover the rows exactly.
GroupsMatchRows(gp, rows) == Len(gp) > 0 /\ Last(gp) = rows

\* Extend with accumulate_rows keeps the query groups aligned with the rows:
\* when this MetaInfo's groups end at its row count and so do the incoming
\* batch's, the shifted, appended groups end at the new row count.
ExtendKeepsGroupsAligned ==
  [][\A that \in OtherInfos, chk \in BOOLEAN :
       (/\ Extend(that, TRUE, chk) /\ status' = "ok"
        /\ GroupsMatchRows(group_ptr, num_row)
        /\ GroupsMatchRows(that.group_ptr, that.num_row))
       => GroupsMatchRows(group_ptr', num_row')]_vars

\* Whenever LabelAbsSort would serve its cache (its size is that of the
\* labels), the cache orders the labels the MetaInfo holds now.
LabelAbsSortCurrent ==
  Len(label_order_cache) = Len(labels.vals) => label_order_cache = AbsOrder(labels.vals)

\* A MetaInfo that passes Validate can be sliced: for every selection of
\* rows below num_row_, the reads Slice's unchecked Gather makes stay
\* inside the labels and the per-row weights.  Validate returns early once
\* weights are set, without looking at the labels.
SliceSafeWhenValid ==
  ValidatePasses =>
    \A ridxs \in RowSelections :
      (\A i \in 1 .. Len(ridxs) : ridxs[i] < num_row) =>
        LET stride == IF Len(labels.vals) # num_row THEN Targets(labels) ELSE 1
        IN /\ GatherInRange(labels.vals, ridxs, stride)
           /\ Len(weights) + 1 = Len(group_ptr) \/ GatherInRange(weights, ridxs, 1)

=============================================================================
