-------------------------- MODULE ParallelGroupBuilder --------------------------
(***************************************************************************)
(* common::ParallelGroupBuilder, the two-pass bucketing primitive behind   *)
(* SparsePage::Push and SparsePage::GetTranspose.  Its source             *)
(* (common/group_data.h) is not part of this repository's src/, so these  *)
(* operators follow its contract in spec.md section 4.2.                  *)
(*                                                                         *)
(* Groups are numbered 0 .. n-1 relative to the builder's base row.  A     *)
(* budget is a function thread -> group -> count, a cursor a function      *)
(* thread -> group -> 0-based slot of data where that thread writes next.  *)
(***************************************************************************)
EXTENDS Integers, Sequences, SequencesExt

\* InitBudget(num_groups, num_threads): a zeroed per-thread table.
InitBudget(ngroups, threads) == [t \in threads |-> [g \in 0 .. ngroups - 1 |-> 0]]

\* AddBudget(group, thread): one more record of thread t for group g.
AddBudget(budget, g, t) == [budget EXCEPT ![t][g] = @ + 1]

\* Records of group g counted by the threads below t, by all threads, and
\* by all threads for the groups below g.
\* Mutant: thread t's own count included in its start.
CountBelowInclusive(budget, g, t) ==
  SumFunctionOnSet([u \in DOMAIN budget |-> budget[u][g]], {u \in DOMAIN budget : u <= t})
CountBelow(budget, g, t) ==
  SumFunctionOnSet([u \in DOMAIN budget |-> budget[u][g]], {u \in DOMAIN budget : u < t})
GroupTotal(budget, g) ==
  SumFunctionOnSet([u \in DOMAIN budget |-> budget[u][g]], DOMAIN budget)
NumGroups(budget) == Cardinality(DOMAIN budget[CHOOSE t \in DOMAIN budget : TRUE])
PrefixSumOfTotals(budget, g) ==
  SumFunctionOnSet([h \in 0 .. NumGroups(budget) - 1 |-> GroupTotal(budget, h)], 0 .. g - 1)

\* InitStorage: the group totals become a prefix sum appended to offset ...
InitStorageOffset(offset, budget) ==
  LET n == NumGroups(budget)
  IN offset \o [g \in 1 .. n |-> Last(offset) + PrefixSumOfTotals(budget, g)]

\* ... data grows by the new total, value-initialised (Entry{} is (0, 0)) ...
InitStorageData(data, budget, blank) ==
  LET n == NumGroups(budget)
  IN data \o [k \in 1 .. PrefixSumOfTotals(budget, n) |-> blank]

\* ... and thread t writes group g from the group's start plus what the
\* threads below t counted for it.
\* Mutant: cursors one slot early.
InitStorageCursorEarly(offset, budget) ==
  [t \in DOMAIN budget |->
     [g \in DOMAIN budget[t] |->
        Last(offset) + PrefixSumOfTotals(budget, g) + CountBelow(budget, g, t) - 1]]
InitStorageCursor(offset, budget) ==
  [t \in DOMAIN budget |->
     [g \in DOMAIN budget[t] |->
        Last(offset) + PrefixSumOfTotals(budget, g) + CountBelow(budget, g, t)]]

\* Push(group, value, thread): write at the cursor, then advance it.  A
\* write past the end of data is a heap overflow; it is recorded by the
\* caller and the array is left as it is.
BuilderPushData(data, cursor, g, value, t) ==
  IF cursor[t][g] < Len(data)
  THEN [data EXCEPT ![cursor[t][g] + 1] = value]
  ELSE data
BuilderPushCursor(cursor, g, t) == [cursor EXCEPT ![t][g] = @ + 1]

=============================================================================
