----------------------------- MODULE DMatrixProxy -----------------------------
(***************************************************************************)
(* DMatrixProxy (src/src/data/proxy_dmatrix.cc) in a CPU build: the        *)
(* carrier through which a data iterator hands each batch to xgboost.  A   *)
(* setter stores an adapter over the caller's buffer and copies its shape  *)
(* into the proxy's MetaInfo; the caller sets labels, weights and groups   *)
(* on that MetaInfo (module MetaInfo, instantiated on the proxy's          *)
(* variables); CreateDMatrixFromProxy builds a DMatrix from the adapter    *)
(* and gives it a copy of the proxy's MetaInfo.  An adapter is abstracted  *)
(* to its kind and shape.                                                  *)
(***************************************************************************)
EXTENDS Integers, Sequences

CONSTANTS
  Shapes,      \* [rows, cols] of the buffers a caller may pass
  \* the constants of MetaInfo, for the proxy's MetaInfo
  NumRows, NumCols, LabelArrays, BadLabel, WeightArrays, GroupArrays,
  RowSelections, OtherInfos, MaxRowCount, MaxInfoSize

VARIABLES
  batch,       \* batch_: NoBatch or [kind, rows, cols]
  fresh,       \* the labels were set after the current batch (history)
  fmat,        \* the DMatrix CreateDMatrixFromProxy returned last, or NoMatrix,
               \* with fresh as it was when it was created
  \* the proxy's MetaInfo (Info()) and the process status, as in MetaInfo
  num_row, num_col, labels, weights, group_ptr, label_order_cache, status

info == <<num_row, num_col, labels, weights, group_ptr>>
vars == <<batch, fresh, fmat, num_row, num_col, labels, weights, group_ptr,
          label_order_cache, status>>

MI == INSTANCE MetaInfo

NoBatch == [kind |-> "none", rows |-> 0, cols |-> 0]
NoMatrix == [batch |-> NoBatch, num_row |-> 0, num_col |-> 0, labels |-> MI!NoLabels,
             weights |-> <<>>, group_ptr |-> <<>>, fresh |-> FALSE]
HostKinds == {"columnar", "array", "csr"}

\* A new proxy: no batch, a default MetaInfo.
Init ==
  /\ batch = NoBatch /\ fresh = FALSE /\ fmat = NoMatrix
  /\ num_row = 0 /\ num_col = 0 /\ labels = MI!NoLabels /\ weights = <<>> /\ group_ptr = <<>>
  /\ label_order_cache = <<>> /\ status = "ok"

\* Mutant: the setter leaves num_row_ as the previous batch set it.
SetAdapterKeepsRows(kind, shape) ==
  /\ status = "ok"
  /\ batch' = [kind |-> kind, rows |-> shape.rows, cols |-> shape.cols]
  /\ num_col' = shape.cols
  /\ fresh' = FALSE
  /\ UNCHANGED <<fmat, num_row, labels, weights, group_ptr, label_order_cache, status>>

\* SetColumnar, SetArray, SetCsr(on_host): batch_ = the new adapter,
\* num_col_ and num_row_ from it, ctx_ back to the CPU; the rest of the
\* MetaInfo is left as it was.  SetCsr CHECKs on_host first.
SetAdapter(kind, shape) ==
  /\ status = "ok"
  /\ batch' = [kind |-> kind, rows |-> shape.rows, cols |-> shape.cols]
  /\ num_col' = shape.cols /\ num_row' = shape.rows
  /\ fresh' = FALSE
  /\ UNCHANGED <<fmat, labels, weights, group_ptr, label_order_cache, status>>
SetCsrOnDevice ==
  /\ status = "ok"
  /\ status' = "failed"
  /\ UNCHANGED <<batch, fresh, fmat, info, label_order_cache>>

\* SetCudaArray, SetCudaColumnar: common::AssertGPUSupport() fails.
SetCuda ==
  /\ status = "ok"
  /\ status' = "failed"
  /\ UNCHANGED <<batch, fresh, fmat, info, label_order_cache>>

\* XGDMatrixSetInfo on the proxy: MetaInfo::SetInfoFromHost.
SetInfo ==
  /\ \/ \E arr \in LabelArrays : MI!SetLabel(arr) /\ fresh' = TRUE
     \/ \E arr \in WeightArrays : MI!SetWeight(arr) /\ UNCHANGED fresh
     \/ \E sizes \in GroupArrays : MI!SetGroup(sizes) /\ UNCHANGED fresh
  /\ UNCHANGED <<batch, fmat>>

\* Mutant: the DMatrix returned without CHECK(p_fmat).
CreateNoCheck ==
  /\ status = "ok"
  /\ fmat' = [batch |-> batch, num_row |-> num_row, num_col |-> num_col,
              labels |-> labels, weights |-> weights, group_ptr |-> group_ptr,
              fresh |-> fresh]
  /\ UNCHANGED <<batch, fresh, info, label_order_cache, status>>

\* CreateDMatrixFromProxy on a CPU context: HostAdapterDispatch finds no
\* adapter when none was set, p_fmat stays null and CHECK(p_fmat) fails;
\* else DMatrix::Create(adapter) builds the matrix and its Info() is
\* replaced by a copy of the proxy's.
CreateDMatrixFromProxy ==
  /\ status = "ok"
  /\ IF batch.kind \in HostKinds
     THEN /\ fmat' = [batch |-> batch, num_row |-> num_row, num_col |-> num_col,
                      labels |-> labels, weights |-> weights, group_ptr |-> group_ptr,
                      fresh |-> fresh]
          /\ UNCHANGED status
     ELSE /\ status' = "failed"
          /\ UNCHANGED fmat
  /\ UNCHANGED <<batch, fresh, info, label_order_cache>>

Next ==
  \/ \E kind \in HostKinds, shape \in Shapes : SetAdapter(kind, shape)
  \/ SetCsrOnDevice
  \/ SetCuda
  \/ SetInfo
  \/ CreateDMatrixFromProxy

Spec == Init /\ [][Next]_vars

-----------------------------------------------------------------------------
TypeOK ==
  /\ batch \in {NoBatch} \cup [kind : HostKinds, rows : Nat, cols : Nat]
  /\ fresh \in BOOLEAN /\ status \in {"ok", "failed"}
  /\ fmat = NoMatrix \/ fmat.batch.kind \in HostKinds
  /\ MI!TypeOK

\* A DMatrix created from the proxy has the shape of the batch it was
\* created from, and when the caller set labels after handing over that
\* batch, they have one row per row of the batch (SetInfoFromHost reshapes
\* and CHECKs labels against the num_row_ the setter copied in).
CreatedMatchesBatch ==
  fmat # NoMatrix =>
    /\ fmat.num_row = fmat.batch.rows /\ fmat.num_col = fmat.batch.cols
    /\ fmat.fresh /\ Len(fmat.labels.vals) > 0
       => fmat.labels.rows = fmat.batch.rows

=============================================================================
