# TLA+ models of xgboost's data containers

This directory holds TLA+ models of the host-side data containers in
`src/src/data/data.cc`: `SparsePage` (a CSR page), its multi-threaded
`Push` of adapter batches, `GetTranspose`, `PushCSC`, the
sample-indexed part of `MetaInfo` and its binary serialization. It also models the `DMatrixProxy`
glue of `src/src/data/proxy_dmatrix.cc` and the once-initialised CUDA
driver globals of `src/src/common/cuda_dr_utils.cc`. Each model is
checked with TLC.

## The system and its parts

| Part | Source | What it does |
|---|---|---|
| SparsePage container | data.cc 1049-1110 | `offset`/`data` CSR arrays. `Push(page)` appends a page. `SortIndices`/`SortRows` sort each row. `Reindex` shifts column ids. `IsIndicesSorted` reports whether rows are sorted. |
| Push(adapter batch) | data.cc 1113-1209 | Two OpenMP passes over the batch lines. Each thread owns a contiguous slice. Pass 1 counts valid elements per row into a `ParallelGroupBuilder`. After the barrier, errors are rethrown and `InitStorage` grows the arrays. Pass 2 writes each element through the thread's cursor. |
| ParallelGroupBuilder | common/group_data.h (not in src/) | Per-thread budgets, a prefix sum into offsets, and per-thread write cursors. |
| GetTranspose | data.cc 1015-1047 | CSR to CSC through the same builder, using two `ParallelFor` passes with a static schedule. |
| PushCSC | data.cc 1211-1269 | Merges a CSC page into this one, column by column. |
| MetaInfo | data.cc 205-856 | Labels, weights and query groups. Covers `SetInfo`, `Extend`, `Validate`, `LabelAbsSort` (cached), `Slice` and `Clear`. It also covers `SetFeatureInfo`, which sets feature names and feature type names. |
| DMatrixProxy | proxy_dmatrix.cc | Batch setters store an adapter and copy its shape into the proxy's MetaInfo. `CreateDMatrixFromProxy` builds a DMatrix and copies the proxy's MetaInfo into it. |
| CUDA driver globals | cuda_dr_utils.cc | Three `std::call_once` statics: the `CuDriverApi` entry-point table, the nvidia-smi driver version, and the C2C link count. Any host thread may make the first call. |
| MetaInfo serialization | data.cc 69-299, 313-366 | `SaveBinary` writes the version, the field count and 13 named, typed, shaped fields. `LoadBinary` reads them back in order and CHECKs each name, type, scalar flag, shape and read. |
| Not modelled | data.cc 857-1014 | The per-thread C API entry map, and `DMatrix::Load`/`Create` dispatch (file and URI parsing, and factories for DMatrix classes outside src/). |

How the parts interact:
- `PushAdapter` and `Transpose` both use the builder operators of `ParallelGroupBuilder`.
- `PushAdapter` is shown to implement the atomic `Push` of `SparsePage`.
- `SparsePage` is shown to implement `SparseMatrix`, an abstract matrix whose rows are bags of entries.
- `MetaInfoBinary` extends `MetaInfo`. The caller's MetaInfo calls and `SetFeatureInfo` build the state that `SaveBinary` writes and `LoadBinary` overwrites.
- `DMatrixProxy` instantiates `MetaInfo` on its own variables (`MI == INSTANCE MetaInfo`). The caller's `SetInfo` on the proxy is `MetaInfo`'s `SetLabel`/`SetWeight`/`SetGroup`.

## Modules

- **PageOps**: the float classes and the pure functions of a page. These are row slices, the validity filters of both passes, and the single-threaded meaning of `Push(batch)` (rows placed by key, `row - base_rowid`), `Push(page)`, the per-row sorts, `IsIndicesSorted`, `Reindex` and the reference transpose.
  - Floats are small integers. NaN is -100, infinity is ±(1000, -1).
  - NaN is never equal to anything and never ordered, as in C++.
- **SparseMatrix**: the abstract promise of a page, a sequence of row bags plus the last returned column count. Sorting is a stutter.
- **SparsePage**: one atomic action per page operation. `MatrixRefinement` instantiates `SparseMatrix` with `rows <- bags of the CSR row slices`.
- **ParallelGroupBuilder**: builder operators taken from spec.md §4.2, because its header is not under src/.
- **PushAdapter**: the parallel `Push`.
  - State: `pos[t]` (the elements thread t has visited), `budget`, `cursor`, the atomic `valid`, `thrown` (an `OMPException` was captured), `max_columns_vector`, and `overflow` (a write past the end of `data`).
  - Actions: `Begin`/`ReturnEmpty` (`batch_size == 0`), `Pass1Step(t)`, `EndPass1` (Rethrow, `CHECK(valid)`, `InitStorage`), `Pass2Step(t)` and `EndPass2`.
  - A thread whose `CHECK_GE` throws abandons the rest of its slice, as `exec.Run` does.
- **Transpose**: both `ParallelFor` passes element by element.
  - The split of rows among threads is any contiguous split in ascending thread order, which is what `schedule(static)` guarantees.
  - The row id is narrowed to `IndexWidth` bits, as `static_cast<bst_uint>` does.
- **CscMerge**: one action per branch of `PushCSC`.
- **MetaInfo**:
  - State: `num_row_`, `num_col_`, labels (row count and flat values), weights, `group_ptr_`, `label_order_cache_`, and a status that becomes "failed" when a CHECK aborts.
  - `Extend` follows the code's order. A failing column CHECK leaves `num_row_` already increased. When `linalg::Stack` throws on labels with different target counts, `num_col_` has already been taken over from the batch. A failing group CHECK leaves labels and weights already extended.
  - `SetLabel` copies the array into `labels` before either CHECK (the divisibility `CHECK_EQ` and the `LabelsCheck` one). A failing CHECK therefore leaves the rejected labels stored, with shape (n, 1) if the reshape was refused.
- **MetaInfoBinary**:
  - State: MetaInfo's, plus `feature_names`, `feature_type_names`, `feature_types` ("num" or "cat" per column), `has_categorical_`, `build` (`Version::Self()`), `file` (the stream on disk) and `saved`, a history variable holding the fields the file was saved from.
  - `SetFeatureInfo(key, strs)` (row split) CHECKs the length against `num_col_`. For "feature_type" it stores the names and then runs `LoadFeatureType`. That clears the types and appends one per name, throwing at the first unknown name, so the names stay stored and the types stay partly filled.
  - `Recover`: a call that threw returns an error to a caller that goes on with the MetaInfo as the call left it. The C API turns `dmlc::Error` into a return code. Before the file is written, every failure may be recovered from, including a half-done `Extend`.
  - A stream is a sequence of items, one per `Save*Field` call plus the version and count, followed by `Rest`, whatever the writer put after the MetaInfo. A read past the end fails, as dmlc's `Read` returns false. Fields the MetaInfo model does not hold are written with their defaults and are only checked on load.
  - `LoadBinary` is one action. Each field is assigned as soon as it is read, so a failing CHECK leaves the fields read before it loaded and the MetaInfo "failed". `LoadFeatureType` runs after `feature_weights` is read and before `cats`.
  - Faults: `Truncate` cuts the file to any non-empty prefix (a writer that crashed or a cut copy), and `Receive` puts a file saved by another build on disk.
  - To bound exploration, the row calls come first and the feature calls second. Then each behaviour writes one file (`SaveBinary` or `Receive`), which may be truncated and loaded any number of times. Because the batches passed to `Extend` carry no feature info, its feature part is a no-op. `CheckFeatureTypes`, which it would call otherwise, is outside src/.

- **DMatrixProxy** (CPU build):
  - State: `batch` (kind and shape of the adapter), the proxy's MetaInfo, and `fmat`, the last created DMatrix together with the info copied into it.
  - `fresh` is a history variable: labels were set after the current batch.
  - Actions: `SetAdapter` (SetColumnar/SetArray/SetCsr), `SetCsrOnDevice` (the `on_host` CHECK), `SetCuda` (AssertGPUSupport), `SetInfo`, and `CreateDMatrixFromProxy` (CHECK(p_fmat) fails when no adapter is set).
- **CuDriverApi**:
  - Per-thread `pc` over the calls `api`, `host_loc`, `device_loc` and `c2c`.
  - A once flag is "init", "running" or "done". A caller blocks while it is running. An initialiser that throws leaves it "init", as `std::call_once` specifies.
  - The environment is chosen at start and fixed: the driver version, whether the driver exports the entry points (when it does not, every constructor attempt throws), and the device count.
  - nvidia-smi output is a sequence of lines of '.'-separated fields. A field is the value of its leading digits, `Junk` or `Overflow`, which is what `std::from_chars` tells apart.

## Runs

| Run | Checks | Shows |
|---|---|---|
| sparse_page | TypeOK, SortIndicesEstablishesSorted, MatrixRefinement | Any sequence of page operations keeps the CSR shape and implements the row-bag matrix. Sorted indices are reported sorted even with duplicate columns. |
| push_adapter | TypeOK, BudgetRespected, PushRefinesSparsePage | Across every interleaving of 2 threads over batches of up to 3 lines (including batches shorter than the team), every write lands in the budgeted range. The result equals the single-threaded Push, or the page is unchanged when pass 1 fails. |
| transpose | TypeOK, TransposeMatchesReference | Every static split and interleaving of 3 threads gives the single-threaded transpose. |
| transpose_rowid_width (violation) | RoundTrip | Row ids wrap at the bst_uint width (data.cc:1036). |
| csc_merge | TypeOK, ColumnsAccumulate | The model records every non-empty page merged, in call order (`merged`). Whenever the page has its CSR shape, each column of the page is the concatenation of that column's slices in the merged pages, in call order. So no `PushCSC` drops, duplicates or reorders entries of an earlier call. |
| csc_merge_empty_other (violation) | CscShape | Merging an empty page into a non-empty one breaks `offset.back() == data.size()` (data.cc:1219). |
| meta_binary | BinTypeOK, ExtendKeepsGroupsAligned, LoadRoundTrip | Accumulating Extend keeps query groups aligned with rows across any sequence of SetInfo, Extend, Slice, Clear and SetFeatureInfo, including calls that threw and were caught. A load that returns normally read a whole file of version 3.1 or later, including the 3.2 file of a newer build. It restores the saved fields, with feature types that agree with their names, whatever the MetaInfo held before. A file cut short inside the MetaInfo, or the 4.0 foreign file, is refused. Conversely, a whole file saved by the running build always loads. With `Builds <- MC_Builds4`, that converse fails (data.cc:325). The run does not say what a failed load leaves behind (see hazards). |
| meta_save_loadable (violation) | SaveBinaryLoadable | `SetFeatureInfo("feature_type")` stores the names before `LoadFeatureType` throws on an unknown one (data.cc:677). A caller that catches the error saves a file that its own `LoadBinary` refuses. With `Builds <- MC_Builds4`, the same property also fails in two steps, because `CHECK_GE(minor, 1)` ignores the major version (data.cc:325), so a 4.0 build cannot load the files it saved. |
| meta_label_cache (violation) | LabelAbsSortCurrent | The cache is keyed only by size, so it serves stale orders (data.cc:302). |
| meta_validate_slice (violation) | SliceSafeWhenValid | Once weights are set, Validate returns before checking the labels (data.cc:812). A MetaInfo it accepts, with labels for fewer rows than `num_row_`, makes Slice's unchecked gather read past the labels. |
| cu_driver | TypeOK, ApiSingleton, VersionsAgree, CallersFinish | Three threads make any mix of calls. The table is built at most once, even after constructor attempts that throw. Every returned reference is that table. All callers see the kdm_major the table was built with. Every call returns or throws. |
| dmatrix_proxy | TypeOK, CreatedMatchesBatch | A created DMatrix has its batch's shape. Labels set after the batch have one row per batch row, which rests on the setter updating `num_row_` and SetInfo reshaping against it. |

Each property of a passing run has a mutant in PROJECT.json, a plausible bug in the mapped code that TLC finds. Examples are an off-by-one in `Push(page)` offsets, a cursor one slot early, a thread's own count included in its start, a thread stuck after a throw, signed narrowing, and a dynamic schedule.

## Bounds

- **SparsePage:** the page has at most 2 rows. Values are {0, 1, NaN} and sentinels are {NaN, 0}, so both filters and the NaN/sentinel cases happen. Other pages include an empty row and duplicate columns.
- **PushAdapter:**
  - 2 threads and 2 columns. A batch has up to 3 lines, 2 elements per line and 3 elements in total.
  - Values are {1, NaN, +inf}. Sentinels are {NaN, 1, +inf}, which covers the infinite-value check with a finite sentinel and without one.
  - Batches start either at the page's end or at `base_rowid`. The second case throws from `CHECK_GE` in one thread when the overlapping lines hold elements.
  - Batches of 1 line with 2 threads reach `thread_size == 0`.
- **Transpose:** 3 threads over 4 source pages, including an empty page, a page with empty rows, and a page with a column shared by two rows. The split can give a thread 0 rows.
- **CscMerge:** pages with empty columns, mismatched widths and an empty page. There are at most 4 entries in total.
- **CuDriverApi:**
  - 3 threads, each making one of 4 calls (64 combinations), with the driver exporting or not exporting its entry points.
  - The smi outputs cover a normal version, the WSL two-field form, a pre-570 driver, an int32 overflow, a header only, and a non-numeric line.
  - Driver versions are 12.8 and 12.4, so decompression is wanted in some cases and not others. Device counts are 0 and 1.
- **DMatrixProxy:** batches of 1 and 2 rows. Labels fit one batch, fit both batches, are multi-target, or are rejected.
- **MetaInfoBinary:** a smaller set of MetaInfo inputs than MC_MetaInfo's (2 label arrays, one weight and one group array, one row selection, one Extend batch carrying a label, a weight and a group). Extend still reaches continued and misaligned groups. The feature arrays are a categorical type of one column and two columns whose second is unknown. The second array leaves `feature_types` partly filled when the call throws. The running build is 3.1. The foreign files are a 4.0 file, which `CHECK_GE(minor, 1)` refuses as it refuses 3.0 files, and a 3.2 file with a categorical feature type, which must load. Every prefix of each stream is reached.
- **MetaInfo:** at most 3 rows and 7 stored values. Labels may be multi-target or rejected. Weights may be valid or negative. Groups are a single group or two groups. Two kinds of Extend batch are used, plus three row selections for Slice.

## Fairness

- `CuDriverApi` puts weak fairness on every step of every thread. A thread blocked in `call_once` becomes runnable when the active execution ends and stays runnable, so weak fairness suffices; the OS schedules runnable threads. `CallersFinish` is checked under this fairness.
- The other modules check only safety. `PushAdapter` and `Transpose` model OpenMP threads, but none of their properties is about progress.

## Known limits

- `Reindex` stores `(index + feature_offset) mod 2^IndexWidth`, as the 32-bit `Entry::index` does. `MatrixRefinement` would report a wrap, but the run keeps the sums below `MaxIndex < 2^IndexWidth`, because a wrap needs more than 2^32 features.
- Two single-step bugs are listed as hazards without a run: `Extend` overwrites `num_col_` after taking the max (data.cc:724), and `Slice` assigns the group weights to themselves (data.cc:452).
- `feature_weights`, `cats`, `base_margin` and the label bounds are serialized with their defaults only. The `cats` JSON is an opaque item. `SetInfo` for the label bounds and `feature_weights`, and the reads `GetInfo`/`GetFeatureInfo`, are not modelled. They copy and check fields that no property reads.
- `SetFeatureInfo` under a column split gathers the names from all workers, which is a collective call outside src/.
- `Extend` is not all-or-nothing (data.cc:718). `meta_binary` explores the caller going on with a half-extended MetaInfo, but no run states atomicity, which neither the code nor spec.md promises.
- `LoadBinary` with more than `kNumField` fields logs a warning and leaves the extra fields in the stream. What reads the stream after the MetaInfo is `SimpleDMatrix`, which is not under src/.
- The CUDA branch of `CreateDMatrixFromProxy` and the CUDA setters' success paths are in .cu files outside src/.
- `ThrowIfError` is modelled by its outcome: any status other than CUDA_SUCCESS throws, whatever `cuGetErrorName`/`cuGetErrorString` return. The message assembly is not modelled.

## Not modelled

- `DMatrix::Load`, `TryLoadBinary` and the `DMatrix::Create` factories (data.cc 884-1014) only construct DMatrix classes whose code is outside src/. This includes `SimpleDMatrix`, which reads the stream after the MetaInfo.
- The thread-local `XGBAPIThreadLocalEntry` map (data.cc 882-894) is listed as a hazard. `~DMatrix` erases only the destroying thread's entry. The C API code that fills and reads entries is outside src/, so the consequence cannot be judged from this code.
- `SynchronizeNumberOfColumns` and the federated checks are single collective calls.

## Possible extensions

1. MetaInfo `base_margin`, the label bounds and `feature_weights` in `SetInfo`, `Extend`, `Slice` and serialization. They follow the patterns already modelled and would need larger bounds.
2. `qid` in `SetInfo`, whose run-length encoding (`common::RunLengthEncode`) is outside src/.
