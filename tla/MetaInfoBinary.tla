--------------------------- MODULE MetaInfoBinary ---------------------------
(***************************************************************************)
(* The binary serialization of MetaInfo (src/src/data/data.cc:69-298,      *)
(* 313-365): SaveBinary writes the version, the field count and thirteen   *)
(* named, typed, shaped fields; LoadBinary reads them back in the same     *)
(* order, CHECKing every name, type, scalar flag, vector shape and read.   *)
(* It extends the MetaInfo state machine with the feature-indexed names   *)
(* and types (SetFeatureInfo, 654-690) and with the caller going on after *)
(* a call throws, as one that catches dmlc::Error does.                    *)
(*                                                                         *)
(* A stream is a sequence of items, one per SaveScalarField,               *)
(* SaveVectorField or SaveTensorField call (the header's version and       *)
(* count are items too), followed by Rest, what the writer put after the   *)
(* MetaInfo.  A read past the end of the stream fails, as dmlc's Read      *)
(* returns false.  Fields the MetaInfo model does not hold are written     *)
(* with their default values and only checked on load.                    *)
(***************************************************************************)
EXTENDS MetaInfo

CONSTANTS
  Builds,       \* Version::Self() of the builds that may run this process
  ForeignFiles, \* files written by other builds: [version, meta, extra]
  FeatureInfos  \* the string arrays a caller may pass to SetFeatureInfo

VARIABLES
  feature_names, feature_type_names,
  feature_types,    \* FeatureType of each column, "num" or "cat"
  has_categorical,  \* has_categorical_
  build,  \* Version::Self() of this process, <<major, minor>>
  file,   \* the stream on disk
  saved   \* the fields the MetaInfo in file was saved from (history)

featvars == <<feature_names, feature_type_names, feature_types, has_categorical>>
binvars == <<build, file, saved>>
allvars == <<vars, featvars, binvars>>

\* The serialized fields of the MetaInfo model, as a record.
InfoRec == [num_row |-> num_row, num_col |-> num_col, labels |-> labels,
            weights |-> weights, group_ptr |-> group_ptr,
            feature_names |-> feature_names, feature_type_names |-> feature_type_names]
NoInfo == [num_row |-> 0, num_col |-> 0, labels |-> NoLabels, weights |-> <<>>,
           group_ptr |-> <<>>, feature_names |-> <<>>, feature_type_names |-> <<>>]

\* MetaInfo::kNumField.
kNumField == 13

Item(name, type, scalar, shape, value) ==
  [name |-> name, type |-> type, scalar |-> scalar, shape |-> shape, value |-> value]
Rest == Item("rest", "none", FALSE, <<>>, <<>>)

\* Version::Save and the field count.
VersionItem(v) == Item("version", "none", TRUE, <<>>, v)
CountItem(n) == Item("num_field", "kUInt64", TRUE, <<>>, n)
\* SaveScalarField: name, type, is_scalar = true, value.
SaveScalarField(name, type, x) == Item(name, type, TRUE, <<>>, x)
\* SaveVectorField: name, type, is_scalar = false, shape {size, 1}, values.
SaveVectorField(name, type, x) == Item(name, type, FALSE, <<Len(x), 1>>, x)
\* Mutant: the first dimension written one short.
SaveTensorFieldShort(name, type, t) == Item(name, type, FALSE, <<t.rows - 1, Targets(t)>>, t.vals)
\* SaveTensorField: name, type, is_scalar = false, every dimension, values.
SaveTensorField(name, type, t) == Item(name, type, FALSE, <<t.rows, Targets(t)>>, t.vals)

\* Mutant: weights written before group_ptr.
SaveStreamSwapped(v, m) ==
  << VersionItem(v), CountItem(kNumField),
     SaveScalarField("num_row", "kUInt64", m.num_row),
     SaveScalarField("num_col", "kUInt64", m.num_col),
     SaveScalarField("num_nonzero", "kUInt64", 0),
     SaveTensorField("labels", "kFloat32", m.labels),
     SaveVectorField("weights", "kFloat32", m.weights),
     SaveVectorField("group_ptr", "kUInt32", m.group_ptr),
     SaveTensorField("base_margin", "kFloat32", NoLabels),
     SaveVectorField("labels_lower_bound", "kFloat32", <<>>),
     SaveVectorField("labels_upper_bound", "kFloat32", <<>>),
     SaveVectorField("feature_names", "kStr", m.feature_names),
     SaveVectorField("feature_types", "kStr", m.feature_type_names),
     SaveVectorField("feature_weights", "kFloat32", <<>>),
     SaveVectorField("cats", "kStr", <<"{}">>) >>

\* MetaInfo::SaveBinary by a build of version v: the stream of the
\* MetaInfo m, in the table's order.
SaveStream(v, m) ==
  << VersionItem(v), CountItem(kNumField),
     SaveScalarField("num_row", "kUInt64", m.num_row),
     SaveScalarField("num_col", "kUInt64", m.num_col),
     SaveScalarField("num_nonzero", "kUInt64", 0),
     SaveTensorField("labels", "kFloat32", m.labels),
     SaveVectorField("group_ptr", "kUInt32", m.group_ptr),
     SaveVectorField("weights", "kFloat32", m.weights),
     SaveTensorField("base_margin", "kFloat32", NoLabels),
     SaveVectorField("labels_lower_bound", "kFloat32", <<>>),
     SaveVectorField("labels_upper_bound", "kFloat32", <<>>),
     SaveVectorField("feature_names", "kStr", m.feature_names),
     SaveVectorField("feature_types", "kStr", m.feature_type_names),
     SaveVectorField("feature_weights", "kFloat32", <<>>),
     SaveVectorField("cats", "kStr", <<"{}">>) >>

\* The fields LoadBinary expects, in its order: name, type, and which of
\* LoadScalarField, LoadVectorField or LoadTensorField reads it.
LoadOrder ==
  << <<"num_row", "kUInt64", "scalar">>, <<"num_col", "kUInt64", "scalar">>,
     <<"num_nonzero", "kUInt64", "scalar">>, <<"labels", "kFloat32", "tensor">>,
     <<"group_ptr", "kUInt32", "vector">>, <<"weights", "kFloat32", "vector">>,
     <<"base_margin", "kFloat32", "tensor">>,
     <<"labels_lower_bound", "kFloat32", "vector">>,
     <<"labels_upper_bound", "kFloat32", "vector">>,
     <<"feature_names", "kStr", "vector">>, <<"feature_types", "kStr", "vector">>,
     <<"feature_weights", "kFloat32", "vector">>, <<"cats", "kStr", "vector">> >>

\* The CHECKs of the Load*Field readers on one item: name, type, the
\* is_scalar flag, and a vector's second dimension.
FieldLoads(it, expected) ==
  /\ it.name = expected[1] /\ it.type = expected[2]
  /\ it.scalar = (expected[3] = "scalar")
  /\ expected[3] = "vector" => it.shape[2] = 1

\* LoadFeatureType(type_names, types): types is cleared, then each name
\* appends its FeatureType; the first name that is none of int, float, i,
\* q, c throws (LOG(FATAL)), leaving the types of the names before it.
KnownType(n) == n \in {"int", "float", "i", "q", "c"}
FirstUnknownType(names) ==
  Min({k \in 1 .. Len(names) : ~KnownType(names[k])} \cup {Len(names) + 1})
LoadedTypes(names) ==
  [k \in 1 .. FirstUnknownType(names) - 1 |-> IF names[k] = "c" THEN "cat" ELSE "num"]
\* LoadFeatureType returns (rather than throws).
LoadFeatureType(names) == \A k \in 1 .. Len(names) : KnownType(names[k])
HasCat(names) == \E k \in 1 .. Len(names) : names[k] = "c"

\* The number of fields LoadBinary insists on for a file of version v.
ExpectedFields(v) == IF v[1] = 1 /\ v[2] < 2 THEN kNumField - 2 ELSE kNumField

\* The header checks of LoadBinary: the version and the field count are
\* read, major >= 3, minor >= 1, and the count is at least the expected.
HeaderLoads(s) ==
  /\ Len(s) >= 2
  /\ s[1].value[1] >= 3 /\ s[1].value[2] >= 1
  /\ s[2].value >= ExpectedFields(s[1].value)

\* The index of the first field whose load fails, kNumField + 1 if none.
FirstBadField(s) ==
  Min({i \in 1 .. kNumField : ~(2 + i <= Len(s) /\ FieldLoads(s[2 + i], LoadOrder[i]))}
      \cup {kNumField + 1})

\* MetaInfo::LoadBinary(fi) on this MetaInfo, reading the stream on disk.
\* Each field is assigned as soon as it is read, so a CHECK that fails
\* leaves the fields before it loaded; LoadFeatureType runs once
\* feature_weights is read, before cats.
LoadBinary ==
  /\ status = "ok"
  /\ LET bad == IF HeaderLoads(file) THEN FirstBadField(file) ELSE 0
         got(i) == 0 < i /\ i < bad
         names == file[13].value
     IN /\ num_row' = IF got(1) THEN file[3].value ELSE num_row
        /\ num_col' = IF got(2) THEN file[4].value ELSE num_col
        /\ labels' = IF got(4) THEN [rows |-> file[6].shape[1], vals |-> file[6].value]
                     ELSE labels
        /\ group_ptr' = IF got(5) THEN file[7].value ELSE group_ptr
        /\ weights' = IF got(6) THEN file[8].value ELSE weights
        /\ feature_names' = IF got(10) THEN file[12].value ELSE feature_names
        /\ feature_type_names' = IF got(11) THEN names ELSE feature_type_names
        /\ feature_types' = IF got(12) THEN LoadedTypes(names) ELSE feature_types
        /\ has_categorical' = IF got(12) /\ LoadFeatureType(names) THEN HasCat(names)
                              ELSE has_categorical
        /\ status' = IF bad = kNumField + 1 /\ LoadFeatureType(names) THEN "ok" ELSE "failed"
  /\ UNCHANGED <<label_order_cache, binvars>>

\* MetaInfo::SetFeatureInfo(key, strs, size) with the data split by rows:
\* CHECK_EQ(size, num_col_) when both are non-zero; "feature_type" stores
\* the names and then runs LoadFeatureType on them, "feature_name" stores
\* the names.
SetFeatureInfo(key, strs) ==
  /\ status = "ok"
  /\ IF Len(strs) # 0 /\ num_col # 0 /\ Len(strs) # num_col
     THEN /\ status' = "failed"
          /\ UNCHANGED featvars
     ELSE IF key = "feature_type"
     THEN /\ feature_type_names' = strs
          /\ feature_types' = LoadedTypes(strs)
          /\ has_categorical' = IF LoadFeatureType(strs) THEN HasCat(strs) ELSE has_categorical
          /\ status' = IF LoadFeatureType(strs) THEN "ok" ELSE "failed"
          /\ UNCHANGED feature_names
     ELSE /\ feature_names' = strs
          /\ UNCHANGED <<feature_type_names, feature_types, has_categorical, status>>
  /\ UNCHANGED <<num_row, num_col, labels, weights, group_ptr, label_order_cache, binvars>>

\* The call that threw returns an error (the C API turns dmlc::Error into
\* a return code) to a caller that goes on with the same MetaInfo, as the
\* call left it.
Recover ==
  /\ status = "failed"
  /\ status' = "ok"
  /\ UNCHANGED <<num_row, num_col, labels, weights, group_ptr, label_order_cache,
                 featvars, binvars>>

\* The caller saves this MetaInfo into the file.
SaveBinary ==
  /\ status = "ok"
  /\ file = <<>>
  /\ file' = SaveStream(build, InfoRec) \o <<Rest>>
  /\ saved' = InfoRec
  /\ UNCHANGED <<vars, featvars, build>>

\* A writer that stopped part-way (a crash, a full disk, a cut copy) leaves
\* a prefix of the stream; an empty file fails LoadBinary as one holding the
\* version alone does.
Truncate ==
  /\ \E k \in 1 .. Len(file) - 1 : file' = SubSeq(file, 1, k)
  /\ UNCHANGED <<vars, featvars, build, saved>>

\* The file on disk is one another build saved, possibly with fields
\* appended after the ones this build knows.
Receive(f) ==
  /\ file = <<>>
  /\ file' = SaveStream(f.version, f.meta) \o f.extra \o <<Rest>>
  /\ saved' = f.meta
  /\ UNCHANGED <<vars, featvars, build>>

NoFeatures == feature_names = <<>> /\ feature_type_names = <<>> /\ feature_types = <<>>

BinInit ==
  /\ Init
  /\ feature_names = <<>> /\ feature_type_names = <<>> /\ feature_types = <<>>
  /\ has_categorical = FALSE
  /\ build \in Builds /\ file = <<>> /\ saved = NoInfo

\* Bounds on exploration: the caller's calls on the rows come first, then
\* the calls on the features (so Extend never meets feature types, whose
\* CheckFeatureTypes is not under src/), then one file is written (saved
\* or received), and from then on it is only cut short and read.  Until
\* then a thrown error may be caught.
BinNext ==
  \/ Next /\ file = <<>> /\ NoFeatures /\ UNCHANGED <<featvars, binvars>>
  \/ \E key \in {"feature_type", "feature_name"}, strs \in FeatureInfos :
       file = <<>> /\ SetFeatureInfo(key, strs)
  \/ file = <<>> /\ Recover
  \/ SaveBinary
  \/ LoadBinary
  \/ Truncate
  \/ \E f \in ForeignFiles : Receive(f)

BinSpec == BinInit /\ [][BinNext]_allvars

-----------------------------------------------------------------------------
BinTypeOK ==
  /\ TypeOK
  /\ feature_names \in Seq(STRING) /\ feature_type_names \in Seq(STRING)
  /\ feature_types \in Seq({"num", "cat"}) /\ has_categorical \in BOOLEAN
  /\ build \in Builds
  /\ \A k \in 1 .. Len(file) :
       file[k].name \in STRING /\ file[k].scalar \in BOOLEAN /\ file[k].shape \in Seq(Nat)
  /\ saved \in [num_row : Nat, num_col : Nat, labels : [rows : Nat, vals : Seq(Int)],
                weights : Seq(Int), group_ptr : Seq(Nat),
                feature_names : Seq(STRING), feature_type_names : Seq(STRING)]

\* Versions not older than 3.1: the ones LoadBinary's message does not call
\* "no longer supported" (it tells the user of an older file to save the
\* data again with this build).
Supported(v) == v[1] > 3 \/ (v[1] = 3 /\ v[2] >= 1)

\* The stream holds a whole MetaInfo: every field up to cats, and the
\* feature type names are ones LoadFeatureType knows.
WholeMeta(s) ==
  /\ Len(s) >= 2 + kNumField
  /\ LoadFeatureType(s[13].value)

\* SaveBinary and LoadBinary round-trip.  When LoadBinary returns normally
\* the file held a whole MetaInfo of a supported version, and the MetaInfo
\* now holds the fields saved into that file, whatever it held before the
\* load, with feature types that agree with their names.  Conversely a
\* whole MetaInfo saved by the running build itself always loads.
LoadRoundTrip ==
  [][LoadBinary =>
       /\ status' = "ok" =>
            /\ Supported(file[1].value) /\ WholeMeta(file)
            /\ InfoRec' = saved
            /\ feature_types' = LoadedTypes(feature_type_names')
            /\ has_categorical' = HasCat(feature_type_names')
       /\ WholeMeta(file) /\ file[1].value = build => status' = "ok"]_allvars

\* Whatever calls the caller made, including ones that threw, a MetaInfo it
\* can save is written as a file this build loads back: its header passes
\* LoadBinary's version and field-count checks and it holds a whole
\* MetaInfo.  SaveBinary writes feature_type_names as they are, and
\* SetFeatureInfo stores them before LoadFeatureType rejects one.
SaveBinaryLoadable == [][SaveBinary => HeaderLoads(file') /\ WholeMeta(file')]_allvars

=============================================================================
