----------------------------- MODULE CuDriverApi -----------------------------
(***************************************************************************)
(* The lazily initialised driver globals of src/src/common/cuda_dr_utils.cc *)
(* called by concurrent host threads.  Three function-local statics are    *)
(* guarded by std::call_once: the CuDriverApi table (GetGlobalCuDriverApi), *)
(* the nvidia-smi driver version (GetVersionFromSmiGlobal) and the C2C     *)
(* link count (GetC2cLinkCountFromSmiGlobal).  A once flag is "init",      *)
(* "running" (one active execution, the other callers wait) or "done".  An *)
(* execution that throws leaves the flag "init", and a later caller runs   *)
(* the initialiser again.                                                  *)
(*                                                                         *)
(* The environment is fixed for a process: the CUDA driver version         *)
(* (curt::GetDrVersionGlobal, outside this file), whether the driver       *)
(* exports the entry points, and the device count.                        *)
(* Command output is abstracted: the nvidia-smi version output is a        *)
(* sequence of lines, each the sequence of its '.'-separated fields, and a *)
(* field is the value of its leading digits (a Nat), Junk (no leading     *)
(* digit) or Overflow (digits beyond int32).  The c2c output is its        *)
(* number of lines.                                                        *)
(***************************************************************************)
EXTENDS Integers, Sequences, FiniteSets

CONSTANTS
  Threads,      \* host threads calling into the driver utilities
  Calls,        \* entry points a thread may call (see Start)
  DrVersions,   \* CUDA driver versions [major, minor] the process may see
  SmiOutputs,   \* outputs `nvidia-smi --query-gpu=driver_version` may give
  C2cOutputs,   \* line counts `nvidia-smi c2c -s -i 0` may give
  DeviceCounts  \* curt::AllVisibleGPUs() values

VARIABLES
  dr, exports, ndev,         \* the environment, fixed at start
  call, pc,                  \* what each thread calls, and where it is
  smi_flag, smi,             \* once flag and statics of GetVersionFromSmiGlobal
  api_flag, cu, constructed, \* once flag and table of GetGlobalCuDriverApi
  c2c_flag, c2c,             \* once flag and count of GetC2cLinkCountFromSmiGlobal
  kdm,                       \* kdm[t]: the kdm_major local of thread t's call
  got                        \* got[t]: what thread t's call returned

vars == <<dr, exports, ndev, call, pc, smi_flag, smi, api_flag, cu, constructed,
          c2c_flag, c2c, kdm, got>>

\* The std::unique_ptr<CuDriverApi> before make_unique has succeeded.
NoApi == [loaded |-> FALSE, kdm_major |-> -1, decompress |-> FALSE]

(***************************************************************************)
(* GetVersionFromSmi, on the abstracted output.                            *)
(***************************************************************************)
\* std::from_chars into an int32: the value of the leading digits, an error
\* when there is none (invalid_argument) or it does not fit (out_of_range).
Junk == -1
Overflow == -2
FromCharsOk(field) == field >= 0
Invalid == [result |-> FALSE, major |-> -1, minor |-> -1]
\* Mutant: only the major's from_chars result checked.
GetVersionFromSmiMajorOnly(out) ==
  IF Len(out) < 2 THEN Invalid
  ELSE LET ver == out[2]
       IN IF Len(ver) # 2 /\ Len(ver) # 3 THEN Invalid
          ELSE IF ~FromCharsOk(ver[1]) THEN Invalid
          ELSE [result |-> TRUE, major |-> ver[1], minor |-> ver[2]]
GetVersionFromSmi(out) ==
  IF Len(out) < 2 THEN Invalid   \* empty output, or no line after the header
  ELSE LET ver == out[2]          \* the first GPU's line
       IN IF Len(ver) # 2 /\ Len(ver) # 3 THEN Invalid
          ELSE IF ~FromCharsOk(ver[1]) \/ ~FromCharsOk(ver[2]) THEN Invalid
          ELSE [result |-> TRUE, major |-> ver[1], minor |-> ver[2]]

\* The hardware decompression entry point is loaded only for CTK 12.8+
\* with a 570+ kernel driver.
DecompressWanted(cu_major, cu_minor, kdm_major) ==
  /\ (cu_major = 12 /\ cu_minor >= 8) \/ cu_major > 12
  /\ kdm_major >= 570

\* detail::GetC2cLinkCountFromSmiImpl and GetC2cLinkCountFromSmi.
GetC2cLinkCountFromSmi(n_devices, lines) ==
  IF n_devices < 1 THEN -1
  ELSE IF lines <= 1 THEN -1 ELSE lines - 1

Init ==
  /\ dr \in DrVersions /\ exports \in BOOLEAN /\ ndev \in DeviceCounts
  /\ call \in [Threads -> Calls]
  /\ pc = [t \in Threads |-> "start"]
  /\ smi_flag = "init" /\ smi = Invalid
  /\ api_flag = "init" /\ cu = NoApi /\ constructed = 0
  /\ c2c_flag = "init" /\ c2c = -1
  /\ kdm = [t \in Threads |-> -1]
  /\ got = [t \in Threads |-> NoApi]

env == <<dr, exports, ndev, call>>

\* A thread makes its call.  GetGlobalCuDriverApi (also reached by a host
\* MakeCuMemLocation) first queries the driver and smi versions; a device
\* MakeCuMemLocation returns the current ordinal without the driver.
Start(t) ==
  /\ pc[t] = "start"
  /\ pc' = [pc EXCEPT ![t] = CASE call[t] \in {"api", "host_loc"} -> "smi"
                               [] call[t] = "c2c" -> "c2c"
                               [] call[t] = "device_loc" -> "returned"]
  /\ UNCHANGED <<env, smi_flag, smi, api_flag, cu, constructed, c2c_flag, c2c, kdm, got>>

\* Mutant: the version query run on every call, as without the static
\* once flag.
SmiCallEveryTime(t) ==
  /\ pc[t] = "smi"
  /\ pc' = [pc EXCEPT ![t] = "smi_run"]
  /\ UNCHANGED <<env, smi_flag, smi, api_flag, cu, constructed, c2c_flag, c2c, kdm, got>>

\* std::call_once in GetVersionFromSmiGlobal: a finished flag hands the
\* statics out (kdm_major = -1 when the query failed); a free flag makes
\* this thread the active execution; a running one blocks the caller.
SmiCall(t) ==
  /\ pc[t] = "smi"
  /\ smi_flag # "running"
  /\ IF smi_flag = "done"
     THEN /\ kdm' = [kdm EXCEPT ![t] = IF smi.result THEN smi.major ELSE -1]
          /\ pc' = [pc EXCEPT ![t] = "api"]
          /\ UNCHANGED smi_flag
     ELSE /\ smi_flag' = "running"
          /\ pc' = [pc EXCEPT ![t] = "smi_run"]
          /\ UNCHANGED kdm
  /\ UNCHANGED <<env, smi, api_flag, cu, constructed, c2c_flag, c2c, got>>

\* The active execution runs nvidia-smi and parses it into the statics,
\* completes the flag, and its caller reads them back.
SmiRun(t) ==
  /\ pc[t] = "smi_run"
  /\ \E out \in SmiOutputs :
       LET v == GetVersionFromSmi(out)
       IN /\ smi' = v
          /\ kdm' = [kdm EXCEPT ![t] = IF v.result THEN v.major ELSE -1]
  /\ smi_flag' = "done"
  /\ pc' = [pc EXCEPT ![t] = "api"]
  /\ UNCHANGED <<env, api_flag, cu, constructed, c2c_flag, c2c, got>>

\* Mutant: the flag read without waiting for a running initialiser, as a
\* hand-rolled "if (!cu) ..." check would.
ApiCallNoWait(t) ==
  /\ pc[t] = "api"
  /\ IF api_flag # "init"
     THEN /\ got' = [got EXCEPT ![t] = cu]
          /\ pc' = [pc EXCEPT ![t] = IF call[t] = "host_loc" THEN "loc" ELSE "returned"]
          /\ UNCHANGED api_flag
     ELSE /\ api_flag' = "running"
          /\ pc' = [pc EXCEPT ![t] = "api_run"]
          /\ UNCHANGED got
  /\ UNCHANGED <<env, smi_flag, smi, cu, constructed, c2c_flag, c2c, kdm>>

\* std::call_once in GetGlobalCuDriverApi; return *cu once it is done.
ApiCall(t) ==
  /\ pc[t] = "api"
  /\ api_flag # "running"
  /\ IF api_flag = "done"
     THEN /\ got' = [got EXCEPT ![t] = cu]
          /\ pc' = [pc EXCEPT ![t] = IF call[t] = "host_loc" THEN "loc" ELSE "returned"]
          /\ UNCHANGED api_flag
     ELSE /\ api_flag' = "running"
          /\ pc' = [pc EXCEPT ![t] = "api_run"]
          /\ UNCHANGED got
  /\ UNCHANGED <<env, smi_flag, smi, cu, constructed, c2c_flag, c2c, kdm>>

\* Mutant: an initialiser that throws leaves the flag running.
ApiRunKeepsFlag(t) ==
  /\ pc[t] = "api_run"
  /\ IF exports
     THEN /\ cu' = [loaded |-> TRUE, kdm_major |-> kdm[t],
                    decompress |-> DecompressWanted(dr.major, dr.minor, kdm[t])]
          /\ constructed' = constructed + 1
          /\ api_flag' = "done"
          /\ got' = [got EXCEPT ![t] = cu']
          /\ pc' = [pc EXCEPT ![t] = IF call[t] = "host_loc" THEN "loc" ELSE "returned"]
     ELSE /\ pc' = [pc EXCEPT ![t] = "threw"]
          /\ UNCHANGED <<cu, constructed, api_flag, got>>
  /\ UNCHANGED <<env, smi_flag, smi, c2c_flag, c2c, kdm>>

\* The active execution constructs CuDriverApi from this caller's
\* versions: every safe_load CHECKs its entry point, so a driver without
\* them throws, cu stays empty and the flag is released for a retry; else
\* cu is set, the flag completes and the caller returns *cu.
ApiRun(t) ==
  /\ pc[t] = "api_run"
  /\ IF exports
     THEN /\ cu' = [loaded |-> TRUE, kdm_major |-> kdm[t],
                    decompress |-> DecompressWanted(dr.major, dr.minor, kdm[t])]
          /\ constructed' = constructed + 1
          /\ api_flag' = "done"
          /\ got' = [got EXCEPT ![t] = cu']
          /\ pc' = [pc EXCEPT ![t] = IF call[t] = "host_loc" THEN "loc" ELSE "returned"]
     ELSE /\ api_flag' = "init"
          /\ pc' = [pc EXCEPT ![t] = "threw"]
          /\ UNCHANGED <<cu, constructed, got>>
  /\ UNCHANGED <<env, smi_flag, smi, c2c_flag, c2c, kdm>>

\* CuDriverApi::ThrowIfError: every status but CUDA_SUCCESS ends in
\* LOG(FATAL), whether cuGetErrorName and cuGetErrorString succeed or not
\* (they only shape the message).
ThrowIfError(status) == status # "CUDA_SUCCESS"

\* Host MakeCuMemLocation: cuDeviceGet and then cuDeviceGetAttribute
\* through the table, each wrapped in safe_cu; the location is the NUMA id
\* clamped at 0.
HostLocation(t) ==
  /\ pc[t] = "loc"
  /\ \E get, attr \in {"CUDA_SUCCESS", "CUDA_ERROR_INVALID_DEVICE"} :
       pc' = [pc EXCEPT ![t] = IF ThrowIfError(get) \/ ThrowIfError(attr)
                                THEN "threw" ELSE "returned"]
  /\ UNCHANGED <<env, smi_flag, smi, api_flag, cu, constructed, c2c_flag, c2c, kdm, got>>

\* std::call_once in GetC2cLinkCountFromSmiGlobal, then return cnt.
C2cCall(t) ==
  /\ pc[t] = "c2c"
  /\ c2c_flag # "running"
  /\ IF c2c_flag = "done"
     THEN /\ pc' = [pc EXCEPT ![t] = "returned"]
          /\ UNCHANGED c2c_flag
     ELSE /\ c2c_flag' = "running"
          /\ pc' = [pc EXCEPT ![t] = "c2c_run"]
  /\ UNCHANGED <<env, smi_flag, smi, api_flag, cu, constructed, c2c, kdm, got>>

C2cRun(t) ==
  /\ pc[t] = "c2c_run"
  /\ \E lines \in C2cOutputs : c2c' = GetC2cLinkCountFromSmi(ndev, lines)
  /\ c2c_flag' = "done"
  /\ pc' = [pc EXCEPT ![t] = "returned"]
  /\ UNCHANGED <<env, smi_flag, smi, api_flag, cu, constructed, kdm, got>>

Next ==
  \E t \in Threads :
    \/ Start(t) \/ SmiCall(t) \/ SmiRun(t) \/ ApiCall(t) \/ ApiRun(t)
    \/ HostLocation(t) \/ C2cCall(t) \/ C2cRun(t)

\* The OS schedules every runnable thread; a thread blocked in call_once is
\* runnable again, and stays so, once the active execution has finished.
Fairness ==
  \A t \in Threads :
    /\ WF_vars(Start(t)) /\ WF_vars(SmiCall(t)) /\ WF_vars(SmiRun(t))
    /\ WF_vars(ApiCall(t)) /\ WF_vars(ApiRun(t)) /\ WF_vars(HostLocation(t))
    /\ WF_vars(C2cCall(t)) /\ WF_vars(C2cRun(t))

Spec == Init /\ [][Next]_vars /\ Fairness

-----------------------------------------------------------------------------
Flags == {"init", "running", "done"}
TypeOK ==
  /\ pc \in [Threads -> {"start", "smi", "smi_run", "api", "api_run", "loc",
                          "c2c", "c2c_run", "returned", "threw"}]
  /\ {smi_flag, api_flag, c2c_flag} \subseteq Flags
  /\ smi \in [result : BOOLEAN, major : Int, minor : Int]
  /\ smi.result => smi.major \in Nat /\ smi.minor \in Nat
  /\ kdm \in [Threads -> Int] /\ constructed \in Nat /\ c2c \in Int
  /\ cu.loaded \in BOOLEAN /\ \A t \in Threads : got[t].loaded \in BOOLEAN

\* Threads whose GetGlobalCuDriverApi call has returned.
ApiReturned(t) ==
  \/ call[t] \in {"api", "host_loc"} /\ pc[t] \in {"loc", "returned"}
  \/ call[t] = "host_loc" /\ pc[t] = "threw" /\ got[t].loaded

\* Whatever the interleaving of the callers and however many initialisers
\* threw before, the CuDriverApi table is constructed at most once, and
\* every GetGlobalCuDriverApi that returns hands out that table, never the
\* empty unique_ptr (return *cu after std::call_once).
ApiSingleton ==
  /\ constructed <= 1
  /\ \A t \in Threads : ApiReturned(t) => got[t].loaded /\ got[t] = cu

\* Every caller that got past GetVersionFromSmiGlobal holds the same
\* kdm_major, and it is the one the table was constructed with, so whether
\* cuMemBatchDecompressAsync is loaded agrees with the version every
\* thread sees.
VersionsAgree ==
  \A t, u \in Threads :
    LET past(x) == call[x] \in {"api", "host_loc"} /\ pc[x] \notin {"start", "smi", "smi_run"}
    IN /\ past(t) /\ past(u) => kdm[t] = kdm[u]
       /\ past(t) /\ cu.loaded => kdm[t] = cu.kdm_major

\* Every call returns or throws: no thread waits forever on a once flag,
\* also when the CuDriverApi constructor throws for every caller.
CallersFinish == <>(\A t \in Threads : pc[t] \in {"returned", "threw"})

=============================================================================
