CONSTANTS
  t1 = t1
  t2 = t2
  t3 = t3
  Threads <- MC_Threads
  Calls = {"api", "host_loc", "c2c", "device_loc"}
  DrVersions <- MC_DrVersions
  SmiOutputs <- MC_SmiOutputs
  C2cOutputs = {1, 3}
  DeviceCounts = {0, 1}

SPECIFICATION Spec

INVARIANT TypeOK
INVARIANT ApiSingleton
INVARIANT VersionsAgree
PROPERTY CallersFinish

\* The calls all return, after which the threads stop.
CHECK_DEADLOCK FALSE
