SPECIFICATION Spec
CONSTANTS
  LastCap = 3
  KnownCapabilityBits = 4
  CAP_SETPCAP = 1
  CAP_PERFMON = 2
  CAP_BPF = 3
  InitialCredentials <- MCInitialCredentials
INVARIANTS NoAuthorityLeft FailedMinimizationClean MinimizedExact
PROPERTIES DropEndsAuthority
