SPECIFICATION PrepSpec
CONSTANTS
  LastCap = 2
  KnownCapabilityBits = 3
  CAP_SETPCAP = 0
  CAP_PERFMON = 1
  CAP_BPF = 2
  InitialCredentials <- MCInitialCredentials
  Targets = {t1, t2}
  Programs = 2
  MaxCollectors = 2
INVARIANTS NothingLeaks
PROPERTIES PreparedPowerless
