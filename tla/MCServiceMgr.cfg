SPECIFICATION Spec
CONSTANTS
  Name = {"net", "vfs"}
  Config <- TwoServices
  MaxServices = 3
  MaxCrashes = 2
  FirstPid = 100
  Base = 2
  BackoffMod = 16
INVARIANTS PidMeansRunning
PROPERTIES DisabledOnlyByCrashLoop CrashHandled
CHECK_DEADLOCK FALSE
