SPECIFICATION Spec
CONSTANTS
  Runs = {r1}
  GpuTypes = {L40S}
  GpuOf <- MCGpuOf
  Quota <- MCQuota
  Vms = {v1, v2}
  MaxAttempts = 2
  ReleaseTries = 1
  MaxCrashes = 1
SYMMETRY MCSymmetry
INVARIANTS
  TypeOK
  OneProvisioner
  ResultIsFinal
  ResultOnce
  RetryBudget
  RunningHasVm
  TwoRowsNeedCrash
  ProvisioningIsOwned
PROPERTIES
  DoneStays
  ImplementsLifecycle
