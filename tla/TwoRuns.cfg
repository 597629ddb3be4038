SPECIFICATION Spec
CONSTANTS
  Runs = {r1, r2}
  GpuTypes = {L40S}
  GpuOf <- MCGpuOf
  Quota <- MCQuota
  Vms = {v1}
  MaxAttempts = 2
  ReleaseTries = 2
  MaxCrashes = 0
CONSTRAINTS OneRelease SilentVms
SYMMETRY MCSymmetry
INVARIANT QuotaKept
