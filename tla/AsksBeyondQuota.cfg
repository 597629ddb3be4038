SPECIFICATION Spec
CONSTANTS
  Runs = {r1, r2}
  GpuTypes = {L40S}
  GpuOf <- MCGpuOf
  Quota <- MCQuota
  Vms = {v1}
  MaxAttempts = 1
  ReleaseTries = 1
  MaxCrashes = 0
INVARIANT NeverAsksBeyondQuota
