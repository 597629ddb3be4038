SPECIFICATION FairSpec
CONSTANTS
  Runs = {r1}
  GpuTypes = {L40S}
  GpuOf <- MCGpuOf
  Quota <- MCQuota
  Vms = {v1}
  MaxAttempts = 2
  ReleaseTries = 1
  MaxCrashes = 1
PROPERTIES
  EveryRunEnds
  ImplementsFleet
