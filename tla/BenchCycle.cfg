SPECIFICATION Spec
CONSTANTS
  c1 = c1
  c2 = c2
  r1 = r1
  Cycles <- MCCycles
  Runs <- MCRuns
  CycleOf <- MCCycleOf
  NoCycle = NoCycle
  MaxAttempts = 2
  MaxFaults = 1
CONSTRAINT OneMishap
INVARIANTS
  TypeOK
  NothingRecordedLeft
  GreenIsEarned
  GreenTeardownIsQuiet
CHECK_DEADLOCK FALSE
