SPECIFICATION Spec
CONSTANTS
  r1 = r1
  r2 = r2
  r3 = r3
  p1 = p1
  p2 = p2
  Runs <- MCRuns
  Pairs <- MCPairs
  PairOf <- MCPairOf
  NoRun = NoRun
  MaxAttempts = 2
  DirectRuns = {}
  Requests = {q1}
  Submissions = {s1}
  MaxFaults = 0
SYMMETRY MCSymmetry
PROPERTY
  SkipsCompleted
