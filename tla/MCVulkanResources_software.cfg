SPECIFICATION Spec
CONSTANTS
  Machines <- Hosts
  Jobs = {j1, j2, j3}
  j1 = j1
  j2 = j2
  j3 = j3
  Length <- Lengths
  Count <- Counts
  WaitErrors = {"deviceLost", "outOfMemory"}
INVARIANTS
  AutoMeansGpu
