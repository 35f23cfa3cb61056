SPECIFICATION Spec
CONSTANTS
  NonFinite = NonFinite
  MaxFinite = 10
  Calls <- SmallCalls
  Powers = {0, 1, 2}
  Radius = 1
  MaxIndex = 10
  DeviceMax = 5
INVARIANTS
  TypeOK
  CpuExact
  RefinedExact
  AgreesWithCpu
  EdgeReported
  GridUsable
