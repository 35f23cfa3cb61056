SPECIFICATION Spec
CONSTANTS
  NonFinite = NonFinite
  MaxFinite = 10
  Unit = 12
  Word = 16
  Builds = {"debug", "release"}
  Calls <- AllCalls
INVARIANTS
  TypeOK
  WindowExact
  FrequencyBest
  ResultBest
