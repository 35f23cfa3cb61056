SPECIFICATION Spec
CONSTANTS
  Polls = {1, 8, 51, 63}
  Maxima = {1, 3, 12, 31, 51, 63}
  FetchDelay = 2
  SubmitDelay = 4
  Word = 64
INVARIANTS
  TypeOK
  RetriesBounded
  SumsFit
  NeverHot
PROPERTIES
  OutageReachesCeiling
