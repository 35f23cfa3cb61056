SPECIFICATION BatchSpec
CONSTANTS
  u1 = u1
  u2 = u2
  u3 = u3
  t1 = t1
  t2 = t2
  Units <- Unit3
  Tasks = {t1, t2}
  Work <- MixedWork
  BatchSize = 3
  FetchAttempts = 2
  Backend = "vulkan"
  FetchAnswers <- Answers
  SubmitAnswers <- Answers
SYMMETRY TaskSymmetry
INVARIANTS
  TypeOK
  UnitOwnership
  StableBody
  FaithfulResult
  SharedTransferChargedOnce
