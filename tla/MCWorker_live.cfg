SPECIFICATION FairWorkerSpec
CONSTANTS
  u1 = u1
  u2 = u2
  u3 = u3
  t1 = t1
  t2 = t2
  t3 = t3
  Units = {u1, u2}
  Tasks = {t1, t2}
  Work <- BoxWork
  BatchSize = 2
  FetchAttempts = 2
  Backend = "vulkan"
  FetchAnswers = {"success", "noAnswer", "clientError"}
  SubmitAnswers = {"success", "serverError", "redirection"}
  WorkConcurrency = 1
INVARIANTS
  FaithfulResult
PROPERTIES
  HeldSettles
  StopExits
