SPECIFICATION WorkerSpec
CONSTANTS
  u1 = u1
  u2 = u2
  u3 = u3
  t1 = t1
  t2 = t2
  t3 = t3
  Units = {u1, u2, u3}
  Tasks = {t1, t2, t3}
  Work <- Unsupported
  BatchSize = 2
  FetchAttempts = 1
  Backend = "vulkan"
  FetchAnswers = {"success", "clientError"}
  SubmitAnswers = {"success", "clientError", "serverError", "redirection"}
  WorkConcurrency = 2
PROPERTIES
  OnlyProcessLosesUnits
