\* Two callers and one work order; either backend; two things
\* go wrong.
CONSTANTS
  Callers = {c1, c2}
  Tasks = {t1}
  Rejected = Rejected
  NoOne = NoOne
  Backends = {"deterministic", "llm"}
  MaxFaults = 2
SPECIFICATION FairSpec
INVARIANTS
  ExitHonest
  CompletedCarries
PROPERTIES
  PromisesKept
  AnswersStand
  WatchEnds
