CONSTANTS
  Tasks = {t1, t2, t3}
  NoTask = NoTask
  MaxConcurrent = 2
  QueueCapacity = 0
  MaxErrors = 2
  MaxBoots = 2
  MaxCrashes = 1

SPECIFICATION Spec

SYMMETRY TaskSymmetry

INVARIANTS
  TypeOK
  PermitsAccounted
  AnswersKeepOrder
  LogNeverAhead
  OneVerdict
  CleanExitSettles
  RunningRowsAreLive

PROPERTIES
  StartsFromPending
  VerdictsStick
  ImplementsTaskService
