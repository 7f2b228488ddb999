CONSTANTS
  Tasks = {t1, t2, t3}
  NoTask = NoTask
  MaxConcurrent = 1
  QueueCapacity = 1
  MaxErrors = 1
  MaxBoots = 1
  MaxCrashes = 1

SPECIFICATION FairSpec

PROPERTIES
  RecordedTasksRun
  CloseLeadsToExit
