CONSTANTS
  Tasks = {t1, t2}
  NoTask = NoTask
  MaxConcurrent = 1
  QueueCapacity = 1
  MaxErrors = 0
  MaxBoots = 2
  MaxCrashes = 1

SPECIFICATION FairSpec

PROPERTY PendingTasksResume
