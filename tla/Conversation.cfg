\* Two processes, two tasks and a limit of two rows.
\* When the processes have ended nothing runs any more.
SPECIFICATION Spec
CONSTANTS
  Tasks = {t1, t2}
  Processes = {p1, p2}
  NoProcess = NoProcess
  NoTask = NoTask
  NoContext = NoContext
  MaxErrors = 1
  RecentLimit = 2
  MaxClock = 1
SYMMETRY ConversationSymmetry
CHECK_DEADLOCK FALSE
INVARIANTS
  TypeOK
  FollowUpsSeeAnswers
  FinishedWorkIsDone
