\* One session and one edit of the charter after its boot.
\* When the commands have ended nothing runs any more.
SPECIFICATION Spec
CONSTANTS
  Processes = {p1}
  Texts = {c1, c2}
  Missing = Missing
  None = None
  MaxRuns = 2
  MaxEdits = 2
CHECK_DEADLOCK FALSE
INVARIANT
  PinnedMeansPinned
