\* Three processes at a time, four in all, and two edits of the charter.
\* When the commands have ended nothing runs any more.
SPECIFICATION Spec
CONSTANTS
  Processes = {p1, p2, p3}
  Texts = {c1, c2}
  Missing = Missing
  None = None
  MaxRuns = 4
  MaxEdits = 2
SYMMETRY CharterSymmetry
CHECK_DEADLOCK FALSE
INVARIANTS
  TypeOK
  SessionsRunOnRecord
  VerdictsAreCurrent
  ShownIsRecorded
