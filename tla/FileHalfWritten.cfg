\* Two writers of one file whose clock readings agree.
SPECIFICATION Spec
CONSTANTS
  Tasks = {t1, t2}
  Paths = {f, d, p}
  Contents = {c1, c2}
  Directories = {d}
  Protected = {p}
  Nowhere = Nowhere
  Partial = Partial
  Mixed = Mixed
  Instants = {n1, n2}
  MaxCalls = 2
  MaxFaults = 0
  MaxCrashes = 0
SYMMETRY ToolSymmetry
INVARIANT
  NoHalfFiles
