\* Two tasks with three calls between them over a file, a directory and a protected directory.
SPECIFICATION Spec
CONSTANTS
  Tasks = {t1, t2}
  Paths = {f, d, p}
  Contents = {c1, c2}
  Directories = {d, p}
  Protected = {p}
  Nowhere = Nowhere
  Partial = Partial
  Mixed = Mixed
  Instants = {n1, n2}
  MaxCalls = 3
  MaxFaults = 1
  MaxCrashes = 1
SYMMETRY ToolSymmetry
INVARIANTS
  TypeOK
  LitterHasACause
  EffectsAreLogged
PROPERTIES
  ToolsAreAtomic
