SPECIFICATION Spec
CONSTANTS
  Packs = {p1, p2}
  p1 = p1
  p2 = p2
  w1 = w1
  WorkspaceOf <- OneWorkspace
  Scopes = {global}
  Global = global
  Roots = {r1}
  Projects = {j1}
  Clients = {c1, c2}
  NULL = NULL
  Edits = {"good", "damaged"}
  Interrupts = {"stage", "insert", "mark"}
  Faulty = TRUE
SYMMETRY PackSymmetry
CHECK_DEADLOCK FALSE
INVARIANTS
  HomeTypeOK
  ActiveHealthy
  InstallsExclusive
  NothingDangling
