SPECIFICATION FairSpec
CONSTANTS
  Packs = {p1}
  p1 = p1
  p2 = p2
  w1 = w1
  WorkspaceOf <- OneWorkspace
  Scopes = {global, project}
  Global = global
  Roots = {}
  Projects = {j1}
  Clients = {c1, c2}
  NULL = NULL
  Edits = {"damaged", "good"}
  Interrupts = {"insert", "unlock"}
  Faulty = FALSE
CHECK_DEADLOCK FALSE
PROPERTIES
  QuarantineWins
  InstallRecovers
