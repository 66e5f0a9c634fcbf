SPECIFICATION Spec
CONSTANTS
  Names = {n1, n2}
  Roles = {investigator, legal_reviewer}
  Cases = {c1, c2}
  NoAnswer = NoAnswer
  Slots = {s1, s2}
  MaxRows = 3
SYMMETRY Symmetric
INVARIANTS
  ConsoleMatchesTables
  AssignedRoleHolds
CHECK_DEADLOCK FALSE
