\* No failures: one account whose password change overlaps its own second write.
SPECIFICATION Spec
SYMMETRY Symmetry
CONSTANTS
  Uids = {u1}
  Names = {n1}
  Perms = {p1}
  Revs = {r1, r2}
  Slots = {s1, s2}
  NoUser = NoUser
  Garbled = Garbled
  Faults = FALSE
INVARIANTS
  SuccessIsDurable
CHECK_DEADLOCK FALSE
