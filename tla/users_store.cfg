\* Two accounts, two blocking threads, failures, hang-ups, crashes and restarts.
SPECIFICATION Spec
SYMMETRY Symmetry
CONSTANTS
  Uids = {u1, u2}
  Names = {n1, n2}
  Perms = {p1}
  Revs = {r1, r2}
  Slots = {s1, s2}
  NoUser = NoUser
  Garbled = Garbled
  Faults = TRUE
INVARIANTS
  TypeOK
  SingleOwner
  MemoryIsAcknowledged
  SettledFileIsAcknowledged
PROPERTIES
  OwnerIsKept
CHECK_DEADLOCK FALSE
