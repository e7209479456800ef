SPECIFICATION Spec
CONSTANTS
  t1 = t1
  t2 = t2
  b1 = b1
  b2 = b2
  Tasks = {t1, t2}
  Blobs = {b1, b2}
  Size <- MCSize
  ByteLimit = 3
  FileLimit = 2
  MaxOpens = 2
  NoBlob = none
SYMMETRY Symmetric
INVARIANTS
  TypeOK WithinBudget ReservationCoversDisk ExactWhenIdle AnsweredDurable
