CONSTANTS
  w1 = w1  w2 = w2  u1 = u1  u2 = u2
  t1 = t1  t2 = t2  t3 = t3  t4 = t4  b1 = b1  b2 = b2
  s1 = s1  s2 = s2  s3 = s3  s4 = s4  g1 = g1  g2 = g2
  None = None
  Workers = {w1, w2}
  Users = {u1, u2}
  Tickets = {t1, t2}
  Bundles = {}
  Seats = {s1, s2, s3}
  Groups = {g1}
  MaxCheckIns <- MCCheckIns
  MaxOccupancies = 0
  MayCrash = TRUE
  BundleOf <- MCSingle
  GroupOf <- MCOneInGroup
  Suitable <- MCSuitable
  Owner <- MCOwner
SPECIFICATION HistorySpec
SYMMETRY WorkerSymmetry
INVARIANTS TypeOK SeatsExclusive CheckInsAccounted RevokedHaveNoSeat
PROPERTIES RevokedIsInert CheckedInUserFixed
