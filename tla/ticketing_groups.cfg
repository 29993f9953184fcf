CONSTANTS
  w1 = w1  w2 = w2  u1 = u1  u2 = u2
  t1 = t1  t2 = t2  t3 = t3  t4 = t4  b1 = b1  b2 = b2
  s1 = s1  s2 = s2  s3 = s3  s4 = s4  g1 = g1  g2 = g2
  None = None
  Workers = {w1, w2}
  Users = {u1}
  Tickets = {t1, t2, t3, t4}
  Bundles = {b1, b2}
  Seats = {s1, s2, s3, s4}
  Groups = {g1, g2}
  MaxCheckIns <- MCNoCheckIns
  MaxOccupancies = 2
  MayCrash = TRUE
  BundleOf <- MCBundles
  GroupOf <- MCGroups
  Suitable = {}
  Owner <- MCBundleOwner
SPECIFICATION HistorySpec
SYMMETRY WorkerSymmetry
INVARIANTS GroupSeatedWhole GroupSeatsAccounted
