CONSTANTS
  w1 = w1  w2 = w2  u1 = u1  u2 = u2  o1 = o1  o2 = o2
  tk = tk  bu = bu  sh = sh
  i1 = i1  i2 = i2  i3 = i3  i4 = i4  i5 = i5  i6 = i6
  None = None
  Workers = {w1}
  Users = {u1}
  Orders = {o1}
  Products = {tk, bu}
  Items = {i1, i2, i3, i4, i5, i6}
  MaxNumber = 2
  MaxPayments = 2
  MayCrash = FALSE
  Kind <- MCKind
  Carts <- MCCarts
  InitialStock <- MCStock
SPECIFICATION HistorySpec
CHECK_DEADLOCK FALSE
INVARIANTS PaidOnce
