SPECIFICATION FairDinnerSpec
CONSTANTS
  t1 = t1
  t2 = t2
  g1 = g1
  g2 = g2
  c1 = c1
  c2 = c2
  n1 = n1
  n2 = n2
  f1 = f1
  i1 = i1
  i2 = i2
  i3 = i3
  s1 = s1
  s2 = s2
  None = None
  Tables = {t1}
  ActiveTables = {t1}
  Groups = {g1, g2, g3, g4}
  Clients = {c1, c2, c3}
  Names = {n1, n2}
  Foods = {f1, f2, f3, f4, f5, f6}
  Items = {i1, i2, i3, i4, i5}
  Sockets = {s1, s2}
  Handlers = {h1, h2}
  Kinds = {"create", "update", "admin", "reject", "leave", "clear"}
  AdminDtos <- BillDtos
  ClearStatuses = {"IN_PROGRESS", "COMPLETED", "REJECT"}
  MaxRequests = 3
  MaxList = 1
INVARIANTS
  PaymentInHand
  CancelledOrderClosesSession
PROPERTIES
  RequestsWindDown
  EveryRequestAnswered
  PaymentClosesSession
