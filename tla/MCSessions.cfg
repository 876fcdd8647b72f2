SPECIFICATION Spec
CONSTANTS
  t1 = t1
  t2 = t2
  g1 = g1
  g2 = g2
  c1 = c1
  c2 = c2
  n1 = n1
  n2 = n2
  f1 = f1
  i1 = i1
  i2 = i2
  i3 = i3
  s1 = s1
  s2 = s2
  None = None
  Tables = {t1, t2}
  ActiveTables = {t1, t2}
  Groups = {g1, g2, g3, g4, g5, g6}
  Clients = {c1, c2, c3, c4}
  Names = {n1}
  Foods = {f1}
  Items = {i1}
  Sockets = {s1}
  Handlers = {h1, h2}
  Kinds = {"join", "leave", "disconnect", "clear", "reject", "crash"}
  AdminDtos <- NoDtos
  ClearStatuses = {"IN_PROGRESS", "COMPLETED", "REJECT"}
  MaxRequests = 4
  MaxList = 1
SYMMETRY Sym
INVARIANTS
  TypeOK
  SessionsBounded
PROPERTIES
  KeepsPromise
