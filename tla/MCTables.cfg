SPECIFICATION OpeningSpec
CONSTANTS
  t1 = t1
  n1 = n1
  n2 = n2
  k1 = k1
  None = None
  TableIds = {t1, t2, t3, t4, t5, t6}
  TableNames = {n1, n2}
  Tokens = {k1, k2, k3, k4, k5, k6}
  Groups = {g1, g2, g3}
  Guests = {u1, u2}
  NameLists <- Lists
  Handlers = {h1, h2}
  Kinds = {"create", "update", "delete", "deleteOrder", "join", "leave", "order", "waiter"}
  MaxRequests = 5
SYMMETRY Sym
INVARIANTS
  TypeOK
  ReferencesResolve
  RoomIsOwnTable
  NamesUnique
