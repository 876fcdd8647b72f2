SPECIFICATION Spec
CONSTANTS
  None = None
  RestaurantIds = {r1, r2, r3}
  AdminIds = {a1, a2, a3, a4}
  MenuIds = {m1, m2, m3, m4}
  OptionIds = {o1}
  FoodIds = {f1, f2, f3, f4}
  AccountIds = {b1}
  RestaurantNames = {x1, x2}
  Emails = {e1, e2}
  FoodNames = {n1, n2}
  Handlers = {h1, h2}
  Kinds = {"restaurant", "admin", "menu", "option", "order", "account", "table"}
  MaxRequests = 6
SYMMETRY Sym
INVARIANTS
  TypeOK
  HasFirstAdmin
  RestaurantStays
  OptionHasMenu
PROPERTIES
  EmailsAreOwned
  NamesAreOwned
  MenuNamesAreOwned
