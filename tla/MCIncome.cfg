SPECIFICATION Spec
CONSTANTS
  m1 = m1
  m2 = m2
  m3 = m3
  o1 = o1
  o2 = o2
  Menus = {m1, m2, m3}
  Price <- Prices
  Options = {o1, o2}
  OptionPrice <- OptionPrices
  Selections <- Selected
  Days = {1, 2}
  TopSize = 1
  MaxOrders = 2
  MaxFoods = 3
CHECK_DEADLOCK FALSE
INVARIANTS
  IncomeIsEarned
