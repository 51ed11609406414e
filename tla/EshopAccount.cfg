\* One request at a time in any number, or three that overlap.
SPECIFICATION MCSpec
CONSTANTS
  c1 = c1
  c2 = c2
  t1 = t1
  i1 = i1
  i2 = i2
  m1 = m1
  k1 = k1
  r1 = r1
  r2 = r2
  Console = {c1, c2}
  Thread = {r1, r2}
  Title = {t1}
  Item = {i1, i2}
  MoneyCard = {m1}
  CodeCard = {k1}
  Of <- MCOf
  Price <- MCPrice
  Worth <- MCWorth
  Grants <- MCGrants
  Start = 3
  MaxBalance = 4
  Crash = TRUE
  MaxSpent = 5
  MaxTaken = 2
  MaxBegun = 3
SYMMETRY Symmetry
INVARIANTS TypeOK BalanceInRange  
PROPERTIES  SoldOnce
