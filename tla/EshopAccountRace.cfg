SPECIFICATION MCSpec
CONSTANTS
  c1 = c1
  c2 = c2
  t1 = t1
  i1 = i1
  i2 = i2
  m1 = m1
  k1 = k1
  r1 = r1
  r2 = r2
  Console = {c1, c2}
  Thread = {r1, r2}
  Title = {t1}
  Item = {i1}
  MoneyCard = {m1}
  CodeCard = {}
  Of <- MCOf
  Price <- MCPrice
  Worth <- MCWorth
  Grants <- MCGrants
  Start = 3
  MaxBalance = 5
  Crash = FALSE
  MaxSpent = 6
  MaxTaken = 2
  MaxBegun = 2
SYMMETRY Symmetry
INVARIANTS CardTakenOnce
