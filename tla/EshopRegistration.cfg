SPECIFICATION Spec
CONSTANTS
  Console = {c1}
  Account = {a1, a2}
  NoAccount = NoAccount
  Name = {n1, n2}
  NoUser = NoUser
  Unlinked = Unlinked
  Title = {x1}
  Entry = {e1, e2}
  NoWish = NoWish
  Thread = {t1, t2, t3}
  Settings <- MCSettings
SYMMETRY Symmetry
INVARIANTS TypeOK OneAccount OneUser UnlinkedForAReason WishedOnce
CHECK_DEADLOCK FALSE
