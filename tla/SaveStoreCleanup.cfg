SPECIFICATION MCSpec
CONSTANTS
  o1 = o1
  o2 = o2
  c1 = c1
  c2 = c2
  Owner <- MCOwner
  Content <- MCContent
  NoObject = NoObject
  Partial = Partial
  m1 = m1
  m2 = m2
  Meta <- MCMeta
  Empty = Empty
  NoMeta = NoMeta
  Outliving <- MCOwner
  MaxVersion = 2
  WipeOnline = FALSE
  Cleanup = "any"
INVARIANTS
  SavedIsServed
SYMMETRY Symmetry
