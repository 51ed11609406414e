SPECIFICATION MCSpec
CONSTANTS
  o1 = o1
  o2 = o2
  c1 = c1
  c2 = c2
  Owner <- MCOwner
  Content <- MCContent
  NoObject = NoObject
  Partial = Partial
  m1 = m1
  m2 = m2
  Meta <- MCMeta
  Empty = Empty
  NoMeta = NoMeta
  Outliving <- MCOwner
  MaxVersion = 3
  WipeOnline = FALSE
  Cleanup = "posted"
INVARIANTS
  TypeOK
  SavedIsServed
  SnapshotRead
  MetaKept
PROPERTY RegisterSpec
SYMMETRY Symmetry
