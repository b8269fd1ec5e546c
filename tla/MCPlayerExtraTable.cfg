CONSTANTS
  Players = {p1, p2}
  Objects = {c1, c2, u1}
  Owners = {0, 1}
  Values = {0, 1}
  Fresh = 0
  Addrs = {a1, a2, a3, a4}
  Nil = Nil
SPECIFICATION Spec
SYMMETRY Symmetry
INVARIANTS TypeOK IndexLinked EntryReachable OwnershipExclusive
PROPERTIES NoBucketLeftEmpty AddressStable ConstructedFresh ImplementsMap
