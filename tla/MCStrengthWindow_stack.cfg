CONSTANTS
  u1 = u1
  u2 = u2
  i1 = i1
  i2 = i2
  i3 = i3
  Units = {u1, u2}
  Instances = {i1, i2, i3}
  UnitOf <- MCUnitOf
  AmountOf <- MCAmountOf
  Counts = {0, 2}
  MaxScaled = 4
  MaxWrites = 1
  MaxNesting = 1
  MaxApplies = 2
  MaxFaults = 0
  Nil = Nil
SPECIFICATION Spec
INVARIANT InstancesStack
