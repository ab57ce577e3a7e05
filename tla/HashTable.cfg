\* Four names in a table of five slots.
CONSTANTS
  a = a
  b = b
  c = c
  d = d
  v = v
  Null = Null
  Nil = Nil
  True = True
  NoSlot = NoSlot
  Absent = Absent
  Idle = Idle
  EmptyString = a
  Keys = {a, b, c, d}
  Values = {Null, Nil, True}
  Capacity = 5
  Hash <- MCHash
SPECIFICATION FairSpec
INVARIANTS TypeOK NoDuplicateKeys ChainsUnbroken ProbeConsistent LoopIsClosedForm EmptySlotLeft
PROPERTIES ImplementsDictionary CallsReturn
