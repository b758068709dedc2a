CONSTANTS
  w1 = w1  w2 = w2  w3 = w3  w4 = w4
  Writers = {w1, w2, w3}
  MaxEvents = 2
  MaxToggles = 3
  Old = Old
  MaxOld = 3
  NoHash = NoHash
  Forged = Forged
SPECIFICATION Spec
SYMMETRY Symmetry
INVARIANTS
  TypeOK
  Unforked
  UntouchedVerifies
  AlterationDetected
PROPERTIES
  AppendOnly
  ImplementsLog
CHECK_DEADLOCK FALSE
