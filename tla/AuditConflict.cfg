CONSTANTS
  w1 = w1  w2 = w2  w3 = w3  w4 = w4
  Writers = {w1, w2}
  MaxEvents = 1
  MaxToggles = 0
  Old = Old
  MaxOld = 0
  NoHash = NoHash
  Forged = Forged
SPECIFICATION Spec
SYMMETRY Symmetry
INVARIANT NoWriterTurnedAway
CHECK_DEADLOCK FALSE
