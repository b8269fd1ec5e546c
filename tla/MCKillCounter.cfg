CONSTANTS
  MaxSlot = 4
  Absent <- NoPlayer
  Bearers <- WithTrait
  MaxKills = 6
SPECIFICATION Spec
INVARIANTS TypeOK
PROPERTIES ImplementsLedger
