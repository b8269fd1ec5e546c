CONSTANTS
  MaxSlot = 4
  Absent <- NoPlayer
  Bearers <- ReachableTrait
  MaxKills = 1
SPECIFICATION Spec
INVARIANTS EveryoneRegistered
