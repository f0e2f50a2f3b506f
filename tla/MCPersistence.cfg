CONSTANTS
  Object <- TwoIds
  RelName = {location}
  NoObject = NoObject
  Type = {"room", "item"}
  TypesOf <- TypeAndPlain
  StatEntry <- None
  EquipEntry <- None
  AspectSlot <- MagicSlot
  Aspect <- TwoMagics
  Value = {v1}
  Nothing = Nothing
  GameLoadsHandlers = TRUE
  Checked <- None
  Path = {p1}
  MaxInt32 = 1
SPECIFICATION Spec
INVARIANT
  Mirror
PROPERTIES
  AllOrNothing
  ImplementsStore
