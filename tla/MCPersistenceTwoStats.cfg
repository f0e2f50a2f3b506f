CONSTANTS
  Object <- TwoIds
  RelName = {}
  NoObject = NoObject
  Type = {"char"}
  TypesOf <- TypeAndPlain
  StatEntry <- StrengthAndDexterity
  EquipEntry <- None
  AspectSlot <- None
  Aspect <- None
  Value = {v1}
  Nothing = Nothing
  GameLoadsHandlers = TRUE
  Checked <- None
  Path = {p1}
  MaxInt32 = 1
SPECIFICATION Spec
PROPERTY
  SavesAreCompleted
