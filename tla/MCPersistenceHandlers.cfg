CONSTANTS
  Object <- TwoIds
  RelName = {}
  NoObject = NoObject
  Type = {"char", "item"}
  TypesOf <- CharsAndItems
  StatEntry <- StrengthAndLuck
  EquipEntry <- OneHand
  AspectSlot <- MagicAndPoisonSlots
  Aspect <- MagicAndPoison
  Value = {v1, v2}
  Nothing = Nothing
  GameLoadsHandlers = TRUE
  Checked <- OneOfTwo
  Path = {p1}
  MaxInt32 = 1
SPECIFICATION Spec
INVARIANT
  WornWhereItSays
PROPERTY
  HandlersRestored
