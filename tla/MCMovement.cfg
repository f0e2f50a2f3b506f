CONSTANTS
  Object = {o1, o2, o3}
  RelName = {location}
  Location = location
  NoObject = NoObject
  ReentrantHooks <- OutsideTheWindow
  MaxDepth = 2
SPECIFICATION FairSpec
INVARIANTS
  MovementTypeOK
  Forest
PROPERTIES
  ImplementsContainment
  MovesReturn
