CONSTANTS
  Object = {o1, o2, o3}
  RelName = {location}
  Location = location
  NoObject = NoObject
  ReentrantHooks <- Hooks
  MaxDepth = 2
SYMMETRY Symmetry
SPECIFICATION Spec
INVARIANT
  Forest
