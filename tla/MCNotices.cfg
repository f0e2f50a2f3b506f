CONSTANTS
  Object = {o1, o2, o3}
  RelName = {location}
  Location = location
  NoObject = NoObject
  ReentrantHooks <- AfterTheMove
  MaxDepth = 2
  Session = {s1, s2}
  NoSession = NoSession
  MaxSessionDepth = 2
SYMMETRY Symmetry
SPECIFICATION PlaySpec
INVARIANTS
  Attendance
  HooksKnowTheSession
PROPERTY
  ArrivesWhereSent
