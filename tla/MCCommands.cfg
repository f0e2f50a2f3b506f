CONSTANTS
  Object = {o1, o2, o3}
  RelName = {owner}
  NoObject = NoObject
  Puppet = {o1, o2}
  Input = {i1, i2}
  MaxNesting = 2
  TypesOf <- Types
  CommandEntry <- Entries
SYMMETRY Symmetry
SPECIFICATION Spec
INVARIANT
  Mirror
  NoArgsLeftOver
  FirstByPriority
  LoadedStayRegistered
PROPERTY
  OnlyOneMoves
