SPECIFICATION Spec
CONSTANTS
  Programs <- MCPrograms
  StackDepth = 5
  Length = 2
INVARIANTS
  OwnTypes
  WrittenInOrder
  AcceptsWhatFits
CHECK_DEADLOCK FALSE
