CONSTANTS
  Programs <- MCPrograms
  Inputs <- MCInputs
  Level = 2
  Self = "self"
  Fuel = 2
  Length = 3
SPECIFICATION Spec
INVARIANT SameMeaning
INVARIANT StaysClosed
INVARIANT TailIsLast
