SPECIFICATION FairSpec
CONSTANT
  Openings <- MCOpenings
  Room = 4
INVARIANT
  BlocksMatchLevels
  NoLayoutInBrackets
  Balanced
PROPERTY Finishes
