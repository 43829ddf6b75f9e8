CONSTANTS
  Commands <- MCCommands
  StartState <- Starting
  TakeInto <- AfterLine
  Output <- Result
  MaxIndentDepth = 4
  MaxLineTokens = 40
SPECIFICATION Spec
INVARIANTS SameTokens Settles OthersWhole
