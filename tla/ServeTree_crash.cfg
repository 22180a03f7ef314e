SPECIFICATION Spec
CONSTANTS
  NumFolders = 2
  Names = {a, b}
  MaxFaults = 1
  MaxChanges = 0
INVARIANT PreviousTreeIntact
