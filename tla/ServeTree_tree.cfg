SPECIFICATION FairSpec
CONSTANTS
  NumFolders = 2
  Names = {a, b}
  MaxFaults = 2
  MaxChanges = 2
INVARIANTS TypeOK FirstMatchWins ServedIsOfOneRebuild
PROPERTIES ImplementsRawTree Converges
