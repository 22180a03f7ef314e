SPECIFICATION FairRepairSpec
CONSTANTS
  Procs = {p1, p2}
  NoProc = NoProc
  Commands = {"prepare"}
  NumIsos = 2
  MaxVersion = 2
  Replaced = {1}
  NumLoops = 4
  Interfaces = {eth1}
  NumOverrides = 1
  Unbootable <- SecondIsUnbootable
  MaxFaults = 1
INVARIANT TypeOK
INVARIANT StacksBounded
INVARIANT MountsShowOwnIso
INVARIANT DetectionCurrent
INVARIANT MenusServable
INVARIANT VariantsAgree
INVARIANT NoIsoVanishes
INVARIANT CleanRunRepairs
PROPERTY HolderAlone
PROPERTY Converges
