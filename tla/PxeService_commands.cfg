SPECIFICATION FairSpec
CONSTANTS
  Procs = {p1, p2}
  NoProc = NoProc
  Commands = {"prepare", "cleanup", "status"}
  NumIsos = 1
  MaxVersion = 2
  Replaced = {1}
  NumLoops = 2
  Interfaces = {eth1}
  NumOverrides = 0
  Unbootable <- NoneUnbootable
  MaxFaults = 1
INVARIANT LockExclusive
INVARIANT StacksBounded
PROPERTY ServedUnderLock
PROPERTY EveryStepAdvances
PROPERTY EveryCommandEnds
