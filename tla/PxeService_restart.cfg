SPECIFICATION Spec
CONSTANTS
  Procs = {p1, p2}
  NoProc = NoProc
  Commands = {"prepare", "cleanup"}
  NumIsos = 1
  MaxVersion = 1
  Replaced = {1}
  NumLoops = 2
  Interfaces = {eth1}
  NumOverrides = 0
  Unbootable <- NoneUnbootable
  MaxFaults = 0
PROPERTY HolderAlone
