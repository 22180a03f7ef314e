SPECIFICATION Spec
CONSTANTS
  arm = arm
  ubuntu = ubuntu
  rhel = rhel
  odd = odd
  lan = lan
  lab = lab
  r1 = r1
  guest = guest
  None = None
  Isos = {arm, ubuntu, rhel, odd}
  Scripts = {"max", "ks"}
  ScriptsOf <- MCScriptsOf
  Distro <- MCDistro
  Arch <- MCArch
  OffMount = {odd}
  Interfaces = {lan, lab}
  Clients = {r1, guest}
  On <- MCOn
  Reservations <- MCReservations
  Cpu <- MCCpu
  Bios = {guest}
  Configs <- MCConfigs
  Scans <- MCScans
  MaxRuns = 2
  MaxFaults = 1
  MaxBoots = 1
  MaxNest = 3
INVARIANTS TypeOK MenuListsAll WarnedOrHonoured SettledIsCurrent
INVARIANTS HonoursWish
CHECK_DEADLOCK FALSE
