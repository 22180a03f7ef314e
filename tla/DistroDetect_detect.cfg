SPECIFICATION FairSpec
CONSTANTS
  nix1 = nix1
  nix2 = nix2
  nixTorn = nixTorn
  nixStock = nixStock
  server = server
  decoy = decoy
  rhel = rhel
  both = both
  other = other
  NumIsos = 2
  Images = {nix1, nix2, nixTorn, nixStock, server, decoy, rhel, both, other}
  FilesOf <- MCFilesOf
  BootJson <- MCBootJson
  ArchMarkers <- MCArchMarkers
  NoSpec = NoSpec
  NotMounted = NotMounted
  None = None
  MaxMounts = 3
INVARIANTS TypeOK UndisturbedIsExact RemountIsSafe Accounted
PROPERTIES DetectionEnds
CHECK_DEADLOCK FALSE
