SPECIFICATION Spec
CONSTANTS
  Hooks = {h1, h2}
  Addrs = {a1, a2}
  Clients <- PoolAndReserved
  Nobody = Nobody
  PublishPool = TRUE
  Reservations = {"nas"}
  Overrides = {"proxy", "Laptop."}
  Length <- NameLength
  Piece <- Remainder
  Absent = Absent
  MaxEvents = 3
  MaxKills = 1
SYMMETRY Symmetry
INVARIANTS TypeOK RecordsBacked ZoneFollowsLeases SyncedUnlessMissed
PROPERTY LoneHookRepairs
CHECK_DEADLOCK FALSE
