SPECIFICATION Spec
CONSTANTS
  Hooks = {h1, h2}
  Addrs = {a1, a2}
  Clients <- NasAndLaptop
  Nobody = Nobody
  PublishPool = TRUE
  Reservations = {"nas"}
  Overrides = {"router", "Laptop."}
  Length <- NameLength
  Piece <- Remainder
  Absent = Absent
  MaxEvents = 2
  MaxKills = 0
INVARIANT ReservationPublished
CHECK_DEADLOCK FALSE
