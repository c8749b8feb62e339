SPECIFICATION StationSpec
CONSTANTS
  Passengers = {p1, p2}
  Train = train
  MaxSeats = 2
  Spurious = FALSE
INVARIANT BoardedHaveTrain
