SPECIFICATION StationFairSpec
CONSTANTS
  Passengers = {p1, p2, p3}
  Train = train
  MaxSeats = 3
  Spurious = FALSE
PROPERTY TrainLeaves
CHECK_DEADLOCK FALSE
