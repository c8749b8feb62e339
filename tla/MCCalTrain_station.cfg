SPECIFICATION StationSpec
CONSTANTS
  Passengers = {p1, p2, p3, p4, p5}
  Train = train
  MaxSeats = 3
  Spurious = TRUE
SYMMETRY Symmetry
INVARIANTS NeverOverfull NoneOverlooked
