SPECIFICATION ReactionSpec
CONSTANTS
  Hydrogen = {h1, h2}
  Oxygen = {o1}
INVARIANT NoneEarly
CHECK_DEADLOCK FALSE
