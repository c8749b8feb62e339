SPECIFICATION ReactionFairSpec
CONSTANTS
  Hydrogen = {h1, h2, h3, h4}
  Oxygen = {o1, o2, o3}
INVARIANTS HydrogenBonded
PROPERTY EveryWater
CHECK_DEADLOCK FALSE
