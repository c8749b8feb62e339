CONSTANTS
  Procs = {p, q}
  Upages = {u, w}
  Kpages = {k, l}
  NSlots = 2
  Data = {x}
  Zero = Zero
  None = None
SPECIFICATION Spec
INVARIANT Intact OwnFrames AllReturned NothingMissing PinnedInUse
SYMMETRY Symmetry
CHECK_DEADLOCK FALSE
