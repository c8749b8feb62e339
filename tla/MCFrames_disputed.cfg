CONSTANTS
  Procs = {p, q, r}
  Upages = {u}
  Kpages = {k, l}
  NSlots = 2
  Data = {x}
  Zero = Zero
  None = None
SPECIFICATION Spec
INVARIANTS PinOnFrame OwnerStays EntryOnFrame NoStray
CHECK_DEADLOCK FALSE
