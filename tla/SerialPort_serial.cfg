CONSTANTS
  Procs = {p, q}
  Keys = {x}
  Text = {y, z}
  BUFSIZE = 3
  MaxOff = 1
  None = None
SPECIFICATION SerialSpec
INVARIANT NeverPanics SleepersKnown
PROPERTY Fifos PrinterServed ReaderServed
