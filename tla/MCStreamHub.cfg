SPECIFICATION Spec
CONSTANTS
  Threads = {t1, t2}
  Sessions = {s1, s2}
  Browsers = {}
  NoSession = NoSession
  RelockOutcomes = {"block", "enter"}
  BufferOutcomes = {"intact", "garbage"}
  MaxFrames = 3
SYMMETRY Symmetry
INVARIANTS
  TypeOK
  OneWriter
  NoFrameStranded
  InOrder
  DepartureNoticed
PROPERTY ImplementsFrames
