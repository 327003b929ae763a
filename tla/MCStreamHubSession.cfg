SPECIFICATION Spec
CONSTANTS
  Threads = {t1, t2}
  Sessions = {s1}
  Browsers = {}
  NoSession = NoSession
  RelockOutcomes = {"enter"}
  BufferOutcomes = {"intact"}
  MaxFrames = 1
INVARIANT ServiceKeepsRunning
