SPECIFICATION FairSpec
CONSTANTS
  Threads = {t1, t2}
  Sessions = {s1}
  Browsers = {s1}
  NoSession = NoSession
  RelockOutcomes = {"enter"}
  BufferOutcomes = {"intact"}
  MaxFrames = 1
PROPERTY BrowserConnected
