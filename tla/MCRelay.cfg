SPECIFICATION FairSpec
CONSTANTS
  Threads = {t1, t2}
  NoThread = NoThread
  RelockOutcomes = {"enter"}
  Urls = {u1}
  NoUrl = NoUrl
  Workers = {w1}
  NoWorker = NoWorker
  MaxRows = 2
  MayFail = FALSE
  Sessions = {s1}
  Browsers = {}
  NoSession = NoSession
  BufferOutcomes = {"intact"}
  MaxFrames = 2
INVARIANT
  FramesAreCurrent
PROPERTIES
  RequestsEnd
  BroadcastEnds
  FramesReachClients
