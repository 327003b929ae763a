SPECIFICATION FairSpec
CONSTANTS
  Threads = {t1, t2}
  NoThread = NoThread
  RelockOutcomes = {"block", "enter"}
  Urls = {u1, u2}
  NoUrl = NoUrl
  Workers = {w1, w2}
  NoWorker = NoWorker
  MaxRows = 3
  MayFail = TRUE
INVARIANTS
  TypeOK
  SpawnIsAlone
  OneStream
  TruthfulStream
  ShowsWhatRuns
PROPERTIES
  CameraRequestEnds
  Reconnects
  ImplementsCamera
