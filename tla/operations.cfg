\* Suspended operations and stopped tasks end, although the OS refuses the file.
SPECIFICATION FairSpec
CONSTANTS
  None = None
  rj1 = rj1
  rj2 = rj2
  t1 = t1
  t2 = t2
  w1 = w1
  w2 = w2
  RJs = {rj1}
  Tracks = {t1}
  Workers = {w1}
  Catalogues <- Catalogue1
  FaultyTracks = {t1}
  TaggedTracks = {}
  SwallowsCancel = FALSE
  RetryCount = 1
  AutoResume = TRUE
  Commands = {"queue", "cancel", "retry", "pause", "resume", "reconnect", "loseCache", "resumeAll", "shutdown"}
  QueueBound = 0
INVARIANTS
  DownloadingIsRunning
  DoneIsOnDisk
PROPERTIES
  CancelEnds
  OperationsEnd
  ShutdownEnds
