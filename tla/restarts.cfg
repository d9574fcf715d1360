\* Stops, shutdown, crash and start around one worker: what the tables say of files
\* and works is true, and nothing runs against the user.
SPECIFICATION Spec
CONSTANTS
  None = None
  rj1 = rj1
  rj2 = rj2
  t1 = t1
  t2 = t2
  w1 = w1
  w2 = w2
  RJs = {rj1}
  Tracks = {t1, t2}
  Workers = {w1}
  Catalogues <- CatalogueOrNone
  FaultyTracks = {}
  TaggedTracks = {}
  SwallowsCancel = FALSE
  RetryCount = 2
  AutoResume = FALSE
  Commands = {"queue", "pause", "cancel", "pauseAll", "resumeAll", "shutdown", "crash"}
  QueueBound = 1
INVARIANTS
  RunsOnlyWanted
  DownloadingIsRunning
  DoneIsOnDisk
  CompletedMeansDone
  CardsAct
PROPERTIES
  DoneNeverFails
