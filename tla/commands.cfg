\* Every command on one work, two files, two workers, refused files.
SPECIFICATION Spec
CONSTANTS
  None = None
  rj1 = rj1
  rj2 = rj2
  t1 = t1
  t2 = t2
  w1 = w1
  w2 = w2
  RJs = {rj1}
  Tracks = {t1, t2}
  Workers = {w1, w2}
  Catalogues <- Catalogue2
  FaultyTracks = {t1}
  TaggedTracks = {}
  SwallowsCancel = FALSE
  RetryCount = 1
  AutoResume = FALSE
  Commands = {"queue", "cancel", "retry", "pause", "resume", "reconnect", "loseCache"}
  QueueBound = 1
INVARIANTS
  TypeOK
  OneTaskPerWork
  QueueAgrees
  CancelHolds
PROPERTIES
  CancelledRowsStay
