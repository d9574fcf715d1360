\* Two works share one worker.
SPECIFICATION FairSpec
CONSTANTS
  None = None
  rj1 = rj1
  rj2 = rj2
  t1 = t1
  t2 = t2
  w1 = w1
  w2 = w2
  RJs = {rj1, rj2}
  Tracks = {t1}
  Workers = {w1}
  Catalogues <- Catalogue1
  FaultyTracks = {}
  TaggedTracks = {}
  SwallowsCancel = FALSE
  RetryCount = 2
  AutoResume = FALSE
  Commands = {"queue", "cancel", "deleteFile"}
  QueueBound = 0
PROPERTIES
  QueuedStarts
