\* Violated: a resume of a work with a tagged file.
SPECIFICATION Spec
CONSTANTS
  None = None
  rj1 = rj1
  rj2 = rj2
  t1 = t1
  t2 = t2
  w1 = w1
  w2 = w2
  RJs = {rj1}
  Tracks = {t1, t2}
  Workers = {w1}
  Catalogues <- Catalogue2
  FaultyTracks = {}
  TaggedTracks = {t1}
  SwallowsCancel = FALSE
  RetryCount = 1
  AutoResume = FALSE
  Commands = {"queue", "pause", "resume"}
  QueueBound = 0
PROPERTIES
  DoneNeverFails
