\* Violated: a pause overtaken by two suspended operations.
SPECIFICATION Spec
CONSTANTS
  None = None
  rj1 = rj1
  rj2 = rj2
  t1 = t1
  t2 = t2
  w1 = w1
  w2 = w2
  RJs = {rj1}
  Tracks = {t1}
  Workers = {w1}
  Catalogues <- Catalogue1
  FaultyTracks = {}
  TaggedTracks = {}
  SwallowsCancel = FALSE
  RetryCount = 1
  AutoResume = FALSE
  Commands = {"queue", "pause", "resume"}
  QueueBound = 0
INVARIANTS
  RunsOnlyWanted
