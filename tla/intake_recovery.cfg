CONSTANTS
  w1 = w1
  t1 = t1
  t2 = t2
  Works = {w1}
  Folders <- WorkFolders
  NoFolder = NoFolder
  Tracks = {"a", "z"}
  Tx = {t1, t2}
  NoTx = NoTx
  Stranger = Stranger
  Batches <- SmallBatches
  Held <- HeldFiles
  Shapes <- PlainOnly
  MaxFaults = 0
  MaxCrashes = 1
  MaxEdits = 0

SPECIFICATION Spec

INVARIANTS
  RecoveryHealsTables

\* No call need ever be made.
CHECK_DEADLOCK FALSE
