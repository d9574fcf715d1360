CONSTANTS
  SourceSize = 3
  Sizes = {0, 2, 3, 4}
  TagLength = 0
  RetryCount = 2

SPECIFICATION FairSpec

INVARIANTS
  TransferTypeOK
  PartAligned
  PublishedWhole
  HonestServerSuffices

PROPERTIES
  TransferEnds
  ImplementsVerifiedFile
