CONSTANTS
  Scans = {s1, s2}
  Workers = {w1, w2}
  crate = crate
  OldBatches = {crate}
  Uploads <- TwoUploads
  None = None
SPECIFICATION FaultySpec
SYMMETRY Interchangeable
INVARIANT OneBatchPerScan
INVARIANT SpoiledBatchAlerted
INVARIANT RefusedMakesNoInventory
