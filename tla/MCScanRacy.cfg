CONSTANTS
  Scans = {s1, s2}
  Workers = {w1, w2}
  crate = crate
  OldBatches = {crate}
  Uploads <- MCUploads
  None = None
SPECIFICATION RacySpec
PROPERTY AcceptedScanSettles
