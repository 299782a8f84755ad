SPECIFICATION FairSpec
CONSTANTS
  s1 = s1
  d1 = d1
  d2 = d2
  NoRecord = NoRecord
  Seeders <- OneSeeder
  Downloaders <- TwoDownloaders
  N = 2
  MaxRetries = 2
  Fits <- OneListTooLong
  TrackerLimits <- WideAndNarrow
  MaxFaults = 1
INVARIANTS TypeOK AskedForVerified NoReadAfterRename
PROPERTIES OneSourceIsEnough EveryDownloadCompletes
