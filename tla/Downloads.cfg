CONSTANTS
  Tasks = {t1, t2}
  Urls = {"u1", "u2"}
  Crops = {k1}
  SizeOf <- MCSizeOf
  max_bytes = 2
  MaxClock = 1
  MaxCrashes = 1
  Loads = {l1, l2}
  Requests <- MCRequests
  Offset <- MCOffset
  Writers = {w1, w2, w3}
  Paths = {p1, p2}
  Submitters = {w1, w2}
  interval = 2
  timeout = 1
  answer = 1
SPECIFICATION Spec
INVARIANTS IndexedIsOnDisk WithinBudget DownloadedIsTheWindow OneClientPerBucket FilesAreWhole
