SPECIFICATION MCSpec
CONSTANTS
  MaxOpen = 5
  Delay <- MCDelay
  Object = {o1, o2, o3}
  DialogId = {"wating_box", "func_box", "art1"}
  NoObject = NoObject
  Probe = {p1, p2}
  Images = 2
  Limit = 1
  AP = {"a", "b", "c", "h"}
  Usable = {"a", "b", "c"}
  Ssid <- MCSsid
  Scans <- MCScans
  Chain = {1, 2}
  MaxOptions = 3
  MaxBound = 2
  NoAP = NoAP
INVARIANTS
  LiveTypesOK
  ReloadNeedsOverlap
  WaitsVisibly
  SubmitsWhatIsShown
PROPERTIES
  PageKeepsPolling
  WaitingEnds
  RefreshEnds
