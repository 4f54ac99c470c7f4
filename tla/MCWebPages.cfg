SPECIFICATION MCSpec
CONSTANTS
  Requests = {r1, r2}
  Modulus = 3
  Window = 2
  MaxBytes = 4
  Device = {"lan", "wan", "tun"}
  MaxAnswers = 3
  NoDevice = NoDevice
  Text = {"", " ", "a", "ab", "x"}
  Typed = {" ", "a", "ab", "x"}
  Trimmed <- MCTrimmed
  Results <- MCResults
  Prefix <- MCPrefix
  SuggestionLimit = 1
  NoRequest = NoRequest
  MaxIndex = 3
  Network = {"n1", "n2", "n3"}
  Lists <- MCLists
  NoNetwork = NoNetwork
  Page = {"home", "wifi", "net"}
  First = "home"
  MaxHistory = 3
  MaxQueue = 2
  MaxErrors = 1
  MaxClicks = 2
  Nothing = Nothing
  Ssid = {"n1", "n2"}
  FormLists <- MCFormLists
  MaxScans = 2
  NoSsid = NoSsid
  Href <- MCHref
  Home <- MCHome
  MaxDepth = 6
  NoAddress = NoAddress
CHECK_DEADLOCK FALSE
INVARIANTS
  PageTypesOK
  TotalIsTraffic
  ShowsOne
  ShownIsSubmitted
  AddressIsRight
  MessageGoes
  TapsSettle
PROPERTY
  NoStaleAnswer
