SPECIFICATION PagesSpec
CONSTANTS
  Page = {"home", "wifi", "net"}
  First = "home"
  MaxHistory = 4
  MaxQueue = 2
  MaxErrors = 1
CHECK_DEADLOCK FALSE
INVARIANT
  QueueIsServed
