SPECIFICATION OverlaySpec
CONSTANTS
  NONE = NONE
  Global = Global
  Trackers <- MCTrackers
  Tracker <- MCTracker
  HistoryWindow = 2
  FocusStaleAfter = 1
  OverlayIds <- MCOverlayIds
  Overlay <- MCOverlay
  Pictures <- MCPictures
  Frame <- MCFrame
  Windows <- MCWindows
  Seat <- MCSeat
  MaxNow = 5
  Lag = 0
  CaptureWait = 1
INVARIANTS
  OverlaysCloseWithFocus
  HiddenStaysHidden
  ConditionsHold
  BarsTellTheTruth
  BarsShowTheLastPicture
PROPERTIES
  CountdownRunsDown
CHECK_DEADLOCK FALSE
