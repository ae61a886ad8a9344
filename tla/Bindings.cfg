SPECIFICATION BindingsSpec
CONSTANTS
  MaxCalls = 2
  MaxChunks = 2
  MaxRedirects = 1
  MaxSent = 3
  MaxArrived = 3
  Nuls = {2}
  Menus = {file, edit}
  Items = {copy, check}
  CheckItems = {check}
  NoMenu = NoMenu
  MenuWindows = {window}
  MaxEntries = 3
  MaxBars = 2
  MaxClicks = 1
  Windows = {1, 2, 3}
  Main = 1
  MaxDepth = 2
  SizedWindows = {sized}
  Axes = {width}
  MaxSize = 3
  MaxEvents = 2
INVARIANTS
  BodyIsItsOwn
  AbortIsForThis
  WrittenGoesOut
  CallbacksFollow
  MenusMirrored
  WindowsListed
  ClosingIsComplete
  LimitsHold
PROPERTIES
  RequestsEnd
CHECK_DEADLOCK FALSE
