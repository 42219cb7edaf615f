SPECIFICATION MCSpec
CONSTANTS
  p1 = p1  red = red  blue = blue  NoValue = NoValue
  b1 = b1  b2 = b2  full = full  newer = newer  orange = orange
  Path = {p1}  Color = {red, blue}  Keeping = {b1, b2}  Refusing = {b2}  Sleepy = {p1}
  MaxOpenAttempts = 2  Swift = FALSE  Queued = 2
  Buzzer = {b1, b2}
  TeamBuzzer = {b1, b2}
  Beating = {b1, b2}
  Battery = {"low", "near", "ok", "untold"}
  Info <- Infos
  Window = 1
  MaxDelay = 2
  ResendFor = 1
  Timeout = 1
  ClockErrors <- Clocks
  NoClock = NoClock
  Overtaking = TRUE
  MaxPress = 2
  Presses <- Both
  MaxState = 0
INVARIANTS TakenOnce FairOrder MasterListIsCurrent ColorForItsBuzzer
PROPERTIES LiveBuzzersShowGame BusyEnds
