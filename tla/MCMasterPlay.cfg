SPECIFICATION MCSpec
CONSTANTS
  m1 = m1  u1 = u1  u2 = u2  u3 = u3  right = right  other = other  loud = loud
  None = None
  MasterConn = {m1}
  ScreenConn = {}
  DeviceOf <- ThePhone
  Team = {u1, u2, u3}
  UdpTeam = {u1, u2, u3}
  LastQuestion = 1
  Answer = {right, other}
  CorrectAnswer = {right}
  OptionsOf <- RightInBoth
  Media <- OnlyMedia
  InitialMedia <- Silent
  Playable = {}
  Volume = {loud}
  SavedGame = {}
  Worth = 1
  DoubleWorth = 0
  WrongCost = 1
  MaxPoints = 99
  Backlog = 0
  Added = {1}
  Underway = 1
VIEW V
SYMMETRY Swap
INVARIANTS MasterShowsTheGame BuzzedTeamIsAsked PaneShowsCopy
CHECK_DEADLOCK FALSE
