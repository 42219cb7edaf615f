SPECIFICATION MCSpec
CONSTANTS
  m1 = m1  m2 = m2  m3 = m3  s1 = s1  t1 = t1  t2 = t2  t3 = t3
  u1 = u1  u2 = u2  right = right  other = other  loud = loud
  None = None
  MasterConn = {m1, m2, m3}
  ScreenConn = {s1}
  DeviceOf <- Devices
  Team = {t1, t2, t3, u1, u2}
  UdpTeam = {u1, u2}
  LastQuestion = 1
  Answer = {right, other}
  CorrectAnswer = {right}
  OptionsOf <- BothAnswers
  Media <- AllMedia
  InitialMedia <- FirstPlays
  Playable = {0}
  Volume = {loud}
  SavedGame <- Saved
  Worth = 1
  DoubleWorth = 2
  WrongCost = 1
  MaxPoints = 1
  Backlog = 1000
VIEW Seen
INVARIANTS NoGameNoData ResumesStartedGame LockAgrees ScreensFollow
PROPERTIES ImplementsSession ResumeKeepsGame OneTeamPerLock SolvedStaysLocked ChangesAreSaved RunningGameIsShown
