SPECIFICATION PagesSpec
CONSTANTS
  p1 = p1  p2 = p2  a1 = a1  a2 = a2  b1 = b1  b2 = b2  t1 = t1  t2 = t2  loud = loud
  None = None
  Page = {p1, p2}
  ConnsOf <- TwoEach
  MaxTrouble = 1
  MasterConn = {a1, a2, b1}
  ScreenConn = {}
  DeviceOf <- Devices
  Team = {t1, t2}
  UdpTeam = {}
  LastQuestion = 0
  Answer = {}
  CorrectAnswer = {}
  OptionsOf <- NoAnswers
  Media <- NoMediaOnly
  InitialMedia <- Silent
  Playable = {}
  Volume = {loud}
  SavedGame = {}
  Worth = 0
  DoubleWorth = 0
  WrongCost = 0
  MaxPoints = 0
INVARIANT AlwaysFits
VIEW V
