SPECIFICATION MCSpec
CONSTANTS
  box = box  stick = stick  quiz = quiz  other = other  q1 = q1  q2 = q2  save1 = save1  save2 = save2
  file1 = file1  file2 = file2  r1 = r1  r2 = r2  folder = folder
  Location = {box, stick}
  Game = {quiz, other}
  Content = {q1, q2}
  Shows <- ShowsMedia
  State = {save1, save2}
  Path = {file1, file2}
  Folder = {folder}
  Inside <- InFolder
  Archive <- Archives
  Request = {r1, r2}
  MaxVersion = 3
  MaxRequests = 4
  None = None
  t1 = t1  image = image  clip = clip  builtIn = builtIn  playHide = playHide  hideBoth = hideBoth  old = old  new = new
  u1 = u1  u2 = u2  blue = blue  teamA = teamA  teamB = teamB
  Text = {t1}
  Kind = {image, clip}
  Playable = clip
  Config = {builtIn, playHide, hideBoth}
  BuiltIn = builtIn
  PlayHide = playHide
  HideBoth = hideBoth
  OldScoring = old
  NewScoring = new
  Stored <- Editable
  MaxQuestions = 3
  MaxEdits = 3
  MaxVersions = 3
  Wireless = {u1, u2}
  Color = {blue}
  BoxBuzzers = 2
  Prepared <- Preparable
  HandName = HandName
  MinTeams = 2
  MaxRestarts = 2
  MaxChanges = 4
  Absent = Absent
  Nobody = Nobody
INVARIANTS NumbersAreKept PlayedVersionsExist MovedGameIsKept EachWithItsConfig MarksFollowTeams
PROPERTIES ShownMediaStay
CHECK_DEADLOCK FALSE
