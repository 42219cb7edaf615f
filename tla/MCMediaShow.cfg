SPECIFICATION MCSpec
CONSTANTS
  s1 = s1  s2 = s2  m1 = m1
  Screen = {s1, s2}
  Master = m1
  Kind <- Kinds
  Config <- Configs
  LastSlide = 1
  Underway = 1
INVARIANTS MasterSeesScreens BuzzStopsMedia
PROPERTY WaitingAnswersAppear
CHECK_DEADLOCK FALSE
