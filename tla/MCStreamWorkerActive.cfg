SPECIFICATION Spec
CONSTANTS
  t1 = t1
  t2 = t2
  Task = {t1, t2}
  Prompt = {"p"}
  NoPrompt = NoPrompt
  CacheKey <- MCKey
  Word = {"plain", "open", "close", "block", "left", "right"}
  Notice = "notice"
  Spelling <- MCSpelling
  OpenTag <- MCOpen
  CloseTag <- MCClose
  MaxPosted = 5
  MaxToggles = 1
SYMMETRY MCSymmetry
CHECK_DEADLOCK FALSE
PROPERTY FilterOfActiveStreams
