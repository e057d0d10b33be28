SPECIFICATION Spec
CONSTANTS
  t1 = t1
  t2 = t2
  s1 = s1
  s2 = s2
  a = a
  b = b
  w = w
  Task = {t1, t2}
  NoPrompt = NoPrompt
  Word = {w}
  Notice = Notice
  Session = {s1, s2}
  Nowhere = Nowhere
  Draft <- MCPlain
  Extract = Extract
  Indicator = Indicator
  Considerate = TRUE
  MaxSends = 3
  MaxPosted = 4
  MaxRestarts = 1
  MaxFaults = 0
SYMMETRY MCSymmetryPlain
CHECK_DEADLOCK FALSE
INVARIANTS
  SavedIsShown
  ContextIsTranscript
  AnswerInItsSession
