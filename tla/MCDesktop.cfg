SPECIFICATION Spec
CONSTANTS
  t1 = t1
  t2 = t2
  s1 = s1
  s2 = s2
  a = a
  b = b
  w = w
  Task = {t1, t2}
  NoPrompt = NoPrompt
  Word = {w}
  Notice = Notice
  Session = {s1, s2}
  Nowhere = Nowhere
  Draft <- MCAttached
  Extract = Extract
  Indicator = Indicator
  Considerate = FALSE
  MaxSends = 2
  MaxPosted = 2
  MaxRestarts = 1
  MaxFaults = 1
VIEW MCView
SYMMETRY MCSymmetry
CHECK_DEADLOCK FALSE
INVARIANTS
  TypeOK
  NoTokenLostOrRepeated
  SessionsAgree
  SidebarInStep
