SPECIFICATION LiveSpec
CONSTANTS
  t1 = t1
  t2 = t2
  w1 = w1
  w2 = w2
  done = done
  junk = junk
  Task = {t1, t2}
  Prompt <- MCPrompt
  NoPrompt = NoPrompt
  Word = {w1, w2}
  Blank = {done}
  Junk = {junk}
  Notice = Notice
  Answer <- MCAnswer
  MaxEntries = 1
  MaxCancels = 2
CHECK_DEADLOCK FALSE
INVARIANTS
  TypeOK
  StreamOwnership
  ResidualBelongsToStream
  CacheConsistent
  ReplayAnswersSameRequest
PROPERTIES
  ContractSpec
  EverySubmissionSettles
