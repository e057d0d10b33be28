SPECIFICATION Spec
CONSTANTS
  Words <- MCWords
  Tokens <- MCTokens
  Prompts <- MCPrompts
  Histories <- MCHistories
  light = light
  dark = dark
  Themes = {light, dark}
  MaxEntries = 2
  MaxReceived = 2
  MaxMessages = 3
SYMMETRY MCSymmetry
INVARIANTS
  TypeOK
  CachesConsistent
  PageGenuine
  ListsBalanced
  TextKept
  CodeVerbatim
  ReloadLooksTheSame
PROPERTIES
  SettledStays
