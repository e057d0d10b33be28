SPECIFICATION Spec
CONSTANTS
  Atom = {"a", "b", "i"}
  Prompts <- MCPrompts
  Files <- MCFiles
  Indicator <- MCIndicator
  Tokens <- MCTokens
  Chats <- MCChats
  Params <- MCParams
  Default <- MCDefault
  CharsPerToken = 2
  Overhead = 1
  Fallback = 6
  MaxPending = 1
  MaxSubmitted = 2
  MaxMessages = 3
  MaxStream = 2
INVARIANTS
  BarInStep
PROPERTIES
  OverrunAnnounced
