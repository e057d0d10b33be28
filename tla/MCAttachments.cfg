SPECIFICATION Spec
CONSTANTS
  photo = photo
  report = report
  p1 = p1
  p2 = p2
  File = {photo, report}
  Image = {photo}
  Pdf = {report}
  Content <- MCContent
  Gone = Gone
  Prompt = {p1, p2}
  MaxImageSize = 4
  MaxPdfSize = 6
  MaxCount = 2
  MaxTokens = 3
  TokensPerImage = 2
  CharsPerToken = 2
  MaxSelected = 2
  MaxEdits = 1
CHECK_DEADLOCK FALSE
INVARIANTS
  BudgetKept
  ChipRemovesItsFile
  ImagesOfOnePrompt
