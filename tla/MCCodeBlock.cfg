SPECIFICATION Spec
CONSTANTS
  Length = 4
  Languages = {"cpp", "python", "css", "html", "javascript", "java", "php", "rust", "kotlin", "text"}
  Words <- MCWords
  Characters <- MCCharacters
  Keywords <- MCKeywords
  Codes <- MCCodes
  Chars <- MCChars
INVARIANTS ShownIsCode LiteralsWhole TakenIsCode
PROPERTY ScanAdvances
CHECK_DEADLOCK FALSE
