CONSTANTS
  Texts <- MCTexts
  MaxChars = 8
  Overlap = 2
  TopK = 3
  TopN = 2
  Providers = {"mock", "groq", "anthropic"}
  Questions <- MCQuestions
  MaxPicked = 3
  MaxFallback = 2
  KeyLength = 2
  MinSentence = 1
  MaxTexts = 2
  Queries <- MCQueries
SPECIFICATION MCSpec
INVARIANTS
  BoundariesAreCovered
  ChunksAreSound
  SavedIsShown
  MarksAreBacked
  TaxIsBySlab
PROPERTIES
  ContractSpec
  AnswersEnd
