SPECIFICATION Spec
CONSTANTS
  MaximumMessages = 2
  CountMax = 100
  Pieces = 2
  MaxUnits = 3
  Scenarios <- MCScenarios
INVARIANTS
  TypeOK
  ValidIsGenerated
  UpstreamSeesPrompt
  CompletionFaithful
  WholeAnswerCompletes
  StringsAreUnicode
