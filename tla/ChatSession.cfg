SPECIFICATION Spec
CONSTANTS
  Lines = {"hi", ""}
  Replies = {"word", "line", ""}
  Terminated = {"line"}
  Empty = ""
  MaxInput = 7
  Arguments = {"-i", "-j", "-p", "-h", "path", ""}
  MaxArguments = 5
INVARIANTS
  TypeOK
  StartsAsAsked
  PromptsAreTheConversation
  AnswerEndsItsLine
  ExitTellsUnsent
