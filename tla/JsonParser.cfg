SPECIFICATION Spec
CONSTANTS
  Strings = {"a", "b"}
  Scalars = {"1"}
  MaxDepth = 2
  MaxText = 9
  EOF = EOF
INVARIANTS
  TypeOK
  RecursionBounded
  ParsesExactlyJson
