\* Every input of up to 20 tokens for a point of three fields.
SPECIFICATION Spec
CONSTANTS
  Ints = {"ts"}
  Floats = {"ax", "battery"}
  Required = {"ts", "ax"}
  Ranged = {"ts", "battery"}
  MaxTokens = 20
INVARIANTS TypeOK AcceptsOnlyValid RejectsOnlyInvalid
