SPECIFICATION Spec
CONSTANTS
  Defs <- MCDefs
  Queries <- MCQueries
  Prepares <- MCPrepares
  Lower <- MCLower
  Parse <- MCParse
  BindValues <- MCBindValues
INVARIANTS
  TypeOK
  FastIsDecoded
  StoredAsMeant
  AnswersAsMeant
