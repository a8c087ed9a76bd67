SPECIFICATION MCSpec
CONSTANTS
  ByteBits = 2
  FloatBits = 6
  DoubleBits = 13
  Digits = 3
  TinyLength = 4
  VarcharLength = 6
  BlobLength = 8
  MediumLength = 10
  LongLength = 12
  Columns <- MCColumns
  Options <- MCOptions
  Schemas <- MCSchemas
  TableNames <- MCQuotedNames
  KeyNames <- MCKeyNames
  RulePairs <- MCRulePairs
  MaxObjects = 3
  Reserve = 2
  MaxRows = 4
  FetchSizes <- MCFetchSizes
  Steps <- MCSteps
  Stmts = {s1, s2}
  Scripts <- MCScripts
  StreamSizes <- MCFetchSizes
  Careful = TRUE
  Procedures <- MCProcedures
  MaxExecutions = 2
CHECK_DEADLOCK FALSE
INVARIANT
  NamesAreQuoted
