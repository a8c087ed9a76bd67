SPECIFICATION MCSpec
CONSTANTS
  Starts <- MCStarts
  Urls <- MCUrls
  PropertySets <- MCPropertySets
  Dials <- MCDials
  UserNames <- MCUserNames
  Stmts = {s1, s2}
  Keys = {q1, q2, q3, q4}
  LongKeys = {q4}
  Results = {r1, r2, r3}
  None = None
  maxSize = 2
  CountBound = 1
  Pieces <- MCPieces
  MaxPieces = 3
  SessionSettings <- MCSettings
  Calls <- MCCalls
  Prepared <- MCPrepared
  ServerErrors <- MCServerErrors
  MaxFailures = 3
  HandshakeStarts <- MCHandshakeStarts
  Timeouts <- MCTimeouts
  MaxAttempts = 2
  SavepointNames = {"unnamed"}
  InfoValues <- MCInfoValues
  Modes = {TRUE, FALSE}
  MaxCalls = 5
  Handles = {h1, h2}
  DefaultFetchSize = 1
  ServerTimeouts = TRUE
  MaxSteps = 5
  InsertTexts <- MCInsertTexts
  Steps = {1, 2}
  MaxInsert = 3
  MaxId = 9
  Scenes = {"session", "url", "statements", "syntax", "errors", "handshake", "savepoints", "info", "warnings", "settings", "completion", "keys"}
CHECK_DEADLOCK FALSE
INVARIANTS
  
  
  KeysAreTheInserts
  SharesAreExact
  ConnectsAsAsked
  
  
  
  OpenedAsConfigured
  DialogIsTrue
  StatementsKeepApart
PROPERTIES
  
  NoDoubleClose
  
