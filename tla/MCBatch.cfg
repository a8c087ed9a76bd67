SPECIFICATION Spec
CHECK_DEADLOCK FALSE
CONSTANTS
  Chars <- MCChars
  TextChars <- MCTextChars
  Openings <- MCOpenings
  MaxText = 5
  Confs <- MCConfs
  Queries <- MCQueries
  LongBits = 10
  MaxRows = 3
  MaxBad = 1
  MaxPacket = 7
INVARIANTS
  
  ValuesArriveAsSet
  
  OutcomeIsTold
