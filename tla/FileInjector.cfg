SPECIFICATION Spec
CONSTANTS
  Contents = {tok1, tok2}
  Empty = Empty
  Missing = Missing
  MaxWrites = 2
CHECK_DEADLOCK FALSE
INVARIANTS TypeOK InjectNeverFails
PROPERTIES TokenConverges CloseStopsLoops
