SPECIFICATION DbSpec
CONSTANTS
  Modes = {"libpq", "qt"}
  Clients = {a, b}
  Conns = {c1, c2}
  None = None
  MaxConnections = 2
  MinConnections = 1
  Statements = 2
  Null = Null
  NoTime = NoTime
  Half = 4
  BatchSize = 2
INVARIANT DbTypeOK
INVARIANT MergeAllOrNothing
PROPERTY Exclusive
PROPERTY CallsEnd
