SPECIFICATION Spec
CONSTANTS
  Callers = {c1, c2, c3}
  AlarmIds = {"a", "b"}
  Systems = {"sys-001", "sys-002"}
  Kinds = {"TASK"}
  Levels = {0, 2}
  Empty = Empty
  Unspecified = Unspecified
  AnyLevel = AnyLevel
  Requests <- SomeRequests
  NoRequest = NoRequest
  NoAnswer = NoAnswer
  Nobody = Nobody
INVARIANT TypeOK
PROPERTY Linearizable
