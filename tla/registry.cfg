SPECIFICATION Spec
CONSTANTS
  Paths = {"a"}
  LongPaths = {}
  Truncated = "truncated"
  Urls = {"/a"}
  Registrations <- EveryMode
  Sizes = {1, 2}
  Conditions = {"none", "star", "etag", "date", "malformed date", "etag and date"}
  Policies = {"later second", "other stamp"}
  MayRunOut = TRUE
  MaxVersion = 4
  MaxRevals = 1
  MaxTime = 3
INVARIANTS
  TypeOK
  NoStaleAnswer
PROPERTIES
  NotModifiedIsCurrent
  EtagNamesBody
