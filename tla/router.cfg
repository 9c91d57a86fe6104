SPECIFICATION Spec
CONSTANTS
  Paths = {"/a", "/b"}
  Methods = {"GET", "POST", "PATCH"}
  RequestMethods = {"GET", "POST"}
  MAX_ALLOWED = 2
  SIZE_MAX = 7
  Tables <- MCTables3
  Contents <- MCContents
INVARIANTS
  TypeOK
  DuplicatesAreRefused
  OwnRouteAnswers
  FirstMatchAnswers
  AllowIsExact
