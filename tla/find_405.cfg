SPECIFICATION Spec
CONSTANTS
  Paths = {"/a"}
  Methods = {"GET", "POST"}
  RequestMethods = {"GET", "POST"}
  MAX_ALLOWED = 8
  SIZE_MAX = 7
  Tables <- MCTables2
  Contents <- MCContents
INVARIANTS
  RegisteredPathGets405
