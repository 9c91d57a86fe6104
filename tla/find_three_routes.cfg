SPECIFICATION Spec
CONSTANTS
  Paths = {"/a", "/b"}
  Methods = {"GET", "POST"}
  RequestMethods = {"GET", "POST"}
  MAX_ALLOWED = 8
  SIZE_MAX = 7
  Tables <- MCTables3
  Contents <- NoContents
INVARIANTS
  RefusedHasDuplicate
