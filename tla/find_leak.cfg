SPECIFICATION Spec
CONSTANTS
  Paths = {"a"}
  LongPaths = {}
  Truncated = "truncated"
  Urls = {"/a"}
  Registrations <- Revalidated
  Sizes = {1, 2}
  Conditions = {"none"}
  Policies = {"later second"}
  MayRunOut = FALSE
  MaxVersion = 3
  MaxRevals = 1
  MaxTime = 2
INVARIANTS
  ReplacedEntryIsFreed
