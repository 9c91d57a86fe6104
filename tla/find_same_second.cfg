SPECIFICATION Spec
CONSTANTS
  Paths = {"a"}
  LongPaths = {}
  Truncated = "truncated"
  Urls = {"/a"}
  Registrations <- Revalidated
  Sizes = {1, 2}
  Conditions = {"none"}
  Policies = {"any"}
  MayRunOut = FALSE
  MaxVersion = 3
  MaxRevals = 1
  MaxTime = 2
INVARIANTS
  NoStaleAnswer
