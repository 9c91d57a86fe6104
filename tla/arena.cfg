SPECIFICATION Spec
CONSTANTS
  HTTP_MAX_REQUEST_LEN = 1
  HTTP_RESPONSE_BUFFER_SIZE = 1
  HTTP_MAX_DECHUNK_SIZE = 1
  HTTP_ARENA_SLACK = 4
  SIZE_MAX = 15
  Aligns = {1, 2, 4, 8}
  FileCtx <- MCFileCtx
  Bases = {8, 9}
INVARIANTS
  TypeOK
  BlocksDisjoint
  ScratchIsRewound
  ContextIsAlive
  AlignedBaseIsSafe
