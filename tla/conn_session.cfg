SPECIFICATION Spec
CONSTANTS
  HTTP_MAX_BODY_LEN = 16
  HTTP_MAX_REQUEST_LEN = 18
  HTTP_MAX_DECHUNK_SIZE = 2
  HTTP_RESPONSE_BUFFER_SIZE = 3
  HTTP_STREAM_CHUNK_SIZE = 3
  HTTP_MAX_REQUESTS = 3
  CONTINUE_100_SIZE = 2
  ErrorSize = 2
  ResponseSizes = {2}
  FrameOverhead = 1
  LastFrameSize = 2
  Requests <- MCRequests
  Clients <- SessionClients
  Faults = {"gone", "block", "pull"}
  MaxBlocks = 1
  MaxUses = 1
  MaxWire = 4
INVARIANTS
  BufferStartsAtNextRequest
PROPERTIES
  ImplementsSession
