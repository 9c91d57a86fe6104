SPECIFICATION LiveSpec
CONSTANTS
  Texts <- AllTexts
  HTTP_MAX_REQUEST_LEN = 22
  HTTP_MAX_PATH_LEN = 5
  HTTP_MAX_QUERY_LEN = 5
  HTTP_MAX_HEADER_KEY_LEN = 4
  HTTP_MAX_HEADER_VALUE_LEN = 6
  HTTP_MAX_HEADERS = 2
INVARIANTS
  TypeOK
  ScansAgree
  OkIsWellFormed
  RequestIsHead
  RefusalIsTrue
  CodingsAsDocumented
PROPERTY ParseEnds
CHECK_DEADLOCK FALSE
