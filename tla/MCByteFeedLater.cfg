CONSTANTS
  Byte <- MCByte
  SP = " "
  HT = " "
  CR = "CR"
  LF = "LF"
  Colon = ":"
  Comma = ","
  MethodChar = {"c"}
  PathChar = {"k"}
  VersionChar = {"c", "k"}
  NameChar = {"c", "k"}
  ValueChar = {"c", "k", ",", " "}
  Methods <- MCMethods
  Versions <- MCVersions
  ConnectionNames <- MCClose
  CloseTokens <- MCClose
  KeepAliveTokens <- MCKeepAlive
  HTTP_METHOD_MAX = 2
  HTTP_PATH_MAX = 2
  VERSION_MAX = 3
  HTTP_HEADER_LINE_MAX = 5
  HTTP_MAX_HEADERS = 2
  MaxBytes = 19
SPECIFICATION Spec
INVARIANT PersistsAsDocumented
CHECK_DEADLOCK FALSE
