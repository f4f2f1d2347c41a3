CONSTANTS
  Byte <- MCByte
  SP = " "
  HT = "HT"
  CR = "CR"
  LF = "LF"
  Colon = ":"
  Comma = ","
  MethodChar = {"G"}
  PathChar <- MCVisible
  VersionChar <- MCVisible
  NameChar <- MCNameChar
  ValueChar <- MCValueChar
  Methods <- MCMethods
  Versions <- MCVersions
  ConnectionNames <- MCConnection
  CloseTokens <- MCClose
  KeepAliveTokens <- MCKeepAlive
  HTTP_METHOD_MAX = 3
  HTTP_PATH_MAX = 3
  VERSION_MAX = 2
  HTTP_HEADER_LINE_MAX = 5
  HTTP_MAX_HEADERS = 2
  Streams <- MCStreams
  MaxBytes = 41
  READ_CHUNK = 6
SPECIFICATION FairSpec
INVARIANTS
  TypeOK
  BuffersHold
  CallsAreRight
PROPERTIES
  ImplementsByteFeed
  AllIsParsed
CHECK_DEADLOCK FALSE
