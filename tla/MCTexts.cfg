SPECIFICATION MCSpec
CONSTANTS
  MaxRequest = 2
  MaxHeader = 1
  MaxCall = 2
  Words = {"GET", "POST", "OPTIONS"}
  Types = {"multipart/form-data", "text/plain"}
  Codes = {200, 301, 304, 500}
INVARIANTS TextsAgree ConversionsAgree MinifierKeeps RequestIsRead
INVARIANTS StatusIsFirstError MessagesAreSeparate EncodingFitsBody
CHECK_DEADLOCK FALSE
