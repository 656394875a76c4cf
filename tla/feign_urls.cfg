SPECIFICATION FeignSpec
CONSTANTS
  a = a
  b = b
  Token <- MCToken
  Client <- MCClient
  Declaration <- MCDeclaration
  Method <- MCMethod
  Message <- MCMessage
  NullMessage = NullMessage
  NoBean = NoBean
  NoCall = NoCall
CHECK_DEADLOCK FALSE
INVARIANTS
  UrlWellFormed
  CallsAreHttp
