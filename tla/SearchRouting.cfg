SPECIFICATION Spec
CONSTANTS
  gemini = gemini
  grok = grok
  cse = cse
  Callers = {c1}
  Direct = {d1}
  Chain <- MCChain
  Backends = {gemini, grok, cse}
  Configured = {grok, cse}
  Swallows = {grok}
  Strict = {grok}
  Cse = cse
  Queries = 3
  ErrorMode = "auto"
  Attempts = 2
  MaxRequests = 1
  Window = 2
  Threshold = 2
  Timeout = 1
  None = None
INVARIANTS
  TypeOK
  RateBound
  RaisedFailuresOpen
  ChainKept
PROPERTIES
  OpenLasts
