SPECIFICATION DecSpec
CONSTANTS
  Messages <- MCMessages
  Keys <- MCKeys
  Begins <- MCBegins
  Values = {"a", "m", "t", "u"}
  Missing = Missing
  NotAMap = NotAMap
INVARIANTS DecTypeOK DecodedUpToRequired RefusedForReason
