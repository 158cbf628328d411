CONSTANTS
  Patterns <- MCPatterns
  Urls <- MCUrls
  Requests <- MCRequests
  MaxCalls = 3
  None = None
SPECIFICATION Spec
INVARIANTS TypeOK FoundMatches FoundUnlessHidden RequestIsRead
PROPERTIES FoundStays
