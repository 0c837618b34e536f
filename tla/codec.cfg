SPECIFICATION Spec
CONSTANTS
  Chars <- TheChars
  Keys <- TheKeys
  Count <- TheCount
  Values <- TheValues
  MaxCount = 11
  None = None
INVARIANTS ReadsBack CountsLogins
