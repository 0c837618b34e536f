SPECIFICATION Spec
CONSTANTS
  Chars <- TheChars
  Keys <- TheKeys
  Count <- TheCount
  Values <- TheValues
  MaxCount = 1
  None = None
INVARIANT SavedAsGiven
