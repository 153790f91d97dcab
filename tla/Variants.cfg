SPECIFICATION Spec
CONSTANTS
  i1 = i1  i2 = i2  i3 = i3
  Uploads = {u1, u2}
  Images = {i1, i2, i3}
  Suggested <- MCSuggested
  Detected <- MCDetected
  Unknown <- MCUnknown
  SizesOf <- MCSizesOf
  Extent <- MCExtent
  Height <- MCHeight
  FormatsOf <- MCFormatsOf
  AllFormats <- MCAllFormats
  Garbage <- MCGarbage
  None = None
INVARIANTS
  AnswersNameFiles
  FoundAgain
CHECK_DEADLOCK FALSE
