SPECIFICATION Spec
CONSTANTS
  Radix = 4
  SizeMax = 63
  MaxHeader = 16
  MaxHeaders = 2
  MaxBody = 5
  MaxRead = 17
  StreamThreshold = 2
  MaxPath = 4
  PathCap = 6
  MaxFields = 2
  MaxTokens = 3
  ValueCap = 3
  FieldCap = 3
  ReadChunk = 2
  LineLimit = 4
  Symbols <- AllSymbols
  Forms <- AllForms
INVARIANTS Framed PathServed FieldsExact UploadExact
\* Every reader ends: with an answer, or with a text of the longest length.
CHECK_DEADLOCK FALSE
