CONSTANTS
  A = A
  B = B
  Garbage = Garbage
  Skipped = Skipped
  Bytes = {A, B}
  Characters = {A, B}
  StringSize = 4
  StringValues <- MCStringValues
  StringArgs <- MCStringArgs
  OutputSize = 3
  OutputValues <- MCOutputValues
  OutputArgs <- MCOutputArgs
  MaxGiven = 7
  MaxFailures = 1
  Base = 4
  DigitBytes <- MCDigitBytes
  Numbers <- MCNumbers
  IntegerSpecs <- MCIntegerSpecs
  SplitTexts <- MCSplitTexts
  Delimiters <- MCDelimiters
  MaxSections = 3
SPECIFICATION TextSpec
PROPERTY OutputKeepsLog
CHECK_DEADLOCK FALSE
