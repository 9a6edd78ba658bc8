\* Lengths around the limits of a word, of the length field and of a block;
\* bytes with every bit pattern of a boundary; code units on both sides of
\* every limit of UTF-8 and of the surrogates; texts around the 16 bytes.
\* Calls three deep, one exception, a stack that can overflow, a few writes.
CONSTANTS
  MessageLengths = {0, 3, 55, 56, 64, 119}
  KeyLengths = {5, 61, 64, 65}
  Messages <- MCMessages
  Keys <- MCKeys
  Bytes = {0, 1, 63, 64, 170, 255}
  MaxBytes = 5
  CodeUnits = {0, 65, 127, 128, 2047, 2048, 55295, 55296, 56319, 56320, 57343, 57344, 65535}
  MaxUnits = 3
  Texts <- MCTexts
  Log2 <- MCLog2
  StackMax = 5
  ArgSizes <- MCArgSizes
  Chunks <- MCChunks
  MaxDepth = 3
  MaxMarks = 1
  MaxThrows = 1
  MaxWritten = 3
SPECIFICATION MCSpec
INVARIANTS
  HashIsFips
  Base64IsTheBits DigitsKeepTheInput Utf8Agrees CutsAreClean
  MarksAreOwn LinesAreWhole StackIsNested
CHECK_DEADLOCK FALSE
