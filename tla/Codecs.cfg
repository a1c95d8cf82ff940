CONSTANTS
  NULL = NULL
  NoBytes = NULL
  MinifyLength = 5
  ParseLength = 3
  Alphabet = {"[", "]", "{", "}", ",", ":", "quote", "backslash", "literal", "digit", "minus", "blank", "zero", "bom"}
  Base64Length = 5
  Base58Length = 4
  UnicodeLength = 3
  Texts <- MCTexts
  Typed <- MCTyped
  Literals <- MCLiterals
  Room16 = {0, 2, 3, 8}
  Room8 = {0, 3, 4, 7, 16}
  Data <- MCData
  Encodings <- MCEncodings
  Encodings58 <- MCEncodings58
  OutSizes = {0, 2, 3, 6}
  UInts = 65536
  ArrayItems <- MCArrayItems
  NoNumber = NULL
  MaxItems = 3
  ValueMax = 1023
  Chars <- MCChars
  Items <- MCItems
  Height <- MCHeight
  Nesting = 4
  Lengths = {0, 1, 2, 3, 4, 5, 6, 7, 8, 9, 10, 11, 12, 13, 14, 15, 16, 18, 20, 22, 24, 26, 28, 30, 35, 40}
  DefaultSize = 4
  IntMax = 40
SPECIFICATION Spec
INVARIANTS
  MinifiesInPlace
  ParsesOrFreesAll
  PrintsOrFreesAll
  Base64RoundTrip
  DecodesBytes
  KeepsWholeCharacters
  SendsWhatWasMeant
  CompareIsEquality
CHECK_DEADLOCK FALSE
