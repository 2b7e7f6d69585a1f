SPECIFICATION LexSpec
CONSTANTS
  Bytes <- MCBytes
  Expressions <- MCExpressions
  Later <- MCLater
  Ascii <- MCAscii
  Encoding <- MCEncoding
  Spaces <- MCSpaces
  Letters <- MCLetters
  Lowercase <- MCLowercase
  Digits <- MCDigits
  HexDigits <- MCHexDigits
  Functions <- MCFunctions
  ParseFloat <- MCParseFloat
  ParseUint <- MCParseUint
  tryParseTime <- MCTime
  Symbol <- MCSymbol
INVARIANTS LexerTypeOK StreamInSync TextAsWritten
PROPERTY LexEnds
