SPECIFICATION FairSpec
CONSTANTS
  Byte = {1, 2}
  OutSizes = {0, 1, 3}
  Delims <- CRLF
  MaxSent = 3
  Tls = TRUE
  MaxPhantom = 1
INVARIANTS
  TypeOK
  StreamConserved
  NoByteLost
  PhantomAccounted
  ResultFits
  UntilTwoByteDelim
PROPERTIES
  ReadReturns
  ImplementsByteStream
CHECK_DEADLOCK FALSE
