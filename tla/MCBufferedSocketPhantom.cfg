SPECIFICATION Spec
CONSTANTS
  Byte = {1, 2}
  OutSizes = {0, 1, 3}
  Delims <- CRLF
  MaxSent = 3
  Tls = TRUE
  MaxPhantom = 2
INVARIANT ReturnsReceivedBytes
CHECK_DEADLOCK FALSE
