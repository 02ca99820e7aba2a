\* Chunks of up to two bytes, three bytes under way, read by one or two bytes at a time.
SPECIFICATION FairSpec
CONSTANTS
  a = a
  b = b
  Byte = {a, b}
  MaxChunk = 2
  MaxRead = 2
  MaxSent = 3
  MaxWritten = 2
  EmptyMessages = FALSE
CHECK_DEADLOCK FALSE
INVARIANTS
  TypeOK
  EndIsTrue
PROPERTIES
  ImplementsByteStreams
  EverythingArrives
