SPECIFICATION Spec
CONSTANTS
  SizeMax = 63
  MaxSize = 20
  Outside = 255
  ClientPackets <- OneByteBody
  Numbers <- SomeNumbers
  Bits <- ManyBits
  Flags = {0, 2}
  Texts <- SomeTexts
  Words <- SomeWords
  Opcodes <- Ping
  Positions = {0, 5, 7, 63}
  Formats <- SomeFormats
  Beyond = {255}
  MaxCalls = 4
  MaxItems = 3
INVARIANTS TypeOK ChangedIsSound ReadsBack
PROPERTIES WritesInPlace ReadsInside
CHECK_DEADLOCK FALSE
