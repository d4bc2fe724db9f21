SPECIFICATION Spec
CONSTANTS
  Char <- MCChar
  Separators <- MCSeparators
  Bound <- MCBound
  Bodies = {0, 2}
  Names <- MCNames
  Sizes = {0, 2}
  BufferSize = 7
  ChunkSize = 2
  Messages <- MCMessages
  MaxChanges = 1
  MaxShort = 1
INVARIANTS
  FindsFirst
  ParsedAsWritten
  ViewsAreIntact
  ArgsAsDocumented
  PresentFileIsServed
  ReadExact
  FileInOrder
  AnswerIsFramed
  NoFileIsLeftOpen
PROPERTIES
  RequestEnds
CHECK_DEADLOCK FALSE
