\* Pieces of two characters; files that end anywhere and reads that fail.
CONSTANTS
  stat = stat
  number = number
  empty = empty
  BufferSize = 2
  File = {stat, number, empty}
  Content <- MCContent
  MaxString = 3
  MaxErrors = 2
  MaxBefore = 4
  MaxCalls = 40
  meminfo = stat
  Layout <- MCLayout
SPECIFICATION FairStartSpec
INVARIANTS
  TypeOK
  WholeWord
  LinesNoted
PROPERTIES
  StreamSpec
  CallsEnd
  StartEnds
CHECK_DEADLOCK FALSE
