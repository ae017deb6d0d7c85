SPECIFICATION GeneratorSpec
CONSTANTS
  Names = {a1, a2, a3}
  Pairs = {p1, p2, p3}
  Tops = {uno}
  Variants = {atmega8, atmega328}
  Base = Base
  Options = {mcu, other}
  Fields = {mcu}
  Values = {v1, v2}
  None = None
  Copies = {1, 2}
  OptionFiles <- MCOptionFiles
  mega = mega
  nano_old = nano_old
  nano_new = nano_new
  Boards <- MCBoards
  FileNames <- MCFileNames
  BoardName <- MCBoardName
  Archs = {m328p, m2560}
  NoBoard = NoBoard
  MaxRuns = 2
INVARIANT MapsAreSupersets
INVARIANT VariantsInherit
INVARIANT ReadsOwnMacros
INVARIANT DoneMeansFresh
INVARIANT IncludesExist
PROPERTY ManualChangesSurvive
CHECK_DEADLOCK FALSE
