SPECIFICATION Spec
CONSTANTS
  mega = mega
  nano_old = nano_old
  nano_new = nano_new
  Boards <- MCBoards
  FileNames <- MCFileNames
  BoardName <- MCBoardName
  Archs = {m328p, m2560}
  NoBoard = NoBoard
  MaxRuns = 2
INVARIANT ParentAliasesNamespace
CHECK_DEADLOCK FALSE
