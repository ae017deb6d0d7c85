------------------------------ MODULE MCApiRuns ------------------------------
(* Three boards, two of which getBoardName gives the same name.              *)
EXTENDS ApiRuns

CONSTANTS mega, nano_old, nano_new

MCBoards == {mega, nano_old, nano_new}
MCFileNames == {"mega", "nano"}
MCBoardName == [b \in MCBoards |-> IF b = mega THEN "mega" ELSE "nano"]
=============================================================================
