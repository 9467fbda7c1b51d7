SPECIFICATION FairSpec
CONSTANTS
  Sizes <- MC_Sizes
  MaxInt = 6
  Numbers <- MC_Numbers
  Pieces <- MC_Pieces
INVARIANTS AnswerExact AnswerInv
PROPERTY PlaysThrough
CHECK_DEADLOCK FALSE
