\* Words whose children sit at base 0.
CONSTANTS
  Code = {4, 5, 6}
  MaxCode = 8
  BlockSize = 8
  Increase = 1
  MaxThrows = 2
  Dictionaries <- AllWords
  Texts <- AllTexts
SPECIFICATION FairSpec
INVARIANT SearchFindsEveryWord
\* Undefined behaviour ends the behaviours that reach it.
CHECK_DEADLOCK FALSE
