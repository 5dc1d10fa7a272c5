SPECIFICATION SecsSpec
CONSTANT MaxSeconds = 11000
INVARIANTS
  ReadsBack
  ConversionsAgree
CHECK_DEADLOCK FALSE
