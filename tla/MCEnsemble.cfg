SPECIFICATION FairSpec
CONSTANTS
  p = p
  q = q
  addr = addr
  haiku = haiku
  opus = opus
  NumMembers = 3
  ModelOf <- MCModelOf
  Pids = {p, q}
  Marks = {addr}
  None = None
  Replies <- MCReplies
CHECK_DEADLOCK FALSE
INVARIANTS
  TypeOK
  ReportOfAnswers
  LearnedFromAnswer
PROPERTIES
  KeepsSurvey
  EnsembleEnds
