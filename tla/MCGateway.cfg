SPECIFICATION FairSpec
CONSTANTS
  c1 = c1
  c2 = c2
  k1 = k1
  Posts = {c1, c2}
  Keys = {k1}
  KeyOf <- OneKey
  Requests <- SameOrNot
  Stages <- ShortSaga
  MaxQueued = 2
  MaxTimeouts = 1
  MaxLosses = 1
  Absent = Absent
INVARIANTS
  TypeOK
  OutboxTellsTheTruth
  PublicIsTrue
  TheScreenTellsTheOutcome
PROPERTIES
  OnlyLatePatchesGoBack
  NewsArrives
