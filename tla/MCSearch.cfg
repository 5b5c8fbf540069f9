CONSTANTS
  Items = {i1, i2, i3}
  NoId = NoId
  Scores = {1, 2}
  FlatShape <- OneFlatCell
  ClusterShape <- TwoClusters
  TopKs = {0, 1, 2, 7}
  MaxDrops = 1
  ByteBits = 2
  MaxInt = 7
  MaxInt32 = 2
SPECIFICATION Spec
INVARIANTS
  TypeOK
  AnswerIsRanking
  MatchesArePlaced
  RankedRowsAreLive
  OneRoundTrip
SYMMETRY Symmetry
CHECK_DEADLOCK FALSE
