SPECIFICATION FairSpec
CONSTANTS
  Job <- Jobs
  Stream <- TwoStreams
  MaxOut = 1
  WaitOk <- EitherWay
INVARIANTS RunReturnsClean ReportProtocol ResultIsTrue PostsReversed OutputsAttributed
PROPERTY JobEnds
