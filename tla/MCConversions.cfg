SPECIFICATION Spec
CONSTANTS
  NaN = NaN
  Text <- Texts
  LowerOf <- Lower
  NumberOf <- Parsable
  TextOf <- Digit
  Within <- Inside
  Context <- Known
  Word = 268435456
  Trees <- SmallTrees
  Tokens <- TokenKinds
  MaxTokens = 6
  Jobs <- StepPairs
  Responses <- ServerSays
  Requests <- RunnerSays
INVARIANTS ParserFollowsGrammar EvaluationEnds EnvSurvives ResponseUnderstood RequestUnderstood
CHECK_DEADLOCK FALSE
