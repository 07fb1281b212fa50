CONSTANTS
  MaxInt = 63
  MaxAddress = 2
  Answer <- MCAnswer
SPECIFICATION FairSpec
INVARIANT TypeOK
INVARIANT ResponseIsWhole
INVARIANT OnlyMalformedIsRefused
PROPERTY ImplementsTheCall
PROPERTY AnswerEndsTheCall
