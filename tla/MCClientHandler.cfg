CONSTANTS
  MaxInt = 63
  c1 = c1
  c2 = c2
  Conn = {c1, c2}
  Script <- MCScript
  Replies <- MCReplies
  Garbage = {0, 1}
SPECIFICATION FairSpec
INVARIANT TypeOK
INVARIANT RequestsAreTheMessages
INVARIANT NothingIsLost
INVARIANT RelaysInOrder
INVARIANT NothingAfterRejection
INVARIANT NoRequestLeftBehind
PROPERTY UsesTheTunnel
PROPERTY ConnectionsEnd
