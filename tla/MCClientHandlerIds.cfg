CONSTANTS
  MaxInt = 63
  c1 = c1
  c2 = c2
  Conn = {c1, c2}
  Script <- MCScript
  Replies <- MCReplies
  Garbage = {0}
SPECIFICATION Spec
INVARIANT UniqueIds
