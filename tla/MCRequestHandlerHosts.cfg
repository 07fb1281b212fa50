CONSTANTS
  t1 = t1
  t2 = t2
  h1 = h1
  h2 = h2
  u1 = u1
  u2 = u2
  n1 = n1
  n2 = n2
  none = none
  nil = nil
  bad_date = bad_date
  vx = vx
  e1 = e1
  e2 = e2
  made_up = made_up
  posted = posted
  NoHeader = none
  BadDate = bad_date
  Body <- MCBody
  Validator = {e1, e2}
  VaryValue = {vx}
  Thread = {t1, t2}
  Host = {h1, h2}
  Url = {u1, u2}
  Node = {n1, n2}
  Capacity = 1
  Day = 1
  MaxTime = 1
  MaxVersion = 2
  Page <- MCPage
  PostPage <- MCPostPage
  Changing <- MCChanging
  Request <- MCRequest
  ErrorBody = made_up
  NoResponse = nil
SPECIFICATION Spec
INVARIANT AnswersComeFromTheHost
