CONSTANTS
  none = none
  bad_date = bad_date
  v1 = v1
  etag = etag
  u1 = u1
  u2 = u2
  n1 = n1
  n2 = n2
  n3 = n3
  n4 = n4
  p = p
  q = q
  NoHeader = none
  BadDate = bad_date
  Body = {p, q}
  Validator = {etag}
  VaryValue = {v1}
  Url = {u1, u2}
  Node = {n1, n2, n3, n4}
  Response <- MCResponse
  Capacity = 3
  Day = 2
  MaxTime = 3
SPECIFICATION Spec
PROPERTY EvictsLeastRecent
SYMMETRY Symmetry
