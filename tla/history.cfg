SPECIFICATION Spec
CONSTANTS
  a = a
  b = b
  c = c
  p1 = p1
  p2 = p2
  p3 = p3
  html = html
  plain = plain
  secret = secret
  Items = {a, b, c}
  Parts = {p1, p2, p3}
  PartsOf <- SeparateParts
  Mimes = {html, plain, secret}
  MimesOf <- ItemMimes
  IgnoreList = {secret}
  Rejected = {}
  NoItem = NoItem
  MaxTime = 5
  MaxRecent = 2
  MaxRestarts = 2
INVARIANTS TypeOK ItemsAreComplete  
CHECK_DEADLOCK FALSE
