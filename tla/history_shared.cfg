SPECIFICATION Spec
CONSTANTS
  a = a
  b = b
  c = c
  p1 = p1
  p2 = p2
  p3 = p3
  html = html
  plain = plain
  secret = secret
  Items = {a, b}
  Parts = {p1, p2, p3}
  PartsOf <- SharedParts
  Mimes = {html, plain, secret}
  MimesOf <- ItemMimes
  IgnoreList = {secret}
  Rejected = {}
  NoItem = NoItem
  MaxTime = 4
  MaxRecent = 1
  MaxRestarts = 0
INVARIANT ItemsCanBeCopied
CHECK_DEADLOCK FALSE
