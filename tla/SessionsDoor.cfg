CONSTANTS
  Emails = {ann}
  Passwords = {p1, p2}
  Tokens = {t1, t2}
  Browsers = {b}
  Requests = {r1, r2}
  None = None
  TTL = 3
  ExtendAfter = 1
SPECIFICATION Spec
SYMMETRY Symmetry
PROPERTY ImplementsAccessControl
