CONSTANTS
  Emails = {ann, bob}
  Passwords = {p1}
  Tokens = {t1}
  Browsers = {b}
  Requests = {r1, r2}
  None = None
  TTL = 3
  ExtendAfter = 1
SPECIFICATION Spec
SYMMETRY Symmetry
INVARIANT SetupHappensOnce
