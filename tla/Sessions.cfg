CONSTANTS
  Emails = {ann, bob}
  Passwords = {p1, p2}
  Tokens = {t1, t2}
  Browsers = {b}
  Requests = {r1, r2}
  None = None
  TTL = 3
  ExtendAfter = 1
SPECIFICATION Spec
SYMMETRY Symmetry
INVARIANTS
  TypeOK
  OldPasswordsDie
  CookiesRunOut
PROPERTIES
  OnlyTheOwnerChanges
  GoneForGood
  LiveSessionsAreKept
