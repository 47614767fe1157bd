SPECIFICATION MCSpec
CONSTANTS
  t = t
  u = u
  p = p
  Typist = {t, u}
  Presser = {p}
  Text <- MCText
  Rounds <- MCRounds
  UserKey = "u"
  BufMax = 2
  Faulty = TRUE
  MaxKeys = 1
  None = None
INVARIANTS
  TypeOK
  Delivered
  NothingExtra
  PressRestores
PROPERTY
  CallsReturn
