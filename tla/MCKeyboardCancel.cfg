SPECIFICATION Spec
CONSTANTS
  t = t
  u = u
  p = p
  Typist = {}
  Presser = {p}
  Text <- KeyText
  Rounds <- KeyRounds
  UserKey = "u"
  BufMax = 2
  Faulty = FALSE
  MaxKeys = 0
  None = None
INVARIANT
  PressReleases
