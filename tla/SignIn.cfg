\* Two players, two accounts in order and one that is banned, three servers.
CONSTANTS
  Users = {a, b, c}
  Banned = {c}
  Tokens = {t1, t2}
  Names = {n}
  Slots = {0}
  MaxId = 2
  Sessions = {p1, p2}
  Players = {p1, p2}
  Workers = {w1}
  LoginWorkers = {l1}
  Worlds = {v}
  Unsafe = {}
  MaxChars = 1
  Games = {g}
  MaxLogins = 2
  FirstWord <- MCFirstWord
SYMMETRY MCSymmetry
SPECIFICATION SignSpec
INVARIANT SameAccount
INVARIANT BannedStayOut
INVARIANT TokenStored
CHECK_DEADLOCK FALSE
