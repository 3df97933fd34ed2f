\* Two clients on one or two worker threads, a game server that may come and go; the
\* limit of characters is one instead of four.
CONSTANTS
  Users = {a, b}
  Banned = {}
  Tokens = {ta, tb}
  Names = {n, m}
  Slots = {0}
  MaxId = 3
  Sessions = {s1, s2}
  Workers = {w1, w2}
  Unsafe = {}
  MaxChars = 1
  Games = {g}
  MaxLogins = 2
SYMMETRY MCSymmetry
SPECIFICATION Spec
INVARIANT CharLimit
INVARIANT CreatedTold
INVARIANT SavesToOwner
CHECK_DEADLOCK FALSE
