\* Two connections that play one character, three items, small managers.
CONSTANTS
  c1 = c1
  c2 = c2
  k1 = k1
  i1 = i1
  i2 = i2
  i3 = i3
  NULL = NULL
  Clients = {c1, c2}
  Chars = {k1}
  Items = {i1, i2, i3}
  InvSlots = 2
  EqSlots = 1
  Char <- MCChar
  Length <- MCLength
  EquipSlot <- MCEquipSlot
SPECIFICATION Spec
INVARIANT ManagersExact
INVARIANT OnePlaceEach
 
CHECK_DEADLOCK FALSE
