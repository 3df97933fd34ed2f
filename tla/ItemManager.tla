---------------------------- MODULE ItemManager ----------------------------
(***************************************************************************)
(* The items of the players of a game server: CItemManager                  *)
(* (Common/CItems.hpp) and the handlers of CGameServer that move items       *)
(* between a player's two managers, Inventory and Equipment, load them when *)
(* the player enters and dump them into the database when he leaves.        *)
(*                                                                         *)
(* A manager is an array of pointers; an item notes its slot and the type of *)
(* its manager in itself, and that note, not the place in the array, is what *)
(* a dump carries.  Each handler that moves an item first takes items out of *)
(* the managers and then puts them in: the worker threads of other players   *)
(* read the equipment in between, and hand is what is in neither manager.   *)
(***************************************************************************)
EXTENDS Integers, FiniteSets, FiniteSetsExt, Functions

CONSTANTS
  Clients, Chars, Char,  \* connections, characters, connection -> character
  Items, NULL,           \* the items there may be; the null pointer
  InvSlots, EqSlots,     \* MAXINVSLOT, MAXEQSLOT
  Length,                \* item -> SItemBase::Length
  EquipSlot              \* item -> the column of ItemInfo.shn

ASSUME NullIsNoItem == NULL \notin Items
ASSUME CharOfClient == Char \in [Clients -> Chars]
ASSUME SlotsAreBytes == InvSlots \in 1..254 /\ EqSlots \in 1..254
ASSUME LengthIsByte == Length \in [Items -> 0..255]
ASSUME EquipTable == EquipSlot \in [Items -> 0..(EqSlots - 1)]

VARIABLES
  playing, \* the clients whose Id is not -1
  inv, eq, \* client -> its managers
  note,    \* client -> the Slot and the Type in each of its items
  hand,    \* client -> the items that its handler is moving
  saved    \* character -> the two dumps in the database

vars == <<playing, inv, eq, note, hand, saved>>
-----------------------------------------------------------------------------
(* CItemManager                                                             *)

New(slots) == [slots |-> slots, count |-> 0, type |-> 0, bytes |-> 0,
               at |-> [s \in 0..(slots - 1) |-> NULL]]

Filled(m) == {s \in DOMAIN m.at : m.at[s] # NULL}
Contents(m) == {m.at[s] : s \in Filled(m)}

\* Bytes of a manager's dump that are items: of each its length, and so many more.
BytesIn(at) == UNION {{s} \X (0..Length[at[s]]) : s \in {t \in DOMAIN at : at[t] # NULL}}
Bytes(at) == Cardinality(BytesIn(at))

\* A dump has the items in the order of the array, with what they note.
DumpItems(m, n) == [count |-> m.count, type |-> m.type, rows |-> m.at,
                    note |-> [s \in Filled(m) |-> n[m.at[s]]]]

\* LoadItemDump reads as many items as the dump says.
RowsRead(d) ==
  {s \in DOMAIN d.note :
     Cardinality({r \in DOMAIN d.note : r < s}) < d.count}

\* Each goes where it says it was; of two in one place the later one stays.
Placed(d, s) == {r \in RowsRead(d) : d.note[r].slot = s}

LoadItemDump(m, d) ==
  LET at == [s \in DOMAIN m.at |-> IF Placed(d, s) = {} THEN m.at[s]
                                   ELSE d.rows[Max(Placed(d, s))]]
  IN  IF m.count > 0 THEN m
      ELSE [m EXCEPT !.count = d.count, !.type = d.type, !.at = at,
                     !.bytes = Bytes([r \in RowsRead(d) |-> d.rows[r]])]

\* What the loaded items note.
NotesRead(d) == [i \in {d.rows[r] : r \in RowsRead(d)} |->
                   d.note[CHOOSE r \in RowsRead(d) : d.rows[r] = i]]

Takes(m, s) == ~(s > m.slots) /\ m.at[s] = NULL

SetItem(m, i, s) ==
  IF Takes(m, s) THEN [m EXCEPT !.at[s] = i, !.count = @ + 1,
                                !.bytes = @ + Length[i] + 1]
  ELSE m

\* What item i notes once SetItem has been called.
Noted(n, m, i, s) ==
  IF Takes(m, s) THEN [n EXCEPT ![i] = [slot |-> s, type |-> m.type]] ELSE n

\* Mutant: _DataLength stays.
RemoveItem_LengthKept(m, s) ==
  IF s > m.slots \/ m.at[s] = NULL THEN m
  ELSE [m EXCEPT !.at[s] = NULL, !.count = @ - 1]

\* RemoveItem(s, false): the item stays in memory.
RemoveItem(m, s) ==
  IF s > m.slots \/ m.at[s] = NULL THEN m
  ELSE [m EXCEPT !.at[s] = NULL, !.count = @ - 1, !.bytes = @ - (Length[m.at[s]] + 1)]

SwapItems(m, a, b) == [m EXCEPT !.at[a] = m.at[b], !.at[b] = m.at[a]]

\* Mutant: the items keep the slots they had.
NotedBySwap_Kept(n, m, a, b) == n

NotedBySwap(n, m, a, b) ==
  [i \in DOMAIN n |-> IF i = m.at[a] THEN [n[i] EXCEPT !.slot = b]
                      ELSE IF i = m.at[b] THEN [n[i] EXCEPT !.slot = a]
                      ELSE n[i]]

\* GetNextSlot, made a byte by the call.
NextSlot(m) == IF Filled(m) = DOMAIN m.at THEN (-1) % 256
               ELSE Min(DOMAIN m.at \ Filled(m))
-----------------------------------------------------------------------------
(* The players                                                              *)

Nothing == [toEq |-> NULL, eqSlot |-> 0, toInv |-> NULL, invSlot |-> 0]
Blank == [i \in Items |-> [slot |-> 0, type |-> 0]]

\* 0x0009 and 0x0008, with which a character is created.
EmptyDump(type, slots) == [count |-> 0, type |-> type, rows |-> New(slots).at,
                           note |-> [s \in {} |-> Blank]]

Init == /\ playing = {}
        /\ inv = [c \in Clients |-> New(InvSlots)]
        /\ eq = [c \in Clients |-> New(EqSlots)]
        /\ note = [c \in Clients |-> Blank]
        /\ hand = [c \in Clients |-> Nothing]
        /\ saved = [k \in Chars |-> [inv |-> EmptyDump(9, InvSlots),
                                     eq |-> EmptyDump(8, EqSlots)]]

HandItems(c) == {hand[c].toEq, hand[c].toInv} \ {NULL}
HeldItems(c) == Contents(inv[c]) \cup Contents(eq[c]) \cup HandItems(c)

Rows(d) == {d.rows[r] : r \in RowsRead(d)}
SavedItems(k) == Rows(saved[k].inv) \cup Rows(saved[k].eq)

\* The worker turns to the next packet of the client.
Ready(c) == c \in playing /\ hand[c] = Nothing

\* pakUserLogin, once the user has been let in: two new managers, and the dumps
\* of the character loaded into them.
UserLogin(c) ==
  /\ c \notin playing
  /\ playing' = playing \cup {c}
  /\ LET d == saved[Char[c]]
         n == [i \in Items |-> CASE i \in Rows(d.inv) -> NotesRead(d.inv)[i]
                               [] i \in Rows(d.eq) \ Rows(d.inv) -> NotesRead(d.eq)[i]
                               [] OTHER -> Blank[i]]
     IN  /\ inv' = [inv EXCEPT ![c] = LoadItemDump(New(InvSlots), d.inv)]
         /\ eq' = [eq EXCEPT ![c] = LoadItemDump(New(EqSlots), d.eq)]
         /\ note' = [note EXCEPT ![c] = n]
  /\ UNCHANGED <<hand, saved>>

\* pakMoveInvItem; the client names two slots of the inventory.
MoveInvItem(c) ==
  /\ Ready(c)
  /\ \E a, b \in DOMAIN inv[c].at :
       /\ inv' = [inv EXCEPT ![c] = SwapItems(@, a, b)]
       /\ note' = [note EXCEPT ![c] = NotedBySwap(@, inv[c], a, b)]
  /\ UNCHANGED <<playing, eq, hand, saved>>

\* Mutant: the item stays in the inventory.
TakeToEquip_NotRemoved(c, s, e) ==
  /\ inv[c].at[s] # NULL
  /\ hand' = [hand EXCEPT ![c] = [toEq |-> inv[c].at[s], eqSlot |-> e,
                                  toInv |-> eq[c].at[e], invSlot |-> s]]
  /\ eq' = [eq EXCEPT ![c] = RemoveItem(@, e)]
  /\ UNCHANGED <<playing, inv, note, saved>>

\* The two ways to equip, up to the calls of SetItem: the item leaves the
\* inventory and the one whose place it takes the equipment.
TakeToEquip(c, s, e) ==
  /\ inv[c].at[s] # NULL
  /\ hand' = [hand EXCEPT ![c] = [toEq |-> inv[c].at[s], eqSlot |-> e,
                                  toInv |-> eq[c].at[e], invSlot |-> s]]
  /\ inv' = [inv EXCEPT ![c] = RemoveItem(@, s)]
  /\ eq' = [eq EXCEPT ![c] = RemoveItem(@, e)]
  /\ UNCHANGED <<playing, note, saved>>

\* pakEquipInvItem: the slot of ItemInfo.shn.
EquipInvItem(c) ==
  /\ Ready(c)
  /\ \E s \in Filled(inv[c]) : TakeToEquip(c, s, EquipSlot[inv[c].at[s]])

\* pakEquipInvItemSlot: the slot that the client asks for.
EquipInvItemSlot(c) ==
  /\ Ready(c)
  /\ \E s \in DOMAIN inv[c].at, e \in DOMAIN eq[c].at : TakeToEquip(c, s, e)

\* pakUnequipInvItem, up to SetItem: an item goes to an empty slot.
UnequipInvItem(c) ==
  /\ Ready(c)
  /\ \E e \in DOMAIN eq[c].at, s \in DOMAIN inv[c].at :
       /\ eq[c].at[e] # NULL /\ inv[c].at[s] = NULL
       /\ hand' = [hand EXCEPT ![c] = [Nothing EXCEPT !.toInv = eq[c].at[e], !.invSlot = s]]
       /\ eq' = [eq EXCEPT ![c] = RemoveItem(@, e)]
  /\ UNCHANGED <<playing, inv, note, saved>>

\* The calls of SetItem that end these handlers; what they return is not used.
PutItems(c) ==
  /\ hand[c] # Nothing
  /\ LET h == hand[c]
         toEq(n) == IF h.toEq = NULL THEN n ELSE Noted(n, eq[c], h.toEq, h.eqSlot)
         toInv(n) == IF h.toInv = NULL THEN n ELSE Noted(n, inv[c], h.toInv, h.invSlot)
     IN  /\ eq' = [eq EXCEPT ![c] = IF h.toEq = NULL THEN @ ELSE SetItem(@, h.toEq, h.eqSlot)]
         /\ inv' = [inv EXCEPT ![c] = IF h.toInv = NULL THEN @
                                      ELSE SetItem(@, h.toInv, h.invSlot)]
         /\ note' = [note EXCEPT ![c] = toInv(toEq(@))]
  /\ hand' = [hand EXCEPT ![c] = Nothing]
  /\ UNCHANGED <<playing, saved>>

\* "&item": a new item goes to the next free slot, or nowhere.  Which one it is
\* called is of no account, as long as it is none that anybody has.
CreateItem(c) ==
  /\ Ready(c)
  /\ \E i \in Items : LET s == NextSlot(inv[c]) IN
       /\ \A d \in Clients : i \notin HeldItems(d)
       /\ \A k \in Chars : i \notin SavedItems(k)
       /\ inv' = [inv EXCEPT ![c] = SetItem(@, i, s)]
       /\ note' = [note EXCEPT ![c] = Noted(@, inv[c], i, s)]
  /\ UNCHANGED <<playing, eq, hand, saved>>

\* OnClientDisconnect: both dumps are saved and the managers deleted.
ClientDisconnect(c) ==
  /\ Ready(c)
  /\ saved' = [saved EXCEPT ![Char[c]] = [inv |-> DumpItems(inv[c], note[c]),
                                          eq |-> DumpItems(eq[c], note[c])]]
  /\ playing' = playing \ {c}
  /\ inv' = [inv EXCEPT ![c] = New(InvSlots)]
  /\ eq' = [eq EXCEPT ![c] = New(EqSlots)]
  /\ note' = [note EXCEPT ![c] = Blank]
  /\ UNCHANGED hand

Handler(c) == \/ UserLogin(c) \/ MoveInvItem(c) \/ EquipInvItem(c)
              \/ EquipInvItemSlot(c) \/ UnequipInvItem(c) \/ PutItems(c)
              \/ CreateItem(c) \/ ClientDisconnect(c)

Next == \E c \in Clients : Handler(c)

Spec == Init /\ [][Next]_vars
-----------------------------------------------------------------------------
(* Properties                                                               *)

Managers(n) == [slots : {n}, count : Int, type : {0, 8, 9}, bytes : Int,
                at : [0..(n - 1) -> Items \cup {NULL}]]
Notes == [Items -> [slot : 0..255, type : {0, 8, 9}]]
Hands == [toEq : Items \cup {NULL}, eqSlot : 0..(EqSlots - 1),
          toInv : Items \cup {NULL}, invSlot : 0..(InvSlots - 1)]

\* Every variable keeps its type, and only those who play have anything.
TypeOK == /\ playing \subseteq Clients
          /\ inv \in [Clients -> Managers(InvSlots)]
          /\ eq \in [Clients -> Managers(EqSlots)]
          /\ note \in [Clients -> Notes]
          /\ hand \in [Clients -> Hands]
          /\ \A c \in Clients \ playing : HeldItems(c) = {}

\* A manager knows what it has: _ItemCount and _DataLength, which size the
\* buffer that DumpItems fills, are those of the array, and every item notes the
\* slot and the manager it is in (CItems.hpp:246-261, 303-343).
Exact(m, n) == /\ m.count = Cardinality(Filled(m))
               /\ m.bytes = Bytes(m.at)
               /\ \A s \in Filled(m) : n[m.at[s]] = [slot |-> s, type |-> m.type]
ManagersExact == \A c \in playing : Exact(inv[c], note[c]) /\ Exact(eq[c], note[c])

\* An item is in one place: one slot of one manager, or on its way.
OnePlaceEach ==
  \A c \in Clients :
    /\ IsInjective(Restrict(inv[c].at, Filled(inv[c])))
    /\ IsInjective(Restrict(eq[c].at, Filled(eq[c])))
    /\ \A X, Y \in {Contents(inv[c]), Contents(eq[c]), HandItems(c)} :
         X # Y => X \cap Y = {}
    /\ hand[c].toEq = hand[c].toInv => hand[c] = Nothing

\* Moving, equipping, dumping and loading lose no item and double none: to the
\* player they are as a bag that is taken out of the database and put back.
Held == INSTANCE Possession WITH
          held <- [c \in Clients |-> HeldItems(c)],
          saved <- [k \in Chars |-> SavedItems(k)]
ImplementsPossession == Held!Spec
=============================================================================
