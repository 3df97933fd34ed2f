-------------------------- MODULE ItemManagerProofs --------------------------
(***************************************************************************)
(* Proofs that no item is lost or doubled, for any numbers of connections,   *)
(* characters, items and slots: an item is in one place (OnePlaceEach), the  *)
(* managers count what they have (ManagersExact), and to the player his      *)
(* items are a bag (Possession).                                            *)
(*                                                                         *)
(* All rest on what a dump carries.  It is read as many items as it says,  *)
(* and each goes where it notes that it is: nothing is lost between two     *)
(* visits only if every item of a manager notes its place and the count is  *)
(* exact, which each handler must restore.  Good says so of a manager,      *)
(* DumpOK of a dump.                                                        *)
(***************************************************************************)
EXTENDS ItemManager, FiniteSetTheorems, WellFoundedInduction, TLAPS

Sizes == 1..254
Places(n) == 0..(n - 1)
Noting == [slot : 0..255, type : {0, 8, 9}]

\* A manager of n slots, whatever it counts.
IsManager(m, n) ==
  /\ m = [slots |-> n, count |-> m.count, type |-> m.type, bytes |-> m.bytes, at |-> m.at]
  /\ m.count \in Nat /\ m.at \in [Places(n) -> Items \cup {NULL}]

\* A manager of n slots and type ty, of the items that k notes.
Good(m, n, ty, k) ==
  /\ IsManager(m, n) /\ m.type = ty
  /\ m.count = Cardinality(Filled(m)) /\ m.bytes = Bytes(m.at)
  /\ \A s \in Filled(m) : k[m.at[s]] = [slot |-> s, type |-> ty]

DumpOK(d, n, ty) ==
  /\ d.type = ty /\ d.rows \in [Places(n) -> Items \cup {NULL}]
  /\ d.note = [s \in {p \in Places(n) : d.rows[p] # NULL} |-> [slot |-> s, type |-> ty]]
  /\ d.count = Cardinality(DOMAIN d.note)
  /\ \A s, t \in DOMAIN d.note : d.rows[s] = d.rows[t] => s = t

\* The items in a handler's hands are in neither manager, and their places free.
HandOK(h, i, e) ==
  /\ h \in Hands
  /\ {h.toEq, h.toInv} \cap (Contents(i) \cup Contents(e)) = {}
  /\ h.toEq # NULL => e.at[h.eqSlot] = NULL
  /\ h.toInv # NULL => i.at[h.invSlot] = NULL
  /\ h.toEq = h.toInv => h = Nothing

\* A player in the game: his managers, what his items note, and his hands.
PlayerOK(i, e, k, h) ==
  /\ Good(i, InvSlots, 9, k) /\ Good(e, EqSlots, 8, k)
  /\ k \in [Items -> Noting]
  /\ HandOK(h, i, e)

Has(i, e, h) == Contents(i) \cup Contents(e) \cup ({h.toEq, h.toInv} \ {NULL})

ClientOK(c) ==
  IF c \in playing THEN PlayerOK(inv[c], eq[c], note[c], hand[c])
  ELSE inv[c] = New(InvSlots) /\ eq[c] = New(EqSlots) /\ hand[c] = Nothing

SavedOK(k) == /\ DumpOK(saved[k].inv, InvSlots, 9) /\ DumpOK(saved[k].eq, EqSlots, 8)
              /\ Rows(saved[k].inv) \cap Rows(saved[k].eq) = {}

Tables == /\ inv = [c \in Clients |-> inv[c]] /\ eq = [c \in Clients |-> eq[c]]
          /\ note = [c \in Clients |-> note[c]] /\ hand = [c \in Clients |-> hand[c]]
          /\ saved = [k \in Chars |-> saved[k]]

ItemInv == /\ Tables
           /\ \A c \in Clients : ClientOK(c)
           /\ \A k \in Chars : SavedOK(k)
-----------------------------------------------------------------------------
(* Managers                                                                 *)

LEMMA SizeFacts == /\ InvSlots \in Sizes /\ EqSlots \in Sizes
                   /\ \A n \in Sizes : /\ Places(n) \subseteq 0..255
                                       /\ Places(n) \subseteq Nat /\ 0 \in Places(n)
                   /\ NULL \notin Items
  <1>1. InvSlots \in Sizes /\ EqSlots \in Sizes
    BY SlotsAreBytes DEF Sizes
  <1>2. \A n \in Sizes : /\ Places(n) \subseteq 0..255
                        /\ Places(n) \subseteq Nat /\ 0 \in Places(n)
    BY DEF Sizes, Places
  <1> QED BY <1>1, <1>2, NullIsNoItem

LEMMA PlacesFinite == \A n \in Sizes : IsFiniteSet(Places(n))
  <1> SUFFICES ASSUME NEW n \in Sizes PROVE IsFiniteSet(Places(n))
    OBVIOUS
  <1>1. 0 \in Int /\ n - 1 \in Int
    BY DEF Sizes
  <1> QED BY <1>1, FS_Interval DEF Places

LEMMA ManagerFacts ==
  ASSUME NEW n \in Sizes, NEW m, IsManager(m, n)
  PROVE  /\ m.slots = n /\ m.count \in Nat /\ m.at \in [Places(n) -> Items \cup {NULL}]
         /\ Filled(m) \subseteq Places(n) /\ IsFiniteSet(Filled(m))
         /\ Filled(m) = {s \in Places(n) : m.at[s] # NULL}
         /\ Contents(m) \subseteq Items
  <1>1. m.slots = n /\ m.count \in Nat /\ m.at \in [Places(n) -> Items \cup {NULL}]
    <2>1. m = [slots |-> n, count |-> m.count, type |-> m.type, bytes |-> m.bytes, at |-> m.at]
      BY DEF IsManager
    <2> QED BY <2>1 DEF IsManager
  <1>2. Filled(m) = {s \in Places(n) : m.at[s] # NULL}
    BY <1>1 DEF Filled
  <1>3. IsFiniteSet(Places(n))
    BY PlacesFinite
  <1>4. IsFiniteSet(Filled(m))
    BY <1>2, <1>3, FS_Subset
  <1> QED BY <1>1, <1>2, <1>4 DEF Contents

\* The place that an item notes is its own, so that it is in one only.
LEMMA OneSlotEach ==
  ASSUME NEW n, NEW ty, NEW m, NEW k, Good(m, n, ty, k),
         NEW s \in Filled(m), NEW t \in Filled(m), m.at[s] = m.at[t]
  PROVE  s = t
  <1>1. [slot |-> s, type |-> ty] = [slot |-> t, type |-> ty]
    BY DEF Good
  <1>2. [slot |-> s, type |-> ty].slot = [slot |-> t, type |-> ty].slot
    BY <1>1
  <1> QED BY <1>2

LEMMA ApartByType ==
  ASSUME NEW m, NEW n, NEW e, NEW l, NEW k, Good(m, n, 9, k), Good(e, l, 8, k)
  PROVE  Contents(m) \cap Contents(e) = {}
  <1> SUFFICES ASSUME NEW s \in Filled(m), NEW t \in Filled(e), m.at[s] = e.at[t]
               PROVE  FALSE
    BY DEF Contents
  <1>1. [slot |-> s, type |-> 9] = [slot |-> t, type |-> 8]
    BY DEF Good
  <1>2. [slot |-> s, type |-> 9].type = [slot |-> t, type |-> 8].type
    BY <1>1
  <1> QED BY <1>2

LEMMA GoodElsewhere ==
  ASSUME NEW n, NEW ty, NEW m, NEW k, NEW l, Good(m, n, ty, k),
         \A i \in Contents(m) : l[i] = k[i]
  PROVE  Good(m, n, ty, l)
  BY DEF Good, Contents

\* What SetItem and RemoveItem assign.
LEMMA Assigned ==
  ASSUME NEW n, NEW c, NEW ty, NEW b, NEW p, NEW c2, NEW b2, NEW p2
  PROVE  [[slots |-> n, count |-> c, type |-> ty, bytes |-> b, at |-> p]
             EXCEPT !.at = p2, !.count = c2, !.bytes = b2]
           = [slots |-> n, count |-> c2, type |-> ty, bytes |-> b2, at |-> p2]
  <1> DEFINE m == [slots |-> n, count |-> c, type |-> ty, bytes |-> b, at |-> p]
             o == [f \in {"slots", "count", "type", "bytes", "at"} |->
                     IF f = "at" THEN p2 ELSE IF f = "count" THEN c2
                     ELSE IF f = "bytes" THEN b2 ELSE m[f]]
  <1>1. [m EXCEPT !.at = p2, !.count = c2, !.bytes = b2] = o
    OBVIOUS
  <1>2. o = [slots |-> n, count |-> c2, type |-> ty, bytes |-> b2, at |-> p2]
    OBVIOUS
  <1> QED BY <1>1, <1>2

\* What an item takes of a dump.
Taking(x) == IF x = NULL THEN 0 ELSE Length[x] + 1

\* The bytes of a manager are finitely many.
LEMMA BytesFinite ==
  ASSUME NEW n \in Sizes, NEW at \in [Places(n) -> Items \cup {NULL}]
  PROVE  IsFiniteSet(BytesIn(at)) /\ Bytes(at) \in Nat
  <1> DEFINE F == {t \in Places(n) : at[t] # NULL}
  <1>1. BytesIn(at) \subseteq Places(n) \X (0..255)
    <2>1. \A s \in F : at[s] \in Items
      OBVIOUS
    <2>2. \A s \in F : 0..Length[at[s]] \subseteq 0..255
      <3> SUFFICES ASSUME NEW s \in F PROVE 0..Length[at[s]] \subseteq 0..255
        OBVIOUS
      <3>1. Length[at[s]] \in 0..255
        BY <2>1, LengthIsByte
      <3> QED BY <3>1
    <2>3. DOMAIN at = Places(n)
      OBVIOUS
    <2> QED BY <2>2, <2>3 DEF BytesIn
  <1>2. IsFiniteSet(Places(n)) /\ IsFiniteSet(0..255)
    <2>1. 0 \in Int /\ 255 \in Int
      OBVIOUS
    <2>2. IsFiniteSet(0..255)
      BY <2>1, FS_Interval, Zenon
    <2> QED BY <2>2, PlacesFinite
  <1>3. IsFiniteSet(Places(n) \X (0..255))
    BY <1>2, FS_Product
  <1>4. IsFiniteSet(BytesIn(at))
    BY <1>1, <1>3, FS_Subset
  <1> QED BY <1>4, FS_CardinalityType DEF Bytes

\* The array of n slots that has x where the slot s was.
IsArray(at, n) == at \in [Places(n) -> Items \cup {NULL}]
Put(at, s, x, with) == with = [at EXCEPT ![s] = x]

\* An item takes its bytes of the dump in whichever free slot it is put.
LEMMA BytesPut ==
  ASSUME NEW n \in Sizes, NEW s \in Places(n), NEW at, IsArray(at, n), NEW with, IsArray(with, n),
         NEW x, Put(at, s, x, with), at[s] = NULL
  PROVE  Bytes(with) = Bytes(at) + Taking(x)
  <1> USE DEF IsArray
  <1>1. CASE x = NULL
    <2>1. with = at
      BY <1>1 DEF Put
    <2>2. Bytes(at) \in Nat
      BY BytesFinite
    <2>3. Taking(x) = 0
      BY <1>1 DEF Taking
    <2> QED BY <2>1, <2>2, <2>3
  <1>2. CASE x # NULL
    <2>1. x \in Items
      <3>1. with[s] = x
        BY DEF Put
      <3> QED BY <1>2, <3>1
    <2>2. PICK L \in 0..255 : L = Length[x]
      BY <2>1, LengthIsByte
    <2>3. PICK new : new = {s} \X (0..L)
      OBVIOUS
    <2>4. /\ DOMAIN at = Places(n) /\ DOMAIN with = Places(n) /\ with[s] = x
          /\ \A t \in Places(n) : t # s => with[t] = at[t]
      BY DEF Put
    <2>5. BytesIn(with) = BytesIn(at) \cup new
      <3>1. ASSUME NEW q \in BytesIn(with) PROVE q \in BytesIn(at) \cup new
        <4>1. PICK t \in Places(n) : with[t] # NULL /\ q \in {t} \X (0..Length[with[t]])
          BY <2>4, <3>1 DEF BytesIn
        <4>2. CASE t = s
          BY <2>2, <2>3, <2>4, <4>1, <4>2
        <4>3. CASE t # s
          BY <2>4, <4>1, <4>3 DEF BytesIn
        <4> QED BY <4>2, <4>3
      <3>2. ASSUME NEW q \in BytesIn(at) PROVE q \in BytesIn(with)
        <4>1. PICK t \in Places(n) : at[t] # NULL /\ q \in {t} \X (0..Length[at[t]])
          BY <2>4, <3>2 DEF BytesIn
        <4>2. t # s
          BY <4>1
        <4> QED BY <2>4, <4>1, <4>2 DEF BytesIn
      <3>3. ASSUME NEW q \in new PROVE q \in BytesIn(with)
        <4>1. with[s] # NULL /\ q \in {s} \X (0..Length[with[s]])
          BY <1>2, <2>2, <2>3, <2>4, <3>3
        <4> QED BY <2>4, <4>1 DEF BytesIn
      <3> QED BY <3>1, <3>2, <3>3
    <2>6. BytesIn(at) \cap new = {}
      <3> SUFFICES ASSUME NEW q \in BytesIn(at), q \in new PROVE FALSE
        OBVIOUS
      <3>1. PICK t \in Places(n) : at[t] # NULL /\ q \in {t} \X (0..Length[at[t]])
        BY <2>4 DEF BytesIn
      <3>2. q[1] = t /\ q[1] = s
        BY <2>3, <3>1
      <3> QED BY <3>1, <3>2
    <2>7. IsFiniteSet(new) /\ Cardinality(new) = L + 1
      <3>1. IsFiniteSet({s}) /\ Cardinality({s}) = 1
        BY FS_Singleton
      <3>2. IsFiniteSet(0..L) /\ Cardinality(0..L) = L + 1
        BY FS_Interval
      <3>3. /\ IsFiniteSet({s} \X (0..L))
            /\ Cardinality({s} \X (0..L)) = Cardinality({s}) * Cardinality(0..L)
        BY <3>1, <3>2, FS_Product, Zenon
      <3>4. IsFiniteSet(new) /\ Cardinality(new) = 1 * (L + 1)
        BY <2>3, <3>1, <3>2, <3>3, Zenon
      <3> QED BY <3>4
    <2>8. IsFiniteSet(BytesIn(at)) /\ Cardinality(BytesIn(at)) \in Nat
      BY BytesFinite DEF Bytes
    <2>9. Cardinality(BytesIn(with)) = Cardinality(BytesIn(at)) + Cardinality(new) - Cardinality({})
      <3>1. /\ IsFiniteSet(BytesIn(at) \cup new)
            /\ Cardinality(BytesIn(at) \cup new)
                 = Cardinality(BytesIn(at)) + Cardinality(new) - Cardinality(BytesIn(at) \cap new)
        BY <2>7, <2>8, FS_Union, Zenon
      <3> QED BY <2>5, <2>6, <3>1, Zenon
    <2>10. Cardinality({}) = 0
      BY FS_EmptySet
    <2>11. Taking(x) = L + 1
      BY <1>2, <2>2 DEF Taking
    <2>12. Cardinality(BytesIn(with)) = Cardinality(BytesIn(at)) + (L + 1)
      BY <2>7, <2>8, <2>9, <2>10
    <2> QED BY <2>11, <2>12 DEF Bytes
  <1> QED BY <1>1, <1>2

\* What a slot gives up is what its item takes.
LEMMA BytesTake ==
  ASSUME NEW n \in Sizes, NEW s \in Places(n), NEW at, IsArray(at, n),
         NEW left, Put(at, s, NULL, left)
  PROVE  Bytes(at) = Bytes(left) + Taking(at[s])
  <1>1. IsArray(left, n)
    BY DEF Put, IsArray
  <1>2. left[s] = NULL /\ Put(left, s, at[s], at)
    BY DEF Put, IsArray
  <1> QED BY <1>1, <1>2, BytesPut

\* A swap leaves the bytes as many as they were.
LEMMA BytesSwap ==
  ASSUME NEW n \in Sizes, NEW at, IsArray(at, n), NEW a \in Places(n), NEW b \in Places(n),
         NEW swapped, swapped = [at EXCEPT ![a] = at[b], ![b] = at[a]]
  PROVE  Bytes(swapped) = Bytes(at)
  <1>1. CASE a = b
    <2>1. swapped = at
      BY <1>1 DEF IsArray
    <2> QED BY <2>1
  <1>2. CASE a # b
    <2>1. PICK x, y : x = at[a] /\ y = at[b] /\ x \in Items \cup {NULL} /\ y \in Items \cup {NULL}
      BY DEF IsArray
    <2>2. PICK p : Put(at, a, NULL, p)
      BY DEF Put
    <2>3. PICK q : Put(p, b, NULL, q)
      BY DEF Put
    <2>4. PICK r : Put(q, a, y, r)
      BY DEF Put
    <2>5. IsArray(p, n) /\ p[b] = y
      BY <1>2, <2>1, <2>2 DEF Put, IsArray
    <2>6. IsArray(q, n) /\ q[a] = NULL
      BY <1>2, <2>2, <2>3, <2>5 DEF Put, IsArray
    <2>7. IsArray(r, n) /\ r[b] = NULL
      BY <1>2, <2>1, <2>3, <2>4, <2>5, <2>6 DEF Put, IsArray
    <2>8. Put(r, b, x, swapped) /\ IsArray(swapped, n)
      BY <1>2, <2>1, <2>2, <2>3, <2>4 DEF Put, IsArray
    <2>9. Bytes(at) = Bytes(p) + Taking(x)
      BY <2>1, <2>2, BytesTake
    <2>10. Bytes(p) = Bytes(q) + Taking(y)
      BY <2>3, <2>5, BytesTake
    <2>11. Bytes(r) = Bytes(q) + Taking(y)
      BY <2>4, <2>6, <2>7, BytesPut
    <2>12. Bytes(swapped) = Bytes(r) + Taking(x)
      BY <2>7, <2>8, BytesPut
    <2>13. Taking(x) \in Nat /\ Taking(y) \in Nat /\ Bytes(q) \in Nat
      <3>1. Bytes(q) \in Nat
        BY <2>6, BytesFinite DEF IsArray
      <3>2. \A z \in Items \cup {NULL} : Taking(z) \in Nat
        BY LengthIsByte DEF Taking
      <3> QED BY <2>1, <3>1, <3>2
    <2> QED BY <2>9, <2>10, <2>11, <2>12, <2>13
  <1> QED BY <1>1, <1>2

\* SetItem in a free slot.
LEMMA GoodSet ==
  ASSUME NEW n \in Sizes, NEW ty, NEW m, NEW k, NEW l, Good(m, n, ty, k),
         NEW i \in Items, i \notin Contents(m), NEW s \in Places(n), m.at[s] = NULL,
         l[i] = [slot |-> s, type |-> ty], \A j \in Contents(m) : l[j] = k[j]
  PROVE  /\ Takes(m, s)
         /\ Good(SetItem(m, i, s), n, ty, l)
         /\ Contents(SetItem(m, i, s)) = Contents(m) \cup {i}
  <1> DEFINE o == SetItem(m, i, s)
  <1>1. IsManager(m, n)
    BY DEF Good
  <1>2. m.slots = n /\ m.count \in Nat /\ m.at \in [Places(n) -> Items \cup {NULL}]
    BY <1>1, ManagerFacts
  <1>3. Takes(m, s)
    BY <1>2 DEF Takes, Places, Sizes
  <1>4. /\ IsManager(o, n) /\ o.type = ty /\ o.count = m.count + 1
        /\ o.at = [m.at EXCEPT ![s] = i] /\ o.bytes = m.bytes + Length[i] + 1
    <2> DEFINE b == m.bytes + Length[i] + 1
               at == [m.at EXCEPT ![s] = i]
    <2>1. m = [slots |-> n, count |-> m.count, type |-> m.type, bytes |-> m.bytes, at |-> m.at]
      BY <1>1 DEF IsManager
    <2>2. o = [m EXCEPT !.at[s] = i, !.count = @ + 1, !.bytes = @ + Length[i] + 1]
      BY <1>3 DEF SetItem
    <2>3. o = [m EXCEPT !.at = at, !.count = m.count + 1, !.bytes = b]
      BY <2>2
    <2>4. at \in [Places(n) -> Items \cup {NULL}]
      BY <1>2
    <2> HIDE DEF o, at, b
    <2>5. o = [slots |-> n, count |-> m.count + 1, type |-> m.type, bytes |-> b, at |-> at]
      <3> DEFINE N == [slots |-> n, count |-> m.count, type |-> m.type, bytes |-> m.bytes,
                       at |-> m.at]
      <3>1. o = [N EXCEPT !.at = at, !.count = m.count + 1, !.bytes = b]
        BY <2>1, <2>3, Zenon
      <3> QED BY <3>1, Assigned, Zenon
    <2>6. o.type = m.type /\ o.count = m.count + 1 /\ o.at = at /\ o.bytes = b
      BY <2>5
    <2> QED BY <1>2, <2>4, <2>5, <2>6 DEF IsManager, Good, at, b
  <1> HIDE DEF o
  <1>5. Filled(o) = Filled(m) \cup {s} /\ s \notin Filled(m)
    BY <1>2, <1>4, SizeFacts DEF Filled
  <1>6. o.count = Cardinality(Filled(o))
    <2>1. IsFiniteSet(Filled(m))
      BY <1>1, ManagerFacts
    <2>2. Cardinality(Filled(m) \cup {s}) = Cardinality(Filled(m)) + 1
      BY <1>5, <2>1, FS_AddElement
    <2> QED BY <1>4, <1>5, <2>2 DEF Good
  <1>7. o.at[s] = i /\ \A t \in Filled(m) : o.at[t] = m.at[t]
    BY <1>2, <1>4, <1>5
  <1>8. Contents(o) = Contents(m) \cup {i}
    BY <1>5, <1>7 DEF Contents
  <1>9. ASSUME NEW t \in Filled(o) PROVE l[o.at[t]] = [slot |-> t, type |-> ty]
    <2>1. CASE t = s
      BY <1>7, <2>1
    <2>2. CASE t \in Filled(m)
      BY <1>7, <2>2 DEF Good, Contents
    <2> QED BY <1>5, <2>1, <2>2
  <1>10. o.bytes = Bytes(o.at)
    <2>1. Put(m.at, s, i, o.at) /\ IsArray(m.at, n) /\ IsArray(o.at, n)
      BY <1>2, <1>4 DEF Put, IsArray
    <2>2. Bytes(o.at) = Bytes(m.at) + Taking(i)
      BY <1>2, <2>1, BytesPut
    <2>3. Taking(i) = Length[i] + 1 /\ Length[i] \in Nat
      BY SizeFacts, LengthIsByte DEF Taking
    <2>4. m.bytes = Bytes(m.at) /\ Bytes(m.at) \in Nat
      BY <1>2, BytesFinite DEF Good
    <2> QED BY <1>4, <2>2, <2>3, <2>4
  <1>11. Good(o, n, ty, l)
    BY <1>4, <1>6, <1>9, <1>10 DEF Good
  <1> QED BY <1>3, <1>8, <1>11 DEF o

LEMMA GoodRemove ==
  ASSUME NEW n \in Sizes, NEW ty, NEW m, NEW k, Good(m, n, ty, k), NEW s \in Places(n)
  PROVE  /\ Good(RemoveItem(m, s), n, ty, k)
         /\ RemoveItem(m, s).at[s] = NULL
         /\ Contents(RemoveItem(m, s)) = Contents(m) \ {m.at[s]}
  <1> DEFINE o == RemoveItem(m, s)
  <1>1. IsManager(m, n)
    BY DEF Good
  <1>2. /\ m.slots = n /\ m.count \in Nat /\ m.at \in [Places(n) -> Items \cup {NULL}]
        /\ Filled(m) = {p \in Places(n) : m.at[p] # NULL} /\ IsFiniteSet(Filled(m))
    BY <1>1, ManagerFacts
  <1>3. ~(s > m.slots)
    BY <1>2 DEF Places, Sizes
  <1>4. CASE m.at[s] = NULL
    <2>1. o = m
      BY <1>4 DEF RemoveItem
    <2>2. NULL \notin Contents(m)
      BY <1>1, ManagerFacts, SizeFacts
    <2> QED BY <1>4, <2>1, <2>2
  <1>5. CASE m.at[s] # NULL
    <2>1. s \in Filled(m)
      BY <1>2, <1>5
    <2>2. m.count - 1 \in Nat
      BY <1>2, <2>1, FS_EmptySet DEF Good
    <2>3. /\ IsManager(o, n) /\ o.type = ty /\ o.count = m.count - 1
          /\ o.at = [m.at EXCEPT ![s] = NULL] /\ o.bytes = m.bytes - (Length[m.at[s]] + 1)
      <3> DEFINE b == m.bytes - (Length[m.at[s]] + 1)
                 at == [m.at EXCEPT ![s] = NULL]
      <3>1. m = [slots |-> n, count |-> m.count, type |-> m.type, bytes |-> m.bytes,
                 at |-> m.at]
        BY <1>1 DEF IsManager
      <3>2. o = [m EXCEPT !.at[s] = NULL, !.count = @ - 1,
                          !.bytes = @ - (Length[m.at[s]] + 1)]
        BY <1>3, <1>5 DEF RemoveItem
      <3>3. o = [m EXCEPT !.at = at, !.count = m.count - 1, !.bytes = b]
        BY <3>2
      <3>4. at \in [Places(n) -> Items \cup {NULL}]
        BY <1>2
      <3> HIDE DEF o, at, b
      <3>5. o = [slots |-> n, count |-> m.count - 1, type |-> m.type, bytes |-> b, at |-> at]
        <4> DEFINE N == [slots |-> n, count |-> m.count, type |-> m.type,
                         bytes |-> m.bytes, at |-> m.at]
        <4>1. o = [N EXCEPT !.at = at, !.count = m.count - 1, !.bytes = b]
          BY <3>1, <3>3, Zenon
        <4> QED BY <4>1, Assigned, Zenon
      <3>6. o.type = m.type /\ o.count = m.count - 1 /\ o.at = at /\ o.bytes = b
        BY <3>5
      <3> QED BY <2>2, <3>4, <3>5, <3>6 DEF IsManager, Good, at, b
    <2> HIDE DEF o
    <2>4. Filled(o) = Filled(m) \ {s} /\ o.at[s] = NULL
      BY <1>2, <2>3 DEF Filled
    <2>5. o.count = Cardinality(Filled(o))
      BY <1>2, <2>1, <2>3, <2>4, FS_RemoveElement DEF Good
    <2>6. \A t \in Filled(o) : o.at[t] = m.at[t]
      BY <1>2, <2>3, <2>4
    <2>7. Contents(o) = Contents(m) \ {m.at[s]}
      BY <2>1, <2>4, <2>6, OneSlotEach DEF Contents
    <2>8. o.bytes = Bytes(o.at)
      <3>1. Bytes(m.at) = Bytes(o.at) + Taking(m.at[s])
        <4>1. Put(m.at, s, NULL, o.at) /\ IsArray(m.at, n)
          BY <1>2, <2>3 DEF Put, IsArray
        <4> QED BY <1>2, <4>1, BytesTake
      <3>2. Taking(m.at[s]) = Length[m.at[s]] + 1 /\ Length[m.at[s]] \in Nat
        BY <1>2, <1>5, LengthIsByte DEF Taking
      <3>3. o.at \in [Places(n) -> Items \cup {NULL}]
        BY <1>2, <2>3
      <3>4. m.bytes = Bytes(m.at) /\ Bytes(o.at) \in Nat
        BY <3>3, BytesFinite DEF Good
      <3> QED BY <2>3, <3>1, <3>2, <3>4
    <2>9. Good(o, n, ty, k)
      BY <2>3, <2>4, <2>5, <2>6, <2>8 DEF Good
    <2> QED BY <2>4, <2>7, <2>9 DEF o
  <1> QED BY <1>4, <1>5

\* A swap fills as many slots as before.
LEMMA SwapCounts ==
  ASSUME NEW F, IsFiniteSet(F), NEW a, NEW b, NEW G,
         \/ G = F
         \/ a \in F /\ b \notin F /\ G = (F \ {a}) \cup {b}
  PROVE  Cardinality(G) = Cardinality(F)
  <1>1. CASE a \in F /\ b \notin F /\ G = (F \ {a}) \cup {b}
    <2>1. IsFiniteSet(F \ {a}) /\ Cardinality(F \ {a}) = Cardinality(F) - 1
      BY <1>1, FS_RemoveElement
    <2>2. Cardinality(G) = Cardinality(F \ {a}) + 1
      BY <1>1, <2>1, FS_AddElement
    <2>3. Cardinality(F) \in Nat
      BY FS_CardinalityType
    <2> QED BY <2>1, <2>2, <2>3
  <1> QED BY <1>1

LEMMA GoodSwap ==
  ASSUME NEW n \in Sizes, NEW ty, NEW m, NEW k \in [Items -> Noting], Good(m, n, ty, k),
         NEW a \in Places(n), NEW b \in Places(n)
  PROVE  /\ Good(SwapItems(m, a, b), n, ty, NotedBySwap(k, m, a, b))
         /\ Contents(SwapItems(m, a, b)) = Contents(m)
         /\ NotedBySwap(k, m, a, b) \in [Items -> Noting]
         /\ \A i \in Items \ Contents(m) : NotedBySwap(k, m, a, b)[i] = k[i]
  <1> DEFINE o == SwapItems(m, a, b)
             l == NotedBySwap(k, m, a, b)
             F == Filled(m)
             G == Filled(o)
  <1>1. IsManager(m, n)
    BY DEF Good
  <1>2. /\ m.at \in [Places(n) -> Items \cup {NULL}] /\ F = {s \in Places(n) : m.at[s] # NULL}
        /\ IsFiniteSet(F)
    BY <1>1, ManagerFacts
  <1>3. /\ IsManager(o, n) /\ o.type = ty /\ o.count = m.count
        /\ o.at = [m.at EXCEPT ![a] = m.at[b], ![b] = m.at[a]] /\ o.bytes = m.bytes
    <2> DEFINE at == [m.at EXCEPT ![a] = m.at[b], ![b] = m.at[a]]
    <2>1. m = [slots |-> n, count |-> m.count, type |-> m.type, bytes |-> m.bytes, at |-> m.at]
      BY <1>1 DEF IsManager
    <2>2. o = [m EXCEPT !.at[a] = m.at[b], !.at[b] = m.at[a]]
      BY DEF SwapItems
    <2>3. o = [m EXCEPT !.at = at]
      BY <2>2
    <2>4. at \in [Places(n) -> Items \cup {NULL}]
      BY <1>2
    <2> HIDE DEF o, at
    <2>5. o = [slots |-> n, count |-> m.count, type |-> m.type, bytes |-> m.bytes, at |-> at]
      BY <2>1, <2>3
    <2>6. o.type = m.type /\ o.count = m.count /\ o.at = at /\ o.bytes = m.bytes
      BY <2>5
    <2> QED BY <1>1, <2>4, <2>5, <2>6 DEF IsManager, Good, at
  <1>4. /\ o.at[a] = m.at[b] /\ o.at[b] = m.at[a]
        /\ \A s \in Places(n) \ {a, b} : o.at[s] = m.at[s]
    BY <1>2, <1>3
  <1>5. G = {s \in Places(n) : o.at[s] # NULL}
    BY <1>3, ManagerFacts
  <1> HIDE DEF o, F, G
  <1>6. Cardinality(G) = Cardinality(F)
    <2>1. \/ G = F
          \/ a \in F /\ b \notin F /\ G = (F \ {a}) \cup {b}
          \/ b \in F /\ a \notin F /\ G = (F \ {b}) \cup {a}
      BY <1>2, <1>4, <1>5
    <2> QED BY <1>2, <2>1, SwapCounts
  <1>7. Contents(o) = Contents(m)
    <2>1. \A s \in G : \E t \in F : o.at[s] = m.at[t]
      BY <1>2, <1>4, <1>5
    <2>2. \A s \in F : \E t \in G : m.at[s] = o.at[t]
      BY <1>2, <1>4, <1>5
    <2> QED BY <2>1, <2>2 DEF Contents, F, G
  <1>8. \A s, t \in F : m.at[s] = m.at[t] => s = t
    BY OneSlotEach DEF F
  <1>9. \A i \in Items : l[i] = IF i = m.at[a] THEN [k[i] EXCEPT !.slot = b]
                                ELSE IF i = m.at[b] THEN [k[i] EXCEPT !.slot = a] ELSE k[i]
    BY DEF NotedBySwap
  <1>10. \A s \in F : m.at[s] \in Items /\ k[m.at[s]] = [slot |-> s, type |-> ty]
    BY <1>2 DEF Good, F
  <1>11. l \in [Items -> Noting]
    <2>1. a \in 0..255 /\ b \in 0..255
      BY SizeFacts
    <2>2. \A i \in Items : /\ [k[i] EXCEPT !.slot = a] \in Noting
                           /\ [k[i] EXCEPT !.slot = b] \in Noting
      BY <2>1 DEF Noting
    <2> QED BY <2>2 DEF NotedBySwap
  <1>12. \A i \in Items \ Contents(m) : l[i] = k[i]
    <2>1. \A i \in Items \ Contents(m) : i # m.at[a] /\ i # m.at[b]
      BY <1>2, SizeFacts DEF Contents, F
    <2> QED BY <1>9, <2>1
  <1> HIDE DEF l
  <1>13. ASSUME NEW s \in G PROVE l[o.at[s]] = [slot |-> s, type |-> ty]
    <2> DEFINE N(x) == [slot |-> x, type |-> ty]
    <2>0. \A x, y : [N(x) EXCEPT !.slot = y] = N(y)
      OBVIOUS
    <2>4. \A x \in F : m.at[x] \in Items /\ k[m.at[x]] = N(x)
      BY <1>10
    <2> HIDE DEF N
    <2>1. CASE s \notin {a, b}
      <3>1. s \in F /\ o.at[s] = m.at[s] /\ m.at[s] # m.at[a] /\ m.at[s] # m.at[b]
        BY <1>2, <1>4, <1>5, <1>8, <2>1
      <3> QED BY <1>9, <2>4, <3>1 DEF N
    <2>2. CASE s = b
      <3>1. a \in F /\ o.at[s] = m.at[a]
        BY <1>2, <1>4, <1>5, <2>2
      <3>2. l[m.at[a]] = N(b)
        BY <1>9, <2>0, <2>4, <3>1
      <3> QED BY <2>2, <3>1, <3>2 DEF N
    <2>3. CASE s = a /\ a # b
      <3>1. b \in F /\ o.at[s] = m.at[b] /\ m.at[b] # m.at[a]
        BY <1>2, <1>4, <1>5, <1>8, <2>3
      <3>2. l[m.at[b]] = N(a)
        BY <1>9, <2>0, <2>4, <3>1
      <3> QED BY <2>3, <3>1, <3>2 DEF N
    <2> QED BY <2>1, <2>2, <2>3
  <1>14. o.bytes = Bytes(o.at)
    <2>1. IsArray(m.at, n)
      BY <1>2 DEF IsArray
    <2>2. Bytes(o.at) = Bytes(m.at)
      BY <1>3, <2>1, BytesSwap
    <2> QED BY <1>3, <2>2 DEF Good
  <1>15. Good(o, n, ty, l)
    BY <1>3, <1>6, <1>13, <1>14 DEF Good, F, G
  <1> QED BY <1>7, <1>11, <1>12, <1>15 DEF o, l
-----------------------------------------------------------------------------
(* Dumps                                                                    *)

LEMMA NewIsManager ==
  ASSUME NEW n \in Sizes
  PROVE  IsManager(New(n), n) /\ Filled(New(n)) = {} /\ Contents(New(n)) = {}
  <1>1. New(n).at \in [Places(n) -> Items \cup {NULL}]
    BY DEF New, Places
  <1>2. IsManager(New(n), n)
    BY <1>1 DEF IsManager, New
  <1>3. \A s \in Places(n) : New(n).at[s] = NULL
    BY DEF New, Places
  <1>4. Filled(New(n)) = {}
    BY <1>2, <1>3, ManagerFacts
  <1> QED BY <1>2, <1>4 DEF Contents

\* DumpItems of a manager.
LEMMA DumpGood ==
  ASSUME NEW n \in Sizes, NEW ty, NEW m, NEW k, Good(m, n, ty, k)
  PROVE  /\ DumpOK(DumpItems(m, k), n, ty)
         /\ {m.at[s] : s \in DOMAIN DumpItems(m, k).note} = Contents(m)
         /\ DumpItems(m, k).rows = m.at
  <1> DEFINE d == DumpItems(m, k)
  <1>1. /\ m.at \in [Places(n) -> Items \cup {NULL}]
        /\ Filled(m) = {s \in Places(n) : m.at[s] # NULL}
    BY ManagerFacts DEF Good
  <1>2. /\ d.type = ty /\ d.rows = m.at /\ d.count = Cardinality(Filled(m))
        /\ d.note = [s \in Filled(m) |-> k[m.at[s]]]
    BY DEF DumpItems, Good
  <1>3. d.note = [s \in Filled(m) |-> [slot |-> s, type |-> ty]]
    BY <1>2 DEF Good
  <1>4. DOMAIN d.note = Filled(m)
    BY <1>3
  <1>5. \A s, t \in Filled(m) : m.at[s] = m.at[t] => s = t
    BY OneSlotEach
  <1> HIDE DEF d
  <1>6. DumpOK(d, n, ty)
    BY <1>1, <1>2, <1>3, <1>4, <1>5 DEF DumpOK
  <1> QED BY <1>2, <1>4, <1>6 DEF d, Contents

\* A dump that counts its items is read to the end.
LEMMA AllRead ==
  ASSUME NEW n \in Sizes, NEW ty, NEW d, DumpOK(d, n, ty)
  PROVE  /\ RowsRead(d) = DOMAIN d.note
         /\ DOMAIN d.note = {s \in Places(n) : d.rows[s] # NULL}
         /\ Rows(d) \subseteq Items
  <1>1. DOMAIN d.note = {s \in Places(n) : d.rows[s] # NULL}
    BY DEF DumpOK
  <1>2. IsFiniteSet(Places(n)) /\ Places(n) \subseteq Nat
    BY PlacesFinite, SizeFacts
  <1>3. IsFiniteSet(DOMAIN d.note)
    BY <1>1, <1>2, FS_Subset
  <1>4. ASSUME NEW s \in DOMAIN d.note
        PROVE  Cardinality({r \in DOMAIN d.note : r < s}) < d.count
    <2> DEFINE S == {r \in DOMAIN d.note : r < s}
    <2>1. s \notin S /\ S \in SUBSET DOMAIN d.note /\ S # DOMAIN d.note
      BY <1>1, <1>2
    <2> HIDE DEF S
    <2>2. /\ Cardinality(S) <= Cardinality(DOMAIN d.note)
          /\ Cardinality(S) # Cardinality(DOMAIN d.note)
          /\ IsFiniteSet(S)
      BY <1>3, <2>1, FS_Subset
    <2>3. Cardinality(S) \in Nat /\ Cardinality(DOMAIN d.note) \in Nat
      BY <1>3, <2>2, FS_CardinalityType
    <2>4. Cardinality(S) < d.count
      BY <2>2, <2>3 DEF DumpOK
    <2> QED BY <2>4 DEF S
  <1>5. RowsRead(d) = DOMAIN d.note
    BY <1>4 DEF RowsRead
  <1>6. Rows(d) \subseteq Items
    BY <1>1, <1>5 DEF Rows, DumpOK
  <1> QED BY <1>1, <1>5, <1>6

LEMMA OneMax == \A s \in Nat : Max({s}) = s
  BY DEF Max

\* LoadItemDump into a new manager: every item where it was.
LEMMA GoodLoad ==
  ASSUME NEW n \in Sizes, NEW ty \in {8, 9}, NEW d, DumpOK(d, n, ty), NEW k,
         \A s \in DOMAIN d.note : k[d.rows[s]] = [slot |-> s, type |-> ty]
  PROVE  /\ Good(LoadItemDump(New(n), d), n, ty, k)
         /\ Contents(LoadItemDump(New(n), d)) = Rows(d)
  <1> DEFINE m == New(n)
             at == [s \in DOMAIN m.at |-> IF Placed(d, s) = {} THEN m.at[s]
                                         ELSE d.rows[Max(Placed(d, s))]]
             o == LoadItemDump(m, d)
             D == DOMAIN d.note
             b == Bytes([r \in RowsRead(d) |-> d.rows[r]])
  <1>1. RowsRead(d) = D /\ D = {s \in Places(n) : d.rows[s] # NULL}
    BY AllRead
  <1>2. DOMAIN m.at = Places(n) /\ m.count = 0 /\ m.slots = n
        /\ \A s \in Places(n) : m.at[s] = NULL
    BY DEF New, Places
  <1>3. ASSUME NEW s \in Places(n) PROVE at[s] = d.rows[s]
    <2>1. Placed(d, s) = {r \in D : r = s}
      BY <1>1 DEF Placed, DumpOK
    <2>2. CASE s \in D
      <3>1. Placed(d, s) = {s}
        BY <2>1, <2>2
      <3>2. Max(Placed(d, s)) = s
        BY <3>1, OneMax, SizeFacts
      <3> QED BY <1>2, <3>1, <3>2
    <2>3. CASE s \notin D
      BY <1>1, <1>2, <2>1, <2>3
    <2> QED BY <2>2, <2>3
  <1>4. at = d.rows
    BY <1>2, <1>3 DEF DumpOK
  <1>5. d.count \in Nat
    <2>1. IsFiniteSet(Places(n))
      BY PlacesFinite
    <2>2. IsFiniteSet(D)
      BY <1>1, <2>1, FS_Subset
    <2> QED BY <2>2, FS_CardinalityType DEF DumpOK
  <1>6. o = [m EXCEPT !.count = d.count, !.type = d.type, !.at = at, !.bytes = b]
    BY <1>2 DEF LoadItemDump
  <1> HIDE DEF at, b
  <1>7. o = [slots |-> n, count |-> d.count, type |-> ty, bytes |-> b, at |-> d.rows]
    BY <1>4, <1>6 DEF New, DumpOK
  <1>8. IsManager(o, n)
    <2>1. o.count = d.count /\ o.type = ty /\ o.bytes = b /\ o.at = d.rows
      BY <1>7
    <2> HIDE DEF o
    <2> QED BY <1>5, <1>7, <2>1 DEF IsManager, DumpOK
  <1>9. o.type = ty /\ o.count = d.count /\ o.at = d.rows /\ o.bytes = b
    BY <1>7
  <1> HIDE DEF o
  <1>10. Filled(o) = D
    BY <1>1, <1>8, <1>9, ManagerFacts
  <1>11. Contents(o) = Rows(d)
    BY <1>1, <1>9, <1>10 DEF Contents, Rows
  <1>12. o.bytes = Bytes(o.at)
    <2>1. PICK read : read = [r \in RowsRead(d) |-> d.rows[r]]
      OBVIOUS
    <2>2. DOMAIN read = D /\ \A r \in D : read[r] = d.rows[r]
      BY <1>1, <2>1
    <2>3. DOMAIN d.rows = Places(n)
      BY DEF DumpOK
    <2>4. {t \in DOMAIN read : read[t] # NULL} = D /\ {t \in DOMAIN d.rows : d.rows[t] # NULL} = D
      BY <1>1, <2>2, <2>3
    <2>5. BytesIn(read) = BytesIn(d.rows)
      BY <2>2, <2>4 DEF BytesIn
    <2> QED BY <1>9, <2>1, <2>5 DEF b, Bytes
  <1>13. Good(o, n, ty, k)
    BY <1>8, <1>9, <1>10, <1>12 DEF Good, DumpOK
  <1> QED BY <1>11, <1>13 DEF o

\* What a loaded item notes.
LEMMA NoteOfRow ==
  ASSUME NEW n \in Sizes, NEW ty, NEW d, DumpOK(d, n, ty), NEW s \in DOMAIN d.note
  PROVE  NotesRead(d)[d.rows[s]] = [slot |-> s, type |-> ty] /\ d.rows[s] \in Rows(d)
  <1>1. RowsRead(d) = DOMAIN d.note
    BY AllRead
  <1>2. (CHOOSE r \in RowsRead(d) : d.rows[r] = d.rows[s]) = s
    BY <1>1 DEF DumpOK
  <1>3. d.note[s] = [slot |-> s, type |-> ty]
    BY DEF DumpOK
  <1> QED BY <1>1, <1>2, <1>3 DEF NotesRead, Rows
-----------------------------------------------------------------------------
(* What the handlers do to a player                                         *)

LEMMA PlayerFacts ==
  ASSUME NEW i, NEW e, NEW k, NEW h, PlayerOK(i, e, k, h)
  PROVE  /\ IsManager(i, InvSlots) /\ IsManager(e, EqSlots)
         /\ i.at \in [Places(InvSlots) -> Items \cup {NULL}]
         /\ e.at \in [Places(EqSlots) -> Items \cup {NULL}]
         /\ Contents(i) \subseteq Items /\ Contents(e) \subseteq Items
         /\ Contents(i) \cap Contents(e) = {}
         /\ Filled(i) = {s \in Places(InvSlots) : i.at[s] # NULL}
         /\ Filled(e) = {s \in Places(EqSlots) : e.at[s] # NULL}
  <1>1. IsManager(i, InvSlots) /\ IsManager(e, EqSlots)
    BY DEF PlayerOK, Good
  <1>2. Contents(i) \cap Contents(e) = {}
    BY ApartByType DEF PlayerOK
  <1>3. InvSlots \in Sizes /\ EqSlots \in Sizes
    BY SizeFacts
  <1>4. /\ i.at \in [Places(InvSlots) -> Items \cup {NULL}] /\ Contents(i) \subseteq Items
        /\ Filled(i) = {s \in Places(InvSlots) : i.at[s] # NULL}
    BY <1>1, <1>3, ManagerFacts
  <1>5. /\ e.at \in [Places(EqSlots) -> Items \cup {NULL}] /\ Contents(e) \subseteq Items
        /\ Filled(e) = {s \in Places(EqSlots) : e.at[s] # NULL}
    BY <1>1, <1>3, ManagerFacts
  <1> QED BY <1>1, <1>2, <1>4, <1>5

\* Empty hands are in the way of nothing.
LEMMA NothingOK ==
  ASSUME NEW i, NEW e, NEW k, Good(i, InvSlots, 9, k), Good(e, EqSlots, 8, k)
  PROVE  HandOK(Nothing, i, e) /\ Has(i, e, Nothing) = Contents(i) \cup Contents(e)
  <1>1. NULL \notin Contents(i) /\ NULL \notin Contents(e)
    BY ManagerFacts, SizeFacts DEF Good
  <1>2. Nothing \in Hands
    BY SizeFacts DEF Nothing, Hands, Places
  <1>3. Nothing.toEq = NULL /\ Nothing.toInv = NULL
    BY DEF Nothing
  <1> QED BY <1>1, <1>2, <1>3 DEF HandOK, Has

\* MoveInvItem
LEMMA MoveOK ==
  ASSUME NEW i, NEW e, NEW k, PlayerOK(i, e, k, Nothing),
         NEW a \in Places(InvSlots), NEW b \in Places(InvSlots)
  PROVE  /\ PlayerOK(SwapItems(i, a, b), e, NotedBySwap(k, i, a, b), Nothing)
         /\ Has(SwapItems(i, a, b), e, Nothing) = Has(i, e, Nothing)
  <1> DEFINE j == SwapItems(i, a, b)
             l == NotedBySwap(k, i, a, b)
  <1>1. /\ Good(i, InvSlots, 9, k) /\ Good(e, EqSlots, 8, k) /\ k \in [Items -> Noting]
        /\ InvSlots \in Sizes
    BY SizeFacts DEF PlayerOK
  <1>2. /\ Good(j, InvSlots, 9, l) /\ Contents(j) = Contents(i)
        /\ l \in [Items -> Noting] /\ \A x \in Items \ Contents(i) : l[x] = k[x]
    BY <1>1, GoodSwap
  <1> HIDE DEF j, l
  <1>3. \A x \in Contents(e) : l[x] = k[x]
    BY <1>2, PlayerFacts
  <1>4. Good(e, EqSlots, 8, l)
    BY <1>1, <1>3, GoodElsewhere
  <1>5. PlayerOK(j, e, l, Nothing)
    BY <1>2, <1>4, NothingOK DEF PlayerOK
  <1>6. Has(j, e, Nothing) = Has(i, e, Nothing)
    BY <1>2 DEF Has
  <1> QED BY <1>5, <1>6 DEF j, l

\* TakeToEquip: both places are empty, and what was in them in the hands.
LEMMA TakeOK ==
  ASSUME NEW i, NEW e, NEW k, PlayerOK(i, e, k, Nothing),
         NEW s \in Places(InvSlots), NEW x \in Places(EqSlots), i.at[s] # NULL,
         NEW h, h = [toEq |-> i.at[s], eqSlot |-> x, toInv |-> e.at[x], invSlot |-> s]
  PROVE  /\ PlayerOK(RemoveItem(i, s), RemoveItem(e, x), k, h)
         /\ Has(RemoveItem(i, s), RemoveItem(e, x), h) = Has(i, e, Nothing)
  <1> DEFINE j == RemoveItem(i, s)
             f == RemoveItem(e, x)
  <1>1. /\ Good(i, InvSlots, 9, k) /\ Good(e, EqSlots, 8, k) /\ k \in [Items -> Noting]
        /\ InvSlots \in Sizes /\ EqSlots \in Sizes
    BY SizeFacts DEF PlayerOK
  <1>2. Good(j, InvSlots, 9, k) /\ j.at[s] = NULL /\ Contents(j) = Contents(i) \ {i.at[s]}
    BY <1>1, GoodRemove
  <1>3. Good(f, EqSlots, 8, k) /\ f.at[x] = NULL /\ Contents(f) = Contents(e) \ {e.at[x]}
    BY <1>1, GoodRemove
  <1> HIDE DEF j, f
  <1>4. /\ h.toEq = i.at[s] /\ h.toInv = e.at[x] /\ h.eqSlot = x /\ h.invSlot = s
        /\ h \in Hands
    <2>1. i.at[s] \in Items \cup {NULL} /\ e.at[x] \in Items \cup {NULL}
      BY PlayerFacts
    <2> QED BY <2>1 DEF Hands, Places
  <1>5. /\ h.toEq \in Contents(i) /\ (h.toInv # NULL => h.toInv \in Contents(e))
        /\ NULL \notin Contents(i) /\ NULL \notin Contents(e)
    <2>1. s \in Filled(i) /\ (e.at[x] # NULL => x \in Filled(e))
      BY PlayerFacts
    <2>2. NULL \notin Contents(i) /\ NULL \notin Contents(e)
      BY PlayerFacts, SizeFacts
    <2> QED BY <1>4, <2>1, <2>2 DEF Contents
  <1>6. HandOK(h, j, f)
    <2>1. Contents(i) \cap Contents(e) = {}
      BY PlayerFacts
    <2>2. h.toEq # h.toInv
      BY <1>5, <2>1
    <2>3. {h.toEq, h.toInv} \cap (Contents(j) \cup Contents(f)) = {}
      BY <1>2, <1>3, <1>4, <1>5, <2>1
    <2> QED BY <1>2, <1>3, <1>4, <2>2, <2>3 DEF HandOK
  <1>7. PlayerOK(j, f, k, h)
    BY <1>1, <1>2, <1>3, <1>6 DEF PlayerOK
  <1>8. Has(i, e, Nothing) = Contents(i) \cup Contents(e)
    BY <1>1, NothingOK
  <1>9. Has(j, f, h) = Contents(i) \cup Contents(e)
    BY <1>2, <1>3, <1>4, <1>5 DEF Has
  <1> QED BY <1>7, <1>8, <1>9 DEF j, f

\* UnequipInvItem
LEMMA UnequipOK ==
  ASSUME NEW i, NEW e, NEW k, PlayerOK(i, e, k, Nothing),
         NEW s \in Places(InvSlots), NEW x \in Places(EqSlots),
         e.at[x] # NULL, i.at[s] = NULL,
         NEW h, h = [toEq |-> NULL, eqSlot |-> 0, toInv |-> e.at[x], invSlot |-> s]
  PROVE  /\ PlayerOK(i, RemoveItem(e, x), k, h)
         /\ Has(i, RemoveItem(e, x), h) = Has(i, e, Nothing)
         /\ h # Nothing
  <1> DEFINE f == RemoveItem(e, x)
  <1>1. /\ Good(i, InvSlots, 9, k) /\ Good(e, EqSlots, 8, k) /\ k \in [Items -> Noting]
        /\ EqSlots \in Sizes
    BY SizeFacts DEF PlayerOK
  <1>2. Good(f, EqSlots, 8, k) /\ f.at[x] = NULL /\ Contents(f) = Contents(e) \ {e.at[x]}
    BY <1>1, GoodRemove
  <1> HIDE DEF f
  <1>4. /\ h.toEq = NULL /\ h.toInv = e.at[x] /\ h.invSlot = s /\ h \in Hands
    <2>1. e.at[x] \in Items \cup {NULL}
      BY PlayerFacts
    <2>2. 0 \in Places(EqSlots)
      BY SizeFacts
    <2>3. h \in Hands
      BY <2>1, <2>2 DEF Hands, Places
    <2> QED BY <2>3
  <1>5. /\ h.toInv \in Contents(e) /\ NULL \notin Contents(i) /\ NULL \notin Contents(e)
    <2>1. x \in Filled(e)
      BY PlayerFacts
    <2>2. NULL \notin Contents(i) /\ NULL \notin Contents(e)
      BY PlayerFacts, SizeFacts
    <2> QED BY <1>4, <2>1, <2>2 DEF Contents
  <1>6. HandOK(h, i, f)
    <2>1. Contents(i) \cap Contents(e) = {}
      BY PlayerFacts
    <2>2. {h.toEq, h.toInv} \cap (Contents(i) \cup Contents(f)) = {}
      BY <1>2, <1>4, <1>5, <2>1
    <2> QED BY <1>2, <1>4, <2>2 DEF HandOK
  <1>7. PlayerOK(i, f, k, h)
    BY <1>1, <1>2, <1>6 DEF PlayerOK
  <1>8. Has(i, e, Nothing) = Contents(i) \cup Contents(e)
    BY <1>1, NothingOK
  <1>9. Has(i, f, h) = Contents(i) \cup Contents(e)
    BY <1>2, <1>4, <1>5 DEF Has
  <1>10. h # Nothing
    BY <1>4 DEF Nothing
  <1> QED BY <1>7, <1>8, <1>9, <1>10 DEF f

\* A call of SetItem for an item that is in neither manager.
LEMMA PutOne ==
  ASSUME NEW n \in Sizes, NEW ty \in {8, 9}, NEW m, NEW k \in [Items -> Noting],
         Good(m, n, ty, k), NEW n2, NEW ty2, NEW o, Good(o, n2, ty2, k),
         NEW x \in Items, x \notin Contents(m), x \notin Contents(o),
         NEW s \in Places(n), m.at[s] = NULL
  PROVE  /\ Good(SetItem(m, x, s), n, ty, Noted(k, m, x, s))
         /\ Good(o, n2, ty2, Noted(k, m, x, s))
         /\ Noted(k, m, x, s) \in [Items -> Noting]
         /\ Contents(SetItem(m, x, s)) = Contents(m) \cup {x}
  <1> DEFINE l == [k EXCEPT ![x] = [slot |-> s, type |-> ty]]
  <1>1. \A j \in Contents(m) \cup Contents(o) : l[j] = k[j]
    OBVIOUS
  <1>2. l[x] = [slot |-> s, type |-> ty]
    OBVIOUS
  <1>3. l \in [Items -> Noting]
    BY SizeFacts DEF Noting
  <1> HIDE DEF l
  <1>4. /\ Takes(m, s) /\ Good(SetItem(m, x, s), n, ty, l)
        /\ Contents(SetItem(m, x, s)) = Contents(m) \cup {x}
    BY <1>1, <1>2, GoodSet
  <1>5. Good(o, n2, ty2, l)
    BY <1>1, GoodElsewhere
  <1>6. Noted(k, m, x, s) = l
    BY <1>4 DEF Noted, Good, l
  <1> QED BY <1>3, <1>4, <1>5, <1>6

\* PutItems: what was in the hands is in its places.
LEMMA PutOK ==
  ASSUME NEW i, NEW e, NEW k, NEW h, PlayerOK(i, e, k, h),
         NEW f, f = IF h.toEq = NULL THEN e ELSE SetItem(e, h.toEq, h.eqSlot),
         NEW j, j = IF h.toInv = NULL THEN i ELSE SetItem(i, h.toInv, h.invSlot),
         NEW k1, k1 = IF h.toEq = NULL THEN k ELSE Noted(k, e, h.toEq, h.eqSlot),
         NEW k2, k2 = IF h.toInv = NULL THEN k1 ELSE Noted(k1, i, h.toInv, h.invSlot)
  PROVE  PlayerOK(j, f, k2, Nothing) /\ Has(j, f, Nothing) = Has(i, e, h)
  <1>1. /\ Good(i, InvSlots, 9, k) /\ Good(e, EqSlots, 8, k) /\ k \in [Items -> Noting]
        /\ InvSlots \in Sizes /\ EqSlots \in Sizes
    BY SizeFacts DEF PlayerOK
  <1>2. /\ h.toEq \in Items \cup {NULL} /\ h.eqSlot \in Places(EqSlots)
        /\ h.toInv \in Items \cup {NULL} /\ h.invSlot \in Places(InvSlots)
    BY DEF PlayerOK, HandOK, Hands, Places
  <1>3. /\ {h.toEq, h.toInv} \cap (Contents(i) \cup Contents(e)) = {}
        /\ h.toEq # NULL => e.at[h.eqSlot] = NULL
        /\ h.toInv # NULL => i.at[h.invSlot] = NULL
    BY DEF PlayerOK, HandOK
  <1>4. h.toEq = h.toInv => h.toEq = NULL /\ h.toInv = NULL
    BY DEF PlayerOK, HandOK, Nothing
  <1>5. /\ Good(f, EqSlots, 8, k1) /\ Good(i, InvSlots, 9, k1) /\ k1 \in [Items -> Noting]
        /\ Contents(f) = Contents(e) \cup ({h.toEq} \ {NULL})
    <2>1. CASE h.toEq = NULL
      <3>1. f = e /\ k1 = k
        BY <2>1
      <3> QED BY <1>1, <2>1, <3>1
    <2>2. CASE h.toEq # NULL
      <3>1. f = SetItem(e, h.toEq, h.eqSlot) /\ k1 = Noted(k, e, h.toEq, h.eqSlot)
        BY <2>2
      <3>2. /\ h.toEq \in Items /\ h.toEq \notin Contents(i) /\ h.toEq \notin Contents(e)
            /\ e.at[h.eqSlot] = NULL
        BY <1>2, <1>3, <2>2
      <3>3. /\ Good(f, EqSlots, 8, k1) /\ Good(i, InvSlots, 9, k1)
            /\ k1 \in [Items -> Noting] /\ Contents(f) = Contents(e) \cup {h.toEq}
        BY <1>1, <1>2, <3>1, <3>2, PutOne
      <3> QED BY <2>2, <3>3
    <2> QED BY <2>1, <2>2
  <1>6. /\ Good(f, EqSlots, 8, k2) /\ Good(j, InvSlots, 9, k2) /\ k2 \in [Items -> Noting]
        /\ Contents(j) = Contents(i) \cup ({h.toInv} \ {NULL})
    <2>1. CASE h.toInv = NULL
      <3>1. j = i /\ k2 = k1
        BY <2>1
      <3> QED BY <1>5, <2>1, <3>1
    <2>2. CASE h.toInv # NULL
      <3>1. j = SetItem(i, h.toInv, h.invSlot) /\ k2 = Noted(k1, i, h.toInv, h.invSlot)
        BY <2>2
      <3>2. /\ h.toInv \in Items /\ h.toInv \notin Contents(i) /\ h.toInv \notin Contents(f)
            /\ i.at[h.invSlot] = NULL
        BY <1>2, <1>3, <1>4, <1>5, <2>2
      <3>3. /\ Good(j, InvSlots, 9, k2) /\ Good(f, EqSlots, 8, k2)
            /\ k2 \in [Items -> Noting] /\ Contents(j) = Contents(i) \cup {h.toInv}
        BY <1>1, <1>2, <1>5, <3>1, <3>2, PutOne
      <3> QED BY <2>2, <3>3
    <2> QED BY <2>1, <2>2
  <1>7. Has(j, f, Nothing) = Contents(j) \cup Contents(f)
    BY <1>6, NothingOK
  <1>8. Has(i, e, h) = Contents(j) \cup Contents(f)
    BY <1>5, <1>6 DEF Has
  <1>9. PlayerOK(j, f, k2, Nothing)
    BY <1>6, NothingOK DEF PlayerOK
  <1> QED BY <1>7, <1>8, <1>9

LEMMA LessThan == OpToRel(<, Nat) = {p \in Nat \X Nat : p[1] < p[2]}
  BY DEF OpToRel

LEMMA MinusOne == (-1) % 256 = 255
  <1>1. \A x, y \in Int : x + 1 = 256 * y => x % 256 = 255
    OBVIOUS
  <1>2. (-1) + 1 = 256 * 0 /\ -1 \in Int /\ 0 \in Int
    OBVIOUS
  <1> QED BY <1>1, <1>2, Zenon

\* GetNextSlot: a free slot, or none that SetItem takes.
LEMMA NextFree ==
  ASSUME NEW n \in Sizes, NEW m, IsManager(m, n)
  PROVE  IF Filled(m) = Places(n) THEN ~Takes(m, NextSlot(m))
         ELSE NextSlot(m) \in Places(n) /\ m.at[NextSlot(m)] = NULL
  <1>1. m.slots = n /\ DOMAIN m.at = Places(n) /\ Filled(m) = {s \in Places(n) : m.at[s] # NULL}
    BY ManagerFacts
  <1>2. CASE Filled(m) = Places(n)
    <2>1. NextSlot(m) = 255
      BY <1>1, <1>2, MinusOne DEF NextSlot
    <2> QED BY <1>1, <1>2, <2>1 DEF Takes, Sizes
  <1>3. CASE Filled(m) # Places(n)
    <2> DEFINE S == Places(n) \ Filled(m)
    <2>1. S # {} /\ S \subseteq Nat
      BY <1>1, <1>3, SizeFacts
    <2>2. NextSlot(m) = Min(S)
      BY <1>1, <1>3 DEF NextSlot
    <2> HIDE DEF S
    <2>3. IsWellFoundedOn(OpToRel(<, Nat), S)
      BY <2>1, NatLessThanWellFounded, IsWellFoundedOnSubset
    <2>4. PICK s \in S : \A t \in S : ~(<<t, s>> \in OpToRel(<, Nat))
      BY <2>1, <2>3, WFMin
    <2>5. ASSUME NEW t \in S PROVE s <= t
      <3>1. <<t, s>> \notin {p \in Nat \X Nat : p[1] < p[2]}
        BY <2>4, LessThan
      <3>2. t \in Nat /\ s \in Nat
        BY <2>1
      <3> QED BY <3>1, <3>2
    <2>6. Min(S) \in S
      BY <2>5 DEF Min
    <2> QED BY <1>1, <1>3, <2>2, <2>6 DEF S
  <1> QED BY <1>2, <1>3

\* CreateItem: a new item, or nothing.
LEMMA CreateOK ==
  ASSUME NEW i, NEW e, NEW k, PlayerOK(i, e, k, Nothing),
         NEW x \in Items, x \notin Has(i, e, Nothing),
         NEW j, j = SetItem(i, x, NextSlot(i)), NEW l, l = Noted(k, i, x, NextSlot(i))
  PROVE  /\ PlayerOK(j, e, l, Nothing)
         /\ \/ Has(j, e, Nothing) = Has(i, e, Nothing)
            \/ Has(j, e, Nothing) = Has(i, e, Nothing) \cup {x}
  <1>1. /\ Good(i, InvSlots, 9, k) /\ Good(e, EqSlots, 8, k) /\ k \in [Items -> Noting]
        /\ InvSlots \in Sizes /\ IsManager(i, InvSlots)
    BY SizeFacts DEF PlayerOK, Good
  <1>2. Has(i, e, Nothing) = Contents(i) \cup Contents(e)
    BY <1>1, NothingOK
  <1>3. CASE Filled(i) = Places(InvSlots)
    <2>1. j = i /\ l = k
      BY <1>1, <1>3, NextFree DEF SetItem, Noted
    <2> QED BY <2>1
  <1>4. CASE Filled(i) # Places(InvSlots)
    <2>1. NextSlot(i) \in Places(InvSlots) /\ i.at[NextSlot(i)] = NULL
      BY <1>1, <1>4, NextFree
    <2>2. /\ Good(j, InvSlots, 9, l) /\ Good(e, EqSlots, 8, l) /\ l \in [Items -> Noting]
          /\ Contents(j) = Contents(i) \cup {x}
      BY <1>1, <1>2, <2>1, PutOne
    <2>3. /\ HandOK(Nothing, j, e)
          /\ Has(j, e, Nothing) = Contents(j) \cup Contents(e)
      BY <2>2, NothingOK
    <2>4. PlayerOK(j, e, l, Nothing)
      BY <2>2, <2>3 DEF PlayerOK
    <2> QED BY <1>2, <2>2, <2>3, <2>4
  <1> QED BY <1>3, <1>4

-----------------------------------------------------------------------------
(* The visits                                                               *)

\* ClientDisconnect: what is saved is what the player had.
LEMMA SaveOK ==
  ASSUME NEW i, NEW e, NEW k, PlayerOK(i, e, k, Nothing)
  PROVE  /\ DumpOK(DumpItems(i, k), InvSlots, 9) /\ DumpOK(DumpItems(e, k), EqSlots, 8)
         /\ Rows(DumpItems(i, k)) \cap Rows(DumpItems(e, k)) = {}
         /\ Rows(DumpItems(i, k)) \cup Rows(DumpItems(e, k)) = Has(i, e, Nothing)
  <1>1. /\ Good(i, InvSlots, 9, k) /\ Good(e, EqSlots, 8, k)
        /\ InvSlots \in Sizes /\ EqSlots \in Sizes
    BY SizeFacts DEF PlayerOK
  <1>2. ASSUME NEW n \in Sizes, NEW ty, NEW m, Good(m, n, ty, k)
        PROVE  DumpOK(DumpItems(m, k), n, ty) /\ Rows(DumpItems(m, k)) = Contents(m)
    <2> DEFINE d == DumpItems(m, k)
    <2>1. /\ DumpOK(d, n, ty) /\ {m.at[s] : s \in DOMAIN d.note} = Contents(m)
          /\ d.rows = m.at
      BY <1>2, DumpGood
    <2> HIDE DEF d
    <2>2. RowsRead(d) = DOMAIN d.note
      BY <2>1, AllRead
    <2>3. Rows(d) = Contents(m)
      BY <2>1, <2>2 DEF Rows
    <2> QED BY <2>1, <2>3 DEF d
  <1>3. Contents(i) \cap Contents(e) = {}
    BY PlayerFacts
  <1>4. Has(i, e, Nothing) = Contents(i) \cup Contents(e)
    BY <1>1, NothingOK
  <1> QED BY <1>1, <1>2, <1>3, <1>4

\* UserLogin: what the player has is what was saved.
LEMMA LoadOK ==
  ASSUME NEW d, DumpOK(d.inv, InvSlots, 9), DumpOK(d.eq, EqSlots, 8),
         Rows(d.inv) \cap Rows(d.eq) = {},
         NEW n, n = [x \in Items |-> CASE x \in Rows(d.inv) -> NotesRead(d.inv)[x]
                                    [] x \in Rows(d.eq) \ Rows(d.inv) -> NotesRead(d.eq)[x]
                                    [] OTHER -> Blank[x]],
         NEW i, i = LoadItemDump(New(InvSlots), d.inv),
         NEW e, e = LoadItemDump(New(EqSlots), d.eq)
  PROVE  /\ PlayerOK(i, e, n, Nothing)
         /\ Has(i, e, Nothing) = Rows(d.inv) \cup Rows(d.eq)
  <1> DEFINE D == DOMAIN d.inv.note
             E == DOMAIN d.eq.note
  <1>1. InvSlots \in Sizes /\ EqSlots \in Sizes
    BY SizeFacts
  <1>2. /\ D \subseteq Places(InvSlots) /\ E \subseteq Places(EqSlots)
        /\ Rows(d.inv) = {d.inv.rows[s] : s \in D} /\ Rows(d.inv) \subseteq Items
        /\ Rows(d.eq) = {d.eq.rows[s] : s \in E} /\ Rows(d.eq) \subseteq Items
    <2>1. /\ RowsRead(d.inv) = D /\ D = {s \in Places(InvSlots) : d.inv.rows[s] # NULL}
          /\ Rows(d.inv) \subseteq Items
      BY <1>1, AllRead
    <2>2. /\ RowsRead(d.eq) = E /\ E = {s \in Places(EqSlots) : d.eq.rows[s] # NULL}
          /\ Rows(d.eq) \subseteq Items
      BY <1>1, AllRead
    <2> QED BY <2>1, <2>2 DEF Rows
  <1>3. ASSUME NEW s \in D PROVE n[d.inv.rows[s]] = [slot |-> s, type |-> 9]
    <2>1. NotesRead(d.inv)[d.inv.rows[s]] = [slot |-> s, type |-> 9]
      BY <1>1, NoteOfRow
    <2>2. d.inv.rows[s] \in Rows(d.inv) /\ d.inv.rows[s] \in Items
      BY <1>2
    <2> HIDE DEF D, E
    <2> QED BY <2>1, <2>2
  <1>4. ASSUME NEW s \in E PROVE n[d.eq.rows[s]] = [slot |-> s, type |-> 8]
    <2>1. NotesRead(d.eq)[d.eq.rows[s]] = [slot |-> s, type |-> 8]
      BY <1>1, NoteOfRow
    <2>2. /\ d.eq.rows[s] \in Rows(d.eq) /\ d.eq.rows[s] \in Items
          /\ d.eq.rows[s] \notin Rows(d.inv)
      BY <1>2
    <2> HIDE DEF D, E
    <2> QED BY <2>1, <2>2
  <1>5. n \in [Items -> Noting]
    <2>1. ASSUME NEW x \in Items PROVE n[x] \in Noting
      <3>1. CASE x \in Rows(d.inv)
        <4>1. PICK s \in D : x = d.inv.rows[s]
          BY <1>2, <3>1
        <4>2. s \in 0..255
          BY <1>1, <1>2, SizeFacts
        <4>3. n[x] = [slot |-> s, type |-> 9]
          BY <1>3, <4>1
        <4> QED BY <4>2, <4>3 DEF Noting
      <3>2. CASE x \in Rows(d.eq)
        <4>1. PICK s \in E : x = d.eq.rows[s]
          BY <1>2, <3>2
        <4>2. s \in 0..255
          BY <1>1, <1>2, SizeFacts
        <4>3. n[x] = [slot |-> s, type |-> 8]
          BY <1>4, <4>1
        <4> QED BY <4>2, <4>3 DEF Noting
      <3>3. CASE x \notin Rows(d.inv) /\ x \notin Rows(d.eq)
        <4>1. n[x] = Blank[x]
          BY <3>3
        <4>2. Blank[x] = [slot |-> 0, type |-> 0]
          BY DEF Blank
        <4> QED BY <4>1, <4>2 DEF Noting
      <3> QED BY <3>1, <3>2, <3>3
    <2> QED BY <2>1
  <1>6. Good(i, InvSlots, 9, n) /\ Contents(i) = Rows(d.inv)
    BY <1>1, <1>3, GoodLoad
  <1>7. Good(e, EqSlots, 8, n) /\ Contents(e) = Rows(d.eq)
    BY <1>1, <1>4, GoodLoad
  <1>8. HandOK(Nothing, i, e) /\ Has(i, e, Nothing) = Contents(i) \cup Contents(e)
    BY <1>6, <1>7, NothingOK
  <1> QED BY <1>5, <1>6, <1>7, <1>8 DEF PlayerOK

-----------------------------------------------------------------------------
(* The steps                                                                *)

LEMMA ItemsHeld ==
  /\ \A c : HeldItems(c) = Has(inv[c], eq[c], hand[c])
  /\ \A c : HeldItems(c)' = Has(inv'[c], eq'[c], hand'[c])
  <1>1. \A c : HeldItems(c) = Has(inv[c], eq[c], hand[c])
    BY DEF HeldItems, HandItems, Has
  <1>2. \A c : HeldItems(c)' = Has(inv'[c], eq'[c], hand'[c])
    BY DEF HeldItems, HandItems, Has, Contents, Filled
  <1> QED BY <1>1, <1>2

\* A handler changes what is its player's.
LEMMA OfOnePlayer ==
  ASSUME ItemInv, NEW c \in Clients, c \in playing, playing' = playing, saved' = saved,
         NEW i, inv' = [inv EXCEPT ![c] = i], NEW e, eq' = [eq EXCEPT ![c] = e],
         NEW k, note' = [note EXCEPT ![c] = k], NEW h, hand' = [hand EXCEPT ![c] = h],
         PlayerOK(i, e, k, h)
  PROVE  /\ ItemInv'
         /\ \A d \in Clients \ {c} : HeldItems(d)' = HeldItems(d)
         /\ HeldItems(c)' = Has(i, e, h)
         /\ \A x \in Chars : SavedItems(x)' = SavedItems(x)
  <1>1. Tables'
    BY DEF ItemInv, Tables
  <1>2. inv'[c] = i /\ eq'[c] = e /\ note'[c] = k /\ hand'[c] = h
    BY DEF ItemInv, Tables
  <1>3. \A d \in Clients \ {c} : /\ inv'[d] = inv[d] /\ eq'[d] = eq[d]
                                 /\ note'[d] = note[d] /\ hand'[d] = hand[d]
    BY DEF ItemInv, Tables
  <1>4. ASSUME NEW d \in Clients PROVE ClientOK(d)'
    <2>1. CASE d = c
      BY <1>2, <2>1 DEF ClientOK
    <2>2. CASE d # c
      BY <1>3, <2>2 DEF ItemInv, ClientOK
    <2> QED BY <2>1, <2>2
  <1>5. \A x \in Chars : SavedOK(x)'
    BY DEF ItemInv, SavedOK
  <1>6. ItemInv'
    BY <1>1, <1>4, <1>5 DEF ItemInv
  <1>7. \A x \in Chars : SavedItems(x)' = SavedItems(x)
    BY DEF SavedItems
  <1>8. \A d \in Clients \ {c} : HeldItems(d)' = HeldItems(d)
    BY <1>3, ItemsHeld
  <1>9. HeldItems(c)' = Has(i, e, h)
    BY <1>2, ItemsHeld
  <1> QED BY <1>6, <1>7, <1>8, <1>9

\* What a client in the game has.
LEMMA InGame ==
  ASSUME ItemInv, NEW c \in Clients, Ready(c)
  PROVE  /\ c \in playing /\ PlayerOK(inv[c], eq[c], note[c], Nothing)
         /\ HeldItems(c) = Has(inv[c], eq[c], Nothing)
         /\ DOMAIN inv[c].at = Places(InvSlots) /\ DOMAIN eq[c].at = Places(EqSlots)
         /\ inv = [inv EXCEPT ![c] = inv[c]] /\ eq = [eq EXCEPT ![c] = eq[c]]
         /\ note = [note EXCEPT ![c] = note[c]] /\ hand = [hand EXCEPT ![c] = Nothing]
  <1>1. c \in playing /\ hand[c] = Nothing
    BY DEF Ready
  <1>2. PlayerOK(inv[c], eq[c], note[c], Nothing)
    BY <1>1 DEF ItemInv, ClientOK
  <1>3. HeldItems(c) = Has(inv[c], eq[c], Nothing)
    BY <1>1, ItemsHeld
  <1>4. DOMAIN inv[c].at = Places(InvSlots) /\ DOMAIN eq[c].at = Places(EqSlots)
    BY <1>2, PlayerFacts
  <1>5. /\ inv = [inv EXCEPT ![c] = inv[c]] /\ eq = [eq EXCEPT ![c] = eq[c]]
        /\ note = [note EXCEPT ![c] = note[c]] /\ hand = [hand EXCEPT ![c] = hand[c]]
    BY DEF ItemInv, Tables
  <1> QED BY <1>1, <1>2, <1>3, <1>4, <1>5

\* To the player nothing has happened.
Still == /\ ItemInv'
         /\ playing' = playing
         /\ \A d \in Clients : HeldItems(d)' = HeldItems(d)
         /\ \A x \in Chars : SavedItems(x)' = SavedItems(x)

LEMMA MoveStep ==
  ASSUME ItemInv, NEW c \in Clients, MoveInvItem(c)
  PROVE  Still
  <1>1. Ready(c)
    BY DEF MoveInvItem
  <1>2. PICK a, b \in Places(InvSlots) :
          /\ inv' = [inv EXCEPT ![c] = SwapItems(inv[c], a, b)]
          /\ note' = [note EXCEPT ![c] = NotedBySwap(note[c], inv[c], a, b)]
          /\ playing' = playing /\ eq' = eq /\ hand' = hand /\ saved' = saved
    BY <1>1, InGame DEF MoveInvItem
  <1> DEFINE i == SwapItems(inv[c], a, b)
             k == NotedBySwap(note[c], inv[c], a, b)
             e == eq[c]
             h == Nothing
  <1>3. PlayerOK(i, e, k, h) /\ Has(i, e, h) = Has(inv[c], e, h)
    BY <1>1, InGame, MoveOK
  <1>4. /\ c \in playing /\ eq' = [eq EXCEPT ![c] = e] /\ hand' = [hand EXCEPT ![c] = h]
        /\ HeldItems(c) = Has(inv[c], e, h)
    BY <1>1, <1>2, InGame
  <1>5. /\ inv' = [inv EXCEPT ![c] = i] /\ note' = [note EXCEPT ![c] = k]
        /\ playing' = playing /\ saved' = saved
    BY <1>2
  <1> HIDE DEF i, e, k, h
  <1>6. /\ ItemInv' /\ \A d \in Clients \ {c} : HeldItems(d)' = HeldItems(d)
        /\ HeldItems(c)' = Has(i, e, h)
        /\ \A x \in Chars : SavedItems(x)' = SavedItems(x)
    BY <1>3, <1>4, <1>5, OfOnePlayer
  <1> QED BY <1>3, <1>4, <1>5, <1>6 DEF Still

LEMMA TakeStep ==
  ASSUME ItemInv, NEW c \in Clients, Ready(c),
         NEW s \in Places(InvSlots), NEW x \in Places(EqSlots), TakeToEquip(c, s, x)
  PROVE  Still
  <1> DEFINE i == RemoveItem(inv[c], s)
             e == RemoveItem(eq[c], x)
             h == [toEq |-> inv[c].at[s], eqSlot |-> x, toInv |-> eq[c].at[x], invSlot |-> s]
  <1>1. /\ inv[c].at[s] # NULL /\ inv' = [inv EXCEPT ![c] = i]
        /\ eq' = [eq EXCEPT ![c] = e] /\ hand' = [hand EXCEPT ![c] = h]
        /\ playing' = playing /\ note' = note /\ saved' = saved
    BY DEF TakeToEquip
  <1>2. PlayerOK(i, e, note[c], h) /\ Has(i, e, h) = Has(inv[c], eq[c], Nothing)
    BY <1>1, InGame, TakeOK
  <1>3. /\ c \in playing /\ note' = [note EXCEPT ![c] = note[c]]
        /\ HeldItems(c) = Has(inv[c], eq[c], Nothing)
    BY <1>1, InGame
  <1> HIDE DEF i, e, h
  <1>4. /\ ItemInv' /\ \A d \in Clients \ {c} : HeldItems(d)' = HeldItems(d)
        /\ HeldItems(c)' = Has(i, e, h)
        /\ \A k \in Chars : SavedItems(k)' = SavedItems(k)
    BY <1>1, <1>2, <1>3, OfOnePlayer, ZenonT(30)
  <1> QED BY <1>1, <1>2, <1>3, <1>4 DEF Still

LEMMA EquipStep ==
  ASSUME ItemInv, NEW c \in Clients, EquipInvItem(c) \/ EquipInvItemSlot(c)
  PROVE  Still
  <1>1. Ready(c)
    BY DEF EquipInvItem, EquipInvItemSlot
  <1>2. /\ PlayerOK(inv[c], eq[c], note[c], Nothing)
        /\ DOMAIN inv[c].at = Places(InvSlots) /\ DOMAIN eq[c].at = Places(EqSlots)
    BY <1>1, InGame
  <1>3. \A s \in Filled(inv[c]) : s \in Places(InvSlots) /\ inv[c].at[s] \in Items
    BY <1>2, PlayerFacts
  <1>4. \A i \in Items : EquipSlot[i] \in Places(EqSlots)
    BY EquipTable DEF Places
  <1>5. \E s \in Places(InvSlots), x \in Places(EqSlots) : TakeToEquip(c, s, x)
    <2>1. CASE EquipInvItem(c)
      BY <1>3, <1>4, <2>1 DEF EquipInvItem
    <2>2. CASE EquipInvItemSlot(c)
      BY <1>2, <2>2 DEF EquipInvItemSlot
    <2> QED BY <2>1, <2>2
  <1> QED BY <1>1, <1>5, TakeStep

LEMMA UnequipStep ==
  ASSUME ItemInv, NEW c \in Clients, UnequipInvItem(c)
  PROVE  Still
  <1>1. Ready(c)
    BY DEF UnequipInvItem
  <1>2. PICK x \in Places(EqSlots), s \in Places(InvSlots) :
          /\ eq[c].at[x] # NULL /\ inv[c].at[s] = NULL
          /\ hand' = [hand EXCEPT ![c] = [Nothing EXCEPT !.toInv = eq[c].at[x], !.invSlot = s]]
          /\ eq' = [eq EXCEPT ![c] = RemoveItem(eq[c], x)]
          /\ playing' = playing /\ inv' = inv /\ note' = note /\ saved' = saved
    <2>1. \E x \in DOMAIN eq[c].at, s \in DOMAIN inv[c].at :
            /\ eq[c].at[x] # NULL /\ inv[c].at[s] = NULL
            /\ hand' = [hand EXCEPT ![c] = [Nothing EXCEPT !.toInv = eq[c].at[x],
                                                          !.invSlot = s]]
            /\ eq' = [eq EXCEPT ![c] = RemoveItem(eq[c], x)]
      BY Zenon DEF UnequipInvItem
    <2>2. playing' = playing /\ inv' = inv /\ note' = note /\ saved' = saved
      BY DEF UnequipInvItem
    <2>3. DOMAIN inv[c].at = Places(InvSlots) /\ DOMAIN eq[c].at = Places(EqSlots)
      BY <1>1, InGame
    <2> QED BY <2>1, <2>2, <2>3, Zenon
  <1> DEFINE i == inv[c]
             k == note[c]
             e == RemoveItem(eq[c], x)
             h == [toEq |-> NULL, eqSlot |-> 0, toInv |-> eq[c].at[x], invSlot |-> s]
  <1>3. [Nothing EXCEPT !.toInv = eq[c].at[x], !.invSlot = s] = h
    <2> DEFINE o == [f \in {"toEq", "eqSlot", "toInv", "invSlot"} |->
                       IF f = "toInv" THEN eq[c].at[x] ELSE IF f = "invSlot" THEN s
                       ELSE Nothing[f]]
    <2>1. [Nothing EXCEPT !.toInv = eq[c].at[x], !.invSlot = s] = o
      BY DEF Nothing
    <2>2. o = h
      BY DEF Nothing
    <2> QED BY <2>1, <2>2
  <1>4. PlayerOK(i, e, k, h) /\ Has(i, e, h) = Has(i, eq[c], Nothing)
    BY <1>1, <1>2, InGame, UnequipOK
  <1>5. /\ c \in playing /\ note' = [note EXCEPT ![c] = k] /\ inv' = [inv EXCEPT ![c] = i]
        /\ HeldItems(c) = Has(i, eq[c], Nothing)
    BY <1>1, <1>2, InGame
  <1>6. /\ hand' = [hand EXCEPT ![c] = h] /\ eq' = [eq EXCEPT ![c] = e]
        /\ playing' = playing /\ saved' = saved
    BY <1>2, <1>3
  <1> HIDE DEF i, e, k, h
  <1>7. /\ ItemInv' /\ \A d \in Clients \ {c} : HeldItems(d)' = HeldItems(d)
        /\ HeldItems(c)' = Has(i, e, h)
        /\ \A d \in Chars : SavedItems(d)' = SavedItems(d)
    BY <1>4, <1>5, <1>6, OfOnePlayer
  <1> QED BY <1>4, <1>5, <1>6, <1>7 DEF Still

LEMMA PutStep ==
  ASSUME ItemInv, NEW c \in Clients, PutItems(c)
  PROVE  Still
  <1> DEFINE p == hand[c]
             e == IF p.toEq = NULL THEN eq[c] ELSE SetItem(eq[c], p.toEq, p.eqSlot)
             i == IF p.toInv = NULL THEN inv[c] ELSE SetItem(inv[c], p.toInv, p.invSlot)
             l == IF p.toEq = NULL THEN note[c] ELSE Noted(note[c], eq[c], p.toEq, p.eqSlot)
             k == IF p.toInv = NULL THEN l ELSE Noted(l, inv[c], p.toInv, p.invSlot)
             h == Nothing
  <1>1. c \in playing /\ PlayerOK(inv[c], eq[c], note[c], p)
    BY DEF ItemInv, ClientOK, PutItems
  <1>2. /\ eq' = [eq EXCEPT ![c] = e] /\ inv' = [inv EXCEPT ![c] = i]
        /\ note' = [note EXCEPT ![c] = k] /\ hand' = [hand EXCEPT ![c] = h]
        /\ playing' = playing /\ saved' = saved
    BY Zenon DEF PutItems
  <1>3. PlayerOK(i, e, k, h) /\ Has(i, e, h) = Has(inv[c], eq[c], p)
    BY <1>1, PutOK
  <1>4. HeldItems(c) = Has(inv[c], eq[c], p)
    BY ItemsHeld
  <1> HIDE DEF i, e, k, h
  <1>5. /\ ItemInv' /\ \A d \in Clients \ {c} : HeldItems(d)' = HeldItems(d)
        /\ HeldItems(c)' = Has(i, e, h)
        /\ \A x \in Chars : SavedItems(x)' = SavedItems(x)
    BY <1>1, <1>2, <1>3, OfOnePlayer, ZenonT(30)
  <1> QED BY <1>2, <1>3, <1>4, <1>5 DEF Still

LEMMA CreateStep ==
  ASSUME ItemInv, NEW c \in Clients, CreateItem(c)
  PROVE  /\ ItemInv' /\ c \in playing /\ playing' = playing
         /\ \A d \in Clients \ {c} : HeldItems(d)' = HeldItems(d)
         /\ \/ HeldItems(c)' = HeldItems(c)
            \/ \E x \in Items \ HeldItems(c) : HeldItems(c)' = HeldItems(c) \cup {x}
         /\ \A x \in Chars : SavedItems(x)' = SavedItems(x)
  <1>1. Ready(c)
    BY DEF CreateItem
  <1>2. PICK x \in Items :
          /\ x \notin HeldItems(c)
          /\ inv' = [inv EXCEPT ![c] = SetItem(inv[c], x, NextSlot(inv[c]))]
          /\ note' = [note EXCEPT ![c] = Noted(note[c], inv[c], x, NextSlot(inv[c]))]
    BY Zenon DEF CreateItem
  <1> DEFINE i == SetItem(inv[c], x, NextSlot(inv[c]))
             k == Noted(note[c], inv[c], x, NextSlot(inv[c]))
             e == eq[c]
             h == Nothing
  <1>3. /\ playing' = playing /\ eq' = eq /\ hand' = hand /\ saved' = saved
    BY DEF CreateItem
  <1>4. HeldItems(c) = Has(inv[c], e, h) /\ PlayerOK(inv[c], e, note[c], h)
    BY <1>1, InGame
  <1>5. Has(i, e, h) = Has(inv[c], e, h) \/ Has(i, e, h) = Has(inv[c], e, h) \cup {x}
    BY <1>2, <1>4, CreateOK
  <1>6. PlayerOK(i, e, k, h)
    BY <1>2, <1>4, CreateOK
  <1>7. /\ eq' = [eq EXCEPT ![c] = e] /\ hand' = [hand EXCEPT ![c] = h]
        /\ c \in playing /\ playing' = playing /\ saved' = saved
    BY <1>1, <1>3, InGame
  <1>8. inv' = [inv EXCEPT ![c] = i] /\ note' = [note EXCEPT ![c] = k]
    BY <1>2
  <1> HIDE DEF i, e, k, h
  <1>9. /\ ItemInv' /\ \A d \in Clients \ {c} : HeldItems(d)' = HeldItems(d)
        /\ HeldItems(c)' = Has(i, e, h)
        /\ \A d \in Chars : SavedItems(d)' = SavedItems(d)
    BY <1>6, <1>7, <1>8, OfOnePlayer
  <1> QED BY <1>2, <1>4, <1>5, <1>7, <1>9

LEMMA LoginStep ==
  ASSUME ItemInv, NEW c \in Clients, UserLogin(c)
  PROVE  /\ ItemInv' /\ c \notin playing /\ playing' = playing \cup {c}
         /\ \A d \in Clients \ {c} : HeldItems(d)' = HeldItems(d)
         /\ HeldItems(c)' = SavedItems(Char[c])
         /\ \A x \in Chars : SavedItems(x)' = SavedItems(x)
  <1> DEFINE d == saved[Char[c]]
             i == LoadItemDump(New(InvSlots), d.inv)
             e == LoadItemDump(New(EqSlots), d.eq)
             n == [x \in Items |-> CASE x \in Rows(d.inv) -> NotesRead(d.inv)[x]
                                   [] x \in Rows(d.eq) \ Rows(d.inv) -> NotesRead(d.eq)[x]
                                   [] OTHER -> Blank[x]]
  <1>1. /\ c \notin playing /\ playing' = playing \cup {c}
        /\ inv' = [inv EXCEPT ![c] = i] /\ eq' = [eq EXCEPT ![c] = e]
        /\ note' = [note EXCEPT ![c] = n] /\ hand' = hand /\ saved' = saved
    BY Zenon DEF UserLogin
  <1>2. hand[c] = Nothing
    BY <1>1 DEF ItemInv, ClientOK
  <1>3. SavedOK(Char[c])
    BY CharOfClient DEF ItemInv
  <1>4. /\ PlayerOK(i, e, n, Nothing)
        /\ Has(i, e, Nothing) = Rows(d.inv) \cup Rows(d.eq)
    BY <1>3, LoadOK DEF SavedOK
  <1>5. SavedItems(Char[c]) = Rows(d.inv) \cup Rows(d.eq)
    BY DEF SavedItems
  <1> HIDE DEF d, i, e, n
  <1>6. Tables'
    BY <1>1 DEF ItemInv, Tables
  <1>7. inv'[c] = i /\ eq'[c] = e /\ note'[c] = n /\ hand'[c] = Nothing
    BY <1>1, <1>2 DEF ItemInv, Tables
  <1>8. \A x \in Clients \ {c} : /\ inv'[x] = inv[x] /\ eq'[x] = eq[x]
                                 /\ note'[x] = note[x] /\ hand'[x] = hand[x]
                                 /\ (x \in playing' <=> x \in playing)
    BY <1>1 DEF ItemInv, Tables
  <1>9. ASSUME NEW x \in Clients PROVE ClientOK(x)'
    <2>1. CASE x = c
      BY <1>1, <1>4, <1>7, <2>1 DEF ClientOK
    <2>2. CASE x # c
      BY <1>8, <2>2 DEF ItemInv, ClientOK
    <2> QED BY <2>1, <2>2
  <1>10. \A x \in Chars : SavedOK(x)' /\ SavedItems(x)' = SavedItems(x)
    BY <1>1 DEF ItemInv, SavedOK, SavedItems
  <1>11. \A x \in Clients \ {c} : HeldItems(x)' = HeldItems(x)
    BY <1>8, ItemsHeld
  <1>12. HeldItems(c)' = SavedItems(Char[c])
    BY <1>4, <1>5, <1>7, ItemsHeld
  <1> QED BY <1>1, <1>6, <1>9, <1>10, <1>11, <1>12 DEF ItemInv

LEMMA NewHasNone == Has(New(InvSlots), New(EqSlots), Nothing) = {}
  <1>1. Contents(New(InvSlots)) = {} /\ Contents(New(EqSlots)) = {}
    BY SizeFacts, NewIsManager
  <1> QED BY <1>1 DEF Has, Nothing

LEMMA DisconnectStep ==
  ASSUME ItemInv, NEW c \in Clients, ClientDisconnect(c)
  PROVE  /\ ItemInv' /\ c \in playing /\ playing' = playing \ {c}
         /\ \A d \in Clients \ {c} : HeldItems(d)' = HeldItems(d)
         /\ HeldItems(c)' = {}
         /\ \A x \in Chars \ {Char[c]} : SavedItems(x)' = SavedItems(x)
         /\ SavedItems(Char[c])' = HeldItems(c)
  <1> DEFINE i == DumpItems(inv[c], note[c])
             e == DumpItems(eq[c], note[c])
             d == [inv |-> i, eq |-> e]
  <1>1. Ready(c)
    BY DEF ClientDisconnect
  <1>2. /\ saved' = [saved EXCEPT ![Char[c]] = d] /\ playing' = playing \ {c}
        /\ inv' = [inv EXCEPT ![c] = New(InvSlots)] /\ eq' = [eq EXCEPT ![c] = New(EqSlots)]
        /\ note' = [note EXCEPT ![c] = Blank] /\ hand' = hand
    BY Zenon DEF ClientDisconnect
  <1>3. /\ DumpOK(i, InvSlots, 9) /\ DumpOK(e, EqSlots, 8) /\ Rows(i) \cap Rows(e) = {}
        /\ Rows(i) \cup Rows(e) = HeldItems(c) /\ c \in playing /\ hand[c] = Nothing
    BY <1>1, InGame, SaveOK DEF Ready
  <1>4. d.inv = i /\ d.eq = e /\ Char[c] \in Chars
    BY CharOfClient
  <1> HIDE DEF d, i, e
  <1>5. Tables'
    BY <1>2 DEF ItemInv, Tables
  <1>6. /\ inv'[c] = New(InvSlots) /\ eq'[c] = New(EqSlots) /\ hand'[c] = Nothing
        /\ c \notin playing'
    BY <1>2, <1>3 DEF ItemInv, Tables
  <1>7. \A x \in Clients \ {c} : /\ inv'[x] = inv[x] /\ eq'[x] = eq[x]
                                 /\ note'[x] = note[x] /\ hand'[x] = hand[x]
                                 /\ (x \in playing' <=> x \in playing)
    BY <1>2 DEF ItemInv, Tables
  <1>8. saved'[Char[c]] = d /\ \A x \in Chars \ {Char[c]} : saved'[x] = saved[x]
    BY <1>2, <1>4 DEF ItemInv, Tables
  <1>9. ASSUME NEW x \in Clients PROVE ClientOK(x)'
    <2>1. CASE x = c
      BY <1>6, <2>1 DEF ClientOK
    <2>2. CASE x # c
      BY <1>7, <2>2 DEF ItemInv, ClientOK
    <2> QED BY <2>1, <2>2
  <1>10. ASSUME NEW x \in Chars PROVE SavedOK(x)'
    <2>1. CASE x = Char[c]
      BY <1>3, <1>4, <1>8, <2>1 DEF SavedOK
    <2>2. CASE x # Char[c]
      BY <1>8, <2>2 DEF ItemInv, SavedOK
    <2> QED BY <2>1, <2>2
  <1>11. \A x \in Clients \ {c} : HeldItems(x)' = HeldItems(x)
    BY <1>7, ItemsHeld
  <1>12. HeldItems(c)' = {}
    BY <1>6, NewHasNone, ItemsHeld
  <1>13. /\ \A x \in Chars \ {Char[c]} : SavedItems(x)' = SavedItems(x)
         /\ SavedItems(Char[c])' = HeldItems(c)
    BY <1>3, <1>4, <1>8 DEF SavedItems
  <1> QED BY <1>2, <1>3, <1>5, <1>9, <1>10, <1>11, <1>12, <1>13 DEF ItemInv

LEMMA ItemInvInit == Init => /\ ItemInv /\ \A c \in Clients : HeldItems(c) = {}
                             /\ \A k \in Chars : SavedItems(k) = {}
  <1> SUFFICES ASSUME Init PROVE /\ ItemInv /\ \A c \in Clients : HeldItems(c) = {}
                                 /\ \A k \in Chars : SavedItems(k) = {}
    OBVIOUS
  <1>1. Tables
    BY DEF Init, Tables
  <1>2. \A c \in Clients : /\ c \notin playing /\ hand[c] = Nothing
                           /\ inv[c] = New(InvSlots) /\ eq[c] = New(EqSlots)
    BY DEF Init
  <1>3. ASSUME NEW n \in Sizes, NEW ty
        PROVE  DumpOK(EmptyDump(ty, n), n, ty) /\ Rows(EmptyDump(ty, n)) = {}
    <2> DEFINE d == EmptyDump(ty, n)
    <2>1. /\ d.count = 0 /\ d.type = ty /\ d.rows = [s \in Places(n) |-> NULL]
          /\ d.note = [s \in {} |-> Blank]
      BY DEF EmptyDump, New, Places
    <2> HIDE DEF d
    <2>2. DOMAIN d.note = {} /\ Cardinality(DOMAIN d.note) = 0
      BY <2>1, FS_EmptySet
    <2>3. {p \in Places(n) : d.rows[p] # NULL} = {}
      BY <2>1
    <2>4. d.note = [s \in {} |-> [slot |-> s, type |-> ty]]
      BY <2>1
    <2>5. DumpOK(d, n, ty)
      BY <2>1, <2>2, <2>3, <2>4 DEF DumpOK
    <2>6. Rows(d) = {}
      BY <2>2 DEF Rows, RowsRead
    <2> QED BY <2>5, <2>6 DEF d
  <1>4. \A k \in Chars : SavedOK(k) /\ SavedItems(k) = {}
    <2>1. \A k \in Chars : saved[k].inv = EmptyDump(9, InvSlots) /\ saved[k].eq = EmptyDump(8, EqSlots)
      BY DEF Init
    <2> QED BY <1>3, <2>1, SizeFacts DEF SavedOK, SavedItems
  <1>5. \A c \in Clients : HeldItems(c) = {}
    BY <1>2, NewHasNone, ItemsHeld
  <1> QED BY <1>1, <1>2, <1>4, <1>5 DEF ItemInv, ClientOK

\* A step is one of the abstract specification or changes nothing there.
LEMMA ItemStep == ItemInv /\ [Next]_vars => ItemInv' /\ [Held!Next]_(Held!vars)
  <1> SUFFICES ASSUME ItemInv, [Next]_vars PROVE ItemInv' /\ [Held!Next]_(Held!vars)
    OBVIOUS
  <1>1. CASE UNCHANGED vars
    <2>1. ItemInv'
      BY <1>1 DEF vars, ItemInv, Tables, ClientOK, SavedOK
    <2>2. UNCHANGED Held!vars
      BY <1>1 DEF vars, Held!vars, HeldItems, HandItems, Contents, Filled, SavedItems
    <2> QED BY <2>1, <2>2
  <1>2. CASE Still
    <2>1. UNCHANGED Held!vars
      BY <1>2 DEF Still, Held!vars
    <2> QED BY <1>2, <2>1 DEF Still
  <1>3. ASSUME NEW c \in Clients, CreateItem(c) PROVE ItemInv' /\ [Held!Next]_(Held!vars)
    <2>1. /\ ItemInv' /\ c \in playing /\ playing' = playing
          /\ \A d \in Clients \ {c} : HeldItems(d)' = HeldItems(d)
          /\ \/ HeldItems(c)' = HeldItems(c)
             \/ \E x \in Items \ HeldItems(c) : HeldItems(c)' = HeldItems(c) \cup {x}
          /\ \A x \in Chars : SavedItems(x)' = SavedItems(x)
      BY <1>3, CreateStep
    <2>2. CASE HeldItems(c)' = HeldItems(c)
      BY <2>1, <2>2 DEF Held!vars
    <2>3. CASE \E x \in Items \ HeldItems(c) : HeldItems(c)' = HeldItems(c) \cup {x}
      <3>1. Held!Gain(c)
        BY <2>1, <2>3 DEF Held!Gain
      <3> QED BY <2>1, <3>1 DEF Held!Next
    <2> QED BY <2>1, <2>2, <2>3
  <1>4. ASSUME NEW c \in Clients, UserLogin(c) PROVE ItemInv' /\ [Held!Next]_(Held!vars)
    <2>1. /\ ItemInv' /\ c \notin playing /\ playing' = playing \cup {c}
          /\ \A d \in Clients \ {c} : HeldItems(d)' = HeldItems(d)
          /\ HeldItems(c)' = SavedItems(Char[c]) /\ Char[c] \in Chars
          /\ \A x \in Chars : SavedItems(x)' = SavedItems(x)
      BY <1>4, LoginStep, CharOfClient
    <2>2. Held!Enter(c)
      BY <2>1 DEF Held!Enter
    <2> QED BY <2>1, <2>2 DEF Held!Next
  <1>5. ASSUME NEW c \in Clients, ClientDisconnect(c)
        PROVE  ItemInv' /\ [Held!Next]_(Held!vars)
    <2>1. /\ ItemInv' /\ c \in playing /\ playing' = playing \ {c}
          /\ \A d \in Clients \ {c} : HeldItems(d)' = HeldItems(d)
          /\ HeldItems(c)' = {}
          /\ \A x \in Chars \ {Char[c]} : SavedItems(x)' = SavedItems(x)
          /\ SavedItems(Char[c])' = HeldItems(c)
      BY <1>5, DisconnectStep
    <2>2. Held!Leave(c)
      BY <2>1 DEF Held!Leave
    <2> QED BY <2>1, <2>2 DEF Held!Next
  <1>6. ASSUME NEW c \in Clients, Handler(c) PROVE ItemInv' /\ [Held!Next]_(Held!vars)
    BY <1>2, <1>3, <1>4, <1>5, <1>6, MoveStep, EquipStep, UnequipStep, PutStep DEF Handler
  <1> QED BY <1>1, <1>6 DEF Next

LEMMA ItemsInvariant == Spec => []ItemInv
  <1>1. Init => ItemInv
    BY ItemInvInit
  <1>2. ItemInv /\ [Next]_vars => ItemInv'
    BY ItemStep
  <1> QED BY <1>1, <1>2, PTL DEF Spec

LEMMA Injective ==
  ASSUME NEW m, \A s, t \in Filled(m) : m.at[s] = m.at[t] => s = t
  PROVE  IsInjective(Restrict(m.at, Filled(m)))
  BY DEF IsInjective, Restrict

\* Between any two steps of any handlers an item is in one slot of one manager
\* of a player or in the hands of one handler (CItems.hpp:303-343,
\* CGameServer.cpp:225-376).
THEOREM ItemsInOnePlace == Spec => []OnePlaceEach
  <1>1. ItemInv => OnePlaceEach
    <2> SUFFICES ASSUME ItemInv, NEW c \in Clients
                 PROVE  /\ IsInjective(Restrict(inv[c].at, Filled(inv[c])))
                        /\ IsInjective(Restrict(eq[c].at, Filled(eq[c])))
                        /\ \A X, Y \in {Contents(inv[c]), Contents(eq[c]), HandItems(c)} :
                             X # Y => X \cap Y = {}
                        /\ hand[c].toEq = hand[c].toInv => hand[c] = Nothing
      BY DEF OnePlaceEach
    <2>1. CASE c \in playing
      <3>1. PlayerOK(inv[c], eq[c], note[c], hand[c])
        BY <2>1 DEF ItemInv, ClientOK
      <3>2. /\ \A s, t \in Filled(inv[c]) : inv[c].at[s] = inv[c].at[t] => s = t
            /\ \A s, t \in Filled(eq[c]) : eq[c].at[s] = eq[c].at[t] => s = t
        BY <3>1, OneSlotEach DEF PlayerOK
      <3>3. Contents(inv[c]) \cap Contents(eq[c]) = {}
        BY <3>1, PlayerFacts
      <3>4. /\ HandItems(c) \cap (Contents(inv[c]) \cup Contents(eq[c])) = {}
            /\ hand[c].toEq = hand[c].toInv => hand[c] = Nothing
        BY <3>1 DEF PlayerOK, HandOK, HandItems
      <3> QED BY <3>2, <3>3, <3>4, Injective
    <2>2. CASE c \notin playing
      <3>1. inv[c] = New(InvSlots) /\ eq[c] = New(EqSlots) /\ hand[c] = Nothing
        BY <2>2 DEF ItemInv, ClientOK
      <3>2. /\ Filled(inv[c]) = {} /\ Contents(inv[c]) = {}
            /\ Filled(eq[c]) = {} /\ Contents(eq[c]) = {}
        BY <3>1, NewIsManager, SizeFacts
      <3>3. HandItems(c) = {}
        BY <3>1 DEF HandItems, Nothing
      <3>4. /\ IsInjective(Restrict(inv[c].at, Filled(inv[c])))
            /\ IsInjective(Restrict(eq[c].at, Filled(eq[c])))
        BY <3>2, Injective
      <3>5. \A X, Y \in {Contents(inv[c]), Contents(eq[c]), HandItems(c)} : X \cap Y = {}
        BY <3>2, <3>3
      <3> QED BY <3>1, <3>4, <3>5
    <2> QED BY <2>1, <2>2
  <1> QED BY <1>1, ItemsInvariant, PTL

\* Only connections play.
LEMMA PlayersConnect == Spec => [](playing \subseteq Clients)
  <1>1. Init => playing \subseteq Clients
    BY DEF Init
  <1>2. playing \subseteq Clients /\ [Next]_vars => (playing \subseteq Clients)'
    BY DEF Next, vars, Handler, UserLogin, MoveInvItem, EquipInvItem, EquipInvItemSlot, TakeToEquip,
           UnequipInvItem, PutItems, CreateItem, ClientDisconnect
  <1> QED BY <1>1, <1>2, PTL DEF Spec

\* Between any two steps of any handlers a manager's count and its bytes, which
\* size the buffer of its next dump, are those of what it has, and what it has
\* notes where it is (CItems.hpp:246-261 and 303-343).
THEOREM ManagersCount == Spec => []ManagersExact
  <1>1. ItemInv /\ playing \subseteq Clients => ManagersExact
    <2> SUFFICES ASSUME ItemInv, playing \subseteq Clients, NEW c \in playing
                 PROVE  Exact(inv[c], note[c]) /\ Exact(eq[c], note[c])
      BY DEF ManagersExact
    <2>1. PlayerOK(inv[c], eq[c], note[c], hand[c])
      BY DEF ItemInv, ClientOK
    <2> QED BY <2>1 DEF PlayerOK, Good, Exact
  <1> QED BY <1>1, ItemsInvariant, PlayersConnect, PTL

\* To the player his items are a bag that is taken out of the database when he
\* enters and put back when he leaves: no move, dump or load loses or doubles
\* one (CItems.hpp:225-261, CGameServer.cpp:923-924 and 1088-1118).
THEOREM ItemsArePossessions == Spec => ImplementsPossession
  <1>1. Init => Held!Init
    <2> SUFFICES ASSUME Init PROVE Held!Init
      OBVIOUS
    <2>1. playing = {}
      BY DEF Init
    <2>2. /\ \A c \in Clients : HeldItems(c) = {}
          /\ \A k \in Chars : SavedItems(k) = {}
      BY ItemInvInit
    <2> QED BY <2>1, <2>2 DEF Held!Init
  <1>2. ItemInv /\ [Next]_vars => [Held!Next]_(Held!vars)
    BY ItemStep
  <1> QED BY <1>1, <1>2, ItemsInvariant, PTL DEF Spec, ImplementsPossession, Held!Spec
=============================================================================
