---------------------------- MODULE MCItemManager ----------------------------
(* Two connections of the same player, two slots in each manager.           *)
EXTENDS ItemManager

CONSTANTS c1, c2, k1, i1, i2, i3

MCChar == [c \in Clients |-> k1]
MCLength == [i \in Items |-> IF i = i1 THEN 6 ELSE 5]
MCEquipSlot == [i \in Items |-> 0]
=============================================================================
