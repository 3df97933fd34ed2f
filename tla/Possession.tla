----------------------------- MODULE Possession -----------------------------
(***************************************************************************)
(* What the game server promises of a character's items: they enter the     *)
(* game with the character, only grow in it, and are what is saved when the *)
(* player leaves.  Where an item lies is of no account here.                *)
(***************************************************************************)
CONSTANTS
  Clients, Chars, \* the connections and the characters that they play
  Char,           \* connection -> its character
  Items

VARIABLES
  playing, \* the connections that are logged in
  held,    \* connection -> the items its player has
  saved    \* character -> the items in the database

vars == <<playing, held, saved>>

Init == /\ playing = {}
        /\ held = [c \in Clients |-> {}]
        /\ saved = [k \in Chars |-> {}]

Enter(c) == /\ c \notin playing
            /\ playing' = playing \cup {c}
            /\ held' = [held EXCEPT ![c] = saved[Char[c]]]
            /\ UNCHANGED saved

Gain(c) == /\ c \in playing
           /\ \E i \in Items \ held[c] : held' = [held EXCEPT ![c] = @ \cup {i}]
           /\ UNCHANGED <<playing, saved>>

Leave(c) == /\ c \in playing
            /\ playing' = playing \ {c}
            /\ held' = [held EXCEPT ![c] = {}]
            /\ saved' = [saved EXCEPT ![Char[c]] = held[c]]

Next == \E c \in Clients : Enter(c) \/ Gain(c) \/ Leave(c)

Spec == Init /\ [][Next]_vars
=============================================================================
