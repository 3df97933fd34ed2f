------------------------------ MODULE Database ------------------------------
(***************************************************************************)
(* The MySQL database the login, char and game servers share (the tables    *)
(* users and characters of database/TitanFiesta.SQL), and what CTitanSQL    *)
(* makes of the one connection a server process has to it.                  *)
(*                                                                         *)
(* DoSQL is two calls of the client library: mysql_query sends a SELECT,    *)
(* mysql_store_result fetches its rows.  Between the two the connection has *)
(* an answer pending, and the library refuses any other statement on it     *)
(* ("commands out of sync").  No lock is taken around the two, so that      *)
(* another worker thread's statement may fall in between.  Statements of    *)
(* two processes do not meet: each process has its own connection.          *)
(***************************************************************************)
EXTENDS Naturals, FiniteSets

CONSTANTS
  Users,       \* names of accounts
  Banned,      \* the accounts whose accesslevel is below 1
  Tokens,      \* login ids: 64 random bytes
  Names,       \* names of characters; two that differ in case are one
  Slots,
  MaxId        \* bound: rows ever created in characters

ASSUME AccountsKnown == Banned \subseteq Users
ASSUME MaxIdNat == MaxId \in Nat

None == "none"
Zero == "zero"          \* a login id of 64 zero bytes, the column's default
ASSUME TokensNamed == {None, Zero} \cap (Users \cup Tokens \cup Names) = {}

VARIABLES
  loginid,     \* users.loginid
  characters,  \* rows of characters, their quickbars reduced to who saved them
  lastId       \* AUTO_INCREMENT of characters

dbVars == <<loginid, characters, lastId>>

Rows == [id : 1..MaxId, owner : Users, name : Names, slot : Slots,
         bars : Users \cup {None}]

DBTypeOK == /\ loginid \in [Users -> Tokens \cup {Zero}]
            /\ characters \subseteq Rows
            /\ lastId \in 0..MaxId

\* No character yet; some accounts have the login id of an earlier login.
DBInit == /\ loginid \in {f \in [Users -> Tokens \cup {Zero}] :
                            \A u, v \in Users : f[u] = f[v] => u = v \/ f[u] = Zero}
          /\ characters = {}
          /\ lastId = 0

CharsOf(u) == {r \in characters : r.owner = u}
Named(n) == {r \in characters : r.name = n}

\* INSERT INTO characters: no column but id is unique.
Insert(u, n, sl) ==
  /\ lastId < MaxId
  /\ lastId' = lastId + 1
  /\ characters' = characters \cup
       {[id |-> lastId + 1, owner |-> u, name |-> n, slot |-> sl, bars |-> None]}
  /\ UNCHANGED loginid

\* UPDATE characters SET quickbars ... WHERE charname: every row of that name.
SaveBars(u, n) ==
  /\ characters' = {IF r.name = n THEN [r EXCEPT !.bars = u] ELSE r : r \in characters}
  /\ UNCHANGED <<loginid, lastId>>

\* DELETE FROM characters WHERE owner AND slot.
Delete(u, sl) ==
  /\ characters' = {r \in characters : ~(r.owner = u /\ r.slot = sl)}
  /\ UNCHANGED <<loginid, lastId>>

\* UPDATE users SET loginid.
SetLoginId(u, t) == /\ loginid' = [loginid EXCEPT ![u] = t]
                    /\ UNCHANGED <<characters, lastId>>
-----------------------------------------------------------------------------
(* A connection: the worker whose SELECT is pending, and the id that the    *)
(* last INSERT made.                                                        *)

FreshConn == [pending |-> None, insertId |-> 0]

\* mysql_query of a SELECT by worker w succeeds, and leaves its rows pending.
Sent(conn) == conn.pending = None
Asked(conn, w) == IF Sent(conn) THEN [conn EXCEPT !.pending = w] ELSE conn

\* mysql_store_result.
Fetched(conn, w) == IF conn.pending = w THEN [conn EXCEPT !.pending = None] ELSE conn
=============================================================================
