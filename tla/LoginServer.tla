---------------------------- MODULE LoginServer ----------------------------
(***************************************************************************)
(* The packet handlers of the login server (Login Server/CLoginServer.cpp): *)
(* the account check, the list of worlds, and the choice of a world, which  *)
(* makes a new login id for the account and sends the client on.            *)
(*                                                                         *)
(* As in CharServer a handler is a sequence of steps: the calls into the    *)
(* MySQL library, and the use of a server record after GetServerByID has    *)
(* dropped its lock.                                                        *)
(***************************************************************************)
EXTENDS Database

CONSTANTS
  Players,       \* the programs of the players; each has one connection here
  LoginWorkers,  \* worker threads
  Worlds         \* the char servers the hub may tell of

ASSUME LoginWorkersFinite == IsFiniteSet(LoginWorkers) /\ None \notin LoginWorkers

VARIABLES
  account,   \* player -> CLoginClient: connected, and the account or None
  ltask,     \* worker -> the handler it runs
  lconn,     \* the process's MYSQL connection
  worlds,    \* ServerList: the records of type 2
  issued,    \* history: login ids ever made or found in the table
  lcrashed,
  lsent      \* packets sent by the last step

loginVars == <<account, ltask, lconn, worlds, issued, lcrashed, lsent>>

Away == [on |-> FALSE, id |-> None]
LIdle == [at |-> "idle"]

LoginInit == /\ account = [p \in Players |-> Away]
             /\ ltask = [w \in LoginWorkers |-> LIdle]
             /\ lconn = FreshConn
             /\ worlds = {}
             /\ issued = {loginid[u] : u \in Users}
             /\ lcrashed = FALSE
             /\ lsent = {}

LFree == ~lcrashed /\ \A w \in LoginWorkers : ltask[w] = LIdle
LServes(w, p) == ~lcrashed /\ ltask[w] = LIdle /\ account[p].on
                 /\ \A v \in LoginWorkers : (ltask[v] # LIdle => ltask[v].p # p)
LAt(w, place) == ~lcrashed /\ ltask[w].at = place
LGoto(w, t) == ltask' = [ltask EXCEPT ![w] = t]
LAlive == UNCHANGED lcrashed

Refusal(p) == [to |-> p, cmd |-> "0c09"]
-----------------------------------------------------------------------------
\* CreateNewClient, OnClientConnect; a connection that ends leaves nothing.
LConnect(p) ==
  /\ LFree /\ ~account[p].on
  /\ account' = [account EXCEPT ![p].on = TRUE]
  /\ lsent' = {[to |-> p, cmd |-> "0807"]}
  /\ LAlive /\ UNCHANGED <<dbVars, ltask, lconn, worlds, issued>>

LDisconnect(p) ==
  /\ LFree /\ account[p].on
  /\ account' = [account EXCEPT ![p] = Away]
  /\ lsent' = {}
  /\ LAlive /\ UNCHANGED <<dbVars, ltask, lconn, worlds, issued>>

\* The hub's thread: IDENTIFY and REMOVE of a char server.
WorldComes(g) == /\ ~lcrashed /\ worlds' = worlds \cup {g} /\ worlds' # worlds
                 /\ lsent' = {}
                 /\ LAlive /\ UNCHANGED <<dbVars, account, ltask, lconn, issued>>
WorldGoes(g) == /\ ~lcrashed /\ worlds' = worlds \ {g} /\ worlds' # worlds
                /\ lsent' = {}
                /\ LAlive /\ UNCHANGED <<dbVars, account, ltask, lconn, issued>>

\* pakUserLogin: clients of the European kind are turned away.
EuropeLogin(w, p) ==
  /\ LServes(w, p) /\ account[p].id = None
  /\ lsent' = {Refusal(p)}
  /\ LAlive /\ UNCHANGED <<dbVars, account, ltask, lconn, worlds, issued>>

\* pakTokenLogin, as far as mysql_query; u is the account that the name and the
\* password are of, None when they are of none or MakeSQLSafe changes the name.
AskAccount(w, p, u) ==
  /\ LServes(w, p) /\ account[p].id = None
  /\ lconn' = Asked(lconn, w)
  /\ LGoto(w, [at |-> "account", p |-> p, user |-> u, ok |-> Sent(lconn)])
  /\ lsent' = {}
  /\ LAlive /\ UNCHANGED <<dbVars, account, worlds, issued>>

\* Mutant: accesslevel < 1 is refused, but the id stays set.
CheckAccount_IdKept(w) ==
  /\ LAt(w, "account") /\ LGoto(w, LIdle)
  /\ lconn' = Fetched(lconn, w)
  /\ LET t == ltask[w] IN
       IF t.ok /\ t.user # None
         THEN /\ account' = [account EXCEPT ![t.p].id = t.user]
              /\ lsent' = IF t.user \in Banned THEN {Refusal(t.p)}
                          ELSE {[to |-> t.p, cmd |-> "0c0a", worlds |-> worlds]}
         ELSE lsent' = {Refusal(t.p)} /\ UNCHANGED account
  /\ LAlive /\ UNCHANGED <<dbVars, worlds, issued>>

\* One row, the password it has, an access level; then the list of worlds.
CheckAccount(w) ==
  /\ LAt(w, "account") /\ LGoto(w, LIdle)
  /\ lconn' = Fetched(lconn, w)
  /\ LET t == ltask[w] IN
       IF t.ok /\ t.user \notin {None} \cup Banned
         THEN /\ account' = [account EXCEPT ![t.p].id = t.user]
              /\ lsent' = {[to |-> t.p, cmd |-> "0c0a", worlds |-> worlds]}
         ELSE lsent' = {Refusal(t.p)} /\ UNCHANGED account
  /\ LAlive /\ UNCHANGED <<dbVars, worlds, issued>>

\* pakPing: the list again.
Ping(w, p) ==
  /\ LServes(w, p)
  /\ lsent' = {[to |-> p, cmd |-> "0c1c", worlds |-> worlds]}
  /\ LAlive /\ UNCHANGED <<dbVars, account, ltask, lconn, worlds, issued>>

\* pakJoinServer: GetServerByID returns the record and drops the lock; an
\* unknown world is not answered.
JoinServer(w, p, g) ==
  /\ LServes(w, p) /\ account[p].id # None
  /\ IF g \in worlds THEN LGoto(w, [at |-> "token", p |-> p, world |-> g])
                     ELSE UNCHANGED ltask
  /\ lsent' = {}
  /\ LAlive /\ UNCHANGED <<dbVars, account, lconn, worlds, issued>>

\* Mutant: the client is sent on with an id that is not stored.
StoreToken_Forgotten(w) ==
  /\ LAt(w, "token")
  /\ \E t \in Tokens \ issued :
       /\ issued' = issued \cup {t}
       /\ LGoto(w, [at |-> "send", p |-> ltask[w].p, world |-> ltask[w].world,
                    token |-> t])
  /\ lsent' = {}
  /\ LAlive /\ UNCHANGED <<dbVars, account, lconn, worlds>>

\* 64 random bytes, which no two joins share, go into the account's row.
StoreToken(w) ==
  /\ LAt(w, "token")
  /\ \E t \in Tokens \ issued :
       /\ IF Sent(lconn) THEN SetLoginId(account[ltask[w].p].id, t)
                         ELSE UNCHANGED dbVars
       /\ issued' = issued \cup {t}
       /\ LGoto(w, [at |-> "send", p |-> ltask[w].p, world |-> ltask[w].world,
                    token |-> t])
  /\ lsent' = {}
  /\ LAlive /\ UNCHANGED <<account, lconn, worlds>>

\* The record may have been deleted since: a crash, or an address of garbage.
SendWorld(w) ==
  /\ LAt(w, "send") /\ LGoto(w, LIdle)
  /\ LET t == ltask[w] IN
       \/ /\ lsent' = {[to |-> t.p, cmd |-> "0c0c", token |-> t.token,
                        world |-> IF t.world \in worlds THEN t.world ELSE "garbage"]}
          /\ LAlive
       \/ t.world \notin worlds /\ lcrashed' = TRUE /\ lsent' = {}
  /\ UNCHANGED <<dbVars, account, lconn, worlds, issued>>

LoginStep ==
  \/ \E g \in Worlds : WorldComes(g) \/ WorldGoes(g)
  \/ \E w \in LoginWorkers, p \in Players :
       \/ EuropeLogin(w, p) \/ Ping(w, p)
       \/ \E u \in Users \cup {None} : AskAccount(w, p, u)
       \/ \E g \in Worlds : JoinServer(w, p, g)
  \/ \E w \in LoginWorkers : CheckAccount(w) \/ StoreToken(w) \/ SendWorld(w)
=============================================================================
