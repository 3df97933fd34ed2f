------------------------------- MODULE SignIn -------------------------------
(***************************************************************************)
(* A player's way through the cluster.  The player's program signs in at    *)
(* the login server, which stores a new login id in the account's row; it   *)
(* shows that id to the char server of the world it was sent to, and, with  *)
(* the name of a character, its first word to the game server.  The three   *)
(* servers share nothing but the database.                                  *)
(*                                                                         *)
(* LoginServer and CharServer are the two servers; the sign-in of the game  *)
(* server (CGameServer::pakUserLogin) is here.  The player's program is not *)
(* part of the repository: it keeps the login id it was last sent, and      *)
(* shows that one.                                                          *)
(***************************************************************************)
EXTENDS CharServer, LoginServer

CONSTANT FirstWord   \* login id -> its first 16 bits, all the game server reads

ASSUME FirstWordOfEach == DOMAIN FirstWord = Tokens \cup {Zero}
ASSUME EveryPlayerConnects == Sessions = Players

VARIABLES
  program,   \* player -> the login id last received, and whose it is
  playing,   \* player -> CGameClient: the character, or None
  gtask      \* the game server's worker: the row it has read for a player

signVars == <<dbVars, charVars, loginVars, program, playing, gtask>>

NoProgram == [token |-> None, user |-> None]
NoCharacter == [id |-> 0, owner |-> None]

SignInit == /\ Init /\ LoginInit
            /\ program = [p \in Players |-> NoProgram]
            /\ playing = [p \in Players |-> NoCharacter]
            /\ gtask = LIdle

\* A step of one server sends nothing for another.
CharQuiet == /\ sent' = {}
             /\ UNCHANGED <<thread, client, task, conn, gameList, currentusers, crashed,
                            logins, deleted>>
LoginQuiet == /\ lsent' = {}
              /\ UNCHANGED <<account, ltask, lconn, worlds, issued, lcrashed>>

\* The program receives 0c0c.
Receive ==
  program' = [p \in Players |->
    IF \E m \in lsent' : m.cmd = "0c0c" /\ m.to = p
      THEN [token |-> (CHOOSE m \in lsent' : m.cmd = "0c0c" /\ m.to = p).token,
            user |-> account[p].id]
      ELSE program[p]]

\* It leaves the login server when it likes, and comes back to start anew.
AtLogin == /\ \/ LoginStep
              \/ \E p \in Players : program[p] = NoProgram /\ LConnect(p)
              \/ \E p \in Players : LDisconnect(p)
           /\ Receive
           /\ CharQuiet /\ UNCHANGED <<playing, gtask>>

\* The char server's steps; a client shows the login id it holds.
AtChar ==
  /\ \/ \E w \in Workers, p \in Players :
          program[p].token # None /\ AskUser(w, p, program[p].token)
     \/ \E w \in Workers : \/ CheckUser(w) \/ LoadCount(w) \/ StoreCount(w)
                           \/ ReportCount(w) \/ List(w) \/ Create(w) \/ Select(w)
     \/ \E p \in Players : program[p].token # None /\ Connect(p)
     \/ \E g \in Games : GameServerComes(g) \/ GameServerGoes(g)
  /\ LoginQuiet /\ UNCHANGED <<program, playing, gtask>>
-----------------------------------------------------------------------------
(* CGameServer::pakUserLogin                                                *)

\* The rows of the character's name joined with its owner's, by name alone.
AskPlayer(p) ==
  /\ gtask = LIdle /\ playing[p] = NoCharacter
  /\ client[p].picked
  /\ gtask' = [at |-> "row", p |-> p, word |-> FirstWord[program[p].token],
               rows |-> {[id |-> r.id, owner |-> r.owner,
                          word |-> FirstWord[loginid[r.owner]]] : r \in Named(client[p].name)}]
  /\ CharQuiet /\ LoginQuiet /\ UNCHANGED <<dbVars, program, playing>>

\* Mutant: the first word is not compared.
CheckPlayer_AnyWord ==
  /\ gtask.at = "row" /\ gtask' = LIdle
  /\ playing' = IF Cardinality(gtask.rows) # 1 THEN playing
                ELSE [playing EXCEPT ![gtask.p] =
                        CHOOSE r \in [id : 1..MaxId, owner : Users \ Banned] :
                          \E q \in gtask.rows : q.id = r.id /\ q.owner = r.owner]
  /\ CharQuiet /\ LoginQuiet /\ UNCHANGED <<dbVars, program>>

\* Exactly one row, the login id's first word, an access level.
CheckPlayer ==
  /\ gtask.at = "row" /\ gtask' = LIdle
  /\ playing' = IF Cardinality(gtask.rows) # 1 THEN playing
                ELSE LET row == CHOOSE r \in gtask.rows : TRUE IN
                     IF row.word = gtask.word /\ row.owner \notin Banned
                       THEN [playing EXCEPT ![gtask.p] = [id |-> row.id, owner |-> row.owner]]
                       ELSE playing
  /\ CharQuiet /\ LoginQuiet /\ UNCHANGED <<dbVars, program>>

AtGame == (\E p \in Players : AskPlayer(p)) \/ CheckPlayer

\* The player quits: the program forgets, and the connections end.
Quit(p) ==
  /\ LFree /\ ListFree /\ gtask = LIdle
  /\ program[p].token # None \/ account[p].on
  /\ program' = [program EXCEPT ![p] = NoProgram]
  /\ account' = [account EXCEPT ![p] = Away]
  /\ client' = [client EXCEPT ![p] = Gone]
  /\ playing' = [playing EXCEPT ![p] = NoCharacter]
  /\ sent' = {} /\ lsent' = {}
  /\ UNCHANGED <<dbVars, thread, task, conn, gameList, currentusers, crashed, logins,
                 deleted, ltask, lconn, worlds, issued, lcrashed, gtask>>

SignNext == AtLogin \/ AtChar \/ AtGame \/ \E p \in Players : Quit(p)

SignSpec == SignInit /\ [][SignNext]_signVars
-----------------------------------------------------------------------------
\* Types of the variables the composition adds, and of the two servers'.
SignTypeOK ==
  /\ TypeOK
  /\ account \in [Players -> [on : BOOLEAN, id : Users \cup {None}]]
  /\ \A p \in Players : ~account[p].on => account[p].id = None
  /\ worlds \subseteq Worlds /\ issued \subseteq Tokens \cup {Zero}
  /\ program \in [Players -> [token : Tokens \cup {None}, user : Users \cup {None}]]
  /\ playing \in [Players -> [id : 0..MaxId, owner : Users \cup {None}]]

\* The account a player has proved at the login server, by password, is the one
\* it has at the char server and whose character it plays, although the three
\* servers only share the login id, and the last one compares 16 bits of it
\* (CGameServer.cpp:873).
SameAccount ==
  \A p \in Players : /\ client[p].id \in {None, program[p].user}
                     /\ playing[p].owner \in {None, program[p].user}

\* No banned account is in anywhere, whichever server it tries.
BannedStayOut ==
  \A p \in Players : {account[p].id, client[p].id, playing[p].owner} \cap Banned = {}

\* The login id a client is sent is the one in its account's row, unless
\* another worker has served a client of that account meanwhile
\* (CLoginServer.cpp:130): with one worker it always is.
TokenStored ==
  Cardinality(LoginWorkers) = 1 =>
    \A m \in lsent : m.cmd = "0c0c" => loginid[account[m.to].id] = m.token
=============================================================================
