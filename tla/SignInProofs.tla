---------------------------- MODULE SignInProofs ----------------------------
(***************************************************************************)
(* Proof that a player is, wherever in the cluster, the account that he has *)
(* proved at the login server, and that nobody banned is in anywhere: for   *)
(* any numbers of players, accounts, worker threads and characters.         *)
(*                                                                         *)
(* The servers share login ids only, so the argument is about who holds     *)
(* which: TokensTell says that no account but a player's own has, in its    *)
(* row, the login id that the player's program holds or is about to be      *)
(* sent.  It is kept because the login server makes ids that nobody has     *)
(* seen (issued), and stores one in the row of the account it is made for.  *)
(***************************************************************************)
EXTENDS SignIn, CharServerProofs

\* The login ids differ in the part that the game server compares.
WordsDiffer == \A t, u \in Tokens \cup {Zero} : FirstWord[t] = FirstWord[u] => t = u
-----------------------------------------------------------------------------
(* The invariant                                                            *)

Account == [on : BOOLEAN, id : Users \cup {None}]
Program == [token : Tokens \cup {None}, user : Users \cup {None}]

\* One worker of the login server serves a player at a time, who is there.
LTaskOK(w) ==
  /\ ltask[w] # LIdle => ltask[w].p \in Players /\ account[ltask[w].p].on
  /\ ltask[w].at = "account" => /\ account[ltask[w].p].id = None
                                /\ ltask[w].user \in Users \cup {None}
  /\ ltask[w].at \in {"token", "send"} => account[ltask[w].p].id \in Users
  /\ ltask[w].at = "send" => ltask[w].token \in issued \cap Tokens
OneEach == \A v, w \in LoginWorkers :
             ltask[v] # LIdle /\ ltask[w] # LIdle /\ ltask[v].p = ltask[w].p => v = w

LoginTypes == /\ account \in [Players -> Account]
              /\ \A p \in Players : ~account[p].on => account[p].id = None
              /\ ltask = [w \in LoginWorkers |-> ltask[w]]
              /\ \A w \in LoginWorkers : LTaskOK(w)
              /\ OneEach
              /\ issued \subseteq Tokens \cup {Zero}
              /\ \A u \in Users : loginid[u] \in issued

\* What a program holds is of the account the player is signed in as, if he is.
ProgramOK(p) ==
  /\ program[p].token \in issued \cup {None}
  /\ program[p].token = None => program[p] = NoProgram
  /\ program[p].token # None => program[p].user \in Users
  /\ program[p].token # None /\ account[p].on => account[p].id = program[p].user

\* No account but the player's own has the login id that he holds or is sent.
TokensTell ==
  /\ \A p \in Players, u \in Users :
       program[p].token # None /\ loginid[u] = program[p].token => u = program[p].user
  /\ \A w \in LoginWorkers, u \in Users :
       ltask[w].at = "send" /\ loginid[u] = ltask[w].token => u = account[ltask[w].p].id

\* At the char server: only with a login id, and as its account.
CharSame ==
  /\ \A p \in Players : /\ client[p] # Gone => program[p].token # None
                        /\ client[p].id \in {None, program[p].user}
  /\ \A w \in Workers :
       /\ task[w] # Idle => program[task[w].s].token # None
       /\ task[w].at = "user" => task[w].rows \subseteq {program[task[w].s].user}

\* At the game server.
GameSame ==
  /\ gtask # LIdle =>
       /\ gtask.at = "row" /\ gtask.p \in Players /\ program[gtask.p].token # None
       /\ \A r \in gtask.rows :
            /\ r.owner \in Users
            /\ WordsDiffer /\ r.word = gtask.word => r.owner = program[gtask.p].user
  /\ playing = [p \in Players |-> playing[p]]
  /\ \A p \in Players : /\ playing[p] # NoCharacter => program[p].token # None
                        /\ WordsDiffer => playing[p].owner \in {None, program[p].user}

SignInv == /\ CharTyped /\ LoginTypes
           /\ program \in [Players -> Program] /\ (\A p \in Players : ProgramOK(p))
           /\ TokensTell /\ CharSame /\ GameSame
           /\ BannedStayOut

LEMMA InvIsSameAccount == WordsDiffer /\ SignInv => SameAccount
  BY DEF SignInv, CharSame, GameSame, SameAccount

LEMMA Names3 == /\ None \notin Users /\ None \notin Tokens /\ None \notin Banned
                /\ Zero # None
  BY TokensNamed, AccountsKnown DEF None, Zero

LEMMA LIdleIsPlain == LIdle.at = "idle"
  BY DEF LIdle

LEMMA SignStart == SignInit => SignInv
  <1> SUFFICES ASSUME SignInit PROVE SignInv
    OBVIOUS
  <1> USE DEF SignInit, LoginInit
  <1>1. CharTyped
    BY TypedStart
  <1>2. LoginTypes
    <2>1. Away \in Account
      BY DEF Away, Account
    <2>2. account \in [Players -> Account] /\ \A p \in Players : account[p].id = None
      BY <2>1 DEF Away
    <2>3. \A w \in LoginWorkers : LTaskOK(w)
      BY LIdleIsPlain DEF LTaskOK
    <2>4. issued \subseteq Tokens \cup {Zero} /\ \A u \in Users : loginid[u] \in issued
      BY <1>1 DEF CharTyped, StateTyped, DBTypeOK
    <2> QED BY <2>2, <2>3, <2>4 DEF LoginTypes, OneEach
  <1>3. program \in [Players -> Program] /\ \A p \in Players : ProgramOK(p)
    <2>1. NoProgram \in Program /\ NoProgram.token = None
      BY DEF NoProgram, Program
    <2> QED BY <2>1 DEF ProgramOK
  <1>4. TokensTell
    BY LIdleIsPlain DEF TokensTell, NoProgram
  <1>5. \A p \in Players : client[p].id = None /\ client[p] = Gone
    BY EveryPlayerConnects DEF Init, CharInit, Gone
  <1>6. CharSame
    BY <1>5, IdleIsPlain DEF Init, CharInit, CharSame
  <1>7. \A p \in Players : playing[p] = NoCharacter /\ playing[p].owner = None
    BY DEF NoCharacter
  <1>8. GameSame
    BY <1>7 DEF GameSame
  <1>9. BannedStayOut
    BY <1>5, <1>7, Names3 DEF BannedStayOut, Away
  <1> QED BY <1>1, <1>2, <1>3, <1>4, <1>6, <1>8, <1>9 DEF SignInv
-----------------------------------------------------------------------------
(* What a step of one server leaves alone at the others                     *)

LEMMA QuietTyped ==
  ASSUME CharTyped, CharQuiet, DBTypeOK'
  PROVE  CharTyped'
  <1>1. ConnTyped' /\ CountsTyped'
    BY CountSteps DEF CharTyped, StateTyped, CharQuiet, ConnTyped
  <1> QED BY <1>1, TableTyped DEF CharQuiet

LEMMA SameTables ==
  ASSUME CharTyped, UNCHANGED dbVars
  PROVE  DBTypeOK' /\ loginid' = loginid
  BY DEF CharTyped, StateTyped, DBTypeOK, Rows, dbVars

\* A program that held a login id holds one of the same account.
Grows == \A p \in Players : program[p].token # None =>
           program'[p].token # None /\ program'[p].user = program[p].user

LEMMA GrowsKeeps ==
  ASSUME CharTyped, CharSame, GameSame, Grows, UNCHANGED <<client, task, playing, gtask>>
  PROVE  CharSame' /\ GameSame'
  <1>1. ASSUME NEW p \in Players
        PROVE  /\ client[p] # Gone => program'[p].token # None
               /\ client[p].id \in {None, program'[p].user}
               /\ playing[p] # NoCharacter => program'[p].token # None
               /\ WordsDiffer => playing[p].owner \in {None, program'[p].user}
    <2>1. CASE program[p].token # None
      BY <2>1 DEF CharSame, GameSame, Grows
    <2>2. CASE program[p].token = None
      <3>1. client[p] = Gone /\ playing[p] = NoCharacter
        BY <2>2 DEF CharSame, GameSame
      <3>2. Gone.id = None /\ NoCharacter.owner = None
        BY DEF Gone, NoCharacter
      <3> QED BY <3>1, <3>2
    <2> QED BY <2>1, <2>2
  <1>2. CharSame'
    <2>1. \A w \in Workers : task[w] # Idle => task[w].s \in Players
      BY EveryPlayerConnects DEF CharTyped, TaskTyped
    <2>2. \A w \in Workers : task[w].at = "user" => task[w] # Idle
      BY IdleIsPlain
    <2> QED BY <1>1, <2>1, <2>2 DEF CharSame, Grows
  <1>3. GameSame'
    BY <1>1 DEF GameSame, Grows
  <1> QED BY <1>2, <1>3

LEMMA ProgramKept == program' = program => Grows
  BY DEF Grows

\* A step that sends nobody to a world tells no program anything.
LEMMA NoNews ==
  ASSUME SignInv, Receive, \A m \in lsent' : m.cmd # "0c0c"
  PROVE  program' = program
  <1>1. program' = [p \in Players |-> program[p]]
    BY DEF Receive
  <1>2. program = [p \in Players |-> program[p]]
    BY DEF SignInv
  <1> QED BY <1>1, <1>2

\* Nobody banned is at the char or the game server after a step of the login
\* server.
LEMMA LoginBans ==
  ASSUME BannedStayOut, UNCHANGED <<client, playing>>,
         \A p \in Players : account'[p].id \notin Banned
  PROVE  BannedStayOut'
  BY DEF BannedStayOut
-----------------------------------------------------------------------------
(* The login server                                                         *)

\* Worker w goes on to t with player p's packet.
LEMMA LTasksOK ==
  ASSUME LoginTypes, NEW w \in LoginWorkers, NEW p \in Players, NEW t, LGoto(w, t),
         \/ ltask[w] # LIdle /\ ltask[w].p = p
         \/ LServes(w, p),
         \A q \in Players \ {p} : account'[q] = account[q],
         account'[p].on,
         t = LIdle \/ t.p = p,
         t.at = "account" => account'[p].id = None /\ t.user \in Users \cup {None},
         t.at \in {"token", "send"} => account'[p].id \in Users,
         issued \subseteq issued',
         t.at = "send" => t.token \in issued' \cap Tokens
  PROVE  /\ ltask' = [v \in LoginWorkers |-> ltask'[v]]
         /\ \A v \in LoginWorkers : LTaskOK(v)'
         /\ OneEach'
  <1>1. ltask'[w] = t /\ \A v \in LoginWorkers \ {w} : ltask'[v] = ltask[v]
    BY DEF LoginTypes, LGoto
  <1>2. \A v \in LoginWorkers \ {w} : ltask[v] # LIdle => ltask[v].p # p
    BY DEF LoginTypes, OneEach, LServes
  <1>3. LTaskOK(w)'
    BY <1>1, LIdleIsPlain DEF LTaskOK
  <1>4. ASSUME NEW v \in LoginWorkers, v # w PROVE LTaskOK(v)'
    <2>1. LTaskOK(v) /\ ltask'[v] = ltask[v]
      BY <1>1, <1>4 DEF LoginTypes
    <2>2. ltask[v] # LIdle => account'[ltask[v].p] = account[ltask[v].p]
      BY <1>2, <1>4, <2>1 DEF LTaskOK
    <2>3. ltask[v].at \in {"account", "token", "send"} => ltask[v] # LIdle
      BY LIdleIsPlain
    <2> QED BY <2>1, <2>2, <2>3 DEF LTaskOK
  <1>5. OneEach'
    BY <1>1, <1>2 DEF LoginTypes, OneEach
  <1>6. ltask' = [v \in LoginWorkers |-> ltask'[v]]
    BY DEF LoginTypes, LGoto
  <1> QED BY <1>3, <1>4, <1>5, <1>6

LEMMA LoginStepKeeps ==
  ASSUME SignInv, NEW w \in LoginWorkers, NEW p \in Players,
         CharQuiet, Receive, UNCHANGED <<playing, gtask>>,
         \/ EuropeLogin(w, p) \/ Ping(w, p)
         \/ \E u \in Users \cup {None} : AskAccount(w, p, u)
         \/ \E g \in Worlds : JoinServer(w, p, g)
  PROVE  SignInv'
  <1>1. /\ UNCHANGED <<dbVars, account, issued>>
        /\ \A m \in lsent' : m.cmd # "0c0c"
    <2>1. CASE EuropeLogin(w, p) \/ Ping(w, p)
      BY <2>1 DEF EuropeLogin, Ping, Refusal
    <2>2. ASSUME NEW u \in Users \cup {None}, AskAccount(w, p, u) PROVE  <1>1
      BY <2>2 DEF AskAccount
    <2>3. ASSUME NEW g \in Worlds, JoinServer(w, p, g) PROVE  <1>1
      BY <2>3 DEF JoinServer
    <2> QED BY <2>1, <2>2, <2>3
  <1>2. program' = program
    BY <1>1, NoNews
  <1>3. /\ LServes(w, p) /\ account[p].on
        /\ \/ ltask' = ltask
           \/ \E t : /\ LGoto(w, t) /\ t.p = p /\ t.at # "send"
                     /\ t.at = "account" => /\ account[p].id = None
                                            /\ t.user \in Users \cup {None}
                     /\ t.at = "token" => account[p].id \in Users
    <2>1. LServes(w, p) /\ account[p].on
      BY DEF EuropeLogin, Ping, AskAccount, JoinServer, LServes
    <2>2. CASE EuropeLogin(w, p) \/ Ping(w, p)
      BY <2>1, <2>2 DEF EuropeLogin, Ping
    <2>3. ASSUME NEW u \in Users \cup {None}, AskAccount(w, p, u) PROVE <1>3!2
      <3> DEFINE t == [at |-> "account", p |-> p, user |-> u, ok |-> Sent(lconn)]
      <3>1. LGoto(w, t) /\ account[p].id = None
        BY <2>3 DEF AskAccount
      <3> QED BY <3>1
    <2>4. ASSUME NEW g \in Worlds, JoinServer(w, p, g) PROVE <1>3!2
      <3> DEFINE t == [at |-> "token", p |-> p, world |-> g]
      <3>1. (LGoto(w, t) \/ ltask' = ltask) /\ account[p].id # None
        BY <2>4 DEF JoinServer
      <3>2. account[p].id \in Users
        BY <3>1 DEF SignInv, LoginTypes, Account
      <3> QED BY <3>1, <3>2
    <2> QED BY <2>1, <2>2, <2>3, <2>4
  <1>4. DBTypeOK' /\ loginid' = loginid
    BY <1>1, SameTables DEF SignInv
  <1>5. /\ ltask' = [v \in LoginWorkers |-> ltask'[v]]
        /\ \A v \in LoginWorkers : LTaskOK(v)'
        /\ OneEach'
    <2>1. CASE ltask' = ltask
      BY <1>1, <2>1 DEF SignInv, LoginTypes, LTaskOK, OneEach
    <2>2. ASSUME NEW t, LGoto(w, t), t.p = p, t.at # "send",
                 t.at = "account" => account[p].id = None /\ t.user \in Users \cup {None},
                 t.at = "token" => account[p].id \in Users
          PROVE  <1>5
      BY <1>1, <1>3, <2>2, LTasksOK DEF SignInv
    <2> QED BY <1>3, <2>1, <2>2
  <1>6. LoginTypes'
    BY <1>1, <1>4, <1>5 DEF SignInv, LoginTypes
  <1>7. \A v \in LoginWorkers : ltask'[v].at = "send" => ltask'[v] = ltask[v]
    BY <1>3 DEF LGoto, SignInv, LoginTypes
  <1>8. TokensTell'
    BY <1>1, <1>2, <1>4, <1>7 DEF SignInv, TokensTell
  <1>9. CharSame' /\ GameSame'
    BY <1>2, GrowsKeeps, ProgramKept DEF SignInv, CharQuiet
  <1>10. CharTyped'
    BY <1>4, QuietTyped DEF SignInv
  <1>11. BannedStayOut'
    BY <1>1 DEF SignInv, BannedStayOut, CharQuiet
  <1> QED BY <1>1, <1>2, <1>6, <1>8, <1>9, <1>10, <1>11 DEF SignInv, ProgramOK

LEMMA WorldsKeep ==
  ASSUME SignInv, CharQuiet, Receive, UNCHANGED <<playing, gtask>>,
         \E g \in Worlds : WorldComes(g) \/ WorldGoes(g)
  PROVE  SignInv'
  <1>1. /\ UNCHANGED <<dbVars, account, issued, ltask>>
        /\ \A m \in lsent' : m.cmd # "0c0c"
    BY DEF WorldComes, WorldGoes
  <1>2. program' = program
    BY <1>1, NoNews
  <1>3. DBTypeOK' /\ loginid' = loginid
    BY <1>1, SameTables DEF SignInv
  <1>4. LoginTypes'
    BY <1>1, <1>3 DEF SignInv, LoginTypes, LTaskOK, OneEach
  <1>5. TokensTell'
    BY <1>1, <1>2, <1>3 DEF SignInv, TokensTell
  <1>6. CharSame' /\ GameSame' /\ CharTyped'
    BY <1>2, <1>3, GrowsKeeps, ProgramKept, QuietTyped DEF SignInv, CharQuiet
  <1>7. BannedStayOut'
    BY <1>1 DEF SignInv, BannedStayOut, CharQuiet
  <1> QED BY <1>1, <1>2, <1>4, <1>5, <1>6, <1>7 DEF SignInv, ProgramOK

LEMMA CheckAccountKeeps ==
  ASSUME SignInv, NEW w \in LoginWorkers, CharQuiet, Receive, UNCHANGED <<playing, gtask>>,
         CheckAccount(w)
  PROVE  SignInv'
  <1> DEFINE p == ltask[w].p
  <1>1. /\ UNCHANGED <<dbVars, issued>> /\ LGoto(w, LIdle)
        /\ \A m \in lsent' : m.cmd # "0c0c"
        /\ ltask[w].at = "account" /\ ltask[w] # LIdle
        /\ \/ account' = account
           \/ \E u \in (Users \cup {None}) \ (Banned \cup {None}) :
                account' = [account EXCEPT ![p].id = u]
    <2>1. ltask[w].at = "account" /\ ltask[w] # LIdle
      BY LIdleIsPlain DEF CheckAccount, LAt
    <2>2. ltask[w].user \in Users \cup {None}
      BY <2>1 DEF SignInv, LoginTypes, LTaskOK
    <2> QED BY <2>1, <2>2 DEF CheckAccount, Refusal
  <1>2. p \in Players /\ account[p].on /\ account[p].id = None
    BY <1>1 DEF SignInv, LoginTypes, LTaskOK
  <1>3. program' = program
    BY <1>1, NoNews
  <1>4. DBTypeOK' /\ loginid' = loginid
    BY <1>1, SameTables DEF SignInv
  <1>5. /\ account' \in [Players -> Account] /\ account'[p].on
        /\ \A q \in Players \ {p} : account'[q] = account[q]
        /\ account'[p].id \notin Banned
    <2>1. CASE account' = account
      BY <1>2, <2>1, Names3 DEF SignInv, LoginTypes
    <2>2. ASSUME NEW u \in Users, u \notin Banned, account' = [account EXCEPT ![p].id = u]
          PROVE  <1>5
      BY <1>2, <2>2 DEF SignInv, LoginTypes, Account
    <2> QED BY <1>1, <2>1, <2>2
  <1>6. /\ ltask' = [v \in LoginWorkers |-> ltask'[v]]
        /\ \A v \in LoginWorkers : LTaskOK(v)'
        /\ OneEach'
    BY <1>1, <1>2, <1>5, LIdleIsPlain, LTasksOK DEF SignInv
  <1>7. LoginTypes'
    BY <1>1, <1>4, <1>5, <1>6 DEF SignInv, LoginTypes
  <1>8. program[p].token = None
    BY <1>2, Names3 DEF SignInv, ProgramOK
  <1>9. \A q \in Players : ProgramOK(q)'
    BY <1>1, <1>3, <1>5, <1>8 DEF SignInv, ProgramOK
  <1>10. TokensTell'
    <2>1. \A v \in LoginWorkers : ltask'[v].at = "send" =>
             ltask'[v] = ltask[v] /\ account'[ltask[v].p] = account[ltask[v].p]
      <3> SUFFICES ASSUME NEW v \in LoginWorkers, ltask'[v].at = "send"
                   PROVE  ltask'[v] = ltask[v] /\ account'[ltask[v].p] = account[ltask[v].p]
        OBVIOUS
      <3>1. v # w /\ ltask'[v] = ltask[v]
        BY <1>1, LIdleIsPlain DEF LGoto, SignInv, LoginTypes
      <3>2. ltask[v] # LIdle /\ ltask[v].p \in Players
        BY <3>1, LIdleIsPlain DEF SignInv, LoginTypes, LTaskOK
      <3>3. ltask[v].p # p
        BY <1>1, <3>1, <3>2 DEF SignInv, LoginTypes, OneEach
      <3> QED BY <1>5, <3>1, <3>2, <3>3
    <2> QED BY <1>3, <1>4, <2>1 DEF SignInv, TokensTell
  <1>11. CharSame' /\ GameSame' /\ CharTyped'
    BY <1>3, <1>4, GrowsKeeps, ProgramKept, QuietTyped DEF SignInv, CharQuiet
  <1>12. BannedStayOut'
    <2>1. \A q \in Players : account'[q].id \notin Banned
      BY <1>5 DEF SignInv, BannedStayOut
    <2> QED BY <2>1, LoginBans DEF SignInv, CharQuiet
  <1> QED BY <1>3, <1>7, <1>9, <1>10, <1>11, <1>12 DEF SignInv

LEMMA StoreTokenKeeps ==
  ASSUME SignInv, NEW w \in LoginWorkers, CharQuiet, Receive, UNCHANGED <<playing, gtask>>,
         StoreToken(w)
  PROVE  SignInv'
  <1> DEFINE p == ltask[w].p
             u == account[p].id
  <1>1. /\ ltask[w].at = "token" /\ ltask[w] # LIdle
        /\ account' = account /\ lsent' = {}
    BY LIdleIsPlain DEF StoreToken, LAt
  <1>2. PICK tk \in Tokens \ issued :
          /\ IF Sent(lconn) THEN SetLoginId(u, tk) ELSE UNCHANGED dbVars
          /\ issued' = issued \cup {tk}
          /\ LGoto(w, [at |-> "send", p |-> p, world |-> ltask[w].world, token |-> tk])
    BY DEF StoreToken
  <1> DEFINE t == [at |-> "send", p |-> p, world |-> ltask[w].world, token |-> tk]
  <1>3. p \in Players /\ account[p].on /\ u \in Users
    BY <1>1 DEF SignInv, LoginTypes, LTaskOK
  <1>4. program' = program
    BY <1>1, NoNews
  <1>5. /\ loginid \in [Users -> Tokens \cup {Zero}]
        /\ loginid' = loginid \/ loginid' = [loginid EXCEPT ![u] = tk]
        /\ characters' = characters /\ lastId' = lastId
    BY <1>2 DEF SetLoginId, dbVars, SignInv, CharTyped, StateTyped, DBTypeOK
  <1>6. DBTypeOK'
    BY <1>3, <1>5 DEF SignInv, CharTyped, StateTyped, DBTypeOK, Rows
  <1>7. \A v \in Users : loginid'[v] = loginid[v] \/ (v = u /\ loginid'[v] = tk)
    BY <1>3, <1>5
  <1>8. t.at = "send" /\ t.p = p /\ t.token = tk /\ tk \in issued' \cap Tokens
    BY <1>2
  <1> HIDE DEF t
  <1>9. LGoto(w, t) /\ ltask'[w] = t /\ \A v \in LoginWorkers \ {w} : ltask'[v] = ltask[v]
    BY <1>2 DEF t, LGoto, SignInv, LoginTypes
  <1>10. /\ ltask' = [v \in LoginWorkers |-> ltask'[v]]
         /\ \A v \in LoginWorkers : LTaskOK(v)'
         /\ OneEach'
    <2>1. account'[p].on /\ account'[p].id \in Users /\ issued \subseteq issued'
      BY <1>1, <1>2, <1>3
    <2> HIDE DEF u
    <2> QED BY <1>1, <1>3, <1>8, <1>9, <2>1, LTasksOK DEF SignInv
  <1>11. LoginTypes'
    <2>1. \A v \in Users : loginid'[v] \in issued'
      BY <1>2, <1>7 DEF SignInv, LoginTypes
    <2>2. issued' \subseteq Tokens \cup {Zero}
      BY <1>2 DEF SignInv, LoginTypes
    <2> QED BY <1>1, <1>10, <2>1, <2>2 DEF SignInv, LoginTypes
  <1>12. tk \notin issued /\ tk # None
    BY <1>2, Names3
  <1>13. TokensTell'
    <2>1. ASSUME NEW q \in Players, NEW v \in Users,
                 program[q].token # None, loginid'[v] = program[q].token
          PROVE  v = program[q].user
      <3>1. program[q].token \in issued
        BY <2>1 DEF SignInv, ProgramOK
      <3> QED BY <1>7, <1>12, <2>1, <3>1 DEF SignInv, TokensTell
    <2>2. ASSUME NEW x \in LoginWorkers, NEW v \in Users,
                 ltask'[x].at = "send", loginid'[v] = ltask'[x].token
          PROVE  v = account[ltask'[x].p].id
      <3>1. CASE x = w
        <4>1. loginid[v] \in issued
          BY DEF SignInv, LoginTypes
        <4> QED BY <1>7, <1>8, <1>9, <1>12, <2>2, <3>1, <4>1
      <3>2. CASE x # w
        <4>1. ltask'[x] = ltask[x] /\ ltask[x].token \in issued
          BY <1>9, <2>2, <3>2 DEF SignInv, LoginTypes, LTaskOK
        <4> QED BY <1>7, <1>12, <2>2, <4>1 DEF SignInv, TokensTell
      <3> QED BY <3>1, <3>2
    <2> QED BY <1>1, <1>4, <2>1, <2>2 DEF TokensTell
  <1>14. \A q \in Players : ProgramOK(q)'
    BY <1>1, <1>2, <1>4 DEF SignInv, ProgramOK
  <1>15. CharSame' /\ GameSame' /\ CharTyped'
    BY <1>4, <1>6, GrowsKeeps, ProgramKept, QuietTyped DEF SignInv, CharQuiet
  <1>16. BannedStayOut'
    BY <1>1 DEF SignInv, BannedStayOut, CharQuiet
  <1> QED BY <1>4, <1>11, <1>13, <1>14, <1>15, <1>16 DEF SignInv

LEMMA SendWorldKeeps ==
  ASSUME SignInv, NEW w \in LoginWorkers, CharQuiet, Receive, UNCHANGED <<playing, gtask>>,
         SendWorld(w)
  PROVE  SignInv'
  <1> DEFINE p == ltask[w].p
             tk == ltask[w].token
             new == [token |-> tk, user |-> account[p].id]
  <1>1. /\ UNCHANGED <<dbVars, account, issued>> /\ LGoto(w, LIdle)
        /\ ltask[w].at = "send" /\ ltask[w] # LIdle
    BY LIdleIsPlain DEF SendWorld, LAt
  <1>2. /\ p \in Players /\ account[p].on /\ account[p].id \in Users
        /\ tk \in issued \cap Tokens /\ tk # None
    BY <1>1, Names3 DEF SignInv, LoginTypes, LTaskOK
  <1>3. /\ program' \in [Players -> Program]
        /\ \A q \in Players \ {p} : program'[q] = program[q]
        /\ program'[p] = program[p] \/ program'[p] = new
    <2>1. CASE lsent' = {}
      <3>1. program' = program
        BY <2>1, NoNews
      <3> QED BY <3>1 DEF SignInv
    <2>2. ASSUME NEW g, lsent' = {[to |-> p, cmd |-> "0c0c", token |-> tk, world |-> g]}
          PROVE  <1>3
      <3> DEFINE m == [to |-> p, cmd |-> "0c0c", token |-> tk, world |-> g]
      <3>1. m.to = p /\ m.cmd = "0c0c" /\ m.token = tk
        OBVIOUS
      <3>2. lsent' = {m}
        BY <2>2
      <3> HIDE DEF m
      <3>3. (CHOOSE x \in lsent' : x.cmd = "0c0c" /\ x.to = p) = m
        BY <3>1, <3>2
      <3>4. /\ program' = [q \in Players |-> program'[q]]
            /\ \A q \in Players \ {p} : program'[q] = program[q]
            /\ program'[p] = new
        BY <1>2, <3>1, <3>2, <3>3 DEF Receive
      <3>5. new \in Program
        BY <1>2 DEF Program
      <3> QED BY <3>4, <3>5 DEF SignInv
    <2> QED BY <2>1, <2>2 DEF SendWorld
  <1>4. new.token = tk /\ new.user = account[p].id
    OBVIOUS
  <1> HIDE DEF new
  <1>5. Grows
    BY <1>2, <1>3, <1>4 DEF SignInv, ProgramOK, Grows
  <1>6. DBTypeOK' /\ loginid' = loginid
    BY <1>1, SameTables DEF SignInv
  <1>7. /\ ltask' = [v \in LoginWorkers |-> ltask'[v]]
        /\ \A v \in LoginWorkers : LTaskOK(v)'
        /\ OneEach'
    BY <1>1, <1>2, LIdleIsPlain, LTasksOK DEF SignInv
  <1>8. LoginTypes'
    BY <1>1, <1>6, <1>7 DEF SignInv, LoginTypes
  <1>9. \A q \in Players : ProgramOK(q)'
    BY <1>1, <1>2, <1>3, <1>4 DEF SignInv, ProgramOK
  <1>10. TokensTell'
    <2>1. \A v \in Users : loginid[v] = tk => v = account[p].id
      BY <1>1 DEF SignInv, TokensTell
    <2>2. \A v \in LoginWorkers : ltask'[v].at = "send" => ltask'[v] = ltask[v]
      BY <1>1, LIdleIsPlain DEF LGoto, SignInv, LoginTypes
    <2> QED BY <1>1, <1>3, <1>4, <1>6, <2>1, <2>2 DEF SignInv, TokensTell
  <1>11. CharSame' /\ GameSame' /\ CharTyped'
    BY <1>5, <1>6, GrowsKeeps, QuietTyped DEF SignInv, CharQuiet
  <1>12. BannedStayOut'
    BY <1>1 DEF SignInv, BannedStayOut, CharQuiet
  <1> QED BY <1>3, <1>8, <1>9, <1>10, <1>11, <1>12 DEF SignInv

\* A connection to the login server that begins or ends: nobody is served then.
LEMMA ComeAndGoKeeps ==
  ASSUME SignInv, NEW p \in Players, CharQuiet, Receive, UNCHANGED <<playing, gtask>>,
         (program[p] = NoProgram /\ LConnect(p)) \/ LDisconnect(p)
  PROVE  SignInv'
  <1>1. /\ UNCHANGED <<dbVars, issued, ltask>>
        /\ \A m \in lsent' : m.cmd # "0c0c"
        /\ \A w \in LoginWorkers : ltask[w] = LIdle
    <2>1. CASE LConnect(p)
      BY <2>1 DEF LConnect, LFree
    <2>2. CASE LDisconnect(p)
      BY <2>2 DEF LDisconnect, LFree
    <2> QED BY <2>1, <2>2
  <1>2. program' = program
    BY <1>1, NoNews
  <1>3. DBTypeOK' /\ loginid' = loginid
    BY <1>1, SameTables DEF SignInv
  <1>4. /\ account' \in [Players -> Account]
        /\ \A q \in Players : account'[q].id \in {None, account[q].id}
        /\ \A q \in Players : ~account'[q].on => account'[q].id = None
        /\ \A q \in Players : ProgramOK(q)'
    <2>1. CASE program[p] = NoProgram /\ LConnect(p)
      <3>1. account' = [account EXCEPT ![p].on = TRUE]
        BY <2>1 DEF LConnect
      <3>2. /\ account' \in [Players -> Account] /\ account'[p].id = account[p].id
            /\ account'[p].on
            /\ \A q \in Players \ {p} : account'[q] = account[q]
        BY <3>1 DEF SignInv, LoginTypes, Account
      <3>3. program[p].token = None
        BY <2>1 DEF NoProgram
      <3> QED BY <1>1, <1>2, <3>2, <3>3 DEF SignInv, LoginTypes, ProgramOK
    <2>2. CASE LDisconnect(p)
      <3>1. Away \in Account /\ ~Away.on /\ Away.id = None
        BY DEF Away, Account
      <3>2. account' = [account EXCEPT ![p] = Away]
        BY <2>2 DEF LDisconnect
      <3>3. /\ account' \in [Players -> Account] /\ account'[p] = Away
            /\ \A q \in Players \ {p} : account'[q] = account[q]
        BY <3>1, <3>2 DEF SignInv, LoginTypes
      <3> QED BY <1>1, <1>2, <3>1, <3>3 DEF SignInv, LoginTypes, ProgramOK
    <2> QED BY <2>1, <2>2
  <1>5. LoginTypes'
    <2>1. \A w \in LoginWorkers : LTaskOK(w)'
      BY <1>1, LIdleIsPlain DEF LTaskOK
    <2> QED BY <1>1, <1>3, <1>4, <2>1 DEF SignInv, LoginTypes, OneEach
  <1>6. TokensTell'
    BY <1>1, <1>2, <1>3, LIdleIsPlain DEF SignInv, TokensTell
  <1>7. CharSame' /\ GameSame' /\ CharTyped'
    BY <1>2, <1>3, GrowsKeeps, ProgramKept, QuietTyped DEF SignInv, CharQuiet
  <1>8. BannedStayOut'
    BY <1>4, Names3, LoginBans DEF SignInv, BannedStayOut, CharQuiet
  <1> QED BY <1>2, <1>4, <1>5, <1>6, <1>7, <1>8 DEF SignInv

LEMMA AtLoginKeeps == SignInv /\ AtLogin => SignInv'
  BY LoginStepKeeps, WorldsKeep, CheckAccountKeeps, StoreTokenKeeps, SendWorldKeeps,
     ComeAndGoKeeps DEF AtLogin, LoginStep
-----------------------------------------------------------------------------
(* The char server                                                          *)

ClientsSame == \A p \in Players : /\ client[p] # Gone => program[p].token # None
                                  /\ client[p].id \in {None, program[p].user}
NoneBanned == \A p \in Players : client[p].id \notin Banned

\* Worker w goes on to t with client s's packet; another client is as he was.
LEMMA ServesSame ==
  ASSUME SignInv, program' = program, NEW w \in Workers, NEW s \in Players,
         program[s].token # None, NEW t, task' = [task EXCEPT ![w] = t],
         t = Idle \/ t.s = s,
         t.at = "user" => t.rows \subseteq {program[s].user},
         \A p \in Players \ {s} : client'[p] = client[p],
         client'[s].id \in {None, program[s].user}, client'[s].id \notin Banned
  PROVE  CharSame' /\ NoneBanned'
  <1>1. task'[w] = t /\ \A v \in Workers \ {w} : task'[v] = task[v]
    BY DEF SignInv, CharTyped
  <1>2. ASSUME NEW v \in Workers
        PROVE  /\ task'[v] # Idle => program[task'[v].s].token # None
               /\ task'[v].at = "user" => task'[v].rows \subseteq {program[task'[v].s].user}
    <2>1. CASE v # w
      BY <1>1, <2>1 DEF SignInv, CharSame
    <2>2. CASE v = w
      BY <1>1, <2>2, IdleIsPlain
    <2> QED BY <2>1, <2>2
  <1>3. ASSUME NEW p \in Players
        PROVE  /\ client'[p] # Gone => program[p].token # None
               /\ client'[p].id \in {None, program[p].user}
               /\ client'[p].id \notin Banned
    BY DEF SignInv, CharSame, BannedStayOut
  <1> QED BY <1>2, <1>3 DEF CharSame, NoneBanned

\* The handlers leave the clients as they are, pakUserLogin's and the end of
\* pakSelectChar's apart.
LEMMA GoesSame ==
  ASSUME SignInv, program' = program, NEW w \in Workers, NEW s \in Players,
         program[s].token # None, NEW t, Goto(w, t), client' = client,
         t = Idle \/ t.s = s, t.at # "user"
  PROVE  CharSame' /\ NoneBanned'
  BY ServesSame DEF Goto, SignInv, CharSame, BannedStayOut

LEMMA BusyHasToken ==
  ASSUME SignInv, NEW w \in Workers, task[w].at # "idle"
  PROVE  /\ task[w] # Idle /\ task[w].s \in Players /\ program[task[w].s].token # None
         /\ TaskTyped(w)
  BY IdleIsPlain, BusyServes, EveryPlayerConnects DEF SignInv, CharSame

LEMMA SignedInHasToken ==
  ASSUME SignInv, NEW w \in Workers, NEW s \in Players, SignedIn(w, s)
  PROVE  program[s].token # None
  BY DEF SignedIn, SignInv, CharSame, Gone

\* The tables' login ids change at the login server only.
LEMMA CharLeavesIds ==
  ASSUME SignInv, AtChar
  PROVE  loginid' = loginid
  <1>1. ASSUME NEW w \in Workers, CheckUser(w) \/ LoadCount(w) \/ StoreCount(w) \/ ReportCount(w)
        PROVE  loginid' = loginid
    BY <1>1 DEF CheckUser, LoadCount, StoreCount, ReportCount, dbVars
  <1>2. ASSUME NEW w \in Workers, List(w) PROVE loginid' = loginid
    BY <1>2 DEF List, PickChar, AskList, SendCharList, dbVars
  <1>3. ASSUME NEW w \in Workers, Create(w) PROVE loginid' = loginid
    BY <1>3 DEF Create, AskCount, CheckCount, AskName, CheckName, InsertChar, Insert,
                SendCreated, dbVars
  <1>4. ASSUME NEW w \in Workers, Select(w) PROVE loginid' = loginid
    BY <1>4 DEF Select, DeleteChar, Delete, SelectChar, AskSlot, TakeSlot, Redirect, dbVars
  <1>5. ASSUME NEW w \in Workers, NEW p \in Players, NEW t, AskUser(w, p, t)
        PROVE  loginid' = loginid
    BY <1>5 DEF AskUser, dbVars
  <1>6. ASSUME NEW p \in Players, Connect(p) PROVE loginid' = loginid
    BY <1>6 DEF Connect, dbVars
  <1>7. ASSUME NEW g \in Games, GameServerComes(g) \/ GameServerGoes(g)
        PROVE  loginid' = loginid
    BY <1>7 DEF GameServerComes, GameServerGoes, dbVars
  <1> QED BY <1>1, <1>2, <1>3, <1>4, <1>5, <1>6, <1>7 DEF AtChar

\* SELECT by login id finds the player's account alone, or none.
LEMMA AskUserSame ==
  ASSUME SignInv, program' = program, NEW w \in Workers, NEW p \in Players,
         program[p].token # None, AskUser(w, p, program[p].token)
  PROVE  CharSame' /\ NoneBanned'
  <1> DEFINE t == [at |-> "user", s |-> p, ok |-> Sent(conn),
                   rows |-> {u \in Users : loginid[u] = program[p].token}]
  <1>1. /\ client[p].id = None /\ client' = [client EXCEPT ![p].user = None]
        /\ task' = [task EXCEPT ![w] = t]
    BY DEF AskUser, Ask, Goto
  <1>2. client'[p].id = None /\ \A q \in Players \ {p} : client'[q] = client[q]
    BY <1>1, EveryPlayerConnects DEF SignInv, CharTyped, StateTyped, Client
  <1>3. t.s = p /\ t.rows \subseteq {program[p].user}
    BY DEF SignInv, TokensTell
  <1> HIDE DEF t
  <1> QED BY <1>1, <1>2, <1>3, Names3, ServesSame

LEMMA CheckUserSame ==
  ASSUME SignInv, program' = program, NEW w \in Workers, CheckUser(w)
  PROVE  CharSame' /\ NoneBanned'
  <1> DEFINE s == task[w].s
             t == [at |-> "load", s |-> s]
  <1>1. task[w].at = "user"
    BY DEF CheckUser, At
  <1>2. /\ s \in Players /\ program[s].token # None
        /\ task[w].rows \subseteq {program[s].user}
        /\ task[w].rows \subseteq Users /\ client[s].id = None
    BY <1>1, BusyHasToken DEF SignInv, CharSame, TaskTyped
  <1>3. client \in [Players -> Client]
    BY EveryPlayerConnects DEF SignInv, CharTyped, StateTyped
  <1>4. CASE client' = client /\ Done(w)
    BY <1>2, <1>4, IdleIsPlain, GoesSame DEF Done
  <1>5. ASSUME NEW u \in task[w].rows, client' = [client EXCEPT ![s].user = u], Done(w)
        PROVE  CharSame' /\ NoneBanned'
    <2>1. client'[s].id = None /\ \A q \in Players \ {s} : client'[q] = client[q]
      BY <1>2, <1>3, <1>5 DEF Client
    <2> QED BY <1>2, <1>5, <2>1, IdleIsPlain, Names3, ServesSame DEF Done, Goto
  <1>6. ASSUME NEW u \in task[w].rows, u \notin Banned,
               client' = [client EXCEPT ![s].id = u, ![s].user = u], Goto(w, t)
        PROVE  CharSame' /\ NoneBanned'
    <2>1. client'[s].id = u /\ \A q \in Players \ {s} : client'[q] = client[q]
      BY <1>2, <1>3, <1>6 DEF Client
    <2>2. t.at = "load" /\ t.s = s /\ u = program[s].user
      BY <1>2
    <2> HIDE DEF t
    <2> QED BY <1>2, <1>6, <2>1, <2>2, ServesSame DEF Goto
  <1> QED BY <1>4, <1>5, <1>6 DEF CheckUser, Result

LEMMA TakeSlotSame ==
  ASSUME SignInv, program' = program, NEW w \in Workers, TakeSlot(w)
  PROVE  CharSame' /\ NoneBanned'
  <1> DEFINE s == task[w].s
             t == [at |-> "redirect", s |-> s]
  <1>1. task[w].at = "picked"
    BY DEF TakeSlot, At
  <1>2. s \in Players /\ program[s].token # None
    BY <1>1, BusyHasToken
  <1>3. client \in [Players -> Client]
    BY EveryPlayerConnects DEF SignInv, CharTyped, StateTyped
  <1>4. t.at # "user" /\ t.s = s
    OBVIOUS
  <1> HIDE DEF t
  <1>5. Done(w) \/ Goto(w, t)
    BY DEF TakeSlot, Crash, t
  <1>6. \/ client' = client
        \/ \E n : client' = [client EXCEPT ![s].name = n, ![s].picked = TRUE]
    BY DEF TakeSlot
  <1>7. client'[s].id = client[s].id /\ \A q \in Players \ {s} : client'[q] = client[q]
    <2>1. CASE client' = client
      BY <2>1
    <2>2. ASSUME NEW n, client' = [client EXCEPT ![s].name = n, ![s].picked = TRUE]
          PROVE  <1>7
      BY <1>2, <1>3, <2>2 DEF Client
    <2> QED BY <1>6, <2>1, <2>2
  <1>8. client[s].id \in {None, program[s].user} /\ client[s].id \notin Banned
    BY <1>2 DEF SignInv, CharSame, BannedStayOut
  <1> QED BY <1>2, <1>4, <1>5, <1>7, <1>8, IdleIsPlain, ServesSame DEF Done, Goto

\* A handler's step at one of its places.
LEMMA PlaceSame ==
  ASSUME SignInv, program' = program, NEW w \in Workers, task[w].at # "idle",
         client' = client, NEW t, Goto(w, t), t = Idle \/ t.s = task[w].s, t.at # "user"
  PROVE  CharSame' /\ NoneBanned'
  BY BusyHasToken, GoesSame

LEMMA BeginSame ==
  ASSUME SignInv, program' = program, NEW w \in Workers, NEW s \in Players, SignedIn(w, s),
         client' = client, NEW t, Goto(w, t), t.s = s, t.at # "user"
  PROVE  CharSame' /\ NoneBanned'
  BY SignedInHasToken, GoesSame

LEMMA StillSame ==
  ASSUME SignInv, UNCHANGED <<program, client, task>>
  PROVE  CharSame' /\ NoneBanned'
  BY DEF SignInv, CharSame, BannedStayOut, NoneBanned
LEMMA AtCharSame ==
  ASSUME SignInv, AtChar
  PROVE  CharSame' /\ NoneBanned'
  <1>1. program' = program
    BY DEF AtChar
  <1>2. ASSUME NEW w \in Workers,
               LoadCount(w) \/ StoreCount(w) \/ ReportCount(w) \/ AskList(w)
                 \/ SendCharList(w)
        PROVE  CharSame' /\ NoneBanned'
    <2>1. task[w].at # "idle" /\ client' = client
      BY <1>2 DEF LoadCount, StoreCount, ReportCount, AskList, SendCharList, At
    <2>2. \E t : Goto(w, t) /\ (t = Idle \/ t.s = task[w].s) /\ t.at # "user"
      <3>1. CASE LoadCount(w) \/ StoreCount(w) \/ ReportCount(w)
        BY <3>1 DEF LoadCount, StoreCount, ReportCount
      <3>2. CASE AskList(w) \/ SendCharList(w)
        BY <3>2, IdleIsPlain DEF AskList, SendCharList, Ask, Done
      <3> QED BY <1>2, <3>1, <3>2
    <2> QED BY <1>1, <2>1, <2>2, PlaceSame
  <1>3. ASSUME NEW w \in Workers,
               CheckCount(w) \/ AskName(w) \/ CheckName(w) \/ InsertChar(w)
                 \/ SendCreated(w) \/ AskSlot(w) \/ Redirect(w)
        PROVE  CharSame' /\ NoneBanned'
    <2>1. task[w].at # "idle" /\ client' = client
      BY <1>3 DEF CheckCount, AskName, CheckName, InsertChar, SendCreated, AskSlot, Redirect, At
    <2>2. \E t : Goto(w, t) /\ (t = Idle \/ t.s = task[w].s) /\ t.at # "user"
      <3>1. CASE CheckCount(w) \/ CheckName(w)
        BY <3>1, IdleIsPlain DEF CheckCount, CheckName, Crash, Done
      <3>2. CASE AskName(w) \/ InsertChar(w) \/ SendCreated(w)
        BY <3>2, IdleIsPlain DEF AskName, InsertChar, SendCreated, Ask, Done
      <3>3. CASE AskSlot(w) \/ Redirect(w)
        BY <3>3, IdleIsPlain DEF AskSlot, Redirect, Ask, Crash, Done
      <3> QED BY <1>3, <3>1, <3>2, <3>3
    <2> QED BY <1>1, <2>1, <2>2, PlaceSame
  <1>4. ASSUME NEW w \in Workers, NEW s \in Players, PickChar(w, s)
        PROVE  CharSame' /\ NoneBanned'
    <2>1. SignedIn(w, s) /\ client' = client /\ Goto(w, [at |-> "list", s |-> s])
      BY <1>4 DEF PickChar
    <2> QED BY <1>1, <2>1, BeginSame
  <1>5. ASSUME NEW w \in Workers, NEW s \in Players, NEW n, NEW sl, AskCount(w, s, n, sl)
        PROVE  CharSame' /\ NoneBanned'
    <2>1. SignedIn(w, s) /\ client' = client
      BY <1>5 DEF AskCount
    <2>2. \E t : Goto(w, t) /\ t.s = s /\ t.at # "user"
      BY <1>5 DEF AskCount, Ask
    <2> QED BY <1>1, <2>1, <2>2, BeginSame
  <1>6. ASSUME NEW w \in Workers, NEW s \in Players, NEW sl, SelectChar(w, s, sl)
        PROVE  CharSame' /\ NoneBanned'
    <2>1. SignedIn(w, s) /\ client' = client
      BY <1>6 DEF SelectChar
    <2>2. \E t : Goto(w, t) /\ t.s = s /\ t.at # "user"
      BY <1>6 DEF SelectChar
    <2> QED BY <1>1, <2>1, <2>2, BeginSame
  <1>7. ASSUME NEW w \in Workers, NEW s \in Players, NEW sl, DeleteChar(w, s, sl)
        PROVE  CharSame' /\ NoneBanned'
    BY <1>1, <1>7, StillSame DEF DeleteChar
  <1>8. ASSUME NEW p \in Players, program[p].token # None, Connect(p)
        PROVE  CharSame' /\ NoneBanned'
    <2>1. Fresh.id = None
      BY DEF Fresh, Gone
    <2>2. client' = [client EXCEPT ![p] = Fresh] /\ task' = task
      BY <1>8 DEF Connect
    <2>3. client' = [q \in Players |-> IF q = p THEN Fresh ELSE client[q]]
      BY <2>2, EveryPlayerConnects DEF SignInv, CharTyped, StateTyped
    <2> QED BY <1>1, <1>8, <2>1, <2>2, <2>3, Names3
          DEF SignInv, CharSame, NoneBanned, BannedStayOut
  <1>9. ASSUME NEW g \in Games, GameServerComes(g) \/ GameServerGoes(g)
        PROVE  CharSame' /\ NoneBanned'
    BY <1>1, <1>9, StillSame DEF GameServerComes, GameServerGoes
  <1>10. ASSUME NEW w \in Workers, List(w) \/ Create(w) \/ Select(w)
         PROVE  CharSame' /\ NoneBanned'
    BY <1>1, <1>2, <1>3, <1>4, <1>5, <1>6, <1>7, <1>10, TakeSlotSame, EveryPlayerConnects
       DEF List, Create, Select
  <1> QED BY <1>1, <1>2, <1>8, <1>9, <1>10, AskUserSame, CheckUserSame DEF AtChar

LEMMA LoginAsWas ==
  ASSUME SignInv, LoginQuiet, program' = program, loginid' = loginid
  PROVE  LoginTypes' /\ TokensTell' /\ \A p \in Players : ProgramOK(p)'
  <1>1. account' = account /\ ltask' = ltask /\ issued' = issued
    BY DEF LoginQuiet
  <1>2. LoginTypes'
    BY <1>1 DEF SignInv, LoginTypes, LTaskOK, OneEach
  <1> QED BY <1>1, <1>2 DEF SignInv, TokensTell, ProgramOK

LEMMA AtCharKeeps == SignInv /\ AtChar => SignInv'
  <1> SUFFICES ASSUME SignInv, AtChar PROVE SignInv'
    OBVIOUS
  <1>1. loginid' = loginid
    BY CharLeavesIds
  <1>2. LoginQuiet /\ UNCHANGED <<program, playing, gtask>>
    BY DEF AtChar
  <1>3. \A p \in Players : program[p].token \in Tokens \cup {Zero, None}
    BY DEF SignInv, ProgramOK, LoginTypes
  <1>4. Next
    <2>1. ASSUME NEW w \in Workers, NEW p \in Players, program[p].token # None,
                 AskUser(w, p, program[p].token)
          PROVE  Login(w)
      <3>1. program[p].token \in Tokens
        BY <1>3, <2>1 DEF AskUser
      <3> QED BY <2>1, <3>1, EveryPlayerConnects DEF Login
    <2>2. ASSUME NEW w \in Workers,
                 CheckUser(w) \/ LoadCount(w) \/ StoreCount(w) \/ ReportCount(w)
          PROVE  Login(w)
      BY <2>2 DEF Login
    <2> QED BY <2>1, <2>2, EveryPlayerConnects DEF AtChar, Next
  <1>5. CharTyped'
    BY <1>4, TypedStep DEF SignInv
  <1>6. CharSame' /\ NoneBanned'
    BY AtCharSame
  <1>7. GameSame'
    BY <1>2 DEF SignInv, GameSame
  <1>8. BannedStayOut'
    BY <1>2, <1>6 DEF SignInv, BannedStayOut, NoneBanned, LoginQuiet
  <1> QED BY <1>1, <1>2, <1>5, <1>6, <1>7, <1>8, LoginAsWas DEF SignInv
-----------------------------------------------------------------------------
(* The game server                                                          *)

\* Two accounts do not have login ids that begin with the same word.
LEMMA AskPlayerKeeps ==
  ASSUME SignInv, NEW p \in Players, AskPlayer(p)
  PROVE  SignInv'
  <1> DEFINE rows == {[id |-> r.id, owner |-> r.owner,
                       word |-> FirstWord[loginid[r.owner]]] : r \in Named(client[p].name)}
             t == [at |-> "row", p |-> p, word |-> FirstWord[program[p].token], rows |-> rows]
  <1>1. /\ gtask' = t /\ client[p].picked
        /\ CharQuiet /\ LoginQuiet /\ UNCHANGED <<dbVars, program, playing>>
    BY DEF AskPlayer
  <1>2. program[p].token # None
    BY <1>1 DEF SignInv, CharSame, Gone
  <1>3. ASSUME NEW r \in rows
        PROVE  /\ r.owner \in Users
               /\ WordsDiffer /\ r.word = FirstWord[program[p].token]
                    => r.owner = program[p].user
    <2>1. PICK c \in characters : r = [id |-> c.id, owner |-> c.owner,
                                       word |-> FirstWord[loginid[c.owner]]]
      BY DEF Named
    <2>2. r.owner = c.owner /\ r.word = FirstWord[loginid[c.owner]]
      BY <2>1
    <2>3. c.owner \in Users /\ loginid[c.owner] \in Tokens \cup {Zero}
      BY DEF SignInv, CharTyped, StateTyped, DBTypeOK, Rows
    <2>4. program[p].token \in Tokens \cup {Zero}
      BY <1>2 DEF SignInv, ProgramOK, LoginTypes
    <2> QED BY <1>2, <2>2, <2>3, <2>4 DEF WordsDiffer, SignInv, TokensTell
  <1>4. t.at = "row" /\ t.p = p /\ t.word = FirstWord[program[p].token] /\ t.rows = rows
    OBVIOUS
  <1> HIDE DEF t, rows
  <1>5. GameSame'
    BY <1>1, <1>2, <1>3, <1>4 DEF SignInv, GameSame
  <1>6. DBTypeOK' /\ loginid' = loginid
    BY <1>1, SameTables DEF SignInv
  <1>7. CharTyped' /\ CharSame'
    BY <1>1, <1>6, QuietTyped DEF SignInv, CharQuiet, CharSame
  <1>8. BannedStayOut'
    BY <1>1 DEF SignInv, BannedStayOut, CharQuiet, LoginQuiet
  <1> QED BY <1>1, <1>5, <1>6, <1>7, <1>8, LoginAsWas DEF SignInv

LEMMA CheckPlayerKeeps ==
  ASSUME SignInv, CheckPlayer
  PROVE  SignInv'
  <1> DEFINE p == gtask.p
  <1>1. /\ gtask.at = "row" /\ gtask' = LIdle /\ gtask # LIdle
        /\ CharQuiet /\ LoginQuiet /\ UNCHANGED <<dbVars, program>>
    BY LIdleIsPlain DEF CheckPlayer
  <1>2. p \in Players /\ program[p].token # None
    BY <1>1 DEF SignInv, GameSame
  <1>3. \/ playing' = playing
        \/ \E r \in gtask.rows :
             /\ r.word = gtask.word /\ r.owner \notin Banned
             /\ playing' = [playing EXCEPT ![p] = [id |-> r.id, owner |-> r.owner]]
    <2>1. CASE Cardinality(gtask.rows) # 1
      BY <2>1 DEF CheckPlayer
    <2>2. CASE Cardinality(gtask.rows) = 1
      <3>1. gtask.rows # {}
        BY <2>2, FS_EmptySet
      <3> DEFINE row == CHOOSE r \in gtask.rows : TRUE
      <3>2. row \in gtask.rows
        BY <3>1
      <3> QED BY <2>2, <3>2 DEF CheckPlayer
    <2> QED BY <2>1, <2>2
  <1>4. GameSame' /\ \A q \in Players : playing'[q].owner \notin Banned
    <2>1. CASE playing' = playing
      BY <1>1, <2>1 DEF SignInv, GameSame, BannedStayOut
    <2>2. ASSUME NEW r \in gtask.rows, r.word = gtask.word, r.owner \notin Banned,
                 playing' = [playing EXCEPT ![p] = [id |-> r.id, owner |-> r.owner]]
          PROVE  <1>4
      <3>1. WordsDiffer => r.owner = program[p].user
        BY <1>1, <2>2 DEF SignInv, GameSame
      <3>2. /\ playing'[p].owner = r.owner
            /\ \A q \in Players \ {p} : playing'[q] = playing[q]
            /\ playing' = [q \in Players |-> playing'[q]]
        BY <1>2, <2>2 DEF SignInv, GameSame
      <3> QED BY <1>1, <1>2, <2>2, <3>1, <3>2 DEF SignInv, GameSame, BannedStayOut
    <2> QED BY <1>3, <2>1, <2>2
  <1>5. DBTypeOK' /\ loginid' = loginid
    BY <1>1, SameTables DEF SignInv
  <1>6. CharTyped' /\ CharSame'
    BY <1>1, <1>5, QuietTyped DEF SignInv, CharQuiet, CharSame
  <1>7. BannedStayOut'
    BY <1>1, <1>4 DEF SignInv, BannedStayOut, CharQuiet, LoginQuiet
  <1> QED BY <1>1, <1>4, <1>5, <1>6, <1>7, LoginAsWas DEF SignInv
-----------------------------------------------------------------------------
\* A player quits: nobody is served then.
LEMMA QuitKeeps ==
  ASSUME SignInv, NEW p \in Players, Quit(p)
  PROVE  SignInv'
  <1> USE EveryPlayerConnects
  <1>1. /\ \A w \in LoginWorkers : ltask[w] = LIdle
        /\ \A w \in Workers : task[w] = Idle
        /\ gtask = LIdle /\ gtask' = LIdle
        /\ UNCHANGED <<dbVars, ltask, issued, task, thread, conn, currentusers, logins,
                       deleted, gameList, crashed>>
    BY DEF Quit, LFree, ListFree
  <1>2. /\ program' = [program EXCEPT ![p] = NoProgram]
        /\ account' = [account EXCEPT ![p] = Away]
        /\ client' = [client EXCEPT ![p] = Gone]
        /\ playing' = [playing EXCEPT ![p] = NoCharacter]
    BY DEF Quit
  <1>3. /\ NoProgram \in Program /\ NoProgram.token = None
        /\ Away \in Account /\ ~Away.on /\ Away.id = None
        /\ Gone \in Client /\ Gone.id = None /\ NoCharacter.owner = None
    BY DEF NoProgram, Program, Away, Account, Gone, Client, NoCharacter
  <1>4. /\ program' \in [Players -> Program] /\ program'[p] = NoProgram
        /\ \A q \in Players \ {p} : program'[q] = program[q]
    BY <1>2, <1>3 DEF SignInv
  <1>5. /\ account' \in [Players -> Account] /\ account'[p] = Away
        /\ \A q \in Players \ {p} : account'[q] = account[q]
    BY <1>2, <1>3 DEF SignInv, LoginTypes
  <1>6. /\ client' \in [Sessions -> Client] /\ client'[p] = Gone
        /\ \A q \in Players \ {p} : client'[q] = client[q]
    BY <1>2, <1>3 DEF SignInv, CharTyped, StateTyped
  <1>7. /\ playing' = [q \in Players |-> playing'[q]] /\ playing'[p] = NoCharacter
        /\ \A q \in Players \ {p} : playing'[q] = playing[q]
    BY <1>2 DEF SignInv, GameSame
  <1>8. DBTypeOK' /\ loginid' = loginid
    BY <1>1, SameTables DEF SignInv
  <1>9. CharTyped'
    <2>1. ConnTyped' /\ CountsTyped'
      BY <1>1, CountSteps DEF SignInv, CharTyped, StateTyped, ConnTyped
    <2>2. StateTyped'
      BY <1>1, <1>6, <1>8, <2>1 DEF SignInv, CharTyped, StateTyped
    <2>3. \A w \in Workers : TaskTyped(w)'
      BY <1>1, IdleIsPlain DEF TaskTyped, Idle, Creating
    <2>4. IdIsUser'
      BY <1>3, <1>6 DEF SignInv, CharTyped, IdIsUser
    <2> QED BY <1>1, <2>2, <2>3, <2>4 DEF SignInv, CharTyped
  <1>10. LoginTypes'
    <2>1. \A w \in LoginWorkers : LTaskOK(w)'
      BY <1>1, LIdleIsPlain DEF LTaskOK
    <2> QED BY <1>1, <1>3, <1>5, <1>8, <2>1 DEF SignInv, LoginTypes, OneEach
  <1>11. \A q \in Players : ProgramOK(q)'
    BY <1>1, <1>3, <1>4, <1>5 DEF SignInv, ProgramOK
  <1>12. TokensTell'
    BY <1>1, <1>3, <1>4, <1>8, LIdleIsPlain DEF SignInv, TokensTell
  <1>13. CharSame'
    BY <1>1, <1>3, <1>4, <1>6, IdleIsPlain DEF SignInv, CharSame
  <1>14. GameSame'
    BY <1>1, <1>3, <1>4, <1>7 DEF SignInv, GameSame
  <1>15. BannedStayOut'
    BY <1>3, <1>5, <1>6, <1>7, Names3 DEF SignInv, BannedStayOut
  <1> QED BY <1>4, <1>9, <1>10, <1>11, <1>12, <1>13, <1>14, <1>15 DEF SignInv

LEMMA NothingKeeps == SignInv /\ UNCHANGED signVars => SignInv'
  <1> SUFFICES ASSUME SignInv, UNCHANGED signVars PROVE SignInv'
    OBVIOUS
  <1>1. /\ UNCHANGED <<dbVars, charVars, program, playing, gtask, account, ltask, issued>>
        /\ UNCHANGED vars
    BY DEF signVars, loginVars, vars
  <1>2. CharTyped'
    BY <1>1, TypedStep DEF SignInv
  <1>3. loginid' = loginid /\ client' = client /\ task' = task
    BY <1>1 DEF dbVars, charVars
  <1>4. LoginTypes' /\ TokensTell' /\ \A p \in Players : ProgramOK(p)'
    BY <1>1, <1>3 DEF SignInv, LoginTypes, LTaskOK, OneEach, TokensTell, ProgramOK
  <1>5. CharSame' /\ GameSame' /\ BannedStayOut'
    BY <1>1, <1>3 DEF SignInv, CharSame, GameSame, BannedStayOut
  <1> QED BY <1>1, <1>2, <1>4, <1>5 DEF SignInv

LEMMA SignStep == SignInv /\ [SignNext]_signVars => SignInv'
  BY AtLoginKeeps, AtCharKeeps, AskPlayerKeeps, CheckPlayerKeeps, QuitKeeps, NothingKeeps
     DEF SignNext, AtGame

LEMMA InvIsBanned == SignInv => BannedStayOut
  BY DEF SignInv

\* Wherever he is, a player is the account he has proved at the login server, if
\* no two login ids begin with the 16 bits that the game server compares
\* (CGameServer.cpp:873).
THEOREM PlayersAreThemselves == ASSUME WordsDiffer PROVE SignSpec => []SameAccount
  <1>1. SignInv => SameAccount
    BY InvIsSameAccount
  <1> QED BY <1>1, SignStart, SignStep, PTL DEF SignSpec

\* Nobody banned is in at any server, whatever the game server compares
\* (accesslevel: CLoginServer.cpp:168, CCharServer.cpp:426, CGameServer.cpp:887).
THEOREM BannedNowhere == SignSpec => []BannedStayOut
  BY SignStart, SignStep, InvIsBanned, PTL DEF SignSpec
-----------------------------------------------------------------------------
(* What is sent is what is stored: with one worker the connection is free   *)
(* when it stores a login id, and nobody stores another before it is sent.  *)

OneLoginWorker == \A v, w \in LoginWorkers : v = w

StoredInv ==
  /\ lconn \in [pending : LoginWorkers \cup {None}, insertId : {0}]
  /\ \A w \in LoginWorkers : lconn.pending = w => ltask[w].at = "account"
  /\ OneLoginWorker => \A w \in LoginWorkers : ltask[w].at = "send" =>
                         loginid[account[ltask[w].p].id] = ltask[w].token
  /\ OneLoginWorker => \A m \in lsent : m.cmd = "0c0c" =>
                         loginid[account[m.to].id] = m.token

LEMMA StoredIsTokenStored == StoredInv => TokenStored
  <1> SUFFICES ASSUME StoredInv, Cardinality(LoginWorkers) = 1 PROVE OneLoginWorker
    BY DEF StoredInv, TokenStored
  <1>1. \E w : LoginWorkers = {w}
    BY LoginWorkersFinite, FS_Singleton
  <1> QED BY <1>1 DEF OneLoginWorker

LEMMA StoredStart == SignInit => StoredInv
  BY LIdleIsPlain, LoginWorkersFinite DEF SignInit, LoginInit, StoredInv, FreshConn

\* A step that tells nobody a login id, stores none and has none under way.
LEMMA NoTokenStored ==
  ASSUME SignInv, StoredInv, \A m \in lsent' : m.cmd # "0c0c",
         lconn' \in [pending : LoginWorkers \cup {None}, insertId : {0}],
         \A w \in LoginWorkers : lconn'.pending = w => ltask'[w].at = "account",
         \A w \in LoginWorkers : ltask'[w].at # "send"
  PROVE  StoredInv'
  BY DEF StoredInv

\* One worker's step: there is no other one, or nothing is claimed of it.
LEMMA WorkerStored ==
  ASSUME SignInv, StoredInv, \A m \in lsent' : m.cmd # "0c0c",
         NEW w \in LoginWorkers, NEW t, LGoto(w, t), t.at # "send",
         \/ lconn' = lconn /\ ltask[w].at # "account"
         \/ lconn' = Asked(lconn, w) /\ t.at = "account"
         \/ lconn' = Fetched(lconn, w)
  PROVE  StoredInv'
  <1>1. ltask'[w] = t /\ \A v \in LoginWorkers \ {w} : ltask'[v] = ltask[v]
    BY DEF SignInv, LoginTypes, LGoto
  <1>2. lconn' \in [pending : LoginWorkers \cup {None}, insertId : {0}]
    BY DEF StoredInv, Asked, Fetched, Sent
  <1>3. \A v \in LoginWorkers : lconn'.pending = v => ltask'[v].at = "account"
    <2>1. CASE lconn' = lconn /\ ltask[w].at # "account"
      BY <1>1, <2>1 DEF StoredInv
    <2>2. CASE lconn' = Asked(lconn, w) /\ t.at = "account"
      BY <1>1, <2>2 DEF StoredInv, Asked, Sent
    <2>3. CASE lconn' = Fetched(lconn, w)
      BY <1>1, <2>3, LoginWorkersFinite DEF StoredInv, Fetched
    <2> QED BY <2>1, <2>2, <2>3
  <1>4. OneLoginWorker => \A v \in LoginWorkers : ltask'[v].at # "send"
    BY <1>1 DEF OneLoginWorker
  <1> QED BY <1>2, <1>3, <1>4 DEF StoredInv

LEMMA LoginStored ==
  ASSUME SignInv, StoredInv, AtLogin
  PROVE  StoredInv'
  <1>1. ASSUME NEW g \in Worlds, WorldComes(g) \/ WorldGoes(g) PROVE StoredInv'
    BY <1>1 DEF WorldComes, WorldGoes, StoredInv, dbVars
  <1>2. ASSUME NEW w \in LoginWorkers, NEW p \in Players, EuropeLogin(w, p) \/ Ping(w, p)
        PROVE  StoredInv'
    <2>1. \A m \in lsent' : m.cmd # "0c0c"
      BY <1>2 DEF EuropeLogin, Ping, Refusal
    <2>2. UNCHANGED <<lconn, ltask, account, dbVars>>
      BY <1>2 DEF EuropeLogin, Ping
    <2> QED BY <2>1, <2>2 DEF StoredInv, dbVars
  <1>3. ASSUME NEW w \in LoginWorkers, NEW p \in Players, NEW u, AskAccount(w, p, u)
        PROVE  StoredInv'
    <2>1. /\ lsent' = {} /\ lconn' = Asked(lconn, w)
          /\ \E t : LGoto(w, t) /\ t.at = "account"
      BY <1>3 DEF AskAccount
    <2> QED BY <2>1, WorkerStored
  <1>4. ASSUME NEW w \in LoginWorkers, NEW p \in Players, NEW g, JoinServer(w, p, g)
        PROVE  StoredInv'
    <2>1. /\ lsent' = {} /\ lconn' = lconn /\ ltask[w] = LIdle
          /\ UNCHANGED <<account, dbVars>>
          /\ ltask' = ltask \/ \E t : LGoto(w, t) /\ t.at = "token"
      BY <1>4 DEF JoinServer, LServes
    <2>2. CASE ltask' = ltask
      BY <2>1, <2>2 DEF StoredInv, dbVars
    <2>3. CASE \E t : LGoto(w, t) /\ t.at = "token"
      BY <2>1, <2>3, LIdleIsPlain, WorkerStored
    <2> QED BY <2>1, <2>2, <2>3
  <1>5. ASSUME NEW w \in LoginWorkers, CheckAccount(w) PROVE StoredInv'
    <2>1. /\ \A m \in lsent' : m.cmd # "0c0c"
          /\ LGoto(w, LIdle) /\ lconn' = Fetched(lconn, w)
      BY <1>5 DEF CheckAccount, Refusal
    <2> QED BY <2>1, LIdleIsPlain, WorkerStored
  <1>6. ASSUME NEW w \in LoginWorkers, StoreToken(w) PROVE StoredInv'
    <2> DEFINE p == ltask[w].p
               u == account[p].id
    <2>1. PICK tk \in Tokens \ issued :
            /\ IF Sent(lconn) THEN SetLoginId(u, tk) ELSE UNCHANGED dbVars
            /\ LGoto(w, [at |-> "send", p |-> p, world |-> ltask[w].world, token |-> tk])
      BY <1>6 DEF StoreToken
    <2> DEFINE t == [at |-> "send", p |-> p, world |-> ltask[w].world, token |-> tk]
    <2>2. /\ ltask[w].at = "token" /\ lsent' = {} /\ UNCHANGED <<account, lconn>>
      BY <1>6 DEF StoreToken, LAt
    <2>3. t.at = "send" /\ t.p = p /\ t.token = tk
      OBVIOUS
    <2>4. ltask'[w] = t /\ \A v \in LoginWorkers \ {w} : ltask'[v] = ltask[v]
      BY <2>1 DEF SignInv, LoginTypes, LGoto
    <2>5. u \in Users
      BY <2>2 DEF SignInv, LoginTypes, LTaskOK
    <2>6. lconn.pending # w
      BY <2>2 DEF StoredInv
    <2>7. OneLoginWorker => loginid'[u] = tk
      <3> SUFFICES ASSUME OneLoginWorker PROVE loginid'[u] = tk
        OBVIOUS
      <3>1. Sent(lconn)
        BY <2>6 DEF OneLoginWorker, StoredInv, Sent
      <3>2. loginid' = [loginid EXCEPT ![u] = tk]
        BY <2>1, <3>1 DEF SetLoginId
      <3> QED BY <2>5, <3>2 DEF SignInv, CharTyped, StateTyped, DBTypeOK
    <2> HIDE DEF t
    <2>8. \A v \in LoginWorkers : lconn'.pending = v => ltask'[v].at = "account"
      BY <2>2, <2>4, <2>6 DEF StoredInv
    <2>9. OneLoginWorker => \A v \in LoginWorkers : ltask'[v].at = "send" =>
                             loginid'[account'[ltask'[v].p].id] = ltask'[v].token
      BY <2>2, <2>3, <2>4, <2>7 DEF OneLoginWorker
    <2> QED BY <2>2, <2>8, <2>9 DEF StoredInv
  <1>7. ASSUME NEW w \in LoginWorkers, SendWorld(w) PROVE StoredInv'
    <2>1. /\ ltask[w].at = "send" /\ LGoto(w, LIdle)
          /\ UNCHANGED <<dbVars, account, lconn>>
      BY <1>7 DEF SendWorld, LAt
    <2>2. ltask'[w] = LIdle /\ \A v \in LoginWorkers \ {w} : ltask'[v] = ltask[v]
      BY <2>1 DEF SignInv, LoginTypes, LGoto
    <2>3. \A m \in lsent' : m.to = ltask[w].p /\ m.token = ltask[w].token
      BY <1>7 DEF SendWorld
    <2>4. \A v \in LoginWorkers : lconn'.pending = v => ltask'[v].at = "account"
      BY <2>1, <2>2 DEF StoredInv
    <2>5. loginid' = loginid
      BY <2>1 DEF dbVars
    <2>6. OneLoginWorker => \A v \in LoginWorkers : ltask'[v].at # "send"
      BY <2>2, LIdleIsPlain DEF OneLoginWorker
    <2>7. OneLoginWorker => \A m \in lsent' : loginid'[account'[m.to].id] = m.token
      BY <2>1, <2>3, <2>5 DEF StoredInv
    <2> QED BY <2>1, <2>4, <2>6, <2>7 DEF StoredInv
  <1>8. ASSUME NEW p \in Players, LConnect(p) \/ LDisconnect(p) PROVE StoredInv'
    <2>1. /\ UNCHANGED <<ltask, lconn>> /\ \A w \in LoginWorkers : ltask[w] = LIdle
          /\ \A m \in lsent' : m.cmd # "0c0c"
      BY <1>8 DEF LConnect, LDisconnect, LFree
    <2> QED BY <2>1, LIdleIsPlain, NoTokenStored DEF StoredInv
  <1> QED BY <1>1, <1>2, <1>3, <1>4, <1>5, <1>6, <1>7, <1>8 DEF AtLogin, LoginStep

LEMMA ElsewhereStored ==
  ASSUME StoredInv, LoginQuiet, loginid' = loginid
  PROVE  StoredInv'
  BY DEF StoredInv, LoginQuiet

LEMMA StoredStep == SignInv /\ StoredInv /\ [SignNext]_signVars => StoredInv'
  <1> SUFFICES ASSUME SignInv, StoredInv, [SignNext]_signVars PROVE StoredInv'
    OBVIOUS
  <1>1. CASE AtChar
    BY <1>1, CharLeavesIds, ElsewhereStored DEF AtChar
  <1>2. CASE AtGame
    BY <1>2, ElsewhereStored DEF AtGame, AskPlayer, CheckPlayer, dbVars
  <1>3. ASSUME NEW p \in Players, Quit(p) PROVE StoredInv'
    <2>1. /\ UNCHANGED <<ltask, lconn>> /\ \A w \in LoginWorkers : ltask[w] = LIdle
          /\ lsent' = {}
      BY <1>3 DEF Quit, LFree
    <2> QED BY <2>1, LIdleIsPlain, NoTokenStored DEF StoredInv
  <1>4. CASE UNCHANGED signVars
    BY <1>4 DEF signVars, loginVars, dbVars, StoredInv
  <1> QED BY <1>1, <1>2, <1>3, <1>4, LoginStored DEF SignNext

\* With one worker at the login server, the login id that a player is sent is the
\* one in the row of his account (pakJoinServer, CLoginServer.cpp:130).
THEOREM SentTokensAreStored == SignSpec => []TokenStored
  BY SignStart, SignStep, StoredStart, StoredStep, StoredIsTokenStored, PTL DEF SignSpec
=============================================================================
