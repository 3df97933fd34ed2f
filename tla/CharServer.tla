----------------------------- MODULE CharServer -----------------------------
(***************************************************************************)
(* The packet handlers of the char server (Char Server/CCharServer.cpp):    *)
(* sign-in by token, the list of characters, creating, deleting and         *)
(* selecting one, quickbars, whispers.  Each client is served by one worker *)
(* thread, which handles one packet at a time; a handler is a sequence of   *)
(* steps, one per call into the MySQL client library, and the steps of two  *)
(* workers interleave.                                                      *)
(*                                                                         *)
(* An outcome the code does not handle ends the process: mysql_num_rows and *)
(* mysql_fetch_row of a NULL result, and row[0] of an empty one.            *)
(***************************************************************************)
EXTENDS Database

CONSTANTS
  Sessions,    \* connections of clients; one is used again after it ends
  Workers,     \* worker threads
  Unsafe,      \* names MakeSQLSafe changes
  MaxChars,    \* the limit of pakCreateChar: 4 in the code
  Games,       \* the game servers this server may learn of
  MaxLogins    \* bound: sign-ins that are counted

ASSUME WorkersFinite == IsFiniteSet(Workers) /\ Workers # {} /\ None \notin Workers
ASSUME MaxCharsPos == MaxChars \in Nat \ {0}
ASSUME UnsafeKnown == Unsafe \subseteq Names
ASSUME MaxLoginsNat == MaxLogins \in Nat

VARIABLES
  thread,        \* session -> the worker that serves it
  client,        \* session -> CCharClient, or Gone
  task,          \* worker -> the handler it runs and where it is
  conn,          \* the process's one MYSQL connection
  gameList,      \* ServerList: the game servers of this world
  currentusers,  \* ServerData.currentusers
  crashed,
  sent,          \* packets sent by the last step
  logins,        \* history: clients signed in so far
  deleted        \* history: names of characters that were deleted

charVars == <<thread, client, task, conn, gameList, currentusers, crashed, sent,
              logins, deleted>>
vars == <<dbVars, charVars>>

Gone == [on |-> FALSE, id |-> None, user |-> None, name |-> None, picked |-> FALSE]
\* The constructor: id, accesslevel and lastslot are -1.
Fresh == [Gone EXCEPT !.on = TRUE]
Idle == [at |-> "idle"]

CharInit == /\ thread \in [Sessions -> Workers]
            /\ client = [s \in Sessions |-> Gone]
            /\ task = [w \in Workers |-> Idle]
            /\ conn = FreshConn
            /\ gameList = {}
            /\ currentusers = 0 /\ logins = 0
            /\ crashed = FALSE
            /\ sent = {} /\ deleted = {}

Init == DBInit /\ CharInit

\* While any worker handles a packet it holds rwmClientList for reading, so that
\* nobody joins or leaves the list.
ListFree == \A w \in Workers : task[w] = Idle

Free(w) == ~crashed /\ task[w] = Idle
Serves(w, s) == Free(w) /\ thread[s] = w /\ client[s].on
SignedIn(w, s) == Serves(w, s) /\ client[s].id # None
At(w, place) == ~crashed /\ task[w].at = place

Goto(w, t) == task' = [task EXCEPT ![w] = t]
Done(w) == Goto(w, Idle)
Crash(w) == crashed' = TRUE /\ Done(w)
Alive == crashed' = crashed
Say(packets) == sent' = packets
Quiet == sent' = {}

\* DoSQL up to mysql_query: t is what the handler does next, with the rows or
\* their number, and
\* whether the query was accepted.
Ask(w, t) == conn' = Asked(conn, w) /\ Goto(w, t)
\* mysql_store_result: NULL when the query was refused.
Fetch(w) == conn' = Fetched(conn, w)
Result(w) == task[w].rows
IsNull(w) == ~task[w].ok

same == UNCHANGED <<thread, gameList>>
-----------------------------------------------------------------------------
(* Clients come and go; game servers come and go (ReceivedISCPacket).       *)

\* CreateNewClient and OnClientConnect.
Connect(s) ==
  /\ ~crashed /\ ListFree /\ ~client[s].on
  /\ client' = [client EXCEPT ![s] = Fresh]
  /\ Say({[to |-> s, cmd |-> "0807"]})
  /\ same /\ Alive
  /\ UNCHANGED <<dbVars, task, conn, currentusers, logins, deleted>>

\* OnClientDisconnect does nothing: currentusers is not counted down.
Disconnect(s) ==
  /\ ~crashed /\ ListFree /\ client[s].on
  /\ client' = [client EXCEPT ![s] = Gone]
  /\ Quiet /\ same /\ Alive
  /\ UNCHANGED <<dbVars, task, conn, currentusers, logins, deleted>>

\* The hub's thread: IDENTIFY and REMOVE of a game server of this world.
GameServerComes(g) ==
  /\ ~crashed /\ g \notin gameList /\ gameList' = gameList \cup {g}
  /\ Quiet
  /\ UNCHANGED <<dbVars, thread, client, task, conn, currentusers, crashed, logins, deleted>>

GameServerGoes(g) ==
  /\ ~crashed /\ g \in gameList /\ gameList' = gameList \ {g}
  /\ Quiet
  /\ UNCHANGED <<dbVars, thread, client, task, conn, currentusers, crashed, logins, deleted>>
-----------------------------------------------------------------------------
(* pakUserLogin                                                             *)

\* The login id is all zero: authFail.
RefuseZero(w, s) ==
  /\ Serves(w, s) /\ client[s].id = None
  /\ Say({[to |-> s, cmd |-> "0c09"]})
  /\ client' = [client EXCEPT ![s].user = None]
  /\ same /\ Alive
  /\ UNCHANGED <<dbVars, task, conn, currentusers, logins, deleted>>

\* SELECT the user with this login id.
AskUser(w, s, t) ==
  /\ Serves(w, s) /\ client[s].id = None /\ t # Zero
  /\ client' = [client EXCEPT ![s].user = None]
  /\ Ask(w, [at |-> "user", s |-> s, ok |-> Sent(conn),
             rows |-> {u \in Users : loginid[u] = t}])
  /\ Quiet /\ same /\ Alive
  /\ UNCHANGED <<dbVars, currentusers, logins, deleted>>

\* Exactly one row, of an account that is not banned; else authFail.  A banned
\* one leaves its user name behind, but no id.
CheckUser(w) ==
  /\ At(w, "user") /\ Fetch(w)
  /\ LET s == task[w].s IN
       IF IsNull(w) \/ Cardinality(Result(w)) # 1
         THEN /\ Say({[to |-> s, cmd |-> "0c09"]}) /\ Done(w)
              /\ UNCHANGED <<client, logins>>
         ELSE \E u \in Result(w) :
              IF u \in Banned
                THEN /\ client' = [client EXCEPT ![s].user = u]
                     /\ Say({[to |-> s, cmd |-> "0c09"]}) /\ Done(w)
                     /\ UNCHANGED logins
                ELSE /\ client' = [client EXCEPT ![s].id = u, ![s].user = u]
                     /\ logins < MaxLogins /\ logins' = logins + 1
                     /\ Goto(w, [at |-> "load", s |-> s]) /\ Quiet
  /\ same /\ Alive /\ UNCHANGED <<dbVars, currentusers, deleted>>

\* ServerData.currentusers++ is a load and a store...
LoadCount(w) ==
  /\ At(w, "load")
  /\ Goto(w, [at |-> "store", s |-> task[w].s, n |-> currentusers])
  /\ Quiet /\ same /\ Alive
  /\ UNCHANGED <<dbVars, client, conn, currentusers, logins, deleted>>

\* ... and the packet to the hub reads it again.
StoreCount(w) ==
  /\ At(w, "store")
  /\ currentusers' = task[w].n + 1
  /\ Goto(w, [at |-> "report", s |-> task[w].s])
  /\ Quiet /\ same /\ Alive
  /\ UNCHANGED <<dbVars, client, conn, logins, deleted>>

ReportCount(w) ==
  /\ At(w, "report")
  /\ Say({[to |-> "hub", cmd |-> "UPDATEUSERCNT", n |-> currentusers]})
  /\ Goto(w, [at |-> "list", s |-> task[w].s])
  /\ same /\ Alive
  /\ UNCHANGED <<dbVars, client, conn, currentusers, logins, deleted>>
-----------------------------------------------------------------------------
(* SendCharList: at the end of pakUserLogin, and alone in pakPickChar.      *)

PickChar(w, s) ==
  /\ SignedIn(w, s)
  /\ Goto(w, [at |-> "list", s |-> s])
  /\ Quiet /\ same /\ Alive
  /\ UNCHANGED <<dbVars, client, conn, currentusers, logins, deleted>>

AskList(w) ==
  /\ At(w, "list")
  /\ Ask(w, [at |-> "send", s |-> task[w].s, ok |-> Sent(conn),
             rows |-> {r.id : r \in CharsOf(client[task[w].s].user)}])
  /\ Quiet /\ same /\ Alive
  /\ UNCHANGED <<dbVars, client, currentusers, logins, deleted>>

\* Without a result nothing is sent.
SendCharList(w) ==
  /\ At(w, "send") /\ Fetch(w) /\ Done(w)
  /\ Say(IF IsNull(w) THEN {} ELSE {[to |-> task[w].s, cmd |-> "0c14", ids |-> Result(w)]})
  /\ same /\ Alive
  /\ UNCHANGED <<dbVars, client, currentusers, logins, deleted>>
-----------------------------------------------------------------------------
(* pakCreateChar                                                            *)

AskCount(w, s, n, sl) ==
  /\ SignedIn(w, s)
  /\ Ask(w, [at |-> "count", s |-> s, name |-> n, slot |-> sl, ok |-> Sent(conn),
             num |-> Cardinality(CharsOf(client[s].user))])
  /\ Quiet /\ same /\ Alive
  /\ UNCHANGED <<dbVars, client, currentusers, logins, deleted>>

\* Mutant: one character more than the limit.
CheckCount_OffByOne(w) ==
  /\ At(w, "count") /\ Fetch(w) /\ Quiet
  /\ CASE IsNull(w) -> Crash(w)
       [] ~IsNull(w) /\ \/ task[w].num > MaxChars
                        \/ task[w].name \in Unsafe -> Done(w) /\ Alive
       [] OTHER -> /\ Goto(w, [at |-> "name", s |-> task[w].s, name |-> task[w].name,
                               slot |-> task[w].slot])
                   /\ Alive
  /\ same /\ UNCHANGED <<dbVars, client, currentusers, logins, deleted>>

\* The limit and the name's characters; nothing is said when they do not hold.
CheckCount(w) ==
  /\ At(w, "count") /\ Fetch(w) /\ Quiet
  /\ CASE IsNull(w) -> Crash(w)
       [] ~IsNull(w) /\ \/ task[w].num >= MaxChars
                        \/ task[w].name \in Unsafe -> Done(w) /\ Alive
       [] OTHER -> /\ Goto(w, [at |-> "name", s |-> task[w].s, name |-> task[w].name,
                               slot |-> task[w].slot])
                   /\ Alive
  /\ same /\ UNCHANGED <<dbVars, client, currentusers, logins, deleted>>

AskName(w) ==
  /\ At(w, "name")
  /\ Ask(w, [at |-> "taken", s |-> task[w].s, name |-> task[w].name, slot |-> task[w].slot,
             ok |-> Sent(conn), num |-> Cardinality(Named(task[w].name))])
  /\ Quiet /\ same /\ Alive
  /\ UNCHANGED <<dbVars, client, currentusers, logins, deleted>>

\* Mutant: a name that is taken is reported, and the character made all the same.
CheckName_NoReturn(w) ==
  /\ At(w, "taken") /\ Fetch(w)
  /\ IF IsNull(w)
       THEN Crash(w) /\ Quiet
       ELSE /\ Say(IF task[w].num = 0 THEN {} ELSE {[to |-> task[w].s, cmd |-> "1404"]})
            /\ Goto(w, [at |-> "insert", s |-> task[w].s, name |-> task[w].name,
                        slot |-> task[w].slot])
            /\ Alive
  /\ same /\ UNCHANGED <<dbVars, client, currentusers, logins, deleted>>

CheckName(w) ==
  /\ At(w, "taken") /\ Fetch(w)
  /\ CASE IsNull(w) -> Crash(w) /\ Quiet
       [] ~IsNull(w) /\ task[w].num > 0 ->
            Say({[to |-> task[w].s, cmd |-> "1404"]}) /\ Done(w) /\ Alive
       [] OTHER -> /\ Goto(w, [at |-> "insert", s |-> task[w].s, name |-> task[w].name,
                               slot |-> task[w].slot])
                   /\ Quiet /\ Alive
  /\ same /\ UNCHANGED <<dbVars, client, currentusers, logins, deleted>>

\* Mutant: LastInsertId is asked for before the INSERT.
InsertChar_IdBefore(w) ==
  /\ At(w, "insert")
  /\ LET t == task[w] IN
       /\ IF Sent(conn) THEN Insert(client[t.s].user, t.name, t.slot)
                        ELSE UNCHANGED dbVars
       /\ Goto(w, [at |-> "created", s |-> t.s, name |-> t.name, slot |-> t.slot])
  /\ Quiet /\ same /\ Alive
  /\ UNCHANGED <<client, conn, currentusers, logins, deleted>>

\* The INSERT; what ExecSQL returns is not looked at.
InsertChar(w) ==
  /\ At(w, "insert")
  /\ LET t == task[w] IN
       /\ IF Sent(conn)
            THEN /\ Insert(client[t.s].user, t.name, t.slot)
                 /\ conn' = [conn EXCEPT !.insertId = lastId + 1]
            ELSE UNCHANGED <<dbVars, conn>>
       /\ Goto(w, [at |-> "created", s |-> t.s, name |-> t.name, slot |-> t.slot])
  /\ Quiet /\ same /\ Alive
  /\ UNCHANGED <<client, currentusers, logins, deleted>>

\* LastInsertId is the connection's, whoever made the last INSERT.
SendCreated(w) ==
  /\ At(w, "created")
  /\ Say({[to |-> task[w].s, cmd |-> "1406", id |-> conn.insertId,
           name |-> task[w].name, slot |-> task[w].slot]})
  /\ Done(w) /\ same /\ Alive
  /\ UNCHANGED <<dbVars, client, conn, currentusers, logins, deleted>>
-----------------------------------------------------------------------------
(* pakDeleteChar, pakSelectChar                                             *)

\* Every character of the slot; the answer is the same when there is none.
DeleteChar(w, s, sl) ==
  /\ SignedIn(w, s)
  /\ IF Sent(conn)
       THEN /\ Delete(client[s].user, sl)
            /\ deleted' = deleted \cup {r.name : r \in characters \ characters'}
            /\ conn' = [conn EXCEPT !.insertId = 0]
       ELSE UNCHANGED <<dbVars, conn, deleted>>
  /\ Say({[to |-> s, cmd |-> "140c", slot |-> sl]})
  /\ same /\ Alive /\ UNCHANGED <<client, task, currentusers, logins>>

\* UPDATE users SET lastslot, which nothing reads.
SelectChar(w, s, sl) ==
  /\ SignedIn(w, s)
  /\ conn' = IF Sent(conn) THEN [conn EXCEPT !.insertId = 0] ELSE conn
  /\ Goto(w, [at |-> "select", s |-> s, slot |-> sl])
  /\ Quiet /\ same /\ Alive
  /\ UNCHANGED <<dbVars, client, currentusers, logins, deleted>>

AskSlot(w) ==
  /\ At(w, "select")
  /\ Ask(w, [at |-> "picked", s |-> task[w].s, ok |-> Sent(conn),
             rows |-> {r.name : r \in {q \in CharsOf(client[task[w].s].user) :
                                        q.slot = task[w].slot}}])
  /\ Quiet /\ same /\ Alive
  /\ UNCHANGED <<dbVars, client, currentusers, logins, deleted>>

\* The first row; the rows of a slot come in no order the code asks for.
TakeSlot(w) ==
  /\ At(w, "picked") /\ Fetch(w) /\ Quiet
  /\ LET s == task[w].s IN
       CASE IsNull(w) -> Done(w) /\ Alive /\ UNCHANGED client
         [] ~IsNull(w) /\ Result(w) = {} -> Crash(w) /\ UNCHANGED client
         [] OTHER -> /\ \E n \in Result(w) :
                          client' = [client EXCEPT ![s].name = n, ![s].picked = TRUE]
                     /\ IF gameList = {} THEN Done(w)
                                         ELSE Goto(w, [at |-> "redirect", s |-> s])
                     /\ Alive
  /\ same /\ UNCHANGED <<dbVars, currentusers, logins, deleted>>

\* ServerList[0], read without the lock: when the list has been emptied since,
\* the read is of freed memory.
Redirect(w) ==
  /\ At(w, "redirect")
  /\ \/ /\ gameList = {} /\ Crash(w) /\ Quiet
     \/ /\ \E g \in gameList \cup (IF gameList = {} THEN {"garbage"} ELSE {}) :
             Say({[to |-> task[w].s, cmd |-> "1003", game |-> g]})
        /\ Done(w) /\ Alive
  /\ same /\ UNCHANGED <<dbVars, client, conn, currentusers, logins, deleted>>
-----------------------------------------------------------------------------
(* Quickbars and whispers                                                   *)

\* pakSaveQBEntries, pakSaveQBState, pakSaveShortcutKeys: by character name.
SaveQB(w, s) ==
  /\ SignedIn(w, s)
  /\ IF Sent(conn)
       THEN /\ SaveBars(client[s].user, client[s].name)
            /\ conn' = [conn EXCEPT !.insertId = 0]
       ELSE UNCHANGED <<dbVars, conn>>
  /\ Quiet /\ same /\ Alive
  /\ UNCHANGED <<client, task, currentusers, logins, deleted>>

\* pakLoadQBEntries, pakLoadQBState, pakLoadShortcutKeys.
AskQB(w, s) ==
  /\ SignedIn(w, s)
  /\ Ask(w, [at |-> "bars", s |-> s, ok |-> Sent(conn),
             rows |-> {r.bars : r \in Named(client[s].name)}])
  /\ Quiet /\ same /\ Alive
  /\ UNCHANGED <<dbVars, client, currentusers, logins, deleted>>

SendQB(w) ==
  /\ At(w, "bars") /\ Fetch(w)
  /\ IF IsNull(w) \/ Result(w) = {}
       THEN Crash(w) /\ Quiet
       ELSE /\ \E b \in Result(w) : Say({[to |-> task[w].s, cmd |-> "bars", by |-> b]})
            /\ Done(w) /\ Alive
  /\ same /\ UNCHANGED <<dbVars, client, currentusers, logins, deleted>>

\* GetClientByCharname: some client that has selected a character of that name.
Called(n) == {s \in Sessions : client[s].on /\ client[s].picked /\ client[s].name = n}

Whisper(w, s, n) ==
  /\ SignedIn(w, s)
  /\ \/ /\ Called(n) = {} /\ Say({[to |-> s, cmd |-> "200e"]})
     \/ \E t \in Called(n) :
          Say({[to |-> s, cmd |-> "200f"],
               [to |-> t, cmd |-> "200d", from |-> client[s].name]})
  /\ same /\ Alive
  /\ UNCHANGED <<dbVars, client, task, conn, currentusers, logins, deleted>>
-----------------------------------------------------------------------------
Login(w) == \/ \E s \in Sessions : RefuseZero(w, s)
            \/ \E s \in Sessions, t \in Tokens : AskUser(w, s, t)
            \/ CheckUser(w) \/ LoadCount(w) \/ StoreCount(w) \/ ReportCount(w)
List(w) == (\E s \in Sessions : PickChar(w, s)) \/ AskList(w) \/ SendCharList(w)
Create(w) == \/ \E s \in Sessions, n \in Names, sl \in Slots : AskCount(w, s, n, sl)
             \/ CheckCount(w) \/ AskName(w) \/ CheckName(w)
             \/ InsertChar(w) \/ SendCreated(w)
Select(w) == \/ \E s \in Sessions, sl \in Slots : DeleteChar(w, s, sl) \/ SelectChar(w, s, sl)
             \/ AskSlot(w) \/ TakeSlot(w) \/ Redirect(w)
Talk(w) == \/ \E s \in Sessions : SaveQB(w, s) \/ AskQB(w, s)
           \/ SendQB(w)
           \/ \E s \in Sessions, n \in Names : Whisper(w, s, n)

Next == \/ \E w \in Workers : Login(w) \/ List(w) \/ Create(w) \/ Select(w) \/ Talk(w)
        \/ \E s \in Sessions : Connect(s) \/ Disconnect(s)
        \/ \E g \in Games : GameServerComes(g) \/ GameServerGoes(g)

Spec == Init /\ [][Next]_vars
-----------------------------------------------------------------------------
Threads == {thread[s] : s \in Sessions}
OneThread == Cardinality(Threads) = 1

\* Types of the char server's state.
TypeOK ==
  /\ DBTypeOK
  /\ thread \in [Sessions -> Workers]
  /\ client \in [Sessions -> [on : BOOLEAN, id : Users \cup {None},
                             user : Users \cup {None}, name : Names \cup {None},
                             picked : BOOLEAN]]
  /\ \A w \in Workers : task[w] # Idle => task[w].s \in Sessions
  /\ conn \in [pending : Workers \cup {None}, insertId : 0..MaxId]
  /\ gameList \subseteq Games
  /\ currentusers \in Nat /\ logins \in 0..MaxLogins
  /\ crashed \in BOOLEAN /\ deleted \subseteq Names

\* An account has at most MaxChars characters when one thread serves all
\* clients, and at most one more for every further thread: each may have passed
\* the check of pakCreateChar (CCharServer.cpp:322) before the others insert.
CharLimit ==
  \A u \in Users : Cardinality(CharsOf(u)) < MaxChars + Cardinality(Threads)

\* With one thread, the reply to pakCreateChar names the row that was made:
\* LastInsertId (:363) is of this handler's own INSERT.
CreatedTold ==
  OneThread => \A m \in sent : m.cmd = "1406" =>
    \E r \in CharsOf(client[m.to].user) :
      r.id = m.id /\ r.name = m.name /\ r.slot = m.slot

\* With one thread, what a client saves goes to a character of its own account,
\* though it is saved by name (:511): unless a character of that name has been
\* deleted, when another account may have taken the name.
SavesToOwner ==
  OneThread => \A r \in characters : r.name \in deleted \/ r.bars \in {None, r.owner}

=============================================================================
