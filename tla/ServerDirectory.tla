-------------------------- MODULE ServerDirectory --------------------------
(***************************************************************************)
(* The directory of servers that login and char servers keep, as the hub    *)
(* makes them see it: the servers' side of the inter-server protocol        *)
(* (ReceivedISCPacket of CLoginServer, CCharServer and CGameServer, the ISC  *)
(* part of OnServerReady and of CTitanServer) composed with ISCHub.         *)
(*                                                                         *)
(* A server process starts, connects, identifies itself, asks for the list  *)
(* and then keeps its copy up to date from what the hub forwards; it may    *)
(* die at any point and be started again, on a new connection, while the    *)
(* hub still has the old one.                                               *)
(***************************************************************************)
EXTENDS ISCHub

CONSTANTS
  Type, Id, Owner,  \* per server: 1 login, 2 char, 3 game; the ids of the ini
  MaxUsers,         \* per server: MaxUsers of CharServer.ini, 0 for the others
  Mortal,           \* bound: the servers that may die
  MaxLogins         \* bound: logins a char server takes in one run

ASSUME TypesKnown == Type \in [Servers -> {1, 2, 3}]
ASSUME UsersNat == MaxUsers \in [Servers -> Nat] /\ MaxLogins \in Nat

VARIABLES
  state,   \* server -> "down", "connected", "up"
  conn,    \* server -> its connection, 0 when it is down
  myIscid, \* server -> ServerData.iscid
  users,   \* server -> ServerData.currentusers
  list     \* server -> ServerList

serverVars == <<state, conn, myIscid, users, list>>
vars == <<netVars, hubVars, serverVars>>

Fresh == {c \in Conns : server[c] = None}

Init == /\ HubInit
        /\ state = [s \in Servers |-> "down"]
        /\ conn = [s \in Servers |-> 0]
        /\ myIscid = [s \in Servers |-> 99]
        /\ users = [s \in Servers |-> 0]
        /\ list = [s \in Servers |-> <<>>]
-----------------------------------------------------------------------------
(* A server's life                                                          *)

\* Start, up to connect(): a new process with a new connection.
Connect(s) ==
  /\ state[s] = "down"
  /\ \E c \in Fresh :
       /\ \A d \in Fresh : c <= d
       /\ server' = [server EXCEPT ![c] = s]
       /\ isOpen' = [isOpen EXCEPT ![c] = TRUE]
       /\ backlog' = Append(backlog, c)
       /\ conn' = [conn EXCEPT ![s] = c]
  /\ state' = [state EXCEPT ![s] = "connected"]
  /\ UNCHANGED <<up, down, clientList, thread, serverList, iscid, task, identified,
                 myIscid, users, list>>

Record(s) == [srv |-> s, iscid |-> myIscid[s], users |-> users[s],
              status |-> IF Type[s] = 1 THEN 0 ELSE 9]

\* OnServerReady succeeds: IDENTIFY, and SERVERLIST unless it is a game
\* server; then the ISC and listening threads start.  (When it fails the
\* process ends: Die.)
OnServerReady(s) ==
  /\ state[s] = "connected"
  /\ state' = [state EXCEPT ![s] = "up"]
  /\ up' = [up EXCEPT ![conn[s]] =
              @ \o <<[cmd |-> "IDENTIFY", rec |-> Record(s)]>>
                \o IF Type[s] = 3 THEN <<>> ELSE <<[cmd |-> "SERVERLIST"]>>]
  /\ UNCHANGED <<server, isOpen, down, hubVars, conn, myIscid, users, list>>

\* The process ends: OnServerReady returns false, or a crash.  The hub may
\* lose what it has not read (losing only the last packets is as if the process
\* had ended before it sent them).  What the process knew is gone.
Die(s) ==
  /\ s \in Mortal /\ state[s] # "down"
  /\ state' = [state EXCEPT ![s] = "down"]
  /\ isOpen' = [isOpen EXCEPT ![conn[s]] = FALSE]
  /\ \/ UNCHANGED up
     \/ up' = [up EXCEPT ![conn[s]] = <<>>]
  /\ down' = [down EXCEPT ![conn[s]] = <<>>]
  /\ conn' = [conn EXCEPT ![s] = 0]
  /\ myIscid' = [myIscid EXCEPT ![s] = 99]
  /\ users' = [users EXCEPT ![s] = 0]
  /\ list' = [list EXCEPT ![s] = <<>>]
  /\ UNCHANGED <<server, hubVars>>

\* CCharServer::pakUserLogin, from the point where the user is accepted.
\* Logins that one worker thread of the char server handles, one after the
\* other; currentusers is never decremented.
UserLogin(s) ==
  /\ state[s] = "up" /\ Type[s] = 2 /\ users[s] < MaxLogins
  /\ users' = [users EXCEPT ![s] = @ + 1]
  /\ up' = [up EXCEPT ![conn[s]] =
              Append(@, [cmd |-> "UPDATEUSERCNT", iscid |-> myIscid[s],
                         users |-> users[s] + 1])]
  /\ UNCHANGED <<server, isOpen, down, hubVars, state, conn, myIscid, list>>
-----------------------------------------------------------------------------
(* ReceivedISCPacket                                                        *)

\* A login server keeps its char servers, a char server its game servers.
Keeps(s, rec) == /\ Type[s] \in {1, 2} /\ Type[rec.srv] = Type[s] + 1
                 /\ Owner[rec.srv] = Id[s]

\* The login server's status of a char server; the division is an integer one.
Status(s, n) == 6 + IF MaxUsers[s] = 0 THEN 0 ELSE 4 * (n \div MaxUsers[s])

\* What the loop over the records of a list keeps of them, in their order.
Kept(s, lst) ==
  LET kept[n \in 0..Len(lst)] ==
        IF n = 0 THEN <<>>
        ELSE IF Keeps(s, lst[n]) THEN Append(kept[n - 1], lst[n]) ELSE kept[n - 1]
  IN  kept[Len(lst)]

\* The list of server s after it has handled packet m.
AfterPacket(s, lst, m) ==
  CASE m.cmd = "IDENTIFY" /\ Keeps(s, m.rec) ->
         Append(lst, IF Type[s] = 1 THEN [m.rec EXCEPT !.status = 6] ELSE m.rec)
    [] m.cmd = "REMOVE" /\ Type[s] \in {1, 2} -> Without(lst, m.iscid)
    [] m.cmd = "UPDATEUSERCNT" /\ Type[s] = 1 ->
         [i \in DOMAIN lst |->
            IF i \in At(lst, m.iscid)
            THEN [lst[i] EXCEPT !.users = m.users, !.status = Status(lst[i].srv, m.users)]
            ELSE lst[i]]
    [] m.cmd = "SERVERLIST" /\ Type[s] \in {1, 2} -> Kept(s, m.list)
    [] OTHER -> lst

ReceivedISCPacket(s) ==
  /\ state[s] = "up" /\ down[conn[s]] # <<>>
  /\ LET m == Head(down[conn[s]]) IN
       /\ list' = [list EXCEPT ![s] = AfterPacket(s, @, m)]
       /\ myIscid' = [myIscid EXCEPT ![s] = IF m.cmd = "SETISCID" THEN m.iscid ELSE @]
  /\ down' = [down EXCEPT ![conn[s]] = Tail(@)]
  /\ UNCHANGED <<server, isOpen, up, hubVars, state, conn, users>>
-----------------------------------------------------------------------------
ServerStep(s) == \/ Connect(s) \/ OnServerReady(s) \/ Die(s)
                 \/ UserLogin(s) \/ ReceivedISCPacket(s)

Next == \/ HubNext /\ UNCHANGED serverVars
        \/ \E s \in Servers : ServerStep(s)

Spec == Init /\ [][Next]_vars

(* Every thread of the hub and of the servers keeps running; no process has *)
(* to start, to die or to be logged in to.                                  *)
Fairness == /\ WF_vars(AcceptClient /\ UNCHANGED serverVars)
            /\ \A w \in Workers : WF_vars(WorkerStep(w) /\ UNCHANGED serverVars)
            /\ \A s \in Servers : WF_vars(ReceivedISCPacket(s) \/ OnServerReady(s))

FairSpec == Spec /\ Fairness
-----------------------------------------------------------------------------
(* Properties                                                               *)

Recs == [srv : Servers, iscid : Iscids, users : 0..MaxLogins, status : Nat]

Identify == [cmd : {"IDENTIFY"}, rec : Recs]
UserCount == [cmd : {"UPDATEUSERCNT"}, iscid : Iscids, users : 0..MaxLogins]
Numbered == [cmd : {"SETISCID", "REMOVE"}, iscid : Iscids]
Listing == [cmd : {"SERVERLIST"}, list : Seq(Recs)]

ToHub == Identify \cup UserCount \cup [cmd : {"SERVERLIST"}]
ToServer == Identify \cup UserCount \cup Numbered \cup Listing

Tasks == [at : {"idle"}]
           \cup [at : {"push"}, conn : Conns, rec : Recs]
           \cup [at : {"forward"}, conn : Conns, msg : Identify \cup UserCount]
           \cup [at : {"reply"}, conn : Conns, msg : Listing]
           \cup [at : {"erase"}, conn : Conns]
           \cup [at : {"notify"}, msg : Numbered]

HubTyped == /\ server \in [Conns -> Servers \cup {None}]
            /\ isOpen \in [Conns -> BOOLEAN]
            /\ up \in [Conns -> Seq(ToHub)]
            /\ down \in [Conns -> Seq(ToServer)]
            /\ clientList \subseteq Conns
            /\ backlog \in Seq(Conns)
            /\ thread \in [Conns -> Workers \cup {None}]
            /\ serverList \in Seq(Recs)
            /\ iscid \in [Conns -> Iscids]
            /\ task \in [Workers -> Tasks]
            /\ identified \subseteq Conns

ServersTyped == /\ state \in [Servers -> {"down", "connected", "up"}]
                /\ conn \in [Servers -> Conns \cup {0}]
                /\ myIscid \in [Servers -> Iscids]
                /\ users \in [Servers -> 0..MaxLogins]
                /\ \A s \in Servers : state[s] # "down" => conn[s] \in Conns

\* Every variable keeps its type, a process that runs has a connection, and one
\* that waits to be accepted is not in ClientList yet.
TypeOK == /\ HubTyped /\ ServersTyped
          /\ list \in [Servers -> Seq(Recs)]
          /\ Range(backlog) \cap clientList = {}

HubIdle == \A w \in Workers : task[w] = Idle

(* Numbers identify: the list grows in strictly increasing numbers, so no   *)
(* two registered servers ever share one, although a number is used again   *)
(* once the last server of the list has gone (IDENTIFY numbers from the     *)
(* last entry, CTitanISC.cpp:32-37).                                        *)
NumbersUnique == \A i, j \in DOMAIN serverList :
                   i < j => serverList[i].iscid < serverList[j].iscid

(* Between two handlers the hub's list is exactly the connections that      *)
(* identified themselves and are still there, under the numbers they have:  *)
(* a server that dies takes its own record with it and nobody else's        *)
(* ("Remove Server from list", CTitanISC.cpp:105).                          *)
HubListsLive ==
  HubIdle => {<<r.srv, r.iscid>> : r \in Range(serverList)}
               = {<<server[c], iscid[c]>> : c \in clientList \cap identified}

\* The server has its list, or the list is on its way to it.
ListAnswered(s) ==
  /\ state[s] = "up" /\ Type[s] # 3
  /\ \A i \in DOMAIN up[conn[s]] : up[conn[s]][i].cmd \in {"UPDATEUSERCNT"}

\* The list lst of s after it has worked off the packets msgs.
Replay(s, lst, msgs) ==
  LET after[n \in 0..Len(msgs)] ==
        IF n = 0 THEN lst ELSE AfterPacket(s, after[n - 1], msgs[n])
  IN  after[Len(msgs)]

Seen(lst) == [i \in DOMAIN lst |-> <<lst[i].srv, lst[i].iscid, lst[i].users>>]

(* Once it has been sent the list, a server that works off its packets      *)
(* arrives at the hub's list of the servers it keeps: same servers, same    *)
(* order, same user counts, whatever came before, between and after         *)
(* ("Fetch serverlist from ISC", CCharServer.cpp:42).                       *)
CopiesAgree ==
  HubIdle => \A s \in Servers :
    ListAnswered(s) =>
      Seen(Replay(s, list[s], down[conn[s]])) = Seen(Kept(s, serverList))

(* In the end every copy names the servers that run, each once and under    *)
(* the number that server knows of itself, and no dead one.                 *)
CopyRight(s) ==
  /\ {<<r.srv, r.iscid>> : r \in Range(list[s])}
       = {<<t, myIscid[t]>> : t \in {t \in Servers : state[t] = "up" /\ Keeps(s, [srv |-> t])}}
  /\ IsInjective(list[s])

DirectoryConverges ==
  <>[](\A s \in Servers : state[s] = "up" => CopyRight(s))
=============================================================================
