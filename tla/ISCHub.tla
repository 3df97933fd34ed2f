------------------------------- MODULE ISCHub -------------------------------
(***************************************************************************)
(* TitanISC, the inter-server hub (TitanISC/CTitanISC.cpp), on the server   *)
(* framework that calls it (CTitanServer.cpp, CTitanClientThread.cpp).      *)
(* Every server of the cluster holds one connection to it; the hub numbers  *)
(* them, keeps the list of those that identified themselves, answers list   *)
(* requests and forwards every other packet to all the other connections.   *)
(*                                                                         *)
(* A worker thread serves some of the connections.  While it handles a      *)
(* packet it holds rwmClientList for reading (CTitanClientThread.cpp:41), so *)
(* that nobody comes or goes; rwmServerList is taken and dropped inside the *)
(* handler, and other workers run in between.  A handler is therefore a     *)
(* sequence of tasks, one per stretch between two lock operations.          *)
(*                                                                         *)
(* The module has the hub's state and handlers; ServerDirectory composes    *)
(* them with the servers at the other end of the connections.               *)
(***************************************************************************)
EXTENDS Naturals, Sequences, SequencesExt

CONSTANTS
  Servers,   \* the server processes of the cluster (a restart keeps the name)
  MaxConns,  \* bound: the connections they open
  Workers,   \* the hub's worker threads: one serves up to ten connections
  Garbage    \* the values that the iscid of a new CISCClient, which no
             \* constructor sets, has in the build at hand

ASSUME MaxConnsNat == MaxConns \in Nat
MaxWord == 65535
Iscids == 0..MaxWord

ASSUME GarbageIsWord == Garbage \subseteq Iscids

VARIABLES
  server,      \* connection -> the server process that opened it, or None
  isOpen,      \* connection -> the server's end is open
  up, down,    \* connection -> packets to the hub, packets to the server
  backlog,     \* connections that accept() has not returned yet
  clientList,  \* CTitanServer::ClientList
  thread,      \* connection -> the worker that serves it, or None
  serverList,  \* CTitanISC::ServerList
  iscid,       \* CISCClient::iscid of each connection
  task,        \* worker -> what it is doing
  identified   \* history: connections whose IDENTIFY has been entered

netVars == <<server, isOpen, up, down>>
hubVars == <<backlog, clientList, thread, serverList, iscid, task, identified>>

Conns == 1..MaxConns
None == "none"
Idle == [at |-> "idle"]

ASSUME NobodyIsNoServer == None \notin Servers

HubInit == /\ server = [c \in Conns |-> None]
           /\ isOpen = [c \in Conns |-> FALSE]
           /\ up = [c \in Conns |-> <<>>]
           /\ down = [c \in Conns |-> <<>>]
           /\ backlog = <<>>
           /\ clientList = {}
           /\ thread = [c \in Conns |-> None]
           /\ serverList = <<>>
           /\ iscid \in [Conns -> Garbage]
           /\ task = [w \in Workers |-> Idle]
           /\ identified = {}
-----------------------------------------------------------------------------
(* Lists of server records, as all the servers keep them.                   *)

\* The loops that look for an iscid stop at the first record that has it.
At(list, id) == {i \in DOMAIN list : /\ list[i].iscid = id
                                     /\ \A j \in 1..(i-1) : list[j].iscid # id}

Without(list, id) == IF At(list, id) = {} THEN list
                     ELSE RemoveAt(list, CHOOSE i \in At(list, id) : TRUE)

WithUsers(list, id, n) ==
  [i \in DOMAIN list |-> IF i \in At(list, id) THEN [list[i] EXCEPT !.users = n]
                                               ELSE list[i]]

\* send() to a connection whose other end is gone is lost.
Send(to, msg) ==
  down' = [c \in Conns |-> IF c \in to /\ isOpen[c] THEN Append(down[c], msg)
                                                    ELSE down[c]]

InHandler(w) == task[w].at \in {"push", "forward", "reply"}
ClientListFree == \A w \in Workers : ~InHandler(w)
-----------------------------------------------------------------------------
(* Connections come and go                                                  *)

\* ServerLoop: accept, and ClientList.push_back under the write lock.
AcceptClient ==
  /\ backlog # <<>> /\ ClientListFree
  /\ clientList' = clientList \cup {Head(backlog)}
  /\ \E w \in Workers : thread' = [thread EXCEPT ![Head(backlog)] = w]
  /\ backlog' = Tail(backlog)
  /\ UNCHANGED <<netVars, serverList, iscid, task, identified>>

Serves(w, c) == /\ task[w] = Idle
                /\ c \in clientList /\ thread[c] = w

\* recv() reports the end: the worker drops its read lock and calls
\* DisconnectClient, which takes the write lock.
DisconnectClient(w, c) ==
  /\ Serves(w, c) /\ up[c] = <<>> /\ ~isOpen[c] /\ ClientListFree
  /\ clientList' = clientList \ {c}
  /\ task' = [task EXCEPT ![w] = [at |-> "erase", conn |-> c]]
  /\ UNCHANGED <<netVars, backlog, thread, serverList, iscid, identified>>

\* OnClientDisconnect: the record goes...
EraseServer(w) ==
  /\ task[w].at = "erase"
  /\ LET c == task[w].conn IN
       /\ serverList' = Without(serverList, iscid[c])
       /\ task' = [task EXCEPT ![w] =
                     [at |-> "notify", msg |-> [cmd |-> "REMOVE", iscid |-> iscid[c]]]]
  /\ UNCHANGED <<netVars, backlog, clientList, thread, iscid, identified>>

\* Mutant: nobody is told.
NotifyRemaining_Silent(w) ==
  /\ task[w].at = "notify"
  /\ task' = [task EXCEPT ![w] = Idle]
  /\ UNCHANGED <<netVars, backlog, clientList, thread, serverList, iscid, identified>>

\* ...and the servers that remain are told.
NotifyRemaining(w) ==
  /\ task[w].at = "notify"
  /\ Send(clientList, task[w].msg)
  /\ task' = [task EXCEPT ![w] = Idle]
  /\ UNCHANGED <<server, isOpen, up, backlog, clientList, thread, serverList,
                 iscid, identified>>
-----------------------------------------------------------------------------
(* OnReceivePacket                                                          *)

Receives(w, c, cmd) == /\ Serves(w, c) /\ up[c] # <<>> /\ Head(up[c]).cmd = cmd
                       /\ up' = [up EXCEPT ![c] = Tail(@)]

\* Mutant: the number is the length of the list.
NextIscid_Length == Len(serverList)

\* A word: the number after the largest is 0.
NextIscid == IF serverList = <<>> THEN 0 ELSE (Last(serverList).iscid + 1) % (MaxWord + 1)

\* Mutant: the number is not noted in the CISCClient.
ReceiveIdentify_NotNoted(w, c) ==
  /\ Receives(w, c, "IDENTIFY")
  /\ task' = [task EXCEPT ![w] =
                [at |-> "push", conn |-> c,
                 rec |-> [Head(up[c]).rec EXCEPT !.iscid = NextIscid]]]
  /\ UNCHANGED <<server, isOpen, down, backlog, clientList, thread, serverList,
                 iscid, identified>>

\* IDENTIFY, up to the release of the read lock of rwmServerList: the number
\* is chosen, and noted in the CISCClient.
ReceiveIdentify(w, c) ==
  /\ Receives(w, c, "IDENTIFY")
  /\ iscid' = [iscid EXCEPT ![c] = NextIscid]
  /\ task' = [task EXCEPT ![w] =
                [at |-> "push", conn |-> c,
                 rec |-> [Head(up[c]).rec EXCEPT !.iscid = NextIscid]]]
  /\ UNCHANGED <<server, isOpen, down, backlog, clientList, thread, serverList,
                 identified>>

\* push_back under the write lock; then SETISCID goes to the sender and the
\* packet, with the number written into it, to everybody else.
PushServer(w) ==
  /\ task[w].at = "push"
  /\ serverList' = Append(serverList, task[w].rec)
  /\ identified' = identified \cup {task[w].conn}
  /\ task' = [task EXCEPT ![w] =
                [at |-> "forward", conn |-> task[w].conn,
                 msg |-> [cmd |-> "IDENTIFY", rec |-> task[w].rec]]]
  /\ UNCHANGED <<netVars, backlog, clientList, thread, iscid>>

\* Mutant: the packet is forwarded but not applied to the hub's own list.
ReceiveUserCount_NotStored(w, c) ==
  /\ Receives(w, c, "UPDATEUSERCNT")
  /\ task' = [task EXCEPT ![w] = [at |-> "forward", conn |-> c, msg |-> Head(up[c])]]
  /\ UNCHANGED <<server, isOpen, down, backlog, clientList, thread, serverList,
                 iscid, identified>>

\* The number read from the packet need not be one that the hub gave out.
ReceiveUserCount(w, c) ==
  /\ Receives(w, c, "UPDATEUSERCNT")
  /\ LET m == Head(up[c]) IN
       /\ serverList' = WithUsers(serverList, m.iscid, m.users)
       /\ task' = [task EXCEPT ![w] = [at |-> "forward", conn |-> c, msg |-> m]]
  /\ UNCHANGED <<server, isOpen, down, backlog, clientList, thread, iscid,
                 identified>>

ForwardPacket(w) ==
  /\ task[w].at = "forward"
  /\ LET c == task[w].conn
         msg == task[w].msg
         reply == IF msg.cmd = "IDENTIFY" /\ isOpen[c]
                  THEN <<[cmd |-> "SETISCID", iscid |-> msg.rec.iscid]>> ELSE <<>>
     IN  down' = [d \in Conns |->
                    IF d = c THEN down[c] \o reply
                    ELSE IF d \in clientList /\ isOpen[d] THEN Append(down[d], msg)
                    ELSE down[d]]
  /\ task' = [task EXCEPT ![w] = Idle]
  /\ UNCHANGED <<server, isOpen, up, backlog, clientList, thread, serverList,
                 iscid, identified>>

\* SERVERLIST: the list is copied under the read lock and sent after it.
ReceiveListRequest(w, c) ==
  /\ Receives(w, c, "SERVERLIST")
  /\ task' = [task EXCEPT ![w] =
                [at |-> "reply", conn |-> c,
                 msg |-> [cmd |-> "SERVERLIST", list |-> serverList]]]
  /\ UNCHANGED <<server, isOpen, down, backlog, clientList, thread, serverList,
                 iscid, identified>>

SendList(w) == /\ task[w].at = "reply"
               /\ Send({task[w].conn}, task[w].msg)
               /\ task' = [task EXCEPT ![w] = Idle]
               /\ UNCHANGED <<server, isOpen, up, backlog, clientList, thread,
                              serverList, iscid, identified>>

\* OnReceivePacket
ReceivesPacket(w, c) == \/ ReceiveIdentify(w, c) \/ ReceiveUserCount(w, c)
                        \/ ReceiveListRequest(w, c)

\* One worker: it goes on with what it is doing, or turns to a connection.
Continues(w) == \/ EraseServer(w) \/ NotifyRemaining(w) \/ PushServer(w)
                \/ ForwardPacket(w) \/ SendList(w)
TurnsTo(w, c) == DisconnectClient(w, c) \/ ReceivesPacket(w, c)
WorkerStep(w) == Continues(w) \/ \E c \in Conns : TurnsTo(w, c)

HubNext == AcceptClient \/ \E w \in Workers : WorkerStep(w)
=============================================================================
