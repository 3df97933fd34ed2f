---------------------------- MODULE ProxyRelay ----------------------------
(***************************************************************************)
(* The Fiesta proxy (Fiesta Proxy/CListener.hpp, main.cpp): one thread      *)
(* accepts connections on three ports, and each connection has one thread   *)
(* that listens to the game client and one that listens to the server.  A   *)
(* login or world server tells the client where to go next; the proxy keeps *)
(* that address for itself and names its own port instead.                  *)
(*                                                                         *)
(* The proxy starts the one game client it works for, which asks for its    *)
(* next server only when it has reached the last one it was sent to.  What  *)
(* is said on a connection is in PacketFraming.                             *)
(***************************************************************************)
EXTENDS Naturals, Sequences, SequencesExt, FiniteSets

CONSTANTS
  Addresses,  \* of world and game servers: an ip and a port each
  MaxConns    \* bound: connections the client makes

ASSUME MaxConnsNat == MaxConns \in Nat

VARIABLES
  conn,       \* CConnectClient objects, by number
  clientList, \* CListener::clientList
  nextIP,     \* worldIP and gameIP
  nextPort,   \* worldPort and gamePort
  starting,   \* the connection whose second thread is about to be started
  told,       \* what the client was told and has not used yet
  crashed

vars == <<conn, clientList, nextIP, nextPort, starting, told, crashed>>

None == "none"
Login == "login"
Redirected == {"world", "game"}
Conns == 1..MaxConns
Unused == [srvType |-> None, want |-> None, port |-> None, got |-> <<>>, packet |-> None,
           cli |-> "none", srv |-> "none",
           isRunning |-> TRUE, finished |-> FALSE, freed |-> FALSE]

Init == /\ conn = [c \in Conns |-> Unused]
        /\ clientList = <<>>
        /\ nextIP = [t \in Redirected |-> None] /\ nextPort = [t \in Redirected |-> None]
        /\ starting = 0
        /\ told = [t \in Redirected |-> None]
        /\ crashed = FALSE

Used == {c \in Conns : conn[c].srvType # None}
addressVars == <<nextIP, nextPort, told>>
-----------------------------------------------------------------------------
(* ListenThread                                                             *)

\* The client signs in anew only after it has left every other server.
Alone == told = [t \in Redirected |-> None] /\ \A c \in Used : conn[c].cli # "recv"

\* Mutant: a missing break: a world connection is sent where games are.
Accept_FallsThrough(c, t) ==
  /\ ~crashed /\ starting = 0 /\ c = Cardinality(Used) + 1
  /\ IF t = Login THEN Alone ELSE told[t] # None
  /\ conn' = [conn EXCEPT ![c] = [Unused EXCEPT !.srvType = t, !.cli = "recv",
                                    !.want = IF t = Login THEN None ELSE told[t],
                                    !.port = IF t = Login THEN None ELSE nextPort["game"]]]
  /\ told' = IF t = Login THEN told ELSE [told EXCEPT ![t] = None]
  /\ starting' = c
  /\ UNCHANGED <<clientList, nextIP, nextPort, crashed>>

\* The client connects, its port telling the type.  connectPort is copied,
\* connectIP points to the listener's own buffer.  The client's thread starts.
Accept(c, t) ==
  /\ ~crashed /\ starting = 0 /\ c = Cardinality(Used) + 1
  /\ IF t = Login THEN Alone ELSE told[t] # None
  /\ conn' = [conn EXCEPT ![c] = [Unused EXCEPT !.srvType = t, !.cli = "recv",
                                    !.want = IF t = Login THEN None ELSE told[t],
                                    !.port = IF t = Login THEN None ELSE nextPort[t]]]
  /\ told' = IF t = Login THEN told ELSE [told EXCEPT ![t] = None]
  /\ starting' = c
  /\ UNCHANGED <<clientList, nextIP, nextPort, crashed>>

\* The server's thread starts, and the connection is in the list.
StartSrv ==
  /\ ~crashed /\ starting # 0
  /\ conn' = [conn EXCEPT ![starting].srv = "connect"]
  /\ clientList' = Append(clientList, starting)
  /\ starting' = 0
  /\ UNCHANGED <<addressVars, crashed>>

Deleted(client) == [Unused EXCEPT !.srvType = client.srvType, !.cli = client.cli,
                                !.srv = client.srv, !.freed = TRUE]

\* CheckClientList: the first connection that has finished is deleted.
CheckClientList ==
  /\ ~crashed /\ starting = 0
  /\ \E i \in DOMAIN clientList :
       /\ conn[clientList[i]].finished
       /\ \A j \in 1..(i - 1) : ~conn[clientList[j]].finished
       /\ conn' = [conn EXCEPT ![clientList[i]] = Deleted(@)]
       /\ clientList' = RemoveAt(clientList, i)
  /\ UNCHANGED <<addressVars, starting, crashed>>
-----------------------------------------------------------------------------
(* ServerRecvThread                                                         *)

Step(c) == ~crashed /\ UNCHANGED <<clientList, starting, crashed>>
InSrv(c, place) == Step(c) /\ conn[c].srv = place
InCli(c, place) == Step(c) /\ conn[c].cli = place

\* connect() to the ip the listener has now.
Connect(c) ==
  /\ InSrv(c, "connect")
  /\ conn' = [conn EXCEPT ![c].srv = "recv",
       ![c].got = IF conn[c].srvType = Login THEN <<None, None>>
                                             ELSE <<nextIP[conn[c].srvType], conn[c].port>>]
  /\ UNCHANGED addressVars

ConnectFails(c) ==
  /\ InSrv(c, "connect")
  /\ conn' = [conn EXCEPT ![c].srv = "joinFailed", ![c].isRunning = FALSE]
  /\ UNCHANGED addressVars

\* Where a server of this type may send its client: 0x0C0C, 0x1003, 0x180A.
Leads(t) == IF t = Login THEN "world" ELSE "game"

\* Nothing is under way to a server of this type.
Settled(t) == /\ told[t] = None
              /\ \A c \in Used : /\ conn[c].srvType = t => conn[c].srv \notin {"none", "connect"}
                                 /\ conn[c].srv = "tell" => Leads(conn[c].srvType) # t

\* SetWorldIP, SetGameIP.
Redirect(c, a) ==
  /\ InSrv(c, "recv") /\ Settled(Leads(conn[c].srvType))
  /\ nextIP' = [nextIP EXCEPT ![Leads(conn[c].srvType)] = a]
  /\ conn' = [conn EXCEPT ![c].srv = "tell", ![c].packet = a]
  /\ UNCHANGED <<nextPort, told>>

\* SetWorldPort, SetGamePort; SendClientPacket, with the proxy's own address.
Tell(c) ==
  /\ InSrv(c, "tell")
  /\ nextPort' = [nextPort EXCEPT ![Leads(conn[c].srvType)] = conn[c].packet]
  /\ told' = [told EXCEPT ![Leads(conn[c].srvType)] = conn[c].packet]
  /\ conn' = [conn EXCEPT ![c].srv = "recv", ![c].packet = None]
  /\ UNCHANGED nextIP

\* recv() fails, the server having gone, or while(isRunning) ends the loop; the
\* other thread may have seen to the end already.
SrvLoopEnds(c) ==
  /\ InSrv(c, "recv")
  /\ conn' = [conn EXCEPT ![c].srv = IF conn[c].isRunning THEN "mark" ELSE "done"]
  /\ UNCHANGED addressVars

SrvMark(c) ==
  /\ InSrv(c, "mark")
  /\ conn' = [conn EXCEPT ![c].srv = "join", ![c].isRunning = FALSE]
  /\ UNCHANGED addressVars

\* Mutant: finished, and then the join.
SrvJoined_Early(c) ==
  /\ InSrv(c, "join")
  /\ conn' = [conn EXCEPT ![c].srv = "done", ![c].finished = TRUE]
  /\ UNCHANGED addressVars

SrvJoined(c) ==
  /\ InSrv(c, "join") /\ conn[c].cli = "done"
  /\ conn' = [conn EXCEPT ![c].srv = "done", ![c].finished = TRUE]
  /\ UNCHANGED addressVars

\* After a failed connect() the object stays for ever.
SrvGivesUp(c) ==
  /\ InSrv(c, "joinFailed") /\ conn[c].cli = "done"
  /\ conn' = [conn EXCEPT ![c].srv = "done"]
  /\ UNCHANGED addressVars
-----------------------------------------------------------------------------
(* ClientRecvThread                                                         *)

CliLoopEnds(c) ==
  /\ InCli(c, "recv")
  /\ conn' = [conn EXCEPT ![c].cli = IF conn[c].isRunning THEN "mark" ELSE "done"]
  /\ UNCHANGED addressVars

\* Mutant: the other thread is not told.
CliMark_StillRunning(c) ==
  /\ InCli(c, "mark")
  /\ conn' = [conn EXCEPT ![c].cli = "join"]
  /\ UNCHANGED addressVars

CliMark(c) ==
  /\ InCli(c, "mark")
  /\ conn' = [conn EXCEPT ![c].cli = "join", ![c].isRunning = FALSE]
  /\ UNCHANGED addressVars

CliJoined(c) ==
  /\ InCli(c, "join") /\ conn[c].srv = "done"
  /\ conn' = [conn EXCEPT ![c].cli = "done", ![c].finished = TRUE]
  /\ UNCHANGED addressVars

\* thrSrvRecv->join() before thrSrvRecv has been set.
CliJoinsNothing(c) ==
  /\ ~crashed /\ conn[c].cli = "join" /\ conn[c].srv = "none"
  /\ crashed' = TRUE
  /\ UNCHANGED <<conn, clientList, addressVars, starting>>
-----------------------------------------------------------------------------
\* What the threads do of themselves; a loop ends once isRunning is false.
Threads(c) ==
  \/ Connect(c) \/ ConnectFails(c) \/ Tell(c)
  \/ SrvMark(c) \/ SrvJoined(c) \/ SrvGivesUp(c)
  \/ CliMark(c) \/ CliJoined(c) \/ CliJoinsNothing(c)

LoopStops(c) == ~conn[c].isRunning /\ (SrvLoopEnds(c) \/ CliLoopEnds(c))

Next == \/ \E c \in Conns, t \in Redirected \cup {Login} : Accept(c, t)
        \/ StartSrv \/ CheckClientList
        \/ \E c \in Conns : \/ Threads(c)
                            \/ SrvLoopEnds(c) \/ CliLoopEnds(c)
                            \/ \E a \in Addresses : Redirect(c, a)

\* Threads go on; neither clients nor servers have to say anything, or to leave.
Fairness == /\ WF_vars(StartSrv) /\ WF_vars(CheckClientList)
            /\ \A c \in Conns : WF_vars(Threads(c)) /\ WF_vars(LoopStops(c))

Spec == Init /\ [][Next]_vars /\ Fairness
-----------------------------------------------------------------------------
Anywhere == Addresses \cup {None}
Connection == [srvType : Redirected \cup {Login, None}, want : Anywhere, port : Anywhere,
               got : {<<>>} \cup (Anywhere \X Anywhere), packet : Anywhere,
               cli : {"none", "recv", "mark", "join", "done"},
               srv : {"none", "connect", "recv", "tell", "mark", "join", "joinFailed", "done"},
               isRunning : BOOLEAN, finished : BOOLEAN, freed : BOOLEAN]

\* The connections, the listener's list and its addresses keep their types
\* (CListener.hpp:5-7, 222-303).
TypeOK ==
  /\ conn \in [Conns -> Connection]
  /\ clientList \in Seq(Conns)
  /\ nextIP \in [Redirected -> Anywhere] /\ nextPort \in [Redirected -> Anywhere]
  /\ told \in [Redirected -> Anywhere]
  /\ starting \in Conns \cup {0}
  /\ crashed \in BOOLEAN

\* A connection leads to the server its client was sent to, although the
\* address was kept in three places and written in two steps by another thread
\* (CListener.hpp:334, 77; main.cpp:14).
ConnectedAsTold ==
  \A c \in Used \ {starting} :
    conn[c].got # <<>> => conn[c].got = <<conn[c].want, conn[c].want>>

\* No thread is in a connection that is deleted (CListener.hpp:364).
NobodyInFreed == \A c \in Conns : conn[c].freed => conn[c].cli = "done" /\ conn[c].srv = "done"

\* Why: whoever is about to be deleted has been left by both threads, and whoever
\* still waits for its second thread has not.
LeftByBoth == \A c \in Conns : conn[c].finished => conn[c].cli = "done" /\ conn[c].srv = "done"
Started == /\ \A c \in Conns : conn[c].srv # "none" => conn[c].srvType # None
           /\ starting # 0 => conn[starting].srv = "none" /\ conn[starting].srvType # None

ProxyInv == TypeOK /\ NobodyInFreed /\ LeftByBoth /\ Started

\* Two threads that both saw isRunning wait for each other for ever.
Hung(c) == conn[c].cli = "join" /\ conn[c].srv \in {"join", "joinFailed"}
Abandoned(c) == conn[c].srv = "done" /\ conn[c].got = <<>>

Left(c) == conn[c].cli \in {"mark", "join", "done"} \/ conn[c].srv \in {"mark", "join", "done"}

\* When the client or the server leaves, the other side is closed and the
\* connection deleted (CListener.hpp:58-63, 133-138): again and again, nobody
\* who left is still waited for.  Excepted: both left together, the server was
\* never reached, or the client left before all was started.
LeavingEnds ==
  []<>\A c \in Conns : Left(c) => conn[c].freed \/ Hung(c) \/ Abandoned(c) \/ crashed
=============================================================================
