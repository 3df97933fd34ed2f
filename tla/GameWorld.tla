----------------------------- MODULE GameWorld -----------------------------
(***************************************************************************)
(* The maps of the game server (Game Server/CMap.cpp) and the handlers of   *)
(* CGameServer.cpp that use them: entering the world, walking,              *)
(* changing the map, leaving.                                               *)
(*                                                                         *)
(* A map keeps a list of the clients on it under its own readers-writer     *)
(* lock; AddClient holds it for writing while it shows everyone to the new  *)
(* client and the new client to everyone, reading the equipment of clients  *)
(* whose own workers may be changing it.  Whoever disconnects is taken out  *)
(* of the server's list, but not out of the list of the map.                *)
(*                                                                         *)
(* The game client is not part of the repository: it reports 0x1803 once    *)
(* for each map it has loaded, and asks for nothing else while it loads.    *)
(***************************************************************************)
EXTENDS Naturals, Sequences, FiniteSets, SequencesExt

CONSTANTS
  Players,    \* CGameClient objects; each is used for one connection
  Workers,    \* worker threads
  Maps,       \* MapList
  ThreadOf    \* player -> the worker that serves it

ASSUME ThreadsType == ThreadOf \in [Players -> Workers]

VARIABLES
  player,      \* player -> CGameClient
  clientList,  \* CTitanServer::ClientList
  mapList,     \* map -> CMap::ClientList
  writer,      \* map -> the worker that holds rwmClientList for writing
  running,     \* map -> CMap::Running
  mapThread,   \* map -> where CMap::Thread is: "sleeps", "counts" or "ended"
  task,        \* worker -> the handler it runs
  screen,      \* player -> the players its client shows
  astray,      \* history: a client was told that someone moves whom it does not show
  crashed

vars == <<player, clientList, mapList, writer, running, mapThread, task, screen,
          astray, crashed>>

None == "none"
Idle == [at |-> "idle"]

ASSUME NobodyIsNoWorker == None \notin Workers

\* stage: "new" before it connects, "login", "loading" a map, "in" it, "gone".
\* gear: NULL, "made", "freed".
NewPlayer == [stage |-> "new", map |-> None, gear |-> "null"]

\* OnServerReady makes the maps and a thread for each.
Init == /\ player = [p \in Players |-> NewPlayer]
        /\ clientList = {}
        /\ mapList = [m \in Maps |-> <<>>]
        /\ writer = [m \in Maps |-> None]
        /\ running = [m \in Maps |-> TRUE]
        /\ mapThread = [m \in Maps |-> "sleeps"]
        /\ task = [w \in Workers |-> Idle]
        /\ screen = [p \in Players |-> {}]
        /\ astray = FALSE /\ crashed = FALSE

Connected(p) == player[p].stage \in {"login", "loading", "in"}
InHandler(w) == task[w].at \in {"add", "show"}
Free(w) == ~crashed /\ task[w] = Idle
Serves(w, p, stage) == Free(w) /\ ThreadOf[p] = w /\ player[p].stage = stage
At(w, place) == ~crashed /\ task[w].at = place
Goto(w, t) == task' = [task EXCEPT ![w] = t]

\* rwmClientList of the server: handlers run under it for reading.
ListFree == ~crashed /\ \A w \in Workers : ~InHandler(w)

mapVars == <<mapList, writer, running, mapThread>>
-----------------------------------------------------------------------------
(* Coming in                                                                *)

Connect(p) ==
  /\ ListFree /\ player[p].stage = "new"
  /\ player' = [player EXCEPT ![p].stage = "login"]
  /\ clientList' = clientList \cup {p}
  /\ UNCHANGED <<astray, mapVars, task, screen, crashed>>

\* pakUserLogin once the account is in order: the map is looked up, equipment
\* and inventory are made, and the client loads the map.
PlayerLogin(w, p, m) ==
  /\ Serves(w, p, "login")
  /\ player' = [player EXCEPT ![p] = [stage |-> "loading", map |-> m, gear |-> "made"]]
  /\ UNCHANGED <<astray, clientList, mapVars, task, screen, crashed>>

\* pakClientReady: AddClient sets the map before it has the lock.
ClientReady(w, p) ==
  /\ Serves(w, p, "loading")
  /\ Goto(w, [at |-> "add", p |-> p])
  /\ UNCHANGED <<astray, player, clientList, mapVars, screen, crashed>>

\* Mutant: the client's list is walked before the client is in it, unlocked.
AddClient_Unlocked(w) ==
  /\ At(w, "add")
  /\ LET p == task[w].p
         m == player[p].map IN
       /\ writer[m] = None
       /\ mapList' = [mapList EXCEPT ![m] = Append(@, p)]
       /\ Goto(w, [at |-> "show", p |-> p, todo |-> Append(mapList[m], p)])
  /\ UNCHANGED <<astray, player, clientList, writer, running, mapThread, screen, crashed>>

\* acquireWriteLock, push_back.
AddClient(w) ==
  /\ At(w, "add")
  /\ LET p == task[w].p
         m == player[p].map IN
       /\ writer[m] = None
       /\ writer' = [writer EXCEPT ![m] = w]
       /\ mapList' = [mapList EXCEPT ![m] = Append(@, p)]
       /\ Goto(w, [at |-> "show", p |-> p, todo |-> Append(mapList[m], p)])
  /\ UNCHANGED <<astray, player, clientList, running, mapThread, screen, crashed>>

\* One client of the list is shown to the new one, and the new one to it.  The
\* equipment of one that has left is freed: a crash, or an entity of garbage.
ShowNext(w) ==
  /\ At(w, "show") /\ task[w].todo # <<>>
  /\ LET p == task[w].p
         c == Head(task[w].todo) IN
       /\ screen' = [q \in Players |-> screen[q]
            \cup (IF q = p THEN {c} ELSE {})
            \cup (IF q = c /\ Connected(c) THEN {p} ELSE {})]
       /\ \/ UNCHANGED crashed
          \/ player[c].gear = "freed" /\ crashed' = TRUE
       /\ Goto(w, [task[w] EXCEPT !.todo = Tail(@)])
  /\ UNCHANGED <<astray, player, clientList, mapVars>>

\* Mutant: an early return forgets the lock.
Added_KeepsLock(w) ==
  /\ At(w, "show") /\ task[w].todo = <<>>
  /\ player' = [player EXCEPT ![task[w].p].stage = "in"]
  /\ Goto(w, Idle)
  /\ UNCHANGED <<astray, clientList, mapVars, screen, crashed>>

\* releaseWriteLock.
Added(w) ==
  /\ At(w, "show") /\ task[w].todo = <<>>
  /\ LET p == task[w].p IN
       /\ writer' = [writer EXCEPT ![player[p].map] = None]
       /\ player' = [player EXCEPT ![p].stage = "in"]
  /\ Goto(w, Idle)
  /\ UNCHANGED <<astray, clientList, mapList, running, mapThread, screen, crashed>>
-----------------------------------------------------------------------------
(* In the world                                                             *)

\* A broadcast of p's that reaches these clients.
Broadcast(p, to) ==
  astray' = (astray \/ \E q \in to : Connected(q) /\ p \notin screen[q])

\* Mutant: everyone on the server is told, as with a chat message.
Move_ToEverybody(w, p) ==
  /\ Serves(w, p, "in") /\ writer[player[p].map] = None
  /\ Broadcast(p, clientList)
  /\ UNCHANGED <<player, clientList, mapVars, task, screen, crashed>>

\* pakMove: CMap::SendToAll, under the map's read lock.
Move(w, p) ==
  /\ Serves(w, p, "in") /\ writer[player[p].map] = None
  /\ Broadcast(p, ToSet(mapList[player[p].map]))
  /\ UNCHANGED <<player, clientList, mapVars, task, screen, crashed>>

\* RemoveClient: the list of the map without the entry `Erase' is left at, the
\* client's last one.  Nothing sets the iterator when there is none (ListedOnce).
Erased(m, p) ==
  LET Erase == CHOOSE i \in DOMAIN mapList[m] :
                 mapList[m][i] = p /\ \A j \in (i + 1)..Len(mapList[m]) : mapList[m][j] # p
  IN RemoveAt(mapList[m], Erase)

\* Mutant: RemoveClient is called on the map the client goes to.
ChangeMap_WrongMap(w, p, m) ==
  /\ Serves(w, p, "in") /\ writer[m] = None
  /\ player' = [player EXCEPT ![p].map = m, ![p].stage = "loading"]
  /\ mapList' = [mapList EXCEPT ![m] = SelectSeq(@, LAMBDA q : q # p)]
  /\ screen' = [screen EXCEPT ![p] = {}]
  /\ UNCHANGED <<astray, clientList, writer, running, mapThread, task, crashed>>

\* &map: RemoveClient, which tells the others and erases the client's entry
\* under the write lock, then the new map, which the client goes off to load.
ChangeMap(w, p, m) ==
  /\ Serves(w, p, "in") /\ writer[player[p].map] = None
  /\ player' = [player EXCEPT ![p].map = m, ![p].stage = "loading"]
  /\ LET old == player[p].map
         others == ToSet(mapList[old]) \ {p} IN
       /\ mapList' = [mapList EXCEPT ![old] = Erased(old, p)]
       /\ screen' = [q \in Players |-> IF q = p THEN {}
                                       ELSE IF q \in others THEN screen[q] \ {p} ELSE screen[q]]
  /\ UNCHANGED <<astray, clientList, writer, running, mapThread, task, crashed>>

\* &StopMaps: EndThread on every map.
StopMaps(w, p) ==
  /\ Serves(w, p, "in")
  /\ running' = [m \in Maps |-> FALSE]
  /\ UNCHANGED <<astray, player, clientList, mapList, writer, mapThread, task, screen, crashed>>
-----------------------------------------------------------------------------
(* Leaving                                                                  *)

\* DisconnectClient: out of the server's list, under its write lock.
Disconnect(p) ==
  /\ ListFree /\ Free(ThreadOf[p]) /\ Connected(p)
  /\ clientList' = clientList \ {p}
  /\ screen' = [screen EXCEPT ![p] = {}]
  /\ player' = [player EXCEPT ![p].stage = "gone"]
  /\ IF player[p].stage = "login" THEN UNCHANGED task
                                  ELSE Goto(ThreadOf[p], [at |-> "hide", p |-> p])
  /\ UNCHANGED <<astray, mapVars, crashed>>

\* OnClientDisconnect saves the items and hides the player from all clients...
HidePlayer(w) ==
  /\ At(w, "hide")
  /\ screen' = [q \in Players |-> screen[q] \ (IF q \in clientList THEN {task[w].p} ELSE {})]
  /\ Goto(w, [at |-> "free", p |-> task[w].p])
  /\ UNCHANGED <<astray, player, clientList, mapVars, crashed>>

\* ... and deletes inventory and equipment.  The map is not told.
FreeItems(w) ==
  /\ At(w, "free")
  /\ player' = [player EXCEPT ![task[w].p].gear = "freed"]
  /\ Goto(w, Idle)
  /\ UNCHANGED <<astray, clientList, mapVars, screen, crashed>>
-----------------------------------------------------------------------------
(* CMap::Thread.  Every thousandth turn it counts its clients: the Tick that *)
(* decides is left out, for `++Tick = Tick % 1000' writes it twice, unsequenced. *)

MapTurn(m) ==
  /\ ~crashed /\ mapThread[m] = "sleeps"
  /\ \E next \in IF running[m] THEN {"sleeps", "counts"} ELSE {"ended"} :
       mapThread' = [mapThread EXCEPT ![m] = next]
  /\ UNCHANGED <<astray, player, clientList, mapList, writer, running, task, screen, crashed>>

\* acquireReadLock, ClientList.size(), releaseReadLock.
MapCount(m) ==
  /\ ~crashed /\ mapThread[m] = "counts" /\ writer[m] = None
  /\ mapThread' = [mapThread EXCEPT ![m] = "sleeps"]
  /\ UNCHANGED <<astray, player, clientList, mapList, writer, running, task, screen, crashed>>
-----------------------------------------------------------------------------
\* What a worker does once it has begun a handler.
Continue(w) == \/ AddClient(w) \/ ShowNext(w) \/ Added(w)
               \/ HidePlayer(w) \/ FreeItems(w)

Packet(w, p) == \/ \E m \in Maps : PlayerLogin(w, p, m) \/ ChangeMap(w, p, m)
                \/ ClientReady(w, p) \/ Move(w, p)
                \/ StopMaps(w, p)

Next == \/ \E p \in Players : Connect(p) \/ Disconnect(p)
        \/ \E w \in Workers : Continue(w) \/ \E p \in Players : Packet(w, p)
        \/ \E m \in Maps : MapTurn(m) \/ MapCount(m)

\* The threads go on; what clients do is up to them.
Fairness == /\ \A w \in Workers : WF_vars(Continue(w))
            /\ \A m \in Maps : WF_vars(MapTurn(m)) /\ WF_vars(MapCount(m))

Spec == Init /\ [][Next]_vars /\ Fairness
-----------------------------------------------------------------------------
Places(p) == UNION {{m} \X {i \in DOMAIN mapList[m] : mapList[m][i] = p} : m \in Maps}

\* Types, and the lists of the maps without doubles.
TypeOK ==
  /\ player \in [Players -> [stage : {"new", "login", "loading", "in", "gone"},
                             map : Maps \cup {None},
                             gear : {"null", "made", "freed"}]]
  /\ clientList \subseteq Players
  /\ \A m \in Maps : /\ ToSet(mapList[m]) \subseteq Players /\ IsInjective(mapList[m])
                     /\ writer[m] \in Workers \cup {None}
                     /\ mapThread[m] \in {"sleeps", "counts", "ended"}
  /\ running \in [Maps -> BOOLEAN]
  /\ screen \in [Players -> SUBSET Players]

\* A client that is in the world is in the list of exactly one map, the one its
\* Map pointer names, through any sequence of AddClient and RemoveClient; one
\* that loads is in no list, or RemoveClient would erase an entry it has not
\* found (CMap.cpp:130).
ListedOnce ==
  \A p \in Players :
    /\ player[p].stage = "in" => \E i \in DOMAIN mapList[player[p].map] :
                                    Places(p) = {<<player[p].map, i>>}
    /\ player[p].stage = "loading" /\ task[ThreadOf[p]].at # "show" => Places(p) = {}

\* Between two handlers, a client shows, of those who are in the world, exactly
\* the ones on its own map: nobody is missed when two come at once, and nobody
\* stays after going elsewhere.
ScreenIsMap ==
  \A p \in Players : player[p].stage = "in" /\ writer[player[p].map] = None =>
    {q \in screen[p] : player[q].stage \in {"in", "loading"}}
      = {q \in Players : player[q].stage = "in" /\ player[q].map = player[p].map}

\* No client is told that somebody moves whom it does not show (CMap.cpp:163).
MovesOfShown == ~astray

\* The lock of a map lets some writer in, not each (ReadWriteMutex): a client may
\* wait for as long as others keep going from map to map.
Hopping == \E w \in Workers, p \in Players, m \in Maps : ChangeMap(w, p, m)
HopForever == []<><<Hopping>>_vars

\* Every client that reports a loaded map gets in and its worker goes on
\* (CMap.cpp:29), unless clients hop forever.
ReadyGetsIn ==
  HopForever \/ \A w \in Workers :
    task[w].at \in {"add", "show"} ~> (task[w] = Idle \/ crashed)
=============================================================================
