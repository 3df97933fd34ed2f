# TitanFiesta in TLA+

TitanFiesta is a server emulator for an online role-playing game. A cluster is
four kinds of process: the inter-server hub (`TitanISC`), a login server, char
servers and game servers, all written over one framework, `TitanBase`. This
directory holds TLA+ models of its parts, the TLC runs that check them, and
proofs about them. Line numbers refer to `src/TitanBase/TitanBase/` and
`src/TitanFiesta/`.

## The system

| Part | State | Operations | Talks to | What is hard | What makes it right |
|---|---|---|---|---|---|
| **Readers-writer lock** `CReadWriteMutex.hpp` | `m_readers`, `m_pendingWriters`, `m_currentWriter`, two condition variables | acquire and release, read and write | every list of every server | lost and spurious wake-ups, overtaking, nesting | exclusion, no lost wake-up, writers first, progress |
| **Client pool** `CTitanServer.cpp`, `CTitanClientThread.cpp` | `ClientList`, `ClientThreads`, `ThreadID`, `Id`, `ClientCount` | accept loop, polling round, `DisconnectClient`, `RemoveThread` | calls the packet handlers of each server | unlocked reads and increments between locked sections, threads that end while they are being chosen | every client has exactly one worker, no worker too many clients, nothing freed is used |
| **Hub** `TitanISC/CTitanISC.cpp` | `ServerList`, `iscid` of each connection | IDENTIFY, UPDATEUSERCNT, SERVERLIST, forwarding, disconnection | every server, by packets | handlers cut by lock releases, deaths and restarts | its list is the servers that are there, numbers identify |
| **Server directory** ISC side of `CLoginServer`, `CCharServer`, `CGameServer` | `ServerList`, `ServerData.iscid`, `currentusers` | `OnServerReady`, `ReceivedISCPacket`, user login | the hub | list replies against forwarded news | each copy follows the hub's list |
| **Login across servers** `pakTokenLogin`, `pakUserLogin` of three servers | `users.loginid` in the database, client ids | token login, join, re-login at char and game server | database, client | the token is read, replaced and compared by different processes | one session per token |
| **Character table** `CCharServer.cpp`, `CTitanSQL.hpp` | table of characters, one shared connection | create, delete, save, select | database | workers interleave on one connection; check-then-insert | at most four characters, unique names, right ids |
| **Inventory** `Common/CItems.hpp`, item handlers of `CGameServer.cpp` | slots of two managers | load, dump, move, equip, unequip | client, database | slot bounds, moves between managers that fail half way | no item lost or doubled |
| **Maps and entity ids** `CMap.cpp` | client list, free ids | add, remove, allocate, free, map thread | game server workers | exhaustion, free twice, clients that leave without being removed | an id belongs to one client |
| **Packet framing and encryption** `CTitanPacket.hpp`, `CTitanClientThread.cpp`, `EncryptPacket`, `DecryptBufferHeader`, `DecryptBufferData` | sizes, `curRecv`, XOR position, read position | receive in pieces, decrypt, send, write and read fields | sockets | short and long headers, packets cut anywhere, fields that are not all there | both ends stay at the same position, what is read is what was written |
| **Fiesta proxy** `Fiesta Proxy/` | two relay threads per connection, the address the client was sent to | accept, redirect, relay, end, reap | client and real server | threads that join each other, an address written by one thread and read by another | every connection leads where it should and ends, nothing deleted is used |
| **SHN tables** `Common/CShn.hpp` | rows of a data file | open, decrypt, look up | files | cipher, column types, rows that share a name | a lookup finds the row that the file has |
| **Files and configuration** `CTitanFile.hpp`, `CTitanBufferedFile.hpp`, `CTitanIniReader.hpp` | an open file with mode, type and place; a buffer; sections and values | open, seek, read, write, read lines, look up | the C library | a type kept from the last file, places of buffer and reader that must agree, lines cut by hand | what is read is what the file has |
| **The rest** | - | logging, random numbers, MD5, the mains, SHN editor and decrypter | files, GUI | - | - |

Processes interact by packets over TCP: each server has one connection to the
hub, clients connect to login, char and game servers in turn. Inside a process
there is one accept thread, a pool of worker threads, and (outside the hub) one
thread that reads the hub's packets; they share the two client lists and the
server list, each under its readers-writer lock, and much else under none.

## Modules

| Module | Models | Used by |
|---|---|---|
| `ReadersWriters` | what a writer-preferring lock promises | `ReadWriteMutex` |
| `ReadWriteMutex` | `CReadWriteMutex.hpp`, implements `ReadersWriters` | proofs, `MCReadWriteMutex` |
| `ReadWriteMutexProofs` | theorems about `ReadWriteMutex` | |
| `ISCHub` | the hub | `ServerDirectory` |
| `ServerDirectory` | the servers at the other end, composed with `ISCHub` | `MCServerDirectory` |
| `ServerDirectoryProofs` | theorems about `ServerDirectory` and the hub in it | |
| `ClientPool` | accept loop, workers, disconnection | `MCClientPool`, `TitanBaseProofs` |
| `Possession` | what the game server promises of a character's items | `ItemManager` |
| `ItemManager` | `CItemManager` and the item handlers of the game server, implements `Possession` | `MCItemManager`, `ItemManagerProofs` |
| `ItemManagerProofs` | theorems about `ItemManager`, and the refinement | |
| `Database` | the tables `users` and `characters`, one MySQL connection per process | `CharServer`, `LoginServer` |
| `CharServer` | the packet handlers of the char server | `MCCharServer`, `SignIn` |
| `CharServerProofs` | theorems about `CharServer` | |
| `LoginServer` | the packet handlers of the login server | `SignIn` |
| `SignIn` | a player's way through login, char and game server: composes the two above with the game server's sign-in | `MCSignIn`, `SignInProofs` |
| `SignInProofs` | theorems about `SignIn` | |
| `GameWorld` | maps, their lists, locks and threads, and the handlers that use them | `MCGameWorld`, `GameWorldProofs` |
| `GameWorldProofs` | theorems about `GameWorld` and `EntityIds` | |
| `ProxyRelay` | the proxy's connections, threads and redirections | run `proxy` |
| `ProxyRelayProofs` | theorems about `ProxyRelay` and `PacketFraming` | |
| `PacketFraming` | packets on five kinds of stream, the proxy's re-encryption among them | `Utilities`, `ProxyRelayProofs` |
| `PacketFields` | writing and reading the fields of a packet | `Utilities`, `TitanBaseProofs` |
| `EntityIds` | the entity ids of a map | `Utilities`, `GameWorldProofs` |
| `BufferedFile` | the buffered file | `Utilities`, `TitanBaseProofs` |
| `TitanFile` | the file class | `IniReader`, `TitanBaseProofs` |
| `IniReader` | the configuration reader on top of it | `Utilities`, `TitanBaseProofs` |
| `Shn` | the tables of the game's data | `Utilities`, `TitanBaseProofs` |
| `Utilities` | the seven parts that keep to themselves, side by side | `MCUtilities` |
| `TitanBaseProofs` | theorems about `ClientPool`, `BufferedFile`, `TitanFile`, `IniReader`, `PacketFields` and `Shn` | |

`MC*` modules give constants their values. Definitions whose names end in
`_Something` and that follow a comment "Mutant" are plausible mistakes; they
are used nowhere in the specifications and serve to see that each property
notices one of them. The type invariants (`TypeOK` and the like) document the
variables. The lock's is in its configuration and the proofs carry their own; the
other configurations list the properties that say more.

### ReadWriteMutex

The variables are the three fields of the class, and for each thread where it
is (`pc`), whether it waits (`asleep`) and how many read locks it holds
(`depth`). `m_mutex` makes the code between two waits atomic, so an action is a
call up to its first wait or its return, or a woken thread's stretch from there:
`acquireReadLock`, `wakeInReadLock`, `releaseReadLock`, `acquireWriteLock`,
`wakeInDrain`, `wakeInTurn`, `releaseWriteLock`. `SpuriousWake` is what boost
allows. The two `while` loops of `acquireWriteLock` are `PassDrainGate` and
`PassTurnGate`.

`Abstract` maps it to `ReadersWriters`: the writers are the threads past both
gates, those in line are the threads at either gate.

Assumed of the callers: nobody asks to write while it reads (the worker loop
drops its read lock first), and releases only what it holds.

### ISCHub and ServerDirectory

A connection has a queue in each direction (TCP: in order, nothing lost while
both ends live). A worker of the hub holds `rwmClientList` for reading while it
handles packets, so that `AcceptClient` and `DisconnectClient` wait
(`ClientListFree`); `rwmServerList` is taken and dropped inside the handlers.
Each handler is therefore cut where it drops a lock: `ReceiveIdentify`,
`PushServer`, `ForwardPacket`; `ReceiveListRequest`, `SendList`;
`ReceiveUserCount`, `ForwardPacket`; `DisconnectClient`, `EraseServer`,
`NotifyRemaining`. `task` is where a worker is between them.

A server goes `down` -> `connected` (`Connect`) -> `up` (`OnServerReady`) and
may `Die` at any point; the hub may or may not still read what it had sent. What
a server knows is gone with it, its database is not in the model. `AfterPacket`
is the list handling of the three `ReceivedISCPacket`.

Data left out: names, addresses and ports in a record (they are those of
`srv`), the MOTD and the other fields that no property depends on. An `iscid`
that no constructor sets has a value from the constant `Garbage`.

### ClientPool

`ServerLoop` is `Accept` (search under the read lock), `TakeThread` and
`AssignThread` (the load and the store of an unlocked `ClientCount++`, and the
new client's `ThreadID`), `PublishClient`, `StartThread`. A worker is `Poll` or
`FindNone`, then `ReceiveEnd` for each client at end of file, then `EndRound`;
`DisconnectClient` is `EraseClient`, `PickOther`, `Settle`; at its end
`RemoveThread`. An action is a stretch between two lock operations or two
unlocked accesses. Packets that are received change nothing of the pool and are
left out; `HangUp` is the peer. Use of a deleted thread object or of an element
past the end of `ClientThreads` sets `crashed`, after which nothing happens.
RemoveThread's unlocked walk over `ClientList` is one step: a vector read while
it is being reallocated has no outcome that could be told apart.

`Overlaps` says which windows are open to other threads. `{}` is a server where
the accept loop's body and each worker's pass happen one at a time;
`"accept"` opens the first, `"disconnect"` the second. The code guards neither,
so that the runs with `{}` say that the bookkeeping is right when nobody
interferes, and those with a window what happens when somebody does.

### ItemManager

A manager is the record of `CItemManager`'s fields, with `at` for the array of
pointers; `note` is the `Slot` and `Type` that each item carries. A dump has the
array's items in order with their notes, and `LoadItemDump` places them by what
they note, as many as the dump says. The handlers `MoveInvItem`, `EquipInvItem`,
`EquipInvItemSlot` and `UnequipInvItem` are those of `CGameServer` without their
`pak`; those that first remove and then set are cut in between (`TakeToEquip`,
`PutItems`), because other players' workers read the equipment there. `UserLogin`
and `ClientDisconnect` load and save. `CreateItem` is the command `&item`.

`Possession` knows only who plays, what he has and what is in the database; the
refinement mapping takes the items of both managers and those on their way.

Left out: the layout of the item classes (a `Length` per item is enough), the
answers to the client, failed logins (they change nothing). Assumed:
`ItemInfo.shn` names equipment slots below `MAXEQSLOT` (`EquipTable`), and the
client names slots that exist. Nothing in the code sees to either: `SetItem`'s
refusal would lose the item, and slot 96 passes `Slot > _SlotCount`. The
overflow of `_ItemCount` (a byte) and `_DataLength` (a word) cannot
happen: 96 items of at most 256 bytes.

### Database, CharServer and LoginServer

`Database` keeps of the tables what handlers decide on: the login id of each
account and the rows of `characters`, with who saved the quickbars of each. A
connection is idle or has an answer pending. `DoSQL` is therefore two steps, the
query (`Asked`) and `mysql_store_result` (`Fetched`), and a statement in between
is refused (`Sent`, `ok`); statements of different processes do not interfere.
Each `mysql_query` is atomic in the database.

In `CharServer` and `LoginServer` a worker is `Idle` or in a handler
(`task[w].at`); every call into the library is a step, and so are the unlocked
load and store of `currentusers` and the use of `ServerList[0]` and of a world's
record after the lock has been dropped. `sent` holds the packets of the last
step. `crashed` is the process ending: `mysql_num_rows` of NULL, `row[0]` of no
row, a record that has been deleted. `Connect` and `Disconnect` need the write
lock of the client list, which workers hold for reading while they handle
packets (`ListFree`). `thread` says which worker serves which client and does
not change: `ClientPool` is about that.

Left out: the appearance of a character, positions, the packets' layout. Names
are values, `Unsafe` those that `MakeSQLSafe` changes; names of one case stand
for all.

### SignIn

The player's program is not in the repository. It is taken to keep the login id
it was last sent and to show that one, which is what the protocol asks for;
`Quit` ends all its connections. `FirstWord` is what the game server compares of
a login id. Joined here are `AskPlayer` and `CheckPlayer`, the query of
`CGameServer::pakUserLogin` and what it does with the answer.

### GameWorld

A player's object goes from `new` to `login`, `loading`, `in` and `gone`. The
handlers are cut where `CMap` takes its lock: `ClientReady`, `AddClient`,
`ShowNext` for each other client, `Added`; `ChangeMap` with `Erased`;
`Move` with `Broadcast`; `Disconnect`, `HidePlayer`, `FreeItems`. `screen` is
what a player's game client shows, from the packets it has been sent. `MapTurn`
and `MapCount` are the thread of a map.

The game client is taken to report a loaded map once and to ask for nothing
while it loads. As in the code, whoever disconnects stays in the list of the map.
`++Tick = Tick % 1000` has no defined value in the C++ of the time, so that the
thread may count in any turn.

### ProxyRelay and PacketFraming

`ProxyRelay` is about threads and addresses: `Accept`, `StartSrv` and
`CheckClientList` are the listener, `Connect` to `SrvGivesUp` the thread of a
connection that listens to the server, `CliLoopEnds` to `CliJoinsNothing` the
one that listens to the client. `want` is where the client was sent, `got` where
its connection led. The proxy starts one game client, and that client connects
to the next server when it has been told and the last connection has been made.

`PacketFraming` is about bytes: `SendPacket` and `EncryptPacket`, the loops
`WorkerReceive`, `ISCReceive` and `ProxyReceive`, on five routes. A stream hands
over any number of bytes that are under way, at least one. The exclusive or with
`xorTable` is symbolic: a byte carries the places of the table that it is under.
The header and data handlers of login, char and game server are the same text
and modelled once.

### The utilities

`EntityIds` is `GetNewEID` and `FreeEID`, with what holds the ids. `BufferedFile`
is Open, Close, the reads, `Skip` and `Seek`, all of which go through
`CheckBuffer` (`BufferFor`); bytes of the buffer behind the end of a short file
are those of the last fill. `TitanFile` has the calls of the class over what the
C library promises; `IniReader` reads lines with it and takes them apart as
`ReadINI` does, character by character where the loops look at characters.
CR LF counts as one LF, keys and sections are of one case, and the outcome of
undefined behaviour is a choice (`garbage`, `MayCrash`). `PacketFields` writes
fields, may cut the packet off, and reads them back. `Shn` makes a file from a
table and reads it; names and defaults of columns are left out.

## Runs

| Run | Shows |
|---|---|
| `lock` | four threads, spurious wake-ups: exclusion, exact counters, no lost wake-up, writers first, implementation of `ReadersWriters` with its fairness, progress of writers, and of readers once writers stop. 1968 states |
| `lock_nested` | counterexample: a second `acquireReadLock` under the first never returns once a writer has come in between (`CTitanISC.cpp:90` does this) |
| `directory_restart` | login, char and game server, one hub worker; the char server takes a login in each of its runs, dies and comes back: numbers unique, the hub lists exactly the identified servers that are there, every copy follows, user counts included |
| `directory_live` | login and char server both die and come back: after the last start and death the copies settle on the servers that run |
| `pool` | five clients, four workers of two clients, no overlap: counts and numbers exact, nothing stale used, every client that leaves is noticed. 31 216 states |
| `pool_double_disconnect` | counterexample: a client moved between two workers is disconnected by both |
| `items` | two connections that play one character, one after the other or at once; three items: accounts exact, no item lost or doubled by any sequence of moves, saves and logins, implementation of `Possession`. 113 566 states |
| `char` | two clients on one or two workers over one connection: characters of an account stay below the limit plus the number of threads (the check and the insert are two statements); with one thread the reply to a creation names its row and quickbars are saved to their owner. 1.5 million states |
| `signin` | two players, three accounts of which one is banned: whoever is in anywhere is the account that was proved at the login server, nobody banned gets in, and the login id that is sent is the one that is stored. 786 330 states |
| `world` | three players, two workers, two maps: each player in the world is in one list, shows exactly those on the same map, is told of nobody's moves it does not show, and gets in unless others hop between maps for ever |
| `proxy` | three connections, two addresses: each leads where the client was sent, none is deleted while a thread is in it, and those that one side leaves are ended and deleted, but for the exceptions below |
| `utilities` | the seven parts, one at a time: entity ids unique and none lost, buffered reads right, types of files told right, the configuration found as it is said, packets' fields within the packet, packets on streams in order and all of them, rows looked up as the file has them. 140 798 states |

Weaknesses of the code that the modules have and the properties of the runs
leave room for, each seen with the same modules under other constants or named as
an exception in the property:

* With two hub workers two servers get one number, and a list reply is
  overtaken by a newer server's IDENTIFY. Ten servers get one worker.
* With `Garbage` = {0} a connection that ends before IDENTIFY takes the first
  server's record with it.
* A login before SETISCID is reported under number 99 and lost.
* With `"accept"` in `Overlaps` a client may be accepted for a worker that is
  about to end, and is served by nobody; with either window the counts drift.
* With several workers on one MySQL connection, statements are refused,
  `LastInsertId` may be another's, and the process may end on a NULL result (`CharServer`).
* A game client may be sent to a game server that has gone (`Redirect`), and a
  world's record used after its deletion (`SendWorld`).
* `AddClient` may read equipment that is half changed or freed; who
  disconnects stays in the map (`GameWorld`).
* The proxy's threads wait for each other for ever when both sides leave at
  once (`Hung`), a connection whose server cannot be reached is never deleted
  (`Abandoned`), a client that leaves at once may make the proxy join a thread that
  is not there, and a long header that comes in pieces is misread (`split`).
* A text file opened by an object that had a binary one is taken for binary
  (`stale`); a line that ends less than three bytes before the end of a
  configuration is dropped; behind a string of type 26 a table is read one byte
  early (`Readable`).

### Bounds

* Lock: four threads give two of each kind at once, which is what the counters
  and the two notifications can tell apart; depth 2 only in `lock_nested`
  (liveness does not hold there) - the proofs cover every depth.
* Directory: three connections for each server give deaths and restarts with the old
  connection still open. `directory_restart` has the game server too, because the
  char server keeps a list of those, and lets the char server die;
  `directory_live` lets both of its servers die. `MaxLogins` = 1 per run
  is enough for an old count to meet a new one. One worker is what ten servers
  get (`TITAN_CLIENTS_PER_THREAD`).
* `Garbage` = 0xCDCD = 52685 (the fill of a debug build's heap, a number no cluster
  gives out).
* Pool: two clients per worker and five clients force a third worker, moves from
  the last worker, and a worker that ends while one behind it lives;
  the counterexample uses one client per worker.
* Items: three items, an inventory of two slots and one equipment slot reach the
  full inventory, swaps of two items, of an item with an empty slot and of a slot
  with itself, and equipping over an item that is already there.
* Char: two clients and two names are what a race needs; `MaxChars` is 1 instead
  of 4, so that the limit is met with the first character. Three rows are ever
  created, so that a name is taken, freed and taken again.
* Sign-in: one worker in each server, two players and two login ids to hand out
  beside those in the table, which differ in their first word: two that share it
  (1 in 65 536) are told apart by nothing at the game server.
* World: three players, so that two come or go while a third looks on; two maps.
* Proxy: three connections take a client from login to world to game server.
* Utilities: bytes of packets on a stream are of five values, so that lengths 2
  and 3 have short headers and 4 and 5 long ones, and the key table has
  three entries, so that it wraps; fields have bytes of four values, so that
  numbers take several. Files of nine bytes meet a line limit of eight and a
  buffer of three; a configuration has three lines out of nine kinds.
* `Wrapped` is the largest number TLC knows and stands for 2^32 - 1.
* Queues have no bound of their own; what is sent is bounded by the above.

`CHECK_DEADLOCK FALSE` stands where connections, clients, rows or logins are used
up, a file is read, or a process has ended (`crashed`), and a system at rest is the normal end. The lock's runs check deadlock.

### Fairness

* Lock: a woken thread gets `m_mutex` in the end and every critical section of a
  caller ends (all of them are loops over a list or a send). Nobody has to ask,
  nothing is assumed of spurious wake-ups.
* Directory: the accept loop, the hub's workers and the servers' hub threads keep
  running. Nobody has to start, die or log in. The hang of `lock_nested` is
  not in this model.
* Pool: each thread keeps running; a worker that polls every
  `CLIENT_THREAD_SLEEP` ms does so again and again between windows that are
  kept shut, which is strong fairness of `Poll` and `FindNone`.
* World: a worker in a handler goes on, and so do the threads of the maps. The
  lock lets some writer in, not each in turn, so that `ReadyGetsIn`
  excepts clients that change maps for ever (`HopForever`).
* Proxy: its threads go on, and a loop ends once `isRunning` is false. Neither
  clients nor servers have to say anything or to leave.
* Utilities: whoever receives reads what is under way; nobody has to send.
  `char`, `signin` and `items` check safety only and assume no fairness.

## Proofs

`ReadWriteMutexProofs` proves, for every finite set of threads and every
nesting depth (`ThreadsFinite`, `MaxDepthPos`):

* `TypeCorrect`, `Exclusion`, `ExactCounters`, `WakeupsKept`: the four state
  invariants of the run `lock`;
* `WritersPreferred`: the action property;
* `Refinement`: every step is one of `ReadersWriters` or a stutter.

`MutualExclusion` alone is not inductive: a writer that waited its turn enters
without looking at `m_readers`. It may, because a writer that saw the last
reader leave is still counted in `m_pendingWriters`, which bars new readers.
The inductive invariant `IInv` adds this (`TurnIsDrained`), that the counters are
the sizes of the sets they stand for, that a current writer excludes counted
readers, and where sleepers and writers can be (`Placement`). One lemma per
transition preserves it; counting facts come from the library's
theorems on finite sets.

`ServerDirectoryProofs` proves, for every set of servers, any number of
connections and workers, and every value of the unset number:

* `TypeCorrect`: `TypeOK`: the packets in the queues, the hub's lists and tasks, what
  each server knows of itself and its copy of the list keep their types, and a
  connection that waits to be accepted is not in `ClientList` yet (`BacklogApart`
  strengthens that: it waits once, and was opened before);
* `OneWorkerNumbers`: with one worker, no two registered servers share a number,
  whatever servers die and come back. `OneWorker` is an assumption of the theorem:
  with two workers it is false;
* `HubListIsLive`: with one worker, the hub's list is, between two handlers, exactly the
  servers that identified themselves and are still connected, each under the number of
  its connection (`HubListsLive`), so that who dies takes its own record out and nobody else's;
* `CopiesAreRight`: with one worker, a login or char server that was sent the list and
  works off what it was sent since arrives at the hub's list of the servers it
  keeps, in the same order and with the same user counts (`CopiesAgree`).

`NumbersUnique` is not inductive, because `IDENTIFY` chooses the number under one
lock and enters it under the next. `PushInOrder` adds that a number that has
been chosen is above those in the list until it is entered. `NoWrap` is
the other assumption: the number is a word, and a cluster that has seen 65 536
servers identify themselves without its list ever running empty starts again
at 0. It is an assumption of these theorems, not of the specification.

`HubListsLive` speaks of moments at which the worker is idle; `LinkInv` says what is true
in between. The list has a record for every connection that identified itself
and is in `ClientList` or being taken apart, and no other; two such connections have
different numbers, and the number that is about to be entered is noted with its
connection. The rest is about the protocol: a connection is accepted once, `IDENTIFY`
is its first packet and comes once, a server that runs has a connection of its
own. `OnClientDisconnect` erases by number, also for a connection that never
identified itself, whose number no constructor has set; that this erases nothing is
`GarbageUnused`, the assumption that no number in the list is one of those values.

`CopiesAgree` speaks of one that was sent the list, at moments when the worker is idle; `CopyInv`
speaks of all. The list at which a server arrives once it has worked off its
packets and the one that the worker is about to send (`Pend`) shows the hub's list
(`CopyShows`), from the moment at which the worker sends the list; before that it arrives
somewhere. It takes five facts about the protocol: a server that runs has
its end open (`OpenWhileUp`) and is in `ClientList` once its `SERVERLIST` was taken, so
that it misses nothing (`ListedWhileUp`); a user count comes from a char server, under its
own number or under 99 (`CountsOwn`); what a server is told of its number is right
(`NumberKnown`); and a reply carries the list as it still is when it is sent
(`TaskFits`), as the only worker does nothing in between. Then each packet changes
a copy as its sender changed the hub's list: `REMOVE` and `UPDATEUSERCNT` find their record by
number, which is unique (`RemoveShows`, `ChangedShows`), a record that is entered comes
last in both (`AppendShows`), and two lists with the same records in growing numbers are one
list (`SameOrder`, `SameSeen`), the loop over a `SERVERLIST` reply included (`KeptShows`).
The assumption `UnsetUnused` excludes one way to fail: a char server that is logged in to
before it is told its number counts its users under 99, and the hub would enter them at
the record of whoever has that number. As numbers follow each other, it also keeps the list
below the 256 entries that the reply's byte can count.

`GameWorldProofs` proves, for any numbers of players, workers and maps:

* `ListsAreRight`: a client in the world is in the list of one map, its own, and one
  that loads is in none (`ListedOnce`), so `RemoveClient` finds what it erases;
* `ScreensAreRight`: when nobody holds a map's lock, a client on it shows exactly who is
  on it (`ScreenIsMap`);
* `MovesAreOfShown`: no client hears of the steps of one it does not show
  (`MovesOfShown`), and the types (`WorldTypesHold`).

None is inductive, as each speaks of the moments between two handlers. `WorldInv` says of
a held lock who holds it and for whom (`LockHeld`, `HolderAdds`), of a list that it has
each client once and on its own map, gone ones included (`NoDoubles`, `ListedAreThere`,
`ThereAreListed`), and of screens that they show nobody of another map (`ShowsItsMap`)
and miss only what the lock's holder has yet to show (`MissesNobody`).

Of `EntityIds` it proves, for every set of entities and every range of ids
(`EidRange`):

* `EntityIdsAreUnique`: no two entities have one id;
* `NoIdIsLost`: `MAX_EID` is returned only when every id is in use, as the comment
  in `CMap.h:51` has it.

`EidInv` adds to uniqueness that an id on the recycling stack is nobody's and there
once (`RecycleUnused`), without which the next pop would give it out twice, and
that every id below `NextEID` is somebody's or on the stack (`NothingLost`).
That a map frees an id once, and only one that it has given out, is in the model's
guards: the only caller is the code that got it.

`TitanBaseProofs` proves of `ClientPool`, for any numbers of clients, threads and clients
per thread, with both windows shut (`Overlaps` = {}, as in the run `pool`; with one open
the properties are false):

* `PoolCountsAreExact`: between two operations each worker counts the clients it
  serves and stands where its number says, and every client has a worker (`CountsExact`);
* `NothingGoneIsUsed`: no deleted worker and no number beyond the end of
  `ClientThreads` is used (`NothingStaleUsed`).

Both follow from `PoolInv`, which says the same at every moment. Its threads are those of
the vector and the one that `ServerLoop` has made and numbered but not entered yet
(`Pool`); its clients are those of the list, the one that a thread counts before it is
listed, and the one that `DisconnectClient` has erased and not yet subtracted
(`Counted`). Each thread counts the `Counted` clients with its number (`Exact`), and
each of these has the number of a thread (`Homes`), which is what keeps the indices
in range. Where a pass is says the rest: a worker that is about to end has no client
(`PassFits`), so that `RemoveThread` renumbers all of them, and a worker chosen by
`ServerLoop` is still in the vector (`AcceptFits`). No lemma needs the order in which
the client to move is searched, only that it is in the list.

Of `BufferedFile` it proves `BufferedReadsAreRight`: every byte that a read returns
from within the file is the byte of the file at that place, for every file, every
size of the buffer and every sequence of opens, reads, skips and seeks. The
invariant is `Window`: the buffer begins at or before the place where one reads and
holds the bytes of the file from its beginning on.

Of `TitanFile` and of `IniReader` on top of it, it proves `FilesAreTakenForWhatTheyAre`
and `ReadersFileFits`: a file that is open is taken for the binary, unicode or ascii file it is
(`TypeFits`), in whatever order files are opened, used and closed, by any caller and by
`ReadINI`. No call opens a file but Open, and none changes its type (`StaysOpen`); of
the reader the invariant adds that it reads only a file whose type it has found (`IniInv`).

Of the reader it proves `ConfigurationIsRead` too: whatever the lines, however many, and
whatever the size of the buffer of `ReadLn`, a key has in each section the first value that is
written for it there, and none where none is (`FindsWhatIsSaid`). That is said of files as
the servers have them (`WellFormed`): no newline at the end and more than two characters
behind the last one, no spaces behind a value, and no line with as many spaces in front as it has
other characters, which the code would pass over. It assumes that a line can be taken apart in one
way only and fits into the buffer (`LinesAre`: no `]` in the name of a section, no `=` or space
in a key, and quotes around a value that begins with a space or has a quote at an end), that
the buffer has room for a character (`RoomForChars`), and that there is a file
(`NamesThere`).

The invariant `ReaderInv` says of the lines read so far, some k, that the entries are
those of the first k lines in their order and the section is the last one that began
there (`UpTo`), and that the file stands behind the k-th line, or before its newline,
when the line filled the buffer (`StandsAfter`): `ReadLn` then returns an empty line, which
is skipped. That the characters of a line give back its parts is `LineTaken`; that
`ReadLn` returns them, where the file stands at them, is `LineRead`; that they are
there is `FileLaidOut`, which also shows that the look at the last two bytes drops no line;
`AllIsFound` goes from the entries, in the order of their lines, to the first that fits.

Of `PacketFields` it proves `FieldsAreReadInside`: for every radix of bytes, every
header, all numbers and texts, and any number of fields, nothing is read behind the end of a
packet, what is whole is read as it was written, and the first number that is cut off is 0
(`InsideThePacket`). It assumes that bytes have at least two values (`ByteIs`), that
numbers are natural and that the bytes of a text are not 0 (`WrittenIs`). The invariant
`PacketInv` says that the fields that end before the packet does stand in it one behind the
other (`FieldsStand`), and that what is read next is where the last field ended, as long as
all was there (`Place`). What it takes is that each reader undoes its writer
where the bytes stand: `NumberRead`, `TextRead`, `BytesRead`, `ServerRead`. `Value` and
`FlattenSeq` are loops over data: `ValueLoop` and `FlattenParts` show by `NaturalInduction`
that the loops exist and what they compute byte by byte and part by part.

Of `Shn` it proves `RowsAreFound`: in every open table of a format without a column of type
26, for all columns, numbers and strings and any number of rows, each row is found under its
number and its name, as the one the file means (`LookupsFind`). It assumes that columns have a
type and a size (`ColumnsAre`), that numbers are four bytes (`IdsAre`) and that a string has no
byte 0 and is no longer than a column of fixed length that it stands in (`StringsAre`): longer
ones the format cannot hold. The invariant `ShnInv` says that the rows are those of the file and
that both maps are made of them. What it takes is that `Open` undoes the writer: the
cipher byte by byte (`SeenIs`), then each cell, row and table where it stands in the bytes
(`CellRead`, `RowRead`, `TableRead`), none beginning elsewhere than where the one
before ends (`PartsStand`). `Row` and `RowsOf` are folds, which `RowPass` and `RowsPass` show
to exist and to go step by step.

`ProxyRelayProofs` proves, for any number of connections and any addresses, that
nobody is in a deleted connection (`FreedAreEmpty`), and the types (`ProxyTypes`).
The listener deletes what is marked `finished`, and a thread marks it only when it
has joined the other one: `LeftByBoth` says of a marked connection that both
threads are out of it, and `Started` that one whose second thread has yet to be
started is not marked.

`LeadsWhereTold` is about addresses: a connection leads where its client was sent
(`ConnectedAsTold`). The listener keeps one pending address for each type of server and
threads of other connections write it. `AddressInv` says why none is overwritten while it
is needed: a client on its way (`PendingIsNext`) and a thread about to send one
(`TellerIsNext`) have what the listener has, and for each type of server there is at most
one of either (`TellerAlone`). That the player's game client goes from server to server
one at a time is in the guards of the model, not in the proof.

`HandledInOrder` is about the bytes on those connections and on those of the servers:
the specification of `PacketFraming`, whose next-state relation is a disjunct of that of
`Utilities`, keeps `InOrder`. Until the proxy gets a long header in pieces (`split`), the
packets that are handled are the first of those that were sent. `FrameInv` says so of
what is under way: there are places in the key table and codes of the packets that were
sent (`Sayings`), and what a loop holds together with what is on its way to it is, one
after the other, the codes of the packets it has not passed on (`Says`). A loop is
before a header or inside the packet whose size it has read (`Reading` for the last
receiver, `Passing` for the proxy), and its place in the key table is the one the sender
had at that packet. The lemmas say that encrypting twice gives the packet back, that a
header gives the size back, and that of two ways to cut a stream the shorter first part
is the beginning of the longer. The assumptions used are `KeysThere` (the table is not
empty and the place to start at is in it), `RadixBig` and `LengthsFit` (a length fits into a header).

`CharServerProofs` proves `CharLimitHolds`: an account has fewer characters than the
limit plus the number of threads, for any numbers of clients, threads, accounts and
names. A worker is `Committed` once the rows it has counted do not stop it. `CharInv`
bounds the characters of an account together with the workers committed to make one
more (`Room`): a count made when there was room may commit every thread, and an
insert takes one from the committed for the character it adds. That each session has
one thread, whose task is its own (`TaskOK`), is why there are no more of them. The same module proves the types (`CharTypes`): the
fresh id of an insert and the rows on the connection are the steps that need an argument.

With one worker thread (`OneThread`, in the properties themselves, as with two they are
false) it also proves `CreatedIsTold` and `SavedToOwner`: a reply to a creation names a row
of the account that asked, and what a client saves goes to a character of its account
unless one of that name was deleted. `OwnInv` follows the names: a client plays a
character whose name it read in the rows of its own account (`ClientOwned`,
`TaskOwned`), and no two accounts have one of the same name (`OneOwner`), because
nothing comes between the look for a name and the insert.

`SignInProofs` proves of the three servers together, for any numbers of players,
accounts, threads and login ids:

* `PlayersAreThemselves`: a player is, at the char and at the game server, the
  account he has proved at the login server (`SameAccount`). `WordsDiffer` is an
  assumption of this theorem: no two login ids begin with the same 16 bits, which is all
  that the game server compares. The char server compares the whole id and needs none;
* `BannedNowhere`: no banned account is in anywhere (`BannedStayOut`), whatever the
  login ids;
* `SentTokensAreStored`: with one worker at the login server, the id that is sent is
  the one that is stored (`TokenStored`).

`SameAccount` says nothing of who may still hold or read which login id. `SignInv` adds
`TokensTell`: no account but the player's own has, in its row, the id that his program
holds or that a worker is about to send him. It is kept because an id is made new
(`issued`) and stored for one account; a query by login id then finds the player's
account or none, and what a worker has read of it stays right (`CharSame`, `GameSame`)
as long as the player does not quit. `StoredInv` adds for the third theorem that the
worker whose query is pending is one that checks an account, so that a sole worker finds
the connection free when it stores an id.

`ItemManagerProofs` proves, for any numbers of connections, characters and items and
for managers of up to 254 slots:

* `ItemsInOnePlace`: an item is in one slot of one manager of a player, or in the hands
  of one handler (`OnePlaceEach`);
* `ManagersCount`: a manager's count of items and of bytes, which size the buffer that
  its dump is written to, are those of what it has (`ManagersExact`);
* `ItemsArePossessions`: `ItemManager` implements `Possession` (`ImplementsPossession`).
  `UserLogin` is its `Enter`, `ClientDisconnect` its `Leave`, `CreateItem` its `Gain` or,
  when the inventory is full, nothing; every other handler leaves the bag alone.

None of them is inductive. A dump is read as many items as it says, each goes where
it notes that it is, and `SetItem` silently drops an item whose place is taken. `ItemInv`
therefore says of a manager (`Good`) that its count and its bytes are those of its array and that each
item notes its slot and the manager's type, from which it follows that no item is in
two; of the hands (`HandOK`) that what is in them is in neither manager and that the
places it is meant for are free; and of a dump (`DumpOK`) that it is one of a good
manager, so that loading it gives back that manager (`GoodLoad`). One lemma per method
of `CItemManager`, one per handler and one per step carry it. The assumption
`EquipTable` is used: a slot beyond the equipment would lose the item. The bytes of a manager
are a set, one pair for each byte of the item in a slot, so that what `SetItem` and
`RemoveItem` add and subtract is a fact about cardinalities (`BytesPut`, `BytesTake`,
`BytesSwap`).

Only model-checked: all liveness, the fairness half of the refinement of the lock, and of the
pool what the counterexample is about (`OneWorkerPerClient`). Every other invariant that a passing
run checks is stated by a theorem.

## Not modelled

* The loss of the hub: every server exits then (`CTitanServer.cpp:276`), and a
  cluster without servers has nothing to say.
* Arrays, arithmetic helpers, the checksum, logging, random numbers and MD5: no state that two
  callers could disagree about, no protocol.
* The mains of the programs: they read a configuration and call `Start`.
* The SHN decrypter and editor: offline tools, one thread and a dialogue.
* The layouts of the item classes, of the characters and of most packets; the chat
  commands that only send; the proxy's dumps to the screen and its patching
  of the game client.
* MySQL beyond the order of statements on one connection; TCP beyond order and
  loss at a closed end; the game client beyond what is said above.

What would come next: `GameWorld` over `ItemManager`, so that equipment read half changed is
seen; and a hub that goes and comes back.
