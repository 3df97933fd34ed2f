----------------------------- MODULE ClientPool -----------------------------
(***************************************************************************)
(* How CTitanServer spreads its clients over worker threads                 *)
(* (TitanBase/CTitanServer.cpp and CTitanClientThread.cpp).                 *)
(*                                                                         *)
(* One thread accepts connections, gives each to the first worker that has  *)
(* room, or to a new one, and appends it to ClientList.  A worker polls the *)
(* clients whose ThreadID is its Id, and ends when it finds none.  When a   *)
(* client leaves a worker that is not the last one, a client of the last    *)
(* worker is moved into its place; when a worker ends, the numbers of those *)
(* behind it move up.                                                       *)
(*                                                                         *)
(* ClientList has a lock, ClientThreads has another, and much of the code   *)
(* touches either list, or a client's ThreadID, holding neither.  An action *)
(* is the code between two lock operations or two unlocked accesses that    *)
(* others can come between.                                                 *)
(***************************************************************************)
EXTENDS Naturals, Sequences, FiniteSets, SequencesExt

CONSTANTS
  MaxClients,        \* bound: clients that connect in a behaviour
  MaxThreads,        \* bound: worker threads created in a behaviour
  ClientsPerThread,  \* TITAN_CLIENTS_PER_THREAD of the server's main.h
  Overlaps           \* which windows other threads may come into, see below

ASSUME BoundsNat == MaxClients \in Nat /\ MaxThreads \in Nat
ASSUME RoomForOne == ClientsPerThread \in Nat \ {0}
ASSUME OverlapsKnown == Overlaps \subseteq {"accept", "disconnect"}

Clients == 1..MaxClients
ThreadObjs == 1..MaxThreads

VARIABLES
  ClientThreads, ClientList,  \* the two vectors
  Id, ClientCount,            \* fields of the CTitanClientThread objects
  ThreadID,                   \* field of the CTitanClient objects
  accepted, created,          \* clients and thread objects so far
  hungUp,                     \* clients whose peer has closed the connection
  acceptor,                   \* where ServerLoop is, and its locals
  worker,                     \* where each thread's Start is, and its locals
  deleted,                    \* thread objects that RemoveThread has deleted
  crashed                     \* an object or an element that is not there was used

lists == <<ClientThreads, ClientList>>
fields == <<Id, ClientCount, ThreadID>>
vars == <<lists, fields, accepted, created, hungUp, acceptor, worker, deleted, crashed>>

None == 0
Listening == [at |-> "accept"]
Off == [at |-> "off"]
Polling == [at |-> "poll"]

Init == /\ ClientThreads = <<>> /\ ClientList = <<>>
        /\ Id = [t \in ThreadObjs |-> 0]
        /\ ClientCount = [t \in ThreadObjs |-> 0]
        /\ ThreadID = [c \in Clients |-> 0]
        /\ accepted = 0 /\ created = 0
        /\ hungUp = {}
        /\ acceptor = Listening
        /\ worker = [t \in ThreadObjs |-> Off]
        /\ deleted = {}
        /\ crashed = FALSE
-----------------------------------------------------------------------------
(* Windows.  The code is right when nobody else works on the lists while a  *)
(* connection is being accepted (ServerLoop 137-177), and when the pass of  *)
(* one worker (Start 41-103, with DisconnectClient; or RemoveThread) ends   *)
(* before that of the next begins.  Overlaps says which of the two windows  *)
(* are left open in a run.                                                  *)

InPass(t) == worker[t].at \in {"loop", "erase", "pick", "settle", "end"}

AcceptMayStart == "accept" \in Overlaps \/ \A t \in ThreadObjs : ~InPass(t)

WorkerMayRun == ~crashed /\ ("accept" \in Overlaps \/ acceptor = Listening)

PassMayStart(t) ==
  "disconnect" \in Overlaps \/ \A u \in ThreadObjs \ {t} : ~InPass(u)
-----------------------------------------------------------------------------
(* ServerLoop                                                               *)

\* A process that has used what is not there stops.
AcceptorAt(where) == ~crashed /\ acceptor.at = where

\* accept() and the search for a worker with room, under the read lock.
WithRoom == {i \in DOMAIN ClientThreads :
               ClientCount[ClientThreads[i]] < ClientsPerThread}

Accept ==
  /\ AcceptorAt("accept") /\ AcceptMayStart
  /\ accepted < MaxClients
  /\ accepted' = accepted + 1
  /\ \/ /\ WithRoom = {} /\ created < MaxThreads
        /\ acceptor' = [at |-> "take", client |-> accepted', thread |-> None]
     \/ /\ WithRoom # {}
        /\ acceptor' = [at |-> "take", client |-> accepted',
                        thread |-> ClientThreads[Min(WithRoom)]]
  /\ UNCHANGED <<lists, fields, created, hungUp, worker, deleted, crashed>>

\* Mutant: a new thread is numbered as if it were in the list already.
TakeThread_FromOne ==
  /\ AcceptorAt("take")
  /\ LET fresh == acceptor.thread = None
         t == IF fresh THEN created + 1 ELSE acceptor.thread IN
       /\ created' = IF fresh THEN created + 1 ELSE created
       /\ Id' = IF fresh THEN [Id EXCEPT ![t] = Len(ClientThreads) + 1] ELSE Id
       /\ acceptor' = [at |-> "count", client |-> acceptor.client, thread |-> t,
                       fresh |-> fresh, count |-> ClientCount[t]]
       /\ crashed' = (t \in deleted)
  /\ UNCHANGED <<lists, ClientCount, ThreadID, accepted, hungUp, worker, deleted>>

\* Without a lock from here: a new thread object where none had room, and
\* ClientCount++, read now and written in the next step.
TakeThread ==
  /\ AcceptorAt("take")
  /\ LET fresh == acceptor.thread = None
         t == IF fresh THEN created + 1 ELSE acceptor.thread IN
       /\ created' = IF fresh THEN created + 1 ELSE created
       /\ Id' = IF fresh THEN [Id EXCEPT ![t] = Len(ClientThreads)] ELSE Id
       /\ acceptor' = [at |-> "count", client |-> acceptor.client, thread |-> t,
                       fresh |-> fresh, count |-> ClientCount[t]]
       /\ crashed' = (t \in deleted)
  /\ UNCHANGED <<lists, ClientCount, ThreadID, accepted, hungUp, worker, deleted>>

\* The store of ClientCount++ and the fields of the new client.
AssignThread ==
  /\ AcceptorAt("count")
  /\ LET t == acceptor.thread IN
       /\ ClientCount' = [ClientCount EXCEPT ![t] = acceptor.count + 1]
       /\ ThreadID' = [ThreadID EXCEPT ![acceptor.client] = Id[t]]
       /\ crashed' = (t \in deleted)
  /\ acceptor' = [acceptor EXCEPT !.at = "publish"]
  /\ UNCHANGED <<lists, Id, accepted, created, hungUp, worker, deleted>>

PublishClient ==
  /\ AcceptorAt("publish")
  /\ ClientList' = Append(ClientList, acceptor.client)
  /\ acceptor' = IF acceptor.fresh THEN [acceptor EXCEPT !.at = "start"] ELSE Listening
  /\ UNCHANGED <<ClientThreads, fields, accepted, created, hungUp, worker,
                 deleted, crashed>>

StartThread ==
  /\ AcceptorAt("start")
  /\ ClientThreads' = Append(ClientThreads, acceptor.thread)
  /\ worker' = [worker EXCEPT ![acceptor.thread] = Polling]
  /\ acceptor' = Listening
  /\ UNCHANGED <<ClientList, fields, accepted, created, hungUp, deleted, crashed>>
-----------------------------------------------------------------------------
(* Start, one round of a worker                                             *)

Mine(t) == {c \in Range(ClientList) : ThreadID[c] = Id[t]}

\* isActive: false from recv() on until the client is erased.
Active(c) == \A u \in ThreadObjs : worker[u].at = "erase" => worker[u].client # c

\* Mutant: the loop is left when select() finds nothing to read.
FindNone_NothingToRead(t) ==
  /\ worker[t] = Polling /\ WorkerMayRun /\ PassMayStart(t)
  /\ \A c \in Mine(t) : c \notin hungUp \/ ~Active(c)
  /\ worker' = [worker EXCEPT ![t] = [at |-> "end"]]
  /\ UNCHANGED <<lists, fields, accepted, created, hungUp, acceptor, deleted, crashed>>

\* No client: the thread leaves its loop, and will call RemoveThread.
FindNone(t) ==
  /\ worker[t] = Polling /\ WorkerMayRun /\ PassMayStart(t)
  /\ \A c \in Mine(t) : ~Active(c)
  /\ worker' = [worker EXCEPT ![t] = [at |-> "end"]]
  /\ UNCHANGED <<lists, fields, accepted, created, hungUp, acceptor, deleted, crashed>>

\* select() finds some of them readable: of interest here, at end of file.
\* The set is kept while the round lasts.
Poll(t) ==
  /\ worker[t] = Polling /\ WorkerMayRun /\ PassMayStart(t)
  /\ LET fds == {c \in Mine(t) \cap hungUp : Active(c)} IN
       /\ fds # {}
       /\ worker' = [worker EXCEPT ![t] = [at |-> "loop", fds |-> fds, i |-> 1]]
  /\ UNCHANGED <<lists, fields, accepted, created, hungUp, acceptor, deleted, crashed>>

\* The loop over ClientList goes on at index i, whatever was erased before.
Ahead(t) == {j \in DOMAIN ClientList : /\ j >= worker[t].i
                                       /\ ClientList[j] \in worker[t].fds}

\* recv() returns 0 for the next client of the set.
ReceiveEnd(t) ==
  /\ worker[t].at = "loop" /\ WorkerMayRun
  /\ Ahead(t) # {}
  /\ LET j == Min(Ahead(t)) IN
       worker' = [worker EXCEPT ![t] =
                    [at |-> "erase", fds |-> worker[t].fds, i |-> j + 1,
                     client |-> ClientList[j]]]
  /\ UNCHANGED <<lists, fields, accepted, created, hungUp, acceptor, deleted, crashed>>

EndRound(t) ==
  /\ worker[t].at = "loop" /\ WorkerMayRun
  /\ Ahead(t) = {}
  /\ worker' = [worker EXCEPT ![t] = Polling]
  /\ UNCHANGED <<lists, fields, accepted, created, hungUp, acceptor, deleted, crashed>>
-----------------------------------------------------------------------------
(* DisconnectClient, called by worker t without a lock                      *)

\* The loops that erase from a vector stop at the first element that fits.
Erased(seq, x) == IF x \notin Range(seq) THEN seq
                  ELSE RemoveAt(seq, Min({i \in DOMAIN seq : seq[i] = x}))

EraseClient(t) ==
  /\ worker[t].at = "erase" /\ WorkerMayRun
  /\ ClientList' = Erased(ClientList, worker[t].client)
  /\ worker' = [worker EXCEPT ![t].at = "pick"]
  /\ UNCHANGED <<ClientThreads, fields, accepted, created, hungUp, acceptor,
                 deleted, crashed>>

\* The client to move: the first one of the last thread, or, when that has
\* none, the last one of the list.
OnLast == {j \in DOMAIN ClientList : ThreadID[ClientList[j]] + 1 = Len(ClientThreads)}
ToMove == IF ClientList = <<>> THEN None
          ELSE IF OnLast = {} THEN Last(ClientList)
          ELSE ClientList[Min(OnLast)]

PickOther(t) ==
  /\ worker[t].at = "pick" /\ WorkerMayRun
  /\ LET onLast == ThreadID[worker[t].client] + 1 = Len(ClientThreads) IN
       worker' = [worker EXCEPT ![t] =
                    [at |-> "settle", fds |-> worker[t].fds, i |-> worker[t].i,
                     client |-> worker[t].client,
                     other |-> IF onLast THEN None ELSE ToMove]]
  /\ UNCHANGED <<lists, fields, accepted, created, hungUp, acceptor, deleted, crashed>>

\* Under the write lock of ClientThreads: the thread that has a client less
\* is the mover's, or, with nobody to move, that of the one who left.  The
\* numbers are read now.  A dword: one below zero is its largest value, for
\* which the largest number that TLC knows stands.
Wrapped == 2147483647
LoseClient(i) ==
  \/ /\ i \in DOMAIN ClientThreads
     /\ ClientCount' = [ClientCount EXCEPT ![ClientThreads[i]] =
                          IF @ = 0 THEN Wrapped ELSE @ - 1]
     /\ UNCHANGED crashed
  \/ /\ i \notin DOMAIN ClientThreads
     /\ crashed' = TRUE
     /\ UNCHANGED ClientCount

\* Mutant: the number of the thread is read after the move.
Settle_MoveFirst(t) ==
  /\ worker[t].at = "settle" /\ WorkerMayRun
  /\ LET c == worker[t].client
         o == worker[t].other IN
       /\ LoseClient(ThreadID[c] + 1)
       /\ ThreadID' = IF o = None THEN ThreadID ELSE [ThreadID EXCEPT ![o] = ThreadID[c]]
  /\ worker' = [worker EXCEPT ![t] =
                  [at |-> "loop", fds |-> worker[t].fds, i |-> worker[t].i]]
  /\ UNCHANGED <<lists, Id, accepted, created, hungUp, acceptor, deleted>>

Settle(t) ==
  /\ worker[t].at = "settle" /\ WorkerMayRun
  /\ LET c == worker[t].client
         o == worker[t].other IN
       /\ LoseClient(ThreadID[IF o = None THEN c ELSE o] + 1)
       /\ ThreadID' = IF o = None THEN ThreadID ELSE [ThreadID EXCEPT ![o] = ThreadID[c]]
  /\ worker' = [worker EXCEPT ![t] =
                  [at |-> "loop", fds |-> worker[t].fds, i |-> worker[t].i]]
  /\ UNCHANGED <<lists, Id, accepted, created, hungUp, acceptor, deleted>>

\* RemoveThread: the threads behind this one and their clients move up.
Rest(t) == Erased(ClientThreads, t)
NewNumber(t, old) == LET those == {i \in DOMAIN Rest(t) : Id[Rest(t)[i]] = old} IN
                       IF those = {} THEN old ELSE Min(those) - 1
Delete(t) == /\ deleted' = deleted \cup {t}
             /\ worker' = [worker EXCEPT ![t] = Off]

RemoveThread(t) ==
  /\ worker[t].at = "end" /\ WorkerMayRun
  /\ ClientThreads' = Rest(t)
  /\ ThreadID' = [c \in Clients |-> IF c \in Range(ClientList)
                                      THEN NewNumber(t, ThreadID[c]) ELSE ThreadID[c]]
  /\ Id' = [u \in ThreadObjs |-> IF u \in Range(Rest(t)) THEN NewNumber(t, Id[u]) ELSE Id[u]]
  /\ Delete(t)
  /\ UNCHANGED <<ClientList, ClientCount, accepted, created, hungUp, acceptor, crashed>>
-----------------------------------------------------------------------------
\* The peer of a client closes the connection.
HangUp(c) == /\ ~crashed /\ c \in Range(ClientList) \ hungUp
             /\ hungUp' = hungUp \cup {c}
             /\ UNCHANGED <<lists, fields, accepted, created, acceptor, worker,
                            deleted, crashed>>

AcceptorStep == \/ TakeThread \/ AssignThread \/ PublishClient \/ StartThread

WorkerStep(t) == \/ FindNone(t) \/ Poll(t) \/ ReceiveEnd(t) \/ EndRound(t)
                 \/ EraseClient(t) \/ PickOther(t) \/ Settle(t) \/ RemoveThread(t)

Next == \/ Accept \/ AcceptorStep
        \/ \E t \in ThreadObjs : WorkerStep(t)
        \/ \E c \in Clients : HangUp(c)

Spec == Init /\ [][Next]_vars

(* All threads keep running; clients come and leave when they like.  Polling *)
(* is strongly fair because a worker that polls every 10 ms does so again   *)
(* and again between the windows that Overlaps keeps shut.                  *)
Fairness == /\ WF_vars(AcceptorStep)
            /\ \A t \in ThreadObjs :
                 /\ WF_vars(WorkerStep(t))
                 /\ SF_vars(FindNone(t) \/ Poll(t))

FairSpec == Spec /\ Fairness
-----------------------------------------------------------------------------
(* Properties                                                               *)

TypeOK == /\ Range(ClientThreads) \subseteq ThreadObjs
          /\ Range(ClientList) \subseteq 1..accepted
          /\ Id \in [ThreadObjs -> Nat]
          /\ ClientCount \in [ThreadObjs -> 0..MaxClients]
          /\ ThreadID \in [Clients -> Nat]
          /\ accepted \in 0..MaxClients /\ created \in 0..MaxThreads
          /\ hungUp \subseteq 1..accepted
          /\ deleted \subseteq 1..created
          /\ crashed \in BOOLEAN

AtRest == acceptor = Listening /\ \A t \in ThreadObjs : ~InPass(t)

(* Between two operations a worker's ClientCount is the number of clients   *)
(* that it serves, its Id is its place in ClientThreads, and no client is   *)
(* without a worker: whoever left or was moved, and whatever thread ended.  *)
CountsExact ==
  AtRest => /\ \A i \in DOMAIN ClientThreads :
                 LET t == ClientThreads[i] IN
                   Id[t] = i - 1 /\ ClientCount[t] = Cardinality(Mine(t))
            /\ \A c \in Range(ClientList) : ThreadID[c] < Len(ClientThreads)

(* No thread object is used after its deletion, and no element beyond the   *)
(* end of ClientThreads.                                                    *)
NothingStaleUsed == ~crashed

(* At no time are two workers about to disconnect the same client, also     *)
(* when it is being moved between them (CTitanServer.cpp:229).              *)
OneWorkerPerClient ==
  \A t, u \in ThreadObjs :
    worker[t].at = "erase" /\ worker[u].at = "erase" /\ t # u
      => worker[t].client # worker[u].client

(* A client that closes its connection is noticed, unless the server stops: *)
(* some worker serves it ("added to thread!", CTitanServer.cpp:170).        *)
EveryClientServed ==
  \A c \in Clients : c \in hungUp ~> c \notin Range(ClientList) \/ crashed

=============================================================================
