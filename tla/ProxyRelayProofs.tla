-------------------------- MODULE ProxyRelayProofs --------------------------
(***************************************************************************)
(* Two results about the Fiesta proxy, for any number of connections and    *)
(* any addresses, and one about the streams it is on, and those of the      *)
(* servers, for any table of keys and any sizes.                            *)
(*                                                                         *)
(* No thread is in a connection that has been deleted: ProxyInv.            *)
(*                                                                         *)
(* A connection leads to where its client was sent: AddressInv.  While an   *)
(* address is on its way - the ip written and the port not yet (a teller),  *)
(* told and not used, copied and not connected to (pending) - all its       *)
(* copies agree, and no second address is on its way to a server of the     *)
(* same type.                                                               *)
(*                                                                         *)
(* Packets are handled as they were sent and in order: FrameInv.  What a    *)
(* loop holds and what is on its way to it are, together, the codes of the  *)
(* packets that it has not passed on (Says), each made with the sender's    *)
(* place in the key table at that packet, which is where the receiver's is. *)
(***************************************************************************)
EXTENDS ProxyRelay, PacketFraming, SequenceTheorems, TLAPS

\* No connection has the index 0, which stands for none.
LEMMA ZeroIsNoConn == 0 \notin Conns
  BY MaxConnsNat DEF Conns

\* An unused connection has the type of one.
LEMMA UnusedType == Unused \in Connection
  BY DEF Unused, Connection, Anywhere, Redirected, Login, None

\* The first state of the proxy.
LEMMA InitInv == Init => ProxyInv
  <1> SUFFICES ASSUME Init PROVE ProxyInv
    OBVIOUS
  <1>1. TypeOK
    <2>1. conn \in [Conns -> Connection]
      BY UnusedType DEF Init
    <2>2. /\ nextIP \in [Redirected -> Anywhere] /\ nextPort \in [Redirected -> Anywhere]
          /\ told \in [Redirected -> Anywhere]
      BY DEF Init, Anywhere
    <2>3. clientList \in Seq(Conns) /\ starting \in Conns \cup {0} /\ crashed \in BOOLEAN
      BY EmptySeq DEF Init
    <2> QED BY <2>1, <2>2, <2>3 DEF TypeOK
  <1>2. \A c \in Conns : /\ ~conn[c].freed /\ ~conn[c].finished
                         /\ conn[c].srv = "none"
    BY DEF Init, Unused
  <1> QED BY <1>1, <1>2 DEF Init, ProxyInv, NobodyInFreed, LeftByBoth, Started

\* The listener's steps.
LEMMA AcceptKeeps ==
  ASSUME ProxyInv, NEW c \in Conns, NEW t \in Redirected \cup {Login}, Accept(c, t)
  PROVE  ProxyInv'
  <1> USE ZeroIsNoConn DEF ProxyInv, TypeOK, Accept
  <1>1. /\ \A n \in Conns \ {c} : conn'[n] = conn[n]
        /\ conn'[c] \in Connection /\ conn'[c].srv = "none"
        /\ conn'[c].srvType # None /\ ~conn'[c].finished /\ ~conn'[c].freed
    BY DEF Connection, Unused, Anywhere, Redirected, Login, None
  <1>2. TypeOK'
    <2>1. conn' \in [Conns -> Connection]
      BY <1>1
    <2>2. told' \in [Redirected -> Anywhere]
      BY DEF Anywhere
    <2> QED BY <2>1, <2>2
  <1>3. NobodyInFreed' /\ LeftByBoth' /\ Started'
    BY <1>1 DEF NobodyInFreed, LeftByBoth, Started
  <1> QED BY <1>2, <1>3

\* The client thread starts the second one.
LEMMA StartSrvKeeps == ProxyInv /\ StartSrv => ProxyInv'
  <1> SUFFICES ASSUME ProxyInv, StartSrv PROVE ProxyInv'
    OBVIOUS
  <1> USE ZeroIsNoConn DEF ProxyInv, TypeOK, StartSrv
  <1> DEFINE r == [conn[starting] EXCEPT !.srv = "connect"]
  <1>0. starting \in Conns /\ conn' = [conn EXCEPT ![starting] = r]
    OBVIOUS
  <1>1. conn' \in [Conns -> Connection]
    <2>1. conn[starting] \in Connection
      BY <1>0
    <2>2. r \in Connection
      BY <2>1 DEF Connection
    <2> HIDE DEF r
    <2> QED BY <1>0, <2>2
  <1>2. clientList' \in Seq(Conns)
    OBVIOUS
  <1>3. NobodyInFreed' /\ LeftByBoth' /\ Started'
    BY <1>0 DEF NobodyInFreed, LeftByBoth, Started, Connection
  <1> QED BY <1>1, <1>2, <1>3 DEF addressVars

\* The listener deletes the marked connections.
LEMMA CheckClientListKeeps == ProxyInv /\ CheckClientList => ProxyInv'
  <1> SUFFICES ASSUME ProxyInv, CheckClientList PROVE ProxyInv'
    OBVIOUS
  <1>1. PICK i \in DOMAIN clientList :
          /\ conn[clientList[i]].finished
          /\ conn' = [conn EXCEPT ![clientList[i]] = Deleted(@)]
          /\ clientList' = RemoveAt(clientList, i)
    BY DEF CheckClientList
  <1> DEFINE c == clientList[i]
  <1>2. c \in Conns
    BY DEF ProxyInv, TypeOK
  <1>3. Deleted(conn[c]) \in Connection
    BY <1>2 DEF ProxyInv, TypeOK, Deleted, Unused, Connection, Anywhere, None
  <1>4. conn' \in [Conns -> Connection]
    BY <1>1, <1>2, <1>3 DEF ProxyInv, TypeOK
  <1>5. clientList' \in Seq(Conns)
    <2>1. SubSeq(clientList, 1, i - 1) \in Seq(Conns) /\ SubSeq(clientList, i + 1, Len(clientList)) \in Seq(Conns)
      BY SubSeqProperties DEF ProxyInv, TypeOK
    <2> QED BY <1>1, <2>1, ConcatProperties DEF RemoveAt
  <1>6. TypeOK'
    BY <1>4, <1>5 DEF ProxyInv, TypeOK, CheckClientList, addressVars
  <1>7. NobodyInFreed' /\ LeftByBoth' /\ Started'
    BY <1>1, <1>2 DEF ProxyInv, TypeOK, NobodyInFreed, LeftByBoth, Started, Deleted, Unused, Connection, CheckClientList
  <1> QED BY <1>6, <1>7 DEF ProxyInv

\* A step of one of the two threads of a connection.
LEMMA ThreadStepKeeps ==
  ASSUME ProxyInv, NEW c \in Conns, NEW r \in Connection,
         conn' = [conn EXCEPT ![c] = r],
         UNCHANGED <<clientList, starting, crashed>>,
         nextIP' \in [Redirected -> Anywhere], nextPort' \in [Redirected -> Anywhere],
         told' \in [Redirected -> Anywhere],
         r.srvType = conn[c].srvType, conn[c].srv = "none" => r.srv = "none",
         r.finished \/ r.freed => r.cli = "done" /\ r.srv = "done"
  PROVE  ProxyInv'
  <1>1. TypeOK'
    BY DEF ProxyInv, TypeOK
  <1>2. \A n \in Conns : conn'[n] = IF n = c THEN r ELSE conn[n]
    BY DEF ProxyInv, TypeOK
  <1>3. NobodyInFreed' /\ LeftByBoth'
    BY <1>2 DEF ProxyInv, NobodyInFreed, LeftByBoth
  <1>4. Started'
    BY <1>2, ZeroIsNoConn DEF ProxyInv, TypeOK, Started
  <1> QED BY <1>1, <1>3, <1>4 DEF ProxyInv

\* The steps of the thread that reads from the server.
LEMMA SrvStepKeeps ==
  ASSUME ProxyInv, NEW c \in Conns,
         \/ Connect(c) \/ ConnectFails(c) \/ (\E a \in Addresses : Redirect(c, a)) \/ Tell(c)
         \/ SrvLoopEnds(c) \/ SrvMark(c) \/ SrvJoined(c) \/ SrvGivesUp(c)
  PROVE  ProxyInv'
  <1> USE DEF InSrv, Step, addressVars
  <1>a. /\ conn \in [Conns -> Connection] /\ conn[c] \in Connection
        /\ nextIP \in [Redirected -> Anywhere] /\ nextPort \in [Redirected -> Anywhere]
        /\ told \in [Redirected -> Anywhere]
        /\ conn[c].finished \/ conn[c].freed => conn[c].cli = "done" /\ conn[c].srv = "done"
        /\ conn[c].srv # "none" => conn[c].srvType # None
    BY DEF ProxyInv, TypeOK, NobodyInFreed, LeftByBoth, Started
  <1>1. CASE Connect(c)
    <2> DEFINE got == IF conn[c].srvType = Login THEN <<None, None>>
                                             ELSE <<nextIP[conn[c].srvType], conn[c].port>>
               r == [conn[c] EXCEPT !.srv = "recv", !.got = got]
    <2>1. conn' = [conn EXCEPT ![c] = r] /\ conn[c].srv = "connect"
      BY <1>1, <1>a DEF Connect
    <2>2. got \in Anywhere \X Anywhere
      <3>1. CASE conn[c].srvType = Login
        BY <3>1 DEF Anywhere
      <3>2. CASE conn[c].srvType # Login
        <4>1. conn[c].srvType \in Redirected
          BY <1>a, <2>1, <3>2 DEF Connection
        <4>2. nextIP[conn[c].srvType] \in Anywhere /\ conn[c].port \in Anywhere
          BY <4>1, <1>a DEF Connection
        <4> QED BY <4>2, <3>2
      <3> QED BY <3>1, <3>2
    <2> HIDE DEF got
    <2>3. r \in Connection
      BY <1>a, <2>2 DEF Connection
    <2>4. r.srvType = conn[c].srvType /\ r.srv = "recv" /\ r.finished = conn[c].finished /\ r.freed = conn[c].freed
      BY <1>a DEF Connection
    <2> HIDE DEF r
    <2> QED BY <1>1, <1>a, <2>1, <2>3, <2>4, ThreadStepKeeps DEF Connect
  <1>2. CASE ConnectFails(c)
    <2> DEFINE r == [conn[c] EXCEPT !.srv = "joinFailed", !.isRunning = FALSE]
    <2>1. conn' = [conn EXCEPT ![c] = r] /\ conn[c].srv = "connect"
      BY <1>2, <1>a DEF ConnectFails
    <2>2. r \in Connection /\ r.srvType = conn[c].srvType /\ r.finished = conn[c].finished /\ r.freed = conn[c].freed
      BY <1>a DEF Connection
    <2> HIDE DEF r
    <2> QED BY <1>2, <1>a, <2>1, <2>2, ThreadStepKeeps DEF ConnectFails
  <1>3. ASSUME NEW a \in Addresses, Redirect(c, a) PROVE ProxyInv'
    <2> DEFINE r == [conn[c] EXCEPT !.srv = "tell", !.packet = a]
    <2>1. conn' = [conn EXCEPT ![c] = r] /\ conn[c].srv = "recv"
      BY <1>3, <1>a DEF Redirect
    <2>2. r \in Connection /\ r.srvType = conn[c].srvType /\ r.finished = conn[c].finished /\ r.freed = conn[c].freed
      BY <1>a DEF Connection, Anywhere
    <2>3. nextIP' \in [Redirected -> Anywhere]
      BY <1>3, <1>a DEF Redirect, Anywhere
    <2> HIDE DEF r
    <2> QED BY <1>3, <1>a, <2>1, <2>2, <2>3, ThreadStepKeeps DEF Redirect
  <1>4. CASE Tell(c)
    <2> DEFINE r == [conn[c] EXCEPT !.srv = "recv", !.packet = None]
    <2>1. conn' = [conn EXCEPT ![c] = r] /\ conn[c].srv = "tell"
      BY <1>4, <1>a DEF Tell
    <2>2. r \in Connection /\ r.srvType = conn[c].srvType /\ r.finished = conn[c].finished /\ r.freed = conn[c].freed
      BY <1>a DEF Connection, Anywhere
    <2>3. nextPort' \in [Redirected -> Anywhere] /\ told' \in [Redirected -> Anywhere]
      BY <1>4, <1>a DEF Tell, Anywhere, Connection
    <2> HIDE DEF r
    <2> QED BY <1>4, <1>a, <2>1, <2>2, <2>3, ThreadStepKeeps DEF Tell
  <1>5. CASE SrvLoopEnds(c)
    <2> DEFINE r == [conn[c] EXCEPT !.srv = IF conn[c].isRunning THEN "mark" ELSE "done"]
    <2>1. conn' = [conn EXCEPT ![c] = r] /\ conn[c].srv = "recv"
      BY <1>5, <1>a DEF SrvLoopEnds
    <2>2. r \in Connection /\ r.srvType = conn[c].srvType /\ r.finished = conn[c].finished /\ r.freed = conn[c].freed
      BY <1>5, <1>a DEF Connection, SrvLoopEnds
    <2> HIDE DEF r
    <2> QED BY <1>5, <1>a, <2>1, <2>2, ThreadStepKeeps DEF SrvLoopEnds
  <1>6. CASE SrvMark(c)
    <2> DEFINE r == [conn[c] EXCEPT !.srv = "join", !.isRunning = FALSE]
    <2>1. conn' = [conn EXCEPT ![c] = r] /\ conn[c].srv = "mark"
      BY <1>6, <1>a DEF SrvMark
    <2>2. r \in Connection /\ r.srvType = conn[c].srvType /\ r.finished = conn[c].finished /\ r.freed = conn[c].freed
      BY <1>6, <1>a DEF Connection, SrvMark
    <2> HIDE DEF r
    <2> QED BY <1>6, <1>a, <2>1, <2>2, ThreadStepKeeps DEF SrvMark
  <1>7. CASE SrvJoined(c)
    <2> DEFINE r == [conn[c] EXCEPT !.srv = "done", !.finished = TRUE]
    <2>1. conn' = [conn EXCEPT ![c] = r] /\ conn[c].srv = "join"
      BY <1>7, <1>a DEF SrvJoined
    <2>2. r \in Connection /\ r.srvType = conn[c].srvType /\ r.cli = "done" /\ r.srv = "done"
      BY <1>7, <1>a DEF Connection, SrvJoined
    <2> HIDE DEF r
    <2> QED BY <1>7, <1>a, <2>1, <2>2, ThreadStepKeeps DEF SrvJoined
  <1>8. CASE SrvGivesUp(c)
    <2> DEFINE r == [conn[c] EXCEPT !.srv = "done"]
    <2>1. conn' = [conn EXCEPT ![c] = r] /\ conn[c].srv = "joinFailed"
      BY <1>8, <1>a DEF SrvGivesUp
    <2>2. r \in Connection /\ r.srvType = conn[c].srvType /\ r.finished = conn[c].finished /\ r.freed = conn[c].freed
      BY <1>8, <1>a DEF Connection, SrvGivesUp
    <2> HIDE DEF r
    <2> QED BY <1>8, <1>a, <2>1, <2>2, ThreadStepKeeps DEF SrvGivesUp
  <1> QED BY <1>1, <1>2, <1>3, <1>4, <1>5, <1>6, <1>7, <1>8

\* The steps of the thread that reads from the game client.
LEMMA CliStepKeeps ==
  ASSUME ProxyInv, NEW c \in Conns,
         CliLoopEnds(c) \/ CliMark(c) \/ CliJoined(c) \/ CliJoinsNothing(c)
  PROVE  ProxyInv'
  <1> USE DEF InCli, Step, addressVars
  <1>a. /\ conn \in [Conns -> Connection] /\ conn[c] \in Connection
        /\ nextIP \in [Redirected -> Anywhere] /\ nextPort \in [Redirected -> Anywhere]
        /\ told \in [Redirected -> Anywhere]
        /\ conn[c].finished \/ conn[c].freed => conn[c].cli = "done" /\ conn[c].srv = "done"
    BY DEF ProxyInv, TypeOK, NobodyInFreed, LeftByBoth
  <1>1. CASE CliLoopEnds(c)
    <2> DEFINE r == [conn[c] EXCEPT !.cli = IF conn[c].isRunning THEN "mark" ELSE "done"]
    <2>1. conn' = [conn EXCEPT ![c] = r] /\ conn[c].cli = "recv"
      BY <1>1, <1>a DEF CliLoopEnds
    <2>2. r \in Connection /\ r.srvType = conn[c].srvType /\ r.srv = conn[c].srv /\ r.finished = conn[c].finished /\ r.freed = conn[c].freed
      BY <1>1, <1>a DEF Connection, CliLoopEnds
    <2> HIDE DEF r
    <2> QED BY <1>1, <1>a, <2>1, <2>2, ThreadStepKeeps DEF CliLoopEnds
  <1>2. CASE CliMark(c)
    <2> DEFINE r == [conn[c] EXCEPT !.cli = "join", !.isRunning = FALSE]
    <2>1. conn' = [conn EXCEPT ![c] = r] /\ conn[c].cli = "mark"
      BY <1>2, <1>a DEF CliMark
    <2>2. r \in Connection /\ r.srvType = conn[c].srvType /\ r.srv = conn[c].srv /\ r.finished = conn[c].finished /\ r.freed = conn[c].freed
      BY <1>2, <1>a DEF Connection, CliMark
    <2> HIDE DEF r
    <2> QED BY <1>2, <1>a, <2>1, <2>2, ThreadStepKeeps DEF CliMark
  <1>3. CASE CliJoined(c)
    <2> DEFINE r == [conn[c] EXCEPT !.cli = "done", !.finished = TRUE]
    <2>1. conn' = [conn EXCEPT ![c] = r] /\ conn[c].cli = "join"
      BY <1>3, <1>a DEF CliJoined
    <2>2. r \in Connection /\ r.srvType = conn[c].srvType /\ r.srv = conn[c].srv /\ r.cli = "done" /\ r.srv = "done"
      BY <1>3, <1>a DEF Connection, CliJoined
    <2> HIDE DEF r
    <2> QED BY <1>3, <1>a, <2>1, <2>2, ThreadStepKeeps DEF CliJoined
  <1>4. CASE CliJoinsNothing(c)
    BY <1>4 DEF CliJoinsNothing, ProxyInv, TypeOK, NobodyInFreed, LeftByBoth, Started
  <1> QED BY <1>1, <1>2, <1>3, <1>4

\* ProxyInv in every state.
LEMMA Invariant == Spec => []ProxyInv
  <1>1. ProxyInv /\ [Next]_vars => ProxyInv'
    <2> SUFFICES ASSUME ProxyInv, [Next]_vars PROVE ProxyInv'
      OBVIOUS
    <2>1. CASE UNCHANGED vars
      BY <2>1 DEF vars, ProxyInv, TypeOK, NobodyInFreed, LeftByBoth, Started
    <2>2. ASSUME NEW c \in Conns, NEW t \in Redirected \cup {Login}, Accept(c, t) PROVE ProxyInv'
      BY <2>2, AcceptKeeps
    <2>3. CASE StartSrv \/ CheckClientList
      BY <2>3, StartSrvKeeps, CheckClientListKeeps
    <2>4. ASSUME NEW c \in Conns,
                 Threads(c) \/ SrvLoopEnds(c) \/ CliLoopEnds(c) \/ \E a \in Addresses : Redirect(c, a)
          PROVE  ProxyInv'
      BY <2>4, SrvStepKeeps, CliStepKeeps DEF Threads
    <2> QED BY <2>1, <2>2, <2>3, <2>4 DEF Next
  <1> QED BY InitInv, <1>1, PTL DEF Spec

\* The fields of the connections and of the listener have their types, for any
\* number of connections (CListener.hpp:5).
THEOREM ProxyTypes == Spec => []TypeOK
  BY Invariant, PTL DEF ProxyInv

\* CheckClientList deletes no connection while one of its threads is in it
\* (CListener.hpp:364).
THEOREM FreedAreEmpty == Spec => []NobodyInFreed
  BY Invariant, PTL DEF ProxyInv
-----------------------------------------------------------------------------
(* Addresses                                                                *)

\* A connection to a server of type t that has not reached it; one whose server
\* is about to send its client to a server of type t.
Pending(c, t) == conn[c].srvType = t /\ conn[c].srv \in {"none", "connect"}
Tells(c, t) == conn[c].srv = "tell" /\ Leads(conn[c].srvType) = t

ToldIsNext ==
  \A t \in Redirected : told[t] # None => nextIP[t] = told[t] /\ nextPort[t] = told[t]
PendingIsNext ==
  \A c \in Conns, t \in Redirected :
    Pending(c, t) => conn[c].want = nextIP[t] /\ conn[c].port = nextIP[t]
TellerIsNext ==
  \A c \in Conns, t \in Redirected :
    Tells(c, t) => conn[c].packet = nextIP[t] /\ told[t] = None
TellerAlone ==
  \A c, d \in Conns, t \in Redirected :
    Tells(c, t) => ~Pending(d, t) /\ (Tells(d, t) => c = d)
WantsNothing == \A c \in Conns : conn[c].srvType = Login => conn[c].want = None
GotWanted ==
  \A c \in Conns : conn[c].got # <<>> => conn[c].got = <<conn[c].want, conn[c].want>>

AddressInv == /\ ToldIsNext /\ PendingIsNext /\ TellerIsNext /\ TellerAlone
              /\ WantsNothing /\ GotWanted

\* Nobody has been sent anywhere at first.
LEMMA AddressInit == Init => AddressInv
  BY DEF Init, AddressInv, ToldIsNext, PendingIsNext, TellerIsNext, TellerAlone, WantsNothing,
         GotWanted, Pending, Tells, Unused, Redirected, None, Login

\* The listener takes a connection and the pending address with it.
LEMMA AcceptKeepsAddresses ==
  ASSUME ProxyInv, AddressInv, NEW c \in Conns, NEW t \in Redirected \cup {Login}, Accept(c, t)
  PROVE  AddressInv'
  <1>1. /\ \A n \in Conns \ {c} : conn'[n] = conn[n]
        /\ conn'[c].srvType = t /\ conn'[c].srv = "none" /\ conn'[c].got = <<>>
        /\ conn'[c].want = IF t = Login THEN None ELSE told[t]
        /\ conn'[c].port = IF t = Login THEN None ELSE nextPort[t]
    BY DEF Accept, ProxyInv, TypeOK, Unused
  <1>2. /\ nextIP' = nextIP /\ nextPort' = nextPort
        /\ told' = IF t = Login THEN told ELSE [told EXCEPT ![t] = None]
        /\ t # Login => t \in Redirected /\ told[t] # None
        /\ told \in [Redirected -> Anywhere] /\ Login \notin Redirected
    BY DEF Accept, ProxyInv, TypeOK, Login, Redirected
  <1>3. t # Login => \A d \in Conns : ~Tells(d, t)
    BY <1>2 DEF AddressInv, TellerIsNext
  <1>4. ToldIsNext'
    BY <1>2 DEF AddressInv, ToldIsNext
  <1>5. PendingIsNext'
    BY <1>1, <1>2 DEF AddressInv, ToldIsNext, PendingIsNext, Pending
  <1>6. TellerIsNext'
    BY <1>1, <1>2 DEF AddressInv, TellerIsNext, Tells
  <1>7. TellerAlone'
    BY <1>1, <1>2, <1>3 DEF AddressInv, TellerAlone, Tells, Pending
  <1>8. WantsNothing' /\ GotWanted'
    BY <1>1, <1>2 DEF AddressInv, WantsNothing, GotWanted
  <1> QED BY <1>4, <1>5, <1>6, <1>7, <1>8 DEF AddressInv

\* A step of a thread that leaves the addresses as they are.
LEMMA ThreadStepKeepsAddresses ==
  ASSUME ProxyInv, AddressInv, NEW c \in Conns, NEW r \in Connection,
         conn' = [conn EXCEPT ![c] = r], UNCHANGED <<nextIP, nextPort, told>>,
         r.srvType = conn[c].srvType, r.want = conn[c].want,
         r.port = conn[c].port, r.packet = conn[c].packet,
         r.got # <<>> => r.got = <<r.want, r.want>>,
         r.srv = "tell" => conn[c].srv = "tell",
         r.srv \in {"none", "connect"} => conn[c].srv \in {"none", "connect"}
  PROVE  AddressInv'
  <1>1. \A n \in Conns : conn'[n] = IF n = c THEN r ELSE conn[n]
    BY DEF ProxyInv, TypeOK
  <1>2. \A n \in Conns, t \in Redirected :
          /\ Pending(n, t)' => Pending(n, t)
          /\ Tells(n, t)' => Tells(n, t)
          /\ conn'[n].want = conn[n].want /\ conn'[n].port = conn[n].port
          /\ conn'[n].packet = conn[n].packet /\ conn'[n].srvType = conn[n].srvType
    BY <1>1 DEF Pending, Tells
  <1>3. ToldIsNext' /\ PendingIsNext' /\ TellerIsNext'
    BY <1>2 DEF AddressInv, ToldIsNext, PendingIsNext, TellerIsNext
  <1>4. TellerAlone'
    BY <1>2 DEF AddressInv, TellerAlone
  <1>5. WantsNothing' /\ GotWanted'
    BY <1>1 DEF AddressInv, WantsNothing, GotWanted
  <1> QED BY <1>3, <1>4, <1>5 DEF AddressInv

\* Deleting connections leaves the addresses alone.
LEMMA CheckClientListKeepsAddresses ==
  ProxyInv /\ AddressInv /\ CheckClientList => AddressInv'
  <1> SUFFICES ASSUME ProxyInv, AddressInv, CheckClientList PROVE AddressInv'
    OBVIOUS
  <1>1. PICK i \in DOMAIN clientList :
          /\ conn[clientList[i]].finished
          /\ conn' = [conn EXCEPT ![clientList[i]] = Deleted(@)]
    BY DEF CheckClientList
  <1> DEFINE c == clientList[i]
  <1>2. c \in Conns
    BY DEF ProxyInv, TypeOK
  <1>3. /\ \A n \in Conns : conn'[n] = IF n = c THEN Deleted(conn[c]) ELSE conn[n]
        /\ UNCHANGED <<nextIP, nextPort, told>> /\ conn[c].srv = "done"
    BY <1>1, <1>2 DEF ProxyInv, TypeOK, LeftByBoth, CheckClientList, addressVars
  <1> HIDE DEF c
  <1>4. /\ Deleted(conn[c]).srv = "done" /\ Deleted(conn[c]).got = <<>>
        /\ Deleted(conn[c]).want = None
    BY <1>3 DEF Deleted, Unused
  <1>5. \A n \in Conns, t \in Redirected :
          /\ Pending(n, t)' => n # c /\ Pending(n, t)
          /\ Tells(n, t)' => n # c /\ Tells(n, t)
    BY <1>3, <1>4 DEF Pending, Tells
  <1>6. ToldIsNext' /\ PendingIsNext' /\ TellerIsNext'
    BY <1>3, <1>5 DEF AddressInv, ToldIsNext, PendingIsNext, TellerIsNext
  <1>7. TellerAlone'
    BY <1>5 DEF AddressInv, TellerAlone
  <1>8. WantsNothing' /\ GotWanted'
    BY <1>3, <1>4 DEF AddressInv, WantsNothing, GotWanted
  <1> QED BY <1>6, <1>7, <1>8 DEF AddressInv

\* SetWorldIP, SetGameIP: nothing was under way to a server of this type.
LEMMA RedirectKeepsAddresses ==
  ASSUME ProxyInv, AddressInv, NEW c \in Conns, NEW a \in Addresses, Redirect(c, a)
  PROVE  AddressInv'
  <1> DEFINE t0 == Leads(conn[c].srvType)
             r == [conn[c] EXCEPT !.srv = "tell", !.packet = a]
  <1>1. /\ conn[c] \in Connection /\ conn[c].srv = "recv" /\ t0 \in Redirected
        /\ conn' = [conn EXCEPT ![c] = r]
        /\ nextIP' = [nextIP EXCEPT ![t0] = a] /\ UNCHANGED <<nextPort, told>>
        /\ nextIP \in [Redirected -> Anywhere]
    BY DEF Redirect, InSrv, Step, ProxyInv, TypeOK, Leads, Redirected
  <1>2. /\ r.srv = "tell" /\ r.packet = a /\ r.srvType = conn[c].srvType
        /\ r.want = conn[c].want /\ r.got = conn[c].got
    BY <1>1 DEF Connection
  <1>3. \A n \in Conns : conn'[n] = IF n = c THEN r ELSE conn[n]
    BY <1>1 DEF ProxyInv, TypeOK
  <1>4. told[t0] = None /\ \A d \in Conns : ~Pending(d, t0) /\ ~Tells(d, t0)
    <2>1. \A d \in Conns : conn[d].srv = "tell" => d \in Used
      BY DEF ProxyInv, Started, Used
    <2>2. \A d \in Conns : conn[d].srvType = t0 => d \in Used
      BY DEF Used, Leads, None
    <2>3. Settled(t0)
      BY DEF Redirect
    <2> QED BY <2>1, <2>2, <2>3 DEF Settled, Pending, Tells
  <1>5. \A t \in Redirected : t # t0 => nextIP'[t] = nextIP[t]
    BY <1>1
  <1>6. nextIP'[t0] = a
    BY <1>1
  <1>7. \A n \in Conns, t \in Redirected :
          /\ Pending(n, t)' => n # c /\ Pending(n, t)
          /\ Tells(n, t)' => (n = c /\ t = t0) \/ (n # c /\ Tells(n, t))
    BY <1>1, <1>2, <1>3 DEF Pending, Tells
  <1> HIDE DEF t0, r
  <1>8. ToldIsNext'
    BY <1>1, <1>4, <1>5 DEF AddressInv, ToldIsNext
  <1>9. PendingIsNext'
    BY <1>3, <1>4, <1>5, <1>7 DEF AddressInv, PendingIsNext
  <1>10. TellerIsNext'
    BY <1>1, <1>2, <1>3, <1>4, <1>5, <1>6, <1>7 DEF AddressInv, TellerIsNext
  <1>11. TellerAlone'
    BY <1>4, <1>7 DEF AddressInv, TellerAlone
  <1>12. WantsNothing' /\ GotWanted'
    BY <1>2, <1>3 DEF AddressInv, WantsNothing, GotWanted
  <1> QED BY <1>8, <1>9, <1>10, <1>11, <1>12 DEF AddressInv

\* SetWorldPort, SetGamePort: the port follows the ip that this thread has set.
LEMMA TellKeepsAddresses ==
  ASSUME ProxyInv, AddressInv, NEW c \in Conns, Tell(c)
  PROVE  AddressInv'
  <1> DEFINE t0 == Leads(conn[c].srvType)
             r == [conn[c] EXCEPT !.srv = "recv", !.packet = None]
  <1>1. /\ conn[c] \in Connection /\ conn[c].srv = "tell" /\ t0 \in Redirected
        /\ conn' = [conn EXCEPT ![c] = r]
        /\ nextPort' = [nextPort EXCEPT ![t0] = conn[c].packet]
        /\ told' = [told EXCEPT ![t0] = conn[c].packet] /\ nextIP' = nextIP
        /\ nextPort \in [Redirected -> Anywhere] /\ told \in [Redirected -> Anywhere]
    BY DEF Tell, InSrv, Step, ProxyInv, TypeOK, Leads, Redirected
  <1>2. /\ r.srv = "recv" /\ r.srvType = conn[c].srvType
        /\ r.want = conn[c].want /\ r.got = conn[c].got
    BY <1>1 DEF Connection
  <1>3. \A n \in Conns : conn'[n] = IF n = c THEN r ELSE conn[n]
    BY <1>1 DEF ProxyInv, TypeOK
  <1>4. /\ conn[c].packet = nextIP[t0]
        /\ \A d \in Conns : Tells(d, t0) => c = d
    BY <1>1 DEF AddressInv, TellerIsNext, TellerAlone, Tells
  <1>5. \A n \in Conns, t \in Redirected :
          /\ Pending(n, t)' => n # c /\ Pending(n, t)
          /\ Tells(n, t)' => n # c /\ Tells(n, t)
    BY <1>1, <1>2, <1>3 DEF Pending, Tells
  <1>6. \A t \in Redirected : t # t0 => told'[t] = told[t] /\ nextPort'[t] = nextPort[t]
    BY <1>1
  <1>7. told'[t0] = nextIP[t0] /\ nextPort'[t0] = nextIP[t0]
    BY <1>1, <1>4
  <1> HIDE DEF t0, r
  <1>8. ToldIsNext'
    BY <1>1, <1>6, <1>7 DEF AddressInv, ToldIsNext
  <1>9. PendingIsNext'
    BY <1>1, <1>3, <1>5 DEF AddressInv, PendingIsNext
  <1>10. TellerIsNext'
    BY <1>1, <1>3, <1>4, <1>5, <1>6 DEF AddressInv, TellerIsNext
  <1>11. TellerAlone'
    BY <1>5 DEF AddressInv, TellerAlone
  <1>12. WantsNothing' /\ GotWanted'
    BY <1>2, <1>3 DEF AddressInv, WantsNothing, GotWanted
  <1> QED BY <1>8, <1>9, <1>10, <1>11, <1>12 DEF AddressInv

\* connect(): the ip of the listener and the port of the connection agree.
LEMMA ConnectKeepsAddresses ==
  ASSUME ProxyInv, AddressInv, NEW c \in Conns, Connect(c)
  PROVE  AddressInv'
  <1> DEFINE got == IF conn[c].srvType = Login THEN <<None, None>>
                                           ELSE <<nextIP[conn[c].srvType], conn[c].port>>
             r == [conn[c] EXCEPT !.srv = "recv", !.got = got]
  <1>1. /\ conn[c] \in Connection /\ conn[c].srv = "connect"
        /\ conn' = [conn EXCEPT ![c] = r] /\ UNCHANGED <<nextIP, nextPort, told>>
        /\ conn[c].srvType \in Redirected \cup {Login}
        /\ nextIP \in [Redirected -> Anywhere]
    BY DEF Connect, InSrv, Step, addressVars, ProxyInv, TypeOK, Started, Connection
  <1>2. got = <<conn[c].want, conn[c].want>>
    <2>1. CASE conn[c].srvType = Login
      BY <2>1 DEF AddressInv, WantsNothing
    <2>2. CASE conn[c].srvType # Login
      <3>1. Pending(c, conn[c].srvType)
        BY <1>1 DEF Pending
      <3>2. /\ conn[c].want = nextIP[conn[c].srvType]
            /\ conn[c].port = nextIP[conn[c].srvType]
        BY <1>1, <2>2, <3>1 DEF AddressInv, PendingIsNext
      <3> QED BY <2>2, <3>2
    <2> QED BY <2>1, <2>2
  <1>3. got \in Anywhere \X Anywhere
    BY <1>1, <1>2 DEF Connection
  <1> HIDE DEF got
  <1>4. r \in Connection
    BY <1>1, <1>3 DEF Connection
  <1>5. /\ r.srv = "recv" /\ r.srvType = conn[c].srvType /\ r.want = conn[c].want
        /\ r.port = conn[c].port /\ r.packet = conn[c].packet /\ r.got = <<r.want, r.want>>
    BY <1>1, <1>2 DEF Connection
  <1> HIDE DEF r
  <1> QED BY <1>1, <1>4, <1>5, ThreadStepKeepsAddresses

\* The remaining steps say nothing about addresses.
LEMMA OtherStepsKeepAddresses ==
  ASSUME ProxyInv, AddressInv, NEW c \in Conns,
         \/ ConnectFails(c) \/ SrvLoopEnds(c) \/ SrvMark(c) \/ SrvJoined(c) \/ SrvGivesUp(c)
         \/ CliLoopEnds(c) \/ CliMark(c) \/ CliJoined(c)
  PROVE  AddressInv'
  <1> DEFINE r == conn'[c]
  <1> USE DEF ConnectFails, SrvLoopEnds, SrvMark, SrvJoined, SrvGivesUp,
              CliLoopEnds, CliMark, CliJoined, InSrv, InCli, Step, addressVars
  <1>1. /\ conn \in [Conns -> Connection] /\ conn[c] \in Connection
        /\ conn[c].got # <<>> => conn[c].got = <<conn[c].want, conn[c].want>>
    BY DEF ProxyInv, TypeOK, AddressInv, GotWanted
  <1>2. UNCHANGED <<nextIP, nextPort, told>>
    OBVIOUS
  <1>3. ProxyInv'
    BY SrvStepKeeps, CliStepKeeps
  <1>4. r \in Connection /\ conn' = [conn EXCEPT ![c] = r]
    <2>1. conn' \in [Conns -> Connection]
      BY <1>3 DEF ProxyInv, TypeOK
    <2>2. \A n \in Conns \ {c} : conn'[n] = conn[n]
      BY <1>1
    <2> QED BY <1>1, <2>1, <2>2
  <1>5. /\ r.srvType = conn[c].srvType /\ r.want = conn[c].want /\ r.port = conn[c].port
        /\ r.packet = conn[c].packet /\ r.got = conn[c].got
    BY <1>1 DEF Connection
  <1>6. r.srv \in {conn[c].srv, "joinFailed", "mark", "join", "done"}
    BY <1>1 DEF Connection
  <1> HIDE DEF r, ConnectFails, SrvLoopEnds, SrvMark, SrvJoined, SrvGivesUp,
               CliLoopEnds, CliMark, CliJoined
  <1> QED BY <1>1, <1>2, <1>4, <1>5, <1>6, ThreadStepKeepsAddresses

\* Starting the second thread leaves the addresses alone.
LEMMA StartSrvKeepsAddresses == ProxyInv /\ AddressInv /\ StartSrv => AddressInv'
  <1> SUFFICES ASSUME ProxyInv, AddressInv, StartSrv PROVE AddressInv'
    OBVIOUS
  <1> DEFINE c == starting
             r == [conn[c] EXCEPT !.srv = "connect"]
  <1>1. /\ c \in Conns /\ conn[c] \in Connection /\ conn[c].srv = "none"
        /\ conn' = [conn EXCEPT ![c] = r] /\ UNCHANGED <<nextIP, nextPort, told>>
        /\ conn[c].got # <<>> => conn[c].got = <<conn[c].want, conn[c].want>>
    BY DEF StartSrv, addressVars, ProxyInv, TypeOK, Started, AddressInv, GotWanted
  <1>2. /\ r \in Connection /\ r.srvType = conn[c].srvType /\ r.want = conn[c].want
        /\ r.port = conn[c].port /\ r.packet = conn[c].packet /\ r.got = conn[c].got
        /\ r.srv = "connect"
    BY <1>1 DEF Connection
  <1> HIDE DEF c, r
  <1> QED BY <1>1, <1>2, ThreadStepKeepsAddresses

\* AddressInv, with ProxyInv, in every state.
LEMMA AddressesInvariant == Spec => [](ProxyInv /\ AddressInv)
  <1>1. ProxyInv /\ AddressInv /\ [Next]_vars => AddressInv'
    <2> SUFFICES ASSUME ProxyInv, AddressInv, [Next]_vars PROVE AddressInv'
      OBVIOUS
    <2>1. CASE UNCHANGED vars
      BY <2>1 DEF vars, AddressInv, ToldIsNext, PendingIsNext, TellerIsNext, TellerAlone,
                  WantsNothing, GotWanted, Pending, Tells
    <2>2. ASSUME NEW c \in Conns, NEW t \in Redirected \cup {Login}, Accept(c, t)
          PROVE  AddressInv'
      BY <2>2, AcceptKeepsAddresses
    <2>3. CASE StartSrv \/ CheckClientList
      BY <2>3, StartSrvKeepsAddresses, CheckClientListKeepsAddresses
    <2>4. ASSUME NEW c \in Conns,
                 Threads(c) \/ SrvLoopEnds(c) \/ CliLoopEnds(c) \/ \E a \in Addresses : Redirect(c, a)
          PROVE  AddressInv'
      <3>1. CASE CliJoinsNothing(c)
        BY <3>1 DEF CliJoinsNothing, addressVars, AddressInv, ToldIsNext, PendingIsNext,
                    TellerIsNext, TellerAlone, WantsNothing, GotWanted, Pending, Tells
      <3> QED BY <2>4, <3>1, ConnectKeepsAddresses, TellKeepsAddresses, RedirectKeepsAddresses,
                 OtherStepsKeepAddresses DEF Threads
    <2> QED BY <2>1, <2>2, <2>3, <2>4 DEF Next
  <1> QED BY Invariant, AddressInit, <1>1, PTL DEF Spec

\* A connection of the proxy leads to the server that its client was sent to,
\* although the listener's one address for each type of server is written by
\* other threads while clients are on their way (CListener.hpp:334, main.cpp:14).
THEOREM LeadsWhereTold == Spec => []ConnectedAsTold
  <1>1. AddressInv => ConnectedAsTold
    BY DEF AddressInv, GotWanted, ConnectedAsTold, Used
  <1> QED BY AddressesInvariant, <1>1, PTL
-----------------------------------------------------------------------------
(* Bytes and packets.  What is known of a byte here is that it is one; the   *)
(* packets of a stream are known by their sequence of codes, one after the   *)
(* other.                                                                    *)

AnyByte == [v : Nat, keys : SUBSET Nat]
Streams == Seq(AnyByte)

\* The bytes a longer sequence begins with.
Begin(a, c) == \A x \in 1..Len(a) : a[x] = c[x]

\* Cuts(a, b, c, d): a is the beginning of c, and if it is as long there is nothing between.
Cuts(a, b, c, d) == Begin(a, c) /\ (Len(a) = Len(c) => a = c /\ b = d)

\* Of two ways to cut a sequence the shorter first part is the beginning of the longer.
LEMMA ShorterBegins ==
  ASSUME NEW a \in Streams, NEW b \in Streams, NEW c \in Streams, NEW d \in Streams,
         a \o b = c \o d, Len(a) <= Len(c)
  PROVE  Cuts(a, b, c, d)
  <1>1. Len(a) \in Nat /\ Len(b) \in Nat /\ Len(c) \in Nat /\ Len(d) \in Nat
    BY LenProperties DEF Streams
  <1>2. /\ \A i \in 1..Len(a) + Len(b) : (a \o b)[i] = IF i <= Len(a) THEN a[i] ELSE b[i - Len(a)]
        /\ \A i \in 1..Len(c) + Len(d) : (c \o d)[i] = IF i <= Len(c) THEN c[i] ELSE d[i - Len(c)]
        /\ Len(a) + Len(b) = Len(c) + Len(d)
    BY ConcatProperties DEF Streams
  <1>3. \A i \in 1..Len(a) : a[i] = c[i]
    BY <1>1, <1>2
  <1>4. ASSUME Len(a) = Len(c) PROVE a = c /\ b = d
    <2>1. a = c
      BY <1>1, <1>3, <1>4, SeqEqual DEF Streams
    <2>2. \A S : \A s, t, v \in Seq(S) : s \o t = s \o v => t = v
      BY ConcatSimplifications, Zenon
    <2>3. a \o b = a \o d
      BY <2>1
    <2> QED BY <2>1, <2>2, <2>3, Zenon DEF Streams
  <1> QED BY <1>3, <1>4 DEF Cuts, Begin

\* What is cut twice may be cut in the other order.
Joins(a, b, c) == (a \o b) \o c = a \o (b \o c)

\* Streams, one after the other.
LEMMA StreamsJoin ==
  ASSUME NEW a \in Streams, NEW b \in Streams, NEW c \in Streams
  PROVE  Joins(a, b, c)
  <1>1. \A S : \A s, t, u \in Seq(S) : (s \o t) \o u = s \o (t \o u)
    BY ConcatAssociative, Zenon
  <1>2. (a \o b) \o c = a \o (b \o c)
    BY <1>1, SMTT(30) DEF Streams
  <1> QED BY <1>2 DEF Joins

\* Two streams together.
LEMMA StreamsConcat ==
  ASSUME NEW a \in Streams, NEW b \in Streams
  PROVE  /\ a \o b \in Streams
         /\ Len(a \o b) = Len(a) + Len(b)
         /\ \A i \in 1..(Len(a) + Len(b)) : (a \o b)[i] = IF i <= Len(a) THEN a[i] ELSE b[i - Len(a)]
  BY ConcatProperties DEF Streams

\* recv() hands over the first k bytes of the stream.
LEMMA Receives ==
  ASSUME NEW buf \in Streams, NEW stream \in Streams, NEW k \in 1..Len(stream)
  PROVE  /\ buf \o SubSeq(stream, 1, k) \in Streams
         /\ SubSeq(stream, k + 1, Len(stream)) \in Streams
         /\ Len(buf \o SubSeq(stream, 1, k)) = Len(buf) + k
         /\ (buf \o SubSeq(stream, 1, k)) \o SubSeq(stream, k + 1, Len(stream)) = buf \o stream
  <1>1. Len(stream) \in Nat /\ \A i \in 1..Len(stream) : stream[i] \in AnyByte
    BY LenProperties, ElementOfSeq DEF Streams
  <1>2. SubSeq(stream, 1, k) \in Seq(AnyByte) /\ Len(SubSeq(stream, 1, k)) = k
    BY <1>1, SubSeqProperties
  <1>3. SubSeq(stream, k + 1, Len(stream)) \in Seq(AnyByte)
    <2>1. \A i \in (k + 1)..Len(stream) : stream[i] \in AnyByte
      BY <1>1
    <2> QED BY <1>1, <2>1, SubSeqProperties
  <1>4. SubSeq(stream, 1, k) \o SubSeq(stream, k + 1, Len(stream)) = stream
    <2>1. SubSeq(stream, 1, k) \o SubSeq(stream, k + 1, Len(stream)) = SubSeq(stream, 1, Len(stream))
      BY <1>1, ConcatAdjacentSubSeq DEF Streams
    <2> QED BY <2>1, SubSeqFull DEF Streams
  <1>5. PICK a, b \in Seq(AnyByte) : a = SubSeq(stream, 1, k) /\ b = SubSeq(stream, k + 1, Len(stream))
    BY <1>2, <1>3
  <1>6. buf \o a \in Seq(AnyByte) /\ Len(buf \o a) = Len(buf) + k
    BY <1>2, <1>5, ConcatProperties DEF Streams
  <1>7. (buf \o a) \o b = buf \o stream
    <2>1. a \in Streams /\ b \in Streams
      BY <1>5 DEF Streams
    <2>2. (buf \o a) \o b = buf \o (a \o b)
      <3>1. Joins(buf, a, b)
        BY <2>1, StreamsJoin
      <3> QED BY <3>1 DEF Joins
    <2>3. a \o b = stream
      BY <1>4, <1>5
    <2> QED BY <2>2, <2>3
  <1> QED BY <1>5, <1>6, <1>7 DEF Streams

\* What comes on a stream: the codes of the packets i + 1 to j.
Says(stream, code, i, j) ==
  \E rest : /\ rest[i] = stream /\ rest[j] = <<>>
            /\ \A n \in i..j : rest[n] \in Streams
            /\ \A n \in i..j :
                 n < j => code[n + 1] \in Streams /\ rest[n] = code[n + 1] \o rest[n + 1]

\* At first nothing.
LEMMA SaysNothing ==
  ASSUME NEW code, NEW i \in Nat
  PROVE  Says(<<>>, code, i, i)
  <1>1. <<>> \in Streams /\ i..i = {i}
    BY EmptySeq DEF Streams
  <1> DEFINE rest == [n \in {i} |-> <<>>]
  <1>2. rest[i] = <<>>
    OBVIOUS
  <1> HIDE DEF rest
  <1>3. (\A n \in i..i : rest[n] \in Streams) /\ \A n \in i..i : ~(n < i)
    BY <1>1, <1>2
  <1> QED BY <1>2, <1>3 DEF Says

\* The code of the next packet comes first.
SaysOne(stream, code, i, j) ==
  i < j /\ \E rest \in Streams : Says(rest, code, i + 1, j) /\ stream = code[i + 1] \o rest

\* Where there are bytes, they are of the next packet.
LEMMA SaysNext ==
  ASSUME NEW stream, NEW code, NEW i \in Nat, NEW j \in Nat, i <= j,
         Says(stream, code, i, j), stream # <<>>
  PROVE  SaysOne(stream, code, i, j)
  <1>1. PICK rest : /\ rest[i] = stream /\ rest[j] = <<>>
                    /\ \A n \in i..j : rest[n] \in Streams
                    /\ \A n \in i..j : n < j => code[n + 1] \in Streams /\ rest[n] = code[n + 1] \o rest[n + 1]
    BY DEF Says
  <1>2. i # j
    BY <1>1
  <1>3. i < j /\ i \in i..j /\ i + 1 \in i..j /\ \A n \in (i + 1)..j : n \in i..j
    BY <1>2
  <1>4. \A n \in (i + 1)..j : rest[n] \in Streams /\ (n < j => code[n + 1] \in Streams /\ rest[n] = code[n + 1] \o rest[n + 1])
    BY <1>1, <1>3
  <1>5. Says(rest[i + 1], code, i + 1, j)
    BY <1>1, <1>4 DEF Says
  <1>6. rest[i + 1] \in Streams /\ stream = code[i + 1] \o rest[i + 1]
    BY <1>1, <1>3
  <1> QED BY <1>3, <1>5, <1>6 DEF SaysOne

\* A packet more is sent.
LEMMA SaysMore ==
  ASSUME NEW stream, NEW code, NEW i \in Nat, NEW j \in Nat, i <= j,
         Says(stream, code, i, j), NEW more, more[j + 1] \in Streams,
         \A n \in 1..j : more[n] = code[n]
  PROVE  Says(stream \o more[j + 1], more, i, j + 1)
  <1>1. PICK rest : /\ rest[i] = stream /\ rest[j] = <<>>
                    /\ \A n \in i..j : rest[n] \in Streams
                    /\ \A n \in i..j : n < j => code[n + 1] \in Streams /\ rest[n] = code[n + 1] \o rest[n + 1]
    BY DEF Says
  <1>2. PICK c \in Streams : c = more[j + 1]
    OBVIOUS
  <1> DEFINE longer == [n \in i..(j + 1) |-> IF n = j + 1 THEN <<>> ELSE rest[n] \o c]
  <1>3. /\ longer[i] = stream \o c /\ longer[j + 1] = <<>>
        /\ \A n \in i..j : longer[n] = rest[n] \o c
    <2>1. i \in i..(j + 1) /\ j + 1 \in i..(j + 1) /\ i # j + 1 /\ i \in i..j
      OBVIOUS
    <2>2. \A n \in i..j : n \in i..(j + 1) /\ n # j + 1
      OBVIOUS
    <2>3. longer[j + 1] = <<>> /\ \A n \in i..j : longer[n] = rest[n] \o c
      BY <2>1, <2>2
    <2> QED BY <1>1, <2>1, <2>3
  <1> HIDE DEF longer
  <1>4. \A n \in i..j : rest[n] \o c \in Streams
    BY <1>1, ConcatProperties DEF Streams
  <1>5. <<>> \in Streams
    BY EmptySeq DEF Streams
  <1>6. \A n \in i..(j + 1) : n \in i..j \/ n = j + 1
    OBVIOUS
  <1>7. \A n \in i..(j + 1) : longer[n] \in Streams
    BY <1>3, <1>4, <1>5, <1>6
  <1>8. ASSUME NEW n \in i..(j + 1), n < j + 1
        PROVE  more[n + 1] \in Streams /\ longer[n] = more[n + 1] \o longer[n + 1]
    <2>1. n \in i..j
      BY <1>8
    <2>2. CASE n = j
      <3>1. longer[n] = <<>> \o c /\ more[n + 1] = c /\ longer[n + 1] = <<>>
        BY <1>1, <1>2, <1>3, <2>1, <2>2
      <3> QED BY <3>1, ConcatEmptySeq DEF Streams
    <2>3. CASE n # j
      <3>1. n < j /\ n + 1 \in i..j /\ n + 1 \in 1..j /\ n \in i..j
        BY <2>1, <2>3
      <3>2. /\ rest[n] = code[n + 1] \o rest[n + 1] /\ more[n + 1] = code[n + 1]
            /\ longer[n] = rest[n] \o c /\ longer[n + 1] = rest[n + 1] \o c
        BY <1>1, <1>3, <3>1
      <3>3. PICK a, b \in Streams : a = code[n + 1] /\ b = rest[n + 1]
        BY <1>1, <3>1
      <3>4. (a \o b) \o c = a \o (b \o c)
        <4>1. Joins(a, b, c)
          BY <3>3, StreamsJoin
        <4> QED BY <4>1 DEF Joins
      <3> QED BY <3>2, <3>3, <3>4
    <2> QED BY <2>2, <2>3
  <1> QED BY <1>2, <1>3, <1>7, <1>8 DEF Says

-----------------------------------------------------------------------------
(* What a packet is sent as                                                  *)

\* Encryption keeps the length, and done twice it undoes itself.
LEMMA CryptTwice ==
  ASSUME NEW bytes \in Streams, NEW loc \in Nat
  PROVE  /\ Crypt(bytes, loc) \in Streams
         /\ Len(Crypt(bytes, loc)) = Len(bytes)
         /\ Crypt(Crypt(bytes, loc), loc) = bytes
  <1>1. PICK n \in Nat : n = Len(bytes) /\ DOMAIN bytes = 1..n /\ \A i \in 1..n : bytes[i] \in AnyByte
    BY LenProperties, ElementOfSeq DEF Streams
  <1>2. \A i \in 1..n : (loc + i - 1) % KeyLen \in Nat
    BY KeysThere
  <1>3. ASSUME NEW b \in AnyByte, NEW key \in Nat
        PROVE  Xor(b, key) \in AnyByte /\ Xor(Xor(b, key), key) = b
    BY DEF Xor, SymDiff, AnyByte
  <1>4. PICK c : c = Crypt(bytes, loc)
    OBVIOUS
  <1>5. DOMAIN c = 1..n /\ \A i \in 1..n : c[i] = Xor(bytes[i], (loc + i - 1) % KeyLen)
    BY <1>1, <1>4 DEF Crypt
  <1>6. \A i \in 1..n : c[i] \in AnyByte /\ Xor(c[i], (loc + i - 1) % KeyLen) = bytes[i]
    BY <1>1, <1>2, <1>3, <1>5
  <1>7. c \in [1..n -> AnyByte]
    BY <1>1, <1>4, <1>5, <1>6 DEF Crypt
  <1>8. c \in Streams /\ Len(c) = n
    <2>1. c \in Streams
      BY <1>7, SeqDef DEF Streams
    <2>2. Len(c) \in Nat /\ DOMAIN c = 1..Len(c)
      BY <2>1, LenProperties DEF Streams
    <2> QED BY <1>5, <2>1, <2>2
  <1>9. Crypt(c, loc) = bytes
    <2>1. Crypt(c, loc) = [i \in 1..n |-> Xor(c[i], (loc + i - 1) % KeyLen)]
      BY <1>5 DEF Crypt
    <2>2. bytes = [i \in 1..n |-> bytes[i]]
      BY <1>1, LenProperties DEF Streams
    <2> QED BY <1>6, <2>1, <2>2
  <1> QED BY <1>1, <1>4, <1>8, <1>9

\* One byte, and two.
LEMMA FewBytes ==
  ASSUME NEW x \in AnyByte, NEW y \in AnyByte
  PROVE  /\ <<x>> \in Streams /\ Len(<<x>>) = 1 /\ <<x>>[1] = x
         /\ <<x, y>> \in Streams /\ Len(<<x, y>>) = 2 /\ <<x, y>>[1] = x /\ <<x, y>>[2] = y
  <1> SUFFICES ASSUME NEW S, NEW a \in S, NEW b \in S
               PROVE  /\ <<a>> \in Seq(S) /\ Len(<<a>>) = 1 /\ <<a>>[1] = a
                      /\ <<a, b>> \in Seq(S) /\ Len(<<a, b>>) = 2 /\ <<a, b>>[1] = a /\ <<a, b>>[2] = b
    BY DEF Streams
  <1> QED OBVIOUS

\* The two bytes of a size give it back.
LEMMA WordFits ==
  ASSUME NEW n \in Nat
  PROVE  /\ WordBytes(n) \in Streams /\ Len(WordBytes(n)) = 2
         /\ WordBytes(n)[1].v + Radix * WordBytes(n)[2].v = n
  <1>1. Radix \in Nat /\ Radix > 0
    BY RadixBig
  <1>2. PICK low \in Nat, high \in Nat : low = n % Radix /\ high = n \div Radix /\ n = Radix * high + low
    BY <1>1
  <1>3. Plain(low) \in AnyByte /\ Plain(high) \in AnyByte /\ Plain(low).v = low /\ Plain(high).v = high
    BY DEF Plain, AnyByte
  <1>4. WordBytes(n) = <<Plain(low), Plain(high)>>
    BY <1>2 DEF WordBytes
  <1>5. PICK w, x, y : w = WordBytes(n) /\ x = Plain(low) /\ y = Plain(high)
    OBVIOUS
  <1>6. w = <<x, y>> /\ x \in AnyByte /\ y \in AnyByte /\ x.v = low /\ y.v = high
    BY <1>3, <1>4, <1>5
  <1>7. w \in Streams /\ Len(w) = 2 /\ w[1] = x /\ w[2] = y
    BY <1>6, FewBytes
  <1> QED BY <1>1, <1>2, <1>5, <1>6, <1>7

\* The header of a game packet of n bytes: one byte, or a zero and a word.
HeaderOf(n) == IF n + 1 > Radix - 1 THEN <<Plain(0)>> \o WordBytes(n) ELSE <<Plain(n)>>

\* What a worker reads of the header of a game packet is its size.
LEMMA HeaderBytes ==
  ASSUME NEW n \in Nat
  PROVE  /\ HeaderOf(n) \in Streams
         /\ n + 1 > Radix - 1 => /\ Len(HeaderOf(n)) = 3 /\ HeaderOf(n)[1].v = 0
                                 /\ Word(HeaderOf(n), 2) = n
         /\ n + 1 <= Radix - 1 => Len(HeaderOf(n)) = 1 /\ HeaderOf(n)[1].v = n
  <1>1. Radix \in Nat
    BY RadixBig
  <1>2. Plain(0) \in AnyByte /\ Plain(0).v = 0 /\ Plain(n) \in AnyByte /\ Plain(n).v = n
    BY DEF Plain, AnyByte
  <1>3. CASE n + 1 > Radix - 1
    <2>1. PICK w \in Streams : w = WordBytes(n) /\ Len(w) = 2 /\ w[1].v + Radix * w[2].v = n
      BY WordFits
    <2>2. HeaderOf(n) = <<Plain(0)>> \o w
      BY <1>3, <2>1 DEF HeaderOf
    <2>3. PICK z \in Streams : z = <<Plain(0)>> /\ Len(z) = 1 /\ z[1] = Plain(0)
      BY <1>2, FewBytes
    <2>4. PICK h : h = z \o w
      OBVIOUS
    <2>5. h \in Streams /\ Len(h) = 3 /\ h[1] = z[1] /\ h[2] = w[1] /\ h[3] = w[2]
      <3>1. /\ h \in Streams /\ Len(h) = Len(z) + Len(w)
            /\ \A i \in 1..(Len(z) + Len(w)) : h[i] = IF i <= Len(z) THEN z[i] ELSE w[i - Len(z)]
        BY <2>4, StreamsConcat
      <3> QED BY <2>1, <2>3, <3>1
    <2>6. Word(h, 2) = n
      BY <2>1, <2>5 DEF Word
    <2> QED BY <1>1, <1>2, <1>3, <2>2, <2>3, <2>4, <2>5, <2>6
  <1>4. CASE n + 1 <= Radix - 1
    <2>1. HeaderOf(n) = <<Plain(n)>>
      BY <1>1, <1>4 DEF HeaderOf
    <2>2. PICK x \in AnyByte : x = Plain(n) /\ x.v = n
      BY <1>2
    <2>3. <<x>> \in Streams /\ Len(<<x>>) = 1 /\ <<x>>[1] = x
      BY FewBytes
    <2> QED BY <1>1, <1>4, <2>1, <2>2, <2>3
  <1> QED BY <1>1, <1>3, <1>4

\* A game packet is sent as its header and itself.
LEMMA EncryptedIs ==
  ASSUME NEW packet \in Streams
  PROVE  EncryptPacket(<<Plain(0)>> \o packet) = HeaderOf(Len(packet)) \o packet
  <1>1. PICK b : b = <<Plain(0)>> \o packet
    OBVIOUS
  <1>2. PICK z \in Streams : z = <<Plain(0)>> /\ Len(z) = 1
    <2>1. Plain(0) \in AnyByte
      BY DEF Plain, AnyByte
    <2> QED BY <2>1, FewBytes
  <1>3. PICK n \in Nat : n = Len(packet)
    BY LenProperties DEF Streams
  <1>4. /\ b \in Streams /\ Len(b) = n + 1
        /\ \A i \in 1..(1 + n) : b[i] = IF i <= 1 THEN z[i] ELSE packet[i - 1]
    BY <1>1, <1>2, <1>3, StreamsConcat
  <1>5. Tail(b) = packet
    <2>1. b # <<>>
      BY <1>4, EmptySeq DEF Streams
    <2>2. /\ Tail(b) \in Seq(AnyByte) /\ Len(Tail(b)) = n
          /\ \A i \in 1..n : Tail(b)[i] = b[i + 1]
      BY <1>4, <2>1, HeadTailProperties DEF Streams
    <2>3. \A i \in 1..n : Tail(b)[i] = packet[i]
      BY <1>4, <2>2
    <2> QED BY <1>3, <2>2, <2>3, SeqEqual DEF Streams
  <1>6. Len(b) - 1 = n
    BY <1>4
  <1>7. CASE n + 1 > Radix - 1
    <2>1. Len(b) > Radix - 1
      BY <1>4, <1>7
    <2>2. EncryptPacket(b) = <<Plain(0)>> \o WordBytes(n) \o packet
      BY <1>5, <1>6, <2>1, Zenon DEF EncryptPacket
    <2>3. HeaderOf(n) = <<Plain(0)>> \o WordBytes(n)
      BY <1>7, Zenon DEF HeaderOf
    <2> QED BY <1>1, <1>3, <2>2, <2>3, Zenon
  <1>8. CASE ~(n + 1 > Radix - 1)
    <2>1. ~(Len(b) > Radix - 1)
      BY <1>4, <1>8
    <2>2. EncryptPacket(b) = <<Plain(n)>> \o packet
      BY <1>5, <1>6, <2>1, Zenon DEF EncryptPacket
    <2>3. HeaderOf(n) = <<Plain(n)>>
      BY <1>8, Zenon DEF HeaderOf
    <2> QED BY <1>1, <1>3, <2>2, <2>3, Zenon
  <1> QED BY <1>7, <1>8

GameCode(packet) == HeaderOf(Len(packet)) \o packet

\* A game packet is found again behind its header, whichever bytes it has.
LEMMA GameCodeIs ==
  ASSUME NEW packet \in Streams, Len(packet) >= 2
  PROVE  /\ GameCode(packet) \in Streams
         /\ Len(GameCode(packet)) = Len(HeaderOf(Len(packet))) + Len(packet)
         /\ Len(GameCode(packet)) >= 3
         /\ Long(GameCode(packet)) <=> Len(packet) + 1 > Radix - 1
         /\ Body(GameCode(packet)) = packet
         /\ SubSeq(GameCode(packet), 1, DecStart(GameCode(packet))) = HeaderOf(Len(packet))
  <1> PICK n \in Nat : n = Len(packet)
    BY LenProperties DEF Streams
  <1> PICK c : c = GameCode(packet)
    OBVIOUS
  <1>1. n = Len(packet) /\ c = GameCode(packet)
    OBVIOUS
  <1>2. PICK h \in Streams :
          /\ h = HeaderOf(n)
          /\ n + 1 > Radix - 1 => Len(h) = 3 /\ h[1].v = 0
          /\ n + 1 <= Radix - 1 => Len(h) = 1 /\ h[1].v = n
    BY HeaderBytes
  <1>3. Radix \in Nat /\ n >= 2
    BY <1>1, RadixBig
  <1>4. Len(h) = IF n + 1 > Radix - 1 THEN 3 ELSE 1
    BY <1>2, <1>3
  <1>5. /\ c = h \o packet /\ c \in Streams /\ Len(c) = Len(h) + n
        /\ \A i \in 1..(Len(h) + n) : c[i] = IF i <= Len(h) THEN h[i] ELSE packet[i - Len(h)]
    BY <1>1, <1>2, StreamsConcat DEF GameCode
  <1>6. c[1] = h[1]
    BY <1>3, <1>4, <1>5
  <1>7. Long(c) <=> n + 1 > Radix - 1
    BY <1>2, <1>3, <1>6 DEF Long
  <1>8. DecStart(c) = Len(h)
    BY <1>4, <1>7 DEF DecStart
  <1>9. Body(c) = packet /\ SubSeq(c, 1, DecStart(c)) = h
    <2>1. PICK d \in Nat : d = Len(h) /\ d >= 1 /\ Len(c) = d + n
      BY <1>4, <1>5
    <2>2. \A i \in 1..(d + n) : c[i] \in AnyByte
      BY <1>5, <2>1, ElementOfSeq DEF Streams
    <2>3. /\ SubSeq(c, d + 1, d + n) \in Seq(AnyByte) /\ Len(SubSeq(c, d + 1, d + n)) = n
          /\ \A i \in 1..n : SubSeq(c, d + 1, d + n)[i] = c[d + i]
      <3>1. \A i \in (d + 1)..(d + n) : c[i] \in AnyByte
        BY <2>2
      <3> QED BY <3>1, SubSeqProperties, <1>3
    <2>4. /\ SubSeq(c, 1, d) \in Seq(AnyByte) /\ Len(SubSeq(c, 1, d)) = d
          /\ \A i \in 1..d : SubSeq(c, 1, d)[i] = c[i]
      <3>1. \A i \in 1..d : c[i] \in AnyByte
        BY <2>2
      <3> QED BY <2>1, <3>1, SubSeqProperties
    <2>5. \A i \in 1..n : SubSeq(c, d + 1, d + n)[i] = packet[i]
      BY <1>5, <2>1, <2>3
    <2>6. \A i \in 1..d : SubSeq(c, 1, d)[i] = h[i]
      BY <1>5, <2>1, <2>4
    <2>7. SubSeq(c, d + 1, d + n) = packet
      BY <1>1, <2>3, <2>5, SeqEqual DEF Streams
    <2>8. SubSeq(c, 1, d) = h
      BY <2>1, <2>4, <2>6, SeqEqual DEF Streams
    <2> QED BY <1>8, <2>1, <2>7, <2>8 DEF Body
  <1>10. Len(c) = Len(h) + n /\ Len(c) >= 3
    BY <1>3, <1>4, <1>5
  <1> QED BY <1>1, <1>2, <1>5, <1>7, <1>9, <1>10

\* Its first three bytes, or one, tell how long it is.
LEMMA GameHeader ==
  ASSUME NEW packet \in Streams, Len(packet) >= 2, NEW buf \in Streams,
         Len(buf) <= Len(GameCode(packet)), Begin(buf, GameCode(packet))
  PROVE  /\ Len(buf) >= 1 => (Long(buf) <=> Len(packet) + 1 > Radix - 1)
         /\ Len(buf) >= 1 /\ ~Long(buf) => PacketSize(buf) = Len(GameCode(packet))
         /\ Len(buf) >= 3 => PacketSize(buf) = Len(GameCode(packet))
         /\ Len(buf) >= 3 /\ Long(buf) => LongSize(buf) = Len(GameCode(packet))
  <1> PICK n \in Nat : n = Len(packet)
    BY LenProperties DEF Streams
  <1> PICK c, h : c = GameCode(packet) /\ h = HeaderOf(n)
    OBVIOUS
  <1>1. /\ n = Len(packet) /\ c = GameCode(packet) /\ h = HeaderOf(n)
        /\ h \in Streams
        /\ n + 1 > Radix - 1 => Len(h) = 3 /\ h[1].v = 0 /\ Word(h, 2) = n
        /\ n + 1 <= Radix - 1 => Len(h) = 1 /\ h[1].v = n
    BY HeaderBytes
  <1>2. Radix \in Nat /\ n >= 2
    BY <1>1, RadixBig
  <1>3. PICK d \in Nat : d = Len(h) /\ d = IF n + 1 > Radix - 1 THEN 3 ELSE 1
    <2>1. Len(h) = IF n + 1 > Radix - 1 THEN 3 ELSE 1
      BY <1>1, <1>2
    <2> QED BY <2>1
  <1>4. Len(c) = d + n /\ \A i \in 1..(d + n) : i <= d => c[i] = h[i]
    <2>1. c = h \o packet
      BY <1>1 DEF GameCode
    <2>2. /\ Len(c) = Len(h) + Len(packet)
          /\ \A i \in 1..(Len(h) + Len(packet)) : c[i] = IF i <= Len(h) THEN h[i] ELSE packet[i - Len(h)]
      BY <1>1, <2>1, StreamsConcat
    <2> QED BY <1>1, <1>3, <2>2
  <1>5. PICK l \in Nat : l = Len(buf) /\ l <= d + n /\ \A i \in 1..l : i <= d => buf[i] = h[i]
    <2>1. Len(buf) \in Nat
      BY LenProperties DEF Streams
    <2>2. \A i \in 1..Len(buf) : i \in 1..(d + n)
      BY <1>1, <1>4, <2>1
    <2>3. \A i \in 1..Len(buf) : buf[i] = c[i]
      BY <1>1 DEF Begin
    <2>4. \A i \in 1..Len(buf) : i <= d => buf[i] = h[i]
      BY <1>4, <2>2, <2>3
    <2>5. Len(buf) <= d + n
      BY <1>1, <1>4
    <2> QED BY <2>1, <2>4, <2>5
  <1>6. CASE n + 1 > Radix - 1
    <2>1. l >= 1 => buf[1].v = 0
      BY <1>1, <1>3, <1>5, <1>6
    <2>2. l >= 3 => buf[2] = h[2] /\ buf[3] = h[3]
      BY <1>3, <1>5, <1>6
    <2>3. l >= 3 => Word(buf, 2) = n
      BY <1>1, <1>6, <2>2 DEF Word
    <2> QED BY <1>1, <1>3, <1>4, <1>5, <1>6, <2>1, <2>3 DEF Long, PacketSize, LongSize
  <1>7. CASE n + 1 <= Radix - 1
    <2>1. l >= 1 => buf[1].v = n
      BY <1>1, <1>3, <1>5, <1>7, <1>2
    <2> QED BY <1>1, <1>2, <1>3, <1>4, <1>5, <1>7, <2>1 DEF Long, PacketSize
  <1> QED BY <1>2, <1>6, <1>7

\* The same of the packets to and from the hub, whose header is their size.
LEMMA ISCCodeIs ==
  ASSUME NEW packet \in Streams, Len(packet) >= 2, NEW buf \in Streams,
         Len(buf) <= Len(ISCPacket(packet)), Begin(buf, ISCPacket(packet))
  PROVE  /\ ISCPacket(packet) \in Streams /\ Len(ISCPacket(packet)) >= 4
         /\ Len(buf) >= 2 => Word(buf, 1) = Len(ISCPacket(packet))
         /\ buf = ISCPacket(packet) => SubSeq(buf, 3, Word(buf, 1)) = packet
  <1> PICK n \in Nat : n = Len(packet)
    BY LenProperties DEF Streams
  <1> PICK c : c = ISCPacket(packet)
    OBVIOUS
  <1>1. n = Len(packet) /\ c = ISCPacket(packet)
    OBVIOUS
  <1>2. PICK w \in Streams : w = WordBytes(n + 2) /\ Len(w) = 2 /\ w[1].v + Radix * w[2].v = n + 2
    BY WordFits
  <1>3. /\ c = w \o packet /\ c \in Streams /\ Len(c) = n + 2 /\ c[1] = w[1] /\ c[2] = w[2]
        /\ \A i \in 1..n : c[i + 2] = packet[i]
    <2>1. c = w \o packet
      BY <1>1, <1>2 DEF ISCPacket
    <2>2. /\ c \in Streams /\ Len(c) = Len(w) + Len(packet)
          /\ \A i \in 1..(Len(w) + Len(packet)) : c[i] = IF i <= Len(w) THEN w[i] ELSE packet[i - Len(w)]
      BY <2>1, StreamsConcat
    <2>3. Len(c) = n + 2 /\ \A i \in 1..(2 + n) : c[i] = IF i <= 2 THEN w[i] ELSE packet[i - 2]
      <3>1. Len(w) = 2 /\ Len(packet) = n
        BY <1>1, <1>2
      <3>2. Len(c) = 2 + n /\ \A i \in 1..(2 + n) : c[i] = IF i <= 2 THEN w[i] ELSE packet[i - 2]
        BY <2>2, <3>1, Zenon
      <3> QED BY <3>2
    <2>4. c[1] = w[1] /\ c[2] = w[2]
      BY <2>3
    <2>5. \A i \in 1..n : i + 2 \in 1..(2 + n) /\ ~(i + 2 <= 2) /\ (i + 2) - 2 = i
      OBVIOUS
    <2>6. \A i \in 1..n : c[i + 2] = packet[i]
      BY <2>3, <2>5
    <2> QED BY <2>1, <2>2, <2>3, <2>4, <2>6
  <1>4. PICK l \in Nat : l = Len(buf)
    BY LenProperties DEF Streams
  <1>5. ASSUME l >= 2 PROVE Word(buf, 1) = n + 2
    <2>1. 1 \in 1..Len(buf) /\ 2 \in 1..Len(buf)
      BY <1>4, <1>5
    <2>2. buf[1] = w[1] /\ buf[2] = w[2]
      BY <1>1, <1>3, <2>1 DEF Begin
    <2> QED BY <1>2, <2>2 DEF Word
  <1>6. ASSUME buf = c PROVE SubSeq(buf, 3, Word(buf, 1)) = packet
    <2>1. Word(buf, 1) = n + 2
      <3>1. l >= 2
        BY <1>3, <1>4, <1>6
      <3> QED BY <1>5, <3>1
    <2>2. \A i \in 1..(n + 2) : c[i] \in AnyByte
      BY <1>2, <1>3, ElementOfSeq DEF Streams
    <2>3. /\ SubSeq(c, 3, n + 2) \in Seq(AnyByte) /\ Len(SubSeq(c, 3, n + 2)) = n
          /\ \A i \in 1..n : SubSeq(c, 3, n + 2)[i] = c[i + 2]
      <3>1. \A i \in 3..(n + 2) : c[i] \in AnyByte
        BY <2>2
      <3>2. n >= 2 /\ \A i \in 1..n : 3 + i - 1 = i + 2
        BY <1>1
      <3> QED BY <3>1, <3>2, SubSeqProperties
    <2>4. \A i \in 1..n : SubSeq(c, 3, n + 2)[i] = packet[i]
      BY <1>2, <1>3, <2>3
    <2> QED BY <1>1, <1>6, <2>1, <2>3, <2>4, SeqEqual DEF Streams
  <1>7. Len(c) = n + 2 /\ Len(c) >= 4
    BY <1>1, <1>3
  <1> QED BY <1>1, <1>3, <1>4, <1>5, <1>6, <1>7

-----------------------------------------------------------------------------
(* What is under way.  place[n] is the place in the key table after the n-th *)
(* packet, code[n] what that packet is sent as, p how many have passed the   *)
(* proxy: all of them where there is none.                                   *)

HeaderOn(r) == IF r \in {"hub", "isc"} THEN 4 ELSE 3
Coded(r, packet, loc) ==
  IF r \in {"hub", "isc"} THEN ISCPacket(packet)
  ELSE GameCode(IF r \in {"direct", "relayed"} THEN Crypt(packet, loc) ELSE packet)
Moved(r, loc, n) == IF r \in {"direct", "relayed"} THEN (loc + n) % KeyLen ELSE loc

Sayings(r, s, out, place, code) ==
  /\ s \in Seq(Streams) /\ place \in [Nat -> Nat] /\ code \in [Nat -> Streams]
  /\ place[0] = Start /\ place[Len(s)] = out
  /\ \A n \in 1..Len(s) : /\ Len(s[n]) >= 2
                          /\ code[n] = Coded(r, s[n], place[n - 1])
                          /\ place[n] = Moved(r, place[n - 1], Len(s[n]))

Handled(s, d, p) ==
  /\ d \in Seq(Streams) /\ p \in Nat /\ Len(d) <= p /\ p <= Len(s)
  /\ \A i \in 1..Len(d) : d[i] = s[i]

\* The last receiver has handled m packets; it waits for a header, or for all of the next.
Reading(r, rc, stream, place, code, m, p) ==
  /\ rc \in [buffer : Streams, size : Nat, loc : Nat] /\ stream \in Streams
  /\ Says(rc.buffer \o stream, code, m, p)
  /\ Len(rc.buffer) < rc.size
  /\ rc.size = HeaderOn(r) \/ (m < p /\ rc.size = Len(code[m + 1]))
  /\ rc.loc = place[m]

\* The proxy has passed on p packets of n; it waits for the first byte of the next,
\* for its long size, or for all of it.
Passing(r, pr, stream, place, code, p, n) ==
  /\ pr \in [buffer : Streams, readlen : Nat, isWordSize : BOOLEAN, cliIn : Nat, cliOut : Nat]
  /\ stream \in Streams
  /\ Says(pr.buffer \o stream, code, p, n)
  /\ \/ pr.buffer = <<>> /\ pr.readlen = 1 /\ ~pr.isWordSize
     \/ p < n /\ pr.isWordSize /\ Len(pr.buffer) = 1 /\ pr.readlen = 3 /\ Long(code[p + 1])
     \/ /\ p < n /\ ~pr.isWordSize /\ 1 <= Len(pr.buffer)
        /\ Len(pr.buffer) < pr.readlen /\ pr.readlen = Len(code[p + 1])
  /\ r = "relayed" => pr.cliIn = place[p] /\ pr.cliOut = place[p]

Frame(r, s, d, out, toP, w, pr, rc, place, code, p) ==
  /\ Sayings(r, s, out, place, code)
  /\ Handled(s, d, p)
  /\ Reading(r, rc, w, place, code, Len(d), p)
  /\ Passing(r, pr, toP, place, code, p, Len(s))
  /\ r = "reply" => Len(d) = p
  /\ r \notin {"relayed", "reply"} => p = Len(s)

\* InOrder is not inductive: what is on its way, and how far each loop is with
\* it, has to be known.
FrameInv ==
  split \/ \E place, code, p :
             Frame(route, sent, delivered, outLoc, toProxy, wire, proxy, receiver, place, code, p)

\* What a packet is sent as has at least the bytes of a header.
LEMMA CodedIs ==
  ASSUME NEW r, NEW packet \in Streams, Len(packet) >= 2, NEW loc \in Nat
  PROVE  /\ Coded(r, packet, loc) \in Streams
         /\ Len(Coded(r, packet, loc)) >= HeaderOn(r)
  <1>1. CASE r \in {"hub", "isc"}
    <2>1. <<>> \in Streams /\ Len(<<>>) = 0 /\ \A i \in 1..0 : <<>>[i] = ISCPacket(packet)[i]
      BY EmptySeq DEF Streams
    <2>2. PICK e \in Streams : e = <<>>
      BY <2>1
    <2>3. Len(e) = 0 /\ Begin(e, ISCPacket(packet))
      BY <2>1, <2>2 DEF Begin
    <2>4. ISCPacket(packet) \in Streams
      <3>1. WordBytes(Len(packet) + 2) \in Streams
        <4>1. Len(packet) + 2 \in Nat
          BY LenProperties DEF Streams
        <4> QED BY <4>1, WordFits
      <3> QED BY <3>1, StreamsConcat DEF ISCPacket
    <2>5. Len(e) <= Len(ISCPacket(packet))
      <3>1. Len(ISCPacket(packet)) \in Nat
        BY <2>4, LenProperties DEF Streams
      <3> QED BY <2>3, <3>1
    <2>6. Len(ISCPacket(packet)) >= 4
      BY <2>3, <2>5, ISCCodeIs
    <2> QED BY <1>1, <2>4, <2>6 DEF Coded, HeaderOn
  <1>2. CASE r \notin {"hub", "isc"}
    <2>1. PICK e : e = IF r \in {"direct", "relayed"} THEN Crypt(packet, loc) ELSE packet
      OBVIOUS
    <2>2. e \in Streams /\ Len(e) >= 2
      BY <2>1, CryptTwice
    <2>3. GameCode(e) \in Streams /\ Len(GameCode(e)) >= 3
      BY <2>2, GameCodeIs
    <2>4. Coded(r, packet, loc) = GameCode(e) /\ HeaderOn(r) = 3
      BY <1>2, <2>1 DEF Coded, HeaderOn
    <2> QED BY <2>3, <2>4
  <1> QED BY <1>1, <1>2

\* What a game packet is sent as.
LEMMA GameCoded ==
  ASSUME NEW r, r \notin {"hub", "isc"}, NEW packet \in Streams, Len(packet) >= 2, NEW loc \in Nat
  PROVE  \E e \in Streams :
           /\ Len(e) = Len(packet) /\ Len(e) >= 2 /\ Coded(r, packet, loc) = GameCode(e)
           /\ r \in {"direct", "relayed"} => Crypt(e, loc) = packet /\ Crypt(packet, loc) = e
           /\ r \notin {"direct", "relayed"} => e = packet
  <1>1. PICK e : e = IF r \in {"direct", "relayed"} THEN Crypt(packet, loc) ELSE packet
    OBVIOUS
  <1>2. e \in Streams /\ Len(e) = Len(packet)
    BY <1>1, CryptTwice
  <1>3. r \in {"direct", "relayed"} => Crypt(e, loc) = packet /\ Crypt(packet, loc) = e
    BY <1>1, CryptTwice
  <1>4. Coded(r, packet, loc) = GameCode(e)
    BY <1>1 DEF Coded
  <1> QED BY <1>1, <1>2, <1>3, <1>4

\* The rest of what is to be said does not matter to what is under way.
LEMMA SaysSame ==
  ASSUME NEW stream, NEW code, NEW more, NEW i \in Nat, NEW j \in Nat,
         Says(stream, code, i, j), \A n \in 1..j : more[n] = code[n]
  PROVE  Says(stream, more, i, j)
  <1>1. PICK rest : /\ rest[i] = stream /\ rest[j] = <<>>
                    /\ \A n \in i..j : rest[n] \in Streams
                    /\ \A n \in i..j : n < j => code[n + 1] \in Streams /\ rest[n] = code[n + 1] \o rest[n + 1]
    BY DEF Says
  <1>2. \A n \in i..j : n < j => n + 1 \in 1..j
    OBVIOUS
  <1>3. \A n \in i..j : n < j => more[n + 1] \in Streams /\ rest[n] = more[n + 1] \o rest[n + 1]
    BY <1>1, <1>2
  <1> QED BY <1>1, <1>3 DEF Says

\* A loop is never handed more than it asks for, nor more than there is.
LEMMA ChunkFits ==
  ASSUME NEW stream \in Streams, NEW room \in Int, NEW k \in Chunks(stream, room)
  PROVE  k \in 1..Len(stream) /\ k <= room
  <1>1. PICK l \in Nat : l = Len(stream)
    BY LenProperties DEF Streams
  <1>2. \E x \in {room, l} : \A y \in {room, l} : x <= y
    <2>1. CASE room <= l
      BY <2>1
    <2>2. CASE ~(room <= l)
      BY <2>2
    <2> QED BY <2>1, <2>2
  <1>3. PICK x : x = Min({room, l}) /\ x \in {room, l} /\ \A y \in {room, l} : x <= y
    BY <1>2 DEF Min
  <1>4. k \in 1..x
    BY <1>1, <1>3 DEF Chunks
  <1>5. x \in Int /\ x <= room /\ x <= l
    BY <1>3
  <1> QED BY <1>1, <1>4, <1>5

\* What a loop holds is the beginning of the packet it is reading.
LEMMA Begins ==
  ASSUME NEW buffer \in Streams, NEW rest \in Streams, NEW code \in [Nat -> Streams],
         NEW i \in Nat, NEW j \in Nat, i <= j, Says(buffer \o rest, code, i, j),
         Len(buffer) # 0, i < j => Len(buffer) <= Len(code[i + 1])
  PROVE  /\ i < j
         /\ Begin(buffer, code[i + 1])
         /\ Len(buffer) = Len(code[i + 1]) => buffer = code[i + 1] /\ Says(rest, code, i + 1, j)
  <1> PICK st : st = buffer \o rest
    OBVIOUS
  <1>1. st # <<>>
    <2>1. Len(st) = Len(buffer) + Len(rest)
      BY StreamsConcat
    <2>2. PICK x, y \in Nat : x = Len(buffer) /\ y = Len(rest)
      BY LenProperties DEF Streams
    <2>3. Len(<<>>) = 0
      BY EmptySeq
    <2> QED BY <2>1, <2>2, <2>3
  <1>2. Says(st, code, i, j)
    OBVIOUS
  <1>3. i < j /\ \E after \in Streams : Says(after, code, i + 1, j) /\ st = code[i + 1] \o after
    <2>1. SaysOne(st, code, i, j)
      BY <1>1, <1>2, SaysNext
    <2> QED BY <2>1 DEF SaysOne
  <1>4. PICK after \in Streams : Says(after, code, i + 1, j) /\ st = code[i + 1] \o after
    BY <1>3
  <1>5. PICK c \in Streams : c = code[i + 1]
    OBVIOUS
  <1>6. buffer \o rest = c \o after /\ Len(buffer) <= Len(c)
    BY <1>3, <1>4, <1>5
  <1>7. Cuts(buffer, rest, c, after)
    BY <1>6, ShorterBegins
  <1> QED BY <1>3, <1>4, <1>5, <1>7 DEF Begin, Cuts

\* recv() of k bytes.
Taken(buf, stream, k, buffer, rest) ==
  buffer = buf \o SubSeq(stream, 1, k) /\ rest = SubSeq(stream, k + 1, Len(stream))

\* A loop reads on in the packet it is reading.
HasRead(buf, k, code, i, j, buffer, rest) ==
  /\ i < j
  /\ buffer \in Streams /\ Len(buffer) = Len(buf) + k /\ rest \in Streams
  /\ Says(buffer \o rest, code, i, j)
  /\ Begin(buffer, code[i + 1])
  /\ Len(buffer) = Len(code[i + 1]) => buffer = code[i + 1] /\ Says(rest, code, i + 1, j)

\* A loop that reads k bytes more has the beginning of one packet, or all of it.
LEMMA ReadOn ==
  ASSUME NEW buf \in Streams, NEW stream \in Streams, NEW k \in 1..Len(stream),
         NEW code \in [Nat -> Streams], NEW i \in Nat, NEW j \in Nat, i <= j,
         Says(buf \o stream, code, i, j), i < j => Len(buf) + k <= Len(code[i + 1]),
         NEW buffer, NEW rest, Taken(buf, stream, k, buffer, rest)
  PROVE  HasRead(buf, k, code, i, j, buffer, rest)
  <1>1. /\ buffer \in Streams /\ Len(buffer) = Len(buf) + k /\ rest \in Streams
        /\ buffer \o rest = buf \o stream
    BY Receives DEF Taken
  <1>2. Says(buffer \o rest, code, i, j)
    BY <1>1
  <1>3. Len(buffer) # 0
    <2>1. Len(buf) \in Nat /\ Len(stream) \in Nat
      BY LenProperties DEF Streams
    <2>2. Len(buf) + k # 0
      BY <2>1
    <2> QED BY <1>1, <2>2, Zenon
  <1>4. PICK b \in Streams, r \in Streams : b = buffer /\ r = rest
    BY <1>1
  <1>5. /\ Says(b \o r, code, i, j) /\ Len(b) # 0
        /\ i < j => Len(b) <= Len(code[i + 1])
    <2>1. Len(b) = Len(buf) + k
      BY <1>1, <1>4, Zenon
    <2> QED BY <1>2, <1>3, <1>4, <2>1, Zenon
  <1>6. /\ i < j
        /\ Begin(b, code[i + 1])
        /\ Len(b) = Len(code[i + 1]) => b = code[i + 1] /\ Says(r, code, i + 1, j)
    BY <1>5, Begins, Zenon
  <1> QED BY <1>1, <1>2, <1>4, <1>6, Zenon DEF HasRead

-----------------------------------------------------------------------------
(* Steps                                                                     *)

\* What is known of the packet that comes next.
LEMMA NextSaid ==
  ASSUME NEW r, NEW s, NEW out, NEW place, NEW code, Sayings(r, s, out, place, code),
         NEW i \in Nat, i < Len(s)
  PROVE  /\ s[i + 1] \in Streams /\ Len(s[i + 1]) >= 2 /\ place[i] \in Nat /\ place[i + 1] \in Nat
         /\ code[i + 1] = Coded(r, s[i + 1], place[i])
         /\ place[i + 1] = Moved(r, place[i], Len(s[i + 1]))
         /\ code[i + 1] \in Streams /\ Len(code[i + 1]) >= HeaderOn(r)
  <1>1. Len(s) \in Nat /\ \A n \in 1..Len(s) : s[n] \in Streams
    BY LenProperties, ElementOfSeq DEF Sayings
  <1>2. i + 1 \in 1..Len(s) /\ (i + 1) - 1 = i /\ i + 1 \in Nat
    BY <1>1
  <1>3. /\ s[i + 1] \in Streams /\ Len(s[i + 1]) >= 2 /\ place[i] \in Nat /\ place[i + 1] \in Nat
        /\ code[i + 1] = Coded(r, s[i + 1], place[i])
        /\ place[i + 1] = Moved(r, place[i], Len(s[i + 1]))
    BY <1>1, <1>2 DEF Sayings
  <1> QED BY <1>3, CodedIs

\* The loop of the last receiver has read on: it has to go on, it has the header
\* and asks for the rest, or it has the packet.
Turn(r, rc, place, code, m, p, buffer, rest) ==
  /\ m < p /\ buffer \in Streams /\ Len(buffer) <= rc.size
  /\ Len(buffer) <= Len(code[m + 1])
  /\ Begin(buffer, code[m + 1])
  /\ Len(buffer) # rc.size => Reading(r, [rc EXCEPT !.buffer = buffer], rest, place, code, m, p)
  /\ Len(buffer) = rc.size /\ Len(code[m + 1]) > rc.size =>
       /\ rc.size = HeaderOn(r)
       /\ Reading(r, [rc EXCEPT !.buffer = buffer, !.size = Len(code[m + 1])], rest, place, code, m, p)
  /\ Len(buffer) = rc.size /\ Len(code[m + 1]) = rc.size =>
       /\ buffer = code[m + 1]
       /\ place[m + 1] \in Nat =>
            Reading(r, [buffer |-> <<>>, size |-> HeaderOn(r), loc |-> place[m + 1]],
                    rest, place, code, m + 1, p)

\* What the last receiver has read, if it asked for no more than its header or its packet.
LEMMA ReadingOn ==
  ASSUME NEW r, NEW rc, NEW stream, NEW place, NEW code \in [Nat -> Streams],
         NEW m \in Nat, NEW p \in Nat, m <= p,
         Reading(r, rc, stream, place, code, m, p),
         m < p => Len(code[m + 1]) >= HeaderOn(r),
         NEW k \in Chunks(stream, rc.size - Len(rc.buffer)),
         NEW buffer, NEW rest, Taken(rc.buffer, stream, k, buffer, rest)
  PROVE  Turn(r, rc, place, code, m, p, buffer, rest)
  <1>1. PICK buf \in Streams, size \in Nat, loc \in Nat :
          rc = [buffer |-> buf, size |-> size, loc |-> loc]
    BY DEF Reading
  <1>2. /\ rc.buffer = buf /\ rc.size = size /\ rc.loc = loc
        /\ stream \in Streams /\ Says(buf \o stream, code, m, p) /\ Len(buf) < size
        /\ size = HeaderOn(r) \/ (m < p /\ size = Len(code[m + 1]))
        /\ loc = place[m]
    BY <1>1 DEF Reading
  <1>3. HeaderOn(r) \in Nat /\ HeaderOn(r) > 0
    BY DEF HeaderOn
  <1>4. PICK b, l, c \in Nat : b = Len(buf) /\ l = Len(stream) /\ c = Len(code[m + 1])
    <2>1. code[m + 1] \in Streams
      OBVIOUS
    <2> QED BY <1>2, <2>1, LenProperties DEF Streams
  <1>5. k \in 1..Len(stream) /\ k <= size - b
    <2>1. size - b \in Int /\ k \in Chunks(stream, size - b)
      BY <1>2, <1>4
    <2> QED BY <1>2, <2>1, ChunkFits
  <1>6. k \in Nat /\ b + k <= size /\ (m < p => b + k <= c)
    BY <1>2, <1>3, <1>4, <1>5
  <1>7. Taken(buf, stream, k, buffer, rest) /\ (m < p => Len(buf) + k <= Len(code[m + 1]))
    BY <1>2, <1>4, <1>6
  <1>8. /\ m < p
        /\ buffer \in Streams /\ Len(buffer) = Len(buf) + k /\ rest \in Streams
        /\ Says(buffer \o rest, code, m, p)
        /\ Begin(buffer, code[m + 1])
        /\ Len(buffer) = Len(code[m + 1]) => buffer = code[m + 1] /\ Says(rest, code, m + 1, p)
    <2>1. stream \in Streams /\ k \in 1..Len(stream) /\ Says(buf \o stream, code, m, p)
      BY <1>2, <1>5
    <2>2. HasRead(buf, k, code, m, p, buffer, rest)
      BY <1>7, <2>1, ReadOn
    <2> QED BY <2>2 DEF HasRead
  <1>9. PICK n \in Nat : n = Len(buffer) /\ n <= size /\ n <= c
    <2>1. Len(buffer) = b + k
      BY <1>4, <1>8, Zenon
    <2>2. b + k \in Nat /\ b + k <= size /\ b + k <= c
      BY <1>6, <1>8
    <2> QED BY <2>1, <2>2, Zenon
  <1>10. ASSUME n # size
         PROVE  Reading(r, [rc EXCEPT !.buffer = buffer], rest, place, code, m, p)
    <2>1. PICK rd : rd = [rc EXCEPT !.buffer = buffer]
      OBVIOUS
    <2>2. /\ rd \in [buffer : Streams, size : Nat, loc : Nat]
          /\ rd.buffer = buffer /\ rd.size = size /\ rd.loc = loc
      BY <1>1, <1>8, <2>1
    <2>3. Len(rd.buffer) < rd.size
      <3>1. n < size
        BY <1>9, <1>10
      <3> QED BY <1>9, <2>2, <3>1, Zenon
    <2> QED BY <1>2, <1>8, <2>1, <2>2, <2>3 DEF Reading
  <1>11. ASSUME n = size, c > size
         PROVE  /\ size = HeaderOn(r)
                /\ Reading(r, [rc EXCEPT !.buffer = buffer, !.size = Len(code[m + 1])], rest, place, code, m, p)
    <2>1. PICK rd : rd = [rc EXCEPT !.buffer = buffer, !.size = Len(code[m + 1])]
      OBVIOUS
    <2>2. /\ rd \in [buffer : Streams, size : Nat, loc : Nat]
          /\ rd.buffer = buffer /\ rd.size = Len(code[m + 1]) /\ rd.loc = loc
      BY <1>1, <1>4, <1>8, <2>1
    <2>3. Len(rd.buffer) < rd.size
      BY <1>4, <1>9, <1>11, <2>2
    <2>4. size = HeaderOn(r)
      BY <1>2, <1>4, <1>11
    <2> QED BY <1>2, <1>8, <2>1, <2>2, <2>3, <2>4 DEF Reading
  <1>12. ASSUME n = size, c = size
         PROVE  /\ buffer = code[m + 1]
                /\ place[m + 1] \in Nat =>
                     Reading(r, [buffer |-> <<>>, size |-> HeaderOn(r), loc |-> place[m + 1]],
                             rest, place, code, m + 1, p)
    <2>1. buffer = code[m + 1] /\ Says(rest, code, m + 1, p)
      BY <1>4, <1>8, <1>9, <1>12
    <2>2. ASSUME place[m + 1] \in Nat
          PROVE  Reading(r, [buffer |-> <<>>, size |-> HeaderOn(r), loc |-> place[m + 1]],
                         rest, place, code, m + 1, p)
      <3>1. PICK rd : rd = [buffer |-> <<>>, size |-> HeaderOn(r), loc |-> place[m + 1]]
        OBVIOUS
      <3>2. <<>> \in Streams /\ Len(<<>>) = 0
        BY EmptySeq DEF Streams
      <3>3. PICK e \in Streams : e = <<>> /\ Len(e) = 0
        BY <3>2
      <3>4. /\ rd \in [buffer : Streams, size : Nat, loc : Nat]
            /\ rd.buffer = e /\ rd.size = HeaderOn(r) /\ rd.loc = place[m + 1]
        BY <1>3, <2>2, <3>1, <3>3
      <3>5. e \o rest = rest
        BY <1>8, <3>3, ConcatEmptySeq DEF Streams
      <3>6. Len(rd.buffer) < rd.size
        BY <1>3, <3>3, <3>4
      <3> QED BY <1>8, <2>1, <3>1, <3>4, <3>5, <3>6 DEF Reading
    <2> QED BY <2>1, <2>2
  <1>13. /\ Len(buffer) = n /\ rc.size = size /\ Len(code[m + 1]) = c
         /\ n <= size /\ n <= c
    BY <1>2, <1>4, <1>9
  <1> QED BY <1>8, <1>10, <1>11, <1>12, <1>13 DEF Turn

\* What a worker of a server finds: how long the packet is and, when it has all of
\* it, the packet that was said.
LEMMA WorkerFinds ==
  ASSUME NEW r \in {"direct", "relayed"}, NEW s, NEW out, NEW place, NEW code,
         Sayings(r, s, out, place, code), NEW m \in Nat, m < Len(s),
         NEW buffer \in Streams, Len(buffer) <= Len(code[m + 1]), Begin(buffer, code[m + 1]),
         Len(buffer) >= 3
  PROVE  /\ PacketSize(buffer) = Len(code[m + 1])
         /\ buffer = code[m + 1] => /\ Crypt(Body(buffer), place[m]) = s[m + 1]
                                    /\ (place[m] + Len(Body(buffer))) % KeyLen = place[m + 1]
  <1>1. /\ s[m + 1] \in Streams /\ Len(s[m + 1]) >= 2 /\ place[m] \in Nat
        /\ code[m + 1] = Coded(r, s[m + 1], place[m])
        /\ place[m + 1] = Moved(r, place[m], Len(s[m + 1]))
    BY NextSaid
  <1>2. r \notin {"hub", "isc"}
    OBVIOUS
  <1>3. PICK e \in Streams :
          /\ Len(e) = Len(s[m + 1]) /\ Len(e) >= 2 /\ Coded(r, s[m + 1], place[m]) = GameCode(e)
          /\ r \in {"direct", "relayed"} => Crypt(e, place[m]) = s[m + 1]
    BY <1>1, <1>2, GameCoded, SMTT(30)
  <1>4. code[m + 1] = GameCode(e)
    BY <1>1, <1>3
  <1>5. Len(buffer) <= Len(GameCode(e)) /\ Begin(buffer, GameCode(e))
    BY <1>4
  <1>6. PacketSize(buffer) = Len(code[m + 1])
    BY <1>3, <1>4, <1>5, GameHeader
  <1>7. Body(GameCode(e)) = e
    BY <1>3, GameCodeIs
  <1> QED BY <1>1, <1>3, <1>4, <1>6, <1>7 DEF Moved

ISCBody(buffer) == SubSeq(buffer, 3, Word(buffer, 1))

\* The same in the hub and of what it sends.
LEMMA ISCFinds ==
  ASSUME NEW r \in {"hub", "isc"}, NEW s, NEW out, NEW place, NEW code,
         Sayings(r, s, out, place, code), NEW m \in Nat, m < Len(s),
         NEW buffer \in Streams, Len(buffer) <= Len(code[m + 1]), Begin(buffer, code[m + 1]),
         Len(buffer) >= 2
  PROVE  /\ Word(buffer, 1) = Len(code[m + 1])
         /\ buffer = code[m + 1] => ISCBody(buffer) = s[m + 1]
         /\ place[m + 1] = place[m]
  <1>1. /\ s[m + 1] \in Streams /\ Len(s[m + 1]) >= 2
        /\ code[m + 1] = Coded(r, s[m + 1], place[m])
        /\ place[m + 1] = Moved(r, place[m], Len(s[m + 1]))
    BY NextSaid
  <1>2. code[m + 1] = ISCPacket(s[m + 1])
    BY <1>1 DEF Coded
  <1>3. Len(buffer) <= Len(ISCPacket(s[m + 1])) /\ Begin(buffer, ISCPacket(s[m + 1]))
    BY <1>2
  <1>4. /\ Word(buffer, 1) = Len(ISCPacket(s[m + 1]))
        /\ buffer = ISCPacket(s[m + 1]) => SubSeq(buffer, 3, Word(buffer, 1)) = s[m + 1]
    BY <1>1, <1>3, ISCCodeIs
  <1> QED BY <1>1, <1>2, <1>4 DEF Moved, ISCBody

\* A packet more is handled.
LEMMA HandledMore ==
  ASSUME NEW s \in Seq(Streams), NEW d, NEW p, Handled(s, d, p), Len(d) < p
  PROVE  /\ Handled(s, Append(d, s[Len(d) + 1]), p)
         /\ Len(Append(d, s[Len(d) + 1])) = Len(d) + 1
  <1>1. Len(s) \in Nat /\ Len(d) \in Nat /\ \A n \in 1..Len(s) : s[n] \in Streams
    BY LenProperties, ElementOfSeq DEF Handled
  <1>2. PICK m \in Nat, n \in Nat : m = Len(d) /\ n = Len(s)
    BY <1>1
  <1>3. m + 1 \in 1..n /\ m + 1 <= p /\ p \in Nat /\ p <= n
    BY <1>2 DEF Handled
  <1>4. s[m + 1] \in Streams
    BY <1>1, <1>2, <1>3
  <1>5. PICK e : e = Append(d, s[m + 1])
    OBVIOUS
  <1>6. /\ e \in Seq(Streams) /\ Len(e) = m + 1 /\ e[m + 1] = s[m + 1]
        /\ \A i \in 1..m : e[i] = d[i]
    BY <1>2, <1>4, <1>5, AppendProperties DEF Handled
  <1>7. \A i \in 1..(m + 1) : e[i] = s[i]
    <2>1. \A i \in 1..m : e[i] = s[i]
      BY <1>2, <1>6 DEF Handled
    <2>2. \A i \in 1..(m + 1) : i \in 1..m \/ i = m + 1
      OBVIOUS
    <2> QED BY <1>6, <2>1, <2>2
  <1> QED BY <1>2, <1>3, <1>5, <1>6, <1>7 DEF Handled

\* A worker reads on.
LEMMA WorkerReads ==
  ASSUME NEW place, NEW code, NEW p,
         Frame(route, sent, delivered, outLoc, toProxy, wire, proxy, receiver, place, code, p),
         NEW k \in Chunks(wire, receiver.size - Len(receiver.buffer)), WorkerReceive(k)
  PROVE  Frame(route, sent, delivered', outLoc, toProxy, wire', proxy, receiver', place, code, p)
  <1>0. PICK buffer, rest : /\ buffer = receiver.buffer \o SubSeq(wire, 1, k)
                            /\ rest = SubSeq(wire, k + 1, Len(wire))
    OBVIOUS
  <1>1. Taken(receiver.buffer, wire, k, buffer, rest) /\ wire' = rest
    BY <1>0 DEF Taken, WorkerReceive
  <1>2. /\ route \in {"direct", "relayed"} /\ HeaderSize = 3 /\ HeaderOn(route) = 3
        /\ route # "reply"
    BY DEF WorkerReceive, HeaderSize, Hub, HeaderOn
  <1>3. /\ Sayings(route, sent, outLoc, place, code) /\ Handled(sent, delivered, p)
        /\ Reading(route, receiver, wire, place, code, Len(delivered), p)
    BY DEF Frame
  <1> PICK m \in Nat : m = Len(delivered)
    BY <1>3, LenProperties DEF Handled
  <1>4. /\ code \in [Nat -> Streams] /\ sent \in Seq(Streams) /\ p \in Nat /\ m <= p /\ p <= Len(sent)
        /\ Reading(route, receiver, wire, place, code, m, p)
    BY <1>3 DEF Sayings, Handled
  <1>5. m < p => Len(code[m + 1]) >= HeaderOn(route)
    <2>1. ASSUME m < p PROVE Len(code[m + 1]) >= HeaderOn(route)
      <3>1. m < Len(sent)
        BY <1>4, <2>1, LenProperties
      <3> QED BY <1>3, <3>1, NextSaid
    <2> QED BY <2>1
  <1>6. PICK size : size = receiver.size
    OBVIOUS
  <1>7. Turn(route, receiver, place, code, m, p, buffer, rest)
    BY <1>1, <1>4, <1>5, ReadingOn
  <1>8. /\ m < p /\ m < Len(sent) /\ place[m + 1] \in Nat /\ Len(code[m + 1]) >= 3
        /\ code[m + 1] \in Streams /\ buffer \in Streams /\ Begin(buffer, code[m + 1])
    <2>1. m < p /\ buffer \in Streams /\ Begin(buffer, code[m + 1])
      BY <1>7 DEF Turn
    <2>2. m < Len(sent)
      BY <1>4, <2>1, LenProperties
    <2> QED BY <1>2, <1>3, <2>1, <2>2, NextSaid
  <1>9. PICK l, c \in Nat : l = Len(buffer) /\ c = Len(code[m + 1])
    BY <1>8, LenProperties DEF Streams
  <1>10. /\ size \in Nat /\ size >= 3 /\ receiver.loc = place[m] /\ l <= size /\ l <= c
    <2>1. /\ size \in Nat /\ receiver.loc = place[m]
          /\ size = HeaderOn(route) \/ size = Len(code[m + 1])
      BY <1>4, <1>6 DEF Reading
    <2>2. l <= size /\ l <= c
      BY <1>6, <1>7, <1>9 DEF Turn
    <2> QED BY <1>2, <1>8, <2>1, <2>2
  <1>11. ASSUME l = size
         PROVE  /\ PacketSize(buffer) = c
                /\ buffer = code[m + 1] => /\ Crypt(Body(buffer), place[m]) = sent[m + 1]
                                           /\ (place[m] + Len(Body(buffer))) % KeyLen = place[m + 1]
    <2>1. l >= 3
      BY <1>10, <1>11
    <2>2. Len(buffer) >= 3 /\ Len(buffer) <= Len(code[m + 1])
      BY <1>9, <1>10, <2>1, Zenon
    <2>3. /\ PacketSize(buffer) = Len(code[m + 1])
          /\ buffer = code[m + 1] => /\ Crypt(Body(buffer), place[m]) = sent[m + 1]
                                     /\ (place[m] + Len(Body(buffer))) % KeyLen = place[m + 1]
      BY <1>2, <1>3, <1>8, <2>2, WorkerFinds, SMTT(30)
    <2> QED BY <1>9, <2>3
  <1>12. CASE l # size
    <2>1. receiver' = [receiver EXCEPT !.buffer = buffer] /\ delivered' = delivered
      BY <1>0, <1>6, <1>9, <1>12 DEF WorkerReceive
    <2>2. Reading(route, receiver', wire', place, code, Len(delivered'), p)
      BY <1>1, <1>6, <1>7, <1>9, <1>12, <2>1 DEF Turn
    <2> QED BY <2>1, <2>2 DEF Frame
  <1>13. CASE l = size /\ c > size
    <2>1. /\ size = HeaderOn(route)
          /\ Reading(route, [receiver EXCEPT !.buffer = buffer, !.size = Len(code[m + 1])], rest, place, code, m, p)
      BY <1>6, <1>7, <1>9, <1>13 DEF Turn
    <2>2. PacketSize(buffer) = c /\ PacketSize(buffer) > HeaderSize /\ receiver.size = HeaderSize
      BY <1>2, <1>6, <1>11, <1>13, <2>1
    <2>3. /\ receiver' = [receiver EXCEPT !.buffer = buffer, !.size = Len(code[m + 1])]
          /\ delivered' = delivered
      BY <1>0, <1>6, <1>9, <1>13, <2>2 DEF WorkerReceive
    <2>4. Reading(route, receiver', wire', place, code, Len(delivered'), p)
      BY <1>1, <2>1, <2>3
    <2> QED BY <2>3, <2>4 DEF Frame
  <1>14. CASE l = size /\ ~(c > size)
    <2>1. c = size
      BY <1>10, <1>14
    <2>2. /\ buffer = code[m + 1]
          /\ Reading(route, [buffer |-> <<>>, size |-> HeaderOn(route), loc |-> place[m + 1]],
                     rest, place, code, m + 1, p)
      BY <1>6, <1>7, <1>8, <1>9, <1>14, <2>1 DEF Turn
    <2>3. ~(receiver.size = HeaderSize /\ PacketSize(buffer) > HeaderSize) /\ Len(buffer) = receiver.size
      <3>1. PacketSize(buffer) = size
        BY <1>11, <1>14, <2>1
      <3> QED BY <1>2, <1>6, <1>9, <1>14, <3>1
    <2>4. /\ delivered' = Append(delivered, Crypt(Body(buffer), receiver.loc))
          /\ receiver' = Reset((receiver.loc + Len(Body(buffer))) % KeyLen)
      BY <1>0, <2>3 DEF WorkerReceive, Deliver
    <2>5. /\ delivered' = Append(delivered, sent[Len(delivered) + 1])
          /\ receiver' = [buffer |-> <<>>, size |-> HeaderOn(route), loc |-> place[m + 1]]
      BY <1>2, <1>10, <1>11, <1>14, <2>2, <2>4 DEF Reset
    <2>6. Handled(sent, delivered', p) /\ Len(delivered') = m + 1
      BY <1>3, <1>4, <1>8, <2>5, HandledMore
    <2> QED BY <1>1, <1>2, <2>2, <2>5, <2>6 DEF Frame
  <1> QED BY <1>12, <1>13, <1>14

\* The hub reads on, and ISCClient.
LEMMA ISCReads ==
  ASSUME NEW place, NEW code, NEW p,
         Frame(route, sent, delivered, outLoc, toProxy, wire, proxy, receiver, place, code, p),
         NEW k \in Chunks(wire, receiver.size - Len(receiver.buffer)), ISCReceive(k)
  PROVE  Frame(route, sent, delivered', outLoc, toProxy, wire', proxy, receiver', place, code, p)
  <1>0. PICK buffer, rest : /\ buffer = receiver.buffer \o SubSeq(wire, 1, k)
                            /\ rest = SubSeq(wire, k + 1, Len(wire))
    OBVIOUS
  <1>1. Taken(receiver.buffer, wire, k, buffer, rest) /\ wire' = rest
    BY <1>0 DEF Taken, ISCReceive
  <1>2. /\ route \in {"hub", "isc"} /\ HeaderSize = 4 /\ HeaderOn(route) = 4
        /\ route # "reply"
    BY DEF ISCReceive, HeaderSize, Hub, HeaderOn
  <1>3. /\ Sayings(route, sent, outLoc, place, code) /\ Handled(sent, delivered, p)
        /\ Reading(route, receiver, wire, place, code, Len(delivered), p)
    BY DEF Frame
  <1> PICK m \in Nat : m = Len(delivered)
    BY <1>3, LenProperties DEF Handled
  <1>4. /\ code \in [Nat -> Streams] /\ sent \in Seq(Streams) /\ p \in Nat /\ m <= p /\ p <= Len(sent)
        /\ Reading(route, receiver, wire, place, code, m, p)
    BY <1>3 DEF Sayings, Handled
  <1>5. m < p => Len(code[m + 1]) >= HeaderOn(route)
    <2>1. ASSUME m < p PROVE Len(code[m + 1]) >= HeaderOn(route)
      <3>1. m < Len(sent)
        BY <1>4, <2>1, LenProperties
      <3> QED BY <1>3, <3>1, NextSaid
    <2> QED BY <2>1
  <1>6. PICK size : size = receiver.size
    OBVIOUS
  <1>7. Turn(route, receiver, place, code, m, p, buffer, rest)
    BY <1>1, <1>4, <1>5, ReadingOn
  <1>8. /\ m < p /\ m < Len(sent) /\ place[m + 1] \in Nat /\ Len(code[m + 1]) >= 4
        /\ code[m + 1] \in Streams /\ buffer \in Streams /\ Begin(buffer, code[m + 1])
    <2>1. m < p /\ buffer \in Streams /\ Begin(buffer, code[m + 1])
      BY <1>7 DEF Turn
    <2>2. m < Len(sent)
      BY <1>4, <2>1, LenProperties
    <2> QED BY <1>2, <1>3, <2>1, <2>2, NextSaid
  <1>9. PICK l, c \in Nat : l = Len(buffer) /\ c = Len(code[m + 1])
    BY <1>8, LenProperties DEF Streams
  <1>10. /\ size \in Nat /\ size >= 4 /\ receiver.loc = place[m] /\ l <= size /\ l <= c
    <2>1. /\ size \in Nat /\ receiver.loc = place[m]
          /\ size = HeaderOn(route) \/ size = Len(code[m + 1])
      BY <1>4, <1>6 DEF Reading
    <2>2. l <= size /\ l <= c
      BY <1>6, <1>7, <1>9 DEF Turn
    <2> QED BY <1>2, <1>8, <2>1, <2>2
  <1>11. ASSUME l = size
         PROVE  /\ Word(buffer, 1) = c
                /\ buffer = code[m + 1] => ISCBody(buffer) = sent[m + 1]
                /\ place[m + 1] = place[m]
    <2>1. l >= 2
      BY <1>10, <1>11
    <2>2. Len(buffer) >= 2 /\ Len(buffer) <= Len(code[m + 1])
      BY <1>9, <1>10, <2>1, Zenon
    <2>3. /\ Word(buffer, 1) = Len(code[m + 1])
          /\ buffer = code[m + 1] => ISCBody(buffer) = sent[m + 1]
          /\ place[m + 1] = place[m]
      BY <1>2, <1>3, <1>8, <2>2, ISCFinds, SMTT(30)
    <2> QED BY <1>9, <2>3
  <1>12. CASE l # size
    <2>1. receiver' = [receiver EXCEPT !.buffer = buffer] /\ delivered' = delivered
      BY <1>0, <1>6, <1>9, <1>12 DEF ISCReceive
    <2>2. Reading(route, receiver', wire', place, code, Len(delivered'), p)
      BY <1>1, <1>6, <1>7, <1>9, <1>12, <2>1 DEF Turn
    <2> QED BY <2>1, <2>2 DEF Frame
  <1>13. CASE l = size /\ c > size
    <2>1. /\ size = HeaderOn(route)
          /\ Reading(route, [receiver EXCEPT !.buffer = buffer, !.size = Len(code[m + 1])], rest, place, code, m, p)
      BY <1>6, <1>7, <1>9, <1>13 DEF Turn
    <2>2. Word(buffer, 1) = c /\ Word(buffer, 1) > HeaderSize /\ receiver.size = HeaderSize
      BY <1>2, <1>6, <1>11, <1>13, <2>1
    <2>3. /\ receiver' = [receiver EXCEPT !.buffer = buffer, !.size = Len(code[m + 1])]
          /\ delivered' = delivered
      BY <1>0, <1>6, <1>9, <1>13, <2>2 DEF ISCReceive
    <2>4. Reading(route, receiver', wire', place, code, Len(delivered'), p)
      BY <1>1, <2>1, <2>3
    <2> QED BY <2>3, <2>4 DEF Frame
  <1>14. CASE l = size /\ ~(c > size)
    <2>1. c = size
      BY <1>10, <1>14
    <2>2. /\ buffer = code[m + 1]
          /\ Reading(route, [buffer |-> <<>>, size |-> HeaderOn(route), loc |-> place[m + 1]],
                     rest, place, code, m + 1, p)
      BY <1>6, <1>7, <1>8, <1>9, <1>14, <2>1 DEF Turn
    <2>3. ~(receiver.size = HeaderSize /\ Word(buffer, 1) > HeaderSize) /\ Len(buffer) = receiver.size
      <3>1. Word(buffer, 1) = size
        BY <1>11, <1>14, <2>1
      <3> QED BY <1>2, <1>6, <1>9, <1>14, <3>1
    <2>4. /\ delivered' = Append(delivered, ISCBody(buffer))
          /\ receiver' = Reset(receiver.loc)
      BY <1>0, <2>3 DEF ISCReceive, Deliver, ISCBody
    <2>5. /\ delivered' = Append(delivered, sent[Len(delivered) + 1])
          /\ receiver' = [buffer |-> <<>>, size |-> HeaderOn(route), loc |-> place[m + 1]]
      BY <1>2, <1>10, <1>11, <1>14, <2>2, <2>4 DEF Reset
    <2>6. Handled(sent, delivered', p) /\ Len(delivered') = m + 1
      BY <1>3, <1>4, <1>8, <2>5, HandledMore
    <2> QED BY <1>1, <1>2, <2>2, <2>5, <2>6 DEF Frame
  <1> QED BY <1>12, <1>13, <1>14

\* What the proxy finds: how long the packet is, from one byte or from three, and,
\* when it has all of it, what it passes on.
LEMMA ProxyFinds ==
  ASSUME NEW r \in {"relayed", "reply"}, NEW s, NEW out, NEW place, NEW code,
         Sayings(r, s, out, place, code), NEW p \in Nat, p < Len(s),
         NEW buffer \in Streams, Len(buffer) <= Len(code[p + 1]), Begin(buffer, code[p + 1]),
         Len(buffer) >= 1
  PROVE  /\ Long(buffer) <=> Long(code[p + 1])
         /\ ~Long(buffer) => PacketSize(buffer) = Len(code[p + 1])
         /\ Len(buffer) >= 3 /\ Long(buffer) => LongSize(buffer) = Len(code[p + 1])
  <1>1. /\ s[p + 1] \in Streams /\ Len(s[p + 1]) >= 2 /\ place[p] \in Nat
        /\ code[p + 1] = Coded(r, s[p + 1], place[p])
    BY NextSaid
  <1>2. r \notin {"hub", "isc"}
    OBVIOUS
  <1>3. PICK e \in Streams : Len(e) >= 2 /\ Coded(r, s[p + 1], place[p]) = GameCode(e)
    BY <1>1, <1>2, GameCoded, SMTT(30)
  <1>4. code[p + 1] = GameCode(e)
    BY <1>1, <1>3
  <1>5. Len(buffer) <= Len(GameCode(e)) /\ Begin(buffer, GameCode(e))
    BY <1>4
  <1>6. Long(GameCode(e)) <=> Len(e) + 1 > Radix - 1
    BY <1>3, GameCodeIs
  <1>7. /\ Long(buffer) <=> Len(e) + 1 > Radix - 1
        /\ ~Long(buffer) => PacketSize(buffer) = Len(GameCode(e))
        /\ Len(buffer) >= 3 /\ Long(buffer) => LongSize(buffer) = Len(GameCode(e))
    BY <1>3, <1>5, GameHeader
  <1> QED BY <1>4, <1>6, <1>7

\* A packet with a long header has more than the header.
LEMMA LongIsLong ==
  ASSUME NEW r \in {"relayed", "reply"}, NEW s, NEW out, NEW place, NEW code,
         Sayings(r, s, out, place, code), NEW p \in Nat, p < Len(s), Long(code[p + 1])
  PROVE  Len(code[p + 1]) > 3
  <1>1. /\ s[p + 1] \in Streams /\ Len(s[p + 1]) >= 2 /\ place[p] \in Nat
        /\ code[p + 1] = Coded(r, s[p + 1], place[p])
    BY NextSaid
  <1>2. r \notin {"hub", "isc"}
    OBVIOUS
  <1>3. PICK e \in Streams : Len(e) >= 2 /\ Coded(r, s[p + 1], place[p]) = GameCode(e)
    BY <1>1, <1>2, GameCoded, SMTT(30)
  <1>4. code[p + 1] = GameCode(e)
    BY <1>1, <1>3
  <1>5. PICK n \in Nat : n = Len(e) /\ n >= 2
    BY <1>3, LenProperties DEF Streams
  <1>6. n + 1 > Radix - 1
    <2>1. Long(GameCode(e)) <=> Len(e) + 1 > Radix - 1
      BY <1>3, GameCodeIs
    <2> QED BY <1>4, <1>5, <2>1
  <1>7. Len(HeaderOf(n)) = 3
    BY <1>6, HeaderBytes
  <1>8. Len(GameCode(e)) = Len(HeaderOf(Len(e))) + Len(e)
    BY <1>3, GameCodeIs
  <1>9. Len(GameCode(e)) = 3 + n
    BY <1>5, <1>7, <1>8, Zenon
  <1> QED BY <1>4, <1>5, <1>9

\* What is passed on to the server is what the client sent, to the client what
\* the server said.
Passes(r, s, place, code, p, buffer, w) ==
  /\ r = "relayed" =>
       /\ (w \o SubSeq(buffer, 1, DecStart(buffer))) \o Crypt(Crypt(Body(buffer), place[p]), place[p])
            = w \o code[p + 1]
       /\ (place[p] + Len(Body(buffer))) % KeyLen = place[p + 1]
  /\ r = "reply" => Body(buffer) = s[p + 1] /\ place[p + 1] = place[p]

\* A whole packet is passed on by the proxy as the last receiver expects it.
LEMMA ProxyPasses ==
  ASSUME NEW r \in {"relayed", "reply"}, NEW s, NEW out, NEW place, NEW code,
         Sayings(r, s, out, place, code), NEW p \in Nat, p < Len(s),
         NEW buffer, buffer = code[p + 1], NEW w \in Streams
  PROVE  Passes(r, s, place, code, p, buffer, w)
  <1>1. /\ s[p + 1] \in Streams /\ Len(s[p + 1]) >= 2 /\ place[p] \in Nat
        /\ code[p + 1] = Coded(r, s[p + 1], place[p])
        /\ place[p + 1] = Moved(r, place[p], Len(s[p + 1]))
    BY NextSaid
  <1>2. r \notin {"hub", "isc"}
    OBVIOUS
  <1>3. PICK e \in Streams :
          /\ Len(e) = Len(s[p + 1]) /\ Len(e) >= 2 /\ Coded(r, s[p + 1], place[p]) = GameCode(e)
          /\ r \notin {"direct", "relayed"} => e = s[p + 1]
    BY <1>1, <1>2, GameCoded, SMTT(30)
  <1>4. buffer = GameCode(e)
    BY <1>1, <1>3
  <1>5. /\ Body(GameCode(e)) = e
        /\ SubSeq(GameCode(e), 1, DecStart(GameCode(e))) = HeaderOf(Len(e))
    BY <1>3, GameCodeIs
  <1>6. PICK h \in Streams : h = HeaderOf(Len(e))
    <2>1. Len(e) \in Nat
      BY LenProperties DEF Streams
    <2> QED BY <2>1, HeaderBytes
  <1>7. Body(buffer) = e /\ SubSeq(buffer, 1, DecStart(buffer)) = h /\ code[p + 1] = h \o e
    <2>1. GameCode(e) = h \o e
      BY <1>6 DEF GameCode
    <2> QED BY <1>4, <1>5, <1>6, <2>1, Zenon
  <1>8. Crypt(Crypt(e, place[p]), place[p]) = e
    BY <1>1, CryptTwice
  <1>9. (w \o h) \o e = w \o (h \o e)
    <2>1. Joins(w, h, e)
      BY StreamsJoin
    <2> QED BY <2>1 DEF Joins
  <1>10. r = "relayed" =>
           (w \o SubSeq(buffer, 1, DecStart(buffer))) \o Crypt(Crypt(Body(buffer), place[p]), place[p])
             = w \o code[p + 1]
    BY <1>7, <1>8, <1>9, Zenon
  <1>11. r = "relayed" => (place[p] + Len(Body(buffer))) % KeyLen = place[p + 1]
    BY <1>1, <1>3, <1>7 DEF Moved
  <1>12. r = "reply" => Body(buffer) = s[p + 1] /\ place[p + 1] = place[p]
    BY <1>1, <1>3, <1>7 DEF Moved
  <1> QED BY <1>10, <1>11, <1>12, Zenon DEF Passes

\* The proxy has read on: it has the first byte, or the long size, or the packet,
\* or it has to go on.
ProxyReadlen(pr, buffer) == IF pr.isWordSize THEN LongSize(buffer) ELSE pr.readlen

ProxyTurn(r, pr, place, code, p, n, buffer, rest) ==
  /\ p < n /\ buffer \in Streams
  /\ Len(buffer) # ProxyReadlen(pr, buffer) =>
       Passing(r, [pr EXCEPT !.buffer = buffer, !.readlen = ProxyReadlen(pr, buffer), !.isWordSize = FALSE],
               rest, place, code, p, n)
  /\ Len(buffer) = ProxyReadlen(pr, buffer) /\ Len(buffer) = 1 =>
       Passing(r, [pr EXCEPT !.buffer = buffer, !.isWordSize = Long(buffer),
                             !.readlen = IF Long(buffer) THEN 3 ELSE PacketSize(buffer)],
               rest, place, code, p, n)
  /\ Len(buffer) = ProxyReadlen(pr, buffer) /\ Len(buffer) # 1 =>
       /\ buffer = code[p + 1] /\ rest \in Streams
       /\ Says(rest, code, p + 1, n)

\* What the proxy has read, if it is not the long size of a packet.
LEMMA PassingOn ==
  ASSUME NEW r \in {"relayed", "reply"}, NEW s, NEW out, NEW place, NEW code,
         Sayings(r, s, out, place, code), NEW p \in Nat, NEW n \in Nat, n = Len(s), p <= n,
         NEW pr, NEW stream, Passing(r, pr, stream, place, code, p, n),
         NEW k \in Chunks(stream, pr.readlen - Len(pr.buffer)),
         NEW buffer, NEW rest, Taken(pr.buffer, stream, k, buffer, rest),
         ~(pr.isWordSize /\ Len(buffer) = 2)
  PROVE  ProxyTurn(r, pr, place, code, p, n, buffer, rest)
  <1>1. PICK buf \in Streams, readlen \in Nat, word \in BOOLEAN, in \in Nat, on \in Nat :
          pr = [buffer |-> buf, readlen |-> readlen, isWordSize |-> word, cliIn |-> in, cliOut |-> on]
    BY DEF Passing
  <1>2. /\ pr.buffer = buf /\ pr.readlen = readlen /\ pr.isWordSize = word
        /\ pr.cliIn = in /\ pr.cliOut = on
    BY <1>1
  <1>3. /\ stream \in Streams /\ Says(buf \o stream, code, p, n)
        /\ \/ buf = <<>> /\ readlen = 1 /\ ~word
           \/ p < n /\ word /\ Len(buf) = 1 /\ readlen = 3 /\ Long(code[p + 1])
           \/ p < n /\ ~word /\ 1 <= Len(buf) /\ Len(buf) < readlen /\ readlen = Len(code[p + 1])
        /\ r = "relayed" => in = place[p] /\ on = place[p]
    BY <1>2 DEF Passing
  <1>4. p < n => /\ code[p + 1] \in Streams /\ Len(code[p + 1]) >= 3
                 /\ Long(code[p + 1]) => Len(code[p + 1]) > 3
    BY NextSaid, LongIsLong DEF HeaderOn
  <1>5. code \in [Nat -> Streams]
    BY DEF Sayings
  <1>6. PICK b, c \in Nat : b = Len(buf) /\ c = Len(code[p + 1])
    <2>1. code[p + 1] \in Streams
      BY <1>5
    <2> QED BY <2>1, LenProperties DEF Streams
  <1>7. \/ b = 0 /\ readlen = 1 /\ ~word
        \/ p < n /\ word /\ b = 1 /\ readlen = 3 /\ Long(code[p + 1]) /\ c > 3
        \/ p < n /\ ~word /\ 1 <= b /\ b < readlen /\ readlen = c
    <2>1. Len(<<>>) = 0
      BY EmptySeq
    <2> QED BY <1>3, <1>4, <1>6, <2>1
  <1>8. k \in 1..Len(stream) /\ k <= readlen - b
    <2>1. readlen - b \in Int /\ k \in Chunks(stream, readlen - b)
      BY <1>2, <1>6
    <2> QED BY <1>3, <2>1, ChunkFits
  <1>9. p < n => b + k <= c
    BY <1>4, <1>6, <1>7, <1>8
  <1>10. Taken(buf, stream, k, buffer, rest) /\ (p < n => Len(buf) + k <= Len(code[p + 1]))
    BY <1>2, <1>6, <1>9
  <1>11. /\ p < n
         /\ buffer \in Streams /\ Len(buffer) = Len(buf) + k /\ rest \in Streams
         /\ Says(buffer \o rest, code, p, n)
         /\ Begin(buffer, code[p + 1])
         /\ Len(buffer) = Len(code[p + 1]) => buffer = code[p + 1] /\ Says(rest, code, p + 1, n)
    <2>1. stream \in Streams /\ k \in 1..Len(stream) /\ Says(buf \o stream, code, p, n)
      BY <1>3, <1>8
    <2>2. HasRead(buf, k, code, p, n, buffer, rest)
      BY <1>5, <1>10, <2>1, ReadOn
    <2> QED BY <2>2 DEF HasRead
  <1>12. PICK l \in Nat : l = Len(buffer) /\ l = b + k /\ l <= c /\ l >= 1
    <2>1. Len(buffer) = b + k
      BY <1>6, <1>11, Zenon
    <2>2. k \in Nat /\ k >= 1
      <3>1. Len(stream) \in Nat
        BY <1>3, LenProperties DEF Streams
      <3> QED BY <1>8, <3>1
    <2>3. b + k \in Nat /\ b + k <= c /\ b + k >= 1
      BY <1>9, <1>11, <2>2
    <2> QED BY <2>1, <2>3, Zenon
  <1>13. /\ Long(buffer) <=> Long(code[p + 1])
         /\ ~Long(buffer) => PacketSize(buffer) = c
         /\ l >= 3 /\ Long(buffer) => LongSize(buffer) = c
    <2>1. p < Len(s) /\ Len(buffer) <= Len(code[p + 1]) /\ Len(buffer) >= 1
      <3>1. Len(buffer) <= Len(code[p + 1]) /\ Len(buffer) >= 1
        BY <1>6, <1>12, Zenon
      <3> QED BY <1>11, <3>1
    <2>2. /\ Long(buffer) <=> Long(code[p + 1])
          /\ ~Long(buffer) => PacketSize(buffer) = Len(code[p + 1])
          /\ Len(buffer) >= 3 /\ Long(buffer) => LongSize(buffer) = Len(code[p + 1])
      BY <1>11, <2>1, ProxyFinds
    <2> QED BY <1>6, <1>12, <2>2, Zenon
  <1>14. PICK L : L = ProxyReadlen(pr, buffer)
    OBVIOUS
  <1>15. \/ l = 1 /\ L = 1 /\ ~word
         \/ l # 1 /\ l <= L /\ L = c
    <2>1. CASE word
      <3>1. l # 2
        BY <1>2, <1>12, <2>1
      <3>2. l = 3 /\ Long(buffer) /\ c > 3
        BY <1>7, <1>8, <1>12, <1>13, <2>1, <3>1
      <3>3. L = c
        BY <1>2, <1>13, <1>14, <2>1, <3>2 DEF ProxyReadlen
      <3> QED BY <1>12, <3>2, <3>3
    <2>2. CASE ~word
      <3>1. L = readlen
        BY <1>2, <1>14, <2>2 DEF ProxyReadlen
      <3> QED BY <1>7, <1>8, <1>12, <2>2, <3>1
    <2> QED BY <1>1, <2>1, <2>2
  <1>16. ASSUME l # L
         PROVE  Passing(r, [pr EXCEPT !.buffer = buffer, !.readlen = L, !.isWordSize = FALSE],
                        rest, place, code, p, n)
    <2>1. PICK pq : pq = [pr EXCEPT !.buffer = buffer, !.readlen = L, !.isWordSize = FALSE]
      OBVIOUS
    <2>2. L = c /\ l < c /\ L \in Nat
      BY <1>15, <1>16
    <2>3. /\ pq \in [buffer : Streams, readlen : Nat, isWordSize : BOOLEAN, cliIn : Nat, cliOut : Nat]
          /\ pq.buffer = buffer /\ pq.readlen = L /\ pq.isWordSize = FALSE
          /\ pq.cliIn = in /\ pq.cliOut = on
      BY <1>1, <1>11, <2>1, <2>2
    <2>4. 1 <= Len(pq.buffer) /\ Len(pq.buffer) < pq.readlen /\ pq.readlen = Len(code[p + 1])
      BY <1>6, <1>12, <2>2, <2>3
    <2> QED BY <1>3, <1>11, <2>1, <2>3, <2>4 DEF Passing
  <1>17. ASSUME l = L, l = 1
         PROVE  Passing(r, [pr EXCEPT !.buffer = buffer, !.isWordSize = Long(buffer),
                                      !.readlen = IF Long(buffer) THEN 3 ELSE PacketSize(buffer)],
                        rest, place, code, p, n)
    <2>1. PICK x : x = IF Long(buffer) THEN 3 ELSE PacketSize(buffer)
      OBVIOUS
    <2>2. PICK pq : pq = [pr EXCEPT !.buffer = buffer, !.isWordSize = Long(buffer), !.readlen = x]
      OBVIOUS
    <2>3. x \in Nat /\ Long(buffer) \in BOOLEAN
      BY <1>13, <2>1 DEF Long
    <2>4. /\ pq \in [buffer : Streams, readlen : Nat, isWordSize : BOOLEAN, cliIn : Nat, cliOut : Nat]
          /\ pq.buffer = buffer /\ pq.readlen = x /\ pq.isWordSize = Long(buffer)
          /\ pq.cliIn = in /\ pq.cliOut = on
      BY <1>1, <1>11, <2>2, <2>3
    <2>5. c >= 3
      BY <1>4, <1>6, <1>11
    <2>6. \/ p < n /\ pq.isWordSize /\ Len(pq.buffer) = 1 /\ pq.readlen = 3 /\ Long(code[p + 1])
          \/ /\ p < n /\ ~pq.isWordSize /\ 1 <= Len(pq.buffer)
             /\ Len(pq.buffer) < pq.readlen /\ pq.readlen = Len(code[p + 1])
      <3>1. CASE Long(buffer)
        BY <1>11, <1>12, <1>13, <1>17, <2>1, <2>4, <3>1
      <3>2. CASE ~Long(buffer)
        <4>1. x = c /\ 1 < c
          BY <1>13, <2>1, <2>5, <3>2
        <4> QED BY <1>6, <1>11, <1>12, <1>17, <2>4, <3>2, <4>1
      <3> QED BY <3>1, <3>2
    <2> QED BY <1>3, <1>11, <2>1, <2>2, <2>4, <2>6 DEF Passing
  <1>18. ASSUME l = L, l # 1
         PROVE  buffer = code[p + 1] /\ rest \in Streams /\ Says(rest, code, p + 1, n)
    <2>1. l = c
      BY <1>15, <1>18
    <2> QED BY <1>6, <1>11, <1>12, <2>1
  <1> QED BY <1>11, <1>12, <1>14, <1>16, <1>17, <1>18 DEF ProxyTurn

\* A stream on which nothing more comes is empty.
LEMMA SaysEnd ==
  ASSUME NEW stream, NEW code, NEW i \in Nat, Says(stream, code, i, i)
  PROVE  stream = <<>>
  BY DEF Says

Agree(more, code, n) == \A x \in 1..n : more[x] = code[x]

\* A receiver does not mind what comes behind what is on its way.
LEMMA ReadingLonger ==
  ASSUME NEW r, NEW rc, NEW w, NEW place, NEW code, NEW m \in Nat, NEW p \in Nat, m <= p,
         Reading(r, rc, w, place, code, m, p), NEW later, NEW more,
         Agree(more, code, p), later[m] = place[m]
  PROVE  /\ Reading(r, rc, w, later, more, m, p)
         /\ more[p + 1] \in Streams => Reading(r, rc, w \o more[p + 1], later, more, m, p + 1)
  <1>1. PICK buf \in Streams : buf = rc.buffer
    BY DEF Reading
  <1>2. /\ rc \in [buffer : Streams, size : Nat, loc : Nat] /\ w \in Streams
        /\ Says(buf \o w, code, m, p) /\ Len(buf) < rc.size /\ rc.loc = later[m]
        /\ rc.size = HeaderOn(r) \/ (m < p /\ rc.size = Len(code[m + 1]))
    BY <1>1 DEF Reading
  <1>3. Says(buf \o w, more, m, p)
    BY <1>2, SaysSame DEF Agree
  <1>4. m < p => more[m + 1] = code[m + 1]
    <2>1. m < p => m + 1 \in 1..p
      OBVIOUS
    <2> QED BY <2>1 DEF Agree
  <1>5. Reading(r, rc, w, later, more, m, p)
    BY <1>1, <1>2, <1>3, <1>4 DEF Reading
  <1>6. ASSUME more[p + 1] \in Streams
        PROVE  Reading(r, rc, w \o more[p + 1], later, more, m, p + 1)
    <2>1. PICK c \in Streams : c = more[p + 1]
      BY <1>6
    <2>2. Says((buf \o w) \o more[p + 1], more, m, p + 1)
      BY <1>3, <1>6, SaysMore
    <2>3. (buf \o w) \o c = buf \o (w \o c) /\ w \o c \in Streams
      <3>1. w \in Streams
        BY <1>2
      <3>2. (buf \o w) \o c = buf \o (w \o c)
        <4>1. Joins(buf, w, c)
          BY <3>1, StreamsJoin
        <4> QED BY <4>1 DEF Joins
      <3>3. w \o c \in Streams
        BY <3>1, StreamsConcat
      <3> QED BY <3>2, <3>3
    <2>4. PICK wc \in Streams : wc = w \o c
      BY <2>3
    <2>5. Says(buf \o wc, more, m, p + 1)
      BY <2>1, <2>2, <2>3, <2>4, Zenon
    <2>6. m < p => m < p + 1
      OBVIOUS
    <2>7. Reading(r, rc, wc, later, more, m, p + 1)
      BY <1>1, <1>2, <1>4, <2>4, <2>5, <2>6 DEF Reading
    <2> QED BY <2>1, <2>4, <2>7
  <1> QED BY <1>5, <1>6

\* Nor does the proxy.
LEMMA PassingLonger ==
  ASSUME NEW r, NEW pr, NEW w, NEW place, NEW code, NEW p \in Nat, NEW n \in Nat, p <= n,
         Passing(r, pr, w, place, code, p, n), NEW later, NEW more,
         Agree(more, code, n), later[p] = place[p], more[n + 1] \in Streams
  PROVE  Passing(r, pr, w \o more[n + 1], later, more, p, n + 1)
  <1>1. PICK buf \in Streams : buf = pr.buffer
    BY DEF Passing
  <1>2. /\ pr \in [buffer : Streams, readlen : Nat, isWordSize : BOOLEAN, cliIn : Nat, cliOut : Nat]
        /\ w \in Streams /\ Says(buf \o w, code, p, n)
        /\ r = "relayed" => pr.cliIn = later[p] /\ pr.cliOut = later[p]
    BY <1>1 DEF Passing
  <1>3. Says(buf \o w, more, p, n)
    BY <1>2, SaysSame DEF Agree
  <1>4. p < n => more[p + 1] = code[p + 1] /\ p < n + 1
    <2>1. p < n => p + 1 \in 1..n /\ p < n + 1
      OBVIOUS
    <2> QED BY <2>1 DEF Agree
  <1>5. PICK c \in Streams : c = more[n + 1]
    OBVIOUS
  <1>6. Says((buf \o w) \o more[n + 1], more, p, n + 1)
    BY <1>3, SaysMore
  <1>7. (buf \o w) \o c = buf \o (w \o c) /\ w \o c \in Streams
    <2>1. w \in Streams
      BY <1>2
    <2>2. (buf \o w) \o c = buf \o (w \o c)
      <3>1. Joins(buf, w, c)
        BY <2>1, StreamsJoin
      <3> QED BY <3>1 DEF Joins
    <2>3. w \o c \in Streams
      BY <2>1, StreamsConcat
    <2> QED BY <2>2, <2>3
  <1>8. PICK wc \in Streams : wc = w \o c
    BY <1>7
  <1>9. Says(buf \o wc, more, p, n + 1)
    BY <1>5, <1>6, <1>7, <1>8, Zenon
  <1>10. \/ pr.buffer = <<>> /\ pr.readlen = 1 /\ ~pr.isWordSize
         \/ p < n /\ pr.isWordSize /\ Len(pr.buffer) = 1 /\ pr.readlen = 3 /\ Long(code[p + 1])
         \/ /\ p < n /\ ~pr.isWordSize /\ 1 <= Len(pr.buffer)
            /\ Len(pr.buffer) < pr.readlen /\ pr.readlen = Len(code[p + 1])
    BY DEF Passing
  <1>11. \/ pr.buffer = <<>> /\ pr.readlen = 1 /\ ~pr.isWordSize
         \/ p < n + 1 /\ pr.isWordSize /\ Len(pr.buffer) = 1 /\ pr.readlen = 3 /\ Long(more[p + 1])
         \/ /\ p < n + 1 /\ ~pr.isWordSize /\ 1 <= Len(pr.buffer)
            /\ Len(pr.buffer) < pr.readlen /\ pr.readlen = Len(more[p + 1])
    BY <1>4, <1>10
  <1>12. Passing(r, pr, wc, later, more, p, n + 1)
    BY <1>1, <1>2, <1>8, <1>9, <1>11 DEF Passing
  <1> QED BY <1>5, <1>8, <1>12

\* Where there is no proxy, nothing is left to it.
LEMMA PassingNothing ==
  ASSUME NEW r, r # "relayed", NEW pr, NEW w, NEW place, NEW code, NEW n \in Nat,
         Passing(r, pr, w, place, code, n, n), NEW later, NEW more
  PROVE  Passing(r, pr, w, later, more, n + 1, n + 1)
  <1>1. Says(pr.buffer \o w, code, n, n)
    BY DEF Passing
  <1>2. pr.buffer \o w = <<>>
    BY <1>1, SaysEnd
  <1>3. Says(pr.buffer \o w, more, n + 1, n + 1)
    BY <1>2, SaysNothing
  <1>4. ~(n < n)
    OBVIOUS
  <1> QED BY <1>3, <1>4 DEF Passing

\* The receiver of a reply reads nothing: the proxy's handler is the last.
LEMMA ReadingNothing ==
  ASSUME NEW r, NEW rc, NEW w, NEW place, NEW code, NEW m \in Nat,
         Reading(r, rc, w, place, code, m, m), place[m + 1] = place[m]
  PROVE  Reading(r, rc, w, place, code, m + 1, m + 1)
  <1>1. Says(rc.buffer \o w, code, m, m)
    BY DEF Reading
  <1>2. rc.buffer \o w = <<>>
    BY <1>1, SaysEnd
  <1>3. Says(rc.buffer \o w, code, m + 1, m + 1)
    BY <1>2, SaysNothing
  <1>4. ~(m < m)
    OBVIOUS
  <1> QED BY <1>3, <1>4 DEF Reading

\* One packet more is said.
Longer(r, s, out, place, code, later, more, n, c) ==
  /\ Sayings(r, s, out, later, more)
  /\ more[n + 1] = c
  /\ \A x \in 0..n : later[x] = place[x]
  /\ Agree(more, code, n)

\* A packet sent after the others leaves what was said of them.
LEMMA SayingsMore ==
  ASSUME NEW r, NEW s, NEW out, NEW place, NEW code, Sayings(r, s, out, place, code),
         NEW packet \in Streams, Len(packet) >= 2,
         NEW n \in Nat, n = Len(s),
         NEW out2 \in Nat, out2 = Moved(r, out, Len(packet)),
         NEW c \in Streams, c = Coded(r, packet, out),
         NEW later, later = [place EXCEPT ![n + 1] = out2],
         NEW more, more = [code EXCEPT ![n + 1] = c]
  PROVE  Longer(r, Append(s, packet), out2, place, code, later, more, n, c)
  <1>1. /\ s \in Seq(Streams) /\ place \in [Nat -> Nat] /\ code \in [Nat -> Streams]
        /\ place[0] = Start /\ place[n] = out
    BY DEF Sayings
  <1>2. /\ later \in [Nat -> Nat] /\ more \in [Nat -> Streams]
        /\ later[n + 1] = out2 /\ more[n + 1] = c
        /\ \A x \in Nat : x # n + 1 => later[x] = place[x] /\ more[x] = code[x]
    <2>1. \A S : \A f \in [Nat -> S], a \in Nat, b \in S :
            /\ [f EXCEPT ![a] = b] \in [Nat -> S] /\ [f EXCEPT ![a] = b][a] = b
            /\ \A x \in Nat : x # a => [f EXCEPT ![a] = b][x] = f[x]
      OBVIOUS
    <2>2. n + 1 \in Nat
      OBVIOUS
    <2>3. /\ later \in [Nat -> Nat] /\ later[n + 1] = out2
          /\ \A x \in Nat : x # n + 1 => later[x] = place[x]
      BY <1>1, <2>1, <2>2
    <2>4. /\ more \in [Nat -> Streams] /\ more[n + 1] = c
          /\ \A x \in Nat : x # n + 1 => more[x] = code[x]
      BY <1>1, <2>1, <2>2
    <2> QED BY <2>3, <2>4
  <1>3. (\A x \in 0..n : later[x] = place[x]) /\ \A x \in 1..n : more[x] = code[x]
    BY <1>2
  <1>4. PICK t : t = Append(s, packet)
    OBVIOUS
  <1>5. /\ t \in Seq(Streams) /\ Len(t) = n + 1 /\ t[n + 1] = packet
        /\ \A x \in 1..n : t[x] = s[x]
    BY <1>1, <1>4, AppendProperties
  <1>6. ASSUME NEW x \in 1..(n + 1)
        PROVE  /\ Len(t[x]) >= 2
               /\ more[x] = Coded(r, t[x], later[x - 1])
               /\ later[x] = Moved(r, later[x - 1], Len(t[x]))
    <2>1. CASE x = n + 1
      <3>1. x - 1 = n /\ n \in 0..n
        BY <2>1
      <3>2. later[x - 1] = out
        BY <1>1, <1>3, <3>1
      <3> QED BY <1>2, <1>5, <2>1, <3>2
    <2>2. CASE x # n + 1
      <3>1. x \in 1..n /\ x \in 0..n /\ x - 1 \in 0..n
        BY <2>2
      <3>2. later[x - 1] = place[x - 1] /\ later[x] = place[x] /\ more[x] = code[x] /\ t[x] = s[x]
        BY <1>3, <1>5, <3>1
      <3>3. /\ Len(s[x]) >= 2 /\ code[x] = Coded(r, s[x], place[x - 1])
            /\ place[x] = Moved(r, place[x - 1], Len(s[x]))
        BY <3>1 DEF Sayings
      <3> QED BY <3>2, <3>3
    <2> QED BY <2>1, <2>2
  <1>7. later[0] = Start /\ later[Len(t)] = out2
    <2>1. 0 \in 0..n
      OBVIOUS
    <2> QED BY <1>1, <1>2, <1>3, <1>5, <2>1
  <1>8. Sayings(r, t, out2, later, more)
    BY <1>2, <1>5, <1>6, <1>7 DEF Sayings
  <1> QED BY <1>2, <1>3, <1>4, <1>8 DEF Longer, Agree

\* The proxy reads on, or its long header comes in pieces.
LEMMA ProxyReads ==
  ASSUME NEW place, NEW code, NEW p,
         Frame(route, sent, delivered, outLoc, toProxy, wire, proxy, receiver, place, code, p),
         NEW k \in Chunks(toProxy, proxy.readlen - Len(proxy.buffer)), ProxyReceive(k)
  PROVE  split' \/ \E q : Frame(route, sent, delivered', outLoc, toProxy', wire', proxy', receiver,
                                place, code, q)
  <1>0. PICK buffer, rest : /\ buffer = proxy.buffer \o SubSeq(toProxy, 1, k)
                            /\ rest = SubSeq(toProxy, k + 1, Len(toProxy))
    OBVIOUS
  <1>1. Taken(proxy.buffer, toProxy, k, buffer, rest) /\ toProxy' = rest
    BY <1>0 DEF Taken, ProxyReceive
  <1>2. route \in {"relayed", "reply"}
    BY DEF ProxyReceive, Relayed
  <1>3. /\ Sayings(route, sent, outLoc, place, code) /\ Handled(sent, delivered, p)
        /\ Reading(route, receiver, wire, place, code, Len(delivered), p)
        /\ Passing(route, proxy, toProxy, place, code, p, Len(sent))
        /\ route = "reply" => Len(delivered) = p
    BY DEF Frame
  <1> PICK m, n \in Nat : m = Len(delivered) /\ n = Len(sent)
    BY <1>3, LenProperties DEF Handled, Sayings
  <1>4. /\ code \in [Nat -> Streams] /\ place \in [Nat -> Nat] /\ sent \in Seq(Streams)
        /\ p \in Nat /\ m <= p /\ p <= n
    BY <1>3 DEF Sayings, Handled
  <1>5. CASE proxy.isWordSize /\ Len(buffer) = 2
    <2>1. split'
      BY <1>0, <1>5 DEF ProxyReceive
    <2> QED BY <2>1
  <1>6. CASE ~(proxy.isWordSize /\ Len(buffer) = 2)
    <2>1. Passing(route, proxy, toProxy, place, code, p, n)
      BY <1>3
    <2>2. ProxyTurn(route, proxy, place, code, p, n, buffer, rest)
      BY <1>1, <1>2, <1>3, <1>4, <1>6, <2>1, PassingOn
    <2> PICK L : L = ProxyReadlen(proxy, buffer)
      OBVIOUS
    <2>3. p < n /\ buffer \in Streams
      BY <2>2 DEF ProxyTurn
    <2>4. /\ Len(buffer) # L =>
               /\ proxy' = [proxy EXCEPT !.buffer = buffer, !.readlen = L, !.isWordSize = FALSE]
               /\ UNCHANGED <<wire, delivered>>
          /\ Len(buffer) = L /\ Len(buffer) = 1 =>
               /\ proxy' = [proxy EXCEPT !.buffer = buffer, !.isWordSize = Long(buffer),
                              !.readlen = IF Long(buffer) THEN 3 ELSE PacketSize(buffer)]
               /\ UNCHANGED <<wire, delivered>>
          /\ Len(buffer) = L /\ Len(buffer) # 1 => PassOn(buffer)
      BY <1>0, <1>6 DEF ProxyReceive, ProxyReadlen
    <2>5. CASE Len(buffer) # L
      <3>1. Passing(route, proxy', toProxy', place, code, p, n)
        BY <1>1, <2>2, <2>4, <2>5 DEF ProxyTurn
      <3>2. Frame(route, sent, delivered', outLoc, toProxy', wire', proxy', receiver, place, code, p)
        BY <2>4, <2>5, <3>1 DEF Frame
      <3> QED BY <3>2
    <2>6. CASE Len(buffer) = L /\ Len(buffer) = 1
      <3>1. Passing(route, proxy', toProxy', place, code, p, n)
        BY <1>1, <2>2, <2>4, <2>6 DEF ProxyTurn
      <3>2. Frame(route, sent, delivered', outLoc, toProxy', wire', proxy', receiver, place, code, p)
        BY <2>4, <2>6, <3>1 DEF Frame
      <3> QED BY <3>2
    <2>7. CASE Len(buffer) = L /\ Len(buffer) # 1
      <3>1. buffer = code[p + 1] /\ rest \in Streams /\ Says(rest, code, p + 1, n) /\ PassOn(buffer)
        BY <2>2, <2>4, <2>7 DEF ProxyTurn
      <3>2. Handled(sent, delivered, p + 1) /\ p + 1 \in Nat /\ p + 1 <= n
        <4>1. p + 1 \in Nat /\ p + 1 <= n /\ m <= p + 1
          <5>1. p \in Nat /\ m <= p /\ p < n
            BY <1>4, <2>3, Zenon
          <5> QED BY <5>1
        <4>2. Handled(sent, delivered, p)
          BY <1>3
        <4> QED BY <4>1, <4>2 DEF Handled
      <3>3. wire \in Streams /\ place[p + 1] \in Nat
        <4>1. Reading(route, receiver, wire, place, code, Len(delivered), p)
          BY <1>3
        <4>2. p + 1 \in Nat
          BY <1>4
        <4> QED BY <1>4, <4>1, <4>2 DEF Reading
      <3>4. <<>> \in Streams /\ <<>> \o rest = rest
        BY <3>1, EmptySeq, ConcatEmptySeq DEF Streams
      <3>5. /\ route = "relayed" =>
                 /\ (wire \o SubSeq(buffer, 1, DecStart(buffer)))
                      \o Crypt(Crypt(Body(buffer), place[p]), place[p]) = wire \o code[p + 1]
                 /\ (place[p] + Len(Body(buffer))) % KeyLen = place[p + 1]
            /\ route = "reply" => Body(buffer) = sent[p + 1] /\ place[p + 1] = place[p]
        <4>1. Sayings(route, sent, outLoc, place, code) /\ p < Len(sent) /\ p \in Nat
          BY <1>3, <1>4, <2>3
        <4>2. Passes(route, sent, place, code, p, buffer, wire)
          BY <1>2, <3>1, <3>3, <4>1, ProxyPasses
        <4> QED BY <4>2 DEF Passes
      <3>6. CASE route = "relayed"
        <4>1. proxy.cliIn = place[p] /\ proxy.cliOut = place[p]
          BY <1>3, <3>6 DEF Passing
        <4>2. /\ wire' = wire \o code[p + 1] /\ delivered' = delivered
              /\ proxy' = [buffer |-> <<>>, readlen |-> 1, isWordSize |-> FALSE,
                           cliIn |-> place[p + 1], cliOut |-> place[p + 1]]
          BY <3>1, <3>5, <3>6, <4>1 DEF PassOn
        <4>3. Passing(route, proxy', toProxy', place, code, p + 1, n)
          <5>1. /\ proxy' \in [buffer : Streams, readlen : Nat, isWordSize : BOOLEAN, cliIn : Nat, cliOut : Nat]
                /\ proxy'.buffer = <<>> /\ proxy'.readlen = 1 /\ ~proxy'.isWordSize
                /\ proxy'.cliIn = place[p + 1] /\ proxy'.cliOut = place[p + 1]
            BY <3>3, <3>4, <4>2
          <5> QED BY <1>1, <3>1, <3>4, <5>1 DEF Passing
        <4>4. Reading(route, receiver, wire', place, code, m, p + 1)
          <5>1. code[p + 1] \in Streams /\ Reading(route, receiver, wire, place, code, m, p)
            BY <1>3, <1>4
          <5>2. Reading(route, receiver, wire \o code[p + 1], place, code, m, p + 1)
            BY <1>4, <5>1, ReadingLonger DEF Agree
          <5> QED BY <4>2, <5>2
        <4>5. Frame(route, sent, delivered', outLoc, toProxy', wire', proxy', receiver, place, code, p + 1)
          BY <3>2, <3>6, <4>2, <4>3, <4>4 DEF Frame
        <4> QED BY <4>5
      <3>7. CASE route = "reply"
        <4>1. m = p /\ Body(buffer) = sent[Len(delivered) + 1] /\ place[p + 1] = place[p]
          BY <1>3, <3>5, <3>7
        <4>2. /\ delivered' = Append(delivered, sent[Len(delivered) + 1]) /\ wire' = wire
              /\ proxy' = [proxy EXCEPT !.buffer = <<>>, !.readlen = 1, !.isWordSize = FALSE]
          BY <3>1, <3>7, <4>1 DEF PassOn, Deliver
        <4>3. Passing(route, proxy', toProxy', place, code, p + 1, n)
          <5>1. PICK buf \in Streams, readlen \in Nat, word \in BOOLEAN, in \in Nat, on \in Nat :
                  proxy = [buffer |-> buf, readlen |-> readlen, isWordSize |-> word, cliIn |-> in, cliOut |-> on]
            BY <1>3 DEF Passing
          <5>2. /\ proxy' \in [buffer : Streams, readlen : Nat, isWordSize : BOOLEAN, cliIn : Nat, cliOut : Nat]
                /\ proxy'.buffer = <<>> /\ proxy'.readlen = 1 /\ ~proxy'.isWordSize
            BY <3>4, <4>2, <5>1
          <5> QED BY <1>1, <3>1, <3>4, <3>7, <5>2 DEF Passing
        <4>4. Reading(route, receiver, wire', place, code, p + 1, p + 1)
          <5>1. Reading(route, receiver, wire, place, code, p, p)
            BY <1>3, <4>1
          <5> QED BY <1>4, <4>1, <4>2, <5>1, ReadingNothing
        <4>5. Handled(sent, delivered', p + 1) /\ Len(delivered') = p + 1
          <5>1. Len(delivered) < p + 1
            BY <4>1
          <5> QED BY <1>4, <3>2, <4>1, <4>2, <5>1, HandledMore
        <4>6. Frame(route, sent, delivered', outLoc, toProxy', wire', proxy', receiver, place, code, p + 1)
          BY <3>7, <4>3, <4>4, <4>5 DEF Frame
        <4> QED BY <4>6
      <3> QED BY <1>2, <3>6, <3>7
    <2> QED BY <2>5, <2>6, <2>7
  <1> QED BY <1>5, <1>6

\* Whoever receives it, the packet is sent as its code: a short header is written
\* over itself, and a packet with a long one has one recipient.
LEMMA SentTwice ==
  ASSUME NEW packet \in Streams, Len(packet) >= 2, Len(packet) + 1 <= Radix - 1
  PROVE  EncryptPacket(GameCode(packet)) = GameCode(packet)
  <1>1. PICK n \in Nat : n = Len(packet) /\ n >= 2 /\ n + 1 <= Radix - 1
    BY LenProperties DEF Streams
  <1>2. PICK c, x : c = GameCode(packet) /\ x = Plain(n)
    OBVIOUS
  <1>3. Radix \in Nat
    BY RadixBig
  <1>4. HeaderOf(n) = <<x>>
    BY <1>1, <1>2, <1>3 DEF HeaderOf
  <1>5. c = <<x>> \o packet
    BY <1>1, <1>2, <1>4 DEF GameCode
  <1>6. x \in AnyByte
    BY <1>2 DEF Plain, AnyByte
  <1>7. PICK z \in Streams : z = <<x>> /\ Len(z) = 1
    BY <1>6, FewBytes
  <1>8. /\ c \in Streams /\ Len(c) = 1 + n
        /\ \A i \in 1..(1 + n) : c[i] = IF i <= 1 THEN z[i] ELSE packet[i - 1]
    BY <1>1, <1>5, <1>7, StreamsConcat
  <1>9. Tail(c) = packet
    <2>1. c # <<>>
      BY <1>8, EmptySeq DEF Streams
    <2>2. /\ Tail(c) \in Seq(AnyByte) /\ Len(Tail(c)) = n
          /\ \A i \in 1..n : Tail(c)[i] = c[i + 1]
      BY <1>8, <2>1, HeadTailProperties DEF Streams
    <2>3. \A i \in 1..n : Tail(c)[i] = packet[i]
      BY <1>8, <2>2
    <2> QED BY <1>1, <2>2, <2>3, SeqEqual DEF Streams
  <1>10. EncryptPacket(c) = <<x>> \o packet
    <2>1. Len(c) - 1 = n /\ ~(Len(c) > Radix - 1)
      BY <1>1, <1>3, <1>8
    <2> QED BY <1>2, <1>9, <2>1 DEF EncryptPacket
  <1> QED BY <1>2, <1>5, <1>10

\* What is said fits its header.
LEMMA SaidFits ==
  ASSUME NEW n \in Lengths, Len(sent) \in Nat
  PROVE  n \in Nat /\ n >= 2 /\ PacketSaid(n) \in Streams /\ Len(PacketSaid(n)) = n
  <1>1. n \in Nat /\ n >= 2
    BY LengthsFit, RadixBig
  <1>2. PICK x : x = Plain(Len(sent) + 1)
    OBVIOUS
  <1>3. x \in AnyByte
    BY <1>2 DEF Plain, AnyByte
  <1>4. PICK q : q = PacketSaid(n)
    OBVIOUS
  <1>5. q = [i \in 1..n |-> x]
    BY <1>2, <1>4 DEF PacketSaid
  <1>6. q \in [1..n -> AnyByte]
    BY <1>3, <1>5
  <1>7. q \in Streams
    BY <1>1, <1>6, SeqDef DEF Streams
  <1>8. Len(q) = n
    <2>1. Len(q) \in Nat /\ DOMAIN q = 1..Len(q)
      BY <1>7, LenProperties DEF Streams
    <2>2. DOMAIN q = 1..n
      BY <1>5
    <2>3. \A a, b \in Nat : 1..a = 1..b => a = b
      OBVIOUS
    <2> QED BY <1>1, <2>1, <2>2, <2>3, Zenon
  <1> QED BY <1>1, <1>4, <1>7, <1>8

\* A packet is sent, to one or to several.
LEMMA Sends ==
  ASSUME NEW place, NEW code, NEW p,
         Frame(route, sent, delivered, outLoc, toProxy, wire, proxy, receiver, place, code, p),
         NEW n \in Lengths, NEW turn \in 1..2, Send(n, turn)
  PROVE  \E later, more, q : Frame(route, sent', delivered, outLoc', toProxy', wire', proxy, receiver,
                                   later, more, q)
  <1>1. /\ Sayings(route, sent, outLoc, place, code) /\ Handled(sent, delivered, p)
        /\ Reading(route, receiver, wire, place, code, Len(delivered), p)
        /\ Passing(route, proxy, toProxy, place, code, p, Len(sent))
    BY DEF Frame
  <1> PICK m, N \in Nat : m = Len(delivered) /\ N = Len(sent)
    BY <1>1, LenProperties DEF Handled, Sayings
  <1>2. /\ code \in [Nat -> Streams] /\ place \in [Nat -> Nat] /\ place[N] = outLoc
        /\ p \in Nat /\ m <= p /\ p <= N
    BY <1>1 DEF Sayings, Handled
  <1>3. n \in Nat /\ n >= 2 /\ PacketSaid(n) \in Streams /\ Len(PacketSaid(n)) = n
    BY SaidFits
  <1>4. PICK said \in Streams : said = PacketSaid(n) /\ Len(said) = n
    BY <1>3
  <1>5. outLoc \in Nat
    BY <1>2
  <1>6. PICK c \in Streams : c = Coded(route, said, outLoc)
    BY <1>3, <1>4, <1>5, CodedIs
  <1>7. PICK out \in Nat : out = Moved(route, outLoc, Len(said))
    BY <1>3, <1>4, <1>5, KeysThere DEF Moved
  <1>8. sent' = Append(sent, said) /\ outLoc' = out
    BY <1>4, <1>7 DEF Send, Moved, Encrypted
  <1>9. IF Relayed THEN toProxy' = toProxy \o c /\ wire' = wire
                   ELSE wire' = wire \o c /\ toProxy' = toProxy
    <2>1. PICK packet : packet = IF Encrypted THEN Crypt(said, outLoc) ELSE said
      OBVIOUS
    <2>2. packet \in Streams /\ Len(packet) = n
      BY <1>4, <1>5, <2>1, CryptTwice
    <2>3. EncryptPacket(<<Plain(0)>> \o packet) = GameCode(packet)
      BY <2>2, EncryptedIs DEF GameCode
    <2>4. SendPacket(packet, turn) = IF turn = 1 THEN GameCode(packet) ELSE EncryptPacket(GameCode(packet))
      BY <2>3 DEF SendPacket
    <2>5. turn # 1 => EncryptPacket(GameCode(packet)) = GameCode(packet)
      <3>1. ASSUME turn # 1 PROVE n + 1 <= Radix - 1
        BY <3>1 DEF Send
      <3> QED BY <1>3, <2>2, <3>1, SentTwice
    <2>6. c = IF Hub THEN ISCPacket(packet) ELSE SendPacket(packet, turn)
      <3>1. SendPacket(packet, turn) = GameCode(packet)
        BY <2>4, <2>5
      <3>2. CASE Hub
        <4>1. packet = said
          BY <2>1, <3>2 DEF Hub, Encrypted
        <4> QED BY <1>6, <3>2, <4>1 DEF Coded, Hub
      <3>3. CASE ~Hub
        BY <1>6, <2>1, <3>1, <3>3 DEF Coded, Hub, Encrypted
      <3> QED BY <3>2, <3>3
    <2> QED BY <1>4, <2>1, <2>6 DEF Send
  <1>10. PICK later, more : later = [place EXCEPT ![N + 1] = out] /\ more = [code EXCEPT ![N + 1] = c]
    OBVIOUS
  <1>11. /\ Sayings(route, sent', outLoc', later, more) /\ more[N + 1] = c
         /\ \A x \in 0..N : later[x] = place[x]
         /\ Agree(more, code, N)
    <2>1. Sayings(route, sent, outLoc, place, code) /\ Len(said) >= 2
      BY <1>1, <1>3, <1>4
    <2>2. Longer(route, Append(sent, said), out, place, code, later, more, N, c)
      BY <1>6, <1>7, <1>10, <2>1, SayingsMore
    <2> QED BY <1>8, <2>2 DEF Longer
  <1>12. later[m] = place[m] /\ later[p] = place[p] /\ Agree(more, code, p)
    <2>1. p \in Nat /\ m <= p /\ p <= N
      BY <1>2, Zenon
    <2>2. m \in 0..N /\ p \in 0..N /\ \A x \in 1..p : x \in 1..N
      BY <2>1
    <2> QED BY <1>11, <2>2 DEF Agree
  <1>13. Reading(route, receiver, wire, place, code, m, p)
    BY <1>1
  <1>14. Passing(route, proxy, toProxy, place, code, p, N)
    BY <1>1
  <1>15. Len(sent') = N + 1 /\ \A i \in 1..N : sent'[i] = sent[i]
    <2>1. sent \in Seq(Streams)
      BY <1>1 DEF Sayings
    <2> QED BY <1>8, <2>1, AppendProperties
  <1>16. \A q \in Nat : m <= q /\ q <= N + 1 => Handled(sent', delivered, q)
    <2>1. \A i \in 1..m : delivered[i] = sent[i] /\ i \in 1..N
      BY <1>1, <1>2 DEF Handled
    <2>2. \A i \in 1..m : delivered[i] = sent'[i]
      BY <1>15, <2>1
    <2>3. delivered \in Seq(Streams)
      BY <1>1 DEF Handled
    <2> QED BY <1>15, <2>2, <2>3 DEF Handled
  <1>17. CASE Relayed
    <2>1. toProxy' = toProxy \o more[N + 1] /\ wire' = wire
      BY <1>9, <1>11, <1>17
    <2>2. Passing(route, proxy, toProxy', later, more, p, N + 1)
      <3>1. more[N + 1] \in Streams
        BY <1>11
      <3>2. Passing(route, proxy, toProxy \o more[N + 1], later, more, p, N + 1)
        <4>1. p \in Nat /\ p <= N /\ Agree(more, code, N) /\ later[p] = place[p]
          BY <1>2, <1>11, <1>12, Zenon
        <4> QED BY <1>14, <3>1, <4>1, PassingLonger
      <3> QED BY <2>1, <3>2
    <2>3. Reading(route, receiver, wire', later, more, m, p)
      <3>1. p \in Nat /\ m <= p
        BY <1>2, Zenon
      <3>2. Reading(route, receiver, wire, later, more, m, p)
        BY <1>12, <1>13, <3>1, ReadingLonger
      <3> QED BY <2>1, <3>2
    <2>4. Handled(sent', delivered, p)
      BY <1>2, <1>16
    <2>5. Frame(route, sent', delivered, outLoc', toProxy', wire', proxy, receiver, later, more, p)
      BY <1>11, <1>15, <1>17, <2>2, <2>3, <2>4 DEF Frame, Relayed
    <2> QED BY <2>5
  <1>18. CASE ~Relayed
    <2>1. wire' = wire \o more[p + 1] /\ toProxy' = toProxy /\ p = N /\ more[p + 1] \in Streams
      <3>1. p = N
        BY <1>18 DEF Frame, Relayed
      <3> QED BY <1>9, <1>11, <1>18, <3>1
    <2>2. Passing(route, proxy, toProxy', later, more, N + 1, N + 1)
      <3>1. route # "relayed" /\ Passing(route, proxy, toProxy, place, code, N, N)
        BY <1>14, <1>18, <2>1 DEF Relayed
      <3>2. Passing(route, proxy, toProxy, later, more, N + 1, N + 1)
        BY <3>1, PassingNothing
      <3> QED BY <2>1, <3>2
    <2>3. Reading(route, receiver, wire', later, more, m, N + 1)
      <3>1. Reading(route, receiver, wire \o more[p + 1], later, more, m, p + 1)
        <4>1. p \in Nat /\ m <= p /\ more[p + 1] \in Streams
          BY <1>2, <2>1, Zenon
        <4> QED BY <1>12, <1>13, <4>1, ReadingLonger
      <3> QED BY <2>1, <3>1
    <2>4. Handled(sent', delivered, N + 1)
      <3>1. N + 1 \in Nat /\ m <= N + 1 /\ N + 1 <= N + 1
        <4>1. p \in Nat /\ m <= p /\ p <= N
          BY <1>2, Zenon
        <4> QED BY <4>1
      <3> QED BY <1>16, <3>1
    <2>5. Frame(route, sent', delivered, outLoc', toProxy', wire', proxy, receiver, later, more, N + 1)
      BY <1>11, <1>15, <1>18, <2>2, <2>3, <2>4 DEF Frame, Relayed
    <2> QED BY <2>5
  <1> QED BY <1>17, <1>18

\* At first nothing is said.
LEMMA FramesAtFirst ==
  ASSUME FramingInit
  PROVE  FrameInv
  <1>1. PICK e : e = <<>>
    OBVIOUS
  <1>2. e \in Streams /\ e \in Seq(Streams) /\ Len(e) = 0 /\ e \o e = e
    BY <1>1, EmptySeq, ConcatEmptySeq DEF Streams
  <1>3. Start \in Nat /\ HeaderSize = HeaderOn(route) /\ HeaderSize \in Nat /\ HeaderSize > 0
    BY KeysThere DEF HeaderSize, Hub, HeaderOn
  <1>4. PICK place, code : place = [n \in Nat |-> Start] /\ code = [n \in Nat |-> e]
    OBVIOUS
  <1>5. place \in [Nat -> Nat] /\ code \in [Nat -> Streams] /\ place[0] = Start
    BY <1>2, <1>3, <1>4
  <1>6. /\ sent = e /\ delivered = e /\ toProxy = e /\ wire = e /\ outLoc = Start
        /\ proxy = [buffer |-> e, readlen |-> 1, isWordSize |-> FALSE, cliIn |-> Start, cliOut |-> Start]
        /\ receiver = [buffer |-> e, size |-> HeaderSize, loc |-> Start]
    BY <1>1 DEF FramingInit
  <1>7. Says(e, code, 0, 0)
    BY <1>1, SaysNothing
  <1>8. Sayings(route, sent, outLoc, place, code)
    BY <1>2, <1>5, <1>6 DEF Sayings
  <1>9. Handled(sent, delivered, 0)
    BY <1>2, <1>6 DEF Handled
  <1>10. Reading(route, receiver, wire, place, code, 0, 0)
    <2>1. /\ receiver \in [buffer : Streams, size : Nat, loc : Nat]
          /\ receiver.buffer = e /\ receiver.size = HeaderSize /\ receiver.loc = Start
      BY <1>2, <1>3, <1>6
    <2> QED BY <1>2, <1>3, <1>5, <1>6, <1>7, <2>1 DEF Reading
  <1>11. Passing(route, proxy, toProxy, place, code, 0, 0)
    <2>1. /\ proxy \in [buffer : Streams, readlen : Nat, isWordSize : BOOLEAN, cliIn : Nat, cliOut : Nat]
          /\ proxy.buffer = e /\ proxy.readlen = 1 /\ ~proxy.isWordSize
          /\ proxy.cliIn = Start /\ proxy.cliOut = Start
      BY <1>2, <1>3, <1>6
    <2> QED BY <1>1, <1>2, <1>5, <1>6, <1>7, <2>1 DEF Passing
  <1>12. Frame(route, sent, delivered, outLoc, toProxy, wire, proxy, receiver, place, code, 0)
    BY <1>2, <1>6, <1>8, <1>9, <1>10, <1>11 DEF Frame
  <1> QED BY <1>12 DEF FrameInv

\* Every step keeps what is under way together.
LEMMA FramesKept ==
  ASSUME FrameInv, [FramingNext]_framingVars
  PROVE  FrameInv'
  <1>1. CASE split
    <2>1. split'
      BY <1>1 DEF FramingNext, Receive, WorkerReceive, ISCReceive, ProxyReceive, Send, framingVars
    <2> QED BY <2>1, ZenonT(30) DEF FrameInv
  <1>2. CASE ~split
    <2>1. PICK place, code, p :
            Frame(route, sent, delivered, outLoc, toProxy, wire, proxy, receiver, place, code, p)
      BY <1>2 DEF FrameInv
    <2>2. ASSUME NEW k \in Chunks(wire, receiver.size - Len(receiver.buffer)), WorkerReceive(k)
          PROVE  FrameInv'
      <3>1. Frame(route, sent, delivered', outLoc, toProxy, wire', proxy, receiver', place, code, p)
        BY <2>1, <2>2, WorkerReads
      <3>2. UNCHANGED <<route, sent, toProxy, outLoc, proxy>>
        BY <2>2 DEF WorkerReceive
      <3> QED BY <3>1, <3>2 DEF FrameInv
    <2>3. ASSUME NEW k \in Chunks(wire, receiver.size - Len(receiver.buffer)), ISCReceive(k)
          PROVE  FrameInv'
      <3>1. Frame(route, sent, delivered', outLoc, toProxy, wire', proxy, receiver', place, code, p)
        BY <2>1, <2>3, ISCReads
      <3>2. UNCHANGED <<route, sent, toProxy, outLoc, proxy>>
        BY <2>3 DEF ISCReceive
      <3> QED BY <3>1, <3>2 DEF FrameInv
    <2>4. ASSUME NEW k \in Chunks(toProxy, proxy.readlen - Len(proxy.buffer)), ProxyReceive(k)
          PROVE  FrameInv'
      <3>1. split' \/ \E q : Frame(route, sent, delivered', outLoc, toProxy', wire', proxy', receiver,
                                   place, code, q)
        BY <2>1, <2>4, ProxyReads
      <3>2. UNCHANGED <<route, sent, outLoc, receiver>>
        BY <2>4 DEF ProxyReceive
      <3> QED BY <3>1, <3>2 DEF FrameInv
    <2>5. ASSUME NEW n \in Lengths, NEW turn \in 1..2, Send(n, turn)
          PROVE  FrameInv'
      <3>1. \E later, more, q : Frame(route, sent', delivered, outLoc', toProxy', wire', proxy, receiver,
                                      later, more, q)
        BY <2>1, <2>5, Sends
      <3>2. UNCHANGED <<route, delivered, proxy, receiver>>
        BY <2>5 DEF Send
      <3> QED BY <3>1, <3>2 DEF FrameInv
    <2>6. CASE UNCHANGED framingVars
      BY <2>1, <2>6 DEF FrameInv, framingVars
    <2> QED BY <2>2, <2>3, <2>4, <2>5, <2>6 DEF FramingNext, Receive
  <1> QED BY <1>1, <1>2

\* What has been handled is what was said first.
LEMMA FramesInOrder ==
  ASSUME FrameInv
  PROVE  InOrder
  <1>1. CASE split
    BY <1>1 DEF InOrder
  <1>2. CASE ~split
    <2>1. PICK p : Handled(sent, delivered, p)
      BY <1>2 DEF FrameInv, Frame
    <2>2. sent \in Seq(Streams)
      BY <1>2 DEF FrameInv, Frame, Sayings
    <2> PICK m, n \in Nat : m = Len(delivered) /\ n = Len(sent)
      BY <2>1, <2>2, LenProperties DEF Handled
    <2>3. /\ m <= n /\ DOMAIN delivered = 1..m /\ \A i \in 1..m : delivered[i] = sent[i]
          /\ delivered \in Seq(Streams)
      BY <2>1, LenProperties DEF Handled
    <2>4. SubSeq(sent, 1, m) = delivered
      <3>1. \A i \in 1..m : sent[i] \in Streams
        BY <2>2, <2>3, LenProperties
      <3>2. /\ SubSeq(sent, 1, m) \in Seq(Streams) /\ Len(SubSeq(sent, 1, m)) = m
            /\ \A i \in 1..m : SubSeq(sent, 1, m)[i] = sent[i]
        BY <3>1, SubSeqProperties
      <3> QED BY <2>3, <3>2, SeqEqual
    <2>5. IsPrefix(delivered, sent)
      BY <2>3, <2>4 DEF IsPrefix
    <2> QED BY <2>5 DEF InOrder
  <1> QED BY <1>1, <1>2

\* However the streams are cut, and whatever the table and the sizes are, the
\* handlers of the servers (CTitanClientThread.cpp:49), of the hub and of what it
\* sends (CTitanServer.cpp:272) and behind the proxy (CListener.hpp:28) are given
\* the packets that were sent, decrypted and in order, until the proxy gets a long
\* header in pieces.
THEOREM HandledInOrder == FramingInit /\ [][FramingNext]_framingVars => []InOrder
  <1>1. FramingInit => FrameInv
    BY FramesAtFirst
  <1>2. FrameInv /\ [FramingNext]_framingVars => FrameInv'
    BY FramesKept
  <1>3. FrameInv => InOrder
    BY FramesInOrder
  <1> QED BY <1>1, <1>2, <1>3, PTL
=============================================================================
