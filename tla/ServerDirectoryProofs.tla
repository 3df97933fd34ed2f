----------------------- MODULE ServerDirectoryProofs -----------------------
(***************************************************************************)
(* What holds of the hub and of the servers' copies of its list, for every  *)
(* set of servers and every number of connections, restarts included:       *)
(* everything keeps its type; one worker gives out each number once, and    *)
(* keeps the list and the connections together (LinkInv), so that who dies  *)
(* takes its own record with it; and every copy is, packet by packet, on    *)
(* its way to the hub's list (CopyInv).                                     *)
(***************************************************************************)
EXTENDS ServerDirectory, SequenceTheorems, WellFoundedInduction, TLAPS

Typed == HubTyped /\ ServersTyped

-----------------------------------------------------------------------------
(* Lists of records                                                         *)

\* RemoveAt: one element less, those behind it move up.
LEMMA RemoveAtProperties ==
  ASSUME NEW S, NEW lst \in Seq(S), NEW i \in 1..Len(lst)
  PROVE  /\ RemoveAt(lst, i) \in Seq(S)
         /\ Len(RemoveAt(lst, i)) = Len(lst) - 1
         /\ \A j \in 1..(Len(lst) - 1) :
              RemoveAt(lst, i)[j] = IF j < i THEN lst[j] ELSE lst[j + 1]
<1> DEFINE front == SubSeq(lst, 1, i - 1)
           back == SubSeq(lst, i + 1, Len(lst))
<1>1. Len(lst) \in Nat /\ \A j \in 1..Len(lst) : lst[j] \in S
  BY LenProperties, ElementOfSeq
<1>2. /\ front \in Seq(S)
      /\ Len(front) = i - 1
      /\ \A j \in 1..(i - 1) : front[j] = lst[j]
  <2>1. \A j \in 1..(i - 1) : lst[j] \in S
    BY <1>1
  <2>2. QED BY <2>1, SubSeqProperties
<1>3. /\ back \in Seq(S)
      /\ Len(back) = Len(lst) - i
      /\ \A j \in 1..(Len(lst) - i) : back[j] = lst[j + i]
  <2>1. \A j \in (i + 1)..Len(lst) : lst[j] \in S
    BY <1>1
  <2>2. QED BY <1>1, <2>1, SubSeqProperties
<1> HIDE DEF front, back
<1>4. RemoveAt(lst, i) = front \o back
  BY DEF RemoveAt, front, back
<1>5. /\ front \o back \in Seq(S)
      /\ Len(front \o back) = Len(front) + Len(back)
      /\ \A j \in 1..(Len(front) + Len(back)) :
           (front \o back)[j] = IF j <= Len(front) THEN front[j] ELSE back[j - Len(front)]
  BY <1>2, <1>3, ConcatProperties
<1>6. ASSUME NEW j \in 1..(Len(lst) - 1)
      PROVE  (front \o back)[j] = IF j < i THEN lst[j] ELSE lst[j + 1]
  <2>1. (front \o back)[j] = IF j <= i - 1 THEN front[j] ELSE back[j - (i - 1)]
    BY <1>1, <1>2, <1>3, <1>5
  <2>2. CASE j < i
    BY <1>1, <1>2, <2>1, <2>2
  <2>3. CASE ~(j < i)
    <3>1. j - (i - 1) \in 1..(Len(lst) - i)
      BY <1>1, <2>3
    <3>2. back[j - (i - 1)] = lst[(j - (i - 1)) + i] /\ (j - (i - 1)) + i = j + 1
      BY <1>1, <1>3, <3>1
    <3>3. QED BY <1>1, <2>1, <2>3, <3>2
  <2>4. QED BY <2>2, <2>3
<1>7. Len(front) + Len(back) = Len(lst) - 1
  BY <1>1, <1>2, <1>3
<1>8. QED BY <1>4, <1>5, <1>6, <1>7

\* Removing a record leaves a list of records.
LEMMA WithoutTyped ==
  ASSUME NEW lst \in Seq(Recs), NEW id
  PROVE  Without(lst, id) \in Seq(Recs)
<1>1. CASE At(lst, id) = {}
  BY <1>1 DEF Without
<1>2. CASE At(lst, id) # {}
  <2>1. (CHOOSE i \in At(lst, id) : TRUE) \in 1..Len(lst)
    BY <1>2, LenProperties DEF At
  <2>2. QED BY <1>2, <2>1, RemoveAtProperties DEF Without
<1>3. QED BY <1>1, <1>2

\* Setting a user count leaves a list of records of the same servers and numbers.
LEMMA WithUsersProperties ==
  ASSUME NEW lst \in Seq(Recs), NEW id, NEW n \in 0..MaxLogins
  PROVE  /\ WithUsers(lst, id, n) \in Seq(Recs)
         /\ DOMAIN WithUsers(lst, id, n) = DOMAIN lst
         /\ \A i \in DOMAIN lst : /\ WithUsers(lst, id, n)[i].iscid = lst[i].iscid
                                /\ WithUsers(lst, id, n)[i].srv = lst[i].srv
<1>1. \A i \in DOMAIN lst : lst[i] \in Recs
  BY ElementOfSeq, LenProperties
<1>2. \A i \in DOMAIN lst : /\ WithUsers(lst, id, n)[i] \in Recs
                            /\ WithUsers(lst, id, n)[i].iscid = lst[i].iscid
                            /\ WithUsers(lst, id, n)[i].srv = lst[i].srv
  BY <1>1 DEF WithUsers, Recs
<1>3. DOMAIN WithUsers(lst, id, n) = 1..Len(lst) /\ Len(lst) \in Nat
  BY LenProperties DEF WithUsers
<1>4. WithUsers(lst, id, n) \in [1..Len(lst) -> Recs]
  BY <1>2, <1>3, LenProperties DEF WithUsers
<1>5. WithUsers(lst, id, n) \in Seq(Recs)
  BY <1>3, <1>4, SeqDef
<1>6. QED BY <1>2, <1>3, <1>5, LenProperties

\* Counting in a word.
LEMMA WordTyped ==
  ASSUME NEW n \in Nat
  PROVE  /\ n % (MaxWord + 1) \in 0..MaxWord
         /\ n <= MaxWord => n % (MaxWord + 1) = n
<1>1. MaxWord + 1 = 65536 /\ MaxWord \in Nat
  BY DEF MaxWord
<1>2. n % 65536 \in Nat /\ n % 65536 < 65536
  BY SMT
<1>3. n < 65536 => n % 65536 = n
  BY SMT
<1>4. n % (MaxWord + 1) \in Nat /\ n % (MaxWord + 1) < MaxWord + 1
  BY <1>1, <1>2
<1>5. n < MaxWord + 1 => n % (MaxWord + 1) = n
  BY <1>1, <1>3
<1> DEFINE k == n % (MaxWord + 1)
<1> HIDE DEF k
<1>6. k \in 0..MaxWord
  BY <1>1, <1>4 DEF k
<1>7. n <= MaxWord => k = n
  BY <1>1, <1>5 DEF k
<1>8. QED BY <1>6, <1>7 DEF k

\* The next number is a word; short of the largest it is one more than the last.
LEMMA NextIscidProperties ==
  ASSUME serverList \in Seq(Recs)
  PROVE  /\ NextIscid \in Iscids
         /\ serverList # <<>> /\ serverList[Len(serverList)].iscid < MaxWord
              => NextIscid = serverList[Len(serverList)].iscid + 1
<1>1. CASE serverList = <<>>
  BY <1>1 DEF NextIscid, Iscids, MaxWord
<1>2. CASE serverList # <<>>
  <2> DEFINE n == serverList[Len(serverList)].iscid
  <2>1. Len(serverList) \in 1..Len(serverList)
    BY <1>2, EmptySeq
  <2>2. serverList[Len(serverList)] \in Recs
    BY <2>1, ElementOfSeq
  <2>3. n \in Iscids
    BY <2>2 DEF Recs
  <2>4. NextIscid = (n + 1) % (MaxWord + 1)
    BY <1>2 DEF NextIscid, Last
  <2> HIDE DEF n
  <2>5. n \in Nat /\ n + 1 \in Nat /\ MaxWord \in Nat
    <3>1. MaxWord \in Nat
      BY DEF MaxWord
    <3>2. n \in 0..MaxWord
      BY <2>3 DEF Iscids
    <3>3. QED BY <3>1, <3>2
  <2>6. /\ (n + 1) % (MaxWord + 1) \in 0..MaxWord
      /\ n + 1 <= MaxWord => (n + 1) % (MaxWord + 1) = n + 1
    BY <2>5, WordTyped
  <2>7. NextIscid \in Iscids /\ (n < MaxWord => NextIscid = n + 1)
    BY <2>4, <2>5, <2>6 DEF Iscids
  <2>8. QED BY <2>7 DEF n
<1>3. QED BY <1>1, <1>2
-----------------------------------------------------------------------------
(* Packets and tasks                                                        *)

\* What a packet to the hub carries follows from its command.
LEMMA ToHubCases ==
  ASSUME NEW m \in ToHub
  PROVE  /\ m.cmd = "IDENTIFY" => m \in Identify
         /\ m.cmd = "UPDATEUSERCNT" => m \in UserCount
BY DEF ToHub, Identify, UserCount

\* What a worker remembers follows from where it is.
LEMMA TaskCases ==
  ASSUME NEW k \in Tasks
  PROVE  /\ k.at = "push" => k.conn \in Conns /\ k.rec \in Recs
         /\ k.at = "forward" => k.conn \in Conns /\ k.msg \in Identify \cup UserCount
         /\ k.at = "reply" => k.conn \in Conns /\ k.msg \in Listing
         /\ k.at = "erase" => k.conn \in Conns
         /\ k.at = "notify" => k.msg \in Numbered
BY DEF Tasks

\* The packet that is received is typed, and so is the rest of the queue.
LEMMA ReceivesTyped ==
  ASSUME Typed, NEW w \in Workers, NEW c \in Conns, NEW cmd, Receives(w, c, cmd)
  PROVE  /\ Head(up[c]) \in ToHub /\ Head(up[c]).cmd = cmd
         /\ up' \in [Conns -> Seq(ToHub)]
<1>1. up \in [Conns -> Seq(ToHub)] /\ up[c] \in Seq(ToHub) /\ up[c] # <<>>
  BY DEF Typed, HubTyped, Receives
<1>2. Head(up[c]) \in ToHub /\ Tail(up[c]) \in Seq(ToHub)
  BY <1>1, HeadTailProperties
<1>3. QED BY <1>1, <1>2 DEF Receives

\* A queue that is sent to stays typed.
LEMMA SendTyped ==
  ASSUME Typed, NEW to, NEW msg \in ToServer, Send(to, msg)
  PROVE  down' \in [Conns -> Seq(ToServer)]
<1>1. \A c \in Conns : down[c] \in Seq(ToServer) /\ Append(down[c], msg) \in Seq(ToServer)
  BY AppendProperties DEF Typed, HubTyped
<1>2. QED BY <1>1 DEF Send
-----------------------------------------------------------------------------
(* The hub keeps the types                                                  *)

\* Before anything happens every variable has its type.
LEMMA InitTyped == Init => Typed
<1> SUFFICES ASSUME Init PROVE Typed
  OBVIOUS
<1>1. <<>> \in Seq(ToHub) /\ <<>> \in Seq(ToServer) /\ <<>> \in Seq(Conns) /\ <<>> \in Seq(Recs)
  BY EmptySeq
<1>2. iscid \in [Conns -> Iscids]
  BY GarbageIsWord DEF Init, HubInit
<1>3. Idle \in Tasks
  BY DEF Idle, Tasks
<1>4. HubTyped
  BY <1>1, <1>2, <1>3 DEF Init, HubInit, HubTyped
<1>5. 99 \in Iscids /\ 0 \in 0..MaxLogins
  BY UsersNat DEF Iscids, MaxWord
<1>6. ServersTyped
  BY <1>5 DEF Init, ServersTyped
<1>7. QED BY <1>4, <1>6 DEF Typed

\* ServerLoop of the hub.
LEMMA AcceptClientTyped ==
  ASSUME Typed, AcceptClient, UNCHANGED serverVars
  PROVE  Typed'
<1>1. Head(backlog) \in Conns /\ Tail(backlog) \in Seq(Conns)
  BY HeadTailProperties DEF Typed, HubTyped, AcceptClient
<1>2. clientList' \subseteq Conns /\ backlog' \in Seq(Conns)
  BY <1>1 DEF Typed, HubTyped, AcceptClient
<1>3. thread' \in [Conns -> Workers \cup {None}]
  BY <1>1 DEF Typed, HubTyped, AcceptClient
<1>4. HubTyped'
  BY <1>2, <1>3 DEF Typed, HubTyped, AcceptClient, netVars
<1>5. ServersTyped'
  BY DEF Typed, ServersTyped, serverVars
<1>6. QED BY <1>4, <1>5 DEF Typed

\* The end of a connection, up to the write lock of ClientList.
LEMMA DisconnectClientTyped ==
  ASSUME Typed, NEW w \in Workers, NEW c \in Conns,
         DisconnectClient(w, c), UNCHANGED serverVars
  PROVE  Typed'
<1>1. [at |-> "erase", conn |-> c] \in Tasks
  BY DEF Tasks
<1>2. task' \in [Workers -> Tasks] /\ clientList' \subseteq Conns
  BY <1>1 DEF Typed, HubTyped, DisconnectClient
<1>3. HubTyped'
  BY <1>2 DEF Typed, HubTyped, DisconnectClient, netVars
<1>4. QED BY <1>3 DEF Typed, ServersTyped, serverVars

\* OnClientDisconnect, the list.
LEMMA EraseServerTyped ==
  ASSUME Typed, NEW w \in Workers, EraseServer(w), UNCHANGED serverVars
  PROVE  Typed'
<1> DEFINE c == task[w].conn
<1>1. c \in Conns /\ iscid[c] \in Iscids
  BY TaskCases DEF Typed, HubTyped, EraseServer
<1>2. serverList' \in Seq(Recs)
  BY WithoutTyped DEF Typed, HubTyped, EraseServer
<1>3. [at |-> "notify", msg |-> [cmd |-> "REMOVE", iscid |-> iscid[c]]] \in Tasks
  BY <1>1 DEF Tasks, Numbered
<1>4. task' \in [Workers -> Tasks]
  BY <1>3 DEF Typed, HubTyped, EraseServer
<1>5. HubTyped'
  BY <1>2, <1>4 DEF Typed, HubTyped, EraseServer, netVars
<1>6. QED BY <1>5 DEF Typed, ServersTyped, serverVars

\* A worker that is done is idle.
LEMMA IdleTyped ==
  ASSUME Typed, NEW w \in Workers, task' = [task EXCEPT ![w] = Idle]
  PROVE  task' \in [Workers -> Tasks]
<1>1. Idle \in Tasks
  BY DEF Idle, Tasks
<1>2. QED BY <1>1 DEF Typed, HubTyped

\* OnClientDisconnect, the news.
LEMMA NotifyRemainingTyped ==
  ASSUME Typed, NEW w \in Workers, NotifyRemaining(w), UNCHANGED serverVars
  PROVE  Typed'
<1>1. task[w].msg \in ToServer
  BY TaskCases DEF Typed, HubTyped, NotifyRemaining, ToServer
<1>2. down' \in [Conns -> Seq(ToServer)]
  BY <1>1, SendTyped DEF NotifyRemaining
<1>3. task' \in [Workers -> Tasks]
  BY IdleTyped DEF NotifyRemaining
<1>4. HubTyped'
  BY <1>2, <1>3 DEF Typed, HubTyped, NotifyRemaining
<1>5. QED BY <1>4 DEF Typed, ServersTyped, serverVars

\* IDENTIFY, up to the end of the first critical section.
LEMMA ReceiveIdentifyTyped ==
  ASSUME Typed, NEW w \in Workers, NEW c \in Conns,
         ReceiveIdentify(w, c), UNCHANGED serverVars
  PROVE  /\ Typed'
         /\ task' = [task EXCEPT ![w] = task'[w]]
         /\ task'[w].at = "push" /\ task'[w].rec.iscid = NextIscid
<1> DEFINE r == [Head(up[c]).rec EXCEPT !.iscid = NextIscid]
           k == [at |-> "push", conn |-> c, rec |-> r]
<1>1. Head(up[c]).rec \in Recs /\ up' \in [Conns -> Seq(ToHub)]
  BY ReceivesTyped, ToHubCases DEF ReceiveIdentify, Identify
<1>2. NextIscid \in Iscids
  BY NextIscidProperties DEF Typed, HubTyped
<1>3. r \in Recs /\ r.iscid = NextIscid
  BY <1>1, <1>2 DEF Recs
<1> HIDE DEF r
<1>4. k \in Tasks /\ k.at = "push" /\ k.rec = r
  BY <1>3 DEF Tasks
<1>5. task' = [task EXCEPT ![w] = k]
  BY DEF ReceiveIdentify, r
<1> HIDE DEF k
<1>6. task' \in [Workers -> Tasks] /\ task'[w] = k
  BY <1>4, <1>5 DEF Typed, HubTyped
<1>7. iscid' \in [Conns -> Iscids]
  BY <1>2 DEF Typed, HubTyped, ReceiveIdentify
<1>8. HubTyped'
  BY <1>1, <1>6, <1>7 DEF Typed, HubTyped, ReceiveIdentify
<1>9. Typed'
  BY <1>8 DEF Typed, ServersTyped, serverVars
<1>10. QED BY <1>3, <1>4, <1>5, <1>6, <1>9

\* IDENTIFY, the push.
LEMMA PushServerTyped ==
  ASSUME Typed, NEW w \in Workers, PushServer(w), UNCHANGED serverVars
  PROVE  Typed'
<1> DEFINE k == [at |-> "forward", conn |-> task[w].conn,
                 msg |-> [cmd |-> "IDENTIFY", rec |-> task[w].rec]]
<1>1. task[w].conn \in Conns /\ task[w].rec \in Recs
  BY TaskCases DEF Typed, HubTyped, PushServer
<1>2. k \in Tasks
  BY <1>1 DEF Tasks, Identify
<1>3. serverList' \in Seq(Recs)
  BY <1>1, AppendProperties DEF Typed, HubTyped, PushServer
<1>4. task' \in [Workers -> Tasks]
  BY <1>2 DEF Typed, HubTyped, PushServer
<1>5. identified' \subseteq Conns
  BY <1>1 DEF Typed, HubTyped, PushServer
<1>6. HubTyped'
  BY <1>3, <1>4, <1>5 DEF Typed, HubTyped, PushServer, netVars
<1>7. QED BY <1>6 DEF Typed, ServersTyped, serverVars

\* UPDATEUSERCNT.
LEMMA ReceiveUserCountTyped ==
  ASSUME Typed, NEW w \in Workers, NEW c \in Conns,
         ReceiveUserCount(w, c), UNCHANGED serverVars
  PROVE  Typed'
<1> DEFINE m == Head(up[c])
           k == [at |-> "forward", conn |-> c, msg |-> m]
<1>1. m \in UserCount /\ up' \in [Conns -> Seq(ToHub)]
  BY ReceivesTyped, ToHubCases DEF ReceiveUserCount
<1> HIDE DEF m
<1>2. k \in Tasks /\ m.users \in 0..MaxLogins
  BY <1>1 DEF Tasks, UserCount
<1>3. serverList' \in Seq(Recs)
  BY <1>2, WithUsersProperties DEF Typed, HubTyped, ReceiveUserCount, m
<1>4. task' \in [Workers -> Tasks]
  BY <1>2 DEF Typed, HubTyped, ReceiveUserCount, m
<1>5. HubTyped'
  BY <1>1, <1>3, <1>4 DEF Typed, HubTyped, ReceiveUserCount
<1>6. QED BY <1>5 DEF Typed, ServersTyped, serverVars

\* The packet goes to everybody else, and a number to the one it is for.
LEMMA ForwardPacketTyped ==
  ASSUME Typed, NEW w \in Workers, ForwardPacket(w), UNCHANGED serverVars
  PROVE  Typed'
<1> DEFINE c == task[w].conn
           msg == task[w].msg
           set == [cmd |-> "SETISCID", iscid |-> msg.rec.iscid]
           reply == IF msg.cmd = "IDENTIFY" /\ isOpen[c] THEN <<set>> ELSE <<>>
<1>1. msg \in Identify \cup UserCount
  BY TaskCases DEF Typed, HubTyped, ForwardPacket
<1>2. msg \in ToServer
  BY <1>1 DEF ToServer
<1>3. reply \in Seq(ToServer)
  <2>1. CASE msg.cmd = "IDENTIFY" /\ isOpen[c]
    <3>1. msg \in Identify
      BY <1>1, <2>1 DEF Identify, UserCount
    <3>2. set \in ToServer
      BY <3>1 DEF Identify, Recs, Numbered, ToServer
    <3>3. <<set>> \in Seq(ToServer)
      BY <3>2
    <3>4. QED BY <2>1, <3>3
  <2>2. CASE ~(msg.cmd = "IDENTIFY" /\ isOpen[c])
    BY <2>2, EmptySeq
  <2>3. QED BY <2>1, <2>2
<1>4. down' = [d \in Conns |->
                 IF d = c THEN down[c] \o reply
                 ELSE IF d \in clientList /\ isOpen[d] THEN Append(down[d], msg)
                 ELSE down[d]]
  BY DEF ForwardPacket
<1> HIDE DEF msg, reply, c
<1>5. \A d \in Conns : down[d] \o reply \in Seq(ToServer)
  BY <1>3, ConcatProperties DEF Typed, HubTyped
<1>6. \A d \in Conns : Append(down[d], msg) \in Seq(ToServer)
  BY <1>2, AppendProperties DEF Typed, HubTyped
<1>7. \A d \in Conns : down[d] \in Seq(ToServer)
  BY DEF Typed, HubTyped
<1>8. down' \in [Conns -> Seq(ToServer)]
  BY <1>4, <1>5, <1>6, <1>7
<1>9. task' \in [Workers -> Tasks]
  BY IdleTyped DEF ForwardPacket
<1>10. HubTyped'
  BY <1>8, <1>9 DEF Typed, HubTyped, ForwardPacket
<1>11. QED BY <1>10 DEF Typed, ServersTyped, serverVars

\* SERVERLIST, the copy.
LEMMA ReceiveListRequestTyped ==
  ASSUME Typed, NEW w \in Workers, NEW c \in Conns,
         ReceiveListRequest(w, c), UNCHANGED serverVars
  PROVE  Typed'
<1>1. up' \in [Conns -> Seq(ToHub)]
  BY ReceivesTyped DEF ReceiveListRequest
<1>2. [at |-> "reply", conn |-> c,
       msg |-> [cmd |-> "SERVERLIST", list |-> serverList]] \in Tasks
  BY DEF Typed, HubTyped, Tasks, Listing
<1>3. task' \in [Workers -> Tasks]
  BY <1>2 DEF Typed, HubTyped, ReceiveListRequest
<1>4. HubTyped'
  BY <1>1, <1>3 DEF Typed, HubTyped, ReceiveListRequest
<1>5. QED BY <1>4 DEF Typed, ServersTyped, serverVars

\* SERVERLIST, the reply.
LEMMA SendListTyped ==
  ASSUME Typed, NEW w \in Workers, SendList(w), UNCHANGED serverVars
  PROVE  Typed'
<1>1. task[w].msg \in ToServer
  BY TaskCases DEF Typed, HubTyped, SendList, ToServer
<1>2. down' \in [Conns -> Seq(ToServer)]
  BY <1>1, SendTyped DEF SendList
<1>3. task' \in [Workers -> Tasks]
  BY IdleTyped DEF SendList
<1>4. HubTyped'
  BY <1>2, <1>3 DEF Typed, HubTyped, SendList
<1>5. QED BY <1>4 DEF Typed, ServersTyped, serverVars
-----------------------------------------------------------------------------
(* So do the servers                                                        *)

\* A new process, on a new connection.
LEMMA ConnectTyped ==
  ASSUME Typed, NEW s \in Servers, Connect(s)
  PROVE  Typed'
<1>1. PICK c \in Fresh : /\ server' = [server EXCEPT ![c] = s]
                         /\ isOpen' = [isOpen EXCEPT ![c] = TRUE]
                         /\ backlog' = Append(backlog, c)
                         /\ conn' = [conn EXCEPT ![s] = c]
  BY DEF Connect
<1>2. c \in Conns
  BY <1>1 DEF Fresh
<1>3. backlog' \in Seq(Conns)
  BY <1>1, <1>2, AppendProperties DEF Typed, HubTyped
<1>4. HubTyped'
  BY <1>1, <1>2, <1>3 DEF Typed, HubTyped, Connect
<1>5. ServersTyped'
  BY <1>1, <1>2 DEF Typed, ServersTyped, Connect
<1>6. QED BY <1>4, <1>5 DEF Typed

\* IDENTIFY and the request for the list are sent.
LEMMA OnServerReadyTyped ==
  ASSUME Typed, NEW s \in Servers, OnServerReady(s)
  PROVE  Typed'
<1> DEFINE id == [cmd |-> "IDENTIFY", rec |-> Record(s)]
           ask == [cmd |-> "SERVERLIST"]
           msgs == <<id>> \o IF Type[s] = 3 THEN <<>> ELSE <<ask>>
<1>1. Record(s) \in Recs
  BY DEF Record, Recs, Typed, ServersTyped
<1>2. id \in ToHub /\ ask \in ToHub
  BY <1>1 DEF ToHub, Identify
<1> HIDE DEF id, ask
<1>3. /\ <<id>> \in Seq(ToHub)
      /\ (IF Type[s] = 3 THEN <<>> ELSE <<ask>>) \in Seq(ToHub)
  BY <1>2, EmptySeq
<1>4. msgs \in Seq(ToHub)
  BY <1>3, ConcatProperties
<1>5. up' = [up EXCEPT ![conn[s]] = (@ \o <<id>>) \o IF Type[s] = 3 THEN <<>> ELSE <<ask>>]
  BY DEF OnServerReady, id, ask
<1>6. \A q \in Seq(ToHub) : (q \o <<id>>) \o (IF Type[s] = 3 THEN <<>> ELSE <<ask>>) \in Seq(ToHub)
  BY <1>3, ConcatProperties
<1>7. up' \in [Conns -> Seq(ToHub)]
  BY <1>5, <1>6 DEF Typed, HubTyped
<1>8. HubTyped'
  BY <1>7 DEF Typed, HubTyped, OnServerReady, hubVars
<1>9. ServersTyped'
  BY DEF Typed, ServersTyped, OnServerReady
<1>10. QED BY <1>8, <1>9 DEF Typed

\* A process ends; the ends of its connection are cut.
LEMMA DieTyped ==
  ASSUME Typed, NEW s \in Servers, Die(s)
  PROVE  Typed'
<1>1. <<>> \in Seq(ToHub) /\ <<>> \in Seq(ToServer)
  BY EmptySeq
<1>2. 99 \in Iscids /\ 0 \in 0..MaxLogins
  BY UsersNat DEF Iscids, MaxWord
<1>3. up' \in [Conns -> Seq(ToHub)] /\ down' \in [Conns -> Seq(ToServer)]
  BY <1>1 DEF Typed, HubTyped, Die
<1>4. HubTyped'
  BY <1>3 DEF Typed, HubTyped, Die, hubVars
<1>5. ServersTyped'
  BY <1>2 DEF Typed, ServersTyped, Die
<1>6. QED BY <1>4, <1>5 DEF Typed

\* A login is counted and reported.
LEMMA UserLoginTyped ==
  ASSUME Typed, NEW s \in Servers, UserLogin(s)
  PROVE  Typed'
<1> DEFINE m == [cmd |-> "UPDATEUSERCNT", iscid |-> myIscid[s], users |-> users[s] + 1]
<1>1. users[s] + 1 \in 0..MaxLogins
  BY UsersNat DEF Typed, ServersTyped, UserLogin
<1>2. m \in ToHub
  BY <1>1 DEF Typed, ServersTyped, ToHub, UserCount
<1>3. up' = [up EXCEPT ![conn[s]] = Append(@, m)]
  BY DEF UserLogin
<1> HIDE DEF m
<1>4. up' \in [Conns -> Seq(ToHub)]
  BY <1>2, <1>3, AppendProperties DEF Typed, HubTyped
<1>5. HubTyped'
  BY <1>4 DEF Typed, HubTyped, UserLogin, hubVars
<1>6. ServersTyped'
  BY <1>1 DEF Typed, ServersTyped, UserLogin
<1>7. QED BY <1>5, <1>6 DEF Typed

\* A packet of the hub is handled.
LEMMA ReceivedISCPacketTyped ==
  ASSUME Typed, NEW s \in Servers, ReceivedISCPacket(s)
  PROVE  Typed'
<1> DEFINE m == Head(down[conn[s]])
<1>1. conn[s] \in Conns
  BY DEF Typed, ServersTyped, ReceivedISCPacket
<1>2. down[conn[s]] \in Seq(ToServer) /\ down[conn[s]] # <<>>
  BY <1>1 DEF Typed, HubTyped, ReceivedISCPacket
<1>3. m \in ToServer /\ Tail(down[conn[s]]) \in Seq(ToServer)
  BY <1>2, HeadTailProperties
<1>4. m.cmd = "SETISCID" => m.iscid \in Iscids
  BY <1>3 DEF ToServer, Identify, UserCount, Numbered, Listing
<1>5. down' \in [Conns -> Seq(ToServer)]
  BY <1>3 DEF Typed, HubTyped, ReceivedISCPacket
<1>6. myIscid' \in [Servers -> Iscids]
  BY <1>4 DEF Typed, ServersTyped, ReceivedISCPacket
<1>7. HubTyped'
  BY <1>5 DEF Typed, HubTyped, ReceivedISCPacket, hubVars
<1>8. ServersTyped'
  BY <1>6 DEF Typed, ServersTyped, ReceivedISCPacket
<1>9. QED BY <1>7, <1>8 DEF Typed

\* Every step of the hub and of the servers keeps the types.
LEMMA NextTyped == Typed /\ [Next]_vars => Typed'
<1> SUFFICES ASSUME Typed, [Next]_vars PROVE Typed'
  OBVIOUS
<1>1. CASE HubNext /\ UNCHANGED serverVars
  <2>1. CASE AcceptClient
    BY <1>1, <2>1, AcceptClientTyped
  <2>2. ASSUME NEW w \in Workers, Continues(w) PROVE Typed'
    BY <1>1, <2>2, EraseServerTyped, NotifyRemainingTyped, PushServerTyped,
       ForwardPacketTyped, SendListTyped DEF Continues
  <2>3. ASSUME NEW w \in Workers, NEW c \in Conns, TurnsTo(w, c) PROVE Typed'
    BY <1>1, <2>3, DisconnectClientTyped, ReceiveIdentifyTyped, ReceiveUserCountTyped,
       ReceiveListRequestTyped DEF TurnsTo, ReceivesPacket
  <2>4. QED BY <1>1, <2>1, <2>2, <2>3 DEF HubNext, WorkerStep
<1>2. ASSUME NEW s \in Servers, ServerStep(s) PROVE Typed'
  BY <1>2, ConnectTyped, OnServerReadyTyped, DieTyped, UserLoginTyped,
     ReceivedISCPacketTyped DEF ServerStep
<1>3. CASE UNCHANGED vars
  BY <1>3 DEF Typed, HubTyped, ServersTyped, vars, netVars, hubVars, serverVars
<1>4. QED BY <1>1, <1>2, <1>3 DEF Next

\* The packets, the hub's state and what each server knows of itself keep their
\* types, for every set of servers and any number of connections and workers.
LEMMA AlwaysTyped == Spec => []Typed
BY InitTyped, NextTyped, PTL DEF Spec
-----------------------------------------------------------------------------
(* Numbers.  IDENTIFY chooses the number in one critical section and enters *)
(* the record in the next.  With one worker nobody comes in between, so that *)
(* the number that is about to be entered is larger than those in the list; *)
(* with two, or past the largest word, it need not be.                      *)

\* A hub of at most TITAN_CLIENTS_PER_THREAD servers.
OneWorker == \E w : Workers = {w}

\* The word has not run out of numbers.
NoWrap == \A i \in DOMAIN serverList : serverList[i].iscid < MaxWord

PushInOrder == \A w \in Workers : task[w].at = "push" =>
                 \A i \in DOMAIN serverList : serverList[i].iscid < task[w].rec.iscid

Numbering == NumbersUnique /\ PushInOrder

\* Numbers in the list are natural, and grow.
LEMMA NumbersGrow ==
  ASSUME Typed, NumbersUnique
  PROVE  /\ DOMAIN serverList = 1..Len(serverList) /\ Len(serverList) \in Nat
         /\ \A i \in 1..Len(serverList) : serverList[i].iscid \in Nat
         /\ \A i, j \in 1..Len(serverList) :
              i < j => serverList[i].iscid < serverList[j].iscid
<1>1. DOMAIN serverList = 1..Len(serverList) /\ Len(serverList) \in Nat
  BY LenProperties DEF Typed, HubTyped
<1>2. \A i \in 1..Len(serverList) : serverList[i] \in Recs
  BY ElementOfSeq DEF Typed, HubTyped
<1>3. \A i \in 1..Len(serverList) : serverList[i].iscid \in Iscids
  BY <1>2 DEF Recs
<1>4. Iscids \subseteq Nat
  BY DEF Iscids
<1>5. QED BY <1>1, <1>3, <1>4 DEF NumbersUnique

\* Steps that leave the list alone and begin no push change nothing.
LEMMA NumberingKept ==
  ASSUME Numbering, serverList' = serverList,
         \A w \in Workers : task'[w].at = "push" => task'[w] = task[w]
  PROVE  Numbering'
BY DEF Numbering, NumbersUnique, PushInOrder

\* The number that IDENTIFY chooses is larger than those in the list.
LEMMA ReceiveIdentifyNumbers ==
  ASSUME Typed, Numbering, NoWrap, NEW w \in Workers, NEW c \in Conns,
         ReceiveIdentify(w, c), UNCHANGED serverVars
  PROVE  Numbering'
<1>1. serverList' = serverList
  BY DEF ReceiveIdentify
<1>2. \A i \in DOMAIN serverList : serverList[i].iscid < NextIscid
  <2>1. SUFFICES ASSUME NEW i \in 1..Len(serverList)
                 PROVE  serverList[i].iscid < NextIscid
    BY NumbersGrow DEF Numbering
  <2> DEFINE n == Len(serverList)
  <2>2. n \in 1..n /\ serverList # <<>>
    BY NumbersGrow, EmptySeq DEF Numbering, Typed, HubTyped
  <2>3. serverList[n].iscid < MaxWord
    BY <2>2, NumbersGrow DEF NoWrap, Numbering
  <2>4. NextIscid = serverList[n].iscid + 1
    BY <2>2, <2>3, NextIscidProperties DEF Typed, HubTyped
  <2>5. i = n \/ serverList[i].iscid < serverList[n].iscid
    <3>1. n \in Nat /\ i \in 1..n
      BY NumbersGrow DEF Numbering
    <3>2. CASE i # n
      <4>1. i < n
        BY <3>1, <3>2
      <4>2. QED BY <2>2, <4>1, NumbersGrow DEF Numbering
    <3>3. QED BY <3>2
  <2>6. serverList[i].iscid \in Nat /\ serverList[n].iscid \in Nat
    BY <2>2, NumbersGrow DEF Numbering
  <2>7. QED BY <2>4, <2>5, <2>6
<1>3. /\ task' = [task EXCEPT ![w] = task'[w]]
      /\ task'[w].rec.iscid = NextIscid
  BY ReceiveIdentifyTyped
<1>4. \A u \in Workers : u # w => task'[u] = task[u]
  BY <1>3 DEF Typed, HubTyped
<1>5. PushInOrder'
  BY <1>1, <1>2, <1>3, <1>4 DEF PushInOrder, Numbering
<1>6. QED BY <1>1, <1>5 DEF Numbering, NumbersUnique

\* The one worker enters the record: it goes behind smaller numbers.
LEMMA PushServerNumbers ==
  ASSUME OneWorker, Typed, Numbering, NEW w \in Workers, PushServer(w)
  PROVE  Numbering'
<1> DEFINE n == Len(serverList)
<1>1. task[w].rec \in Recs /\ serverList \in Seq(Recs)
  BY TaskCases DEF Typed, HubTyped, PushServer
<1>2. /\ Len(serverList') = n + 1 /\ DOMAIN serverList' = 1..(n + 1)
      /\ \A i \in 1..n : serverList'[i] = serverList[i]
      /\ serverList'[n + 1] = task[w].rec
  BY <1>1, AppendProperties, LenProperties DEF PushServer
<1>3. \A i \in 1..n : serverList[i].iscid < task[w].rec.iscid
  BY NumbersGrow DEF Numbering, PushInOrder, PushServer
<1>4. ASSUME NEW i \in 1..(n + 1), NEW j \in 1..(n + 1), i < j
      PROVE  serverList'[i].iscid < serverList'[j].iscid
  <2>1. n \in Nat
    BY NumbersGrow DEF Numbering
  <2>2. i \in 1..n
    BY <1>4, <2>1
  <2>3. CASE j = n + 1
    BY <1>2, <1>3, <2>2, <2>3
  <2>4. CASE j # n + 1
    <3>1. j \in 1..n
      BY <2>1, <2>4
    <3>2. serverList[i].iscid < serverList[j].iscid
      BY <1>4, <2>2, <3>1, NumbersGrow DEF Numbering
    <3>3. QED BY <1>2, <2>2, <3>1, <3>2
  <2>5. QED BY <2>3, <2>4
<1>5. NumbersUnique'
  BY <1>2, <1>4 DEF NumbersUnique
<1>6. \A u \in Workers : u = w
  BY DEF OneWorker
<1>7. task'[w].at = "forward"
  BY DEF PushServer, Typed, HubTyped
<1>8. PushInOrder'
  BY <1>6, <1>7 DEF PushInOrder
<1>9. QED BY <1>5, <1>8 DEF Numbering

\* A record that goes leaves the others in order.
LEMMA EraseServerNumbers ==
  ASSUME OneWorker, Typed, Numbering, NEW w \in Workers, EraseServer(w)
  PROVE  Numbering'
<1> DEFINE id == iscid[task[w].conn]
           n == Len(serverList)
<1>1. NumbersUnique'
  <2>1. CASE At(serverList, id) = {}
    BY <2>1 DEF EraseServer, Without, Numbering, NumbersUnique
  <2>2. CASE At(serverList, id) # {}
    <3> DEFINE k == CHOOSE i \in At(serverList, id) : TRUE
    <3>1. n \in Nat /\ DOMAIN serverList = 1..n /\ serverList \in Seq(Recs)
      BY NumbersGrow DEF Numbering, Typed, HubTyped
    <3>2. k \in 1..n
      BY <2>2, <3>1 DEF At
    <3>3. serverList' = RemoveAt(serverList, k)
      BY <2>2 DEF EraseServer, Without
    <3> HIDE DEF k
    <3>4. /\ Len(serverList') = n - 1 /\ DOMAIN serverList' = 1..(n - 1)
          /\ \A j \in 1..(n - 1) :
               serverList'[j] = IF j < k THEN serverList[j] ELSE serverList[j + 1]
      <4>1. /\ serverList' \in Seq(Recs) /\ Len(serverList') = n - 1
            /\ \A j \in 1..(n - 1) :
                 serverList'[j] = IF j < k THEN serverList[j] ELSE serverList[j + 1]
        BY <3>1, <3>2, <3>3, RemoveAtProperties
      <4>2. QED BY <4>1, LenProperties
    <3>5. ASSUME NEW i \in 1..(n - 1), NEW j \in 1..(n - 1), i < j
          PROVE  serverList'[i].iscid < serverList'[j].iscid
      <4>1. PICK p \in 1..n : p = (IF i < k THEN i ELSE i + 1)
        BY <3>1
      <4>2. PICK q \in 1..n : q = (IF j < k THEN j ELSE j + 1)
        BY <3>1
      <4>3. p < q
        BY <3>1, <3>2, <3>5, <4>1, <4>2
      <4>4. serverList'[i] = serverList[p] /\ serverList'[j] = serverList[q]
        BY <3>4, <4>1, <4>2
      <4>5. QED BY <4>3, <4>4, NumbersGrow DEF Numbering
    <3>6. QED BY <3>4, <3>5 DEF NumbersUnique
  <2>3. QED BY <2>1, <2>2
<1>2. \A u \in Workers : u = w
  BY DEF OneWorker
<1>3. task'[w].at = "notify"
  BY DEF EraseServer, Typed, HubTyped
<1>4. QED BY <1>1, <1>2, <1>3 DEF Numbering, PushInOrder

\* A user count leaves the numbers as they are.
LEMMA ReceiveUserCountNumbers ==
  ASSUME OneWorker, Typed, Numbering, NEW w \in Workers, NEW c \in Conns,
         ReceiveUserCount(w, c)
  PROVE  Numbering'
<1>1. Head(up[c]).users \in 0..MaxLogins
  BY ReceivesTyped, ToHubCases DEF ReceiveUserCount, UserCount
<1>2. /\ DOMAIN serverList' = DOMAIN serverList
      /\ \A i \in DOMAIN serverList : serverList'[i].iscid = serverList[i].iscid
  BY <1>1, WithUsersProperties DEF ReceiveUserCount, Typed, HubTyped
<1>3. \A u \in Workers : u = w
  BY DEF OneWorker
<1>4. task'[w].at = "forward"
  BY DEF ReceiveUserCount, Typed, HubTyped
<1>5. QED BY <1>2, <1>3, <1>4 DEF Numbering, NumbersUnique, PushInOrder

\* Every step keeps the numbers in order while there is one worker and the
\* word has not run out.
LEMMA NextNumbers ==
  ASSUME OneWorker
  PROVE  Typed /\ Numbering /\ NoWrap /\ [Next]_vars => Numbering'
<1> SUFFICES ASSUME Typed, Numbering, NoWrap, [Next]_vars PROVE Numbering'
  OBVIOUS
<1>1. CASE HubNext /\ UNCHANGED serverVars
  <2>1. CASE AcceptClient
    BY <2>1, NumberingKept DEF AcceptClient
  <2>2. ASSUME NEW w \in Workers, Continues(w) PROVE Numbering'
    <3>1. CASE NotifyRemaining(w) \/ ForwardPacket(w) \/ SendList(w)
      <4>1. serverList' = serverList /\ task' = [task EXCEPT ![w] = Idle]
        BY <3>1 DEF NotifyRemaining, ForwardPacket, SendList
      <4>2. \A u \in Workers : task'[u].at = "push" => task'[u] = task[u]
        BY <4>1 DEF Idle, Typed, HubTyped
      <4>3. QED BY <4>1, <4>2, NumberingKept
    <3>2. QED BY <2>2, <3>1, EraseServerNumbers, PushServerNumbers DEF Continues
  <2>3. ASSUME NEW w \in Workers, NEW c \in Conns, TurnsTo(w, c) PROVE Numbering'
    <3>1. CASE DisconnectClient(w, c)
      <4>1. \A u \in Workers : task'[u].at = "push" => task'[u] = task[u]
        BY <3>1 DEF DisconnectClient, Typed, HubTyped
      <4>2. QED BY <3>1, <4>1, NumberingKept DEF DisconnectClient
    <3>2. CASE ReceiveListRequest(w, c)
      <4>1. \A u \in Workers : task'[u].at = "push" => task'[u] = task[u]
        BY <3>2 DEF ReceiveListRequest, Typed, HubTyped
      <4>2. QED BY <3>2, <4>1, NumberingKept DEF ReceiveListRequest
    <3>3. CASE ReceiveIdentify(w, c)
      BY <1>1, <3>3, ReceiveIdentifyNumbers
    <3>4. CASE ReceiveUserCount(w, c)
      BY <3>4, ReceiveUserCountNumbers
    <3>5. QED BY <2>3, <3>1, <3>2, <3>3, <3>4 DEF TurnsTo, ReceivesPacket
  <2>4. QED BY <1>1, <2>1, <2>2, <2>3 DEF HubNext, WorkerStep
<1>2. CASE UNCHANGED <<serverList, task>>
  BY <1>2, NumberingKept
<1>3. ASSUME NEW s \in Servers, ServerStep(s) PROVE UNCHANGED <<serverList, task>>
  BY <1>3 DEF ServerStep, Connect, OnServerReady, Die, UserLogin, ReceivedISCPacket, hubVars
<1>4. CASE UNCHANGED vars
  BY <1>2, <1>4 DEF vars, hubVars
<1>5. QED BY <1>1, <1>2, <1>3, <1>4 DEF Next

\* The list is empty and nobody is about to push.
LEMMA InitNumbers == Init => Numbering
BY DEF Init, HubInit, Numbering, NumbersUnique, PushInOrder, Idle

\* A hub with one worker gives no two registered servers the same number,
\* whatever servers die, come back and identify themselves again, as long as
\* the numbers fit into a word.
THEOREM OneWorkerNumbers == OneWorker => (Spec /\ []NoWrap => []NumbersUnique)
<1> SUFFICES ASSUME OneWorker PROVE Spec /\ []NoWrap => []NumbersUnique
  OBVIOUS
<1>1. Typed /\ Numbering /\ NoWrap /\ [Next]_vars => Numbering'
  BY NextNumbers
<1>2. Numbering => NumbersUnique
  BY DEF Numbering
<1>3. QED BY <1>1, <1>2, InitNumbers, AlwaysTyped, PTL DEF Spec
-----------------------------------------------------------------------------
(* The list and the connections                                             *)

\* No number in the list is one that a new CISCClient may have by chance.
GarbageUnused == \A i \in DOMAIN serverList : serverList[i].iscid \notin Garbage

Pushing(c) == \E w \in Workers : task[w].at = "push" /\ task[w].conn = c
Leaving(c) == \E w \in Workers : task[w].at = "erase" /\ task[w].conn = c

\* A server that runs has a connection of its own; one that nobody opened is unused.
ServersLinked ==
  \A s \in Servers : state[s] # "down" => conn[s] \in Conns /\ server[conn[s]] = s
FreshUnused ==
  \A c \in Fresh : /\ up[c] = <<>> /\ ~Leaving(c)
                  /\ c \notin Range(backlog) \cup clientList \cup identified

\* A connection is accepted once.
AcceptedOnce ==
  /\ \A i, j \in DOMAIN backlog : backlog[i] = backlog[j] => i = j
  /\ \A c \in Range(backlog) : c \notin clientList \cup identified /\ ~Leaving(c)

\* IDENTIFY is the first packet of a connection, and comes once.
IdentifyOnce ==
  /\ \A c \in Conns : \A i \in DOMAIN up[c] : up[c][i].cmd = "IDENTIFY" =>
       i = 1 /\ up[c][i].rec.srv = server[c] /\ c \notin identified /\ ~Pushing(c)
  /\ \A s \in Servers : state[s] = "connected" =>
       up[conn[s]] = <<>> /\ conn[s] \notin identified /\ ~Pushing(conn[s])

\* A number that has been chosen is noted with the connection; before, it has none.
NumberNoted ==
  /\ \A w \in Workers : task[w].at = "push" =>
       /\ task[w].conn \in clientList \ identified
       /\ task[w].rec.srv = server[task[w].conn]
       /\ task[w].rec.iscid = iscid[task[w].conn]
  /\ \A c \in Conns \ identified : Pushing(c) \/ iscid[c] \in Garbage
LeavingLeft == \A c \in clientList : ~Leaving(c)

\* The list has a record for each connection that identified itself, until the
\* worker that saw it end has taken the record out; and no other.
Registered(c) == c \in identified /\ (c \in clientList \/ Leaving(c))
HasRecord(c, r) == r.srv = server[c] /\ r.iscid = iscid[c]
RecordsMatch ==
  /\ \A c \in Conns : Registered(c) => \E i \in DOMAIN serverList : HasRecord(c, serverList[i])
  /\ \A i \in DOMAIN serverList : \E c \in Conns : Registered(c) /\ HasRecord(c, serverList[i])
  /\ \A c, d \in Conns : Registered(c) /\ Registered(d) /\ iscid[c] = iscid[d] => c = d

LinkInv == /\ ServersLinked /\ FreshUnused /\ AcceptedOnce /\ IdentifyOnce
           /\ NumberNoted /\ LeavingLeft /\ RecordsMatch

\* At first there are no connections and no records.
LEMMA LinkInit == Init => LinkInv
<1> SUFFICES ASSUME Init PROVE LinkInv
  OBVIOUS
<1>1. \A w \in Workers : task[w].at = "idle"
  BY DEF Init, HubInit, Idle
<1>2. DOMAIN backlog = {} /\ Range(backlog) = {} /\ DOMAIN serverList = {}
  BY DEF Init, HubInit, Range
<1>3. ServersLinked /\ FreshUnused /\ AcceptedOnce
  BY <1>1, <1>2 DEF Init, HubInit, ServersLinked, FreshUnused, AcceptedOnce, Fresh, Leaving
<1>4. IdentifyOnce
  BY DEF Init, HubInit, IdentifyOnce
<1>5. NumberNoted /\ LeavingLeft
  BY <1>1 DEF Init, HubInit, NumberNoted, LeavingLeft
<1>6. RecordsMatch
  BY <1>2 DEF Init, HubInit, RecordsMatch, Registered
<1> QED BY <1>3, <1>4, <1>5, <1>6 DEF LinkInv

\* Taking out a record leaves the others.
LEMMA WithoutRecord ==
  ASSUME NEW lst \in Seq(Recs), NEW id, NEW k \in DOMAIN lst, lst[k].iscid = id,
         \A i, j \in DOMAIN lst : lst[i].iscid = lst[j].iscid => i = j
  PROVE  /\ \A i \in DOMAIN lst \ {k} :
              \E j \in DOMAIN Without(lst, id) : Without(lst, id)[j] = lst[i]
         /\ \A j \in DOMAIN Without(lst, id) :
              \E i \in DOMAIN lst \ {k} : Without(lst, id)[j] = lst[i]
<1> DEFINE n == Len(lst)
           new == Without(lst, id)
<1>1. n \in Nat /\ DOMAIN lst = 1..n
  BY LenProperties
<1>2. k \in At(lst, id)
  <2>1. \A j \in 1..(k - 1) : j \in DOMAIN lst /\ j # k
    BY <1>1
  <2> QED BY <2>1 DEF At
<1>3. (CHOOSE i \in At(lst, id) : TRUE) \in At(lst, id)
  BY <1>2
<1>4. (CHOOSE i \in At(lst, id) : TRUE) = k
  BY <1>3 DEF At
<1>5. new = RemoveAt(lst, k)
  BY <1>2, <1>4 DEF Without
<1>6. /\ DOMAIN new = 1..(n - 1)
      /\ \A j \in 1..(n - 1) : new[j] = IF j < k THEN lst[j] ELSE lst[j + 1]
  BY <1>1, <1>5, RemoveAtProperties, LenProperties
<1> HIDE DEF new, n
<1>7. ASSUME NEW i \in DOMAIN lst \ {k} PROVE \E j \in DOMAIN new : new[j] = lst[i]
  <2>1. CASE i < k
    <3>1. i \in 1..(n - 1)
      BY <2>1, <1>1
    <3> QED BY <3>1, <2>1, <1>6
  <2>2. CASE ~(i < k)
    <3>1. i - 1 \in 1..(n - 1) /\ ~(i - 1 < k) /\ (i - 1) + 1 = i
      BY <2>2, <1>1
    <3>2. new[i - 1] = lst[i]
      BY <3>1, <1>6
    <3> QED BY <3>1, <3>2, <1>6
  <2> QED BY <2>1, <2>2
<1>8. ASSUME NEW j \in DOMAIN new PROVE \E i \in DOMAIN lst \ {k} : new[j] = lst[i]
  <2>1. CASE j < k
    <3>1. j \in DOMAIN lst \ {k} /\ new[j] = lst[j]
      BY <2>1, <1>1, <1>6
    <3> QED BY <3>1
  <2>2. CASE ~(j < k)
    <3>1. j + 1 \in DOMAIN lst \ {k} /\ new[j] = lst[j + 1]
      BY <2>2, <1>1, <1>6
    <3> QED BY <3>1
  <2> QED BY <2>1, <2>2
<1> QED BY <1>7, <1>8 DEF new

\* Steps that concern neither the list nor who is connected: what is new in the
\* queues is no IDENTIFY, and comes from servers that are up.
LEMMA LinkKept ==
  ASSUME Typed, LinkInv, Typed',
         UNCHANGED <<server, backlog, clientList, identified, iscid>>,
         DOMAIN serverList' = DOMAIN serverList,
         \A i \in DOMAIN serverList : /\ serverList'[i].srv = serverList[i].srv
                                      /\ serverList'[i].iscid = serverList[i].iscid,
         \A u \in Workers : task'[u].at \in {"push", "erase"} => task'[u] = task[u],
         \A u \in Workers : task[u].at \in {"push", "erase"} => task'[u] = task[u],
         \A s \in Servers : state'[s] # "down" => state'[s] = state[s] /\ conn'[s] = conn[s],
         \A c \in Conns : \A i \in DOMAIN up'[c] :
           up'[c][i].cmd = "IDENTIFY" => i \in DOMAIN up[c] /\ up'[c][i] = up[c][i],
         \A c \in Conns : up[c] = <<>> =>
           up'[c] = <<>> \/ (server[c] # None /\ \A s \in Servers : state[s] = "connected" => conn[s] # c)
  PROVE  LinkInv'
<1>1. \A c \in Conns : (Pushing(c)' <=> Pushing(c)) /\ (Leaving(c)' <=> Leaving(c))
  BY DEF Pushing, Leaving
<1>2. ServersLinked'
  BY DEF LinkInv, ServersLinked
<1>3. FreshUnused'
  <2>1. Fresh' = Fresh /\ Fresh \subseteq Conns
    BY DEF Fresh
  <2>2. \A c \in Fresh : server[c] = None
    BY DEF Fresh
  <2> QED BY <1>1, <2>1, <2>2 DEF LinkInv, FreshUnused
<1>4. AcceptedOnce'
  <2>1. Range(backlog) \subseteq Conns
    BY RangeOfSeq DEF Typed, HubTyped
  <2> QED BY <1>1, <2>1 DEF LinkInv, AcceptedOnce
<1>5. IdentifyOnce'
  <2>1. ASSUME NEW c \in Conns, NEW i \in DOMAIN up'[c], up'[c][i].cmd = "IDENTIFY"
        PROVE  i = 1 /\ up'[c][i].rec.srv = server[c] /\ c \notin identified /\ ~Pushing(c)
    BY <2>1 DEF LinkInv, IdentifyOnce
  <2>2. ASSUME NEW s \in Servers, state'[s] = "connected"
        PROVE  up'[conn[s]] = <<>> /\ conn[s] \notin identified /\ ~Pushing(conn[s]) /\ conn[s] \in Conns
    <3>1. state[s] = "connected" /\ conn[s] \in Conns
      BY <2>2 DEF LinkInv, ServersLinked
    <3> QED BY <3>1 DEF LinkInv, IdentifyOnce
  <2> QED BY <1>1, <2>1, <2>2 DEF IdentifyOnce
<1>6. NumberNoted'
  <2>1. ASSUME NEW w \in Workers, task'[w].at = "push"
        PROVE  /\ task'[w].conn \in clientList \ identified
               /\ task'[w].rec.srv = server[task'[w].conn]
               /\ task'[w].rec.iscid = iscid[task'[w].conn]
    BY <2>1 DEF LinkInv, NumberNoted
  <2> QED BY <1>1, <2>1 DEF LinkInv, NumberNoted
<1>7. LeavingLeft'
  BY <1>1 DEF LinkInv, LeavingLeft, Typed, HubTyped
<1>8. RecordsMatch'
  <2>1. \A c \in Conns : Registered(c)' <=> Registered(c)
    BY <1>1 DEF Registered
  <2>2. \A c \in Conns, i \in DOMAIN serverList :
          HasRecord(c, serverList[i])' <=> HasRecord(c, serverList[i])
    BY DEF HasRecord
  <2> QED BY <2>1, <2>2 DEF LinkInv, RecordsMatch
<1> QED BY <1>2, <1>3, <1>4, <1>5, <1>6, <1>7, <1>8 DEF LinkInv

\* What stays as it is, is as good as before: the queues, and who is registered.
LEMMA RecordsKept ==
  ASSUME RecordsMatch, UNCHANGED <<serverList>>,
         \A c \in Conns : Registered(c)' <=> Registered(c),
         \A c \in Conns : Registered(c) => server'[c] = server[c] /\ iscid'[c] = iscid[c]
  PROVE  RecordsMatch'
<1>1. \A c \in Conns, i \in DOMAIN serverList :
        Registered(c) => (HasRecord(c, serverList[i])' <=> HasRecord(c, serverList[i]))
  BY DEF HasRecord
<1>2. \A c \in Conns : Registered(c)' => \E i \in DOMAIN serverList' : HasRecord(c, serverList[i])'
  BY <1>1 DEF RecordsMatch
<1>3. \A i \in DOMAIN serverList' : \E c \in Conns : Registered(c)' /\ HasRecord(c, serverList[i])'
  BY <1>1 DEF RecordsMatch
<1>4. \A c, d \in Conns : Registered(c)' /\ Registered(d)' /\ iscid'[c] = iscid'[d] => c = d
  BY DEF RecordsMatch
<1> QED BY <1>2, <1>3, <1>4 DEF RecordsMatch

\* A connection that is accepted has not identified itself.
LEMMA AcceptClientLinks ==
  ASSUME Typed, LinkInv, AcceptClient, UNCHANGED serverVars
  PROVE  LinkInv'
<1>1. /\ backlog \in Seq(Conns) /\ backlog # <<>> /\ backlog' = Tail(backlog)
      /\ clientList' = clientList \cup {Head(backlog)}
      /\ UNCHANGED <<server, isOpen, up, serverList, iscid, task, identified, state, conn>>
  BY DEF AcceptClient, Typed, HubTyped, netVars, serverVars
<1>2. PICK c \in Conns : c = Head(backlog)
  BY <1>1, HeadTailProperties
<1>3. /\ Len(backlog) \in Nat \ {0} /\ DOMAIN backlog = 1..Len(backlog) /\ backlog[1] = c
      /\ backlog' \in Seq(Conns) /\ DOMAIN backlog' = 1..(Len(backlog) - 1)
      /\ \A i \in 1..(Len(backlog) - 1) : backlog'[i] = backlog[i + 1]
  <2>1. /\ backlog' \in Seq(Conns) /\ Len(backlog') = Len(backlog) - 1
        /\ \A i \in 1..Len(backlog') : backlog'[i] = backlog[i + 1]
    BY <1>1, HeadTailProperties
  <2> QED BY <2>1, <1>1, <1>2, LenProperties, EmptySeq
<1>4. \A i \in 1..(Len(backlog) - 1) : i + 1 \in DOMAIN backlog /\ i + 1 # 1
  BY <1>3
<1>5. 1 \in DOMAIN backlog
  BY <1>3
<1>6. \A d \in Range(backlog') : d \in Range(backlog) \ {c}
  <2> SUFFICES ASSUME NEW i \in 1..(Len(backlog) - 1) PROVE backlog'[i] \in Range(backlog) \ {c}
    BY <1>3 DEF Range
  <2>1. backlog'[i] = backlog[i + 1] /\ i + 1 \in DOMAIN backlog /\ i + 1 # 1
    BY <1>3, <1>4
  <2>2. backlog[i + 1] # c
    BY <2>1, <1>3, <1>5 DEF LinkInv, AcceptedOnce
  <2> QED BY <2>1, <2>2 DEF Range
<1>7. c \in Range(backlog)
  BY <1>3, <1>5 DEF Range
<1>8. c \notin identified /\ ~Leaving(c) /\ c \notin clientList
  BY <1>7 DEF LinkInv, AcceptedOnce
<1>9. \A d \in Conns : (Pushing(d)' <=> Pushing(d)) /\ (Leaving(d)' <=> Leaving(d))
                         /\ (Registered(d)' <=> Registered(d))
  BY <1>1, <1>2, <1>8 DEF Pushing, Leaving, Registered
<1>10. ServersLinked'
  BY <1>1 DEF LinkInv, ServersLinked
<1>11. FreshUnused'
  <2>1. Fresh' = Fresh /\ Fresh \subseteq Conns
    BY <1>1 DEF Fresh
  <2>2. c \notin Fresh
    BY <1>7 DEF LinkInv, FreshUnused
  <2> QED BY <1>1, <1>2, <1>6, <1>9, <2>1, <2>2 DEF LinkInv, FreshUnused
<1>12. AcceptedOnce'
  <2>1. ASSUME NEW i \in DOMAIN backlog', NEW j \in DOMAIN backlog', backlog'[i] = backlog'[j]
        PROVE  i = j
    <3>1. /\ i \in Nat /\ j \in Nat /\ i + 1 \in DOMAIN backlog /\ j + 1 \in DOMAIN backlog
          /\ backlog[i + 1] = backlog[j + 1]
      BY <2>1, <1>3, <1>4
    <3>2. i + 1 = j + 1
      BY <3>1 DEF LinkInv, AcceptedOnce
    <3> QED BY <3>1, <3>2
  <2>2. ASSUME NEW d \in Range(backlog') PROVE d \notin clientList' \cup identified /\ ~Leaving(d)
    <3>1. d \in Range(backlog) /\ d # c
      BY <1>6
    <3> QED BY <3>1, <1>1, <1>2 DEF LinkInv, AcceptedOnce
  <2>3. Range(backlog') \subseteq Conns
    BY <1>3, RangeOfSeq
  <2> QED BY <2>1, <2>2, <2>3, <1>1, <1>9 DEF AcceptedOnce
<1>13. IdentifyOnce'
  <2>1. \A s \in Servers : state[s] = "connected" => conn[s] \in Conns
    BY DEF LinkInv, ServersLinked
  <2> QED BY <2>1, <1>1, <1>9 DEF LinkInv, IdentifyOnce
<1>14. NumberNoted'
  BY <1>1, <1>9 DEF LinkInv, NumberNoted
<1>15. LeavingLeft'
  BY <1>1, <1>2, <1>8 DEF LinkInv, LeavingLeft, Leaving
<1>16. RecordsMatch'
  BY <1>1, <1>9, RecordsKept DEF LinkInv
<1> QED BY <1>10, <1>11, <1>12, <1>13, <1>14, <1>15, <1>16 DEF LinkInv

\* A connection that ends stays registered until its record is taken out.
LEMMA DisconnectClientLinks ==
  ASSUME Typed, LinkInv, NEW w, Workers = {w}, NEW c \in Conns, DisconnectClient(w, c),
         UNCHANGED serverVars
  PROVE  LinkInv'
<1>1. /\ task[w].at = "idle" /\ c \in clientList /\ clientList' = clientList \ {c}
      /\ task'[w].at = "erase" /\ task'[w].conn = c
      /\ UNCHANGED <<server, isOpen, up, backlog, serverList, iscid, identified, state, conn>>
  BY DEF DisconnectClient, Serves, Idle, Typed, HubTyped, netVars, serverVars
<1>2. \A d \in Conns : ~Pushing(d) /\ ~Pushing(d)' /\ ~Leaving(d) /\ (Leaving(d)' <=> d = c)
  BY <1>1 DEF Pushing, Leaving
<1>3. \A d \in Conns : Registered(d)' <=> Registered(d)
  BY <1>1, <1>2 DEF Registered
<1>4. Fresh' = Fresh /\ Fresh \subseteq Conns /\ Range(backlog) \subseteq Conns
  BY <1>1, RangeOfSeq DEF Fresh, Typed, HubTyped
<1>5. ServersLinked'
  BY <1>1 DEF LinkInv, ServersLinked
<1>6. FreshUnused' /\ AcceptedOnce'
  BY <1>1, <1>2, <1>4 DEF LinkInv, FreshUnused, AcceptedOnce
<1>7. IdentifyOnce'
  <2>1. \A s \in Servers : state[s] = "connected" => conn[s] \in Conns
    BY DEF LinkInv, ServersLinked
  <2> QED BY <2>1, <1>1, <1>2 DEF LinkInv, IdentifyOnce
<1>8. NumberNoted'
  BY <1>1, <1>2 DEF LinkInv, NumberNoted
<1>9. LeavingLeft'
  BY <1>1, <1>2 DEF LeavingLeft, Typed, HubTyped
<1>10. RecordsMatch'
  BY <1>1, <1>3, RecordsKept DEF LinkInv
<1> QED BY <1>5, <1>6, <1>7, <1>8, <1>9, <1>10 DEF LinkInv

\* Its own record goes and nobody else's: none, when it has not identified itself.
LEMMA EraseServerLinks ==
  ASSUME Typed, LinkInv, NumbersUnique, GarbageUnused, NEW w, Workers = {w}, EraseServer(w),
         UNCHANGED serverVars
  PROVE  LinkInv'
<1>1. /\ task[w].at = "erase" /\ task[w].conn \in Conns
      /\ serverList' = Without(serverList, iscid[task[w].conn])
      /\ task'[w].at = "notify"
      /\ UNCHANGED <<server, isOpen, up, backlog, clientList, iscid, identified, state, conn>>
  BY TaskCases DEF EraseServer, Typed, HubTyped, netVars, serverVars
<1>2. PICK c \in Conns : c = task[w].conn
  BY <1>1
<1>3. \A d \in Conns : ~Pushing(d) /\ ~Pushing(d)' /\ ~Leaving(d)' /\ (Leaving(d) <=> d = c)
  BY <1>1, <1>2 DEF Pushing, Leaving
<1>4. c \notin clientList
  BY <1>3 DEF LinkInv, LeavingLeft
<1>5. \A d \in Conns : Registered(d)' <=> Registered(d) /\ d # c
  BY <1>1, <1>3, <1>4 DEF Registered
<1>6. Fresh' = Fresh /\ Fresh \subseteq Conns /\ Range(backlog) \subseteq Conns
  BY <1>1, RangeOfSeq DEF Fresh, Typed, HubTyped
<1>7. ServersLinked'
  BY <1>1 DEF LinkInv, ServersLinked
<1>8. FreshUnused' /\ AcceptedOnce'
  BY <1>1, <1>3, <1>6 DEF LinkInv, FreshUnused, AcceptedOnce
<1>9. IdentifyOnce'
  <2>1. \A s \in Servers : state[s] = "connected" => conn[s] \in Conns
    BY DEF LinkInv, ServersLinked
  <2> QED BY <2>1, <1>1, <1>3 DEF LinkInv, IdentifyOnce
<1>10. NumberNoted'
  BY <1>1, <1>3 DEF LinkInv, NumberNoted
<1>11. LeavingLeft'
  BY <1>1, <1>3 DEF LeavingLeft, Typed, HubTyped
<1>12. RecordsMatch'
  <2>1. CASE c \notin identified
    <3>1. iscid[c] \in Garbage
      BY <2>1, <1>3 DEF LinkInv, NumberNoted
    <3>2. At(serverList, iscid[c]) = {}
      BY <3>1 DEF At, GarbageUnused
    <3>3. UNCHANGED serverList
      BY <3>2, <1>1, <1>2 DEF Without
    <3>4. \A d \in Conns : Registered(d)' <=> Registered(d)
      BY <2>1, <1>5 DEF Registered
    <3> QED BY <3>3, <3>4, <1>1, RecordsKept DEF LinkInv
  <2>2. CASE c \in identified
    <3>1. Registered(c)
      BY <2>2, <1>3 DEF Registered
    <3>2. PICK k \in DOMAIN serverList : HasRecord(c, serverList[k])
      BY <3>1 DEF LinkInv, RecordsMatch
    <3>3. \A i, j \in DOMAIN serverList : serverList[i].iscid = serverList[j].iscid => i = j
      <4> SUFFICES ASSUME NEW i \in DOMAIN serverList, NEW j \in DOMAIN serverList,
                          serverList[i].iscid = serverList[j].iscid, i # j
                   PROVE  FALSE
        OBVIOUS
      <4>1. i \in Nat /\ j \in Nat /\ serverList[i].iscid \in Nat
        BY NumbersGrow
      <4>2. i < j \/ j < i
        BY <4>1
      <4> QED BY <4>1, <4>2 DEF NumbersUnique
    <3>4. serverList \in Seq(Recs) /\ serverList[k].iscid = iscid[c]
          /\ serverList' = Without(serverList, iscid[c])
      BY <3>2, <1>1, <1>2 DEF HasRecord, Typed, HubTyped
    <3>5. /\ \A i \in DOMAIN serverList \ {k} : \E j \in DOMAIN serverList' : serverList'[j] = serverList[i]
          /\ \A j \in DOMAIN serverList' : \E i \in DOMAIN serverList \ {k} : serverList'[j] = serverList[i]
      BY <3>3, <3>4, WithoutRecord
    <3>6. ASSUME NEW d \in Conns, Registered(d)'
          PROVE  \E j \in DOMAIN serverList' : HasRecord(d, serverList[j])'
      <4>1. Registered(d) /\ d # c
        BY <3>6, <1>5
      <4>2. PICK i \in DOMAIN serverList : HasRecord(d, serverList[i])
        BY <4>1 DEF LinkInv, RecordsMatch
      <4>3. i # k
        BY <4>1, <4>2, <3>1, <3>4 DEF LinkInv, RecordsMatch, HasRecord
      <4>4. PICK j \in DOMAIN serverList' : serverList'[j] = serverList[i]
        BY <4>3, <3>5
      <4> QED BY <4>2, <4>4, <1>1 DEF HasRecord
    <3>7. ASSUME NEW j \in DOMAIN serverList'
          PROVE  \E d \in Conns : Registered(d)' /\ HasRecord(d, serverList[j])'
      <4>1. PICK i \in DOMAIN serverList \ {k} : serverList'[j] = serverList[i]
        BY <3>5
      <4>2. PICK d \in Conns : Registered(d) /\ HasRecord(d, serverList[i])
        BY <4>1 DEF LinkInv, RecordsMatch
      <4>3. d # c
        BY <4>1, <4>2, <3>3, <3>4 DEF HasRecord
      <4>4. Registered(d)'
        BY <4>2, <4>3, <1>5
      <4>5. HasRecord(d, serverList[j])'
        BY <4>1, <4>2, <1>1 DEF HasRecord
      <4> QED BY <4>4, <4>5
    <3>8. \A d, e \in Conns : Registered(d)' /\ Registered(e)' /\ iscid'[d] = iscid'[e] => d = e
      BY <1>1, <1>5 DEF LinkInv, RecordsMatch
    <3> QED BY <3>6, <3>7, <3>8 DEF RecordsMatch
  <2> QED BY <2>1, <2>2
<1> QED BY <1>7, <1>8, <1>9, <1>10, <1>11, <1>12 DEF LinkInv

\* What is left of a queue that was read from holds no IDENTIFY: that is the
\* first packet or there is none.
LEMMA ReceivesRest ==
  ASSUME Typed, LinkInv, NEW w \in Workers, NEW c \in Conns, NEW cmd, Receives(w, c, cmd)
  PROVE  /\ \A d \in Conns : \A i \in DOMAIN up'[d] : up'[d][i].cmd = "IDENTIFY" =>
              d # c /\ i \in DOMAIN up[d] /\ up'[d][i] = up[d][i]
         /\ \A d \in Conns : up[d] = <<>> => up'[d] = <<>>
         /\ up[c] # <<>> /\ 1 \in DOMAIN up[c] /\ Head(up[c]) = up[c][1]
<1>1. /\ up \in [Conns -> Seq(ToHub)] /\ up[c] \in Seq(ToHub) /\ up[c] # <<>>
      /\ up' = [up EXCEPT ![c] = Tail(up[c])]
  BY DEF Typed, HubTyped, Receives
<1>2. /\ Tail(up[c]) \in Seq(ToHub) /\ Len(Tail(up[c])) = Len(up[c]) - 1
      /\ \A i \in 1..Len(Tail(up[c])) : Tail(up[c])[i] = up[c][i + 1]
  BY <1>1, HeadTailProperties
<1>3. Len(up[c]) \in Nat \ {0} /\ DOMAIN up[c] = 1..Len(up[c])
      /\ DOMAIN Tail(up[c]) = 1..(Len(up[c]) - 1)
  BY <1>1, <1>2, LenProperties, EmptySeq
<1>4. ASSUME NEW i \in DOMAIN up'[c] PROVE up'[c][i].cmd # "IDENTIFY"
  <2>1. i \in 1..(Len(up[c]) - 1) /\ up'[c][i] = up[c][i + 1]
    BY <1>1, <1>2, <1>3
  <2>2. i + 1 \in DOMAIN up[c] /\ i + 1 # 1
    BY <2>1, <1>3
  <2> QED BY <2>1, <2>2 DEF LinkInv, IdentifyOnce
<1>5. \A d \in Conns : d # c => up'[d] = up[d]
  BY <1>1
<1>6. 1 \in DOMAIN up[c] /\ Head(up[c]) = up[c][1]
  BY <1>1, <1>3, HeadTailProperties
<1> QED BY <1>1, <1>4, <1>5, <1>6

\* The number is noted in the same critical section in which it is chosen.
LEMMA ReceiveIdentifyLinks ==
  ASSUME Typed, LinkInv, NEW w, Workers = {w}, NEW c \in Conns, ReceiveIdentify(w, c),
         UNCHANGED serverVars
  PROVE  LinkInv'
<1>1. /\ Receives(w, c, "IDENTIFY") /\ task[w].at = "idle" /\ c \in clientList
      /\ iscid' = [iscid EXCEPT ![c] = NextIscid]
      /\ UNCHANGED <<server, isOpen, backlog, clientList, serverList, identified, state, conn>>
  BY DEF ReceiveIdentify, Receives, Serves, Idle, serverVars
<1>2. /\ \A d \in Conns : \A i \in DOMAIN up'[d] : up'[d][i].cmd = "IDENTIFY" =>
           d # c /\ i \in DOMAIN up[d] /\ up'[d][i] = up[d][i]
      /\ \A d \in Conns : up[d] = <<>> => up'[d] = <<>>
      /\ up[c] # <<>> /\ 1 \in DOMAIN up[c] /\ Head(up[c]) = up[c][1]
  BY <1>1, ReceivesRest
<1>3. Head(up[c]).cmd = "IDENTIFY"
  BY <1>1 DEF Receives
<1>4. c \notin identified /\ Head(up[c]).rec.srv = server[c]
  BY <1>2, <1>3 DEF LinkInv, IdentifyOnce
<1>5. /\ task'[w].at = "push" /\ task'[w].conn = c
      /\ task'[w].rec.srv = server[c] /\ task'[w].rec.iscid = NextIscid
  <2> DEFINE r == [Head(up[c]).rec EXCEPT !.iscid = NextIscid]
  <2>1. Head(up[c]).rec \in Recs
    BY <1>1, <1>3, ReceivesTyped, ToHubCases DEF Identify
  <2>2. r.srv = server[c] /\ r.iscid = NextIscid
    BY <2>1, <1>4 DEF Recs
  <2>3. task' = [task EXCEPT ![w] = [at |-> "push", conn |-> c, rec |-> r]]
    BY DEF ReceiveIdentify
  <2> HIDE DEF r
  <2> QED BY <2>2, <2>3 DEF Typed, HubTyped
<1>6. \A d \in Conns : ~Pushing(d) /\ (Pushing(d)' <=> d = c) /\ ~Leaving(d) /\ ~Leaving(d)'
  BY <1>1, <1>5 DEF Pushing, Leaving
<1>7. /\ iscid'[c] = NextIscid
      /\ \A d \in Conns : d # c => iscid'[d] = iscid[d]
  BY <1>1 DEF Typed, HubTyped
<1>8. \A d \in Conns : /\ Registered(d)' <=> Registered(d)
                       /\ Registered(d) => d # c
  BY <1>1, <1>4, <1>6 DEF Registered
<1>9. Fresh' = Fresh /\ Fresh \subseteq Conns /\ Range(backlog) \subseteq Conns
  BY <1>1, RangeOfSeq DEF Fresh, Typed, HubTyped
<1>10. ServersLinked'
  BY <1>1 DEF LinkInv, ServersLinked
<1>11. FreshUnused' /\ AcceptedOnce'
  BY <1>1, <1>2, <1>6, <1>9 DEF LinkInv, FreshUnused, AcceptedOnce
<1>12. IdentifyOnce'
  <2>1. \A s \in Servers : state[s] = "connected" => conn[s] \in Conns
    BY DEF LinkInv, ServersLinked
  <2>2. \A s \in Servers : state[s] = "connected" => conn[s] # c
    BY <1>2 DEF LinkInv, IdentifyOnce
  <2> QED BY <2>1, <2>2, <1>1, <1>2, <1>6 DEF LinkInv, IdentifyOnce
<1>13. NumberNoted'
  BY <1>1, <1>4, <1>5, <1>6, <1>7 DEF LinkInv, NumberNoted
<1>14. LeavingLeft'
  BY <1>1, <1>6 DEF LeavingLeft, Typed, HubTyped
<1>15. RecordsMatch'
  BY <1>1, <1>7, <1>8, RecordsKept DEF LinkInv
<1> QED BY <1>10, <1>11, <1>12, <1>13, <1>14, <1>15 DEF LinkInv

\* The record that is entered is that of the connection it came over, under a
\* number that no other has.
LEMMA PushServerLinks ==
  ASSUME Typed, Numbering, LinkInv, NEW w, Workers = {w}, PushServer(w), UNCHANGED serverVars
  PROVE  LinkInv'
<1> DEFINE n == Len(serverList)
<1>1. /\ task[w].at = "push" /\ task[w].conn \in Conns /\ task[w].rec \in Recs
      /\ serverList' = Append(serverList, task[w].rec)
      /\ identified' = identified \cup {task[w].conn}
      /\ task'[w].at = "forward"
      /\ UNCHANGED <<server, isOpen, up, backlog, clientList, iscid, state, conn>>
  BY TaskCases DEF PushServer, Typed, HubTyped, netVars, serverVars
<1>2. PICK c \in Conns : c = task[w].conn
  BY <1>1
<1>3. PICK r \in Recs : r = task[w].rec
  BY <1>1
<1>4. \A d \in Conns : (Pushing(d) <=> d = c) /\ ~Pushing(d)' /\ ~Leaving(d) /\ ~Leaving(d)'
  BY <1>1, <1>2 DEF Pushing, Leaving
<1>5. c \in clientList /\ c \notin identified /\ r.srv = server[c] /\ r.iscid = iscid[c]
  BY <1>1, <1>2, <1>3 DEF LinkInv, NumberNoted
<1>6. \A d \in Conns : Registered(d)' <=> (Registered(d) \/ d = c)
  BY <1>1, <1>2, <1>4, <1>5 DEF Registered
<1>7. /\ n \in Nat /\ DOMAIN serverList = 1..n /\ DOMAIN serverList' = 1..(n + 1)
      /\ \A i \in 1..n : serverList'[i] = serverList[i]
      /\ serverList'[n + 1] = r
  BY <1>1, <1>3, AppendProperties, LenProperties DEF Typed, HubTyped
<1>8. \A i \in 1..n : serverList[i].iscid \in Nat /\ r.iscid \in Nat /\ serverList[i].iscid < r.iscid
  <2>1. Iscids \subseteq Nat
    BY DEF Iscids
  <2>2. r.iscid \in Nat
    BY <1>3, <2>1 DEF Recs
  <2>3. \A i \in 1..n : serverList[i].iscid < task[w].rec.iscid
    BY <1>1, <1>7 DEF Numbering, PushInOrder
  <2> QED BY <2>2, <2>3, <1>3, NumbersGrow DEF Numbering
<1>9. Fresh' = Fresh /\ Fresh \subseteq Conns /\ Range(backlog) \subseteq Conns
  BY <1>1, RangeOfSeq DEF Fresh, Typed, HubTyped
<1>10. ServersLinked'
  BY <1>1 DEF LinkInv, ServersLinked
<1>11. FreshUnused' /\ AcceptedOnce'
  BY <1>1, <1>2, <1>4, <1>5, <1>9 DEF LinkInv, FreshUnused, AcceptedOnce
<1>12. IdentifyOnce'
  <2>1. \A s \in Servers : state[s] = "connected" => conn[s] \in Conns
    BY DEF LinkInv, ServersLinked
  <2> QED BY <2>1, <1>1, <1>2, <1>4 DEF LinkInv, IdentifyOnce
<1>13. NumberNoted'
  BY <1>1, <1>2, <1>4 DEF LinkInv, NumberNoted
<1>14. LeavingLeft'
  BY <1>1, <1>4 DEF LeavingLeft, Typed, HubTyped
<1>15. RecordsMatch'
  <2>1. ASSUME NEW d \in Conns, Registered(d)'
        PROVE  \E i \in DOMAIN serverList' : HasRecord(d, serverList[i])'
    <3>1. CASE d = c
      <4>1. PICK k \in DOMAIN serverList' : k = n + 1
        BY <1>7
      <4>2. HasRecord(d, serverList[k])'
        BY <4>1, <3>1, <1>1, <1>5, <1>7 DEF HasRecord
      <4> QED BY <4>1, <4>2
    <3>2. CASE d # c
      <4>1. PICK i \in DOMAIN serverList : HasRecord(d, serverList[i])
        BY <3>2, <2>1, <1>6 DEF LinkInv, RecordsMatch
      <4>2. i \in DOMAIN serverList' /\ serverList'[i] = serverList[i]
        BY <1>7
      <4> QED BY <4>1, <4>2, <1>1 DEF HasRecord
    <3> QED BY <3>1, <3>2
  <2>2. ASSUME NEW i \in DOMAIN serverList'
        PROVE  \E d \in Conns : Registered(d)' /\ HasRecord(d, serverList[i])'
    <3>1. CASE i = n + 1
      <4>1. Registered(c)' /\ HasRecord(c, serverList[i])'
        BY <3>1, <1>1, <1>5, <1>6, <1>7 DEF HasRecord
      <4> QED BY <4>1
    <3>2. CASE i # n + 1
      <4>1. i \in DOMAIN serverList /\ serverList'[i] = serverList[i]
        BY <3>2, <1>7
      <4>2. PICK d \in Conns : Registered(d) /\ HasRecord(d, serverList[i])
        BY <4>1 DEF LinkInv, RecordsMatch
      <4>3. Registered(d)' /\ HasRecord(d, serverList[i])'
        BY <4>1, <4>2, <1>1, <1>6 DEF HasRecord
      <4> QED BY <4>3
    <3> QED BY <3>1, <3>2
  <2>3. \A d \in Conns : Registered(d) => iscid[d] # iscid[c]
    <3> SUFFICES ASSUME NEW d \in Conns, Registered(d), iscid[d] = iscid[c] PROVE FALSE
      OBVIOUS
    <3>1. PICK i \in DOMAIN serverList : HasRecord(d, serverList[i])
      BY DEF LinkInv, RecordsMatch
    <3>2. serverList[i].iscid = r.iscid /\ i \in 1..n
      BY <3>1, <1>5, <1>7 DEF HasRecord
    <3> QED BY <3>2, <1>8
  <2>4. \A d, e \in Conns : Registered(d)' /\ Registered(e)' /\ iscid'[d] = iscid'[e] => d = e
    BY <2>3, <1>1, <1>6 DEF LinkInv, RecordsMatch
  <2> QED BY <2>1, <2>2, <2>4 DEF RecordsMatch
<1> QED BY <1>10, <1>11, <1>12, <1>13, <1>14, <1>15 DEF LinkInv

\* A server opens a connection that nobody has used: it waits to be accepted.
LEMMA ConnectLinks ==
  ASSUME Typed, LinkInv, NEW s \in Servers, Connect(s)
  PROVE  LinkInv'
<1>1. PICK c \in Fresh : /\ server' = [server EXCEPT ![c] = s]
                         /\ backlog' = Append(backlog, c)
                         /\ conn' = [conn EXCEPT ![s] = c]
  BY DEF Connect
<1>2. /\ state' = [state EXCEPT ![s] = "connected"]
      /\ UNCHANGED <<up, clientList, serverList, iscid, task, identified>>
  BY DEF Connect
<1>3. c \in Conns /\ server[c] = None /\ s # None /\ None \notin Servers
  BY NobodyIsNoServer DEF Fresh
<1>4. /\ up[c] = <<>> /\ ~Leaving(c)
      /\ c \notin Range(backlog) /\ c \notin clientList /\ c \notin identified
  BY DEF LinkInv, FreshUnused
<1>5. \A d \in Conns : /\ Pushing(d)' <=> Pushing(d)
                       /\ Leaving(d)' <=> Leaving(d)
                       /\ Registered(d)' <=> Registered(d)
  BY <1>2 DEF Pushing, Leaving, Registered
<1>6. /\ server'[c] = s /\ conn'[s] = c /\ state'[s] = "connected"
      /\ \A d \in Conns : d # c => server'[d] = server[d]
      /\ \A t \in Servers : t # s => conn'[t] = conn[t] /\ state'[t] = state[t]
  BY <1>1, <1>2, <1>3 DEF Typed, HubTyped, ServersTyped
<1>7. /\ Len(backlog) \in Nat /\ DOMAIN backlog = 1..Len(backlog)
      /\ DOMAIN backlog' = 1..(Len(backlog) + 1)
      /\ \A i \in 1..Len(backlog) : backlog'[i] = backlog[i]
      /\ backlog'[Len(backlog) + 1] = c
  BY <1>1, <1>3, AppendProperties, LenProperties DEF Typed, HubTyped
<1>8. Range(backlog') = Range(backlog) \cup {c} /\ Range(backlog) \subseteq Conns
  <2>1. Range(backlog) \subseteq Conns
    BY RangeOfSeq DEF Typed, HubTyped
  <2>2. \A d \in Range(backlog) \cup {c} : d \in Range(backlog')
    BY <1>7 DEF Range
  <2>3. \A d \in Range(backlog') : d \in Range(backlog) \cup {c}
    <3> SUFFICES ASSUME NEW i \in DOMAIN backlog' PROVE backlog'[i] \in Range(backlog) \cup {c}
      BY DEF Range
    <3>1. i = Len(backlog) + 1 \/ i \in 1..Len(backlog)
      BY <1>7
    <3> QED BY <3>1, <1>7 DEF Range
  <2> QED BY <2>1, <2>2, <2>3
<1>9. ServersLinked'
  <2>1. ASSUME NEW t \in Servers, t # s, state'[t] # "down"
        PROVE  conn'[t] \in Conns /\ server'[conn'[t]] = t
    <3>1. conn[t] \in Conns /\ server[conn[t]] = t
      BY <2>1, <1>6 DEF LinkInv, ServersLinked
    <3> QED BY <3>1, <2>1, <1>3, <1>6
  <2> QED BY <2>1, <1>3, <1>6 DEF ServersLinked
<1>10. FreshUnused'
  <2>1. Fresh' = Fresh \ {c}
    BY <1>3, <1>6 DEF Fresh
  <2>2. Fresh \subseteq Conns
    BY DEF Fresh
  <2> QED BY <2>1, <2>2, <1>2, <1>5, <1>8 DEF LinkInv, FreshUnused
<1>11. AcceptedOnce'
  <2>1. ASSUME NEW i \in DOMAIN backlog', NEW j \in DOMAIN backlog', backlog'[i] = backlog'[j]
        PROVE  i = j
    <3>1. \A k \in 1..Len(backlog) : backlog[k] # c
      BY <1>4, <1>7 DEF Range
    <3>2. CASE i \in 1..Len(backlog) /\ j \in 1..Len(backlog)
      <4>1. i \in DOMAIN backlog /\ j \in DOMAIN backlog /\ backlog[i] = backlog[j]
        BY <2>1, <3>2, <1>7
      <4> QED BY <4>1 DEF LinkInv, AcceptedOnce
    <3>3. CASE ~(i \in 1..Len(backlog) /\ j \in 1..Len(backlog))
      <4>1. /\ i \in 1..Len(backlog) \/ i = Len(backlog) + 1
            /\ j \in 1..Len(backlog) \/ j = Len(backlog) + 1
        BY <1>7
      <4> QED BY <4>1, <2>1, <3>1, <3>3, <1>7
    <3> QED BY <3>2, <3>3
  <2>2. ASSUME NEW d \in Range(backlog') PROVE d \notin clientList \cup identified /\ ~Leaving(d)
    BY <1>4, <1>8 DEF LinkInv, AcceptedOnce
  <2>3. Range(backlog') \subseteq Conns
    BY <1>3, <1>8
  <2> QED BY <2>1, <2>2, <2>3, <1>2, <1>5 DEF AcceptedOnce
<1>12. ~Pushing(c)
  BY <1>3, <1>4 DEF Pushing, LinkInv, NumberNoted
<1>13. IdentifyOnce'
  <2>1. ASSUME NEW d \in Conns, NEW i \in DOMAIN up[d], up[d][i].cmd = "IDENTIFY"
        PROVE  i = 1 /\ up[d][i].rec.srv = server'[d] /\ d \notin identified /\ ~Pushing(d)
    <3>1. d # c
      BY <2>1, <1>4
    <3> QED BY <2>1, <3>1, <1>6 DEF LinkInv, IdentifyOnce
  <2>2. ASSUME NEW t \in Servers, state'[t] = "connected"
        PROVE  /\ conn'[t] \in Conns
               /\ up[conn'[t]] = <<>> /\ conn'[t] \notin identified /\ ~Pushing(conn'[t])
    <3>1. CASE t = s
      BY <3>1, <1>3, <1>4, <1>6, <1>12
    <3>2. CASE t # s
      <4>1. conn'[t] = conn[t] /\ state[t] = "connected"
        BY <2>2, <3>2, <1>6
      <4> QED BY <4>1 DEF LinkInv, IdentifyOnce, ServersLinked
    <3> QED BY <3>1, <3>2
  <2> QED BY <2>1, <2>2, <1>2, <1>5 DEF IdentifyOnce
<1>14. NumberNoted'
  <2>1. ASSUME NEW w \in Workers, task[w].at = "push"
        PROVE  /\ task[w].conn \in clientList \ identified
               /\ task[w].rec.srv = server'[task[w].conn]
               /\ task[w].rec.iscid = iscid[task[w].conn]
    <3>1. task[w].conn \in clientList /\ clientList \subseteq Conns
      BY <2>1 DEF LinkInv, NumberNoted, Typed, HubTyped
    <3> QED BY <2>1, <3>1, <1>4, <1>6 DEF LinkInv, NumberNoted
  <2> QED BY <2>1, <1>2, <1>5 DEF LinkInv, NumberNoted
<1>15. LeavingLeft'
  BY <1>2, <1>5 DEF LinkInv, LeavingLeft, Typed, HubTyped
<1>16. RecordsMatch'
  <2>1. \A d \in Conns : Registered(d) => d # c
    BY <1>4 DEF Registered
  <2> QED BY <2>1, <1>2, <1>5, <1>6, RecordsKept DEF LinkInv
<1> QED BY <1>9, <1>10, <1>11, <1>13, <1>14, <1>15, <1>16 DEF LinkInv

\* IDENTIFY is sent on a connection that nothing was sent on before.
LEMMA OnServerReadyLinks ==
  ASSUME Typed, LinkInv, NEW s \in Servers, OnServerReady(s)
  PROVE  LinkInv'
<1> DEFINE I == [cmd |-> "IDENTIFY", rec |-> Record(s)]
           L == [cmd |-> "SERVERLIST"]
           more == IF Type[s] = 3 THEN <<>> ELSE <<L>>
<1>1. /\ state[s] = "connected" /\ state' = [state EXCEPT ![s] = "up"]
      /\ up' = [up EXCEPT ![conn[s]] = up[conn[s]] \o <<I>> \o more]
      /\ UNCHANGED <<server, backlog, clientList, serverList, iscid, task, identified, conn>>
  BY DEF OnServerReady, hubVars
<1>2. PICK c \in Conns : c = conn[s]
  BY <1>1 DEF LinkInv, ServersLinked
<1>3. up[c] = <<>> /\ c \notin identified /\ ~Pushing(c) /\ server[c] = s
  BY <1>1, <1>2 DEF LinkInv, IdentifyOnce, ServersLinked
<1>4. /\ up'[c] # <<>> /\ 1 \in DOMAIN up'[c]
      /\ \A i \in DOMAIN up'[c] : up'[c][i].cmd = "IDENTIFY" => i = 1 /\ up'[c][i].rec.srv = s
  <2>1. I.cmd = "IDENTIFY" /\ I.rec.srv = s
    BY DEF Record
  <2>2. up'[c] = <<>> \o <<I>> \o more
    BY <1>1, <1>2, <1>3 DEF Typed, HubTyped
  <2>3. L.cmd = "SERVERLIST"
    OBVIOUS
  <2> HIDE DEF I, L
  <2>4. CASE Type[s] = 3
    <3>1. up'[c] = <<I>>
      BY <2>2, <2>4
    <3> QED BY <3>1, <2>1
  <2>5. CASE Type[s] # 3
    <3>1. up'[c] = <<I>> \o <<L>>
      <4>1. more = <<L>> /\ <<>> \o <<I>> = <<I>>
        BY <2>5
      <4> QED BY <2>2, <4>1
    <3>2. DOMAIN up'[c] = {1, 2} /\ up'[c][1] = I /\ up'[c][2].cmd = "SERVERLIST"
      <4>1. <<I>> \in Seq({I, L}) /\ <<L>> \in Seq({I, L}) /\ Len(<<I>>) = 1 /\ Len(<<L>>) = 1
        OBVIOUS
      <4>2. /\ up'[c] \in Seq({I, L}) /\ Len(up'[c]) = 2
            /\ up'[c][1] = <<I>>[1] /\ up'[c][2] = <<L>>[1]
        BY <3>1, <4>1, ConcatProperties
      <4>3. DOMAIN up'[c] = 1..2
        BY <4>2, LenProperties
      <4> QED BY <4>2, <4>3, <2>3
    <3> QED BY <3>2, <2>1
  <2> QED BY <2>4, <2>5
<1>5. \A d \in Conns : d # c => up'[d] = up[d]
  BY <1>1, <1>2
<1>6. state'[s] = "up" /\ \A t \in Servers : t # s => state'[t] = state[t]
  BY <1>1 DEF Typed, ServersTyped
<1>7. \A d \in Conns : /\ Pushing(d)' <=> Pushing(d)
                       /\ Leaving(d)' <=> Leaving(d)
                       /\ Registered(d)' <=> Registered(d)
  BY <1>1 DEF Pushing, Leaving, Registered
<1>8. ServersLinked'
  BY <1>1, <1>6 DEF LinkInv, ServersLinked
<1>9. FreshUnused'
  <2>1. Fresh' = Fresh /\ Fresh \subseteq Conns
    BY <1>1 DEF Fresh
  <2>2. c \notin Fresh
    BY <1>3, NobodyIsNoServer DEF Fresh
  <2> QED BY <2>1, <2>2, <1>1, <1>5, <1>7 DEF LinkInv, FreshUnused
<1>10. AcceptedOnce'
  <2>1. Range(backlog) \subseteq Conns
    BY RangeOfSeq DEF Typed, HubTyped
  <2> QED BY <2>1, <1>1, <1>7 DEF LinkInv, AcceptedOnce
<1>11. IdentifyOnce'
  <2>1. ASSUME NEW d \in Conns, NEW i \in DOMAIN up'[d], up'[d][i].cmd = "IDENTIFY"
        PROVE  i = 1 /\ up'[d][i].rec.srv = server[d] /\ d \notin identified /\ ~Pushing(d)
    <3>1. CASE d = c
      BY <2>1, <3>1, <1>3, <1>4
    <3>2. CASE d # c
      BY <2>1, <3>2, <1>5 DEF LinkInv, IdentifyOnce
    <3> QED BY <3>1, <3>2
  <2>2. ASSUME NEW t \in Servers, state'[t] = "connected"
        PROVE  /\ conn[t] \in Conns
               /\ up'[conn[t]] = <<>> /\ conn[t] \notin identified /\ ~Pushing(conn[t])
    <3>1. t # s /\ state[t] = "connected"
      BY <2>2, <1>6
    <3>2. conn[t] \in Conns /\ server[conn[t]] = t
      BY <3>1 DEF LinkInv, ServersLinked
    <3>3. conn[t] # c
      BY <3>1, <3>2, <1>3
    <3> QED BY <3>1, <3>2, <3>3, <1>5 DEF LinkInv, IdentifyOnce
  <2> QED BY <2>1, <2>2, <1>1 DEF IdentifyOnce, Pushing
<1>12. NumberNoted'
  BY <1>1, <1>7 DEF LinkInv, NumberNoted
<1>13. LeavingLeft'
  BY <1>1, <1>7 DEF LinkInv, LeavingLeft, Typed, HubTyped
<1>14. RecordsMatch'
  BY <1>1, <1>7, RecordsKept DEF LinkInv
<1> QED BY <1>8, <1>9, <1>10, <1>11, <1>12, <1>13, <1>14 DEF LinkInv

\* A worker that is done, or answers a request, concerns no queue of the hub.
LEMMA WorkerDoneLinks ==
  ASSUME Typed, LinkInv, NEW w \in Workers, Typed', UNCHANGED serverVars,
         NotifyRemaining(w) \/ ForwardPacket(w) \/ SendList(w)
  PROVE  LinkInv'
<1>1. /\ UNCHANGED <<server, up, backlog, clientList, serverList, iscid, identified, state, conn>>
      /\ task[w].at \notin {"push", "erase"}
      /\ task' = [task EXCEPT ![w] = Idle]
  BY DEF NotifyRemaining, ForwardPacket, SendList, serverVars
<1>2. \A u \in Workers : IF u = w THEN task'[u].at \notin {"push", "erase"} ELSE task'[u] = task[u]
  BY <1>1 DEF Idle, Typed, HubTyped
<1> QED BY <1>1, <1>2, LinkKept

\* A packet of another kind leaves the numbers and the servers of the list.
LEMMA ReceivesOtherLinks ==
  ASSUME Typed, LinkInv, NEW w \in Workers, NEW c \in Conns, Typed', UNCHANGED serverVars,
         ReceiveUserCount(w, c) \/ ReceiveListRequest(w, c)
  PROVE  LinkInv'
<1>1. PICK cmd \in {"UPDATEUSERCNT", "SERVERLIST"} : Receives(w, c, cmd)
  BY DEF ReceiveUserCount, ReceiveListRequest
<1>2. /\ \A d \in Conns : \A i \in DOMAIN up'[d] : up'[d][i].cmd = "IDENTIFY" =>
           d # c /\ i \in DOMAIN up[d] /\ up'[d][i] = up[d][i]
      /\ \A d \in Conns : up[d] = <<>> => up'[d] = <<>>
  BY <1>1, ReceivesRest
<1>3. /\ UNCHANGED <<server, backlog, clientList, iscid, identified, state, conn>>
      /\ task[w].at = "idle"
  BY <1>1 DEF ReceiveUserCount, ReceiveListRequest, Receives, Serves, Idle, serverVars
<1>4. \A u \in Workers : IF u = w THEN task'[u].at \notin {"push", "erase"} ELSE task'[u] = task[u]
  BY DEF ReceiveUserCount, ReceiveListRequest, Typed, HubTyped
<1>5. /\ DOMAIN serverList' = DOMAIN serverList
      /\ \A i \in DOMAIN serverList : /\ serverList'[i].srv = serverList[i].srv
                                      /\ serverList'[i].iscid = serverList[i].iscid
  <2>1. CASE ReceiveUserCount(w, c)
    <3>1. Head(up[c]).users \in 0..MaxLogins
      BY <2>1, ReceivesTyped, ToHubCases DEF ReceiveUserCount, UserCount
    <3>2. serverList' = WithUsers(serverList, Head(up[c]).iscid, Head(up[c]).users)
      BY <2>1 DEF ReceiveUserCount
    <3>3. serverList \in Seq(Recs)
      BY DEF Typed, HubTyped
    <3> QED BY <3>1, <3>2, <3>3, WithUsersProperties
  <2>2. CASE ReceiveListRequest(w, c)
    BY <2>2 DEF ReceiveListRequest
  <2> QED BY <2>1, <2>2
<1> QED BY <1>2, <1>3, <1>4, <1>5, LinkKept

\* A server that ends, or counts a login, or reads what the hub sent.
LEMMA ServerLifeLinks ==
  ASSUME Typed, LinkInv, NEW s \in Servers, Typed',
         Die(s) \/ UserLogin(s) \/ ReceivedISCPacket(s)
  PROVE  LinkInv'
<1>1. UNCHANGED <<server, backlog, clientList, serverList, iscid, task, identified>>
  BY DEF Die, UserLogin, ReceivedISCPacket, hubVars
<1>2. CASE Die(s)
  <2>1. \A t \in Servers : state'[t] # "down" => state'[t] = state[t] /\ conn'[t] = conn[t]
    BY <1>2 DEF Die, Typed, ServersTyped
  <2>2. \A c \in Conns : up'[c] = up[c] \/ up'[c] = <<>>
    BY <1>2 DEF Die, Typed, HubTyped
  <2> QED BY <2>1, <2>2, <1>1, LinkKept
<1>3. CASE UserLogin(s)
  <2> DEFINE m == [cmd |-> "UPDATEUSERCNT", iscid |-> myIscid[s], users |-> users[s] + 1]
  <2>1. /\ state[s] = "up" /\ UNCHANGED <<state, conn>>
        /\ up' = [up EXCEPT ![conn[s]] = Append(up[conn[s]], m)]
    BY <1>3 DEF UserLogin
  <2>2. PICK c \in Conns : c = conn[s] /\ server[c] = s
    BY <2>1 DEF LinkInv, ServersLinked
  <2>3. m \in ToHub /\ m.cmd = "UPDATEUSERCNT"
    <3>1. up'[c] \in Seq(ToHub)
      BY DEF Typed, HubTyped
    <3>2. users[s] + 1 \in 0..MaxLogins /\ myIscid[s] \in Iscids
      BY <1>3, UsersNat DEF UserLogin, Typed, ServersTyped
    <3> QED BY <3>2 DEF ToHub, UserCount
  <2> HIDE DEF m
  <2>4. up'[c] = Append(up[c], m) /\ up[c] \in Seq(ToHub)
        /\ \A d \in Conns : d # c => up'[d] = up[d]
    BY <2>1, <2>2 DEF Typed, HubTyped
  <2>5. ASSUME NEW i \in DOMAIN up'[c], up'[c][i].cmd = "IDENTIFY"
        PROVE  i \in DOMAIN up[c] /\ up'[c][i] = up[c][i]
    <3>1. /\ Len(up[c]) \in Nat /\ DOMAIN up[c] = 1..Len(up[c])
          /\ DOMAIN up'[c] = 1..(Len(up[c]) + 1)
          /\ \A j \in 1..Len(up[c]) : up'[c][j] = up[c][j]
          /\ up'[c][Len(up[c]) + 1] = m
      BY <2>3, <2>4, AppendProperties, LenProperties
    <3> QED BY <2>3, <2>5, <3>1
  <2>6. \A t \in Servers : state[t] = "connected" => conn[t] # c
    BY <2>1, <2>2 DEF LinkInv, ServersLinked
  <2>7. server[c] # None
    BY <2>2, NobodyIsNoServer
  <2> QED BY <2>1, <2>4, <2>5, <2>6, <2>7, <1>1, LinkKept
<1>4. CASE ReceivedISCPacket(s)
  <2>1. UNCHANGED <<up, state, conn>>
    BY <1>4 DEF ReceivedISCPacket
  <2> QED BY <2>1, <1>1, LinkKept
<1> QED BY <1>2, <1>3, <1>4

\* With one worker every step keeps the list and the connections together.
LEMMA NextLinks ==
  ASSUME OneWorker
  PROVE  Typed /\ Numbering /\ GarbageUnused /\ LinkInv /\ [Next]_vars => LinkInv'
<1> SUFFICES ASSUME Typed, Numbering, GarbageUnused, LinkInv, [Next]_vars PROVE LinkInv'
  OBVIOUS
<1>1. PICK w : Workers = {w}
  BY DEF OneWorker
<1>2. Typed'
  BY NextTyped
<1>3. CASE HubNext /\ UNCHANGED serverVars
  <2>1. CASE AcceptClient
    BY <2>1, <1>3, AcceptClientLinks
  <2>2. CASE Continues(w)
    <3>1. CASE EraseServer(w)
      BY <3>1, <1>1, <1>3, EraseServerLinks DEF Numbering
    <3>2. CASE PushServer(w)
      BY <3>2, <1>1, <1>3, PushServerLinks
    <3>3. CASE NotifyRemaining(w) \/ ForwardPacket(w) \/ SendList(w)
      BY <3>3, <1>1, <1>2, <1>3, WorkerDoneLinks
    <3> QED BY <2>2, <3>1, <3>2, <3>3 DEF Continues
  <2>3. ASSUME NEW c \in Conns, TurnsTo(w, c) PROVE LinkInv'
    <3>1. CASE DisconnectClient(w, c)
      BY <3>1, <1>1, <1>3, DisconnectClientLinks
    <3>2. CASE ReceiveIdentify(w, c)
      BY <3>2, <1>1, <1>3, ReceiveIdentifyLinks
    <3>3. CASE ReceiveUserCount(w, c) \/ ReceiveListRequest(w, c)
      BY <3>3, <1>1, <1>2, <1>3, ReceivesOtherLinks
    <3> QED BY <2>3, <3>1, <3>2, <3>3 DEF TurnsTo, ReceivesPacket
  <2> QED BY <1>1, <1>3, <2>1, <2>2, <2>3 DEF HubNext, WorkerStep
<1>4. ASSUME NEW s \in Servers, ServerStep(s) PROVE LinkInv'
  BY <1>2, <1>4, ConnectLinks, OnServerReadyLinks, ServerLifeLinks DEF ServerStep
<1>5. CASE UNCHANGED vars
  BY <1>2, <1>5, LinkKept DEF vars, netVars, hubVars, serverVars
<1> QED BY <1>3, <1>4, <1>5 DEF Next

\* Between two handlers nobody is leaving, so that those registered are those there.
LEMMA LinkedIsLive == Typed /\ LinkInv => HubListsLive
<1> SUFFICES ASSUME Typed, LinkInv, HubIdle
             PROVE  {<<r.srv, r.iscid>> : r \in Range(serverList)}
                      = {<<server[c], iscid[c]>> : c \in clientList \cap identified}
  BY DEF HubListsLive
<1>1. \A c : ~Leaving(c)
  BY DEF Leaving, HubIdle, Idle
<1>2. ASSUME NEW r \in Range(serverList)
      PROVE  \E c \in clientList \cap identified : <<r.srv, r.iscid>> = <<server[c], iscid[c]>>
  <2>1. PICK i \in DOMAIN serverList : r = serverList[i]
    BY DEF Range
  <2>2. PICK c \in Conns : Registered(c) /\ HasRecord(c, serverList[i])
    BY DEF LinkInv, RecordsMatch
  <2> QED BY <1>1, <2>1, <2>2 DEF Registered, HasRecord
<1>3. ASSUME NEW c \in clientList \cap identified
      PROVE  \E r \in Range(serverList) : <<r.srv, r.iscid>> = <<server[c], iscid[c]>>
  <2>1. PICK i \in DOMAIN serverList : HasRecord(c, serverList[i])
    BY DEF LinkInv, RecordsMatch, Registered, Typed, HubTyped
  <2>2. serverList[i] \in Range(serverList)
    BY DEF Range
  <2> QED BY <2>1, <2>2 DEF HasRecord
<1> QED BY <1>2, <1>3

\* A hub with one worker keeps in its list, between two handlers, exactly the
\* servers that identified themselves and are still connected, each under the
\* number its connection has: whoever dies takes its own record with it, as
\* long as the numbers fit into a word and none that is given out is the one
\* that a connection which never identified itself has by chance.
THEOREM HubListIsLive ==
  OneWorker => (Spec /\ []NoWrap /\ []GarbageUnused => []HubListsLive)
<1> SUFFICES ASSUME OneWorker PROVE Spec /\ []NoWrap /\ []GarbageUnused => []HubListsLive
  OBVIOUS
<1>1. Typed /\ Numbering /\ NoWrap /\ [Next]_vars => Numbering'
  BY NextNumbers
<1>2. Typed /\ Numbering /\ GarbageUnused /\ LinkInv /\ [Next]_vars => LinkInv'
  BY NextLinks
<1> QED BY <1>1, <1>2, LinkedIsLive, InitNumbers, LinkInit, AlwaysTyped, PTL DEF Spec
-----------------------------------------------------------------------------
(* Copies of the list, as one reads them                                     *)

\* Induction over numbers, for a set of them.
LEMMA NaturalInduction ==
  ASSUME NEW S, 0 \in S, \A n \in Nat : n \in S => n + 1 \in S
  PROVE  \A n \in Nat : n \in S
<1> SUFFICES ASSUME Nat \ S # {} PROVE FALSE
  OBVIOUS
<1>1. PICK m \in Nat \ S : \A n \in Nat \ S : <<n, m>> \notin OpToRel(<, Nat)
  BY NatLessThanWellFounded, WFMin
<1>2. m \in Nat /\ m # 0 /\ \A n \in Nat \ S : ~(n < m)
  BY <1>1 DEF OpToRel
<1>3. m - 1 \in Nat /\ (m - 1) + 1 = m /\ m - 1 < m
  BY <1>2
<1>4. m - 1 \in S
  BY <1>2, <1>3
<1> QED BY <1>1, <1>3, <1>4

\* A list that shows of another what concerns server s: in the order of the numbers, the
\* servers, numbers and user counts of the records that s keeps.
Increasing(lst) == \A i, j \in DOMAIN lst : i < j => lst[i].iscid < lst[j].iscid
Same(r, q) == r.srv = q.srv /\ r.iscid = q.iscid /\ r.users = q.users
Shows(s, lst, all) ==
  /\ lst \in Seq(Recs) /\ Increasing(lst)
  /\ \A i \in DOMAIN lst : \E j \in DOMAIN all : Keeps(s, all[j]) /\ Same(lst[i], all[j])
  /\ \A j \in DOMAIN all : Keeps(s, all[j]) => \E i \in DOMAIN lst : Same(lst[i], all[j])

\* A list of records has records with numbers.
LEMMA RecordsTyped ==
  ASSUME NEW lst \in Seq(Recs)
  PROVE  /\ Len(lst) \in Nat /\ DOMAIN lst = 1..Len(lst)
         /\ \A i \in DOMAIN lst : lst[i] \in Recs /\ lst[i].iscid \in Nat
                                  /\ lst[i].srv \in Servers /\ lst[i].users \in 0..MaxLogins
<1>1. Len(lst) \in Nat /\ DOMAIN lst = 1..Len(lst)
  BY LenProperties
<1>2. \A i \in DOMAIN lst : lst[i] \in Recs
  BY <1>1, ElementOfSeq
<1>3. Iscids \subseteq Nat
  BY DEF Iscids
<1> QED BY <1>1, <1>2, <1>3 DEF Recs

\* In a list in the order of its numbers, each number comes once.
LEMMA NumbersApart ==
  ASSUME NEW lst \in Seq(Recs), Increasing(lst),
         NEW i \in DOMAIN lst, NEW j \in DOMAIN lst
  PROVE  /\ lst[i].iscid = lst[j].iscid => i = j
         /\ lst[i].iscid < lst[j].iscid <=> i < j
<1>1. i \in Nat /\ j \in Nat /\ lst[i].iscid \in Nat /\ lst[j].iscid \in Nat
  BY RecordsTyped
<1>2. i < j => lst[i].iscid < lst[j].iscid
  BY DEF Increasing
<1>3. j < i => lst[j].iscid < lst[i].iscid
  BY DEF Increasing
<1> QED BY <1>1, <1>2, <1>3

\* The record with a number is the one that a search for it finds.
LEMMA AtProperties ==
  ASSUME NEW lst \in Seq(Recs), Increasing(lst), NEW id
  PROVE  At(lst, id) = {i \in DOMAIN lst : lst[i].iscid = id}
<1> SUFFICES ASSUME NEW i \in DOMAIN lst, lst[i].iscid = id, NEW j \in 1..(i - 1)
             PROVE  lst[j].iscid # id
  BY DEF At
<1>1. j \in DOMAIN lst /\ j # i
  BY RecordsTyped
<1> QED BY <1>1, NumbersApart

\* The list new is lst without the record that has number id, in order.
TakesOut(new, lst, id) ==
  /\ new \in Seq(Recs) /\ Increasing(new)
  /\ \A j \in DOMAIN new : \E i \in DOMAIN lst : new[j] = lst[i] /\ lst[i].iscid # id
  /\ \A i \in DOMAIN lst : lst[i].iscid # id => \E j \in DOMAIN new : new[j] = lst[i]

\* Taking the record with a number out leaves the others.
LEMMA WithoutOthers ==
  ASSUME NEW lst \in Seq(Recs), Increasing(lst), NEW id
  PROVE  TakesOut(Without(lst, id), lst, id)
<1> DEFINE new == Without(lst, id)
<1>1. PICK n \in Nat : n = Len(lst) /\ DOMAIN lst = 1..n
  BY RecordsTyped
<1>2. CASE At(lst, id) = {}
  <2>1. new = lst /\ \A i \in DOMAIN lst : lst[i].iscid # id
    BY <1>2, AtProperties DEF Without
  <2> HIDE DEF new
  <2>2. TakesOut(new, lst, id)
    BY <2>1 DEF TakesOut
  <2> QED BY <2>2 DEF new
<1>3. CASE At(lst, id) # {}
  <2>1. PICK k \in 1..Len(lst) : lst[k].iscid = id /\ new = RemoveAt(lst, k)
    <3>1. \E i : i \in At(lst, id)
      BY <1>3
    <3>2. PICK k : k \in At(lst, id) /\ new = RemoveAt(lst, k)
      BY <1>3, <3>1 DEF Without
    <3>3. k \in DOMAIN lst /\ lst[k].iscid = id
      BY <3>2, AtProperties
    <3> QED BY <1>1, <3>2, <3>3
  <2> HIDE DEF new
  <2>2. k \in 1..n /\ k \in Nat
    BY <1>1
  <2>3. /\ new \in Seq(Recs) /\ DOMAIN new = 1..(n - 1)
        /\ \A j \in 1..(n - 1) : new[j] = IF j < k THEN lst[j] ELSE lst[j + 1]
    <3>1. /\ RemoveAt(lst, k) \in Seq(Recs)
          /\ Len(RemoveAt(lst, k)) = Len(lst) - 1
          /\ \A j \in 1..(Len(lst) - 1) :
               RemoveAt(lst, k)[j] = IF j < k THEN lst[j] ELSE lst[j + 1]
      BY RemoveAtProperties
    <3>2. new \in Seq(Recs) /\ Len(new) = n - 1
      BY <1>1, <2>1, <3>1
    <3>3. DOMAIN new = 1..(n - 1)
      BY <3>2, LenProperties
    <3> QED BY <1>1, <2>1, <3>1, <3>2, <3>3
  <2>4. ASSUME NEW j \in 1..(n - 1)
        PROVE  \E i \in 1..n : i = (IF j < k THEN j ELSE j + 1) /\ i # k /\ new[j] = lst[i]
    <3>1. CASE j < k
      <4>1. j \in 1..n /\ j # k
        BY <3>1, <1>1, <2>2
      <4> QED BY <3>1, <4>1, <2>3
    <3>2. CASE ~(j < k)
      <4>1. j + 1 \in 1..n /\ j + 1 # k
        BY <3>2, <1>1, <2>2
      <4> QED BY <3>2, <4>1, <2>3
    <3> QED BY <3>1, <3>2
  <2>5. Increasing(new)
    <3> SUFFICES ASSUME NEW i \in 1..(n - 1), NEW j \in 1..(n - 1), i < j
                 PROVE  new[i].iscid < new[j].iscid
      BY <2>3 DEF Increasing
    <3>1. PICK p \in 1..n : p = (IF i < k THEN i ELSE i + 1) /\ new[i] = lst[p]
      BY <2>4
    <3>2. PICK q \in 1..n : q = (IF j < k THEN j ELSE j + 1) /\ new[j] = lst[q]
      BY <2>4
    <3>3. p < q
      BY <1>1, <2>2, <3>1, <3>2
    <3> QED BY <3>1, <3>2, <3>3, <1>1 DEF Increasing
  <2>6. ASSUME NEW j \in DOMAIN new
        PROVE  \E i \in DOMAIN lst : new[j] = lst[i] /\ lst[i].iscid # id
    <3>1. PICK i \in 1..n : i # k /\ new[j] = lst[i]
      BY <2>3, <2>4
    <3>2. lst[i].iscid # id
      BY <1>1, <2>1, <2>2, <3>1, NumbersApart
    <3> QED BY <1>1, <3>1, <3>2
  <2>7. ASSUME NEW i \in DOMAIN lst, lst[i].iscid # id
        PROVE  \E j \in DOMAIN new : new[j] = lst[i]
    <3>1. i # k
      BY <2>1, <2>7
    <3>2. CASE i < k
      <4>1. i \in 1..(n - 1)
        BY <3>2, <1>1, <2>2
      <4> QED BY <4>1, <3>2, <2>3
    <3>3. CASE ~(i < k)
      <4>1. i - 1 \in 1..(n - 1) /\ ~(i - 1 < k) /\ (i - 1) + 1 = i
        BY <3>1, <3>3, <1>1, <2>2
      <4>2. new[i - 1] = lst[i]
        BY <4>1, <2>3
      <4> QED BY <4>1, <4>2, <2>3
    <3> QED BY <3>2, <3>3
  <2>8. TakesOut(new, lst, id)
    BY <2>3, <2>5, <2>6, <2>7 DEF TakesOut
  <2> QED BY <2>8 DEF new
<1> QED BY <1>2, <1>3

\* The loop over the records of a list, record by record.
LEMMA KeptLoop ==
  ASSUME NEW s \in Servers, NEW all \in Seq(Recs)
  PROVE  \E f : /\ f[0] = <<>> /\ f[Len(all)] = Kept(s, all)
               /\ \A n \in 1..Len(all) :
                    f[n] = IF Keeps(s, all[n]) THEN Append(f[n - 1], all[n]) ELSE f[n - 1]
<1>1. PICK N \in Nat : N = Len(all) /\ DOMAIN all = 1..N /\ \A i \in DOMAIN all : all[i] \in Recs
  BY RecordsTyped
<1> DEFINE body(f, n) == IF n = 0 THEN <<>>
                         ELSE IF Keeps(s, all[n]) THEN Append(f[n - 1], all[n]) ELSE f[n - 1]
           Loop(f, n) == f = [k \in 0..n |-> body(f, k)]
           can == {n \in Nat : \E f : Loop(f, n)}
<1>2. 0 \in can
  <2>1. Loop([k \in 0..0 |-> <<>>], 0)
    OBVIOUS
  <2> QED BY <2>1
<1>3. ASSUME NEW n \in Nat, n \in can PROVE n + 1 \in can
  <2>1. PICK f : Loop(f, n)
    BY <1>3
  <2> DEFINE g == [k \in 0..(n + 1) |-> IF k = n + 1 THEN body(f, n + 1) ELSE f[k]]
  <2>2. ASSUME NEW k \in 0..(n + 1) PROVE g[k] = body(g, k)
    <3>1. CASE k = n + 1
      <4>1. g[n] = f[n] /\ (n + 1) - 1 = n /\ n + 1 # 0
        BY SMT
      <4> QED BY <3>1, <4>1
    <3>2. CASE k \in 0..n
      <4>1. k # n + 1 /\ k \in 0..(n + 1)
        BY <3>2
      <4>2. g[k] = f[k]
        BY <4>1
      <4>3. f[k] = body(f, k)
        <5> HIDE DEF g
        <5> QED BY <3>2, <2>1
      <4>4. CASE k = 0
        <5> HIDE DEF g
        <5> QED BY <4>2, <4>3, <4>4
      <4>5. CASE k # 0
        <5>1. k - 1 \in 0..(n + 1) /\ k - 1 # n + 1
          BY <3>2, <4>5
        <5>2. g[k - 1] = f[k - 1]
          BY <5>1
        <5> HIDE DEF g
        <5> QED BY <4>2, <4>3, <4>5, <5>2
      <4> QED BY <4>4, <4>5
    <3> QED BY <3>1, <3>2
  <2>3. Loop(g, n + 1)
    BY <2>2
  <2>4. \E h : Loop(h, n + 1)
    <3> HIDE DEF g
    <3> QED BY <2>3
  <2>5. n + 1 \in Nat
    OBVIOUS
  <2> HIDE DEF Loop, g
  <2> QED BY <2>4, <2>5
<1>4. N \in can
  <2> HIDE DEF can
  <2> QED BY <1>1, <1>2, <1>3, NaturalInduction
<1> DEFINE f == CHOOSE f : Loop(f, Len(all))
<1>5. Loop(f, N)
  <2>1. Loop(f, Len(all))
    BY <1>1, <1>4
  <2> HIDE DEF f
  <2> QED BY <1>1, <2>1
<1>6. Kept(s, all) = f[N]
  <2>1. Kept(s, all) = f[Len(all)]
    BY DEF Kept
  <2> HIDE DEF f
  <2> QED BY <1>1, <2>1
<1> HIDE DEF f
<1>7. \A k \in 0..N : f[k] = body(f, k)
  BY <1>5
<1>8. f[0] = <<>>
  BY <1>7
<1>9. \A n \in 1..N : f[n] = IF Keeps(s, all[n]) THEN Append(f[n - 1], all[n]) ELSE f[n - 1]
  <2>1. \A n \in 1..N : n \in 0..N /\ n # 0
    OBVIOUS
  <2> QED BY <1>7, <2>1
<1> QED BY <1>1, <1>6, <1>8, <1>9

\* What is kept of a list is a list.
LEMMA KeptTyped ==
  ASSUME NEW s \in Servers, NEW all \in Seq(Recs)
  PROVE  Kept(s, all) \in Seq(Recs)
<1>1. PICK N \in Nat : N = Len(all) /\ DOMAIN all = 1..N /\ \A i \in DOMAIN all : all[i] \in Recs
  BY RecordsTyped
<1>2. PICK f : /\ f[0] = <<>> /\ f[N] = Kept(s, all)
               /\ \A n \in 1..N :
                    f[n] = IF Keeps(s, all[n]) THEN Append(f[n - 1], all[n]) ELSE f[n - 1]
  BY <1>1, KeptLoop
<1> DEFINE good == {n \in Nat : n <= N => f[n] \in Seq(Recs)}
<1>3. 0 \in good
  BY <1>2, EmptySeq
<1>4. ASSUME NEW n \in Nat, n \in good PROVE n + 1 \in good
  <2> SUFFICES ASSUME n + 1 <= N PROVE f[n + 1] \in Seq(Recs)
    OBVIOUS
  <2>1. n <= N /\ n + 1 \in 1..N /\ (n + 1) - 1 = n
    OBVIOUS
  <2>2. f[n] \in Seq(Recs) /\ all[n + 1] \in Recs
    BY <1>1, <1>4, <2>1
  <2>3. f[n + 1] = IF Keeps(s, all[n + 1]) THEN Append(f[n], all[n + 1]) ELSE f[n]
    BY <1>2, <2>1
  <2> QED BY <2>2, <2>3, AppendProperties
<1>5. N \in good
  <2> HIDE DEF good
  <2> QED BY <1>3, <1>4, NaturalInduction
<1> QED BY <1>2, <1>5

\* The loop keeps what concerns the server, in order.
LEMMA KeptShows ==
  ASSUME NEW s \in Servers, NEW all \in Seq(Recs), Increasing(all)
  PROVE  Shows(s, Kept(s, all), all)
<1>1. PICK N \in Nat : N = Len(all) /\ DOMAIN all = 1..N /\ \A i \in DOMAIN all : all[i] \in Recs
  BY RecordsTyped
<1>2. PICK f : /\ f[0] = <<>> /\ f[N] = Kept(s, all)
               /\ \A n \in 1..N :
                    f[n] = IF Keeps(s, all[n]) THEN Append(f[n - 1], all[n]) ELSE f[n - 1]
  BY <1>1, KeptLoop
<1> DEFINE Part(n) == /\ f[n] \in Seq(Recs) /\ Increasing(f[n])
                      /\ \A i \in DOMAIN f[n] : \E j \in 1..n : Keeps(s, all[j]) /\ f[n][i] = all[j]
                      /\ \A j \in 1..n : Keeps(s, all[j]) => \E i \in DOMAIN f[n] : f[n][i] = all[j]
           good == {n \in Nat : n <= N => Part(n)}
<1>3. 0 \in good
  <2>1. f[0] = <<>>
    BY <1>2
  <2>2. <<>> \in Seq(Recs) /\ DOMAIN <<>> = {}
    BY EmptySeq
  <2>3. 1..0 = {}
    OBVIOUS
  <2> QED BY <2>1, <2>2, <2>3 DEF Increasing
<1>4. ASSUME NEW n \in Nat, n \in good PROVE n + 1 \in good
  <2> SUFFICES ASSUME n + 1 <= N PROVE Part(n + 1)
    OBVIOUS
  <2>1. n <= N /\ n + 1 \in 0..N /\ (n + 1) - 1 = n /\ n + 1 # 0 /\ n + 1 \in 1..N /\ 1..n \subseteq 1..N
    BY <1>1
  <2>2. Part(n)
    BY <1>4, <2>1
  <2>3. f[n + 1] = IF Keeps(s, all[n + 1]) THEN Append(f[n], all[n + 1]) ELSE f[n]
    BY <1>2, <2>1
  <2>4. \A j \in 1..(n + 1) : j \in 1..n \/ j = n + 1
    OBVIOUS
  <2>5. 1..n \subseteq 1..(n + 1) /\ n + 1 \in 1..(n + 1)
    OBVIOUS
  <2>6. CASE ~Keeps(s, all[n + 1])
    <3>1. f[n + 1] = f[n]
      BY <2>3, <2>6
    <3> QED BY <3>1, <2>2, <2>4, <2>5, <2>6
  <2>7. CASE Keeps(s, all[n + 1])
    <3>1. PICK l \in Seq(Recs), r \in Recs : l = f[n] /\ r = all[n + 1]
      BY <2>1, <2>2, <1>1
    <3>2. f[n + 1] = Append(l, r)
      BY <2>3, <2>7, <3>1
    <3>3. /\ Append(l, r) \in Seq(Recs) /\ Len(l) \in Nat /\ DOMAIN l = 1..Len(l)
          /\ DOMAIN Append(l, r) = 1..(Len(l) + 1)
          /\ \A i \in 1..Len(l) : Append(l, r)[i] = l[i]
          /\ Append(l, r)[Len(l) + 1] = r
      BY AppendProperties, LenProperties
    <3>4. \A i \in DOMAIN Append(l, r) : i \in DOMAIN l \/ i = Len(l) + 1
      BY <3>3
    <3>5. ASSUME NEW i \in DOMAIN l PROVE l[i].iscid < r.iscid
      <4>1. PICK j \in 1..n : l[i] = all[j]
        BY <3>1, <2>2
      <4>2. j \in DOMAIN all /\ n + 1 \in DOMAIN all /\ j < n + 1
        BY <1>1, <2>1
      <4> QED BY <4>1, <4>2, <3>1 DEF Increasing
    <3>6. Increasing(Append(l, r))
      <4> SUFFICES ASSUME NEW i \in DOMAIN Append(l, r), NEW j \in DOMAIN Append(l, r), i < j
                   PROVE  Append(l, r)[i].iscid < Append(l, r)[j].iscid
        BY DEF Increasing
      <4>1. i \in DOMAIN l /\ i # Len(l) + 1
        BY <3>3
      <4>2. CASE j \in DOMAIN l
        <5>1. l[i].iscid < l[j].iscid
          BY <4>1, <4>2, <3>1, <2>2 DEF Increasing
        <5> QED BY <4>1, <4>2, <5>1, <3>3
      <4>3. CASE j = Len(l) + 1
        BY <4>1, <4>3, <3>3, <3>5
      <4> QED BY <4>2, <4>3, <3>4
    <3>7. \A i \in DOMAIN Append(l, r) : \E j \in 1..(n + 1) : Keeps(s, all[j]) /\ Append(l, r)[i] = all[j]
      BY <3>1, <3>3, <3>4, <2>2, <2>5, <2>7
    <3>8. ASSUME NEW j \in 1..(n + 1), Keeps(s, all[j])
          PROVE  \E i \in DOMAIN Append(l, r) : Append(l, r)[i] = all[j]
      <4>1. CASE j \in 1..n
        <5>1. PICK i \in DOMAIN l : l[i] = all[j]
          BY <4>1, <3>1, <3>8, <2>2
        <5>2. i \in DOMAIN Append(l, r) /\ Append(l, r)[i] = l[i]
          BY <3>3
        <5> QED BY <5>1, <5>2
      <4>2. CASE j = n + 1
        <5>1. Len(l) + 1 \in DOMAIN Append(l, r)
          BY <3>3
        <5> QED BY <4>2, <5>1, <3>1, <3>3
      <4> QED BY <4>1, <4>2, <2>4
    <3>9. PICK h : h = f[n + 1] /\ h = Append(l, r)
      BY <3>2
    <3>10. h \in Seq(Recs) /\ Increasing(h)
      BY <3>3, <3>6, <3>9
    <3>11. \A i \in DOMAIN h : \E j \in 1..(n + 1) : Keeps(s, all[j]) /\ h[i] = all[j]
      BY <3>7, <3>9
    <3>12. \A j \in 1..(n + 1) : Keeps(s, all[j]) => \E i \in DOMAIN h : h[i] = all[j]
      BY <3>8, <3>9
    <3> QED BY <3>9, <3>10, <3>11, <3>12
  <2> QED BY <2>6, <2>7
<1>5. Part(N)
  <2>1. N \in good
    <3> HIDE DEF good
    <3> QED BY <1>1, <1>3, <1>4, NaturalInduction
  <2> QED BY <2>1, <1>1
<1>6. PICK h : h = f[N]
  OBVIOUS
<1>7. /\ h \in Seq(Recs) /\ Increasing(h)
      /\ \A i \in DOMAIN h : \E j \in DOMAIN all : Keeps(s, all[j]) /\ h[i] = all[j]
      /\ \A j \in DOMAIN all : Keeps(s, all[j]) => \E i \in DOMAIN h : h[i] = all[j]
  <2>1. h \in Seq(Recs) /\ Increasing(h)
    BY <1>5, <1>6
  <2>2. \A i \in DOMAIN h : \E j \in 1..N : Keeps(s, all[j]) /\ h[i] = all[j]
    BY <1>5, <1>6
  <2>3. \A j \in 1..N : Keeps(s, all[j]) => \E i \in DOMAIN h : h[i] = all[j]
    BY <1>5, <1>6
  <2> HIDE DEF Part
  <2> QED BY <1>1, <2>1, <2>2, <2>3
<1>8. Shows(s, h, all)
  BY <1>7 DEF Shows, Same
<1> QED BY <1>2, <1>6, <1>8

\* A record more at the end of a list.
LEMMA AppendedAt ==
  ASSUME NEW lst \in Seq(Recs), NEW r \in Recs
  PROVE  /\ Append(lst, r) \in Seq(Recs)
         /\ \A i \in DOMAIN lst : /\ i \in DOMAIN Append(lst, r) /\ Append(lst, r)[i] = lst[i]
                                  /\ i < Len(lst) + 1
         /\ Len(lst) + 1 \in DOMAIN Append(lst, r) /\ Append(lst, r)[Len(lst) + 1] = r
         /\ \A i \in DOMAIN Append(lst, r) : i \in DOMAIN lst \/ i = Len(lst) + 1
<1>1. /\ Append(lst, r) \in Seq(Recs) /\ Len(lst) \in Nat /\ DOMAIN lst = 1..Len(lst)
      /\ DOMAIN Append(lst, r) = 1..(Len(lst) + 1)
      /\ \A i \in 1..Len(lst) : Append(lst, r)[i] = lst[i]
      /\ Append(lst, r)[Len(lst) + 1] = r
  BY AppendProperties, LenProperties
<1> QED BY <1>1

\* A record with a larger number at the end keeps the order.
LEMMA AppendIncreasing ==
  ASSUME NEW lst \in Seq(Recs), Increasing(lst), NEW r \in Recs,
         \A i \in DOMAIN lst : lst[i].iscid < r.iscid
  PROVE  Increasing(Append(lst, r))
<1> SUFFICES ASSUME NEW i \in DOMAIN Append(lst, r), NEW j \in DOMAIN Append(lst, r), i < j
             PROVE  Append(lst, r)[i].iscid < Append(lst, r)[j].iscid
  BY DEF Increasing
<1>1. i \in DOMAIN lst
  <2>1. CASE i = Len(lst) + 1
    <3>1. j \in DOMAIN lst \/ j = Len(lst) + 1
      BY AppendedAt
    <3>2. Len(lst) \in Nat /\ (j \in DOMAIN lst => j \in 1..Len(lst))
      BY RecordsTyped
    <3> QED BY <2>1, <3>1, <3>2
  <2> QED BY <2>1, AppendedAt
<1>2. CASE j \in DOMAIN lst
  <2>1. lst[i].iscid < lst[j].iscid
    BY <1>1, <1>2 DEF Increasing
  <2> QED BY <1>1, <1>2, <2>1, AppendedAt
<1>3. CASE j = Len(lst) + 1
  BY <1>1, <1>3, AppendedAt
<1> QED BY <1>2, <1>3, AppendedAt

\* A server that enters the list enters the copies of those that keep it, and only theirs.
LEMMA AppendShows ==
  ASSUME NEW s \in Servers, NEW all \in Seq(Recs), NEW lst, Shows(s, lst, all),
         NEW rec \in Recs, \A j \in DOMAIN all : all[j].iscid < rec.iscid,
         NEW r \in Recs, Same(r, rec)
  PROVE  /\ Keeps(s, rec) => Shows(s, Append(lst, r), Append(all, rec))
         /\ ~Keeps(s, rec) => Shows(s, lst, Append(all, rec))
<1>1. PICK a2 : a2 = Append(all, rec) /\ a2 \in Seq(Recs)
  BY AppendedAt
<1>2. PICK n : /\ n \in DOMAIN a2 /\ a2[n] = rec
               /\ \A j \in DOMAIN all : j \in DOMAIN a2 /\ a2[j] = all[j]
               /\ \A j \in DOMAIN a2 : j \in DOMAIN all \/ j = n
  BY <1>1, AppendedAt
<1>3. /\ lst \in Seq(Recs) /\ Increasing(lst)
      /\ \A i \in DOMAIN lst : \E j \in DOMAIN all : Keeps(s, all[j]) /\ Same(lst[i], all[j])
      /\ \A j \in DOMAIN all : Keeps(s, all[j]) => \E i \in DOMAIN lst : Same(lst[i], all[j])
  BY DEF Shows
<1>4. \A i \in DOMAIN lst : \E j \in DOMAIN a2 : Keeps(s, a2[j]) /\ Same(lst[i], a2[j])
  BY <1>2, <1>3
<1>5. ASSUME ~Keeps(s, rec) PROVE Shows(s, lst, a2)
  <2>1. \A j \in DOMAIN a2 : Keeps(s, a2[j]) => \E i \in DOMAIN lst : Same(lst[i], a2[j])
    BY <1>2, <1>3, <1>5
  <2> QED BY <1>3, <1>4, <2>1 DEF Shows
<1>6. ASSUME Keeps(s, rec) PROVE Shows(s, Append(lst, r), a2)
  <2>1. PICK b : b = Append(lst, r) /\ b \in Seq(Recs)
    BY <1>3, AppendedAt
  <2>2. PICK m : /\ m \in DOMAIN b /\ b[m] = r
                 /\ \A i \in DOMAIN lst : i \in DOMAIN b /\ b[i] = lst[i]
                 /\ \A i \in DOMAIN b : i \in DOMAIN lst \/ i = m
    BY <1>3, <2>1, AppendedAt
  <2>3. \A i \in DOMAIN lst : lst[i].iscid < r.iscid
    BY <1>3 DEF Same
  <2>4. Increasing(b)
    BY <1>3, <2>1, <2>3, AppendIncreasing
  <2>5. \A i \in DOMAIN b : \E j \in DOMAIN a2 : Keeps(s, a2[j]) /\ Same(b[i], a2[j])
    BY <1>2, <1>4, <1>6, <2>2
  <2>6. \A j \in DOMAIN a2 : Keeps(s, a2[j]) => \E i \in DOMAIN b : Same(b[i], a2[j])
    BY <1>2, <1>3, <2>2
  <2> QED BY <2>1, <2>4, <2>5, <2>6 DEF Shows
<1> QED BY <1>1, <1>5, <1>6

\* A server that leaves the list leaves the copies.
LEMMA RemoveShows ==
  ASSUME NEW s \in Servers, NEW all \in Seq(Recs), Increasing(all),
         NEW lst \in Seq(Recs), Shows(s, lst, all), NEW id
  PROVE  Shows(s, Without(lst, id), Without(all, id))
<1>1. /\ lst \in Seq(Recs) /\ Increasing(lst)
      /\ \A i \in DOMAIN lst : \E j \in DOMAIN all : Keeps(s, all[j]) /\ Same(lst[i], all[j])
      /\ \A j \in DOMAIN all : Keeps(s, all[j]) => \E i \in DOMAIN lst : Same(lst[i], all[j])
  BY DEF Shows
<1> DEFINE a2 == Without(all, id)
           b == Without(lst, id)
<1>2. TakesOut(a2, all, id)
  BY WithoutOthers
<1>3. TakesOut(b, lst, id)
  BY <1>1, WithoutOthers
<1> HIDE DEF a2, b
<1>4. ASSUME NEW i \in DOMAIN b
      PROVE  \E j \in DOMAIN a2 : Keeps(s, a2[j]) /\ Same(b[i], a2[j])
  <2>1. PICK p \in DOMAIN lst : b[i] = lst[p] /\ lst[p].iscid # id
    BY <1>3 DEF TakesOut
  <2>2. PICK q \in DOMAIN all : Keeps(s, all[q]) /\ Same(lst[p], all[q])
    BY <1>1
  <2>3. all[q].iscid # id
    BY <2>1, <2>2 DEF Same
  <2>4. PICK j \in DOMAIN a2 : a2[j] = all[q]
    BY <1>2, <2>3 DEF TakesOut
  <2> QED BY <2>1, <2>2, <2>4
<1>5. ASSUME NEW j \in DOMAIN a2, Keeps(s, a2[j])
      PROVE  \E i \in DOMAIN b : Same(b[i], a2[j])
  <2>1. PICK q \in DOMAIN all : a2[j] = all[q] /\ all[q].iscid # id
    BY <1>2 DEF TakesOut
  <2>2. PICK p \in DOMAIN lst : Same(lst[p], all[q])
    BY <1>1, <1>5, <2>1
  <2>3. lst[p].iscid # id
    BY <2>1, <2>2 DEF Same
  <2>4. PICK i \in DOMAIN b : b[i] = lst[p]
    BY <1>3, <2>3 DEF TakesOut
  <2> QED BY <2>1, <2>2, <2>4
<1>6. Shows(s, b, a2)
  BY <1>3, <1>4, <1>5 DEF Shows, TakesOut
<1> QED BY <1>6 DEF a2, b

\* Records that change their user counts alike still show each other.
LEMMA ChangedShows ==
  ASSUME NEW s \in Servers, NEW all, NEW lst, Shows(s, lst, all),
         NEW a2, DOMAIN a2 = DOMAIN all, \A j \in DOMAIN all : a2[j].srv = all[j].srv,
         NEW b \in Seq(Recs), DOMAIN b = DOMAIN lst,
         \A i \in DOMAIN lst : b[i].iscid = lst[i].iscid,
         \A i \in DOMAIN lst, j \in DOMAIN all :
           Keeps(s, all[j]) /\ Same(lst[i], all[j]) => Same(b[i], a2[j])
  PROVE  Shows(s, b, a2)
<1>1. /\ Increasing(lst)
      /\ \A i \in DOMAIN lst : \E j \in DOMAIN all : Keeps(s, all[j]) /\ Same(lst[i], all[j])
      /\ \A j \in DOMAIN all : Keeps(s, all[j]) => \E i \in DOMAIN lst : Same(lst[i], all[j])
  BY DEF Shows
<1>2. Increasing(b)
  BY <1>1 DEF Increasing
<1>3. \A j \in DOMAIN all : Keeps(s, a2[j]) <=> Keeps(s, all[j])
  BY DEF Keeps
<1>4. \A i \in DOMAIN b : \E j \in DOMAIN a2 : Keeps(s, a2[j]) /\ Same(b[i], a2[j])
  BY <1>1, <1>3
<1>5. \A j \in DOMAIN a2 : Keeps(s, a2[j]) => \E i \in DOMAIN b : Same(b[i], a2[j])
  BY <1>1, <1>3
<1> QED BY <1>2, <1>4, <1>5 DEF Shows

\* Two lists that show the same of a third look the same: record for record, the server,
\* its number and its user count.
LEMMA SameOrder ==
  ASSUME NEW a \in Seq(Recs), NEW b \in Seq(Recs), Increasing(a), Increasing(b),
         \A i \in DOMAIN a : \E j \in DOMAIN b : Same(a[i], b[j]),
         \A j \in DOMAIN b : \E i \in DOMAIN a : Same(a[i], b[j])
  PROVE  \A n \in DOMAIN a : n \in DOMAIN b /\ Same(a[n], b[n])
<1> DEFINE P(n) == n \in DOMAIN a => n \in DOMAIN b /\ Same(a[n], b[n])
           good == {n \in Nat : \A m \in 0..n : P(m)}
<1>1. PICK la \in Nat, lb \in Nat : DOMAIN a = 1..la /\ DOMAIN b = 1..lb
  BY RecordsTyped
<1>2. 0 \in good
  <2>1. \A m \in 0..0 : m \notin 1..la
    OBVIOUS
  <2> QED BY <1>1, <2>1
<1>3. ASSUME NEW k \in Nat, k \in good PROVE k + 1 \in good
  <2>1. \A m \in 0..k : P(m)
    BY <1>3
  <2> HIDE DEF good
  <2>2. ASSUME k + 1 \in DOMAIN a PROVE k + 1 \in DOMAIN b /\ Same(a[k + 1], b[k + 1])
    <3>1. PICK j \in DOMAIN b : Same(a[k + 1], b[j])
      BY <2>2
    <3>2. j \in Nat /\ j # 0
      BY <1>1
    <3>3. ~(j < k + 1)
      <4> SUFFICES ASSUME j < k + 1 PROVE FALSE
        OBVIOUS
      <4>1. j \in 0..k /\ j \in DOMAIN a /\ j # k + 1
        BY <1>1, <2>2, <3>2
      <4>2. Same(a[j], b[j])
        BY <2>1, <4>1
      <4>3. a[j].iscid = a[k + 1].iscid
        BY <3>1, <4>2 DEF Same
      <4> QED BY <2>2, <4>1, <4>3, NumbersApart
    <3>4. ~(k + 1 < j)
      <4> SUFFICES ASSUME k + 1 < j PROVE FALSE
        OBVIOUS
      <4>1. k + 1 \in DOMAIN b
        BY <1>1
      <4>2. PICK i \in DOMAIN a : Same(a[i], b[k + 1])
        BY <4>1
      <4>3. b[k + 1].iscid < b[j].iscid
        BY <4>1 DEF Increasing
      <4>4. a[i].iscid < a[k + 1].iscid
        BY <4>2, <4>3, <3>1 DEF Same
      <4>5. i < k + 1
        BY <4>4, <2>2, NumbersApart
      <4>6. i \in 0..k
        BY <4>5, <1>1
      <4>7. i \in DOMAIN b /\ Same(a[i], b[i])
        BY <2>1, <4>6
      <4>8. b[i].iscid = b[k + 1].iscid
        BY <4>2, <4>7 DEF Same
      <4>9. i = k + 1
        BY <4>1, <4>7, <4>8, NumbersApart
      <4> QED BY <4>5, <4>9, <1>1
    <3>5. j = k + 1
      BY <3>2, <3>3, <3>4
    <3> QED BY <3>1, <3>5
  <2>3. \A m \in 0..(k + 1) : m \in 0..k \/ m = k + 1
    OBVIOUS
  <2>4. \A m \in 0..(k + 1) : P(m)
    BY <2>1, <2>2, <2>3
  <2> QED BY <2>4 DEF good
<1>4. \A n \in Nat : n \in good
  <2> HIDE DEF good
  <2> QED BY <1>2, <1>3, NaturalInduction
<1>5. ASSUME NEW n \in DOMAIN a PROVE n \in DOMAIN b /\ Same(a[n], b[n])
  <2>1. n \in Nat /\ n \in 0..n
    BY <1>1
  <2>2. n \in good
    BY <1>4, <2>1
  <2> QED BY <2>1, <2>2
<1> QED BY <1>5

\* Two lists that show the same list are seen as the same.
LEMMA SameSeen ==
  ASSUME NEW s \in Servers, NEW all, NEW a, NEW b, Shows(s, a, all), Shows(s, b, all)
  PROVE  Seen(a) = Seen(b)
<1>1. /\ a \in Seq(Recs) /\ b \in Seq(Recs) /\ Increasing(a) /\ Increasing(b)
      /\ \A i \in DOMAIN a : \E j \in DOMAIN b : Same(a[i], b[j])
      /\ \A j \in DOMAIN b : \E i \in DOMAIN a : Same(a[i], b[j])
      /\ \A i \in DOMAIN b : \E j \in DOMAIN a : Same(b[i], a[j])
      /\ \A j \in DOMAIN a : \E i \in DOMAIN b : Same(b[i], a[j])
  BY DEF Shows, Same
<1>2. \A n \in DOMAIN a : n \in DOMAIN b /\ Same(a[n], b[n])
  BY <1>1, SameOrder
<1>3. \A n \in DOMAIN b : n \in DOMAIN a
  BY <1>1, SameOrder
<1>4. DOMAIN a = DOMAIN b
  BY <1>2, <1>3
<1> QED BY <1>2, <1>4 DEF Seen, Same
-----------------------------------------------------------------------------
(* What a packet does to a copy                                              *)

\* The packets that say each command.
LEMMA ToServerCases ==
  ASSUME NEW m \in ToServer
  PROVE  /\ m.cmd \in {"IDENTIFY", "UPDATEUSERCNT", "SETISCID", "REMOVE", "SERVERLIST"}
         /\ m.cmd = "IDENTIFY" => m \in Identify
         /\ m.cmd = "UPDATEUSERCNT" => m \in UserCount
         /\ m.cmd \in {"SETISCID", "REMOVE"} => m \in Numbered
         /\ m.cmd = "SERVERLIST" => m \in Listing
BY DEF ToServer, Identify, UserCount, Numbered, Listing

\* The status of a char server is a number.
LEMMA StatusTyped ==
  ASSUME NEW t \in Servers, NEW n \in Nat
  PROVE  Status(t, n) \in Nat
<1>1. CASE MaxUsers[t] = 0
  BY <1>1 DEF Status
<1>2. CASE MaxUsers[t] # 0
  <2>1. PICK k \in Nat : k = MaxUsers[t] /\ k # 0
    BY <1>2, UsersNat
  <2>2. n \div k \in Nat
    BY <2>1, SMT
  <2> QED BY <1>2, <2>1, <2>2 DEF Status
<1> QED BY <1>1, <1>2

\* A copy after a user count: the same servers and numbers, and the count at its number.
LEMMA UserCountOnCopy ==
  ASSUME NEW s \in Servers, NEW lst \in Seq(Recs), Increasing(lst),
         NEW m \in UserCount, Type[s] = 1
  PROVE  /\ AfterPacket(s, lst, m) \in Seq(Recs)
         /\ DOMAIN AfterPacket(s, lst, m) = DOMAIN lst
         /\ \A i \in DOMAIN lst :
              /\ AfterPacket(s, lst, m)[i].srv = lst[i].srv
              /\ AfterPacket(s, lst, m)[i].iscid = lst[i].iscid
              /\ AfterPacket(s, lst, m)[i].users
                   = IF lst[i].iscid = m.iscid THEN m.users ELSE lst[i].users
<1>1. m.cmd = "UPDATEUSERCNT" /\ m.users \in 0..MaxLogins
  BY DEF UserCount
<1> DEFINE chg(i) == [lst[i] EXCEPT !.users = m.users, !.status = Status(lst[i].srv, m.users)]
           b == AfterPacket(s, lst, m)
<1>2. b = [i \in DOMAIN lst |-> IF i \in At(lst, m.iscid) THEN chg(i) ELSE lst[i]]
  BY <1>1 DEF AfterPacket
<1>3. At(lst, m.iscid) = {i \in DOMAIN lst : lst[i].iscid = m.iscid}
  BY AtProperties
<1>4. PICK n \in Nat : n = Len(lst) /\ DOMAIN lst = 1..n /\ \A i \in DOMAIN lst : lst[i] \in Recs
  BY RecordsTyped
<1>5. ASSUME NEW i \in DOMAIN lst
      PROVE  chg(i) \in Recs /\ chg(i).srv = lst[i].srv /\ chg(i).iscid = lst[i].iscid
             /\ chg(i).users = m.users
  <2>1. PICK k \in Nat : k = Status(lst[i].srv, m.users)
    <3>1. m.users \in Nat /\ lst[i].srv \in Servers
      BY <1>1, <1>4, UsersNat DEF Recs
    <3> QED BY <3>1, StatusTyped
  <2>2. lst[i] \in Recs
    BY <1>4
  <2> QED BY <1>1, <2>1, <2>2 DEF Recs
<1> HIDE DEF b, chg
<1>6. DOMAIN b = 1..n /\ \A i \in 1..n : b[i] = IF lst[i].iscid = m.iscid THEN chg(i) ELSE lst[i]
  BY <1>2, <1>3, <1>4
<1>7. b \in [1..n -> Recs]
  BY <1>2, <1>4, <1>5, <1>6
<1>8. b \in Seq(Recs)
  BY <1>7, SeqDef
<1>9. \A i \in DOMAIN lst : /\ b[i].srv = lst[i].srv /\ b[i].iscid = lst[i].iscid
                            /\ b[i].users = IF lst[i].iscid = m.iscid THEN m.users ELSE lst[i].users
  BY <1>4, <1>5, <1>6
<1> QED BY <1>4, <1>6, <1>8, <1>9 DEF b

\* The same of the hub's list.
LEMMA UserCountOnList ==
  ASSUME NEW lst \in Seq(Recs), Increasing(lst), NEW id, NEW n \in 0..MaxLogins
  PROVE  \A i \in DOMAIN lst :
           /\ WithUsers(lst, id, n)[i].srv = lst[i].srv
           /\ WithUsers(lst, id, n)[i].iscid = lst[i].iscid
           /\ WithUsers(lst, id, n)[i].users = IF lst[i].iscid = id THEN n ELSE lst[i].users
<1>1. At(lst, id) = {i \in DOMAIN lst : lst[i].iscid = id}
  BY AtProperties
<1>2. \A i \in DOMAIN lst : lst[i] \in Recs
  BY RecordsTyped
<1> QED BY <1>1, <1>2 DEF WithUsers, Recs

\* A server that registers: the copy that gets the packet shows the longer list.
LEMMA IdentifyShows ==
  ASSUME NEW s \in Servers, NEW all \in Seq(Recs), NEW lst, Shows(s, lst, all),
         NEW m \in Identify, \A j \in DOMAIN all : all[j].iscid < m.rec.iscid
  PROVE  Shows(s, AfterPacket(s, lst, m), Append(all, m.rec))
<1>1. m.cmd = "IDENTIFY" /\ m.rec \in Recs
  BY DEF Identify
<1> DEFINE r == IF Type[s] = 1 THEN [m.rec EXCEPT !.status = 6] ELSE m.rec
<1>2. r \in Recs /\ Same(r, m.rec)
  BY <1>1 DEF Recs, Same
<1>3. AfterPacket(s, lst, m) = IF Keeps(s, m.rec) THEN Append(lst, r) ELSE lst
  BY <1>1 DEF AfterPacket
<1> HIDE DEF r
<1> QED BY <1>1, <1>2, <1>3, AppendShows

\* The same copy shows it without the packet when the server that registers is its own.
LEMMA OwnIdentifyShows ==
  ASSUME NEW s \in Servers, NEW lst, NEW m \in Identify, m.rec.srv = s
  PROVE  AfterPacket(s, lst, m) = lst
<1>1. m.cmd = "IDENTIFY"
  BY DEF Identify
<1>2. ~Keeps(s, m.rec)
  BY TypesKnown DEF Keeps
<1> QED BY <1>1, <1>2 DEF AfterPacket

\* A server that is gone.
LEMMA GoneShows ==
  ASSUME NEW s \in Servers, Type[s] # 3, NEW all \in Seq(Recs), Increasing(all),
         NEW lst, Shows(s, lst, all), NEW m \in Numbered, m.cmd = "REMOVE"
  PROVE  Shows(s, AfterPacket(s, lst, m), Without(all, m.iscid))
<1>1. AfterPacket(s, lst, m) = Without(lst, m.iscid)
  BY TypesKnown DEF AfterPacket
<1>2. lst \in Seq(Recs)
  BY DEF Shows
<1> QED BY <1>1, <1>2, RemoveShows

\* A user count that is not of a game server.
LEMMA UserCountShows ==
  ASSUME NEW s \in Servers, Type[s] # 3, NEW all \in Seq(Recs), Increasing(all),
         NEW lst, Shows(s, lst, all), NEW m \in UserCount,
         \A j \in DOMAIN all : all[j].iscid = m.iscid => Type[all[j].srv] = 2
  PROVE  Shows(s, AfterPacket(s, lst, m), WithUsers(all, m.iscid, m.users))
<1>1. m.cmd = "UPDATEUSERCNT" /\ m.users \in 0..MaxLogins
  BY DEF UserCount
<1> DEFINE a2 == WithUsers(all, m.iscid, m.users)
           b == AfterPacket(s, lst, m)
<1>2. /\ DOMAIN a2 = DOMAIN all
      /\ \A j \in DOMAIN all :
           /\ a2[j].srv = all[j].srv /\ a2[j].iscid = all[j].iscid
           /\ a2[j].users = IF all[j].iscid = m.iscid THEN m.users ELSE all[j].users
  BY <1>1, WithUsersProperties, UserCountOnList
<1>3. lst \in Seq(Recs) /\ Increasing(lst)
  BY DEF Shows
<1>4. CASE Type[s] = 1
  <2>1. /\ b \in Seq(Recs) /\ DOMAIN b = DOMAIN lst
        /\ \A i \in DOMAIN lst :
             /\ b[i].srv = lst[i].srv /\ b[i].iscid = lst[i].iscid
             /\ b[i].users = IF lst[i].iscid = m.iscid THEN m.users ELSE lst[i].users
    BY <1>3, <1>4, UserCountOnCopy
  <2> HIDE DEF a2, b
  <2>2. \A i \in DOMAIN lst, j \in DOMAIN all : Same(lst[i], all[j]) => Same(b[i], a2[j])
    BY <1>2, <2>1 DEF Same
  <2>3. Shows(s, b, a2)
    BY <1>2, <2>1, <2>2, ChangedShows
  <2> QED BY <2>3 DEF a2, b
<1>5. CASE Type[s] = 2
  <2>1. b = lst
    BY <1>1, <1>5 DEF AfterPacket
  <2> HIDE DEF a2, b
  <2>2. \A i \in DOMAIN lst, j \in DOMAIN all :
          Keeps(s, all[j]) /\ Same(lst[i], all[j]) => Same(lst[i], a2[j])
    <3>1. \A j \in DOMAIN all : Keeps(s, all[j]) => all[j].iscid # m.iscid
      BY <1>5 DEF Keeps
    <3> QED BY <1>2, <3>1 DEF Same
  <2>3. Shows(s, lst, a2)
    BY <1>2, <1>3, <2>2, ChangedShows
  <2> QED BY <2>1, <2>3 DEF a2, b
<1> QED BY <1>4, <1>5, TypesKnown

\* Only a login server takes user counts.
LEMMA OwnUserCountShows ==
  ASSUME NEW s \in Servers, NEW lst, NEW m \in UserCount, Type[s] = 2
  PROVE  AfterPacket(s, lst, m) = lst
<1>1. m.cmd = "UPDATEUSERCNT"
  BY DEF UserCount
<1> QED BY <1>1 DEF AfterPacket

\* The hub's list, copied, shows the hub's list.
LEMMA ListShows ==
  ASSUME NEW s \in Servers, Type[s] # 3, NEW m \in Listing, Increasing(m.list), NEW lst
  PROVE  Shows(s, AfterPacket(s, lst, m), m.list)
<1>1. m.cmd = "SERVERLIST" /\ m.list \in Seq(Recs)
  BY DEF Listing
<1>2. AfterPacket(s, lst, m) = Kept(s, m.list)
  BY <1>1, TypesKnown DEF AfterPacket
<1> QED BY <1>1, <1>2, KeptShows

\* A number is for the server and not for its copy.
LEMMA NumberLeavesCopy ==
  ASSUME NEW s \in Servers, NEW lst, NEW m \in Numbered, m.cmd = "SETISCID"
  PROVE  AfterPacket(s, lst, m) = lst
BY DEF AfterPacket
-----------------------------------------------------------------------------
(* Working off a queue                                                       *)

\* Step by step the list of s goes from lst through the packets msgs to end.
Runs(s, lst, msgs, r) ==
  r[0] = lst /\ \A n \in 1..Len(msgs) : r[n] = AfterPacket(s, r[n - 1], msgs[n])
Arrives(s, lst, msgs, end) == \E r : Runs(s, lst, msgs, r) /\ r[Len(msgs)] = end

\* Where one arrives is what Replay says.
LEMMA ArrivesReplay ==
  ASSUME NEW s, NEW lst, NEW msgs \in Seq(ToServer), NEW end, Arrives(s, lst, msgs, end)
  PROVE  Replay(s, lst, msgs) = end
<1>1. PICK N \in Nat : N = Len(msgs)
  BY LenProperties
<1>2. PICK r : Runs(s, lst, msgs, r) /\ r[N] = end
  BY <1>1 DEF Arrives
<1> DEFINE body(f, n) == IF n = 0 THEN lst ELSE AfterPacket(s, f[n - 1], msgs[n])
           f == CHOOSE f : f = [n \in 0..Len(msgs) |-> body(f, n)]
           g == [n \in 0..N |-> r[n]]
<1>3. ASSUME NEW n \in 0..N PROVE g[n] = body(g, n)
  <2>1. CASE n = 0
    BY <1>2, <2>1 DEF Runs
  <2>2. CASE n # 0
    <3>1. n \in 1..N /\ n - 1 \in 0..N
      BY <2>2
    <3>2. g[n] = r[n] /\ g[n - 1] = r[n - 1]
      BY <3>1
    <3>3. r[n] = AfterPacket(s, r[n - 1], msgs[n])
      BY <1>1, <1>2, <3>1 DEF Runs
    <3> HIDE DEF g
    <3> QED BY <2>2, <3>2, <3>3
  <2> QED BY <2>1, <2>2
<1>4. g = [n \in 0..N |-> body(g, n)]
  BY <1>3
<1>5. f = [n \in 0..N |-> body(f, n)]
  <2>1. \E h : h = [n \in 0..N |-> body(h, n)]
    <3> HIDE DEF g
    <3> QED BY <1>4
  <2>2. f = [n \in 0..Len(msgs) |-> body(f, n)]
    BY <1>1, <2>1
  <2> HIDE DEF f
  <2> QED BY <1>1, <2>2
<1>6. Replay(s, lst, msgs) = f[N]
  <2>1. Replay(s, lst, msgs) = f[Len(msgs)]
    BY DEF Replay
  <2> HIDE DEF f
  <2> QED BY <1>1, <2>1
<1> HIDE DEF f
<1> DEFINE good == {n \in Nat : n <= N => f[n] = r[n]}
<1>7. \A n \in 0..N : f[n] = body(f, n)
  BY <1>5
<1>8. 0 \in good
  BY <1>2, <1>7 DEF Runs
<1>9. ASSUME NEW n \in Nat, n \in good PROVE n + 1 \in good
  <2> SUFFICES ASSUME n + 1 <= N PROVE f[n + 1] = r[n + 1]
    OBVIOUS
  <2>1. n + 1 \in 1..N /\ n + 1 \in 0..N /\ n + 1 # 0 /\ (n + 1) - 1 = n /\ n <= N
    OBVIOUS
  <2>2. f[n] = r[n]
    BY <1>9, <2>1
  <2>3. f[n + 1] = AfterPacket(s, f[n], msgs[n + 1])
    BY <1>7, <2>1
  <2>4. r[n + 1] = AfterPacket(s, r[n], msgs[n + 1])
    BY <1>1, <1>2, <2>1 DEF Runs
  <2> QED BY <2>2, <2>3, <2>4
<1>10. N \in good
  <2> HIDE DEF good
  <2> QED BY <1>8, <1>9, NaturalInduction
<1> QED BY <1>2, <1>6, <1>10

\* No packet, no change.
LEMMA ArrivesEmpty ==
  ASSUME NEW s, NEW lst
  PROVE  Arrives(s, lst, <<>>, lst)
<1>1. Runs(s, lst, <<>>, [n \in 0..0 |-> lst]) /\ [n \in 0..0 |-> lst][Len(<<>>)] = lst
  BY EmptySeq DEF Runs
<1> QED BY <1>1 DEF Arrives

\* A packet more.
LEMMA ArrivesAppend ==
  ASSUME NEW s, NEW lst, NEW msgs \in Seq(ToServer), NEW end, Arrives(s, lst, msgs, end),
         NEW m \in ToServer
  PROVE  Arrives(s, lst, Append(msgs, m), AfterPacket(s, end, m))
<1>1. PICK N \in Nat : N = Len(msgs)
  BY LenProperties
<1>2. PICK r : Runs(s, lst, msgs, r) /\ r[N] = end
  BY <1>1 DEF Arrives
<1>3. PICK q : q = Append(msgs, m)
  OBVIOUS
<1>4. Len(q) = N + 1 /\ (\A n \in 1..N : q[n] = msgs[n]) /\ q[N + 1] = m
  BY <1>1, <1>3, AppendProperties
<1>5. PICK e : e = AfterPacket(s, end, m)
  OBVIOUS
<1> DEFINE r2 == [n \in 0..(N + 1) |-> IF n = N + 1 THEN e ELSE r[n]]
<1>6. r2[0] = lst /\ r2[N + 1] = e
  BY <1>2 DEF Runs
<1>7. ASSUME NEW n \in 1..(N + 1)
      PROVE  r2[n] = AfterPacket(s, r2[n - 1], q[n])
  <2>1. r2[n - 1] = r[n - 1]
    BY SMT
  <2>2. CASE n = N + 1
    <3>1. n - 1 = N
      BY <2>2
    <3>2. r2[n] = e
      BY <2>2
    <3> HIDE DEF r2
    <3> QED BY <1>2, <1>4, <1>5, <2>1, <2>2, <3>1, <3>2
  <2>3. CASE n # N + 1
    <3>1. n \in 1..N
      BY <2>3
    <3>2. r2[n] = r[n]
      BY <2>3
    <3>3. r[n] = AfterPacket(s, r[n - 1], msgs[n])
      BY <1>1, <1>2, <3>1 DEF Runs
    <3> HIDE DEF r2
    <3> QED BY <1>4, <2>1, <3>1, <3>2, <3>3
  <2> QED BY <2>2, <2>3
<1> HIDE DEF r2
<1>8. Runs(s, lst, q, r2) /\ r2[Len(q)] = e
  BY <1>4, <1>6, <1>7 DEF Runs
<1>9. Arrives(s, lst, q, e)
  BY <1>8 DEF Arrives
<1> QED BY <1>3, <1>5, <1>9

\* A packet handled.
LEMMA ArrivesTail ==
  ASSUME NEW s, NEW lst, NEW msgs \in Seq(ToServer), msgs # <<>>,
         NEW end, Arrives(s, lst, msgs, end)
  PROVE  Arrives(s, AfterPacket(s, lst, Head(msgs)), Tail(msgs), end)
<1>1. PICK N \in Nat : N = Len(msgs) /\ N # 0
  BY EmptySeq, LenProperties
<1>2. PICK r : Runs(s, lst, msgs, r) /\ r[N] = end
  BY <1>1 DEF Arrives
<1>3. PICK q : q = Tail(msgs)
  OBVIOUS
<1>4. Len(q) = N - 1 /\ \A n \in 1..(N - 1) : q[n] = msgs[n + 1]
  BY <1>1, <1>3, HeadTailProperties
<1>5. PICK l : l = AfterPacket(s, lst, Head(msgs))
  OBVIOUS
<1> DEFINE r2 == [n \in 0..(N - 1) |-> r[n + 1]]
<1>6. r2[0] = l
  <2>1. r[1] = AfterPacket(s, r[0], msgs[1]) /\ r[0] = lst
    <3>1. 1 \in 1..N /\ 1 - 1 = 0
      BY <1>1
    <3> QED BY <1>1, <1>2, <3>1 DEF Runs
  <2>2. Head(msgs) = msgs[1]
    BY HeadTailProperties
  <2>3. r2[0] = r[1]
    BY <1>1
  <2> HIDE DEF r2
  <2> QED BY <1>5, <2>1, <2>2, <2>3
<1>7. ASSUME NEW n \in 1..(N - 1)
      PROVE  r2[n] = AfterPacket(s, r2[n - 1], q[n])
  <2>1. /\ n \in 0..(N - 1) /\ n - 1 \in 0..(N - 1) /\ (n - 1) + 1 = n
        /\ n + 1 \in 1..N /\ (n + 1) - 1 = n
    BY <1>1
  <2>2. r2[n] = r[n + 1] /\ r2[n - 1] = r[n]
    BY <2>1
  <2>3. r[n + 1] = AfterPacket(s, r[n], msgs[n + 1])
    BY <1>1, <1>2, <2>1 DEF Runs
  <2> HIDE DEF r2
  <2> QED BY <1>4, <2>2, <2>3
<1>8. r2[N - 1] = end
  <2>1. N - 1 \in 0..(N - 1) /\ (N - 1) + 1 = N
    BY <1>1
  <2> QED BY <1>2, <2>1
<1> HIDE DEF r2
<1>9. Runs(s, l, q, r2) /\ r2[Len(q)] = end
  BY <1>4, <1>6, <1>7, <1>8 DEF Runs
<1>10. Arrives(s, l, q, end)
  BY <1>9 DEF Arrives
<1> QED BY <1>3, <1>5, <1>10
-----------------------------------------------------------------------------
(* The copies and the packets on their way                                   *)

\* No number in the list is the one that a server has before it is told its own: a char
\* server counts its users under it, and the hub would enter them at another's record.
UnsetUnused == \A i \in DOMAIN serverList : serverList[i].iscid # 99

Asked(c) == \E i \in DOMAIN up[c] : up[c][i].cmd = "SERVERLIST"
Replying(c) == \E w \in Workers : task[w].at = "reply" /\ task[w].conn = c
OwnNumber(c, n) == n = 99 \/ (c \in identified /\ n = iscid[c])

\* A server that runs has its end open; nothing is sent to a connection nobody opened.
OpenWhileUp ==
  /\ \A s \in Servers : state[s] # "down" => isOpen[conn[s]]
  /\ \A c \in Fresh : ~isOpen[c] /\ down[c] = <<>>

\* Who has been asked for the list is in ClientList, and so is told of all that follows.
ListedWhileUp ==
  \A s \in Servers : state[s] = "up" /\ Type[s] # 3 /\ ~Asked(conn[s]) => conn[s] \in clientList

\* User counts come from char servers, under a number that is theirs or of nobody.
CountsOwn ==
  \A c \in Conns : \A i \in DOMAIN up[c] : up[c][i].cmd = "UPDATEUSERCNT" =>
    Type[server[c]] = 2 /\ OwnNumber(c, up[c][i].iscid)

\* What a server is told, and believes, of its number is right.
NumberKnown ==
  /\ \A s \in Servers : IF state[s] = "down" THEN myIscid[s] = 99
                        ELSE OwnNumber(conn[s], myIscid[s])
  /\ \A c \in Conns : \A i \in DOMAIN down[c] : down[c][i].cmd = "SETISCID" =>
       OwnNumber(c, down[c][i].iscid)

\* What the worker is about to send.
TaskFits ==
  \A w \in Workers :
    /\ task[w].at = "forward" =>
         /\ server[task[w].conn] # None
         /\ task[w].msg.cmd = "IDENTIFY" => /\ task[w].msg.rec.srv = server[task[w].conn]
                                            /\ OwnNumber(task[w].conn, task[w].msg.rec.iscid)
         /\ task[w].msg.cmd = "UPDATEUSERCNT" => Type[server[task[w].conn]] = 2
    /\ task[w].at = "reply" => task[w].msg.list = serverList
    /\ task[w].at = "notify" => task[w].msg.cmd = "REMOVE"

\* The list lst of s once it has been sent what worker k is about to send.
Pend(s, lst, k) == IF k.at \in {"forward", "notify"} THEN AfterPacket(s, lst, k.msg) ELSE lst

\* What s arrives at, once it has worked off its packets and the one about to be sent,
\* shows the hub's list, if it was sent the list.
Answered(s) == /\ state[s] = "up" /\ Type[s] # 3
               /\ ~Asked(conn[s]) /\ ~Replying(conn[s])
CopyShows(s) ==
  \E end : /\ Arrives(s, list[s], down[conn[s]], end)
           /\ Answered(s) => \A w \in Workers : Shows(s, Pend(s, end, task[w]), serverList)

CopyInv == /\ OpenWhileUp /\ ListedWhileUp /\ CountsOwn /\ NumberKnown /\ TaskFits
           /\ \A s \in Servers : state[s] # "down" => CopyShows(s)

\* At first no server runs.
LEMMA CopyInit == Init => CopyInv
<1> SUFFICES ASSUME Init PROVE CopyInv
  OBVIOUS
<1>1. \A w \in Workers : task[w].at = "idle"
  BY DEF Init, HubInit, Idle
<1>2. \A s \in Servers : state[s] = "down" /\ myIscid[s] = 99
  BY DEF Init
<1>3. \A c \in Conns : up[c] = <<>> /\ down[c] = <<>> /\ ~isOpen[c]
  BY DEF Init, HubInit
<1>4. Fresh \subseteq Conns
  BY DEF Fresh
<1>5. OpenWhileUp /\ ListedWhileUp
  BY <1>2, <1>3, <1>4 DEF OpenWhileUp, ListedWhileUp
<1>6. CountsOwn /\ NumberKnown
  BY <1>2, <1>3 DEF CountsOwn, NumberKnown
<1>7. TaskFits
  BY <1>1 DEF TaskFits
<1> QED BY <1>2, <1>5, <1>6, <1>7 DEF CopyInv

\* A server that is sent nothing.
LEMMA CopyKept ==
  ASSUME NEW s \in Servers, CopyShows(s),
         list'[s] = list[s], conn'[s] = conn[s], down'[conn[s]] = down[conn[s]],
         Answered(s)' => Answered(s),
         Answered(s)' => \A w \in Workers : \A e :
           Shows(s, Pend(s, e, task[w]), serverList) => Shows(s, Pend(s, e, task'[w]), serverList')
  PROVE  CopyShows(s)'
<1>1. PICK e : /\ Arrives(s, list[s], down[conn[s]], e)
               /\ Answered(s) => \A w \in Workers : Shows(s, Pend(s, e, task[w]), serverList)
  BY DEF CopyShows
<1>2. Arrives(s, list'[s], down'[conn'[s]], e)
  BY <1>1
<1>3. Answered(s)' => \A w \in Workers : Shows(s, Pend(s, e, task'[w]), serverList')
  BY <1>1
<1> QED BY <1>2, <1>3 DEF CopyShows

\* A server that is sent a packet.
LEMMA CopySent ==
  ASSUME NEW s \in Servers, CopyShows(s), NEW m \in ToServer,
         list'[s] = list[s], conn'[s] = conn[s], down[conn[s]] \in Seq(ToServer),
         down'[conn[s]] = Append(down[conn[s]], m),
         Answered(s)' => \A w \in Workers : \A e :
           (Answered(s) => Shows(s, Pend(s, e, task[w]), serverList)) =>
             Shows(s, Pend(s, AfterPacket(s, e, m), task'[w]), serverList')
  PROVE  CopyShows(s)'
<1>1. PICK e : /\ Arrives(s, list[s], down[conn[s]], e)
               /\ Answered(s) => \A w \in Workers : Shows(s, Pend(s, e, task[w]), serverList)
  BY DEF CopyShows
<1>2. PICK f : f = AfterPacket(s, e, m)
  OBVIOUS
<1>3. Arrives(s, list[s], Append(down[conn[s]], m), f)
  BY <1>1, <1>2, ArrivesAppend
<1>4. Arrives(s, list'[s], down'[conn'[s]], f)
  BY <1>3
<1>5. Answered(s)' => \A w \in Workers : Shows(s, Pend(s, f, task'[w]), serverList')
  BY <1>1, <1>2
<1> QED BY <1>4, <1>5 DEF CopyShows

\* A step of the hub takes packets from servers and sends packets to servers that are
\* there; the numbers it has given out stay.
LEMMA HubFrame ==
  ASSUME Typed, CopyInv, UNCHANGED <<server, isOpen, serverVars>>,
         \A c \in Conns : \A i \in DOMAIN up'[c] : \E j \in DOMAIN up[c] : up'[c][i] = up[c][j],
         identified \subseteq identified', \A c \in identified : iscid'[c] = iscid[c],
         \A c \in Conns : \/ down'[c] = down[c]
                          \/ /\ isOpen[c]
                             /\ \E m \in ToServer :
                                  /\ down'[c] = Append(down[c], m)
                                  /\ m.cmd = "SETISCID" => OwnNumber(c, m.iscid)
  PROVE  OpenWhileUp' /\ CountsOwn' /\ NumberKnown'
<1>1. UNCHANGED <<state, conn, myIscid>>
  BY DEF serverVars
<1> DEFINE own(c, n) == n = 99 \/ (c \in identified' /\ n = iscid'[c])
<1>2. \A c, n : OwnNumber(c, n) => own(c, n)
  BY DEF OwnNumber
<1>3. OpenWhileUp'
  <2>1. Fresh' = Fresh /\ Fresh \subseteq Conns
    BY DEF Fresh
  <2> QED BY <1>1, <2>1 DEF CopyInv, OpenWhileUp
<1>4. CountsOwn'
  <2> SUFFICES ASSUME NEW c \in Conns, NEW i \in DOMAIN up'[c], up'[c][i].cmd = "UPDATEUSERCNT"
               PROVE  Type[server[c]] = 2 /\ own(c, up'[c][i].iscid)
    BY DEF CountsOwn, OwnNumber
  <2>1. PICK j \in DOMAIN up[c] : up'[c][i] = up[c][j]
    OBVIOUS
  <2>2. Type[server[c]] = 2 /\ OwnNumber(c, up[c][j].iscid)
    BY <2>1 DEF CopyInv, CountsOwn
  <2> HIDE DEF own
  <2> QED BY <1>2, <2>1, <2>2
<1>5. NumberKnown'
  <2>1. \A s \in Servers : state[s] # "down" => own(conn[s], myIscid[s])
    BY <1>2 DEF CopyInv, NumberKnown
  <2>2. ASSUME NEW c \in Conns, NEW i \in DOMAIN down'[c], down'[c][i].cmd = "SETISCID"
        PROVE  own(c, down'[c][i].iscid)
    <3>1. PICK p : p = down'[c][i]
      OBVIOUS
    <3>2. OwnNumber(c, p.iscid)
      <4>1. CASE down'[c] = down[c]
        BY <2>2, <3>1, <4>1 DEF CopyInv, NumberKnown
      <4>2. CASE \E m \in ToServer : /\ down'[c] = Append(down[c], m)
                                     /\ m.cmd = "SETISCID" => OwnNumber(c, m.iscid)
        <5>1. PICK m \in ToServer : /\ down'[c] = Append(down[c], m)
                                    /\ m.cmd = "SETISCID" => OwnNumber(c, m.iscid)
          BY <4>2
        <5>2. down[c] \in Seq(ToServer)
          BY DEF Typed, HubTyped
        <5>3. /\ DOMAIN down[c] = 1..Len(down[c]) /\ Len(down[c]) \in Nat
              /\ DOMAIN down'[c] = 1..(Len(down[c]) + 1)
              /\ \A k \in 1..Len(down[c]) : down'[c][k] = down[c][k]
              /\ down'[c][Len(down[c]) + 1] = m
          BY <5>1, <5>2, AppendProperties, LenProperties
        <5>4. CASE i \in 1..Len(down[c])
          BY <2>2, <3>1, <5>3, <5>4 DEF CopyInv, NumberKnown
        <5>5. CASE i = Len(down[c]) + 1
          BY <2>2, <3>1, <5>1, <5>3, <5>5
        <5> QED BY <5>3, <5>4, <5>5
      <4> QED BY <4>1, <4>2
    <3> HIDE DEF own
    <3> QED BY <1>2, <3>1, <3>2
  <2>3. \A s \in Servers : state[s] = "down" => myIscid[s] = 99
    BY DEF CopyInv, NumberKnown
  <2> QED BY <1>1, <2>1, <2>2, <2>3 DEF NumberKnown, OwnNumber
<1> QED BY <1>3, <1>4, <1>5

\* What is known of a server that runs.
LEMMA RunsLinked ==
  ASSUME Typed, LinkInv, CopyInv, NEW s \in Servers, state[s] # "down"
  PROVE  /\ conn[s] \in Conns /\ server[conn[s]] = s /\ isOpen[conn[s]]
         /\ down[conn[s]] \in Seq(ToServer) /\ CopyShows(s)
         /\ Answered(s) => conn[s] \in clientList
         /\ \A c \in Conns : Answered(s) /\ c = conn[s] => ~Replying(c)
<1>1. conn[s] \in Conns /\ server[conn[s]] = s
  BY DEF LinkInv, ServersLinked
<1>2. isOpen[conn[s]] /\ CopyShows(s)
  BY DEF CopyInv, OpenWhileUp
<1>3. Answered(s) => conn[s] \in clientList
  BY DEF CopyInv, ListedWhileUp, Answered
<1>4. down[conn[s]] \in Seq(ToServer)
  BY <1>1 DEF Typed, HubTyped
<1> QED BY <1>1, <1>2, <1>3, <1>4 DEF Answered

\* A packet that is received was in the queue; those behind it stay.
LEMMA ReceivesKeeps ==
  ASSUME Typed, NEW w \in Workers, NEW c \in Conns, NEW cmd, Receives(w, c, cmd)
  PROVE  /\ \A d \in Conns : d # c => up'[d] = up[d]
         /\ \A d \in Conns : \A i \in DOMAIN up'[d] : \E j \in DOMAIN up[d] : up'[d][i] = up[d][j]
         /\ cmd # "SERVERLIST" => \A d \in Conns : Asked(d) => Asked(d)'
         /\ \E j \in DOMAIN up[c] : up[c][j] = Head(up[c])
<1>1. /\ up[c] \in Seq(ToHub) /\ up[c] # <<>>
      /\ up'[c] = Tail(up[c]) /\ \A d \in Conns : d # c => up'[d] = up[d]
  BY DEF Typed, HubTyped, Receives
<1>2. PICK n \in Nat : n = Len(up[c]) /\ n # 0 /\ DOMAIN up[c] = 1..n
  BY <1>1, LenProperties, EmptySeq
<1>3. PICK q : q = up'[c] /\ DOMAIN q = 1..(n - 1) /\ \A i \in 1..(n - 1) : q[i] = up[c][i + 1]
  <2>1. /\ Tail(up[c]) \in Seq(ToHub) /\ Len(Tail(up[c])) = Len(up[c]) - 1
        /\ \A i \in 1..Len(Tail(up[c])) : Tail(up[c])[i] = up[c][i + 1]
    BY <1>1, HeadTailProperties
  <2>2. DOMAIN Tail(up[c]) = 1..(n - 1)
    BY <1>2, <2>1, LenProperties
  <2> QED BY <1>1, <1>2, <2>1, <2>2
<1>4. Head(up[c]) = up[c][1] /\ 1 \in DOMAIN up[c]
  BY <1>1, <1>2, HeadTailProperties
<1>5. \A i \in DOMAIN q : \E j \in DOMAIN up[c] : q[i] = up[c][j]
  <2>1. \A i \in 1..(n - 1) : i + 1 \in 1..n
    BY <1>2
  <2> QED BY <1>2, <1>3, <2>1
<1>6. \A d \in Conns : \A i \in DOMAIN up'[d] : \E j \in DOMAIN up[d] : up'[d][i] = up[d][j]
  <2>1. \A i \in DOMAIN up'[c] : \E j \in DOMAIN up[c] : up'[c][i] = up[c][j]
    BY <1>3, <1>5
  <2>2. \A d \in Conns : d # c => \A i \in DOMAIN up'[d] : \E j \in DOMAIN up[d] : up'[d][i] = up[d][j]
    BY <1>1
  <2> QED BY <2>1, <2>2
<1>7. ASSUME cmd # "SERVERLIST", NEW d \in Conns, Asked(d)
      PROVE  Asked(d)'
  <2>1. CASE d = c
    <3>1. PICK j \in 1..n : up[c][j].cmd = "SERVERLIST"
      BY <1>2, <1>7, <2>1 DEF Asked
    <3>2. j # 1
      BY <1>4, <1>7, <3>1 DEF Receives
    <3>3. j - 1 \in 1..(n - 1) /\ (j - 1) + 1 = j
      BY <3>2
    <3>4. q[j - 1].cmd = "SERVERLIST"
      BY <1>3, <3>1, <3>3
    <3> QED BY <1>3, <2>1, <3>3, <3>4 DEF Asked
  <2>2. CASE d # c
    BY <1>1, <1>7, <2>2 DEF Asked
  <2> QED BY <2>1, <2>2
<1> QED BY <1>1, <1>4, <1>6, <1>7

\* Steps of the hub that neither take nor send a packet.
LEMMA QuietCopies ==
  ASSUME Typed, LinkInv, CopyInv, UNCHANGED <<netVars, iscid, serverVars>>,
         identified \subseteq identified',
         \A c \in clientList : isOpen[c] => c \in clientList',
         TaskFits', \A c : Replying(c) => Replying(c)',
         \A s \in Servers : Type[s] # 3 => \A w \in Workers : \A e :
           Shows(s, Pend(s, e, task[w]), serverList) => Shows(s, Pend(s, e, task'[w]), serverList')
  PROVE  CopyInv'
<1>1. UNCHANGED <<server, isOpen, up, down, state, conn, list>>
  BY DEF netVars, serverVars
<1>2. OpenWhileUp' /\ CountsOwn' /\ NumberKnown'
  <2>1. \A c \in Conns : \A i \in DOMAIN up'[c] : \E j \in DOMAIN up[c] : up'[c][i] = up[c][j]
    BY <1>1
  <2>2. UNCHANGED <<server, isOpen, serverVars>> /\ (\A c \in Conns : down'[c] = down[c])
        /\ \A c \in identified : iscid'[c] = iscid[c]
    BY <1>1
  <2> QED BY <2>1, <2>2, HubFrame
<1>3. \A c : Asked(c)' <=> Asked(c)
  BY <1>1 DEF Asked
<1>4. ListedWhileUp'
  <2> SUFFICES ASSUME NEW s \in Servers, state[s] = "up", Type[s] # 3, ~Asked(conn[s])
               PROVE  conn[s] \in clientList'
    BY <1>1 DEF ListedWhileUp, Asked
  <2>1. conn[s] \in clientList
    BY DEF CopyInv, ListedWhileUp
  <2>2. isOpen[conn[s]]
    BY RunsLinked
  <2> QED BY <2>1, <2>2
<1>5. ASSUME NEW s \in Servers, state'[s] # "down" PROVE CopyShows(s)'
  <2>1. CopyShows(s)
    BY <1>1, <1>5, RunsLinked
  <2>2. Answered(s)' => Answered(s) /\ Type[s] # 3
    <3>1. PICK c : c = conn[s]
      OBVIOUS
    <3>2. ~Replying(c)' => ~Replying(c)
      OBVIOUS
    <3>3. Answered(s)' => ~Replying(c)' /\ ~Asked(c)' /\ state[s] = "up" /\ Type[s] # 3
      BY <1>1, <3>1 DEF Answered, Replying, Asked
    <3> QED BY <1>3, <3>1, <3>2, <3>3 DEF Answered
  <2> QED BY <1>1, <2>1, <2>2, CopyKept
<1> QED BY <1>2, <1>4, <1>5 DEF CopyInv

\* Steps that take a packet.
LEMMA ReceivesCopies ==
  ASSUME Typed, LinkInv, CopyInv, NEW w, Workers = {w}, NEW c \in Conns, NEW cmd,
         Receives(w, c, cmd), UNCHANGED <<server, isOpen, down, clientList, identified, serverVars>>,
         \A d \in identified : iscid'[d] = iscid[d],
         cmd = "SERVERLIST" => task'[w].at = "reply" /\ task'[w].conn = c,
         TaskFits',
         \A s \in Servers : Type[s] # 3 => \A e :
           Shows(s, e, serverList) => Shows(s, Pend(s, e, task'[w]), serverList')
  PROVE  CopyInv'
<1>1. UNCHANGED <<state, conn, list>>
  BY DEF serverVars
<1>2. task[w] = Idle /\ task[w].at = "idle" /\ c \in clientList
  BY DEF Receives, Serves, Idle
<1>3. /\ \A d \in Conns : d # c => up'[d] = up[d]
      /\ \A d \in Conns : \A i \in DOMAIN up'[d] : \E j \in DOMAIN up[d] : up'[d][i] = up[d][j]
      /\ cmd # "SERVERLIST" => \A d \in Conns : Asked(d) => Asked(d)'
  BY ReceivesKeeps
<1>4. OpenWhileUp' /\ CountsOwn' /\ NumberKnown'
  <2>1. UNCHANGED <<server, isOpen, serverVars>> /\ (\A d \in Conns : down'[d] = down[d])
        /\ identified \subseteq identified'
    OBVIOUS
  <2> QED BY <1>3, <2>1, HubFrame
<1>5. ASSUME NEW d \in Conns, ~Asked(d)' PROVE ~Asked(d) \/ (d = c /\ cmd = "SERVERLIST")
  <2>1. CASE cmd # "SERVERLIST"
    BY <1>3, <1>5, <2>1
  <2>2. CASE d # c
    BY <1>3, <1>5, <2>2 DEF Asked
  <2> QED BY <2>1, <2>2
<1>6. ListedWhileUp'
  <2> SUFFICES ASSUME NEW s \in Servers, state[s] = "up", Type[s] # 3, ~Asked(conn[s])'
               PROVE  conn[s] \in clientList
    BY <1>1 DEF ListedWhileUp, Asked
  <2>1. PICK d \in Conns : d = conn[s]
    BY RunsLinked
  <2>2. ~Asked(d)'
    BY <1>1, <2>1 DEF Asked
  <2>3. ~Asked(d) \/ d = c
    BY <1>5, <2>2
  <2> QED BY <1>2, <2>1, <2>3 DEF CopyInv, ListedWhileUp
<1>7. ASSUME NEW s \in Servers, state'[s] # "down" PROVE CopyShows(s)'
  <2>1. CopyShows(s) /\ conn[s] \in Conns
    BY <1>1, <1>7, RunsLinked
  <2>2. PICK d \in Conns : d = conn[s]
    BY <2>1
  <2>3. Answered(s)' => ~Replying(d)' /\ ~Asked(d)' /\ state[s] = "up" /\ Type[s] # 3
    BY <1>1, <2>2 DEF Answered, Replying, Asked
  <2>4. ~Replying(d)
    BY <1>2 DEF Replying
  <2>5. ~Replying(d)' => ~(d = c /\ cmd = "SERVERLIST")
    BY DEF Replying
  <2>6. Answered(s)' => Answered(s) /\ Type[s] # 3
    BY <1>5, <2>2, <2>3, <2>4, <2>5 DEF Answered
  <2>7. \A e : Pend(s, e, task[w]) = e
    BY <1>2 DEF Pend
  <2> QED BY <1>1, <2>1, <2>6, <2>7, CopyKept
<1> QED BY <1>4, <1>6, <1>7 DEF CopyInv

\* Steps that send.
LEMMA SendsFrame ==
  ASSUME Typed, LinkInv, CopyInv, NEW w, Workers = {w},
         UNCHANGED <<server, isOpen, up, clientList, iscid, identified, serverVars>>,
         task' = [task EXCEPT ![w] = Idle],
         \A c \in Conns : \/ down'[c] = down[c]
                          \/ /\ isOpen[c]
                             /\ \E m \in ToServer :
                                  /\ down'[c] = Append(down[c], m)
                                  /\ m.cmd = "SETISCID" => OwnNumber(c, m.iscid)
  PROVE  /\ OpenWhileUp' /\ CountsOwn' /\ NumberKnown' /\ ListedWhileUp' /\ TaskFits'
         /\ task'[w].at = "idle"
<1>1. UNCHANGED <<state, conn>>
  BY DEF serverVars
<1>2. OpenWhileUp' /\ CountsOwn' /\ NumberKnown'
  <2>1. \A c \in Conns : \A i \in DOMAIN up'[c] : \E j \in DOMAIN up[c] : up'[c][i] = up[c][j]
    OBVIOUS
  <2>2. UNCHANGED <<server, isOpen, serverVars>> /\ identified \subseteq identified'
        /\ \A c \in identified : iscid'[c] = iscid[c]
    OBVIOUS
  <2> QED BY <2>1, <2>2, HubFrame
<1>3. ListedWhileUp'
  BY <1>1 DEF CopyInv, ListedWhileUp, Asked
<1>4. task'[w].at = "idle"
  BY DEF Idle, Typed, HubTyped
<1>5. TaskFits'
  BY <1>4 DEF TaskFits
<1> QED BY <1>2, <1>3, <1>4, <1>5

\* A packet of server s says of itself nothing that s keeps.
LEMMA OwnPacket ==
  ASSUME Typed, LinkInv, CopyInv, NEW s \in Servers, state[s] # "down",
         NEW w \in Workers, task[w].at = "forward", task[w].conn = conn[s]
  PROVE  \A lst : AfterPacket(s, lst, task[w].msg) = lst
<1>1. server[conn[s]] = s
  BY RunsLinked
<1>2. task[w].msg \in Identify \cup UserCount
  BY TaskCases DEF Typed, HubTyped
<1>3. CASE task[w].msg \in Identify
  <2>1. task[w].msg.cmd = "IDENTIFY"
    BY <1>3 DEF Identify
  <2>2. task[w].msg.rec.srv = s
    BY <1>1, <2>1 DEF CopyInv, TaskFits
  <2> QED BY <1>3, <2>2, OwnIdentifyShows
<1>4. CASE task[w].msg \in UserCount
  <2>1. task[w].msg.cmd = "UPDATEUSERCNT"
    BY <1>4 DEF UserCount
  <2>2. Type[s] = 2
    BY <1>1, <2>1 DEF CopyInv, TaskFits
  <2> QED BY <1>4, <2>2, OwnUserCountShows
<1> QED BY <1>2, <1>3, <1>4

\* A connection that is accepted.
LEMMA AcceptClientCopies ==
  ASSUME Typed, LinkInv, CopyInv, AcceptClient, UNCHANGED serverVars
  PROVE  CopyInv'
<1>1. /\ UNCHANGED <<netVars, iscid, serverVars, serverList, task, identified, server>>
      /\ clientList \subseteq clientList'
  BY DEF AcceptClient, netVars
<1>2. TaskFits'
  BY <1>1 DEF CopyInv, TaskFits, OwnNumber
<1>3. \A c : Replying(c) => Replying(c)'
  BY <1>1 DEF Replying
<1> QED BY <1>1, <1>2, <1>3, QuietCopies

\* A connection that is lost.
LEMMA DisconnectClientCopies ==
  ASSUME Typed, LinkInv, CopyInv, NEW w, Workers = {w}, NEW c \in Conns,
         DisconnectClient(w, c), UNCHANGED serverVars
  PROVE  CopyInv'
<1>1. /\ UNCHANGED <<netVars, iscid, serverVars, serverList, identified>>
      /\ clientList' = clientList \ {c} /\ ~isOpen[c]
      /\ task' = [task EXCEPT ![w] = [at |-> "erase", conn |-> c]]
      /\ task[w].at = "idle"
  BY DEF DisconnectClient, Serves, Idle
<1>2. task'[w].at = "erase"
  BY <1>1 DEF Typed, HubTyped
<1>3. TaskFits'
  BY <1>2 DEF TaskFits
<1>4. \A d : Replying(d) => Replying(d)'
  BY <1>1 DEF Replying
<1>5. \A s, e : Pend(s, e, task[w]) = e /\ Pend(s, e, task'[w]) = e
  BY <1>1, <1>2 DEF Pend
<1> QED BY <1>1, <1>3, <1>4, <1>5, QuietCopies

\* The record that is taken out will be taken out of the copies.
LEMMA EraseServerCopies ==
  ASSUME Typed, Numbering, LinkInv, CopyInv, NEW w, Workers = {w},
         EraseServer(w), UNCHANGED serverVars
  PROVE  CopyInv'
<1>1. PICK id : id = iscid[task[w].conn]
  OBVIOUS
<1> DEFINE m == [cmd |-> "REMOVE", iscid |-> id]
<1>2. /\ UNCHANGED <<netVars, clientList, iscid, serverVars, identified>>
      /\ serverList' = Without(serverList, id)
      /\ task' = [task EXCEPT ![w] = [at |-> "notify", msg |-> m]]
      /\ task[w].at = "erase"
  BY <1>1 DEF EraseServer
<1>3. m \in Numbered /\ m.cmd = "REMOVE" /\ m.iscid = id
  <2>1. id \in Iscids
    BY <1>1, <1>2, TaskCases DEF Typed, HubTyped
  <2> QED BY <2>1 DEF Numbered
<1> HIDE DEF m
<1>4. task'[w].at = "notify" /\ task'[w].msg = m
  BY <1>2 DEF Typed, HubTyped
<1>5. TaskFits'
  BY <1>3, <1>4 DEF TaskFits
<1>6. \A d : Replying(d) => Replying(d)'
  BY <1>2 DEF Replying
<1>7. ASSUME NEW s \in Servers, Type[s] # 3, NEW e, Shows(s, Pend(s, e, task[w]), serverList)
      PROVE  Shows(s, Pend(s, e, task'[w]), serverList')
  <2>1. Pend(s, e, task[w]) = e /\ Pend(s, e, task'[w]) = AfterPacket(s, e, m)
    BY <1>2, <1>4 DEF Pend
  <2>2. serverList \in Seq(Recs) /\ Increasing(serverList)
    BY DEF Typed, HubTyped, Numbering, NumbersUnique, Increasing
  <2>3. Shows(s, e, serverList)
    BY <1>7, <2>1
  <2>4. Shows(s, AfterPacket(s, e, m), Without(serverList, id))
    BY <1>3, <1>7, <2>2, <2>3, GoneShows
  <2> QED BY <1>2, <2>1, <2>4
<1> QED BY <1>2, <1>5, <1>6, <1>7, QuietCopies

\* The record that is entered will be entered in the copies.
LEMMA PushServerCopies ==
  ASSUME Typed, Numbering, LinkInv, CopyInv, NEW w, Workers = {w},
         PushServer(w), UNCHANGED serverVars
  PROVE  CopyInv'
<1>1. PICK c, rec : c = task[w].conn /\ rec = task[w].rec
  OBVIOUS
<1> DEFINE m == [cmd |-> "IDENTIFY", rec |-> rec]
           k == [at |-> "forward", conn |-> c, msg |-> m]
<1>2. /\ UNCHANGED <<netVars, clientList, iscid, serverVars, server>>
      /\ serverList' = Append(serverList, rec) /\ identified' = identified \cup {c}
      /\ task' = [task EXCEPT ![w] = k]
      /\ task[w].at = "push"
  BY <1>1 DEF PushServer, netVars
<1>3. /\ rec \in Recs /\ rec.srv = server[c] /\ rec.iscid = iscid[c]
      /\ \A j \in DOMAIN serverList : serverList[j].iscid < rec.iscid
  BY <1>1, <1>2, TaskCases DEF Typed, HubTyped, LinkInv, NumberNoted, Numbering, PushInOrder
<1>4. m \in Identify /\ m.cmd = "IDENTIFY" /\ m.rec = rec
  BY <1>3 DEF Identify
<1> HIDE DEF m
<1>5. k.at = "forward" /\ k.conn = c /\ k.msg = m
  OBVIOUS
<1> HIDE DEF k
<1>6. task'[w] = k
  BY <1>2 DEF Typed, HubTyped
<1>7. TaskFits'
  <2>1. server[c] # None
    BY <1>3, NobodyIsNoServer DEF Recs
  <2> QED BY <1>2, <1>3, <1>4, <1>5, <1>6, <2>1 DEF TaskFits, OwnNumber
<1>8. \A d : Replying(d) => Replying(d)'
  BY <1>2 DEF Replying
<1>9. ASSUME NEW s \in Servers, Type[s] # 3, NEW e, Shows(s, Pend(s, e, task[w]), serverList)
      PROVE  Shows(s, Pend(s, e, task'[w]), serverList')
  <2>1. Pend(s, e, task[w]) = e /\ Pend(s, e, task'[w]) = AfterPacket(s, e, m)
    BY <1>2, <1>5, <1>6 DEF Pend
  <2>2. serverList \in Seq(Recs)
    BY DEF Typed, HubTyped
  <2>3. Shows(s, e, serverList)
    BY <1>9, <2>1
  <2>4. Shows(s, AfterPacket(s, e, m), Append(serverList, m.rec))
    BY <1>3, <1>4, <2>2, <2>3, IdentifyShows
  <2> QED BY <1>2, <1>4, <2>1, <2>4
<1> QED BY <1>2, <1>7, <1>8, <1>9, QuietCopies

\* IDENTIFY is the first packet, so that the number that is noted is noted for the first time.
LEMMA ReceiveIdentifyCopies ==
  ASSUME Typed, LinkInv, CopyInv, NEW w, Workers = {w}, NEW c \in Conns,
         ReceiveIdentify(w, c), UNCHANGED serverVars
  PROVE  CopyInv'
<1>1. /\ Receives(w, c, "IDENTIFY") /\ iscid' = [iscid EXCEPT ![c] = NextIscid]
      /\ UNCHANGED <<server, isOpen, down, clientList, identified, serverList, serverVars>>
  BY DEF ReceiveIdentify
<1>2. c \notin identified
  <2>1. /\ up[c] # <<>> /\ 1 \in DOMAIN up[c] /\ Head(up[c]) = up[c][1]
        /\ Head(up[c]).cmd = "IDENTIFY"
    BY <1>1, ReceivesRest DEF Receives
  <2> QED BY <2>1 DEF LinkInv, IdentifyOnce
<1>3. \A d \in identified : iscid'[d] = iscid[d]
  BY <1>1, <1>2 DEF Typed, HubTyped
<1>4. task'[w].at = "push"
  BY ReceiveIdentifyTyped
<1>5. TaskFits'
  BY <1>4 DEF TaskFits
<1>6. \A s, e : Pend(s, e, task'[w]) = e
  BY <1>4 DEF Pend
<1> QED BY <1>1, <1>3, <1>5, <1>6, ReceivesCopies

\* A user count is of the char server that sends it, so that no game server's changes.
LEMMA ReceiveUserCountCopies ==
  ASSUME Typed, Numbering, UnsetUnused, LinkInv, CopyInv, NEW w, Workers = {w}, NEW c \in Conns,
         ReceiveUserCount(w, c), UNCHANGED serverVars
  PROVE  CopyInv'
<1>1. PICK m : m = Head(up[c])
  OBVIOUS
<1>2. /\ Receives(w, c, "UPDATEUSERCNT")
      /\ serverList' = WithUsers(serverList, m.iscid, m.users)
      /\ task' = [task EXCEPT ![w] = [at |-> "forward", conn |-> c, msg |-> m]]
      /\ UNCHANGED <<server, isOpen, down, clientList, identified, iscid, serverVars>>
  BY <1>1 DEF ReceiveUserCount
<1>3. m \in UserCount /\ m.cmd = "UPDATEUSERCNT"
  BY <1>1, <1>2, ReceivesTyped, ToHubCases
<1>4. task'[w].at = "forward" /\ task'[w].conn = c /\ task'[w].msg = m
  BY <1>2 DEF Typed, HubTyped
<1>5. c \in clientList
  BY <1>2 DEF Receives, Serves
<1>6. Type[server[c]] = 2 /\ OwnNumber(c, m.iscid)
  <2>1. PICK j \in DOMAIN up[c] : up[c][j] = m
    BY <1>1, <1>2, ReceivesKeeps
  <2> QED BY <1>3, <2>1 DEF CopyInv, CountsOwn
<1>7. server[c] # None
  BY <1>5 DEF LinkInv, FreshUnused, Fresh
<1>8. TaskFits'
  BY <1>2, <1>3, <1>4, <1>6, <1>7 DEF TaskFits
<1>9. serverList \in Seq(Recs) /\ Increasing(serverList)
  BY DEF Typed, HubTyped, Numbering, NumbersUnique, Increasing
<1>10. ASSUME NEW j \in DOMAIN serverList, serverList[j].iscid = m.iscid
       PROVE  Type[serverList[j].srv] = 2
  <2>1. c \in identified /\ m.iscid = iscid[c]
    BY <1>6, <1>10 DEF UnsetUnused, OwnNumber
  <2>2. PICK i \in DOMAIN serverList : HasRecord(c, serverList[i])
    BY <1>5, <2>1 DEF LinkInv, RecordsMatch, Registered
  <2>3. i = j
    BY <1>9, <1>10, <2>1, <2>2, NumbersApart DEF HasRecord
  <2> QED BY <1>6, <2>2, <2>3 DEF HasRecord
<1>11. ASSUME NEW s \in Servers, Type[s] # 3, NEW e, Shows(s, e, serverList)
       PROVE  Shows(s, Pend(s, e, task'[w]), serverList')
  <2>1. Pend(s, e, task'[w]) = AfterPacket(s, e, m)
    BY <1>4 DEF Pend
  <2>2. Shows(s, AfterPacket(s, e, m), WithUsers(serverList, m.iscid, m.users))
    BY <1>3, <1>9, <1>10, <1>11, UserCountShows
  <2> QED BY <1>2, <2>1, <2>2
<1> QED BY <1>2, <1>8, <1>11, ReceivesCopies

\* The list is copied for the one that asks.
LEMMA ReceiveListRequestCopies ==
  ASSUME Typed, LinkInv, CopyInv, NEW w, Workers = {w}, NEW c \in Conns,
         ReceiveListRequest(w, c), UNCHANGED serverVars
  PROVE  CopyInv'
<1>1. /\ Receives(w, c, "SERVERLIST")
      /\ task' = [task EXCEPT ![w] =
                   [at |-> "reply", conn |-> c, msg |-> [cmd |-> "SERVERLIST", list |-> serverList]]]
      /\ UNCHANGED <<server, isOpen, down, clientList, identified, iscid, serverList, serverVars>>
  BY DEF ReceiveListRequest
<1>2. task'[w].at = "reply" /\ task'[w].conn = c /\ task'[w].msg.list = serverList
  BY <1>1 DEF Typed, HubTyped
<1>3. TaskFits'
  BY <1>1, <1>2 DEF TaskFits
<1>4. \A s, e : Pend(s, e, task'[w]) = e
  BY <1>2 DEF Pend
<1> QED BY <1>1, <1>2, <1>3, <1>4, ReceivesCopies

\* Those who remain are told who is gone.
LEMMA NotifyRemainingCopies ==
  ASSUME Typed, LinkInv, CopyInv, NEW w, Workers = {w}, NotifyRemaining(w), UNCHANGED serverVars
  PROVE  CopyInv'
<1>1. PICK m : m = task[w].msg
  OBVIOUS
<1>2. /\ down' = [c \in Conns |-> IF c \in clientList /\ isOpen[c] THEN Append(down[c], m) ELSE down[c]]
      /\ task' = [task EXCEPT ![w] = Idle] /\ task[w].at = "notify"
      /\ UNCHANGED <<server, isOpen, up, clientList, iscid, identified, serverList, serverVars>>
      /\ UNCHANGED <<state, conn, list>>
  BY <1>1 DEF NotifyRemaining, Send, serverVars
<1>3. m \in ToServer /\ m.cmd = "REMOVE"
  BY <1>1, <1>2, TaskCases DEF Typed, HubTyped, ToServer, CopyInv, TaskFits
<1>4. /\ OpenWhileUp' /\ CountsOwn' /\ NumberKnown' /\ ListedWhileUp' /\ TaskFits'
      /\ task'[w].at = "idle"
  <2>1. \A c \in Conns : \/ down'[c] = down[c]
                         \/ isOpen[c] /\ down'[c] = Append(down[c], m)
    BY <1>2
  <2>2. \A c : m.cmd = "SETISCID" => OwnNumber(c, m.iscid)
    BY <1>3
  <2> QED BY <1>2, <1>3, <2>1, <2>2, SendsFrame
<1>5. ASSUME NEW s \in Servers, state'[s] # "down" PROVE CopyShows(s)'
  <2>1. PICK c \in Conns : c = conn[s] /\ isOpen[c] /\ CopyShows(s) /\ down[c] \in Seq(ToServer)
                           /\ (Answered(s) => c \in clientList)
    BY <1>2, <1>5, RunsLinked
  <2>2. Answered(s)' => Answered(s)
    <3>1. ~Replying(c)
      BY <1>2 DEF Replying
    <3> QED BY <1>2, <2>1, <3>1 DEF Answered, Asked
  <2>3. \A e : Pend(s, e, task[w]) = AfterPacket(s, e, m) /\ Pend(s, e, task'[w]) = e
    BY <1>1, <1>2, <1>4 DEF Pend
  <2>4. CASE c \in clientList
    <3>1. down'[c] = Append(down[c], m)
      BY <1>2, <2>1, <2>4
    <3> QED BY <1>2, <1>3, <2>1, <2>2, <2>3, <3>1, CopySent
  <2>5. CASE c \notin clientList
    <3>1. down'[c] = down[c] /\ ~Answered(s)'
      BY <1>2, <2>1, <2>2, <2>5
    <3> QED BY <1>2, <2>1, <3>1, CopyKept
  <2> QED BY <2>4, <2>5
<1> QED BY <1>4, <1>5 DEF CopyInv

\* What has been entered goes to everybody but the one it came from.
LEMMA ForwardPacketCopies ==
  ASSUME Typed, LinkInv, CopyInv, NEW w, Workers = {w}, ForwardPacket(w), UNCHANGED serverVars
  PROVE  CopyInv'
<1>1. PICK c \in Conns, m \in Identify \cup UserCount : c = task[w].conn /\ m = task[w].msg
  BY TaskCases DEF Typed, HubTyped, ForwardPacket
<1> DEFINE set == [cmd |-> "SETISCID", iscid |-> m.rec.iscid]
           reply == IF m.cmd = "IDENTIFY" /\ isOpen[c] THEN <<set>> ELSE <<>>
<1>2. /\ down' = [d \in Conns |-> IF d = c THEN down[c] \o reply
                                  ELSE IF d \in clientList /\ isOpen[d] THEN Append(down[d], m)
                                  ELSE down[d]]
      /\ task' = [task EXCEPT ![w] = Idle] /\ task[w].at = "forward"
      /\ UNCHANGED <<server, isOpen, up, clientList, iscid, identified, serverList, serverVars>>
      /\ UNCHANGED <<state, conn, list>>
  BY <1>1 DEF ForwardPacket, serverVars
<1>3. m \in ToServer /\ m.cmd # "SETISCID"
  BY DEF ToServer, Identify, UserCount
<1>4. ASSUME m.cmd = "IDENTIFY"
      PROVE  set \in Numbered /\ set \in ToServer /\ set.cmd = "SETISCID" /\ OwnNumber(c, set.iscid)
  <2>1. m.rec \in Recs
    BY <1>4 DEF Identify, UserCount
  <2>2. OwnNumber(c, m.rec.iscid)
    BY <1>1, <1>2, <1>4 DEF CopyInv, TaskFits
  <2> QED BY <2>1, <2>2 DEF Recs, Numbered, ToServer
<1> HIDE DEF set
<1>5. \A d \in Conns : down[d] \in Seq(ToServer)
  BY DEF Typed, HubTyped
<1>6. \/ down'[c] = down[c]
      \/ m.cmd = "IDENTIFY" /\ isOpen[c] /\ down'[c] = Append(down[c], set)
  <2>1. PICK q : q = down[c] /\ q \in Seq(ToServer)
    BY <1>5
  <2>2. down'[c] = q \o reply
    BY <1>2, <2>1
  <2>3. CASE m.cmd = "IDENTIFY" /\ isOpen[c]
    <3>1. q \o <<set>> = Append(q, set)
      BY <1>4, <2>1, <2>3, AppendIsConcat
    <3> QED BY <2>1, <2>2, <2>3, <3>1
  <2>4. CASE ~(m.cmd = "IDENTIFY" /\ isOpen[c])
    <3>1. q \o <<>> = q
      BY <2>1, ConcatEmptySeq
    <3> QED BY <2>1, <2>2, <2>4, <3>1
  <2> QED BY <2>3, <2>4
<1>7. \A d \in Conns : d # c => down'[d] = IF d \in clientList /\ isOpen[d] THEN Append(down[d], m)
                                           ELSE down[d]
  BY <1>2
<1> HIDE DEF reply
<1>8. /\ OpenWhileUp' /\ CountsOwn' /\ NumberKnown' /\ ListedWhileUp' /\ TaskFits'
      /\ task'[w].at = "idle"
  <2>1. ASSUME NEW d \in Conns
        PROVE  \/ down'[d] = down[d]
               \/ /\ isOpen[d]
                  /\ \E p \in ToServer : /\ down'[d] = Append(down[d], p)
                                         /\ p.cmd = "SETISCID" => OwnNumber(d, p.iscid)
    <3>1. CASE d = c
      BY <1>4, <1>6, <3>1
    <3>2. CASE d # c
      BY <1>3, <1>7, <3>2
    <3> QED BY <3>1, <3>2
  <2> QED BY <1>2, <2>1, SendsFrame
<1>9. ASSUME NEW s \in Servers, state'[s] # "down" PROVE CopyShows(s)'
  <2>1. PICK d \in Conns : d = conn[s] /\ isOpen[d] /\ CopyShows(s) /\ down[d] \in Seq(ToServer)
                           /\ (Answered(s) => d \in clientList)
    BY <1>2, <1>9, RunsLinked
  <2>2. Answered(s)' => Answered(s)
    <3>1. ~Replying(d)
      BY <1>2 DEF Replying
    <3> QED BY <1>2, <2>1, <3>1 DEF Answered, Asked
  <2>3. \A e : Pend(s, e, task[w]) = AfterPacket(s, e, m) /\ Pend(s, e, task'[w]) = e
    BY <1>1, <1>2, <1>8 DEF Pend
  <2>4. CASE d = c
    <3>1. \A e : AfterPacket(s, e, m) = e
      BY <1>1, <1>2, <1>9, <2>1, <2>4, OwnPacket
    <3>2. CASE down'[d] = down[d]
      BY <1>2, <2>1, <2>2, <2>3, <3>1, <3>2, CopyKept
    <3>3. CASE m.cmd = "IDENTIFY" /\ down'[d] = Append(down[d], set)
      <4>1. set \in ToServer /\ \A e : AfterPacket(s, e, set) = e
        BY <1>4, <3>3, NumberLeavesCopy
      <4>2. Answered(s)' => \A u \in Workers : \A e :
              (Answered(s) => Shows(s, Pend(s, e, task[u]), serverList)) =>
                Shows(s, Pend(s, AfterPacket(s, e, set), task'[u]), serverList')
        BY <1>2, <2>2, <2>3, <3>1, <4>1
      <4> QED BY <1>2, <2>1, <3>3, <4>1, <4>2, CopySent
    <3> QED BY <1>6, <2>4, <3>2, <3>3
  <2>5. CASE d # c /\ d \in clientList
    <3>1. down'[d] = Append(down[d], m)
      BY <1>7, <2>1, <2>5
    <3>2. Answered(s)' => \A u \in Workers : \A e :
            (Answered(s) => Shows(s, Pend(s, e, task[u]), serverList)) =>
              Shows(s, Pend(s, AfterPacket(s, e, m), task'[u]), serverList')
      BY <1>2, <2>2, <2>3
    <3> QED BY <1>2, <1>3, <2>1, <3>1, <3>2, CopySent
  <2>6. CASE d # c /\ d \notin clientList
    <3>1. down'[d] = down[d] /\ ~Answered(s)'
      BY <1>7, <2>1, <2>2, <2>6
    <3> QED BY <1>2, <2>1, <3>1, CopyKept
  <2> QED BY <2>4, <2>5, <2>6
<1> QED BY <1>8, <1>9 DEF CopyInv

\* The list goes to the one that asked for it, as it is when it is sent.
LEMMA SendListCopies ==
  ASSUME Typed, Numbering, LinkInv, CopyInv, NEW w, Workers = {w}, SendList(w), UNCHANGED serverVars
  PROVE  CopyInv'
<1>1. PICK c \in Conns, m \in Listing : c = task[w].conn /\ m = task[w].msg
  BY TaskCases DEF Typed, HubTyped, SendList
<1>2. /\ down' = [d \in Conns |-> IF d \in {c} /\ isOpen[d] THEN Append(down[d], m) ELSE down[d]]
      /\ task' = [task EXCEPT ![w] = Idle] /\ task[w].at = "reply"
      /\ UNCHANGED <<server, isOpen, up, clientList, iscid, identified, serverList, serverVars>>
      /\ UNCHANGED <<state, conn, list>>
  BY <1>1 DEF SendList, Send, serverVars
<1>3. m \in ToServer /\ m.cmd = "SERVERLIST" /\ m.list = serverList
  BY <1>1, <1>2 DEF ToServer, Listing, CopyInv, TaskFits
<1>4. /\ OpenWhileUp' /\ CountsOwn' /\ NumberKnown' /\ ListedWhileUp' /\ TaskFits'
      /\ task'[w].at = "idle"
  <2>1. \A d \in Conns : \/ down'[d] = down[d]
                         \/ isOpen[d] /\ down'[d] = Append(down[d], m)
    BY <1>2
  <2>2. \A d : m.cmd = "SETISCID" => OwnNumber(d, m.iscid)
    BY <1>3
  <2> QED BY <1>2, <1>3, <2>1, <2>2, SendsFrame
<1>5. ASSUME NEW s \in Servers, state'[s] # "down" PROVE CopyShows(s)'
  <2>1. PICK d \in Conns : d = conn[s] /\ isOpen[d] /\ CopyShows(s) /\ down[d] \in Seq(ToServer)
    BY <1>2, <1>5, RunsLinked
  <2>2. \A e : Pend(s, e, task[w]) = e /\ Pend(s, e, task'[w]) = e
    BY <1>2, <1>4 DEF Pend
  <2>3. Answered(s)' => Type[s] # 3
    BY DEF Answered
  <2>4. CASE d = c
    <3>1. down'[d] = Append(down[d], m)
      BY <1>2, <2>1, <2>4
    <3>2. Increasing(m.list)
      BY <1>3 DEF Numbering, NumbersUnique, Increasing
    <3>3. Answered(s)' => \A e : Shows(s, AfterPacket(s, e, m), serverList)
      BY <1>3, <2>3, <3>2, ListShows
    <3>4. Answered(s)' => \A e : Shows(s, Pend(s, AfterPacket(s, e, m), task'[w]), serverList')
      BY <1>2, <2>2, <3>3
    <3> QED BY <1>2, <1>3, <2>1, <3>1, <3>4, CopySent
  <2>5. CASE d # c
    <3>1. down'[d] = down[d]
      BY <1>2, <2>5
    <3>2. Answered(s)' => Answered(s)
      <4>1. ~Replying(d)
        BY <1>1, <2>5 DEF Replying
      <4> QED BY <1>2, <2>1, <4>1 DEF Answered, Asked
    <3> QED BY <1>2, <2>1, <2>2, <3>1, <3>2, CopyKept
  <2> QED BY <2>4, <2>5
<1> QED BY <1>4, <1>5 DEF CopyInv

-----------------------------------------------------------------------------
(* Types of the copies, and the queue of connections to be accepted          *)

ListTyped == list \in [Servers -> Seq(Recs)]

\* The hub's packets leave a list of records.
LEMMA AfterPacketTyped ==
  ASSUME NEW s \in Servers, NEW lst \in Seq(Recs), NEW m \in ToServer
  PROVE  AfterPacket(s, lst, m) \in Seq(Recs)
<1>1. CASE m.cmd = "IDENTIFY"
  <2>1. m.rec \in Recs
    BY <1>1, ToServerCases DEF Identify
  <2>2. [m.rec EXCEPT !.status = 6] \in Recs
    BY <2>1 DEF Recs
  <2>3. Append(lst, m.rec) \in Seq(Recs) /\ Append(lst, [m.rec EXCEPT !.status = 6]) \in Seq(Recs)
    BY <2>1, <2>2, AppendProperties
  <2> QED BY <1>1, <2>3 DEF AfterPacket
<1>2. CASE m.cmd = "REMOVE"
  BY <1>2, WithoutTyped DEF AfterPacket
<1>3. CASE m.cmd = "UPDATEUSERCNT" /\ Type[s] = 1
  <2> DEFINE chg(i) == [lst[i] EXCEPT !.users = m.users, !.status = Status(lst[i].srv, m.users)]
  <2>1. PICK n \in Nat : n = Len(lst) /\ DOMAIN lst = 1..n /\ \A i \in DOMAIN lst : lst[i] \in Recs
    BY RecordsTyped
  <2>2. m.users \in 0..MaxLogins /\ m.users \in Nat
    BY <1>3, ToServerCases, UsersNat DEF UserCount
  <2>3. ASSUME NEW i \in DOMAIN lst PROVE chg(i) \in Recs
    <3>1. PICK k \in Nat : k = Status(lst[i].srv, m.users)
      BY <2>1, <2>2, StatusTyped DEF Recs
    <3>2. lst[i] \in Recs
      BY <2>1
    <3> QED BY <2>2, <3>1, <3>2 DEF Recs
  <2>4. AfterPacket(s, lst, m) = [i \in DOMAIN lst |-> IF i \in At(lst, m.iscid) THEN chg(i) ELSE lst[i]]
    BY <1>3 DEF AfterPacket
  <2> HIDE DEF chg
  <2>5. AfterPacket(s, lst, m) \in [1..n -> Recs]
    BY <2>1, <2>3, <2>4
  <2> QED BY <2>5, SeqDef
<1>4. CASE m.cmd = "SERVERLIST"
  BY <1>4, ToServerCases, KeptTyped DEF AfterPacket, Listing
<1>5. CASE m.cmd = "SETISCID" \/ (m.cmd = "UPDATEUSERCNT" /\ Type[s] # 1)
  BY <1>5 DEF AfterPacket
<1> QED BY <1>1, <1>2, <1>3, <1>4, <1>5, ToServerCases

\* Only the hub's packets, and the end of the process, change a copy.
LEMMA NextListTyped == Typed /\ ListTyped /\ [Next]_vars => ListTyped'
<1> SUFFICES ASSUME Typed, ListTyped, [Next]_vars PROVE ListTyped'
  OBVIOUS
<1>1. CASE UNCHANGED list
  BY <1>1 DEF ListTyped
<1>2. ASSUME NEW s \in Servers, Die(s) PROVE ListTyped'
  <2>1. <<>> \in Seq(Recs)
    BY EmptySeq
  <2>2. list' = [list EXCEPT ![s] = <<>>]
    BY <1>2 DEF Die
  <2> QED BY <2>1, <2>2 DEF ListTyped
<1>3. ASSUME NEW s \in Servers, ReceivedISCPacket(s) PROVE ListTyped'
  <2>1. conn[s] \in Conns /\ down[conn[s]] # <<>>
    BY <1>3 DEF Typed, ServersTyped, ReceivedISCPacket
  <2>2. Head(down[conn[s]]) \in ToServer
    BY <2>1, HeadTailProperties DEF Typed, HubTyped
  <2>3. AfterPacket(s, list[s], Head(down[conn[s]])) \in Seq(Recs)
    BY <2>2, AfterPacketTyped DEF ListTyped
  <2>4. list' = [list EXCEPT ![s] = AfterPacket(s, list[s], Head(down[conn[s]]))]
    BY <1>3 DEF ReceivedISCPacket
  <2> QED BY <2>3, <2>4 DEF ListTyped
<1>4. ASSUME NEW s \in Servers, Connect(s) \/ OnServerReady(s) \/ UserLogin(s) PROVE ListTyped'
  <2>1. UNCHANGED list
    BY <1>4 DEF Connect, OnServerReady, UserLogin
  <2> QED BY <2>1, <1>1
<1>5. CASE (HubNext /\ UNCHANGED serverVars) \/ UNCHANGED vars
  BY <1>1, <1>5 DEF serverVars, vars
<1> QED BY <1>2, <1>3, <1>4, <1>5 DEF Next, ServerStep

\* A connection waits to be accepted once, and only then is in ClientList.
BacklogApart ==
  /\ \A i, j \in DOMAIN backlog : backlog[i] = backlog[j] => i = j
  /\ \A c \in Range(backlog) : c \notin clientList /\ c \notin Fresh
  /\ \A c \in clientList : c \notin Fresh

\* The connection that is accepted was in the queue once.
LEMMA AcceptClientApart ==
  ASSUME Typed, BacklogApart, AcceptClient
  PROVE  BacklogApart'
<1>1. /\ backlog \in Seq(Conns) /\ backlog # <<>> /\ backlog' = Tail(backlog)
      /\ clientList' = clientList \cup {Head(backlog)} /\ Fresh' = Fresh
  BY DEF AcceptClient, Typed, HubTyped, netVars, Fresh
<1>2. PICK n \in Nat : n = Len(backlog) /\ n # 0 /\ DOMAIN backlog = 1..n
  BY <1>1, LenProperties, EmptySeq
<1>3. PICK q, c : /\ q = backlog' /\ c = Head(backlog) /\ c = backlog[1] /\ DOMAIN q = 1..(n - 1)
                  /\ \A i \in 1..(n - 1) : q[i] = backlog[i + 1]
  <2>1. /\ Tail(backlog) \in Seq(Conns) /\ Len(Tail(backlog)) = Len(backlog) - 1
        /\ \A i \in 1..Len(Tail(backlog)) : Tail(backlog)[i] = backlog[i + 1]
        /\ Head(backlog) = backlog[1]
    BY <1>1, HeadTailProperties
  <2>2. DOMAIN Tail(backlog) = 1..(n - 1)
    BY <1>2, <2>1, LenProperties
  <2> QED BY <1>1, <1>2, <2>1, <2>2
<1>4. 1 \in 1..n /\ \A i \in 1..(n - 1) : i + 1 \in 1..n /\ i + 1 # 1
  BY <1>2
<1>5. \A i, j \in 1..(n - 1) : q[i] = q[j] => i = j
  <2> SUFFICES ASSUME NEW i \in 1..(n - 1), NEW j \in 1..(n - 1), q[i] = q[j] PROVE i = j
    OBVIOUS
  <2>1. i + 1 \in DOMAIN backlog /\ j + 1 \in DOMAIN backlog /\ backlog[i + 1] = backlog[j + 1]
    BY <1>2, <1>3, <1>4
  <2>2. i + 1 = j + 1
    BY <2>1 DEF BacklogApart
  <2> QED BY <2>2
<1>6. \A d \in Range(q) : d \in Range(backlog) /\ d # c
  <2> SUFFICES ASSUME NEW i \in 1..(n - 1) PROVE q[i] \in Range(backlog) /\ q[i] # c
    BY <1>3 DEF Range
  <2>1. q[i] = backlog[i + 1] /\ i + 1 \in DOMAIN backlog /\ i + 1 # 1 /\ 1 \in DOMAIN backlog
    BY <1>2, <1>3, <1>4
  <2>2. backlog[i + 1] # c
    BY <1>3, <2>1 DEF BacklogApart
  <2> QED BY <2>1, <2>2 DEF Range
<1>7. c \in Range(backlog)
  BY <1>2, <1>3, <1>4 DEF Range
<1>8. clientList' = clientList \cup {c} /\ backlog' = q
  BY <1>1, <1>3
<1>9. \A i, j \in DOMAIN backlog' : backlog'[i] = backlog'[j] => i = j
  BY <1>3, <1>5, <1>8
<1>10. \A d \in Range(q) : d \notin clientList' /\ d \notin Fresh
  BY <1>6, <1>8 DEF BacklogApart
<1>11. \A d \in clientList' : d \notin Fresh
  BY <1>7, <1>8 DEF BacklogApart
<1> QED BY <1>1, <1>8, <1>9, <1>10, <1>11 DEF BacklogApart

\* A connection that is opened was not in the queue, and is now, at its end.
LEMMA ConnectApart ==
  ASSUME Typed, BacklogApart, NEW s \in Servers, Connect(s)
  PROVE  BacklogApart'
<1>1. PICK c \in Fresh : server' = [server EXCEPT ![c] = s] /\ backlog' = Append(backlog, c)
  BY DEF Connect
<1>2. c \in Conns /\ UNCHANGED clientList
  BY DEF Fresh, Connect
<1>3. PICK n \in Nat : n = Len(backlog) /\ DOMAIN backlog = 1..n
  BY LenProperties DEF Typed, HubTyped
<1>4. PICK q : /\ q = backlog' /\ DOMAIN q = 1..(n + 1) /\ q[n + 1] = c
               /\ \A i \in 1..n : q[i] = backlog[i]
  <2>1. /\ Len(Append(backlog, c)) = Len(backlog) + 1 /\ Append(backlog, c) \in Seq(Conns)
        /\ \A i \in 1..Len(backlog) : Append(backlog, c)[i] = backlog[i]
        /\ Append(backlog, c)[Len(backlog) + 1] = c
    BY <1>2, AppendProperties DEF Typed, HubTyped
  <2>2. DOMAIN Append(backlog, c) = 1..(n + 1)
    BY <1>3, <2>1, LenProperties
  <2> QED BY <1>1, <1>3, <2>1, <2>2
<1>5. \A i \in 1..(n + 1) : i \in 1..n \/ i = n + 1
  OBVIOUS
<1>6. \A i \in 1..n : q[i] \in Range(backlog) /\ q[i] # c
  BY <1>3, <1>4 DEF BacklogApart, Range
<1>7. \A i, j \in DOMAIN q : q[i] = q[j] => i = j
  BY <1>3, <1>4, <1>5, <1>6 DEF BacklogApart
<1>8. \A d \in Range(q) : d \in Range(backlog) \/ d = c
  BY <1>4, <1>5, <1>6 DEF Range
<1>9. Fresh' \subseteq Fresh /\ c \notin Fresh'
  <2>1. server'[c] = s /\ \A d \in Conns : d # c => server'[d] = server[d]
    BY <1>1, <1>2 DEF Typed, HubTyped
  <2> QED BY <2>1, <1>2, NobodyIsNoServer DEF Fresh
<1>10. c \notin clientList
  BY DEF BacklogApart
<1>11. \A d \in Range(q) : d \notin clientList /\ d \notin Fresh'
  BY <1>8, <1>9, <1>10 DEF BacklogApart
<1>12. \A d \in clientList : d \notin Fresh'
  BY <1>9 DEF BacklogApart
<1> QED BY <1>2, <1>4, <1>7, <1>11, <1>12 DEF BacklogApart

\* The other steps open and accept no connection.
LEMMA NextApart == Typed /\ BacklogApart /\ [Next]_vars => BacklogApart'
<1> SUFFICES ASSUME Typed, BacklogApart, [Next]_vars PROVE BacklogApart'
  OBVIOUS
<1>1. CASE UNCHANGED <<server, backlog>> /\ clientList' \subseteq clientList
  BY <1>1 DEF BacklogApart, Fresh
<1>2. ASSUME NEW w \in Workers, Continues(w) PROVE BacklogApart'
  <2>1. UNCHANGED <<server, backlog, clientList>>
    BY <1>2 DEF Continues, EraseServer, NotifyRemaining, PushServer, ForwardPacket, SendList, netVars
  <2> QED BY <2>1, <1>1
<1>3. ASSUME NEW w \in Workers, NEW c \in Conns, TurnsTo(w, c) PROVE BacklogApart'
  <2>1. UNCHANGED <<server, backlog>> /\ clientList' \subseteq clientList
    BY <1>3 DEF TurnsTo, ReceivesPacket, DisconnectClient, ReceiveIdentify, ReceiveUserCount,
                ReceiveListRequest, netVars
  <2> QED BY <2>1, <1>1
<1>4. ASSUME NEW s \in Servers, ServerStep(s), ~Connect(s) PROVE BacklogApart'
  <2>1. UNCHANGED <<server, backlog, clientList>>
    BY <1>4 DEF ServerStep, OnServerReady, Die, UserLogin, ReceivedISCPacket, hubVars
  <2> QED BY <2>1, <1>1
<1>5. CASE UNCHANGED vars
  BY <1>1, <1>5 DEF vars, netVars, hubVars
<1> QED BY <1>2, <1>3, <1>4, <1>5, AcceptClientApart, ConnectApart DEF Next, HubNext, WorkerStep

\* No server runs and nobody waits.
LEMMA InitApart == Init => ListTyped /\ BacklogApart
<1> SUFFICES ASSUME Init PROVE ListTyped /\ BacklogApart
  OBVIOUS
<1>1. <<>> \in Seq(Recs)
  BY EmptySeq
<1>2. ListTyped
  BY <1>1 DEF Init, ListTyped
<1>3. DOMAIN backlog = {} /\ Range(backlog) = {} /\ clientList = {}
  BY DEF Init, HubInit, Range
<1> QED BY <1>2, <1>3 DEF BacklogApart

\* The packets, the hub's state, what each server knows of itself and its copy of the
\* list keep their types, and no connection that waits to be accepted is in ClientList
\* yet, for every set of servers and any number of connections and workers.
THEOREM TypeCorrect == Spec => []TypeOK
<1>1. Typed /\ ListTyped /\ BacklogApart => TypeOK
  BY DEF Typed, ListTyped, BacklogApart, TypeOK
<1> QED BY <1>1, AlwaysTyped, NextListTyped, NextApart, InitApart, PTL DEF Spec

\* A step of one server leaves the copies of the others.
LEMMA OthersKept ==
  ASSUME Typed, LinkInv, CopyInv, NEW s \in Servers, NEW t \in Servers, t # s,
         state[t] # "down",
         UNCHANGED <<clientList, serverList, iscid, task, identified>>,
         state'[t] = state[t], conn'[t] = conn[t], list'[t] = list[t],
         up'[conn[t]] = up[conn[t]], down'[conn[t]] = down[conn[t]]
  PROVE  CopyShows(t)'
<1>1. CopyShows(t)
  BY RunsLinked
<1>2. Answered(t)' => Answered(t)
  BY DEF Answered, Asked, Replying
<1> QED BY <1>1, <1>2, CopyKept

\* A server's connection is its own.
LEMMA ConnsApart ==
  ASSUME LinkInv, NEW s \in Servers, NEW t \in Servers, t # s,
         state[s] # "down", state[t] # "down"
  PROVE  conn[t] # conn[s] /\ conn[t] \in Conns /\ conn[s] \in Conns
BY DEF LinkInv, ServersLinked

\* A new connection was never sent anything.
LEMMA ConnectCopies ==
  ASSUME Typed, LinkInv, CopyInv, NEW s \in Servers, Connect(s)
  PROVE  CopyInv'
<1>1. PICK c \in Fresh : /\ server' = [server EXCEPT ![c] = s]
                         /\ isOpen' = [isOpen EXCEPT ![c] = TRUE]
                         /\ conn' = [conn EXCEPT ![s] = c]
  BY DEF Connect
<1>2. /\ UNCHANGED <<up, down, clientList, serverList, iscid, task, identified, myIscid, list>>
      /\ state' = [state EXCEPT ![s] = "connected"] /\ state[s] = "down"
  BY DEF Connect
<1>3. c \in Conns /\ server[c] = None /\ up[c] = <<>> /\ down[c] = <<>>
  BY DEF Fresh, LinkInv, FreshUnused, CopyInv, OpenWhileUp
<1>4. /\ state'[s] = "connected" /\ conn'[s] = c /\ server'[c] = s /\ isOpen'[c]
      /\ \A t \in Servers : t # s => state'[t] = state[t] /\ conn'[t] = conn[t]
      /\ \A d \in Conns : d # c => server'[d] = server[d] /\ isOpen'[d] = isOpen[d]
  BY <1>1, <1>2, <1>3 DEF Typed, HubTyped, ServersTyped
<1>5. \A t \in Servers : state[t] # "down" => conn[t] \in Conns /\ conn[t] # c
  BY <1>3, NobodyIsNoServer DEF LinkInv, ServersLinked
<1>6. OpenWhileUp'
  <2>1. Fresh' \subseteq Fresh \ {c}
    BY <1>3, <1>4, NobodyIsNoServer DEF Fresh
  <2>2. \A d \in Fresh \ {c} : d \in Conns /\ ~isOpen[d] /\ down[d] = <<>>
    BY DEF Fresh, CopyInv, OpenWhileUp
  <2>3. \A t \in Servers : state'[t] # "down" => isOpen'[conn'[t]]
    BY <1>4, <1>5 DEF CopyInv, OpenWhileUp
  <2> QED BY <1>2, <1>4, <2>1, <2>2, <2>3 DEF OpenWhileUp
<1>7. ListedWhileUp'
  BY <1>2, <1>4 DEF CopyInv, ListedWhileUp, Asked
<1>8. CountsOwn'
  BY <1>2, <1>3, <1>4 DEF CopyInv, CountsOwn, OwnNumber
<1>9. NumberKnown'
  BY <1>2, <1>4 DEF CopyInv, NumberKnown, OwnNumber
<1>10. TaskFits'
  <2>1. ASSUME NEW w \in Workers, task[w].at = "forward", server[task[w].conn] # None
        PROVE  server'[task[w].conn] = server[task[w].conn]
    <3>1. task[w].conn \in Conns /\ task[w].conn # c
      BY <1>3, <2>1, TaskCases DEF Typed, HubTyped
    <3> QED BY <1>4, <3>1
  <2> QED BY <1>2, <2>1 DEF CopyInv, TaskFits, OwnNumber
<1>11. CopyShows(s)'
  <2>1. Arrives(s, list'[s], down'[conn'[s]], list[s])
    BY <1>2, <1>3, <1>4, ArrivesEmpty
  <2>2. ~Answered(s)'
    BY <1>4 DEF Answered
  <2> QED BY <2>1, <2>2 DEF CopyShows
<1>12. ASSUME NEW t \in Servers, t # s, state'[t] # "down" PROVE CopyShows(t)'
  BY <1>2, <1>4, <1>12, OthersKept
<1> QED BY <1>6, <1>7, <1>8, <1>9, <1>10, <1>11, <1>12 DEF CopyInv

\* What a server sends first: it registers, and asks for the list.
LEMMA ReadyPackets ==
  ASSUME Typed, LinkInv, NEW s \in Servers, OnServerReady(s)
  PROVE  /\ \A i \in DOMAIN up'[conn[s]] : up'[conn[s]][i].cmd # "UPDATEUSERCNT"
         /\ Type[s] # 3 => Asked(conn[s])'
         /\ \A d \in Conns : d # conn[s] => up'[d] = up[d]
<1> DEFINE I == [cmd |-> "IDENTIFY", rec |-> Record(s)]
           L == [cmd |-> "SERVERLIST"]
           more == IF Type[s] = 3 THEN <<>> ELSE <<L>>
<1>1. /\ state[s] = "connected" /\ UNCHANGED conn
      /\ up' = [up EXCEPT ![conn[s]] = up[conn[s]] \o <<I>> \o more]
  BY DEF OnServerReady
<1>2. PICK c \in Conns : c = conn[s] /\ up[c] = <<>>
  BY <1>1 DEF LinkInv, ServersLinked, IdentifyOnce
<1>3. up'[c] = <<>> \o <<I>> \o more /\ \A d \in Conns : d # c => up'[d] = up[d]
  BY <1>1, <1>2 DEF Typed, HubTyped
<1>4. I.cmd = "IDENTIFY" /\ L.cmd = "SERVERLIST"
  OBVIOUS
<1> HIDE DEF I, L
<1>5. CASE Type[s] = 3
  <2>1. up'[c] = <<I>>
    BY <1>3, <1>5
  <2> QED BY <1>2, <1>3, <1>4, <1>5, <2>1
<1>6. CASE Type[s] # 3
  <2>1. up'[c] = <<I>> \o <<L>>
    <3>1. more = <<L>> /\ <<>> \o <<I>> = <<I>>
      BY <1>6
    <3> QED BY <1>3, <3>1
  <2>2. DOMAIN up'[c] = {1, 2} /\ up'[c][1] = I /\ up'[c][2] = L
    <3>1. <<I>> \in Seq({I, L}) /\ <<L>> \in Seq({I, L}) /\ Len(<<I>>) = 1 /\ Len(<<L>>) = 1
      OBVIOUS
    <3>2. /\ up'[c] \in Seq({I, L}) /\ Len(up'[c]) = 2
          /\ up'[c][1] = <<I>>[1] /\ up'[c][2] = <<L>>[1]
      BY <2>1, <3>1, ConcatProperties
    <3>3. DOMAIN up'[c] = 1..2
      BY <3>2, LenProperties
    <3> QED BY <3>2, <3>3
  <2>3. Asked(c)'
    BY <1>4, <2>2 DEF Asked
  <2>4. Asked(conn[s])'
    BY <1>1, <1>2, <2>3 DEF Asked
  <2> QED BY <1>2, <1>3, <1>4, <2>2, <2>4
<1> QED BY <1>5, <1>6

\* A server that has asked for the list has not been answered yet.
LEMMA OnServerReadyCopies ==
  ASSUME Typed, LinkInv, CopyInv, NEW s \in Servers, OnServerReady(s)
  PROVE  CopyInv'
<1>1. /\ UNCHANGED <<server, isOpen, down, clientList, serverList, iscid, task, identified,
                     conn, myIscid, list>>
      /\ state' = [state EXCEPT ![s] = "up"] /\ state[s] = "connected"
  BY DEF OnServerReady, hubVars
<1>2. PICK c \in Conns : c = conn[s]
  BY <1>1, RunsLinked
<1>3. /\ \A i \in DOMAIN up'[c] : up'[c][i].cmd # "UPDATEUSERCNT"
      /\ \A d \in Conns : d # c => up'[d] = up[d]
      /\ Type[s] # 3 => Asked(conn[s])'
  BY <1>2, ReadyPackets
<1>4. state'[s] = "up" /\ \A t \in Servers : t # s => state'[t] = state[t]
  BY <1>1 DEF Typed, ServersTyped
<1>5. \A t \in Servers : t # s /\ state[t] # "down" => conn[t] # c /\ conn[t] \in Conns
  BY <1>1, <1>2, ConnsApart
<1>6. OpenWhileUp'
  BY <1>1, <1>4 DEF CopyInv, OpenWhileUp, Fresh
<1>7. ListedWhileUp'
  <2> SUFFICES ASSUME NEW t \in Servers, state'[t] = "up", Type[t] # 3, ~Asked(conn[t])'
               PROVE  conn[t] \in clientList
    BY <1>1 DEF ListedWhileUp
  <2>1. t # s
    BY <1>3
  <2>2. state[t] = "up" /\ up'[conn[t]] = up[conn[t]]
    BY <1>3, <1>4, <1>5, <2>1
  <2>3. ~Asked(conn[t])
    BY <1>1, <2>2 DEF Asked
  <2> QED BY <2>2, <2>3 DEF CopyInv, ListedWhileUp
<1>8. CountsOwn'
  BY <1>1, <1>3 DEF CopyInv, CountsOwn, OwnNumber
<1>9. NumberKnown'
  BY <1>1, <1>4 DEF CopyInv, NumberKnown, OwnNumber
<1>10. TaskFits'
  BY <1>1 DEF CopyInv, TaskFits, OwnNumber
<1>11. CopyShows(s)'
  <2>1. CopyShows(s)
    BY <1>1, RunsLinked
  <2>2. ~Answered(s)'
    BY <1>3 DEF Answered
  <2> QED BY <1>1, <2>1, <2>2, CopyKept
<1>12. ASSUME NEW t \in Servers, t # s, state'[t] # "down" PROVE CopyShows(t)'
  BY <1>1, <1>3, <1>4, <1>5, <1>12, OthersKept
<1> QED BY <1>6, <1>7, <1>8, <1>9, <1>10, <1>11, <1>12 DEF CopyInv

\* Who dies has no copy any more.
LEMMA DieCopies ==
  ASSUME Typed, LinkInv, CopyInv, NEW s \in Servers, Die(s)
  PROVE  CopyInv'
<1>1. /\ UNCHANGED <<server, clientList, serverList, iscid, task, identified>>
      /\ state' = [state EXCEPT ![s] = "down"] /\ state[s] # "down"
      /\ isOpen' = [isOpen EXCEPT ![conn[s]] = FALSE]
      /\ down' = [down EXCEPT ![conn[s]] = <<>>]
      /\ up' = up \/ up' = [up EXCEPT ![conn[s]] = <<>>]
      /\ conn' = [conn EXCEPT ![s] = 0] /\ myIscid' = [myIscid EXCEPT ![s] = 99]
      /\ list' = [list EXCEPT ![s] = <<>>]
  BY DEF Die, hubVars
<1>2. PICK c \in Conns : c = conn[s] /\ server[c] = s
  BY <1>1, RunsLinked
<1>3. /\ state'[s] = "down" /\ myIscid'[s] = 99
      /\ \A t \in Servers : t # s => state'[t] = state[t] /\ conn'[t] = conn[t]
                                     /\ myIscid'[t] = myIscid[t] /\ list'[t] = list[t]
  <2>1. list'[s] = list'[s] /\ \A t \in Servers : t # s => list'[t] = list[t]
    BY <1>1
  <2> QED BY <1>1, <2>1 DEF Typed, ServersTyped
<1>4. /\ down'[c] = <<>> /\ (up'[c] = up[c] \/ up'[c] = <<>>) /\ ~isOpen'[c]
      /\ \A d \in Conns : d # c => up'[d] = up[d] /\ down'[d] = down[d] /\ isOpen'[d] = isOpen[d]
  BY <1>1, <1>2 DEF Typed, HubTyped
<1>5. \A t \in Servers : t # s /\ state[t] # "down" => conn[t] # c /\ conn[t] \in Conns
  BY <1>1, <1>2, ConnsApart
<1>6. OpenWhileUp'
  <2>1. Fresh' = Fresh /\ Fresh \subseteq Conns
    BY <1>1 DEF Fresh
  <2> QED BY <1>3, <1>4, <1>5, <2>1 DEF CopyInv, OpenWhileUp
<1>7. ListedWhileUp'
  <2> SUFFICES ASSUME NEW t \in Servers, state'[t] = "up", Type[t] # 3,
                      ~\E i \in DOMAIN up'[conn'[t]] : up'[conn'[t]][i].cmd = "SERVERLIST"
               PROVE  conn'[t] \in clientList
    BY <1>1 DEF ListedWhileUp, Asked
  <2>1. t # s
    BY <1>3
  <2>2. state[t] = "up" /\ conn'[t] = conn[t] /\ up'[conn[t]] = up[conn[t]]
    BY <1>3, <1>4, <1>5, <2>1
  <2>3. ~Asked(conn[t])
    BY <2>2 DEF Asked
  <2> QED BY <2>2, <2>3 DEF CopyInv, ListedWhileUp
<1>8. CountsOwn'
  <2>1. \A d \in Conns : up'[d] = up[d] \/ up'[d] = <<>>
    BY <1>4
  <2> QED BY <1>1, <2>1 DEF CopyInv, CountsOwn, OwnNumber
<1>9. NumberKnown'
  <2>1. \A d \in Conns : down'[d] = down[d] \/ down'[d] = <<>>
    BY <1>4
  <2>2. \A d \in Conns : \A i \in DOMAIN down'[d] : down'[d][i].cmd = "SETISCID" =>
          OwnNumber(d, down'[d][i].iscid)
    BY <2>1 DEF CopyInv, NumberKnown
  <2>3. \A t \in Servers : IF state'[t] = "down" THEN myIscid'[t] = 99
                            ELSE OwnNumber(conn'[t], myIscid'[t])
    BY <1>3 DEF CopyInv, NumberKnown
  <2> QED BY <1>1, <2>2, <2>3 DEF NumberKnown, OwnNumber
<1>10. TaskFits'
  BY <1>1 DEF CopyInv, TaskFits, OwnNumber
<1>11. ASSUME NEW t \in Servers, state'[t] # "down" PROVE CopyShows(t)'
  <2>1. t # s /\ state[t] # "down"
    BY <1>3, <1>11
  <2> QED BY <1>1, <1>3, <1>4, <1>5, <2>1, OthersKept
<1> QED BY <1>6, <1>7, <1>8, <1>9, <1>10, <1>11 DEF CopyInv

\* A login is counted under the number that the server believes to be its own.
LEMMA UserLoginCopies ==
  ASSUME Typed, LinkInv, CopyInv, NEW s \in Servers, UserLogin(s)
  PROVE  CopyInv'
<1> DEFINE m == [cmd |-> "UPDATEUSERCNT", iscid |-> myIscid[s], users |-> users[s] + 1]
<1>1. /\ UNCHANGED <<server, isOpen, down, clientList, serverList, iscid, task, identified,
                     state, conn, myIscid, list>>
      /\ up' = [up EXCEPT ![conn[s]] = Append(up[conn[s]], m)]
      /\ state[s] = "up" /\ Type[s] = 2
  BY DEF UserLogin, hubVars
<1>2. PICK c \in Conns : c = conn[s] /\ server[c] = s
  BY <1>1, RunsLinked
<1>3. m \in ToHub /\ m.cmd = "UPDATEUSERCNT" /\ OwnNumber(c, m.iscid)
  <2>1. users[s] + 1 \in 0..MaxLogins /\ myIscid[s] \in Iscids
    BY UsersNat DEF UserLogin, Typed, ServersTyped
  <2>2. OwnNumber(conn[s], myIscid[s])
    BY <1>1 DEF CopyInv, NumberKnown
  <2> QED BY <1>2, <2>1, <2>2 DEF ToHub, UserCount
<1> HIDE DEF m
<1>4. PICK q \in Seq(ToHub) : q = up[c] /\ up'[c] = Append(q, m)
                              /\ \A d \in Conns : d # c => up'[d] = up[d]
  BY <1>1, <1>2 DEF Typed, HubTyped
<1>5. /\ Len(q) \in Nat /\ DOMAIN q = 1..Len(q) /\ DOMAIN up'[c] = 1..(Len(q) + 1)
      /\ \A j \in 1..Len(q) : up'[c][j] = q[j]
      /\ up'[c][Len(q) + 1] = m
  BY <1>3, <1>4, AppendProperties, LenProperties
<1>6. \A d \in Conns : \A i \in DOMAIN up'[d] :
        (\E j \in DOMAIN up[d] : up'[d][i] = up[d][j]) \/ (d = c /\ up'[d][i] = m)
  <2>1. \A i \in DOMAIN up'[c] : (\E j \in DOMAIN up[c] : up'[c][i] = up[c][j]) \/ up'[c][i] = m
    BY <1>4, <1>5
  <2>2. \A d \in Conns : d # c => \A i \in DOMAIN up'[d] : \E j \in DOMAIN up[d] : up'[d][i] = up[d][j]
    BY <1>4
  <2> QED BY <2>1, <2>2
<1>7. \A d \in Conns : Asked(d) => Asked(d)'
  <2>1. Asked(c) => Asked(c)'
    BY <1>4, <1>5 DEF Asked
  <2>2. \A d \in Conns : d # c => (Asked(d) => Asked(d)')
    BY <1>4 DEF Asked
  <2> QED BY <2>1, <2>2
<1>8. OpenWhileUp'
  BY <1>1 DEF CopyInv, OpenWhileUp, Fresh
<1>9. ASSUME NEW t \in Servers, state[t] # "down", ~Asked(conn[t])' PROVE ~Asked(conn[t])
  <2>1. PICK d \in Conns : d = conn[t]
    BY <1>9, RunsLinked
  <2>2. ~Asked(d)'
    BY <1>1, <1>9, <2>1 DEF Asked
  <2> QED BY <1>7, <2>1, <2>2
<1>10. ListedWhileUp'
  BY <1>1, <1>9 DEF CopyInv, ListedWhileUp
<1>11. CountsOwn'
  <2> SUFFICES ASSUME NEW d \in Conns, NEW i \in DOMAIN up'[d], up'[d][i].cmd = "UPDATEUSERCNT"
               PROVE  Type[server[d]] = 2 /\ OwnNumber(d, up'[d][i].iscid)
    BY <1>1 DEF CountsOwn, OwnNumber
  <2>1. CASE d = c /\ up'[d][i] = m
    BY <1>1, <1>2, <1>3, <2>1
  <2>2. CASE \E j \in DOMAIN up[d] : up'[d][i] = up[d][j]
    BY <2>2 DEF CopyInv, CountsOwn
  <2> QED BY <1>6, <2>1, <2>2
<1>12. NumberKnown'
  BY <1>1 DEF CopyInv, NumberKnown, OwnNumber
<1>13. TaskFits'
  BY <1>1 DEF CopyInv, TaskFits, OwnNumber
<1>14. ASSUME NEW t \in Servers, state'[t] # "down" PROVE CopyShows(t)'
  <2>1. CopyShows(t) /\ state[t] # "down"
    BY <1>1, <1>14, RunsLinked
  <2>2. Answered(t)' => ~Asked(conn[t])' /\ state[t] = "up" /\ Type[t] # 3 /\ ~Replying(conn[t])
    BY <1>1 DEF Answered, Replying
  <2>3. Answered(t)' => Answered(t)
    BY <1>9, <2>1, <2>2 DEF Answered
  <2> QED BY <1>1, <2>1, <2>3, CopyKept
<1> QED BY <1>8, <1>10, <1>11, <1>12, <1>13, <1>14 DEF CopyInv

\* A packet that is handled is one less to come.
LEMMA ReceivedISCPacketCopies ==
  ASSUME Typed, LinkInv, CopyInv, ListTyped, NEW s \in Servers, ReceivedISCPacket(s)
  PROVE  CopyInv'
<1>1. PICK c \in Conns : c = conn[s] /\ down[c] \in Seq(ToServer) /\ CopyShows(s)
  BY RunsLinked DEF ReceivedISCPacket
<1>2. PICK m : m = Head(down[c])
  OBVIOUS
<1>3. /\ UNCHANGED <<server, isOpen, up, clientList, serverList, iscid, task, identified, state, conn>>
      /\ list' = [list EXCEPT ![s] = AfterPacket(s, list[s], m)]
      /\ myIscid' = [myIscid EXCEPT ![s] = IF m.cmd = "SETISCID" THEN m.iscid ELSE @]
      /\ down' = [down EXCEPT ![c] = Tail(down[c])]
      /\ state[s] = "up" /\ down[c] # <<>>
  BY <1>1, <1>2 DEF ReceivedISCPacket, hubVars
<1>4. /\ down'[c] = Tail(down[c])
      /\ \A d \in Conns : d # c => down'[d] = down[d]
      /\ myIscid'[s] = IF m.cmd = "SETISCID" THEN m.iscid ELSE myIscid[s]
      /\ \A t \in Servers : t # s => myIscid'[t] = myIscid[t] /\ list'[t] = list[t]
  BY <1>3 DEF Typed, HubTyped, ServersTyped
<1>5. \A t \in Servers : t # s /\ state[t] # "down" => conn[t] # c /\ conn[t] \in Conns
  BY <1>1, <1>3, ConnsApart
<1>6. /\ \E j \in DOMAIN down[c] : down[c][j] = m
      /\ \A i \in DOMAIN down'[c] : \E j \in DOMAIN down[c] : down'[c][i] = down[c][j]
  <2>1. PICK n \in Nat : n = Len(down[c]) /\ n # 0 /\ DOMAIN down[c] = 1..n
    BY <1>1, <1>3, LenProperties, EmptySeq
  <2>2. /\ Tail(down[c]) \in Seq(ToServer) /\ Len(Tail(down[c])) = Len(down[c]) - 1
        /\ \A i \in 1..Len(Tail(down[c])) : Tail(down[c])[i] = down[c][i + 1]
        /\ Head(down[c]) = down[c][1]
    BY <1>1, <1>3, HeadTailProperties
  <2>3. DOMAIN Tail(down[c]) = 1..(n - 1)
    BY <2>1, <2>2, LenProperties
  <2>4. 1 \in 1..n /\ \A i \in 1..(n - 1) : i + 1 \in 1..n
    BY <2>1
  <2> QED BY <1>2, <1>4, <2>1, <2>2, <2>3, <2>4
<1>7. OpenWhileUp'
  <2>1. state[s] # "down" /\ server[c] = s
    BY <1>1, <1>3, RunsLinked
  <2>2. Fresh' = Fresh /\ Fresh \subseteq Conns /\ c \notin Fresh
    BY <1>3, <2>1, NobodyIsNoServer DEF Fresh
  <2> QED BY <1>3, <1>4, <2>2 DEF CopyInv, OpenWhileUp
<1>8. ListedWhileUp' /\ CountsOwn' /\ TaskFits'
  BY <1>3 DEF CopyInv, ListedWhileUp, CountsOwn, TaskFits, Asked, OwnNumber
<1>9. NumberKnown'
  <2>1. m.cmd = "SETISCID" => OwnNumber(c, m.iscid)
    BY <1>6 DEF CopyInv, NumberKnown
  <2>2. \A t \in Servers : IF state[t] = "down" THEN myIscid'[t] = 99
                            ELSE OwnNumber(conn[t], myIscid'[t])
    BY <1>1, <1>3, <1>4, <2>1 DEF CopyInv, NumberKnown
  <2>3. ASSUME NEW d \in Conns, NEW i \in DOMAIN down'[d], down'[d][i].cmd = "SETISCID"
        PROVE  OwnNumber(d, down'[d][i].iscid)
    <3>1. PICK j \in DOMAIN down[d] : down'[d][i] = down[d][j]
      <4>1. CASE d = c
        BY <1>6, <4>1
      <4>2. CASE d # c
        BY <1>4, <4>2
      <4> QED BY <4>1, <4>2
    <3> QED BY <2>3, <3>1 DEF CopyInv, NumberKnown
  <2> QED BY <1>3, <2>2, <2>3 DEF NumberKnown, OwnNumber
<1>10. CopyShows(s)'
  <2>1. PICK e : /\ Arrives(s, list[s], down[c], e)
                 /\ Answered(s) => \A w \in Workers : Shows(s, Pend(s, e, task[w]), serverList)
    BY <1>1 DEF CopyShows
  <2>2. Arrives(s, AfterPacket(s, list[s], m), Tail(down[c]), e)
    BY <1>1, <1>2, <1>3, <2>1, ArrivesTail
  <2>3. list'[s] = AfterPacket(s, list[s], m)
    BY <1>3 DEF ListTyped
  <2>4. Arrives(s, list'[s], down'[conn'[s]], e)
    BY <1>1, <1>3, <1>4, <2>2, <2>3
  <2>5. Answered(s)' => Answered(s)
    BY <1>3 DEF Answered, Asked, Replying
  <2>6. Answered(s)' => \A w \in Workers : Shows(s, Pend(s, e, task'[w]), serverList')
    BY <1>3, <2>1, <2>5
  <2> QED BY <2>4, <2>6 DEF CopyShows
<1>11. ASSUME NEW t \in Servers, t # s, state'[t] # "down" PROVE CopyShows(t)'
  BY <1>3, <1>4, <1>5, <1>11, OthersKept
<1> QED BY <1>7, <1>8, <1>9, <1>10, <1>11 DEF CopyInv

-----------------------------------------------------------------------------
(* The copies agree                                                          *)

\* With one worker every step keeps the copies on their way to the hub's list.
LEMMA NextCopies ==
  ASSUME OneWorker
  PROVE  Typed /\ ListTyped /\ Numbering /\ UnsetUnused /\ LinkInv /\ CopyInv /\ [Next]_vars
           => CopyInv'
<1> SUFFICES ASSUME Typed, ListTyped, Numbering, UnsetUnused, LinkInv, CopyInv, [Next]_vars
             PROVE  CopyInv'
  OBVIOUS
<1>1. PICK w : Workers = {w}
  BY DEF OneWorker
<1>2. CASE HubNext /\ UNCHANGED serverVars
  <2>1. CASE AcceptClient
    BY <2>1, <1>2, AcceptClientCopies
  <2>2. CASE Continues(w)
    <3>1. CASE EraseServer(w)
      BY <3>1, <1>1, <1>2, EraseServerCopies
    <3>2. CASE PushServer(w)
      BY <3>2, <1>1, <1>2, PushServerCopies
    <3>3. CASE NotifyRemaining(w)
      BY <3>3, <1>1, <1>2, NotifyRemainingCopies
    <3>4. CASE ForwardPacket(w)
      BY <3>4, <1>1, <1>2, ForwardPacketCopies
    <3>5. CASE SendList(w)
      BY <3>5, <1>1, <1>2, SendListCopies
    <3> QED BY <2>2, <3>1, <3>2, <3>3, <3>4, <3>5 DEF Continues
  <2>3. ASSUME NEW c \in Conns, TurnsTo(w, c) PROVE CopyInv'
    <3>1. CASE DisconnectClient(w, c)
      BY <3>1, <1>1, <1>2, DisconnectClientCopies
    <3>2. CASE ReceiveIdentify(w, c)
      BY <3>2, <1>1, <1>2, ReceiveIdentifyCopies
    <3>3. CASE ReceiveUserCount(w, c)
      BY <3>3, <1>1, <1>2, ReceiveUserCountCopies
    <3>4. CASE ReceiveListRequest(w, c)
      BY <3>4, <1>1, <1>2, ReceiveListRequestCopies
    <3> QED BY <2>3, <3>1, <3>2, <3>3, <3>4 DEF TurnsTo, ReceivesPacket
  <2> QED BY <1>1, <1>2, <2>1, <2>2, <2>3 DEF HubNext, WorkerStep
<1>3. ASSUME NEW s \in Servers, ServerStep(s) PROVE CopyInv'
  BY <1>3, ConnectCopies, OnServerReadyCopies, DieCopies, UserLoginCopies,
     ReceivedISCPacketCopies DEF ServerStep
<1>4. CASE UNCHANGED vars
  <2>1. UNCHANGED <<netVars, clientList, serverList, iscid, task, identified, serverVars>>
    BY <1>4 DEF vars, hubVars
  <2>2. TaskFits'
    BY <2>1 DEF CopyInv, TaskFits, OwnNumber, netVars
  <2>3. \A c : Replying(c) => Replying(c)'
    BY <2>1 DEF Replying
  <2> QED BY <2>1, <2>2, <2>3, QuietCopies
<1> QED BY <1>2, <1>3, <1>4 DEF Next

\* Between two handlers nothing is about to be sent, so that who has been sent the list
\* arrives at it.
LEMMA ArrivingAgrees ==
  ASSUME OneWorker
  PROVE  Typed /\ Numbering /\ LinkInv /\ CopyInv => CopiesAgree
<1> SUFFICES ASSUME Typed, Numbering, LinkInv, CopyInv, HubIdle, NEW s \in Servers, ListAnswered(s)
             PROVE  Seen(Replay(s, list[s], down[conn[s]])) = Seen(Kept(s, serverList))
  BY DEF CopiesAgree
<1>1. PICK w : w \in Workers /\ task[w] = Idle
  BY DEF OneWorker, HubIdle
<1>2. Idle.at = "idle"
  BY DEF Idle
<1>3. ~Replying(conn[s]) /\ ~Asked(conn[s])
  BY <1>2 DEF HubIdle, Replying, Asked, ListAnswered
<1>4. Answered(s) /\ state[s] # "down"
  BY <1>3 DEF Answered, ListAnswered
<1>5. down[conn[s]] \in Seq(ToServer) /\ CopyShows(s)
  BY <1>4, RunsLinked
<1>6. PICK end : /\ Arrives(s, list[s], down[conn[s]], end)
                 /\ Answered(s) => \A k \in Workers : Shows(s, Pend(s, end, task[k]), serverList)
  BY <1>5 DEF CopyShows
<1>7. Pend(s, end, task[w]) = end
  BY <1>1, <1>2 DEF Pend
<1>8. Shows(s, end, serverList)
  BY <1>1, <1>4, <1>6, <1>7
<1>9. Replay(s, list[s], down[conn[s]]) = end
  BY <1>5, <1>6, ArrivesReplay
<1>10. Shows(s, Kept(s, serverList), serverList)
  <2>1. serverList \in Seq(Recs) /\ Increasing(serverList)
    BY DEF Typed, HubTyped, Numbering, NumbersUnique, Increasing
  <2> QED BY <2>1, KeptShows
<1> QED BY <1>8, <1>9, <1>10, SameSeen

\* Whatever servers start, die and come back, a login or char server that has been sent
\* the list of a hub with one worker and works off the packets it was sent since then
\* arrives at the hub's list of the servers it keeps: the same servers, in the same order,
\* with the same user counts.  The numbers must fit into a word, and none in the list
\* may be the one of a connection that never identified itself, or 99, the one under
\* which a char server counts its users until it is told its own.
THEOREM CopiesAreRight ==
  OneWorker => (Spec /\ []NoWrap /\ []GarbageUnused /\ []UnsetUnused => []CopiesAgree)
<1> SUFFICES ASSUME OneWorker
             PROVE  Spec /\ []NoWrap /\ []GarbageUnused /\ []UnsetUnused => []CopiesAgree
  OBVIOUS
<1>1. Typed /\ Numbering /\ NoWrap /\ [Next]_vars => Numbering'
  BY NextNumbers
<1>2. Typed /\ Numbering /\ GarbageUnused /\ LinkInv /\ [Next]_vars => LinkInv'
  BY NextLinks
<1>3. Typed /\ ListTyped /\ Numbering /\ UnsetUnused /\ LinkInv /\ CopyInv /\ [Next]_vars => CopyInv'
  BY NextCopies
<1>4. Typed /\ Numbering /\ LinkInv /\ CopyInv => CopiesAgree
  BY ArrivingAgrees
<1>5. Init => ListTyped
  BY InitApart
<1> QED BY <1>1, <1>2, <1>3, <1>4, <1>5, InitNumbers, LinkInit, CopyInit, AlwaysTyped,
           NextListTyped, PTL DEF Spec
=============================================================================
