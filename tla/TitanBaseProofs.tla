--------------------------- MODULE TitanBaseProofs ---------------------------
(***************************************************************************)
(* What TitanBase promises the servers that are built on it, whatever their *)
(* size: the pool of worker threads keeps its counts and numbers and uses   *)
(* nothing that is gone, as long as one connection or one worker is dealt   *)
(* with at a time (Overlaps = {}); the buffered file returns what the file  *)
(* has at the place where one reads; a file that is open is taken for what  *)
(* it is, by whoever calls it and by the configuration reader; a packet's   *)
(* fields are read as they were written, and never behind its end; a table  *)
(* of the game's data has the rows of its file, and finds them; and a       *)
(* configuration says to whoever asks what is written in it.                *)
(***************************************************************************)
EXTENDS ClientPool, BufferedFile, IniReader, PacketFields, Shn, SequenceTheorems, FiniteSetTheorems,
        WellFoundedInduction, TLAPS

(* Sets of numbers, and vectors                                             *)

\* A set of numbers that is not empty has a least one.
LEMMA MinIsThere ==
  ASSUME NEW S, S \subseteq Nat, S # {}
  PROVE  Min(S) \in S /\ \A n \in S : Min(S) <= n
<1>1. PICK m \in S : \A n \in S : <<n, m>> \notin OpToRel(<, Nat)
  BY NatLessThanWellFounded, WFMin
<1>2. \A n \in S : ~(n < m)
  BY <1>1 DEF OpToRel
<1>3. \A n \in S : m <= n
  BY <1>2
<1> QED BY <1>3 DEF Min

\* RemoveAt: one element less, those behind it move up.
LEMMA RemoveAtProperties ==
  ASSUME NEW S, NEW lst \in Seq(S), NEW i \in 1..Len(lst)
  PROVE  /\ RemoveAt(lst, i) \in Seq(S)
         /\ Len(RemoveAt(lst, i)) = Len(lst) - 1
         /\ \A j \in 1..(Len(lst) - 1) :
              RemoveAt(lst, i)[j] = IF j < i THEN lst[j] ELSE lst[j + 1]
<1> DEFINE front == SubSeq(lst, 1, i - 1)
           back == SubSeq(lst, i + 1, Len(lst))
<1>1. Len(lst) \in Nat /\ \A j \in 1..Len(lst) : lst[j] \in S
  BY LenProperties, ElementOfSeq
<1>2. /\ front \in Seq(S)
      /\ Len(front) = i - 1
      /\ \A j \in 1..(i - 1) : front[j] = lst[j]
  <2>1. \A j \in 1..(i - 1) : lst[j] \in S
    BY <1>1
  <2>2. QED BY <2>1, SubSeqProperties
<1>3. /\ back \in Seq(S)
      /\ Len(back) = Len(lst) - i
      /\ \A j \in 1..(Len(lst) - i) : back[j] = lst[j + i]
  <2>1. \A j \in (i + 1)..Len(lst) : lst[j] \in S
    BY <1>1
  <2>2. QED BY <1>1, <2>1, SubSeqProperties
<1> HIDE DEF front, back
<1>4. RemoveAt(lst, i) = front \o back
  BY DEF RemoveAt, front, back
<1>5. /\ front \o back \in Seq(S)
      /\ Len(front \o back) = Len(front) + Len(back)
      /\ \A j \in 1..(Len(front) + Len(back)) :
           (front \o back)[j] = IF j <= Len(front) THEN front[j] ELSE back[j - Len(front)]
  BY <1>2, <1>3, ConcatProperties
<1>6. ASSUME NEW j \in 1..(Len(lst) - 1)
      PROVE  (front \o back)[j] = IF j < i THEN lst[j] ELSE lst[j + 1]
  <2>1. (front \o back)[j] = IF j <= i - 1 THEN front[j] ELSE back[j - (i - 1)]
    BY <1>1, <1>2, <1>3, <1>5
  <2>2. CASE j < i
    BY <1>1, <1>2, <2>1, <2>2
  <2>3. CASE ~(j < i)
    <3>1. j - (i - 1) \in 1..(Len(lst) - i)
      BY <1>1, <2>3
    <3>2. back[j - (i - 1)] = lst[(j - (i - 1)) + i] /\ (j - (i - 1)) + i = j + 1
      BY <1>1, <1>3, <3>1
    <3>3. QED BY <1>1, <2>1, <2>3, <3>2
  <2>4. QED BY <2>2, <2>3
<1>7. Len(front) + Len(back) = Len(lst) - 1
  BY <1>1, <1>2, <1>3
<1>8. QED BY <1>4, <1>5, <1>6, <1>7


\* push_back: one more.
LEMMA AppendedTo ==
  ASSUME NEW S, NEW s \in Seq(S), NEW e \in S
  PROVE  /\ Append(s, e) \in Seq(S) /\ Len(s) \in Nat /\ DOMAIN s = 1..Len(s)
         /\ Len(Append(s, e)) = Len(s) + 1 /\ DOMAIN Append(s, e) = 1..(Len(s) + 1)
         /\ \A i \in 1..Len(s) : Append(s, e)[i] = s[i]
         /\ Append(s, e)[Len(s) + 1] = e
         /\ Range(Append(s, e)) = Range(s) \cup {e}
<1> DEFINE t == Append(s, e)
           n == Len(s)
<1>1. /\ t \in Seq(S) /\ Len(t) = n + 1 /\ t[n + 1] = e
      /\ \A i \in 1..n : t[i] = s[i]
      /\ n \in Nat /\ DOMAIN s = 1..n
  BY AppendProperties, LenProperties
<1>2. DOMAIN t = 1..(n + 1)
  BY <1>1, LenProperties
<1> HIDE DEF t, n
<1>3. \A i \in 1..(n + 1) : i = n + 1 \/ i \in 1..n
  BY <1>1
<1>4. \A i \in 1..n : i \in 1..(n + 1)
  BY <1>1
<1>5. n + 1 \in 1..(n + 1)
  BY <1>1
<1>6. Range(t) = Range(s) \cup {e}
  BY <1>1, <1>2, <1>3, <1>4, <1>5 DEF Range
<1> QED BY <1>1, <1>2, <1>6 DEF t, n

\* A vector in which nothing is twice, after an element has been erased: the others
\* are in it, once each.
LEMMA ErasedProperties ==
  ASSUME NEW S, NEW s \in Seq(S), NEW x,
         \A i, j \in DOMAIN s : s[i] = s[j] => i = j
  PROVE  /\ Erased(s, x) \in Seq(S)
         /\ Range(Erased(s, x)) = Range(s) \ {x}
         /\ \A i, j \in DOMAIN Erased(s, x) : Erased(s, x)[i] = Erased(s, x)[j] => i = j
<1>1. CASE x \notin Range(s)
  BY <1>1 DEF Erased
<1>2. CASE x \in Range(s)
  <2> DEFINE n == Len(s)
             t == Erased(s, x)
  <2>1. n \in Nat /\ DOMAIN s = 1..n
    BY LenProperties
  <2>2. PICK k \in 1..n : s[k] = x
    BY <1>2, <2>1 DEF Range
  <2>3. {i \in DOMAIN s : s[i] = x} = {k}
    BY <2>1, <2>2
  <2>4. Min({k}) = k
    <3>1. {k} \subseteq Nat /\ {k} # {}
      BY <2>1
    <3> QED BY <3>1, MinIsThere
  <2>5. t = RemoveAt(s, k)
    BY <1>2, <2>3, <2>4 DEF Erased
  <2>6. /\ t \in Seq(S) /\ DOMAIN t = 1..(n - 1)
        /\ \A j \in 1..(n - 1) : t[j] = IF j < k THEN s[j] ELSE s[j + 1]
    <3>1. /\ RemoveAt(s, k) \in Seq(S) /\ Len(RemoveAt(s, k)) = n - 1
          /\ \A j \in 1..(n - 1) : RemoveAt(s, k)[j] = IF j < k THEN s[j] ELSE s[j + 1]
      BY RemoveAtProperties
    <3>2. DOMAIN RemoveAt(s, k) = 1..(n - 1)
      BY <3>1, LenProperties
    <3> QED BY <2>5, <3>1, <3>2
  <2> HIDE DEF t, n
  <2>7. ASSUME NEW j \in 1..(n - 1)
        PROVE  \E i \in 1..n : i # k /\ t[j] = s[i] /\ i = (IF j < k THEN j ELSE j + 1)
    BY <2>1, <2>2, <2>6
  <2>8. ASSUME NEW i \in 1..n, i # k PROVE \E j \in 1..(n - 1) : t[j] = s[i]
    <3>1. CASE i < k
      <4>1. i \in 1..(n - 1)
        BY <3>1, <2>1, <2>2
      <4> QED BY <4>1, <3>1, <2>6
    <3>2. CASE ~(i < k)
      <4>1. i - 1 \in 1..(n - 1) /\ ~(i - 1 < k) /\ (i - 1) + 1 = i
        BY <3>2, <2>8, <2>1, <2>2
      <4>2. t[i - 1] = s[i]
        BY <4>1, <2>6
      <4> QED BY <4>1, <4>2
    <3> QED BY <3>1, <3>2
  <2>9. Range(t) \subseteq Range(s) \ {x}
    <3> SUFFICES ASSUME NEW j \in 1..(n - 1) PROVE t[j] \in Range(s) /\ t[j] # x
      BY <2>6 DEF Range
    <3>1. PICK i \in 1..n : i # k /\ t[j] = s[i]
      BY <2>7
    <3>2. s[i] # x
      BY <3>1, <2>1, <2>2
    <3> QED BY <3>1, <3>2, <2>1 DEF Range
  <2>10. Range(s) \ {x} \subseteq Range(t)
    <3> SUFFICES ASSUME NEW i \in 1..n, s[i] # x PROVE s[i] \in Range(t)
      BY <2>1 DEF Range
    <3>1. PICK j \in 1..(n - 1) : t[j] = s[i]
      BY <2>2, <2>8
    <3> QED BY <3>1, <2>6 DEF Range
  <2>11. ASSUME NEW i \in 1..(n - 1), NEW j \in 1..(n - 1), t[i] = t[j]
         PROVE  i = j
    <3>1. PICK p \in 1..n : t[i] = s[p] /\ p = (IF i < k THEN i ELSE i + 1)
      BY <2>7
    <3>2. PICK q \in 1..n : t[j] = s[q] /\ q = (IF j < k THEN j ELSE j + 1)
      BY <2>7
    <3>3. p = q
      BY <3>1, <3>2, <2>1, <2>11
    <3> QED BY <3>1, <3>2, <3>3, <2>1, <2>2
  <2> QED BY <2>6, <2>9, <2>10, <2>11 DEF t
<1> QED BY <1>1, <1>2
-----------------------------------------------------------------------------
(* The pool: what is true at every moment                                    *)

Workings == [at : {"off", "poll", "end"}]
              \cup [at : {"loop"}, fds : SUBSET Clients, i : Nat]
              \cup [at : {"erase", "pick"}, fds : SUBSET Clients, i : Nat, client : Clients]
              \cup [at : {"settle"}, fds : SUBSET Clients, i : Nat, client : Clients,
                    other : Clients \cup {None}]
Acceptings == [at : {"accept"}]
                \cup [at : {"take"}, client : Clients, thread : ThreadObjs \cup {None}]
                \cup [at : {"count", "publish", "start"}, client : Clients,
                      thread : ThreadObjs, fresh : BOOLEAN, count : Nat]

PoolTypes == /\ ClientThreads \in Seq(ThreadObjs) /\ ClientList \in Seq(Clients)
             /\ Id \in [ThreadObjs -> Nat] /\ ClientCount \in [ThreadObjs -> Nat]
             /\ ThreadID \in [Clients -> Nat]
             /\ accepted \in 0..MaxClients /\ created \in 0..MaxThreads
             /\ acceptor \in Acceptings /\ worker \in [ThreadObjs -> Workings]

\* The threads that have a number: with the one that ServerLoop has made and not
\* entered yet.
Fresh == acceptor.at \in {"count", "publish", "start"} /\ acceptor.fresh
Pool == IF Fresh THEN Append(ClientThreads, acceptor.thread) ELSE ClientThreads

\* The clients that are counted: with the one that is not in the list yet, and the
\* one that is not in it any more.
Entering == {c \in Clients : acceptor.at = "publish" /\ acceptor.client = c}
Left == {c \in Clients : \E t \in ThreadObjs :
                           worker[t].at \in {"pick", "settle"} /\ worker[t].client = c}
Counted == Range(ClientList) \cup Entering \cup Left
CountedOn(k) == {c \in Counted : ThreadID[c] = k}

\* One operation at a time.
Alone == /\ acceptor.at # "accept" => \A t \in ThreadObjs : ~InPass(t)
         /\ \A t, u \in ThreadObjs : InPass(t) /\ InPass(u) => t = u

\* A thread's number is its place, it has been made and not deleted; it counts the
\* clients that have its number, and each client has the number of one.
Placed == \A i \in DOMAIN Pool : /\ Id[Pool[i]] = i - 1
                                 /\ Pool[i] <= created /\ Pool[i] \notin deleted
Exact == \A i \in DOMAIN Pool : ClientCount[Pool[i]] = Cardinality(CountedOn(i - 1))
Homes == \A c \in Counted : c <= accepted /\ ThreadID[c] < Len(Pool)
EnteredOnce == \A i, j \in DOMAIN ClientList : ClientList[i] = ClientList[j] => i = j
Unused == /\ \A t \in ThreadObjs : t > created => ClientCount[t] = 0 /\ worker[t] = Off
          /\ deleted \subseteq 1..created

\* Where DisconnectClient and Start are.
PassFits(t) ==
  /\ worker[t].at = "erase" => worker[t].client \in Range(ClientList)
  /\ worker[t].at \in {"pick", "settle"} => worker[t].client \notin Range(ClientList)
  /\ worker[t].at = "settle" => worker[t].other \in Range(ClientList) \cup {None}
  /\ worker[t].at = "end" => Mine(t) = {}

\* Where ServerLoop is.
AcceptFits ==
  /\ acceptor.at \in {"take", "count", "publish"} =>
       acceptor.client = accepted /\ acceptor.client \notin Range(ClientList)
  /\ acceptor.at = "take" => \/ acceptor.thread = None /\ created < MaxThreads
                             \/ acceptor.thread \in Range(ClientThreads)
  /\ acceptor.at \in {"count", "publish", "start"} => acceptor.thread \in Range(Pool)
  /\ acceptor.at = "count" => acceptor.count = ClientCount[acceptor.thread]
  /\ acceptor.at = "start" => acceptor.fresh

PoolInv == /\ PoolTypes /\ Alone /\ Placed /\ Exact /\ Homes /\ EnteredOnce /\ Unused
           /\ (\A t \in ThreadObjs : PassFits(t)) /\ AcceptFits /\ ~crashed

\* What a thread remembers follows from where it is.
LEMMA WorkingCases ==
  ASSUME NEW k \in Workings
  PROVE  /\ k.at \in {"off", "poll", "end", "loop", "erase", "pick", "settle"}
         /\ k.at = "off" => k = Off
         /\ k.at = "loop" => k.fds \subseteq Clients /\ k.i \in Nat
         /\ k.at \in {"erase", "pick", "settle"} => k.fds \subseteq Clients /\ k.i \in Nat /\ k.client \in Clients
         /\ k.at = "settle" => k.other \in Clients \cup {None}
         /\ k.at = "erase" => [k EXCEPT !.at = "pick"] \in Workings
                              /\ [k EXCEPT !.at = "pick"].at = "pick"
                              /\ [k EXCEPT !.at = "pick"].client = k.client
BY DEF Workings, Off

LEMMA AcceptingCases ==
  ASSUME NEW a \in Acceptings
  PROVE  /\ a.at \in {"accept", "take", "count", "publish", "start"}
         /\ a.at = "accept" => a = Listening
         /\ a.at = "take" => a.client \in Clients /\ a.thread \in ThreadObjs \cup {None}
         /\ a.at \in {"count", "publish", "start"} =>
              /\ a.client \in Clients /\ a.thread \in ThreadObjs
              /\ a.fresh \in BOOLEAN /\ a.count \in Nat
BY DEF Acceptings, Listening

\* Counted clients are clients, so that there are finitely many on a thread.
LEMMA CountedFinite ==
  ASSUME PoolTypes
  PROVE  /\ Counted \subseteq Clients
         /\ \A k : IsFiniteSet(CountedOn(k)) /\ Cardinality(CountedOn(k)) \in Nat
<1>1. Range(ClientList) \subseteq Clients
  BY RangeOfSeq DEF PoolTypes
<1>2. Counted \subseteq Clients
  BY <1>1 DEF Counted, Entering, Left
<1>3. IsFiniteSet(Clients)
  BY BoundsNat, FS_Interval DEF Clients
<1>4. \A k : CountedOn(k) \subseteq Clients
  BY <1>2 DEF CountedOn
<1> QED BY <1>2, <1>3, <1>4, FS_Subset, FS_CardinalityType

\* The threads that have a number, and no two the same.
LEMMA PoolThreads ==
  ASSUME PoolTypes
  PROVE  /\ Pool \in Seq(ThreadObjs) /\ Len(Pool) \in Nat /\ DOMAIN Pool = 1..Len(Pool)
         /\ \A i \in 1..Len(Pool) : Pool[i] \in ThreadObjs
         /\ Placed => \A i, j \in DOMAIN Pool : Pool[i] = Pool[j] => i = j
<1>1. Pool \in Seq(ThreadObjs)
  <2>1. CASE Fresh
    <3>1. acceptor.thread \in ThreadObjs
      BY <2>1, AcceptingCases DEF PoolTypes, Fresh
    <3> QED BY <2>1, <3>1, AppendProperties DEF Pool, PoolTypes
  <2>2. CASE ~Fresh
    BY <2>2 DEF Pool, PoolTypes
  <2> QED BY <2>1, <2>2
<1>2. Len(Pool) \in Nat /\ DOMAIN Pool = 1..Len(Pool) /\ \A i \in 1..Len(Pool) : Pool[i] \in ThreadObjs
  BY <1>1, LenProperties, ElementOfSeq
<1>3. ASSUME Placed, NEW i \in DOMAIN Pool, NEW j \in DOMAIN Pool, Pool[i] = Pool[j]
      PROVE  i = j
  <2>1. i - 1 = j - 1
    BY <1>3 DEF Placed
  <2> QED BY <2>1, <1>2
<1> QED BY <1>1, <1>2, <1>3

\* Who is in a pass, is alone.
LEMMA PassAlone ==
  ASSUME PoolInv, NEW t \in ThreadObjs, InPass(t)
  PROVE  acceptor.at = "accept" /\ \A u \in ThreadObjs \ {t} : ~InPass(u)
BY DEF PoolInv, Alone

LEMMA PoolInit == Init => PoolInv
<1> SUFFICES ASSUME Init PROVE PoolInv
  OBVIOUS
<1>1. \A t \in ThreadObjs : worker[t] = Off /\ worker[t].at = "off" /\ ~InPass(t)
  BY DEF Init, Off, InPass
<1>2. acceptor.at = "accept" /\ acceptor \in Acceptings /\ Off \in Workings
  BY DEF Init, Listening, Acceptings, Workings, Off
<1>3. <<>> \in Seq(ThreadObjs) /\ <<>> \in Seq(Clients) /\ DOMAIN <<>> = {} /\ Range(<<>>) = {}
  BY EmptySeq DEF Range
<1>4. PoolTypes
  BY <1>2, <1>3, BoundsNat DEF Init, PoolTypes
<1>5. Pool = <<>> /\ Counted = {}
  BY <1>1, <1>2, <1>3 DEF Init, Pool, Fresh, Counted, Entering, Left
<1>6. Alone /\ Placed /\ Exact /\ Homes
  BY <1>1, <1>2, <1>3, <1>5 DEF Alone, Placed, Exact, Homes
<1>7. EnteredOnce /\ Unused
  BY <1>1, <1>3 DEF Init, EnteredOnce, Unused
<1>8. \A t \in ThreadObjs : PassFits(t)
  BY <1>1 DEF PassFits
<1>9. AcceptFits /\ ~crashed
  BY <1>2 DEF AcceptFits, Init
<1> QED BY <1>4, <1>6, <1>7, <1>8, <1>9 DEF PoolInv

\* Steps that count nobody and move nobody leave numbers and counts right.
LEMMA CountsKept ==
  ASSUME PoolInv, Counted' = Counted, Pool' = Pool,
         UNCHANGED <<Id, ClientCount, ThreadID, created, deleted>>,
         accepted' \in Nat, accepted' >= accepted
  PROVE  Placed' /\ Exact' /\ Homes'
<1>1. Placed'
  BY DEF PoolInv, Placed
<1>2. \A k : CountedOn(k)' = CountedOn(k)
  BY DEF CountedOn
<1>3. Exact'
  BY <1>2 DEF PoolInv, Exact
<1>4. Homes'
  <2>1. ASSUME NEW c \in Counted PROVE c <= accepted'
    <3>1. c \in Nat /\ accepted \in Nat /\ c <= accepted
      BY CountedFinite DEF PoolInv, PoolTypes, Clients, Homes
    <3> QED BY <3>1
  <2> QED BY <2>1 DEF PoolInv, Homes
<1> QED BY <1>1, <1>3, <1>4
-----------------------------------------------------------------------------
(* The pool: passes of the workers                                           *)

\* A pass goes on without a change to who is counted: what has to be seen is that
\* the worker is where it should be.
LEMMA PassGoesOn ==
  ASSUME PoolInv, acceptor.at = "accept", acceptor' = acceptor,
         NEW t \in ThreadObjs, worker[t] # Off, \A u \in ThreadObjs \ {t} : ~InPass(u),
         NEW k \in Workings, worker' = [worker EXCEPT ![t] = k],
         UNCHANGED <<ClientThreads, fields, accepted, created, deleted, crashed>>,
         ClientList' \in Seq(Clients), EnteredOnce',
         Counted' = Counted, PassFits(t)'
  PROVE  PoolInv'
<1>1. worker'[t] = k /\ \A u \in ThreadObjs \ {t} : worker'[u] = worker[u]
  BY DEF PoolInv, PoolTypes
<1>2. PoolTypes'
  BY DEF PoolInv, PoolTypes, fields
<1>3. Alone'
  <2>1. \A u \in ThreadObjs \ {t} : ~InPass(u)'
    BY <1>1 DEF InPass
  <2> QED BY <2>1 DEF Alone
<1>4. Pool' = Pool
  BY DEF Pool, Fresh
<1>5. Placed' /\ Exact' /\ Homes'
  BY <1>4, CountsKept DEF fields, PoolInv, PoolTypes
<1>6. Unused'
  <2>1. t <= created
    <3>1. t \in Nat /\ created \in Nat /\ ~(t > created)
      BY DEF PoolInv, PoolTypes, Unused, ThreadObjs
    <3> QED BY <3>1
  <2>2. ~(t > created)
    BY <2>1 DEF PoolInv, PoolTypes, ThreadObjs
  <2> QED BY <1>1, <2>2 DEF PoolInv, Unused, fields
<1>7. \A u \in ThreadObjs : PassFits(u)'
  <2>1. \A u \in ThreadObjs \ {t} : worker'[u].at \notin {"erase", "pick", "settle", "end"}
    BY <1>1 DEF InPass
  <2>2. \A u \in ThreadObjs \ {t} : PassFits(u)'
    BY <2>1 DEF PassFits
  <2> QED BY <2>2
<1>8. AcceptFits'
  BY DEF AcceptFits
<1> QED BY <1>2, <1>3, <1>5, <1>6, <1>7, <1>8 DEF PoolInv

\* A pass begins when there is none, and goes on while nobody is being accepted.
LEMMA PassBegins ==
  ASSUME Overlaps = {}, PoolInv, NEW t \in ThreadObjs,
         worker[t] = Polling, WorkerMayRun, PassMayStart(t)
  PROVE  /\ acceptor.at = "accept" /\ worker[t].at = "poll" /\ worker[t] # Off
         /\ \A u \in ThreadObjs : ~InPass(u)
<1>1. worker[t].at = "poll" /\ worker[t] # Off
  BY DEF Polling, Off
<1>2. \A u \in ThreadObjs \ {t} : ~InPass(u)
  BY DEF PassMayStart
<1>3. ~InPass(t)
  BY <1>1 DEF InPass
<1> QED BY <1>1, <1>2, <1>3 DEF WorkerMayRun, Listening

\* Nobody is on its way out of the list when no pass is there, and in a pass only
\* the worker's own client may be.
LEMMA WhoIsCounted ==
  ASSUME NEW t \in ThreadObjs, \A u \in ThreadObjs \ {t} : ~InPass(u), acceptor.at = "accept"
  PROVE  Counted = Range(ClientList) \cup
                     {c \in Clients : worker[t].at \in {"pick", "settle"} /\ worker[t].client = c}
<1>1. \A u \in ThreadObjs \ {t} : worker[u].at \notin {"pick", "settle"}
  BY DEF InPass
<1>2. Left = {c \in Clients : worker[t].at \in {"pick", "settle"} /\ worker[t].client = c}
  BY <1>1 DEF Left
<1>3. Entering = {}
  BY DEF Entering
<1> QED BY <1>2, <1>3 DEF Counted

\* A worker that has no client will end: none is on its way out.
LEMMA FindNoneKeeps ==
  ASSUME Overlaps = {}, PoolInv, NEW t \in ThreadObjs, FindNone(t)
  PROVE  PoolInv'
<1> DEFINE k == [at |-> "end"]
<1>1. /\ acceptor.at = "accept" /\ worker[t].at = "poll" /\ worker[t] # Off
      /\ \A u \in ThreadObjs : ~InPass(u)
  BY PassBegins DEF FindNone
<1>2. k \in Workings /\ k.at = "end"
  BY DEF Workings
<1>3. worker' = [worker EXCEPT ![t] = k]
  BY DEF FindNone
<1> HIDE DEF k
<1>4. worker'[t] = k /\ \A u \in ThreadObjs \ {t} : worker'[u] = worker[u]
  BY <1>3 DEF PoolInv, PoolTypes
<1>5. UNCHANGED <<lists, fields, accepted, created, acceptor, deleted, crashed>>
  BY DEF FindNone
<1>6. Mine(t) = {}
  <2>1. \A u \in ThreadObjs : worker[u].at # "erase"
    BY <1>1 DEF InPass
  <2>2. \A c \in Mine(t) : Active(c)
    BY <2>1 DEF Active
  <2> QED BY <2>2 DEF FindNone
<1>7. PassFits(t)'
  <2>1. Mine(t)' = Mine(t)
    BY <1>5 DEF Mine, lists, fields
  <2> QED BY <2>1, <1>2, <1>4, <1>6 DEF PassFits
<1>8. Counted' = Counted
  <2>1. Left' = Left
    BY <1>1, <1>2, <1>4 DEF Left
  <2> QED BY <2>1, <1>5 DEF Counted, Entering, lists
<1>9. ClientList' \in Seq(Clients) /\ EnteredOnce'
  BY <1>5 DEF PoolInv, PoolTypes, EnteredOnce, lists
<1> QED BY <1>1, <1>2, <1>3, <1>5, <1>7, <1>8, <1>9, PassGoesOn DEF lists

\* select(), recv() and the end of a round leave everybody where they are.
LEMMA RoundKeeps ==
  ASSUME Overlaps = {}, PoolInv, NEW t \in ThreadObjs,
         Poll(t) \/ ReceiveEnd(t) \/ EndRound(t)
  PROVE  PoolInv'
<1>1. /\ acceptor.at = "accept" /\ worker[t].at \in {"poll", "loop"} /\ worker[t] # Off
      /\ \A u \in ThreadObjs \ {t} : ~InPass(u)
  <2>1. CASE Poll(t)
    BY <2>1, PassBegins DEF Poll
  <2>2. CASE ReceiveEnd(t) \/ EndRound(t)
    <3>1. worker[t].at = "loop" /\ InPass(t)
      BY <2>2 DEF ReceiveEnd, EndRound, InPass
    <3> QED BY <3>1, PassAlone DEF Off
  <2> QED BY <2>1, <2>2
<1>2. UNCHANGED <<lists, fields, accepted, created, acceptor, deleted, crashed>>
  BY DEF Poll, ReceiveEnd, EndRound
<1>3. PICK k \in Workings : /\ worker' = [worker EXCEPT ![t] = k]
                            /\ k.at \in {"loop", "erase", "poll"}
                            /\ k.at = "erase" => k.client \in Range(ClientList)
  <2>1. CASE Poll(t)
    <3> DEFINE fds == {c \in Mine(t) \cap hungUp : Active(c)}
               k == [at |-> "loop", fds |-> fds, i |-> 1]
    <3>1. fds \subseteq Clients
      BY RangeOfSeq DEF Mine, PoolInv, PoolTypes
    <3>2. worker' = [worker EXCEPT ![t] = k]
      BY <2>1 DEF Poll
    <3> HIDE DEF fds
    <3>3. k \in Workings /\ k.at = "loop"
      BY <3>1 DEF Workings
    <3> HIDE DEF k
    <3> QED BY <3>2, <3>3
  <2>2. CASE ReceiveEnd(t)
    <3> DEFINE j == Min(Ahead(t))
               k == [at |-> "erase", fds |-> worker[t].fds, i |-> j + 1, client |-> ClientList[j]]
    <3>1. j \in DOMAIN ClientList /\ j \in Nat
      <4>1. DOMAIN ClientList = 1..Len(ClientList) /\ Len(ClientList) \in Nat
        BY LenProperties DEF PoolInv, PoolTypes
      <4>2. Ahead(t) \subseteq DOMAIN ClientList /\ Ahead(t) \subseteq Nat /\ Ahead(t) # {}
        BY <2>2, <4>1 DEF Ahead, ReceiveEnd
      <4> QED BY <4>2, MinIsThere
    <3>2. worker' = [worker EXCEPT ![t] = k]
      BY <2>2 DEF ReceiveEnd
    <3> HIDE DEF j
    <3>3. ClientList[j] \in Range(ClientList) /\ ClientList[j] \in Clients
      BY <3>1, RangeOfSeq DEF Range, PoolInv, PoolTypes
    <3>4. worker[t].fds \subseteq Clients
      BY <2>2, WorkingCases DEF ReceiveEnd, PoolInv, PoolTypes
    <3>5. k \in Workings /\ k.at = "erase" /\ k.client \in Range(ClientList)
      BY <3>1, <3>3, <3>4 DEF Workings
    <3> HIDE DEF k
    <3> QED BY <3>2, <3>5
  <2>3. CASE EndRound(t)
    <3>1. Polling \in Workings /\ Polling.at = "poll"
      BY DEF Polling, Workings
    <3> QED BY <2>3, <3>1 DEF EndRound
  <2> QED BY <2>1, <2>2, <2>3
<1>4. worker'[t] = k /\ \A u \in ThreadObjs \ {t} : worker'[u] = worker[u]
  BY <1>3 DEF PoolInv, PoolTypes
<1>5. PassFits(t)'
  BY <1>2, <1>3, <1>4 DEF PassFits, lists
<1>6. Counted' = Counted
  <2>1. Left' = Left
    BY <1>1, <1>3, <1>4 DEF Left
  <2> QED BY <2>1, <1>2 DEF Counted, Entering, lists
<1>7. ClientList' \in Seq(Clients) /\ EnteredOnce'
  BY <1>2 DEF PoolInv, PoolTypes, EnteredOnce, lists
<1> QED BY <1>1, <1>2, <1>3, <1>5, <1>6, <1>7, PassGoesOn DEF lists

\* The client goes out of the list; its thread counts it until the write lock of
\* ClientThreads.
LEMMA EraseClientKeeps ==
  ASSUME PoolInv, NEW t \in ThreadObjs, EraseClient(t)
  PROVE  PoolInv'
<1> DEFINE k == [worker[t] EXCEPT !.at = "pick"]
<1>1. /\ worker[t].at = "erase" /\ InPass(t) /\ worker[t] # Off
      /\ worker' = [worker EXCEPT ![t] = k]
      /\ UNCHANGED <<ClientThreads, fields, accepted, created, acceptor, deleted, crashed>>
  BY DEF EraseClient, InPass, Off
<1>2. acceptor.at = "accept" /\ \A u \in ThreadObjs \ {t} : ~InPass(u)
  BY <1>1, PassAlone
<1>3. k \in Workings /\ k.at = "pick" /\ k.client = worker[t].client
  BY <1>1, WorkingCases DEF PoolInv, PoolTypes
<1> HIDE DEF k
<1>4. PICK c \in Clients : c = worker[t].client
  BY <1>1, WorkingCases DEF PoolInv, PoolTypes
<1>5. c \in Range(ClientList)
  BY <1>1, <1>4 DEF PoolInv, PassFits
<1>6. /\ ClientList' \in Seq(Clients) /\ Range(ClientList') = Range(ClientList) \ {c}
      /\ EnteredOnce'
  BY <1>4, ErasedProperties DEF EraseClient, PoolInv, PoolTypes, EnteredOnce
<1>7. worker'[t] = k /\ \A u \in ThreadObjs \ {t} : worker'[u] = worker[u]
  BY <1>1 DEF PoolInv, PoolTypes
<1>8. PassFits(t)'
  BY <1>3, <1>4, <1>6, <1>7 DEF PassFits
<1>9. Counted' = Counted
  <2>1. Counted = Range(ClientList)
    BY <1>1, <1>2, WhoIsCounted
  <2>2. Left' = {c}
    <3>1. \A u \in ThreadObjs \ {t} : worker'[u].at \notin {"pick", "settle"}
      BY <1>2, <1>7 DEF InPass
    <3> QED BY <3>1, <1>3, <1>4, <1>7 DEF Left
  <2>3. Entering' = {}
    BY <1>1, <1>2 DEF Entering
  <2> QED BY <2>1, <2>2, <2>3, <1>5, <1>6 DEF Counted
<1> QED BY <1>1, <1>2, <1>3, <1>6, <1>8, <1>9, PassGoesOn

\* The client to move is one of the list.
LEMMA ToMoveIsListed ==
  ASSUME PoolInv
  PROVE  ToMove \in Range(ClientList) \cup {None}
<1>1. ClientList \in Seq(Clients) /\ DOMAIN ClientList = 1..Len(ClientList) /\ Len(ClientList) \in Nat
  BY LenProperties DEF PoolInv, PoolTypes
<1>2. CASE ClientList # <<>> /\ OnLast = {}
  <2>1. Len(ClientList) \in DOMAIN ClientList
    BY <1>1, <1>2, EmptySeq
  <2> QED BY <2>1, <1>2 DEF ToMove, Last, Range
<1>3. CASE ClientList # <<>> /\ OnLast # {}
  <2>1. OnLast \subseteq DOMAIN ClientList /\ OnLast \subseteq Nat
    BY <1>1 DEF OnLast
  <2>2. Min(OnLast) \in DOMAIN ClientList
    BY <2>1, <1>3, MinIsThere
  <2> QED BY <2>2, <1>3 DEF ToMove, Range
<1>4. CASE ClientList = <<>>
  BY <1>4 DEF ToMove
<1> QED BY <1>2, <1>3, <1>4

\* The search for the client to move changes nothing.
LEMMA PickOtherKeeps ==
  ASSUME PoolInv, NEW t \in ThreadObjs, PickOther(t)
  PROVE  PoolInv'
<1>1. /\ worker[t].at = "pick" /\ InPass(t) /\ worker[t] # Off
      /\ UNCHANGED <<lists, fields, accepted, created, acceptor, deleted, crashed>>
  BY DEF PickOther, InPass, Off
<1>2. acceptor.at = "accept" /\ \A u \in ThreadObjs \ {t} : ~InPass(u)
  BY <1>1, PassAlone
<1>3. PICK k \in Workings : /\ worker' = [worker EXCEPT ![t] = k]
                            /\ k.at = "settle" /\ k.client = worker[t].client
                            /\ k.other \in Range(ClientList) \cup {None}
  <2> DEFINE onLast == ThreadID[worker[t].client] + 1 = Len(ClientThreads)
             o == IF onLast THEN None ELSE ToMove
             k == [at |-> "settle", fds |-> worker[t].fds, i |-> worker[t].i,
                   client |-> worker[t].client, other |-> o]
  <2>1. o \in Range(ClientList) \cup {None}
    BY ToMoveIsListed
  <2>2. o \in Clients \cup {None}
    BY <2>1, RangeOfSeq DEF PoolInv, PoolTypes
  <2>3. worker' = [worker EXCEPT ![t] = k]
    BY DEF PickOther
  <2> HIDE DEF o
  <2>4. k \in Workings /\ k.at = "settle" /\ k.client = worker[t].client /\ k.other = o
    <3>1. worker[t].fds \subseteq Clients /\ worker[t].i \in Nat /\ worker[t].client \in Clients
      BY <1>1, WorkingCases DEF PoolInv, PoolTypes
    <3> QED BY <3>1, <2>2 DEF Workings
  <2> HIDE DEF k
  <2> QED BY <2>1, <2>3, <2>4
<1>4. worker'[t] = k /\ \A u \in ThreadObjs \ {t} : worker'[u] = worker[u]
  BY <1>3 DEF PoolInv, PoolTypes
<1>5. PassFits(t)'
  BY <1>1, <1>3, <1>4 DEF PassFits, lists, PoolInv
<1>6. Counted' = Counted
  <2>1. Left' = Left
    BY <1>1, <1>3, <1>4 DEF Left
  <2> QED BY <2>1, <1>1 DEF Counted, Entering, lists
<1>7. ClientList' \in Seq(Clients) /\ EnteredOnce'
  BY <1>1 DEF PoolInv, PoolTypes, EnteredOnce, lists
<1> QED BY <1>1, <1>2, <1>3, <1>5, <1>6, <1>7, PassGoesOn DEF lists
-----------------------------------------------------------------------------
\* The number of clients on a thread after one has left it.
LEMMA OneLess ==
  ASSUME PoolTypes, NEW j, NEW c \in CountedOn(j)
  PROVE  /\ Cardinality(CountedOn(j)) \in Nat \ {0}
         /\ Cardinality(CountedOn(j) \ {c}) = Cardinality(CountedOn(j)) - 1
<1>1. IsFiniteSet(CountedOn(j)) /\ Cardinality(CountedOn(j)) \in Nat
  BY CountedFinite
<1>2. Cardinality(CountedOn(j)) # 0
  BY <1>1, FS_EmptySet
<1> QED BY <1>1, <1>2, FS_RemoveElement

\* Under the write lock: the thread of the one who moves, or left with nobody to move,
\* counts one less, and that is what it has; the other's count stays right.
LEMMA SettleKeeps ==
  ASSUME PoolInv, NEW t \in ThreadObjs, Settle(t)
  PROVE  PoolInv'
<1> DEFINE k == [at |-> "loop", fds |-> worker[t].fds, i |-> worker[t].i]
<1>1. /\ worker[t].at = "settle" /\ InPass(t) /\ worker[t] # Off
      /\ worker' = [worker EXCEPT ![t] = k]
      /\ UNCHANGED <<lists, Id, accepted, created, acceptor, deleted>>
  BY DEF Settle, InPass, Off
<1>2. acceptor.at = "accept" /\ \A u \in ThreadObjs \ {t} : ~InPass(u)
  BY <1>1, PassAlone
<1>3. worker[t].fds \subseteq Clients /\ worker[t].i \in Nat
      /\ worker[t].client \in Clients /\ worker[t].other \in Clients \cup {None}
  BY <1>1, WorkingCases DEF PoolInv, PoolTypes
<1>4. PICK c \in Clients : c = worker[t].client
  BY <1>3
<1>5. PICK o \in Clients \cup {None} : o = worker[t].other
  BY <1>3
<1>6. PICK one \in Clients : one = IF o = None THEN c ELSE o
  OBVIOUS
<1>7. k \in Workings /\ k.at = "loop"
  BY <1>3 DEF Workings
<1> HIDE DEF k
<1>8. worker'[t] = k /\ \A u \in ThreadObjs \ {t} : worker'[u] = worker[u]
  BY <1>1 DEF PoolInv, PoolTypes
<1>9. /\ c \notin Range(ClientList) /\ (o # None => o \in Range(ClientList))
  BY <1>1, <1>4, <1>5 DEF PoolInv, PassFits
<1>10. Counted = Range(ClientList) \cup {c}
  BY <1>1, <1>2, <1>4, WhoIsCounted
<1>11. Counted' = Range(ClientList)
  <2>1. Left' = {}
    BY <1>2, <1>7, <1>8 DEF Left, InPass
  <2>2. Entering' = {}
    BY <1>1, <1>2 DEF Entering
  <2> QED BY <2>1, <2>2, <1>1 DEF Counted, lists
<1>12. /\ Pool = ClientThreads /\ Pool' = ClientThreads
  BY <1>1, <1>2 DEF Pool, Fresh, lists
<1>13. /\ ClientThreads \in Seq(ThreadObjs) /\ Len(ClientThreads) \in Nat
       /\ DOMAIN ClientThreads = 1..Len(ClientThreads)
       /\ \A i \in DOMAIN ClientThreads : ClientThreads[i] \in ThreadObjs
       /\ \A i, j \in DOMAIN ClientThreads : ClientThreads[i] = ClientThreads[j] => i = j
  BY <1>12, PoolThreads DEF PoolInv
<1>14. /\ ThreadID \in [Clients -> Nat]
       /\ \A d \in Counted : ThreadID[d] \in Nat /\ ThreadID[d] < Len(ClientThreads)
       /\ \A d \in Counted : ThreadID[d] + 1 \in DOMAIN ClientThreads
  <2>1. \A d \in Counted : ThreadID[d] \in Nat /\ ThreadID[d] < Len(ClientThreads)
    BY <1>12, CountedFinite DEF PoolInv, PoolTypes, Homes
  <2>2. ASSUME NEW d \in Counted PROVE ThreadID[d] + 1 \in DOMAIN ClientThreads
    <3>1. ThreadID[d] \in Nat /\ ThreadID[d] < Len(ClientThreads)
      BY <2>1
    <3> QED BY <3>1, <1>13
  <2> QED BY <2>1, <2>2 DEF PoolInv, PoolTypes
<1>15. PICK l \in Nat : l = ThreadID[one]
  BY <1>14
<1>16. one \in Counted /\ one \in CountedOn(l) /\ l + 1 \in DOMAIN ClientThreads
  <2>1. one \in Counted
    BY <1>6, <1>9, <1>10
  <2> QED BY <2>1, <1>14, <1>15 DEF CountedOn
<1>17. /\ Cardinality(CountedOn(l)) \in Nat \ {0}
       /\ ClientCount[ClientThreads[l + 1]] = Cardinality(CountedOn(l))
  <2>1. (l + 1) - 1 = l
    OBVIOUS
  <2>2. ClientCount[ClientThreads[l + 1]] = Cardinality(CountedOn((l + 1) - 1))
    BY <1>12, <1>16 DEF PoolInv, Exact
  <2> QED BY <2>1, <2>2, <1>16, OneLess DEF PoolInv
<1>18. /\ ClientCount' = [ClientCount EXCEPT ![ClientThreads[l + 1]] = Cardinality(CountedOn(l)) - 1]
       /\ ~crashed'
  <2>1. LoseClient(l + 1)
    BY <1>4, <1>5, <1>6, <1>15 DEF Settle
  <2>2. /\ ClientCount' = [ClientCount EXCEPT ![ClientThreads[l + 1]] =
                             IF ClientCount[ClientThreads[l + 1]] = 0 THEN Wrapped
                             ELSE ClientCount[ClientThreads[l + 1]] - 1]
        /\ crashed' = crashed
    BY <2>1, <1>16 DEF LoseClient
  <2>3. ClientCount[ClientThreads[l + 1]] # 0
    BY <1>17
  <2> QED BY <2>2, <2>3, <1>17 DEF PoolInv
<1>19. /\ o = None => ThreadID' = ThreadID
       /\ o # None => ThreadID' = [ThreadID EXCEPT ![o] = ThreadID[c]]
  BY <1>4, <1>5 DEF Settle
<1>20. /\ ThreadID' \in [Clients -> Nat]
       /\ \A d \in Clients : d # o => ThreadID'[d] = ThreadID[d]
       /\ o # None => ThreadID'[o] = ThreadID[c]
  BY <1>14, <1>19
<1>21. ASSUME NEW j \in Nat
       PROVE  Cardinality(CountedOn(j)') =
                IF j = l THEN Cardinality(CountedOn(l)) - 1 ELSE Cardinality(CountedOn(j))
  <2>1. CountedOn(j)' = {d \in Range(ClientList) : ThreadID'[d] = j}
    BY <1>11 DEF CountedOn
  <2>2. CountedOn(j) = {d \in Range(ClientList) \cup {c} : ThreadID[d] = j}
    BY <1>10 DEF CountedOn
  <2>3. Range(ClientList) \subseteq Clients /\ None \notin Clients
    BY RangeOfSeq, BoundsNat DEF PoolInv, PoolTypes, Clients, None
  <2>4. CASE o = None
    <3>1. CountedOn(j)' = CountedOn(j) \ {c} /\ l = ThreadID[c]
      BY <2>1, <2>2, <2>4, <1>6, <1>9, <1>15, <1>19
    <3>2. CASE j = l
      <4>1. c \in CountedOn(l)
        BY <2>4, <1>6, <1>16
      <4> QED BY <3>1, <3>2, <4>1, OneLess DEF PoolInv
    <3>3. CASE j # l
      <4>1. CountedOn(j)' = CountedOn(j)
        BY <3>1, <3>3, <2>2
      <4> QED BY <4>1, <3>3
    <3> QED BY <3>2, <3>3
  <2>5. CASE o # None
    <3>1. o \in Range(ClientList) /\ one = o /\ ThreadID[o] = l /\ o # c
      BY <2>5, <1>6, <1>9, <1>15
    <3>2. \A d \in Range(ClientList) : ThreadID'[d] = IF d = o THEN ThreadID[c] ELSE ThreadID[d]
      BY <2>3, <2>5, <1>20
    <3>3. CASE j = l /\ ThreadID[c] = l
      <4>1. CountedOn(j)' = CountedOn(l) \ {c} /\ c \in CountedOn(l)
        BY <2>1, <2>2, <3>1, <3>2, <3>3, <1>9
      <4> QED BY <4>1, <3>3, OneLess DEF PoolInv
    <3>4. CASE j = l /\ ThreadID[c] # l
      <4>1. CountedOn(j)' = CountedOn(l) \ {o} /\ o \in CountedOn(l)
        BY <2>1, <2>2, <3>1, <3>2, <3>4, <1>9
      <4> QED BY <4>1, <3>4, OneLess DEF PoolInv
    <3>5. CASE j # l /\ ThreadID[c] = j
      <4>1. CountedOn(j)' = (CountedOn(j) \ {c}) \cup {o} /\ c \in CountedOn(j) /\ o \notin CountedOn(j)
        BY <2>1, <2>2, <3>1, <3>2, <3>5, <1>9
      <4>2. /\ Cardinality(CountedOn(j)) \in Nat
            /\ Cardinality(CountedOn(j) \ {c}) = Cardinality(CountedOn(j)) - 1
        BY <4>1, OneLess DEF PoolInv
      <4>3. IsFiniteSet(CountedOn(j) \ {c})
        BY CountedFinite, FS_Subset DEF PoolInv
      <4>4. Cardinality((CountedOn(j) \ {c}) \cup {o}) = Cardinality(CountedOn(j) \ {c}) + 1
        BY <4>1, <4>3, FS_AddElement
      <4> QED BY <4>1, <4>2, <4>4, <3>5
    <3>6. CASE j # l /\ ThreadID[c] # j
      <4>1. CountedOn(j)' = CountedOn(j)
        BY <2>1, <2>2, <3>1, <3>2, <3>6, <1>9
      <4> QED BY <4>1, <3>6
    <3> QED BY <3>3, <3>4, <3>5, <3>6
  <2> QED BY <2>4, <2>5
<1>22. Exact'
  <2> SUFFICES ASSUME NEW i \in DOMAIN ClientThreads
               PROVE  ClientCount'[ClientThreads[i]] = Cardinality(CountedOn(i - 1)')
    <3>1. Pool' = ClientThreads /\ ClientThreads' = ClientThreads
      BY <1>1, <1>12 DEF lists
    <3> QED BY <3>1 DEF Exact
  <2>1. i - 1 \in Nat /\ (i - 1 = l <=> i = l + 1)
    BY <1>13
  <2>2. Cardinality(CountedOn(i - 1)') =
          IF i - 1 = l THEN Cardinality(CountedOn(l)) - 1 ELSE Cardinality(CountedOn(i - 1))
    BY <2>1, <1>21
  <2>3. CASE i = l + 1
    <3>1. ClientCount'[ClientThreads[i]] = Cardinality(CountedOn(l)) - 1
      BY <2>3, <1>13, <1>18 DEF PoolInv, PoolTypes
    <3> QED BY <3>1, <2>1, <2>2, <2>3
  <2>4. CASE i # l + 1
    <3>1. ClientThreads[i] # ClientThreads[l + 1]
      BY <2>4, <1>13, <1>16
    <3>2. ClientCount'[ClientThreads[i]] = ClientCount[ClientThreads[i]]
      BY <3>1, <1>13, <1>18 DEF PoolInv, PoolTypes
    <3>3. ClientCount[ClientThreads[i]] = Cardinality(CountedOn(i - 1))
      BY <1>12 DEF PoolInv, Exact
    <3> QED BY <3>2, <3>3, <2>1, <2>2, <2>4
  <2> QED BY <2>3, <2>4
<1>23. PoolTypes'
  <2>1. ClientCount' \in [ThreadObjs -> Nat]
    <3>1. PICK m \in Nat : m = Cardinality(CountedOn(l)) - 1
      BY <1>17
    <3>2. ClientCount' = [ClientCount EXCEPT ![ClientThreads[l + 1]] = m]
      BY <3>1, <1>18
    <3> QED BY <3>2 DEF PoolInv, PoolTypes
  <2>2. worker' \in [ThreadObjs -> Workings]
    BY <1>1, <1>7 DEF PoolInv, PoolTypes
  <2> QED BY <2>1, <2>2, <1>1, <1>20 DEF PoolInv, PoolTypes, lists
<1>24. Alone'
  <2>1. \A u \in ThreadObjs \ {t} : ~InPass(u)'
    BY <1>2, <1>8 DEF InPass
  <2> QED BY <2>1, <1>1, <1>2 DEF Alone
<1>25. Placed'
  BY <1>1, <1>12 DEF PoolInv, Placed
<1>26. Homes'
  <2> SUFFICES ASSUME NEW d \in Range(ClientList)
               PROVE  d <= accepted /\ ThreadID'[d] < Len(ClientThreads)
    BY <1>1, <1>11, <1>12 DEF Homes
  <2>1. d \in Clients /\ d \in Counted /\ c \in Counted
    BY <1>10, CountedFinite DEF PoolInv
  <2>2. d <= accepted
    BY <2>1 DEF PoolInv, Homes
  <2>3. CASE d = o
    <3>1. o # None
      BY <2>1, <2>3, BoundsNat DEF Clients, None
    <3> QED BY <2>1, <2>2, <2>3, <3>1, <1>14, <1>20
  <2>4. CASE d # o
    BY <2>1, <2>2, <2>4, <1>14, <1>20
  <2> QED BY <2>3, <2>4
<1>27. Unused'
  <2>1. \A u \in ThreadObjs : u > created => u # t /\ \A i \in DOMAIN ClientThreads : ClientThreads[i] # u
    <3> SUFFICES ASSUME NEW u \in ThreadObjs, u > created
                 PROVE  u # t /\ \A i \in DOMAIN ClientThreads : ClientThreads[i] # u
      OBVIOUS
    <3>1. u # t
      BY <1>1 DEF PoolInv, Unused
    <3>2. ASSUME NEW i \in DOMAIN ClientThreads, ClientThreads[i] = u PROVE FALSE
      <4>1. u <= created /\ u \in Nat /\ created \in Nat
        BY <3>2, <1>12 DEF PoolInv, Placed, PoolTypes, ThreadObjs
      <4> QED BY <4>1
    <3> QED BY <3>1, <3>2
  <2>2. \A u \in ThreadObjs : u > created => ClientCount'[u] = ClientCount[u] /\ worker'[u] = worker[u]
    BY <2>1, <1>8, <1>16, <1>18 DEF PoolInv, PoolTypes
  <2> QED BY <2>2, <1>1 DEF PoolInv, Unused
<1>28. \A u \in ThreadObjs : PassFits(u)'
  <2>1. \A u \in ThreadObjs : worker'[u].at \notin {"erase", "pick", "settle", "end"}
    BY <1>2, <1>7, <1>8 DEF InPass
  <2> QED BY <2>1 DEF PassFits
<1>29. AcceptFits' /\ EnteredOnce'
  BY <1>1, <1>2 DEF AcceptFits, EnteredOnce, PoolInv, lists
<1> QED BY <1>18, <1>22, <1>23, <1>24, <1>25, <1>26, <1>27, <1>28, <1>29 DEF PoolInv

\* The threads behind the one that ends move up, with their clients: it has none.
LEMMA RemoveThreadKeeps ==
  ASSUME PoolInv, NEW t \in ThreadObjs, RemoveThread(t)
  PROVE  PoolInv'
<1>1. /\ worker[t].at = "end" /\ InPass(t) /\ worker[t] # Off
      /\ worker' = [worker EXCEPT ![t] = Off] /\ deleted' = deleted \cup {t}
      /\ ClientThreads' = Rest(t)
      /\ UNCHANGED <<ClientList, ClientCount, accepted, created, acceptor, crashed>>
  BY DEF RemoveThread, Delete, InPass, Off
<1>2. acceptor.at = "accept" /\ \A u \in ThreadObjs \ {t} : ~InPass(u)
  BY <1>1, PassAlone
<1>3. Off \in Workings /\ Off.at = "off"
  BY DEF Off, Workings
<1>4. worker'[t] = Off /\ \A u \in ThreadObjs \ {t} : worker'[u] = worker[u]
  BY <1>1 DEF PoolInv, PoolTypes
<1>5. \A u \in ThreadObjs : worker'[u].at \notin {"loop", "erase", "pick", "settle", "end"}
  BY <1>2, <1>3, <1>4 DEF InPass
<1>6. Counted = Range(ClientList)
  BY <1>1, <1>2, WhoIsCounted
<1>7. Counted' = Range(ClientList)
  <2>1. Left' = {}
    BY <1>5 DEF Left
  <2>2. Entering' = {}
    BY <1>1, <1>2 DEF Entering
  <2> QED BY <2>1, <2>2, <1>1 DEF Counted
<1>8. Pool = ClientThreads /\ Pool' = Rest(t)
  BY <1>1, <1>2 DEF Pool, Fresh
<1>9. /\ ClientThreads \in Seq(ThreadObjs) /\ Len(ClientThreads) \in Nat
      /\ DOMAIN ClientThreads = 1..Len(ClientThreads)
      /\ \A i \in DOMAIN ClientThreads : ClientThreads[i] \in ThreadObjs
      /\ \A i, j \in DOMAIN ClientThreads : ClientThreads[i] = ClientThreads[j] => i = j
  BY <1>8, PoolThreads DEF PoolInv
<1>10. PICK rest \in Seq(ThreadObjs) : rest = Rest(t) /\ Range(rest) = Range(ClientThreads) \ {t}
                                       /\ \A i, j \in DOMAIN rest : rest[i] = rest[j] => i = j
  BY <1>9, ErasedProperties DEF Rest
<1>11. /\ Len(rest) \in Nat /\ DOMAIN rest = 1..Len(rest)
       /\ \A i \in 1..Len(rest) : rest[i] \in ThreadObjs
  BY LenProperties, ElementOfSeq
<1>12. \A i \in DOMAIN ClientThreads : /\ Id[ClientThreads[i]] = i - 1
                                       /\ ClientCount[ClientThreads[i]] = Cardinality(CountedOn(i - 1))
                                       /\ ClientThreads[i] <= created
                                       /\ ClientThreads[i] \notin deleted
  BY <1>8 DEF PoolInv, Placed, Exact
<1>13. ASSUME NEW i \in DOMAIN rest
       PROVE  /\ rest[i] # t /\ rest[i] <= created /\ rest[i] \notin deleted
              /\ Id[rest[i]] \in Nat
              /\ ClientCount[rest[i]] = Cardinality(CountedOn(Id[rest[i]]))
  <2>1. rest[i] \in Range(rest)
    BY DEF Range
  <2>2. PICK p \in DOMAIN ClientThreads : rest[i] = ClientThreads[p] /\ rest[i] # t
    BY <2>1, <1>10 DEF Range
  <2>3. p - 1 \in Nat
    BY <1>9
  <2> QED BY <2>2, <2>3, <1>12
<1>14. ASSUME NEW i \in DOMAIN rest, NEW j \in DOMAIN rest, Id[rest[i]] = Id[rest[j]]
       PROVE  i = j
  <2>1. rest[i] \in Range(ClientThreads) /\ rest[j] \in Range(ClientThreads)
    <3>1. rest[i] \in Range(rest) /\ rest[j] \in Range(rest)
      BY DEF Range
    <3> QED BY <3>1, <1>10
  <2>2. PICK p \in DOMAIN ClientThreads : rest[i] = ClientThreads[p]
    BY <2>1 DEF Range
  <2>3. PICK q \in DOMAIN ClientThreads : rest[j] = ClientThreads[q]
    BY <2>1 DEF Range
  <2>4. p - 1 = q - 1
    BY <2>2, <2>3, <1>12, <1>14
  <2>5. p = q
    BY <2>4, <1>9
  <2> QED BY <2>2, <2>3, <2>5, <1>10
<1>15. ASSUME NEW i \in DOMAIN rest
       PROVE  NewNumber(t, Id[rest[i]]) = i - 1
  <2> DEFINE those == {j \in DOMAIN Rest(t) : Id[Rest(t)[j]] = Id[rest[i]]}
  <2>1. those = {i}
    BY <1>10, <1>14
  <2>2. Min({i}) = i
    <3>1. {i} \subseteq Nat /\ {i} # {}
      BY <1>11
    <3> QED BY <3>1, MinIsThere
  <2>3. NewNumber(t, Id[rest[i]]) = IF those = {} THEN Id[rest[i]] ELSE Min(those) - 1
    BY DEF NewNumber
  <2> HIDE DEF those
  <2> QED BY <2>1, <2>2, <2>3
<1>16. \A i \in DOMAIN rest : i - 1 \in Nat
  BY <1>11
<1>17. ASSUME NEW u \in ThreadObjs
       PROVE  Id'[u] = IF u \in Range(rest) THEN NewNumber(t, Id[u]) ELSE Id[u]
  BY <1>10 DEF RemoveThread
<1>18. \A i \in DOMAIN rest : Id'[rest[i]] = i - 1
  <2> SUFFICES ASSUME NEW i \in DOMAIN rest PROVE Id'[rest[i]] = i - 1
    OBVIOUS
  <2>1. rest[i] \in ThreadObjs /\ rest[i] \in Range(rest)
    BY <1>11 DEF Range
  <2> QED BY <2>1, <1>15, <1>17
<1>19. ASSUME NEW c \in Range(ClientList)
       PROVE  \E i \in DOMAIN rest : ThreadID[c] = Id[rest[i]]
  <2>1. c \in Clients /\ ThreadID[c] \in Nat /\ ThreadID[c] < Len(ClientThreads)
    BY <1>6, <1>8, CountedFinite DEF PoolInv, PoolTypes, Homes
  <2>2. PICK p \in DOMAIN ClientThreads : p = ThreadID[c] + 1
    BY <2>1, <1>9
  <2>3. Id[ClientThreads[p]] = ThreadID[c]
    BY <2>1, <2>2, <1>12
  <2>4. ClientThreads[p] # t
    <3>1. ThreadID[c] # Id[t]
      BY <1>1 DEF PoolInv, PassFits, Mine
    <3> QED BY <3>1, <2>3
  <2>5. ClientThreads[p] \in Range(rest)
    BY <2>4, <1>10 DEF Range
  <2> QED BY <2>3, <2>5 DEF Range
<1>20. ASSUME NEW c \in Range(ClientList), NEW i \in DOMAIN rest
       PROVE  ThreadID'[c] = i - 1 <=> ThreadID[c] = Id[rest[i]]
  <2>1. ThreadID'[c] = NewNumber(t, ThreadID[c])
    <3>1. c \in Clients
      BY <1>6, CountedFinite DEF PoolInv
    <3> QED BY <3>1 DEF RemoveThread
  <2>2. PICK j \in DOMAIN rest : ThreadID[c] = Id[rest[j]]
    BY <1>19
  <2>3. ThreadID'[c] = j - 1
    BY <2>1, <2>2, <1>15
  <2>4. j - 1 = i - 1 <=> i = j
    BY <1>11
  <2> QED BY <2>2, <2>3, <2>4, <1>14
<1>21. PoolTypes'
  <2>1. Id' \in [ThreadObjs -> Nat]
    <3>1. \A u \in ThreadObjs : (IF u \in Range(rest) THEN NewNumber(t, Id[u]) ELSE Id[u]) \in Nat
      <4> SUFFICES ASSUME NEW u \in ThreadObjs, u \in Range(rest) PROVE NewNumber(t, Id[u]) \in Nat
        BY DEF PoolInv, PoolTypes
      <4>1. PICK i \in DOMAIN rest : u = rest[i]
        BY DEF Range
      <4> QED BY <4>1, <1>15, <1>16
    <3>2. Id' = [u \in ThreadObjs |-> IF u \in Range(rest) THEN NewNumber(t, Id[u]) ELSE Id[u]]
      BY <1>10 DEF RemoveThread
    <3> QED BY <3>1, <3>2
  <2>2. ThreadID' \in [Clients -> Nat]
    <3>1. \A c \in Clients : (IF c \in Range(ClientList) THEN NewNumber(t, ThreadID[c]) ELSE ThreadID[c]) \in Nat
      <4> SUFFICES ASSUME NEW c \in Clients, c \in Range(ClientList) PROVE NewNumber(t, ThreadID[c]) \in Nat
        BY DEF PoolInv, PoolTypes
      <4>1. PICK i \in DOMAIN rest : ThreadID[c] = Id[rest[i]]
        BY <1>19
      <4> QED BY <4>1, <1>15, <1>16
    <3>2. ThreadID' = [c \in Clients |-> IF c \in Range(ClientList) THEN NewNumber(t, ThreadID[c]) ELSE ThreadID[c]]
      BY DEF RemoveThread
    <3> QED BY <3>1, <3>2
  <2>3. ClientThreads' \in Seq(ThreadObjs)
    BY <1>1, <1>10
  <2>4. worker' \in [ThreadObjs -> Workings]
    BY <1>1, <1>3 DEF PoolInv, PoolTypes
  <2> QED BY <2>1, <2>2, <2>3, <2>4, <1>1 DEF PoolInv, PoolTypes
<1>22. Alone'
  BY <1>5 DEF Alone, InPass
<1>23. Placed'
  <2>1. Pool' = rest
    BY <1>8, <1>10
  <2> QED BY <2>1, <1>1, <1>13, <1>18 DEF Placed
<1>24. Exact'
  <2> SUFFICES ASSUME NEW i \in DOMAIN rest
               PROVE  ClientCount[rest[i]] = Cardinality(CountedOn(i - 1)')
    BY <1>1, <1>8, <1>10 DEF Exact
  <2>1. CountedOn(i - 1)' = {c \in Range(ClientList) : ThreadID'[c] = i - 1}
    BY <1>7 DEF CountedOn
  <2>2. CountedOn(Id[rest[i]]) = {c \in Range(ClientList) : ThreadID[c] = Id[rest[i]]}
    BY <1>6 DEF CountedOn
  <2>3. CountedOn(i - 1)' = CountedOn(Id[rest[i]])
    BY <2>1, <2>2, <1>20
  <2> QED BY <2>3, <1>13
<1>25. Homes'
  <2> SUFFICES ASSUME NEW c \in Range(ClientList)
               PROVE  c <= accepted /\ ThreadID'[c] < Len(rest)
    BY <1>1, <1>7, <1>8, <1>10 DEF Homes
  <2>1. c <= accepted
    BY <1>6 DEF PoolInv, Homes
  <2>2. PICK i \in DOMAIN rest : ThreadID'[c] = i - 1
    BY <1>19, <1>20
  <2> QED BY <2>1, <2>2, <1>11
<1>26. Unused'
  <2>1. t \in Nat /\ created \in Nat /\ t <= created
    <3>1. t \in Nat /\ created \in Nat /\ ~(t > created)
      BY <1>1 DEF PoolInv, PoolTypes, Unused, ThreadObjs
    <3> QED BY <3>1
  <2>2. t \in 1..created
    BY <2>1 DEF ThreadObjs
  <2>3. \A u \in ThreadObjs : u > created => worker'[u] = Off
    BY <1>4 DEF PoolInv, Unused
  <2> QED BY <2>2, <2>3, <1>1 DEF PoolInv, Unused
<1>27. \A u \in ThreadObjs : PassFits(u)'
  BY <1>5 DEF PassFits
<1>28. AcceptFits' /\ EnteredOnce' /\ ~crashed'
  BY <1>1, <1>2 DEF AcceptFits, EnteredOnce, PoolInv
<1> QED BY <1>21, <1>22, <1>23, <1>24, <1>25, <1>26, <1>27, <1>28 DEF PoolInv
-----------------------------------------------------------------------------
(* The pool: ServerLoop                                                      *)

\* While no worker is in a pass, none of its clients is on its way out.
LEMMA NobodyLeaves ==
  ASSUME \A u \in ThreadObjs : ~InPass(u)
  PROVE  Left = {} /\ \A u \in ThreadObjs : PassFits(u)
BY DEF InPass, Left, PassFits

\* ServerLoop goes on with the connection it has accepted, or starts with one, while
\* numbers, counts and the clients that are counted stay as they are.
LEMMA AcceptGoesOn ==
  ASSUME PoolInv, \A u \in ThreadObjs : ~InPass(u), \A u \in ThreadObjs : ~InPass(u)',
         UNCHANGED <<fields, created, deleted>>, ~crashed',
         accepted' \in 0..MaxClients, accepted' >= accepted,
         worker' \in [ThreadObjs -> Workings],
         \A u \in ThreadObjs : u > created => worker'[u] = Off,
         acceptor' \in Acceptings, ClientList' \in Seq(Clients),
         ClientThreads' \in Seq(ThreadObjs), EnteredOnce', AcceptFits', Pool' = Pool,
         (Range(ClientList) \cup Entering)' = Range(ClientList) \cup Entering
  PROVE  PoolInv'
<1>1. Left = {} /\ Left' = {} /\ \A u \in ThreadObjs : PassFits(u)'
  <2>1. Left' = {}
    BY DEF InPass, Left
  <2>2. \A u \in ThreadObjs : PassFits(u)'
    BY DEF InPass, PassFits
  <2> QED BY <2>1, <2>2, NobodyLeaves
<1>2. Counted' = Counted
  BY <1>1 DEF Counted
<1>3. Placed' /\ Exact' /\ Homes'
  BY <1>2, CountsKept DEF fields
<1>4. PoolTypes' /\ Alone' /\ Unused'
  <2>1. PoolTypes'
    BY DEF PoolInv, PoolTypes, fields
  <2>2. Alone'
    BY DEF Alone
  <2>3. Unused'
    BY DEF PoolInv, Unused, fields
  <2> QED BY <2>1, <2>2, <2>3
<1> QED BY <1>1, <1>3, <1>4 DEF PoolInv

\* accept(): the client is a new one, and the thread with room is one of the vector.
LEMMA AcceptKeeps ==
  ASSUME Overlaps = {}, PoolInv, Accept
  PROVE  PoolInv'
<1>1. /\ acceptor.at = "accept" /\ accepted' = accepted + 1 /\ accepted < MaxClients
      /\ \A u \in ThreadObjs : ~InPass(u)
      /\ UNCHANGED <<lists, fields, created, hungUp, worker, deleted, crashed>>
  BY DEF Accept, AcceptorAt, AcceptMayStart
<1>2. /\ accepted \in Nat /\ MaxClients \in Nat
      /\ accepted' \in 0..MaxClients /\ accepted' >= accepted /\ accepted' \in Clients
  BY <1>1, BoundsNat DEF PoolInv, PoolTypes, Clients
<1>3. PICK c \in Clients : c = accepted'
  BY <1>2
<1>4. c \notin Range(ClientList)
  <2> SUFFICES ASSUME c \in Range(ClientList) PROVE FALSE
    OBVIOUS
  <2>1. c <= accepted
    BY DEF PoolInv, Homes, Counted
  <2> QED BY <2>1, <1>1, <1>2, <1>3
<1>5. ASSUME WithRoom # {} PROVE ClientThreads[Min(WithRoom)] \in Range(ClientThreads)
  <2>1. DOMAIN ClientThreads = 1..Len(ClientThreads) /\ Len(ClientThreads) \in Nat
    BY LenProperties DEF PoolInv, PoolTypes
  <2>2. WithRoom \subseteq DOMAIN ClientThreads /\ WithRoom \subseteq Nat
    BY <2>1 DEF WithRoom
  <2>3. Min(WithRoom) \in DOMAIN ClientThreads
    BY <1>5, <2>2, MinIsThere
  <2> QED BY <2>3 DEF Range
<1>6. PICK t \in ThreadObjs \cup {None} :
        /\ acceptor' = [at |-> "take", client |-> c, thread |-> t]
        /\ \/ t = None /\ created < MaxThreads
           \/ t \in Range(ClientThreads)
  <2>1. Range(ClientThreads) \subseteq ThreadObjs
    BY RangeOfSeq DEF PoolInv, PoolTypes
  <2>2. CASE WithRoom = {}
    BY <2>2, <1>3 DEF Accept
  <2>3. CASE WithRoom # {}
    BY <2>1, <2>3, <1>3, <1>5 DEF Accept
  <2> QED BY <2>2, <2>3
<1>7. acceptor' \in Acceptings /\ acceptor'.at = "take"
  BY <1>6 DEF Acceptings
<1>8. Pool' = Pool /\ (Range(ClientList) \cup Entering)' = Range(ClientList) \cup Entering
  BY <1>1, <1>7 DEF Pool, Fresh, Entering, lists
<1>9. AcceptFits'
  BY <1>1, <1>3, <1>4, <1>6 DEF AcceptFits, lists
<1>10. \A u \in ThreadObjs : ~InPass(u)'
  BY <1>1 DEF InPass
<1>11. EnteredOnce' /\ ClientList' \in Seq(Clients) /\ ClientThreads' \in Seq(ThreadObjs)
       /\ worker' \in [ThreadObjs -> Workings] /\ ~crashed'
       /\ \A u \in ThreadObjs : u > created => worker'[u] = Off
  BY <1>1 DEF PoolInv, PoolTypes, EnteredOnce, Unused, lists
<1> QED BY <1>1, <1>2, <1>7, <1>8, <1>9, <1>10, <1>11, AcceptGoesOn

\* A thread of the vector has not been deleted.
LEMMA TakeListedKeeps ==
  ASSUME PoolInv, TakeThread, acceptor.thread # None
  PROVE  PoolInv'
<1> DEFINE a == [at |-> "count", client |-> acceptor.client, thread |-> acceptor.thread,
                 fresh |-> FALSE, count |-> ClientCount[acceptor.thread]]
<1>1. /\ acceptor.at = "take" /\ acceptor' = a /\ crashed' = (acceptor.thread \in deleted)
      /\ UNCHANGED <<lists, fields, accepted, created, worker, deleted>>
  BY DEF TakeThread, AcceptorAt, fields
<1>2. \A u \in ThreadObjs : ~InPass(u)
  BY <1>1 DEF PoolInv, Alone
<1>3. /\ acceptor.thread \in ThreadObjs /\ acceptor.client \in Clients
      /\ acceptor.thread \in Range(ClientThreads)
      /\ acceptor.client = accepted /\ acceptor.client \notin Range(ClientList)
  BY <1>1, AcceptingCases DEF PoolInv, PoolTypes, AcceptFits
<1>4. a \in Acceptings /\ a.at = "count" /\ ~a.fresh /\ a.thread = acceptor.thread
      /\ a.client = acceptor.client /\ a.count = ClientCount[acceptor.thread]
  <2>1. ClientCount[acceptor.thread] \in Nat
    BY <1>3 DEF PoolInv, PoolTypes
  <2> QED BY <1>3, <2>1 DEF Acceptings
<1> HIDE DEF a
<1>5. Pool = ClientThreads /\ Pool' = ClientThreads
  BY <1>1, <1>4 DEF Pool, Fresh, lists
<1>6. ~crashed'
  BY <1>1, <1>3, <1>5 DEF PoolInv, Placed, Range
<1>7. (Range(ClientList) \cup Entering)' = Range(ClientList) \cup Entering
  BY <1>1, <1>4 DEF Entering, lists
<1>8. AcceptFits'
  BY <1>1, <1>3, <1>4, <1>5 DEF AcceptFits, lists, fields
<1>9. \A u \in ThreadObjs : ~InPass(u)'
  BY <1>1, <1>2 DEF InPass
<1>10. /\ EnteredOnce' /\ ClientList' \in Seq(Clients) /\ ClientThreads' \in Seq(ThreadObjs)
       /\ worker' \in [ThreadObjs -> Workings] /\ acceptor' \in Acceptings
       /\ accepted' \in 0..MaxClients /\ accepted' >= accepted
       /\ \A u \in ThreadObjs : u > created => worker'[u] = Off
  BY <1>1, <1>4 DEF PoolInv, PoolTypes, EnteredOnce, Unused, lists
<1> QED BY <1>1, <1>2, <1>5, <1>6, <1>7, <1>8, <1>9, <1>10, AcceptGoesOn

\* The client goes into the list; it is counted already.
LEMMA PublishKeeps ==
  ASSUME PoolInv, PublishClient
  PROVE  PoolInv'
<1>1. /\ acceptor.at = "publish" /\ ClientList' = Append(ClientList, acceptor.client)
      /\ acceptor' = IF acceptor.fresh THEN [acceptor EXCEPT !.at = "start"] ELSE Listening
      /\ UNCHANGED <<ClientThreads, fields, accepted, created, worker, deleted, crashed>>
  BY DEF PublishClient, AcceptorAt
<1>2. \A u \in ThreadObjs : ~InPass(u)
  BY <1>1 DEF PoolInv, Alone
<1>3. PICK c \in Clients : c = acceptor.client
  BY <1>1, AcceptingCases DEF PoolInv, PoolTypes
<1>4. /\ acceptor.thread \in ThreadObjs /\ acceptor.fresh \in BOOLEAN /\ acceptor.count \in Nat
      /\ acceptor.thread \in Range(Pool) /\ c \notin Range(ClientList)
  BY <1>1, <1>3, AcceptingCases DEF PoolInv, PoolTypes, AcceptFits
<1>5. /\ acceptor' \in Acceptings
      /\ acceptor.fresh => acceptor'.at = "start" /\ acceptor'.fresh /\ acceptor'.thread = acceptor.thread
      /\ ~acceptor.fresh => acceptor'.at = "accept"
  <2>1. CASE acceptor.fresh
    <3>1. [acceptor EXCEPT !.at = "start"] \in Acceptings
          /\ [acceptor EXCEPT !.at = "start"].at = "start"
          /\ [acceptor EXCEPT !.at = "start"].fresh = acceptor.fresh
          /\ [acceptor EXCEPT !.at = "start"].thread = acceptor.thread
      BY <1>1 DEF PoolInv, PoolTypes, Acceptings
    <3> QED BY <2>1, <3>1, <1>1
  <2>2. CASE ~acceptor.fresh
    BY <2>2, <1>1 DEF Listening, Acceptings
  <2> QED BY <2>1, <2>2
<1>6. Pool' = Pool
  BY <1>1, <1>5 DEF Pool, Fresh
<1>7. /\ ClientList' \in Seq(Clients) /\ Len(ClientList) \in Nat /\ DOMAIN ClientList = 1..Len(ClientList)
      /\ DOMAIN ClientList' = 1..(Len(ClientList) + 1)
      /\ \A i \in 1..Len(ClientList) : ClientList'[i] = ClientList[i]
      /\ ClientList'[Len(ClientList) + 1] = c /\ Range(ClientList') = Range(ClientList) \cup {c}
  BY <1>1, <1>3, AppendedTo DEF PoolInv, PoolTypes
<1>8. EnteredOnce'
  <2> SUFFICES ASSUME NEW i \in 1..(Len(ClientList) + 1), NEW j \in 1..(Len(ClientList) + 1),
                      ClientList'[i] = ClientList'[j]
               PROVE  i = j
    BY <1>7 DEF EnteredOnce
  <2>1. \A k \in 1..(Len(ClientList) + 1) : k \in DOMAIN ClientList \/ k = Len(ClientList) + 1
    BY <1>7
  <2>2. \A k \in DOMAIN ClientList : ClientList'[k] \in Range(ClientList) /\ ClientList'[k] = ClientList[k]
    BY <1>7 DEF Range
  <2> QED BY <2>1, <2>2, <1>4, <1>7 DEF PoolInv, EnteredOnce
<1>9. (Range(ClientList) \cup Entering)' = Range(ClientList) \cup Entering
  <2>1. Entering = {c}
    BY <1>1, <1>3 DEF Entering
  <2>2. Entering' = {}
    BY <1>5 DEF Entering
  <2> QED BY <2>1, <2>2, <1>7
<1>10. AcceptFits'
  BY <1>4, <1>5, <1>6 DEF AcceptFits
<1>11. \A u \in ThreadObjs : ~InPass(u)'
  BY <1>1, <1>2 DEF InPass
<1>12. /\ ClientThreads' \in Seq(ThreadObjs) /\ worker' \in [ThreadObjs -> Workings]
       /\ accepted' \in 0..MaxClients /\ accepted' >= accepted /\ ~crashed'
       /\ \A u \in ThreadObjs : u > created => worker'[u] = Off
  BY <1>1 DEF PoolInv, PoolTypes, Unused
<1> QED BY <1>1, <1>2, <1>5, <1>6, <1>7, <1>8, <1>9, <1>10, <1>11, <1>12, AcceptGoesOn

\* The new thread goes into the vector and starts.
LEMMA StartKeeps ==
  ASSUME PoolInv, StartThread
  PROVE  PoolInv'
<1>1. /\ acceptor.at = "start" /\ ClientThreads' = Append(ClientThreads, acceptor.thread)
      /\ acceptor' = Listening /\ worker' = [worker EXCEPT ![acceptor.thread] = Polling]
      /\ UNCHANGED <<ClientList, fields, accepted, created, deleted, crashed>>
  BY DEF StartThread, AcceptorAt
<1>2. \A u \in ThreadObjs : ~InPass(u)
  BY <1>1 DEF PoolInv, Alone
<1>3. acceptor.fresh \in BOOLEAN /\ acceptor.thread \in Range(Pool)
      /\ acceptor.thread \in ThreadObjs
  BY <1>1, AcceptingCases DEF PoolInv, PoolTypes, AcceptFits
<1>4. Listening.at = "accept" /\ Listening \in Acceptings /\ Polling.at = "poll" /\ Polling \in Workings
  BY DEF Listening, Polling, Acceptings, Workings
<1>5. acceptor.fresh
  BY <1>1 DEF PoolInv, AcceptFits
<1>6. Pool' = Pool
  BY <1>1, <1>4, <1>5 DEF Pool, Fresh
<1>7. worker' \in [ThreadObjs -> Workings] /\ worker'[acceptor.thread] = Polling
      /\ \A u \in ThreadObjs \ {acceptor.thread} : worker'[u] = worker[u]
  BY <1>1, <1>3, <1>4 DEF PoolInv, PoolTypes
<1>8. \A u \in ThreadObjs : ~InPass(u)'
  BY <1>2, <1>4, <1>7 DEF InPass
<1>9. ~(acceptor.thread > created)
  <2>1. acceptor.thread <= created
    BY <1>3 DEF PoolInv, Placed, Range
  <2> QED BY <2>1, <1>3 DEF PoolInv, PoolTypes, ThreadObjs
<1>10. \A u \in ThreadObjs : u > created => worker'[u] = Off
  BY <1>7, <1>9 DEF PoolInv, Unused
<1>11. ClientThreads' \in Seq(ThreadObjs)
  BY <1>1, <1>3, AppendProperties DEF PoolInv, PoolTypes
<1>12. (Range(ClientList) \cup Entering)' = Range(ClientList) \cup Entering
  BY <1>1, <1>4 DEF Entering
<1>13. AcceptFits'
  BY <1>1, <1>4 DEF AcceptFits
<1>14. /\ EnteredOnce' /\ ClientList' \in Seq(Clients) /\ acceptor' \in Acceptings
       /\ accepted' \in 0..MaxClients /\ accepted' >= accepted /\ ~crashed'
  BY <1>1, <1>4 DEF PoolInv, PoolTypes, EnteredOnce
<1> QED BY <1>1, <1>2, <1>6, <1>7, <1>8, <1>10, <1>11, <1>12, <1>13, <1>14, AcceptGoesOn

\* A new thread: its number is the place it will have, and nobody has that number.
LEMMA TakeFreshKeeps ==
  ASSUME PoolInv, TakeThread, acceptor.thread = None
  PROVE  PoolInv'
<1> DEFINE t == created + 1
           n == Len(ClientThreads)
           a == [at |-> "count", client |-> acceptor.client, thread |-> t,
                 fresh |-> TRUE, count |-> ClientCount[t]]
<1>1. /\ acceptor.at = "take" /\ acceptor' = a /\ crashed' = (t \in deleted)
      /\ created' = t /\ Id' = [Id EXCEPT ![t] = n]
      /\ UNCHANGED <<lists, ClientCount, ThreadID, accepted, worker, deleted>>
  BY DEF TakeThread, AcceptorAt
<1>2. \A u \in ThreadObjs : ~InPass(u)
  BY <1>1 DEF PoolInv, Alone
<1>3. created \in Nat /\ MaxThreads \in Nat /\ created < MaxThreads
  <2>1. None \notin ThreadObjs
    BY BoundsNat DEF ThreadObjs, None
  <2>2. Range(ClientThreads) \subseteq ThreadObjs
    BY RangeOfSeq DEF PoolInv, PoolTypes
  <2>3. created < MaxThreads
    BY <2>1, <2>2, <1>1 DEF PoolInv, AcceptFits
  <2> QED BY <2>3, BoundsNat DEF PoolInv, PoolTypes
<1>4. t \in ThreadObjs /\ t \in Nat /\ t > created /\ t \in 0..MaxThreads
  BY <1>3 DEF ThreadObjs
<1>5. acceptor.client \in Clients /\ acceptor.client = accepted /\ acceptor.client \notin Range(ClientList)
  BY <1>1, AcceptingCases DEF PoolInv, PoolTypes, AcceptFits
<1>6. a \in Acceptings /\ a.at = "count" /\ a.fresh /\ a.thread = t
      /\ a.client = acceptor.client /\ a.count = ClientCount[t]
  <2>1. ClientCount[t] \in Nat
    BY <1>4 DEF PoolInv, PoolTypes
  <2> QED BY <1>4, <1>5, <2>1 DEF Acceptings
<1> HIDE DEF a
<1>7. ClientThreads \in Seq(ThreadObjs) /\ n \in Nat /\ DOMAIN ClientThreads = 1..n
  BY LenProperties DEF PoolInv, PoolTypes
<1>8. Pool = ClientThreads /\ Pool' = Append(ClientThreads, t)
  BY <1>1, <1>6 DEF Pool, Fresh, lists
<1>9. /\ Len(Pool') = n + 1 /\ DOMAIN Pool' = 1..(n + 1)
      /\ \A i \in 1..n : Pool'[i] = ClientThreads[i]
      /\ Pool'[n + 1] = t /\ Range(Pool') = Range(ClientThreads) \cup {t}
  BY <1>4, <1>8, AppendedTo DEF PoolInv, PoolTypes
<1>10. \A i \in 1..n : /\ ClientThreads[i] \in ThreadObjs /\ ClientThreads[i] # t
                       /\ ClientThreads[i] <= created /\ ClientThreads[i] <= t
                       /\ ClientThreads[i] \notin deleted
                       /\ Id[ClientThreads[i]] = i - 1
                       /\ ClientCount[ClientThreads[i]] = Cardinality(CountedOn(i - 1))
  <2> SUFFICES ASSUME NEW i \in 1..n
               PROVE  /\ ClientThreads[i] \in ThreadObjs /\ ClientThreads[i] # t
                      /\ ClientThreads[i] <= created /\ ClientThreads[i] <= t
                      /\ ClientThreads[i] \notin deleted
                      /\ Id[ClientThreads[i]] = i - 1
                      /\ ClientCount[ClientThreads[i]] = Cardinality(CountedOn(i - 1))
    OBVIOUS
  <2>1. /\ ClientThreads[i] <= created /\ ClientThreads[i] \notin deleted
        /\ Id[ClientThreads[i]] = i - 1
        /\ ClientCount[ClientThreads[i]] = Cardinality(CountedOn(i - 1))
    BY <1>7, <1>8 DEF PoolInv, Placed, Exact
  <2>2. ClientThreads[i] \in ThreadObjs
    BY <1>7, ElementOfSeq
  <2>3. PICK u \in ThreadObjs : u = ClientThreads[i]
    BY <2>2
  <2>4. u \in Nat /\ u <= created
    BY <2>1, <2>3 DEF ThreadObjs
  <2>5. u # t /\ u <= t
    BY <2>4, <1>3
  <2> QED BY <2>1, <2>3, <2>5
<1>11. t \notin deleted
  BY <1>3, <1>4 DEF PoolInv, Unused
<1>12. Id'[t] = n /\ \A u \in ThreadObjs \ {t} : Id'[u] = Id[u]
  BY <1>1, <1>4 DEF PoolInv, PoolTypes
<1>13. Placed'
  <2> SUFFICES ASSUME NEW i \in 1..(n + 1)
               PROVE  Id'[Pool'[i]] = i - 1 /\ Pool'[i] <= t /\ Pool'[i] \notin deleted
    BY <1>1, <1>9 DEF Placed
  <2>1. CASE i \in 1..n
    BY <2>1, <1>9, <1>10, <1>12
  <2>2. CASE i = n + 1
    BY <2>2, <1>4, <1>7, <1>9, <1>11, <1>12
  <2> QED BY <2>1, <2>2, <1>7
<1>14. Counted' = Counted
  <2>1. Left' = Left
    BY <1>1 DEF Left
  <2> QED BY <2>1, <1>1, <1>6 DEF Counted, Entering, lists
<1>15. \A k : CountedOn(k)' = CountedOn(k)
  BY <1>1, <1>14 DEF CountedOn
<1>16. CountedOn(n) = {}
  <2> SUFFICES ASSUME NEW c \in Counted, ThreadID[c] = n PROVE FALSE
    BY DEF CountedOn
  <2>1. n < n
    BY <1>8 DEF PoolInv, Homes
  <2> QED BY <2>1, <1>7
<1>17. Exact'
  <2> SUFFICES ASSUME NEW i \in 1..(n + 1)
               PROVE  ClientCount[Pool'[i]] = Cardinality(CountedOn(i - 1))
    BY <1>1, <1>9, <1>15 DEF Exact
  <2>1. CASE i \in 1..n
    BY <2>1, <1>9, <1>10
  <2>2. CASE i = n + 1
    <3>1. i - 1 = n /\ ClientCount[t] = 0
      BY <2>2, <1>4, <1>7 DEF PoolInv, Unused
    <3> QED BY <2>2, <3>1, <1>9, <1>16, FS_EmptySet
  <2> QED BY <2>1, <2>2, <1>7
<1>18. Homes'
  <2> SUFFICES ASSUME NEW c \in Counted PROVE c <= accepted /\ ThreadID[c] < n + 1
    BY <1>1, <1>9, <1>14 DEF Homes
  <2>1. c <= accepted /\ ThreadID[c] < n
    BY <1>8 DEF PoolInv, Homes
  <2>2. ThreadID[c] \in Nat
    BY CountedFinite DEF PoolInv, PoolTypes
  <2> QED BY <2>1, <2>2, <1>7
<1>19. PoolTypes'
  <2>1. Id' \in [ThreadObjs -> Nat]
    BY <1>1, <1>7 DEF PoolInv, PoolTypes
  <2> QED BY <2>1, <1>1, <1>4, <1>6 DEF PoolInv, PoolTypes, lists
<1>20. \A u \in ThreadObjs : ~InPass(u)' /\ PassFits(u)'
  BY <1>1, <1>2 DEF InPass, PassFits
<1>21. Alone'
  BY <1>20 DEF Alone
<1>22. Unused'
  <2>1. \A u \in ThreadObjs : u > t => u > created
    BY <1>3 DEF ThreadObjs
  <2>2. 1..created \subseteq 1..t
    BY <1>3
  <2> QED BY <2>1, <2>2, <1>1 DEF PoolInv, Unused
<1>23. EnteredOnce' /\ AcceptFits' /\ ~crashed'
  <2>1. t \in Range(Pool)'
    BY <1>9
  <2>2. AcceptFits'
    BY <2>1, <1>1, <1>5, <1>6 DEF AcceptFits, lists
  <2> QED BY <2>2, <1>1, <1>11 DEF EnteredOnce, PoolInv, lists
<1> QED BY <1>13, <1>17, <1>18, <1>19, <1>20, <1>21, <1>22, <1>23 DEF PoolInv

\* The thread counts the client that comes to it.
LEMMA AssignKeeps ==
  ASSUME PoolInv, AssignThread
  PROVE  PoolInv'
<1> DEFINE a == [acceptor EXCEPT !.at = "publish"]
<1>1. /\ acceptor.at = "count" /\ acceptor' = a /\ crashed' = (acceptor.thread \in deleted)
      /\ ClientCount' = [ClientCount EXCEPT ![acceptor.thread] = acceptor.count + 1]
      /\ ThreadID' = [ThreadID EXCEPT ![acceptor.client] = Id[acceptor.thread]]
      /\ UNCHANGED <<lists, Id, accepted, created, worker, deleted>>
  BY DEF AssignThread, AcceptorAt
<1>2. \A u \in ThreadObjs : ~InPass(u)
  BY <1>1 DEF PoolInv, Alone
<1>3. PICK c \in Clients : c = acceptor.client
  BY <1>1, AcceptingCases DEF PoolInv, PoolTypes
<1>4. PICK t \in ThreadObjs : t = acceptor.thread
  BY <1>1, AcceptingCases DEF PoolInv, PoolTypes
<1>5. /\ c = accepted /\ c \notin Range(ClientList) /\ t \in Range(Pool)
      /\ acceptor.count = ClientCount[t] /\ acceptor.fresh \in BOOLEAN
  BY <1>1, <1>3, <1>4, AcceptingCases DEF PoolInv, PoolTypes, AcceptFits
<1>6. /\ a \in Acceptings /\ a.at = "publish" /\ a.fresh = acceptor.fresh
      /\ a.thread = t /\ a.client = c
  BY <1>1, <1>3, <1>4 DEF PoolInv, PoolTypes, Acceptings
<1> HIDE DEF a
<1>7. Pool' = Pool
  BY <1>1, <1>4, <1>6 DEF Pool, Fresh, lists
<1>8. PICK k \in 1..Len(Pool) : t = Pool[k]
  BY <1>5, PoolThreads DEF PoolInv, Range
<1>9. /\ Len(Pool) \in Nat /\ DOMAIN Pool = 1..Len(Pool) /\ k \in Nat /\ k - 1 \in Nat
      /\ Id[t] = k - 1 /\ t \notin deleted /\ t <= created
      /\ ClientCount[t] = Cardinality(CountedOn(k - 1))
  BY <1>8, PoolThreads DEF PoolInv, Placed, Exact
<1>10. Counted = Range(ClientList) /\ Counted' = Range(ClientList) \cup {c}
  <2>1. Left = {} /\ Left' = {}
    <3>1. Left' = Left
      BY <1>1 DEF Left
    <3> QED BY <3>1, <1>2, NobodyLeaves
  <2>2. Entering = {} /\ Entering' = {c}
    <3>1. Entering = {}
      BY <1>1 DEF Entering
    <3>2. Entering' = {c}
      BY <1>1, <1>6 DEF Entering
    <3> QED BY <3>1, <3>2
  <2> QED BY <2>1, <2>2, <1>1 DEF Counted, lists
<1>11. /\ ThreadID' \in [Clients -> Nat] /\ ThreadID'[c] = k - 1
       /\ \A d \in Clients \ {c} : ThreadID'[d] = ThreadID[d]
  <2>1. ThreadID' = [ThreadID EXCEPT ![c] = k - 1]
    BY <1>1, <1>3, <1>4, <1>9
  <2> QED BY <2>1, <1>9 DEF PoolInv, PoolTypes
<1>12. PICK m \in Nat : m = ClientCount[t]
  BY DEF PoolInv, PoolTypes
<1>13. /\ ClientCount' \in [ThreadObjs -> Nat] /\ ClientCount'[t] = m + 1
       /\ \A u \in ThreadObjs \ {t} : ClientCount'[u] = ClientCount[u]
  <2>1. ClientCount' = [ClientCount EXCEPT ![t] = m + 1] /\ m + 1 \in Nat
    BY <1>1, <1>4, <1>5, <1>12
  <2> QED BY <2>1 DEF PoolInv, PoolTypes
<1>14. Range(ClientList) \subseteq Clients
  BY RangeOfSeq DEF PoolInv, PoolTypes
<1>15. ASSUME NEW j
       PROVE  CountedOn(j)' = IF j = k - 1 THEN CountedOn(j) \cup {c} ELSE CountedOn(j)
  <2>1. CountedOn(j)' = {d \in Range(ClientList) \cup {c} : ThreadID'[d] = j}
    BY <1>10 DEF CountedOn
  <2>2. CountedOn(j) = {d \in Range(ClientList) : ThreadID[d] = j}
    BY <1>10 DEF CountedOn
  <2>3. \A d \in Range(ClientList) : ThreadID'[d] = ThreadID[d]
    BY <1>5, <1>11, <1>14
  <2> QED BY <2>1, <2>2, <2>3, <1>11
<1>16. Exact'
  <2> SUFFICES ASSUME NEW i \in 1..Len(Pool)
               PROVE  ClientCount'[Pool[i]] = Cardinality(CountedOn(i - 1)')
    BY <1>7, <1>9 DEF Exact
  <2>1. Pool[i] \in ThreadObjs /\ ClientCount[Pool[i]] = Cardinality(CountedOn(i - 1))
    BY <1>9, PoolThreads DEF PoolInv, Exact
  <2>2. CASE i = k
    <3>1. CountedOn(i - 1)' = CountedOn(k - 1) \cup {c}
      BY <2>2, <1>15
    <3>2. IsFiniteSet(CountedOn(k - 1)) /\ c \notin CountedOn(k - 1)
      BY CountedFinite, <1>5, <1>10 DEF PoolInv, CountedOn
    <3>3. Cardinality(CountedOn(k - 1) \cup {c}) = Cardinality(CountedOn(k - 1)) + 1
      BY <3>2, FS_AddElement
    <3> QED BY <2>2, <3>1, <3>3, <1>8, <1>9, <1>12, <1>13
  <2>3. CASE i # k
    <3>1. Pool[i] # t
      BY <2>3, <1>8, <1>9, PoolThreads DEF PoolInv
    <3>2. i - 1 # k - 1
      BY <2>3, <1>9
    <3> QED BY <3>1, <3>2, <2>1, <1>13, <1>15
  <2> QED BY <2>2, <2>3
<1>17. Placed'
  BY <1>1, <1>7 DEF PoolInv, Placed
<1>18. Homes'
  <2> SUFFICES ASSUME NEW d \in Range(ClientList) \cup {c}
               PROVE  d <= accepted /\ ThreadID'[d] < Len(Pool)
    BY <1>1, <1>7, <1>10 DEF Homes
  <2>1. CASE d = c
    <3>1. accepted \in Nat
      BY DEF PoolInv, PoolTypes
    <3> QED BY <2>1, <3>1, <1>5, <1>9, <1>11
  <2>2. CASE d # c
    BY <2>2, <1>10, <1>11, <1>14 DEF PoolInv, Homes
  <2> QED BY <2>1, <2>2
<1>19. PoolTypes'
  BY <1>1, <1>6, <1>11, <1>13 DEF PoolInv, PoolTypes, lists
<1>20. \A u \in ThreadObjs : ~InPass(u)' /\ PassFits(u)'
  BY <1>1, <1>2 DEF InPass, PassFits
<1>21. Alone'
  BY <1>20 DEF Alone
<1>22. Unused'
  <2>1. ~(t > created)
    BY <1>9 DEF PoolInv, PoolTypes, ThreadObjs
  <2> QED BY <2>1, <1>1, <1>13 DEF PoolInv, Unused
<1>23. EnteredOnce' /\ AcceptFits' /\ ~crashed'
  <2>1. AcceptFits'
    BY <1>1, <1>5, <1>6, <1>7 DEF AcceptFits, lists
  <2> QED BY <2>1, <1>1, <1>4, <1>9 DEF EnteredOnce, PoolInv, lists
<1> QED BY <1>16, <1>17, <1>18, <1>19, <1>20, <1>21, <1>22, <1>23 DEF PoolInv

\* A peer that closes its connection changes nothing here, nor does a step of
\* somebody else.
LEMMA OtherStepsKeep ==
  ASSUME PoolInv,
         UNCHANGED <<lists, fields, accepted, created, acceptor, worker, deleted, crashed>>
  PROVE  PoolInv'
<1>1. PoolTypes'
  BY DEF PoolInv, PoolTypes, lists, fields
<1>2. Pool' = Pool /\ Counted' = Counted
  BY DEF Pool, Fresh, Counted, Entering, Left, lists
<1>3. Placed' /\ Exact' /\ Homes'
  BY <1>2, CountsKept DEF PoolInv, PoolTypes, fields
<1>4. Alone' /\ EnteredOnce' /\ Unused'
  BY DEF PoolInv, Alone, InPass, EnteredOnce, Unused, lists, fields
<1>5. ASSUME NEW u \in ThreadObjs PROVE PassFits(u)'
  <2>1. Mine(u)' = Mine(u)
    BY DEF Mine, lists, fields
  <2> QED BY <2>1 DEF PoolInv, PassFits, lists
<1>6. AcceptFits' /\ ~crashed'
  BY <1>2 DEF PoolInv, AcceptFits, lists, fields
<1> QED BY <1>1, <1>3, <1>4, <1>5, <1>6 DEF PoolInv

\* With both windows shut, every step keeps the pool in order.
LEMMA PoolNext ==
  ASSUME Overlaps = {}, PoolInv, [Next]_vars
  PROVE  PoolInv'
<1>1. CASE Accept
  BY <1>1, AcceptKeeps
<1>2. CASE TakeThread
  BY <1>2, TakeListedKeeps, TakeFreshKeeps
<1>3. CASE AssignThread
  BY <1>3, AssignKeeps
<1>4. CASE PublishClient
  BY <1>4, PublishKeeps
<1>5. CASE StartThread
  BY <1>5, StartKeeps
<1>6. CASE \E t \in ThreadObjs : WorkerStep(t)
  <2>1. PICK t \in ThreadObjs : WorkerStep(t)
    BY <1>6
  <2> QED BY <2>1, FindNoneKeeps, RoundKeeps, EraseClientKeeps, PickOtherKeeps,
             SettleKeeps, RemoveThreadKeeps DEF WorkerStep
<1>7. CASE \E c \in Clients : HangUp(c)
  BY <1>7, OtherStepsKeep DEF HangUp
<1>8. CASE UNCHANGED vars
  BY <1>8, OtherStepsKeep DEF vars
<1> QED BY <1>1, <1>2, <1>3, <1>4, <1>5, <1>6, <1>7, <1>8 DEF Next, AcceptorStep

\* Between two operations, who is counted is in the list, and who has a number is in
\* the vector.
LEMMA CountsFollow == ASSUME PoolInv PROVE CountsExact
<1> SUFFICES ASSUME AtRest
             PROVE  /\ \A i \in DOMAIN ClientThreads :
                         /\ Id[ClientThreads[i]] = i - 1
                         /\ ClientCount[ClientThreads[i]] = Cardinality(Mine(ClientThreads[i]))
                    /\ \A c \in Range(ClientList) : ThreadID[c] < Len(ClientThreads)
  BY DEF CountsExact
<1>1. acceptor.at = "accept" /\ \A t \in ThreadObjs : ~InPass(t)
  BY DEF AtRest, Listening
<1>2. Pool = ClientThreads
  BY <1>1 DEF Pool, Fresh
<1>3. Counted = Range(ClientList)
  <2>1. Left = {}
    BY <1>1, NobodyLeaves
  <2> QED BY <2>1, <1>1 DEF Counted, Entering
<1>4. ASSUME NEW i \in DOMAIN ClientThreads
      PROVE  Mine(ClientThreads[i]) = CountedOn(i - 1) /\ Id[ClientThreads[i]] = i - 1
  BY <1>2, <1>3 DEF PoolInv, Placed, Mine, CountedOn
<1> QED BY <1>2, <1>3, <1>4 DEF PoolInv, Exact, Homes

\* However many clients and threads there are: between two operations each worker
\* counts the clients that it serves and stands where its number says, and every
\* client has a worker, when one connection and one worker are dealt with at a time
\* (ServerLoop, Start, DisconnectClient, RemoveThread).
THEOREM PoolCountsAreExact == Overlaps = {} => (Spec => []CountsExact)
<1> SUFFICES ASSUME Overlaps = {} PROVE Spec => []CountsExact
  OBVIOUS
<1>1. Init => PoolInv
  BY PoolInit
<1>2. PoolInv /\ [Next]_vars => PoolInv'
  BY PoolNext
<1>3. PoolInv => CountsExact
  BY CountsFollow
<1> QED BY <1>1, <1>2, <1>3, PTL DEF Spec

\* Under the same condition no worker object is used after RemoveThread has deleted
\* it, and no client has a number beyond the end of ClientThreads when that is looked
\* up.
THEOREM NothingGoneIsUsed == Overlaps = {} => (Spec => []NothingStaleUsed)
<1> SUFFICES ASSUME Overlaps = {} PROVE Spec => []NothingStaleUsed
  OBVIOUS
<1>1. Init => PoolInv
  BY PoolInit
<1>2. PoolInv /\ [Next]_vars => PoolInv'
  BY PoolNext
<1>3. PoolInv => NothingStaleUsed
  BY DEF PoolInv, NothingStaleUsed
<1> QED BY <1>1, <1>2, <1>3, PTL DEF Spec
-----------------------------------------------------------------------------
(* The buffered file                                                        *)

\* A buffer that has just been filled is a window of the file.
LEMMA FilledWindow ==
  ASSUME NEW file \in Seq(Nat), NEW from \in Nat, NEW old \in [Places -> Nat]
  PROVE  /\ Filled(file, from, old) \in [Places -> Nat]
         /\ \A i \in Places : from + i < Len(file) => Filled(file, from, old)[i] = file[from + i + 1]
  <1>1. ASSUME NEW i \in Places, from + i < Len(file) PROVE file[from + i + 1] \in Nat
    BY <1>1, BufferThere DEF Places
  <1> QED BY <1>1 DEF Filled

LEMMA BufInitInv == BufInit => BufInv
  <1> SUFFICES ASSUME BufInit PROVE BufInv
    OBVIOUS
  <1>1. Unread \in [Places -> Nat]
    BY DEF Unread
  <1>2. BufTypeOK
    <2>1. <<>> \in Seq(Nat)
      OBVIOUS
    <2>2. dataBuffer = Unread /\ got = <<>> /\ content \in Contents /\ bOpen = FALSE
      BY DEF BufInit
    <2>3. currentBufferPos = 0 /\ currentReadPos = 0 /\ gotFrom = 0
      BY DEF BufInit
    <2> QED BY <1>1, <2>1, <2>2, <2>3 DEF BufTypeOK
  <1>3. Window /\ ReadsTheFile
    BY DEF BufInit, Window, ReadsTheFile
  <1> QED BY <1>2, <1>3 DEF BufInv

\* CheckBuffer: afterwards the next n bytes are in the window.
LEMMA CheckBuffer ==
  ASSUME BufTypeOK, Window, bOpen, NEW n \in Nat
  PROVE  /\ BufferPos(n) \in Nat /\ BufferPos(n) <= currentReadPos
         /\ BufferFor(n) \in [Places -> Nat]
         /\ \A i \in Places : BufferPos(n) + i < Len(content)
                                => BufferFor(n)[i] = content[BufferPos(n) + i + 1]
         /\ n <= BufferSize => currentReadPos + n <= BufferPos(n) + BufferSize
  <1>1. /\ content \in Seq(Nat) /\ dataBuffer \in [Places -> Nat]
        /\ currentBufferPos \in Nat /\ currentReadPos \in Nat
    BY ContentsAreFiles DEF BufTypeOK
  <1>2. CASE Short(n)
    <2>1. BufferPos(n) = currentReadPos /\ BufferFor(n) = Filled(content, currentReadPos, dataBuffer)
      BY <1>2 DEF BufferPos, BufferFor
    <2> QED BY <1>1, <2>1, FilledWindow, BufferThere
  <1>3. CASE ~Short(n)
    <2>1. BufferPos(n) = currentBufferPos /\ BufferFor(n) = dataBuffer
      BY <1>3 DEF BufferPos, BufferFor
    <2>2. currentReadPos + n <= currentBufferPos + BufferSize
      BY <1>1, <1>3, BufferThere DEF Short
    <2> QED BY <1>1, <2>1, <2>2 DEF Window
  <1> QED BY <1>2, <1>3

\* A file is opened: the buffer shows its beginning, and nothing has been read.
LEMMA OpenKeeps ==
  ASSUME BufInv, NEW file \in Contents, BufOpen(file)
  PROVE  BufInv'
  <1>1. file \in Seq(Nat) /\ dataBuffer \in [Places -> Nat]
    BY ContentsAreFiles DEF BufInv, BufTypeOK
  <1>2. BufTypeOK'
    BY <1>1, FilledWindow DEF BufInv, BufTypeOK, BufOpen
  <1>3. Window'
    BY <1>1, FilledWindow DEF Window, BufOpen
  <1>4. ReadsTheFile'
    BY DEF ReadsTheFile, BufOpen
  <1> QED BY <1>2, <1>3, <1>4 DEF BufInv

\* Bytes are read out of the window.
LEMMA GetKeeps ==
  ASSUME BufInv, NEW n \in Nat, BufGet(n)
  PROVE  BufInv'
  <1>1. /\ content \in Seq(Nat) /\ currentReadPos \in Nat /\ BufTypeOK /\ Window /\ bOpen
    BY ContentsAreFiles DEF BufInv, BufTypeOK, BufGet
  <1>2. n \in Nat /\ 1 <= n /\ n <= BufferSize
    BY BufferThere DEF BufGet
  <1>3. /\ BufferPos(n) \in Nat /\ BufferPos(n) <= currentReadPos
        /\ BufferFor(n) \in [Places -> Nat]
        /\ \A i \in Places : BufferPos(n) + i < Len(content)
                               => BufferFor(n)[i] = content[BufferPos(n) + i + 1]
        /\ currentReadPos + n <= BufferPos(n) + BufferSize
    BY <1>1, <1>2, CheckBuffer
  <1> DEFINE place(i) == currentReadPos - BufferPos(n) + i - 1
  <1>4. \A i \in 1..n : place(i) \in Places /\ BufferPos(n) + place(i) = currentReadPos + i - 1
    <2>1. \A from, pos, size \in Nat, i \in 1..n :
            from <= pos /\ pos + n <= from + size
              => pos - from + i - 1 \in 0..(size - 1) /\ from + (pos - from + i - 1) = pos + i - 1
      BY <1>2
    <2>2. BufferSize \in Nat
      BY BufferThere
    <2>3. ASSUME NEW i \in 1..n
          PROVE  /\ currentReadPos - BufferPos(n) + i - 1 \in 0..(BufferSize - 1)
                 /\ BufferPos(n) + (currentReadPos - BufferPos(n) + i - 1) = currentReadPos + i - 1
      BY <1>1, <1>3, <2>1, <2>2
    <2> QED BY <2>3 DEF Places
  <1>5. got' \in Seq(Nat) /\ DOMAIN got' = 1..n /\ \A i \in 1..n : got'[i] = BufferFor(n)[place(i)]
    <2>1. got' = [i \in 1..n |-> BufferFor(n)[place(i)]]
      BY DEF BufGet
    <2>2. \A i \in 1..n : BufferFor(n)[place(i)] \in Nat
      BY <1>3, <1>4
    <2> HIDE DEF place
    <2> QED BY <2>1, <2>2, <1>2
  <1>6. BufTypeOK'
    BY <1>1, <1>2, <1>3, <1>5 DEF BufTypeOK, BufGet
  <1>7. Window'
    BY <1>1, <1>2, <1>3 DEF Window, BufGet
  <1>8. ReadsTheFile'
    <2> SUFFICES ASSUME NEW i \in 1..n, currentReadPos + i <= Len(content)
                 PROVE  got'[i] = content[currentReadPos + i]
      BY <1>5 DEF ReadsTheFile, BufGet
    <2>1. BufferPos(n) + place(i) < Len(content)
      <3>1. BufferPos(n) + place(i) = currentReadPos + i - 1
        BY <1>4
      <3>2. Len(content) \in Nat
        BY <1>1
      <3> HIDE DEF place
      <3> QED BY <1>1, <3>1, <3>2
    <2>2. BufferFor(n)[place(i)] = content[BufferPos(n) + place(i) + 1]
      BY <1>3, <1>4, <2>1
    <2>3. BufferPos(n) + place(i) + 1 = currentReadPos + i
      BY <1>1, <1>3, <1>4
    <2> HIDE DEF place
    <2> QED BY <1>5, <2>2, <2>3
  <1> QED BY <1>6, <1>7, <1>8 DEF BufInv

\* One goes on without reading; the window may stay behind.
LEMMA SkipKeeps ==
  ASSUME BufInv, NEW n \in Nat, BufSkip(n)
  PROVE  BufInv'
  <1>1. /\ content \in Seq(Nat) /\ currentReadPos \in Nat /\ BufTypeOK /\ Window
        /\ currentReadPos' = currentReadPos + n
        /\ content' = content /\ bOpen' = bOpen /\ gotFrom' = gotFrom /\ got' = got
    BY ContentsAreFiles DEF BufInv, BufTypeOK, BufSkip
  <1>2. CASE bOpen
    <2>1. /\ currentBufferPos' = BufferPos(n) /\ dataBuffer' = BufferFor(n)
      BY <1>2 DEF BufSkip
    <2>2. /\ BufferPos(n) \in Nat /\ BufferPos(n) <= currentReadPos
          /\ BufferFor(n) \in [Places -> Nat]
          /\ \A i \in Places : BufferPos(n) + i < Len(content)
                                 => BufferFor(n)[i] = content[BufferPos(n) + i + 1]
      BY <1>1, <1>2, CheckBuffer
    <2>3. BufTypeOK'
      BY <1>1, <2>1, <2>2 DEF BufTypeOK
    <2>4. Window'
      BY <1>1, <2>1, <2>2 DEF Window
    <2> QED BY <1>1, <2>3, <2>4 DEF BufInv, ReadsTheFile
  <1>3. CASE ~bOpen
    BY <1>1, <1>3 DEF BufInv, BufTypeOK, Window, ReadsTheFile, BufSkip
  <1> QED BY <1>2, <1>3

\* One goes somewhere else, with the window.
LEMMA SeekKeeps ==
  ASSUME BufInv, NEW newPos \in Nat, BufSeek(newPos)
  PROVE  BufInv'
  <1>1. content \in Seq(Nat) /\ dataBuffer \in [Places -> Nat]
    BY ContentsAreFiles DEF BufInv, BufTypeOK
  <1>2. BufTypeOK'
    BY <1>1, FilledWindow DEF BufInv, BufTypeOK, BufSeek
  <1>3. Window'
    BY <1>1, FilledWindow DEF Window, BufSeek
  <1>4. ReadsTheFile'
    BY DEF BufInv, ReadsTheFile, BufSeek
  <1> QED BY <1>2, <1>3, <1>4 DEF BufInv

\* The window follows the reader.
LEMMA BufInvariant == BufSpec => []BufInv
  <1>1. BufInv /\ [BufNext]_bufVars => BufInv'
    <2> SUFFICES ASSUME BufInv, [BufNext]_bufVars PROVE BufInv'
      OBVIOUS
    <2>1. CASE \E file \in Contents : BufOpen(file)
      BY <2>1, OpenKeeps
    <2>2. CASE BufClose
      BY <2>2 DEF BufInv, BufTypeOK, Window, ReadsTheFile, BufClose
    <2>3. CASE \E n \in 0..MaxPos : BufGet(n) \/ BufSkip(n) \/ BufSeek(n)
      <3>1. PICK n \in Nat : BufGet(n) \/ BufSkip(n) \/ BufSeek(n)
        BY <2>3, BufferThere
      <3> QED BY <3>1, GetKeeps, SkipKeeps, SeekKeeps
    <2>4. CASE UNCHANGED bufVars
      BY <2>4 DEF bufVars, BufInv, BufTypeOK, Window, ReadsTheFile
    <2> QED BY <2>1, <2>2, <2>3, <2>4 DEF BufNext
  <1> QED BY <1>1, BufInitInv, PTL DEF BufSpec

\* What is read is what the file has there, whatever the size of the buffer and
\* wherever one came from (CTitanBufferedFile.hpp:79).
THEOREM BufferedReadsAreRight == BufSpec => []ReadsTheFile
  <1>1. BufInv => ReadsTheFile
    BY DEF BufInv
  <1> QED BY <1>1, BufInvariant, PTL
-----------------------------------------------------------------------------
(* The file, and the configuration reader on top of it                      *)

\* The type of a file is the one that Open should have found, as far as it could.
TypeKnown ==
  ~opened.stale /\ ~opened.garbage =>
    ftype = IF opened.binary THEN "binary"
            ELSE IF opened.unicode THEN "unicode" ELSE "ascii"

\* Whatever is open after a call was open before it, and is known by the same type.
StaysOpen == (IsOpen' => IsOpen) /\ ftype' = ftype /\ opened' = opened

\* What the file is taken for stays right as long as it stays open.
LEMMA OpenKeepsType == TypeFits /\ StaysOpen => TypeFits'
  BY DEF TypeFits, StaysOpen

\* Open of a text file finds its type out, whatever the type of the one before.
LEMMA TextFindsType ==
  ASSUME NEW name, NEW mode, NEW garbage \in BOOLEAN, OpenText(name, mode, garbage)
  PROVE  TypeKnown'
  <1> DEFINE header == IF "read" \in mode /\ Len(disk'[name]) > 1
                       THEN HasHeader(disk'[name]) ELSE garbage
  <1>1. /\ ftype' = IF header THEN "unicode" ELSE "ascii"
        /\ opened' = [unicode |-> HasHeader(disk'[name]), binary |-> FALSE, stale |-> FALSE,
                      garbage |-> ~("read" \in mode /\ Len(disk'[name]) > 1)]
    BY DEF OpenText
  <1>2. ~opened'.garbage => header = HasHeader(disk'[name])
    BY <1>1
  <1>3. ~opened'.binary /\ (opened'.unicode <=> HasHeader(disk'[name]))
    BY <1>1
  <1> QED BY <1>1, <1>2, <1>3 DEF TypeKnown

\* Open finds the type of the file out, or leaves the file closed.
LEMMA OpenFindsType ==
  ASSUME NEW name, NEW mode, OpenFile(name, mode)
  PROVE  TypeFits'
  <1>1. ASSUME NEW garbage \in BOOLEAN, OpenText(name, mode, garbage)
        PROVE  TypeFits'
    BY <1>1, TextFindsType DEF TypeFits, TypeKnown
  <1>2. CASE OpenBinary(name, mode)
    BY <1>2 DEF OpenBinary, TypeFits
  <1>3. CASE OpenFails(name, mode)
    BY <1>3 DEF OpenFails, IsOpen, TypeFits
  <1> QED BY <1>1, <1>2, <1>3 DEF OpenFile

\* Nothing that reads opens a file, or changes what it is taken for.
LEMMA ReadingStaysOpen ==
  ASSUME \/ GoToStart \/ FileSize \/ ReadFileToMemory \/ GetC \/ ReadLn \/ Denied
         \/ \E n : Seek(n) \/ Read(n) \/ ReadFromTo(n, n + 1)
  PROVE  StaysOpen
  <1>1. CASE GoToStart \/ FileSize \/ ReadFileToMemory \/ GetC
    BY <1>1 DEF GoToStart, FileSize, ReadFileToMemory, GetC, Reading, Fine, Kept, StaysOpen
  <1>2. CASE ReadLn
    BY <1>2 DEF ReadLn, Reading, Fine, Fails, Kept, StaysOpen
  <1>3. CASE Denied
    BY <1>3 DEF Denied, Fails, Kept, IsOpen, StaysOpen
  <1>4. ASSUME NEW n, Seek(n) \/ Read(n) \/ ReadFromTo(n, n + 1)
        PROVE  StaysOpen
    BY <1>4 DEF Seek, Read, ReadFromTo, Reading, Fine, Kept, StaysOpen
  <1> QED BY <1>1, <1>2, <1>3, <1>4

\* Nor does anything that writes.
LEMMA WritingStaysOpen ==
  ASSUME \/ \E bytes : Write(bytes) \/ PutS(bytes)
         \/ \E bytes, n : WriteFrom(bytes, n)
         \/ \E byte : PutC(byte)
  PROVE  StaysOpen
  <1>1. ASSUME NEW file, NEW bytes, IsOpen, Puts(file, bytes)
        PROVE  StaysOpen
    BY <1>1 DEF Puts, StaysOpen
  <1>2. ASSUME NEW bytes, Write(bytes) \/ PutS(bytes) PROVE StaysOpen
    BY <1>1, <1>2 DEF Write, PutS, Writing
  <1>3. ASSUME NEW bytes, NEW n, WriteFrom(bytes, n) PROVE StaysOpen
    BY <1>1, <1>3 DEF WriteFrom, Writing
  <1>4. ASSUME NEW byte, PutC(byte) PROVE StaysOpen
    <2>1. CASE ftype = "unicode"
      BY <1>4, <2>1 DEF PutC, Writing, Kept, IsOpen, StaysOpen
    <2>2. CASE ftype # "unicode"
      BY <1>1, <1>4, <2>2 DEF PutC, Writing
    <2> QED BY <2>1, <2>2
  <1> QED BY <1>2, <1>3, <1>4

\* A file that is open is taken for what it is, binary, unicode or ascii, in whatever
\* order files are opened, used and closed (CTitanFile.hpp:234).
THEOREM FilesAreTakenForWhatTheyAre == FileInit /\ [][FileNext]_fileVars => []TypeFits
  <1>1. FileInit => TypeFits
    BY DEF FileInit, IsOpen, TypeFits
  <1>2. TypeFits /\ [FileNext]_fileVars => TypeFits'
    <2> SUFFICES ASSUME TypeFits, [FileNext]_fileVars PROVE TypeFits'
      OBVIOUS
    <2>1. CASE \E name \in Names, mode \in Modes, kind \in {{}, Binary} : OpenFile(name, mode \cup kind)
      BY <2>1, OpenFindsType
    <2>2. CASE CloseFile
      BY <2>2 DEF CloseFile, IsOpen, TypeFits
    <2>3. CASE \/ GoToStart \/ FileSize \/ ReadFileToMemory \/ GetC \/ ReadLn \/ Denied
               \/ \E n \in 0..MaxFile : Seek(n) \/ Read(n) \/ ReadFromTo(n, n + 1)
      BY <2>3, ReadingStaysOpen, OpenKeepsType
    <2>4. CASE \/ \E b \in FileBytes : Write(<<b>>) \/ PutS(<<b>>) \/ PutC(b)
               \/ \E n \in 0..MaxFile, b \in FileBytes : WriteFrom(<<b>>, n)
      BY <2>4, WritingStaysOpen, OpenKeepsType
    <2>5. CASE UNCHANGED fileVars
      BY <2>5 DEF fileVars, IsOpen, TypeFits
    <2> QED BY <2>1, <2>2, <2>3, <2>4, <2>5 DEF FileNext, Calls
  <1> QED BY <1>1, <1>2, PTL

\* While ReadINI reads, the type of the file is known; before and after, none is open.
IniInv == IF reading = "yes" THEN TypeKnown ELSE ~IsOpen

\* The configuration reader, too, takes the file it reads for what it is
\* (CTitanIniReader.hpp:44).
THEOREM ReadersFileFits ==
  FileInit /\ IniInit /\ [][IniNext]_<<fileVars, iniVars>> => []TypeFits
  <1>1. FileInit /\ IniInit => IniInv
    BY DEF FileInit, IniInit, IsOpen, IniInv
  <1>2. IniInv /\ [IniNext]_<<fileVars, iniVars>> => IniInv'
    <2> SUFFICES ASSUME IniInv, [IniNext]_<<fileVars, iniVars>> PROVE IniInv'
      OBVIOUS
    <2>1. CASE ReadINI
      BY <2>1, TextFindsType DEF ReadINI, IniInv
    <2>2. CASE ReadLine
      BY <2>2 DEF ReadLine, IniInv, TypeKnown
    <2>3. CASE ReadEnds
      BY <2>3 DEF ReadEnds, IsOpen, IniInv
    <2>4. CASE UNCHANGED <<fileVars, iniVars>>
      BY <2>4 DEF fileVars, iniVars, IsOpen, IniInv, TypeKnown
    <2> QED BY <2>1, <2>2, <2>3, <2>4 DEF IniNext
  <1>3. IniInv => TypeFits
    BY DEF IniInv, TypeKnown, TypeFits
  <1> QED BY <1>1, <1>2, <1>3, PTL
-----------------------------------------------------------------------------
(* The fields of a packet                                                   *)

\* A set of numbers that has 0, and with each number the next, has them all.
LEMMA NaturalInduction ==
  ASSUME NEW S, 0 \in S, \A n \in Nat : n \in S => n + 1 \in S
  PROVE  \A n \in Nat : n \in S
<1> SUFFICES ASSUME Nat \ S # {} PROVE FALSE
  OBVIOUS
<1>1. PICK m \in Nat \ S : \A n \in Nat \ S : <<n, m>> \notin OpToRel(<, Nat)
  BY NatLessThanWellFounded, WFMin
<1>2. m \in Nat /\ m # 0 /\ \A n \in Nat \ S : ~(n < m)
  BY <1>1 DEF OpToRel
<1>3. m - 1 \in Nat /\ (m - 1) + 1 = m /\ m - 1 < m
  BY <1>2
<1>4. m - 1 \in S
  BY <1>2, <1>3
<1> QED BY <1>1, <1>3, <1>4

\* The loop that FlattenSeq is, over the first n parts.
Flattens(f, parts, n) ==
  f = [k \in 1..n |-> IF k = 1 THEN parts[k] ELSE f[k - 1] \o parts[k]]

\* It can be carried on.
LEMMA FlattensOn ==
  ASSUME NEW parts, NEW n \in Nat, NEW f, Flattens(f, parts, n)
  PROVE  \E g : Flattens(g, parts, n + 1)
<1> DEFINE g == [k \in 1..(n + 1) |-> IF k = n + 1 THEN IF k = 1 THEN parts[k] ELSE f[n] \o parts[k]
                                                    ELSE f[k]]
           body(h, k) == IF k = 1 THEN parts[k] ELSE h[k - 1] \o parts[k]
<1>1. \A k \in 1..n : f[k] = body(f, k)
  BY DEF Flattens
<1>2. ASSUME NEW k \in 1..(n + 1) PROVE g[k] = body(g, k)
  <2>1. CASE k = n + 1
    <3>1. CASE k = 1
      BY <2>1, <3>1
    <3>2. CASE k # 1
      <4>1. n \in 1..(n + 1) /\ n # n + 1 /\ k - 1 = n
        BY <2>1, <3>2
      <4>2. g[n] = f[n]
        BY <4>1
      <4>3. g[k] = f[n] \o parts[k]
        BY <2>1, <3>2
      <4> HIDE DEF g
      <4> QED BY <3>2, <4>1, <4>2, <4>3
    <3> QED BY <3>1, <3>2
  <2>2. CASE k # n + 1
    <3>1. k \in 1..n
      BY <2>2
    <3>2. g[k] = f[k]
      BY <2>2
    <3>3. k # 1 => g[k - 1] = f[k - 1]
      BY <3>1
    <3>4. f[k] = body(f, k)
      BY <1>1, <3>1
    <3> HIDE DEF g
    <3> QED BY <3>2, <3>3, <3>4
  <2> QED BY <2>1, <2>2
<1>3. Flattens(g, parts, n + 1)
  BY <1>2 DEF Flattens
<1> QED BY <1>3

\* There is such a loop, over as many parts as there are.
LEMMA FlattensThere ==
  ASSUME NEW parts, NEW n \in Nat
  PROVE  \E f : Flattens(f, parts, n)
<1> DEFINE can == {m \in Nat : \E f : Flattens(f, parts, m)}
<1>1. 0 \in can
  <2>1. Flattens([k \in 1..0 |-> 0], parts, 0)
    BY DEF Flattens
  <2> QED BY <2>1
<1>2. \A m \in Nat : m \in can => m + 1 \in can
  BY FlattensOn
<1> HIDE DEF can
<1>3. n \in can
  BY <1>1, <1>2, NaturalInduction
<1> QED BY <1>3 DEF can

\* The first n of some parts.
Firsts(parts, n) == [k \in 1..n |-> parts[k]]

\* Any two loops over the same parts agree, as far as both go.
LEMMA FlattensAgree ==
  ASSUME NEW parts, NEW n \in Nat, NEW m \in 1..n, NEW f, Flattens(f, parts, n),
         NEW g, Flattens(g, Firsts(parts, m), m)
  PROVE  g[m] = f[m]
<1> DEFINE same == {k \in Nat : k \in 1..m => g[k] = f[k]}
<1>1. 0 \in same
  OBVIOUS
<1>2. ASSUME NEW k \in Nat, k \in same PROVE k + 1 \in same
  <2> SUFFICES ASSUME k + 1 \in 1..m PROVE g[k + 1] = f[k + 1]
    OBVIOUS
  <2>0. (k + 1) - 1 = k /\ k + 1 \in 1..n /\ Firsts(parts, m)[k + 1] = parts[k + 1]
    BY DEF Firsts
  <2>1. f[k + 1] = IF k + 1 = 1 THEN parts[k + 1] ELSE f[k] \o parts[k + 1]
    BY <2>0 DEF Flattens
  <2>2. g[k + 1] = IF k + 1 = 1 THEN parts[k + 1] ELSE g[k] \o parts[k + 1]
    BY <2>0 DEF Flattens
  <2>3. k + 1 # 1 => g[k] = f[k]
    BY <1>2
  <2> QED BY <2>1, <2>2, <2>3
<1> HIDE DEF same
<1>3. \A k \in Nat : k \in same
  BY <1>1, <1>2, NaturalInduction
<1> QED BY <1>3 DEF same

\* What FlattenSeq makes of the first m parts: the loop's m-th value.
LEMMA FlattenIs ==
  ASSUME NEW parts, NEW n \in Nat, NEW f, Flattens(f, parts, n), NEW m \in 1..n
  PROVE  FlattenSeq(Firsts(parts, m)) = f[m]
<1> DEFINE seqs == Firsts(parts, m)
           flat == CHOOSE g : Flattens(g, seqs, Len(seqs))
<1>1. Len(seqs) = m /\ m # 0
  BY DEF Firsts
<1>2. FlattenSeq(seqs) = flat[Len(seqs)]
  BY <1>1 DEF FlattenSeq, Flattens
<1>3. Flattens(flat, seqs, Len(seqs))
  BY <1>1, FlattensThere
<1> HIDE DEF flat, seqs
<1>4. Flattens(flat, seqs, m) /\ FlattenSeq(seqs) = flat[m]
  BY <1>1, <1>2, <1>3
<1>5. flat[m] = f[m]
  BY <1>4, FlattensAgree DEF seqs
<1> QED BY <1>4, <1>5 DEF seqs

\* FlattenSeq, part by part: what it makes of the first m of n sequences.
LEMMA FlattenParts ==
  ASSUME NEW S, NEW n \in Nat, NEW parts, \A i \in 1..n : parts[i] \in Seq(S)
  PROVE  /\ FlattenSeq(Firsts(parts, 0)) = <<>>
         /\ \A m \in 1..n : FlattenSeq(Firsts(parts, m)) = FlattenSeq(Firsts(parts, m - 1)) \o parts[m]
         /\ \A m \in 0..n : FlattenSeq(Firsts(parts, m)) \in Seq(S)
<1> DEFINE flat(m) == FlattenSeq(Firsts(parts, m))
<1>1. flat(0) = <<>>
  <2>1. Firsts(parts, 0) = <<>>
    BY DEF Firsts
  <2> QED BY <2>1 DEF FlattenSeq
<1>2. PICK f : Flattens(f, parts, n)
  BY FlattensThere
<1>3. \A m \in 1..n : flat(m) = f[m]
  BY <1>2, FlattenIs
<1>4. \A m \in 1..n : f[m] = IF m = 1 THEN parts[m] ELSE f[m - 1] \o parts[m]
  BY <1>2 DEF Flattens
<1> HIDE DEF flat
<1>5. ASSUME NEW m \in 1..n PROVE flat(m) = flat(m - 1) \o parts[m]
  <2>1. CASE m = 1
    <3>1. flat(m - 1) = <<>> /\ flat(m) = parts[m]
      BY <1>1, <1>3, <1>4, <2>1
    <3>2. <<>> \o parts[m] = parts[m]
      BY ConcatEmptySeq
    <3> QED BY <3>1, <3>2
  <2>2. CASE m # 1
    <3>1. m - 1 \in 1..n
      BY <2>2
    <3> QED BY <1>3, <1>4, <2>2, <3>1
  <2> QED BY <2>1, <2>2
<1> DEFINE typed == {m \in Nat : m \in 0..n => flat(m) \in Seq(S)}
<1>6. 0 \in typed
  BY <1>1, EmptySeq
<1>7. ASSUME NEW m \in Nat, m \in typed PROVE m + 1 \in typed
  <2> SUFFICES ASSUME m + 1 \in 0..n PROVE flat(m + 1) \in Seq(S)
    OBVIOUS
  <2>1. m \in 0..n /\ m + 1 \in 1..n /\ (m + 1) - 1 = m
    OBVIOUS
  <2>2. flat(m) \in Seq(S) /\ parts[m + 1] \in Seq(S) /\ flat(m + 1) = flat(m) \o parts[m + 1]
    BY <1>5, <1>7, <2>1
  <2> QED BY <2>2, ConcatProperties
<1> HIDE DEF typed
<1>8. \A m \in Nat : m \in typed
  BY <1>6, <1>7, NaturalInduction
<1>9. \A m \in 0..n : flat(m) \in Seq(S)
  BY <1>8 DEF typed
<1> QED BY <1>1, <1>5, <1>9 DEF flat

\* The powers are what their name says.
LEMMA PowerIs ==
  /\ Power[0] = 1
  /\ \A k \in 1..4 : Power[k] = ByteRadix * Power[k - 1]
  /\ \A k \in 0..4 : Power[k] \in Nat /\ Power[k] > 0
<1> DEFINE r == ByteRadix
           body(f, k) == IF k = 0 THEN 1 ELSE r * f[k - 1]
           f4 == [k \in 0..4 |-> IF k = 0 THEN 1 ELSE IF k = 1 THEN r ELSE IF k = 2 THEN r * r
                                 ELSE IF k = 3 THEN r * (r * r) ELSE r * (r * (r * r))]
<1>1. r \in Nat /\ r > 0
  BY ByteIs
<1> HIDE DEF r
<1>2. ASSUME NEW k \in 0..4 PROVE f4[k] = body(f4, k)
  <2>1. f4[0] = 1 /\ f4[1] = r /\ f4[2] = r * r /\ f4[3] = r * (r * r) /\ f4[4] = r * (r * (r * r))
    OBVIOUS
  <2>2. r * 1 = r
    BY <1>1
  <2>3. k = 0 \/ k = 1 \/ k = 2 \/ k = 3 \/ k = 4
    OBVIOUS
  <2> HIDE DEF f4
  <2> QED BY <2>1, <2>2, <2>3
<1>3. f4 = [k \in 0..4 |-> body(f4, k)]
  BY <1>2
<1>4. Power = CHOOSE f : f = [k \in 0..4 |-> IF k = 0 THEN 1 ELSE r * f[k - 1]]
  BY DEF Power, r
<1> HIDE DEF f4
<1>5. Power = [k \in 0..4 |-> IF k = 0 THEN 1 ELSE r * Power[k - 1]]
  BY <1>3, <1>4
<1>6. Power[0] = 1 /\ \A k \in 1..4 : Power[k] = r * Power[k - 1]
  BY <1>5
<1>7. \A a \in Nat : a > 0 => r * a \in Nat /\ r * a > 0
  BY <1>1
<1>8. Power[1] = r * Power[0] /\ Power[2] = r * Power[1] /\ Power[3] = r * Power[2] /\ Power[4] = r * Power[3]
  BY <1>6
<1>9. Power[0] \in Nat /\ Power[0] > 0
  BY <1>6
<1>10. Power[1] \in Nat /\ Power[1] > 0
  BY <1>7, <1>8, <1>9
<1>11. Power[2] \in Nat /\ Power[2] > 0
  BY <1>7, <1>8, <1>10
<1>12. Power[3] \in Nat /\ Power[3] > 0
  BY <1>7, <1>8, <1>11
<1>13. Power[4] \in Nat /\ Power[4] > 0
  BY <1>7, <1>8, <1>12
<1> HIDE DEF body
<1> QED BY <1>6, <1>9, <1>10, <1>11, <1>12, <1>13 DEF r

\* The loop that Value is, over the places from n - m + 1 on of n bytes: a function of
\* the places that are still to be added.
Adds(f, bytes, n, m) ==
  f = [s \in SUBSET ((n - m + 1)..n) |->
         IF s = {} THEN 0 ELSE bytes[Min(s)] + ByteRadix * f[s \ {Min(s)}]]

\* The least of some places.
LEMMA LeastIs ==
  ASSUME NEW s, s \subseteq Nat, NEW x \in s, \A y \in s : x <= y
  PROVE  Min(s) = x
<1>1. Min(s) \in s /\ \A y \in s : Min(s) <= y
  BY MinIsThere
<1>2. x \in Nat /\ Min(s) \in Nat /\ Min(s) <= x /\ x <= Min(s)
  BY <1>1
<1> QED BY <1>2

\* It can be carried on by one place more in front.
LEMMA AddsOn ==
  ASSUME NEW bytes, NEW n \in Nat, NEW m \in Nat, m + 1 <= n, NEW f, Adds(f, bytes, n, m)
  PROVE  \E g : Adds(g, bytes, n, m + 1)
<1> DEFINE x == n - m
           D == (n - m + 1)..n
           E == (n - (m + 1) + 1)..n
           body(h, s) == IF s = {} THEN 0 ELSE bytes[Min(s)] + ByteRadix * h[s \ {Min(s)}]
           g == [s \in SUBSET E |-> IF x \in s THEN bytes[x] + ByteRadix * f[s \ {x}] ELSE f[s]]
<1>1. x \in Nat /\ E = D \cup {x} /\ x \notin D /\ E \subseteq Nat /\ \A y \in E : x <= y
  OBVIOUS
<1>2. f = [s \in SUBSET D |-> body(f, s)]
  BY DEF Adds
<1> HIDE DEF x, D, E
<1>3. ASSUME NEW s \in SUBSET E PROVE g[s] = body(g, s)
  <2>1. CASE x \in s
    <3>1. Min(s) = x
      BY <1>1, <2>1, LeastIs
    <3>2. s \ {x} \in SUBSET D /\ s \ {x} \in SUBSET E /\ x \notin s \ {x}
      BY <1>1
    <3>3. g[s \ {x}] = f[s \ {x}]
      BY <3>2
    <3>4. g[s] = bytes[x] + ByteRadix * f[s \ {x}]
      BY <2>1
    <3> HIDE DEF g
    <3> QED BY <2>1, <3>1, <3>3, <3>4
  <2>2. CASE x \notin s
    <3>1. s \in SUBSET D
      BY <1>1, <2>2
    <3>2. g[s] = f[s]
      BY <2>2
    <3>3. f[s] = body(f, s)
      BY <1>2, <3>1
    <3>4. CASE s = {}
      <4> HIDE DEF g
      <4> QED BY <3>2, <3>3, <3>4
    <3>5. CASE s # {}
      <4>1. s \ {Min(s)} \in SUBSET E /\ x \notin s \ {Min(s)}
        BY <2>2
      <4>2. g[s \ {Min(s)}] = f[s \ {Min(s)}]
        BY <4>1
      <4> HIDE DEF g
      <4> QED BY <3>2, <3>3, <3>5, <4>2
    <3> QED BY <3>4, <3>5
  <2> QED BY <2>1, <2>2
<1>4. g = [s \in SUBSET E |-> body(g, s)]
  BY <1>3
<1>5. Adds(g, bytes, n, m + 1)
  BY <1>4 DEF Adds, E
<1> QED BY <1>5

\* There is such a loop over all places.
LEMMA AddsThere ==
  ASSUME NEW bytes, NEW n \in Nat
  PROVE  \E f : Adds(f, bytes, n, n)
<1> DEFINE can == {m \in Nat : m <= n => \E f : Adds(f, bytes, n, m)}
<1>1. 0 \in can
  <2>1. Adds([s \in SUBSET ((n - 0 + 1)..n) |-> 0], bytes, n, 0)
    <3>1. \A s \in SUBSET ((n - 0 + 1)..n) : s = {}
      OBVIOUS
    <3> QED BY <3>1 DEF Adds
  <2> QED BY <2>1
<1>2. ASSUME NEW m \in Nat, m \in can PROVE m + 1 \in can
  BY <1>2, AddsOn
<1> HIDE DEF can
<1>3. n \in can
  BY <1>1, <1>2, NaturalInduction
<1> QED BY <1>3 DEF can

\* What f has for all n places is what Value makes of the bytes, one by one.
AddsUp(f, bytes, n) == /\ f[{}] = 0 /\ f[1..n] = Value(bytes)
                       /\ \A k \in 1..n : f[k..n] = bytes[k] + ByteRadix * f[(k + 1)..n]

\* Value, byte by byte.
LEMMA ValueLoop ==
  ASSUME NEW n \in Nat, NEW bytes, DOMAIN bytes = 1..n
  PROVE  \E f : AddsUp(f, bytes, n)
<1> DEFINE f == CHOOSE f : f = [s \in SUBSET (DOMAIN bytes) |->
                  IF s = {} THEN 0 ELSE bytes[Min(s)] + ByteRadix * f[s \ {Min(s)}]]
<1>1. Value(bytes) = f[DOMAIN bytes]
  BY DEF Value, FoldRight, MapThenFoldSet
<1>2. \E g : g = [s \in SUBSET (DOMAIN bytes) |->
                    IF s = {} THEN 0 ELSE bytes[Min(s)] + ByteRadix * g[s \ {Min(s)}]]
  <2>1. PICK g : Adds(g, bytes, n, n)
    BY AddsThere
  <2>2. n - n + 1 = 1
    OBVIOUS
  <2> QED BY <2>1, <2>2 DEF Adds
<1>3. f = [s \in SUBSET (DOMAIN bytes) |->
             IF s = {} THEN 0 ELSE bytes[Min(s)] + ByteRadix * f[s \ {Min(s)}]]
  BY <1>2
<1> HIDE DEF f
<1>4. \A s \in SUBSET (1..n) : f[s] = IF s = {} THEN 0 ELSE bytes[Min(s)] + ByteRadix * f[s \ {Min(s)}]
  BY <1>3
<1>5. ASSUME NEW k \in 1..n PROVE f[k..n] = bytes[k] + ByteRadix * f[(k + 1)..n]
  <2>1. k..n \in SUBSET (1..n) /\ k..n # {} /\ k..n \subseteq Nat /\ k \in k..n /\ \A y \in k..n : k <= y
    OBVIOUS
  <2>2. Min(k..n) = k
    BY <2>1, LeastIs
  <2>3. (k..n) \ {k} = (k + 1)..n
    OBVIOUS
  <2> QED BY <1>4, <2>1, <2>2, <2>3
<1>6. f[{}] = 0 /\ f[1..n] = Value(bytes)
  BY <1>1, <1>4
<1> QED BY <1>5, <1>6 DEF AddsUp

\* Dividing by a product is dividing by one factor after the other, and the remainder
\* is that of the first with what the second leaves above it.
DividesOn(a, b, c) == a \div (b * c) = (a \div b) \div c
LeavesOn(a, b, c) == a % (b * c) = (a % b) + b * ((a \div b) % c)

\* Both hold of all numbers.
LEMMA DivTwice ==
  ASSUME NEW a \in Nat, NEW b \in Nat, NEW c \in Nat, b > 0, c > 0
  PROVE  DividesOn(a, b, c) /\ LeavesOn(a, b, c)
<1>1. DividesOn(a, b, c)
  BY SMTT(30) DEF DividesOn
<1>2. LeavesOn(a, b, c)
  BY SMTT(30) DEF LeavesOn
<1> QED BY <1>1, <1>2

\* What a number divided by another is, is a number.
LEMMA DivTyped ==
  ASSUME NEW a \in Nat, NEW b \in Nat, b > 0
  PROVE  a \div b \in Nat
BY SMTT(30)

\* Bytes stand in the packet behind a place.
Stands(bytes, pos) == /\ pos + Len(bytes) <= Len(buffer)
                      /\ \A k \in 1..Len(bytes) : buffer[pos + k] = bytes[k]

Byte == 0..(ByteRadix - 1)

\* The bytes of a number are bytes.
LEMMA NumberTyped ==
  ASSUME NEW n \in Nat, NEW w \in 0..4
  PROVE  NumberBytes(n, w) \in Seq(Byte) /\ Len(NumberBytes(n, w)) = w
<1>1. ASSUME NEW i \in 1..w PROVE (n \div Power[i - 1]) % ByteRadix \in Byte
  <2>1. i - 1 \in 0..4
    OBVIOUS
  <2>2. PICK p \in Nat : p = Power[i - 1] /\ p > 0
    BY <2>1, PowerIs
  <2>3. PICK q \in Nat : q = n \div p
    BY <2>2, DivTyped
  <2>4. ByteRadix \in Nat /\ ByteRadix > 0
    BY ByteIs
  <2>5. q % ByteRadix \in 0..(ByteRadix - 1)
    BY <2>3, <2>4, SMTT(30)
  <2> QED BY <2>2, <2>3, <2>5 DEF Byte
<1>2. NumberBytes(n, w) \in [1..w -> Byte] /\ w \in Nat
  BY <1>1 DEF NumberBytes
<1>3. NumberBytes(n, w) \in Seq(Byte)
  BY <1>2, SeqDef
<1>4. Len(NumberBytes(n, w)) = w
  BY DEF NumberBytes
<1> QED BY <1>3, <1>4

\* The bytes of a number make the number again, as much of it as they can.
LEMMA ValueOfNumber ==
  ASSUME NEW n \in Nat, NEW w \in 0..4, NEW bytes, bytes = NumberBytes(n, w)
  PROVE  Value(bytes) = n % Power[w]
<1>1. w \in Nat /\ DOMAIN bytes = 1..w /\ \A k \in 1..w : bytes[k] = (n \div Power[k - 1]) % ByteRadix
  BY DEF NumberBytes
<1>0. PICK f : AddsUp(f, bytes, w)
  BY <1>1, ValueLoop
<1>2. /\ f[{}] = 0 /\ f[1..w] = Value(bytes)
      /\ \A k \in 1..w : f[k..w] = bytes[k] + ByteRadix * f[(k + 1)..w]
  BY <1>0 DEF AddsUp
<1>3. ByteRadix \in Nat /\ ByteRadix > 0
  BY ByteIs
<1> DEFINE q(k) == n \div Power[k]
           right == {j \in Nat : j <= w => f[(w - j + 1)..w] = q(w - j) % Power[j]}
<1>4. \A k \in 0..4 : q(k) \in Nat
  BY PowerIs, DivTyped
<1>5. ASSUME NEW k \in 1..4 PROVE q(k) = q(k - 1) \div ByteRadix
  <2>1. PICK p \in Nat : p = Power[k - 1] /\ p > 0
    BY PowerIs
  <2>2. Power[k] = p * ByteRadix
    BY <1>3, <2>1, PowerIs
  <2>3. DividesOn(n, p, ByteRadix)
    BY <1>3, <2>1, DivTwice
  <2> QED BY <2>1, <2>2, <2>3 DEF DividesOn
<1>6. 0 \in right
  <2>1. (w - 0 + 1)..w = {}
    OBVIOUS
  <2>2. PICK a \in Nat : a = q(w - 0)
    BY <1>4
  <2>3. a % 1 = 0
    OBVIOUS
  <2> HIDE DEF q
  <2> QED BY <1>2, <2>1, <2>2, <2>3, PowerIs
<1>7. ASSUME NEW j \in Nat, j \in right PROVE j + 1 \in right
  <2> SUFFICES ASSUME j + 1 <= w PROVE f[(w - (j + 1) + 1)..w] = q(w - (j + 1)) % Power[j + 1]
    OBVIOUS
  <2>1. PICK k \in 1..w : k = w - j
    OBVIOUS
  <2>2. w - (j + 1) + 1 = k /\ w - (j + 1) = k - 1 /\ w - j + 1 = k + 1 /\ k - 1 \in 0..4 /\ k \in 1..4
    BY <2>1
  <2>3. f[(k + 1)..w] = q(k) % Power[j]
    <3> HIDE DEF q
    <3> QED BY <1>7, <2>1, <2>2
  <2>4. PICK a \in Nat : a = q(k - 1)
    BY <1>4, <2>2
  <2>5. q(k) = a \div ByteRadix
    <3> HIDE DEF q
    <3> QED BY <1>5, <2>2, <2>4
  <2>6. bytes[k] = a % ByteRadix
    BY <1>1, <2>4
  <2>7. PICK c \in Nat : c = Power[j] /\ c > 0
    BY <2>2, PowerIs
  <2>8. Power[j + 1] = ByteRadix * c
    BY <2>2, <2>7, PowerIs
  <2>9. f[k..w] = (a % ByteRadix) + ByteRadix * ((a \div ByteRadix) % c)
    <3> HIDE DEF q
    <3> QED BY <1>2, <2>3, <2>5, <2>6, <2>7
  <2>10. LeavesOn(a, ByteRadix, c)
    BY <1>3, <2>7, DivTwice
  <2> HIDE DEF q
  <2> QED BY <2>2, <2>4, <2>8, <2>9, <2>10 DEF LeavesOn
<1> HIDE DEF right
<1>8. w \in right
  BY <1>1, <1>6, <1>7, NaturalInduction
<1>9. f[(w - w + 1)..w] = q(w - w) % Power[w] /\ w - w + 1 = 1 /\ w - w = 0
  BY <1>1, <1>8 DEF right
<1>10. q(0) = n
  <2>1. n \div 1 = n
    OBVIOUS
  <2> QED BY <2>1, PowerIs
<1> HIDE DEF q
<1> QED BY <1>2, <1>9, <1>10

\* The part of the packet behind a place.
LEMMA PartOf ==
  ASSUME buffer \in Seq(Byte), NEW pos \in Nat, NEW n \in Nat, pos + n <= Len(buffer)
  PROVE  /\ SubSeq(buffer, pos + 1, pos + n) \in Seq(Byte)
         /\ Len(SubSeq(buffer, pos + 1, pos + n)) = n
         /\ \A i \in 1..n : SubSeq(buffer, pos + 1, pos + n)[i] = buffer[pos + i]
<1>1. PICK len \in Nat : len = Len(buffer) /\ DOMAIN buffer = 1..len
  BY LenProperties
<1>2. PICK lo \in Int, hi \in Int : lo = pos + 1 /\ hi = pos + n
  OBVIOUS
<1>3. \A i \in lo..hi : buffer[i] \in Byte
  BY <1>1, <1>2, ElementOfSeq
<1>4. /\ SubSeq(buffer, lo, hi) \in Seq(Byte)
      /\ Len(SubSeq(buffer, lo, hi)) = IF lo <= hi THEN hi - lo + 1 ELSE 0
      /\ \A i \in 1..(hi - lo + 1) : SubSeq(buffer, lo, hi)[i] = buffer[lo + i - 1]
  BY <1>3, SubSeqProperties
<1>5. hi - lo + 1 = n /\ (lo <= hi \/ n = 0) /\ \A i \in 1..n : lo + i - 1 = pos + i
  BY <1>2
<1> QED BY <1>2, <1>4, <1>5

\* Bytes that stand there are what is there.
LEMMA StandsIs ==
  ASSUME buffer \in Seq(Byte), NEW bytes \in Seq(Byte), NEW pos \in Nat, Stands(bytes, pos)
  PROVE  SubSeq(buffer, pos + 1, pos + Len(bytes)) = bytes
<1>1. PICK n \in Nat : n = Len(bytes) /\ pos + n <= Len(buffer) /\ \A i \in 1..n : buffer[pos + i] = bytes[i]
  BY LenProperties DEF Stands
<1>2. PICK there \in Seq(Byte) : there = SubSeq(buffer, pos + 1, pos + n)
                                 /\ Len(there) = n /\ \A i \in 1..n : there[i] = buffer[pos + i]
  BY <1>1, PartOf
<1>3. there = bytes
  BY <1>1, <1>2, SeqEqual
<1> QED BY <1>1, <1>2, <1>3

\* A number that is there is read as it was written.
LEMMA NumberRead ==
  ASSUME NEW n \in Nat, NEW w \in 1..4, NEW pos \in Nat, buffer \in Seq(Byte),
         Stands(NumberBytes(n, w), pos)
  PROVE  ReadNumber(pos, w) = [value |-> n % Power[w], pos |-> pos + w]
<1>1. NumberBytes(n, w) \in Seq(Byte) /\ Len(NumberBytes(n, w)) = w /\ w \in 0..4
  <2>1. w \in 0..4
    OBVIOUS
  <2> QED BY <2>1, NumberTyped
<1>2. SubSeq(buffer, pos + 1, pos + w) = NumberBytes(n, w)
  <2>1. SubSeq(buffer, pos + 1, pos + Len(NumberBytes(n, w))) = NumberBytes(n, w)
    BY <1>1, StandsIs
  <2> QED BY <1>1, <2>1
<1>3. Value(NumberBytes(n, w)) = n % Power[w]
  BY <1>1, ValueOfNumber
<1>4. ~(pos + w > Len(buffer))
  <2>1. pos + w <= Len(buffer) /\ Len(buffer) \in Nat
    BY <1>1, LenProperties DEF Stands
  <2> QED BY <2>1
<1> QED BY <1>2, <1>3, <1>4 DEF ReadNumber

\* A text is bytes other than 0, and a 0 behind them.
LEMMA TextTyped ==
  ASSUME NEW text \in Texts
  PROVE  /\ text \in Seq(Byte) /\ Len(text) \in Nat
         /\ \A i \in 1..Len(text) : text[i] # 0
         /\ TextBytes(text) \in Seq(Byte) /\ Len(TextBytes(text)) = Len(text) + 1
         /\ \A i \in 1..Len(text) : TextBytes(text)[i] = text[i]
         /\ TextBytes(text)[Len(text) + 1] = 0
<1>1. ByteRadix \in Nat /\ ByteRadix > 0 /\ text \in Seq(1..(ByteRadix - 1))
  BY ByteIs, WrittenIs
<1>2. 1..(ByteRadix - 1) \subseteq Byte /\ 0 \in Byte
  BY <1>1 DEF Byte
<1>3. text \in Seq(Byte) /\ Len(text) \in Nat
  BY <1>1, <1>2, SeqMonotonic, LenProperties
<1>4. \A i \in 1..Len(text) : text[i] \in 1..(ByteRadix - 1)
  BY <1>1, ElementOfSeq
<1>5. \A i \in 1..Len(text) : text[i] # 0
  BY <1>1, <1>4
<1> QED BY <1>2, <1>3, <1>5, AppendProperties DEF TextBytes

\* A text that is there is read as it was written, and the 0 behind it passed over.
LEMMA TextRead ==
  ASSUME NEW text \in Texts, NEW pos \in Nat, buffer \in Seq(Byte), Stands(TextBytes(text), pos)
  PROVE  ReadText(pos) = [value |-> text, pos |-> pos + Len(text) + 1]
<1> DEFINE zeros == {i \in (pos + 1)..Len(buffer) : buffer[i] = 0}
<1>1. PICK n \in Nat : n = Len(text)
  BY TextTyped
<1>2. /\ pos + (n + 1) <= Len(buffer) /\ Len(buffer) \in Nat
      /\ \A i \in 1..(n + 1) : buffer[pos + i] = TextBytes(text)[i]
  BY <1>1, TextTyped, LenProperties DEF Stands
<1>3. \A i \in 1..n : buffer[pos + i] = text[i] /\ text[i] # 0
  <2>1. \A i \in 1..n : i \in 1..(n + 1)
    OBVIOUS
  <2> QED BY <1>1, <1>2, <2>1, TextTyped
<1>4. buffer[pos + (n + 1)] = 0
  <2>1. n + 1 \in 1..(n + 1)
    OBVIOUS
  <2> QED BY <1>1, <1>2, <2>1, TextTyped
<1>5. PICK z \in Nat : z = pos + n + 1 /\ z \in zeros /\ z = pos + (n + 1)
  BY <1>2, <1>4
<1>6. ASSUME NEW y \in zeros PROVE z <= y
  <2> SUFFICES ASSUME y < z PROVE FALSE
    BY <1>5
  <2>1. y \in (pos + 1)..Len(buffer) /\ buffer[y] = 0
    OBVIOUS
  <2>2. y - pos \in 1..n /\ pos + (y - pos) = y
    BY <1>2, <1>5, <2>1
  <2> QED BY <1>3, <2>1, <2>2
<1>7. zeros \subseteq Nat
  BY <1>2
<1> HIDE DEF zeros
<1>8. Min(zeros) = z /\ zeros # {}
  BY <1>5, <1>6, <1>7, LeastIs
<1>9. SubSeq(buffer, pos + 1, z - 1) = text
  <2>1. Stands(text, pos)
    BY <1>1, <1>2, <1>3 DEF Stands
  <2>2. SubSeq(buffer, pos + 1, pos + Len(text)) = text
    BY <2>1, TextTyped, StandsIs
  <2>3. z - 1 = pos + Len(text)
    BY <1>1, <1>5
  <2> QED BY <2>2, <2>3
<1>10. ReadText(pos) = IF zeros = {} THEN [value |-> Append(SubSeq(buffer, pos + 1, Len(buffer)), Garbage), pos |-> Len(buffer)]
                      ELSE [value |-> SubSeq(buffer, pos + 1, Min(zeros) - 1), pos |-> Min(zeros)]
  BY DEF ReadText, zeros
<1> QED BY <1>1, <1>5, <1>8, <1>9, <1>10

\* Of one byte, Value is the byte.
LEMMA ValueOfByte ==
  ASSUME NEW bytes \in Seq(Byte), Len(bytes) = 1
  PROVE  Value(bytes) = bytes[1]
<1>1. DOMAIN bytes = 1..1 /\ bytes[1] \in Byte
  BY LenProperties, ElementOfSeq
<1>2. PICK f : AddsUp(f, bytes, 1)
  <2>1. PICK one \in Nat : one = 1
    OBVIOUS
  <2>2. DOMAIN bytes = 1..one
    BY <1>1, <2>1
  <2>3. PICK f : AddsUp(f, bytes, one)
    BY <2>2, ValueLoop
  <2> QED BY <2>1, <2>3
<1>3. (1 + 1)..1 = {} /\ 1 \in 1..1
  OBVIOUS
<1>4. Value(bytes) = bytes[1] + ByteRadix * 0
  <2>1. f[1..1] = bytes[1] + ByteRadix * f[(1 + 1)..1]
    BY <1>2, <1>3 DEF AddsUp
  <2>2. f[1..1] = Value(bytes) /\ f[{}] = 0
    BY <1>2 DEF AddsUp
  <2> QED BY <1>3, <2>1, <2>2
<1>5. ByteRadix \in Nat /\ bytes[1] \in Nat
  BY <1>1, ByteIs DEF Byte
<1> QED BY <1>4, <1>5

\* Bytes that are there are read as they were written.
LEMMA BytesRead ==
  ASSUME NEW bytes \in Seq(Byte), NEW pos \in Nat, buffer \in Seq(Byte), Stands(bytes, pos)
  PROVE  ReadBytes(pos, Len(bytes)) = [value |-> bytes, pos |-> pos + Len(bytes)]
<1>1. PICK n \in Nat : n = Len(bytes) /\ DOMAIN bytes = 1..n
  BY LenProperties
<1>2. PICK len \in Nat : len = Len(buffer) /\ pos + n <= len
  BY <1>1, LenProperties DEF Stands
<1>3. ASSUME NEW p \in Nat, p <= len PROVE Min({p, len}) = p
  <2>1. PICK both : both = {p, len}
    OBVIOUS
  <2>2. both \subseteq Nat /\ p \in both /\ \A y \in both : p <= y
    BY <1>3, <2>1
  <2>3. Min(both) = p
    BY <2>2, LeastIs
  <2> QED BY <2>1, <2>3
<1>4. ASSUME NEW i \in 1..n
      PROVE  ReadNumber(Min({pos + i - 1, Len(buffer)}), 1).value = bytes[i]
  <2>1. PICK p \in Nat : p = pos + i - 1 /\ p + 1 = pos + i /\ p + 1 <= len
    BY <1>2
  <2>2. Min({pos + i - 1, Len(buffer)}) = p
    BY <1>2, <1>3, <2>1
  <2>3. PICK b \in Seq(Byte) : b = SubSeq(buffer, p + 1, p + 1) /\ Len(b) = 1 /\ b[1] = buffer[p + 1]
    <3>1. PICK one \in Nat : one = 1 /\ p + one <= Len(buffer) /\ 1 \in 1..one
      BY <1>2, <2>1
    <3> QED BY <3>1, PartOf
  <2>4. Value(b) = bytes[i]
    BY <1>1, <2>1, <2>3, ValueOfByte DEF Stands
  <2>5. ~(p + 1 > Len(buffer))
    BY <1>2, <2>1
  <2> QED BY <2>2, <2>3, <2>4, <2>5 DEF ReadNumber
<1>5. Min({pos + n, Len(buffer)}) = pos + n
  BY <1>2, <1>3
<1>6. [i \in 1..n |-> ReadNumber(Min({pos + i - 1, Len(buffer)}), 1).value] = bytes
  <2>1. bytes = [i \in 1..n |-> bytes[i]]
    BY <1>1, LenProperties
  <2> QED BY <1>4, <2>1
<1> QED BY <1>1, <1>5, <1>6 DEF ReadBytes

\* What stands there, its parts do, one behind the other.
LEMMA StandsApart ==
  ASSUME NEW a \in Seq(Byte), NEW b \in Seq(Byte), NEW pos \in Nat, buffer \in Seq(Byte),
         Stands(a \o b, pos)
  PROVE  Stands(a, pos) /\ Stands(b, pos + Len(a))
<1>1. PICK m \in Nat, n \in Nat, len \in Nat : m = Len(a) /\ n = Len(b) /\ len = Len(buffer)
  BY LenProperties
<1>2. /\ Len(a \o b) = m + n
      /\ \A i \in 1..(m + n) : (a \o b)[i] = IF i <= m THEN a[i] ELSE b[i - m]
  BY <1>1, ConcatProperties
<1>3. pos + (m + n) <= len /\ \A i \in 1..(m + n) : buffer[pos + i] = (a \o b)[i]
  BY <1>1, <1>2 DEF Stands
<1>4. ASSUME NEW i \in 1..m PROVE buffer[pos + i] = a[i]
  <2>1. i \in 1..(m + n) /\ i <= m
    OBVIOUS
  <2> QED BY <1>2, <1>3, <2>1
<1>5. ASSUME NEW i \in 1..n PROVE buffer[(pos + m) + i] = b[i]
  <2>1. m + i \in 1..(m + n) /\ ~(m + i <= m) /\ (m + i) - m = i /\ pos + (m + i) = (pos + m) + i
    OBVIOUS
  <2> QED BY <1>2, <1>3, <2>1
<1>6. pos + m <= len /\ (pos + m) + n <= len
  BY <1>3
<1> QED BY <1>1, <1>4, <1>5, <1>6 DEF Stands

\* A text in a field of fixed length is bytes, as many as there must be.
LEMMA FixedTyped ==
  ASSUME NEW text \in Texts, NEW n \in Nat
  PROVE  FixLen(text, n) \in Seq(Byte) /\ Len(FixLen(text, n)) = n
<1>1. PICK m \in Nat : m = Len(text) /\ text \in Seq(Byte) /\ \A i \in 1..m : text[i] \in Byte
  BY TextTyped, ElementOfSeq
<1>2. CASE m > n
  <2>1. \A i \in 1..n : text[i] \in Byte
    BY <1>1, <1>2
  <2>2. SubSeq(text, 1, n) \in Seq(Byte) /\ Len(SubSeq(text, 1, n)) = IF 1 <= n THEN n - 1 + 1 ELSE 0
    BY <2>1, SubSeqProperties
  <2>3. FixLen(text, n) = SubSeq(text, 1, n)
    BY <1>1, <1>2 DEF FixLen
  <2> QED BY <2>2, <2>3
<1>3. CASE ~(m > n)
  <2> DEFINE zeros == [i \in 1..(n - m) |-> 0]
  <2>1. n - m \in Nat /\ 0 \in Byte
    BY <1>3, ByteIs DEF Byte
  <2>2. zeros \in Seq(Byte) /\ Len(zeros) = n - m
    <3>1. zeros \in [1..(n - m) -> Byte]
      BY <2>1
    <3>2. zeros \in Seq(Byte)
      BY <2>1, <3>1, SeqDef
    <3>3. Len(zeros) = n - m
      BY <2>1
    <3> QED BY <3>2, <3>3
  <2> HIDE DEF zeros
  <2>3. text \o zeros \in Seq(Byte) /\ Len(text \o zeros) = m + (n - m)
    BY <1>1, <2>2, ConcatProperties
  <2>4. FixLen(text, n) = text \o zeros
    BY <1>1, <1>3 DEF FixLen, zeros
  <2> QED BY <2>3, <2>4
<1> QED BY <1>2, <1>3

\* A field has the parts it was made of.
LEMMA FieldParts ==
  ASSUME NEW kind, NEW len, NEW numbers, NEW texts, NEW f, f = Field(kind, len, numbers, texts)
  PROVE  f.kind = kind /\ f.len = len /\ f.numbers = numbers /\ f.texts = texts
BY DEF Field

\* The four kinds of field.
NumberField(f, n, w) == n \in Numbers /\ w \in Widths /\ f = Field("number", w, <<n>>, <<>>)
TextField(f, t) == t \in Texts /\ f = Field("text", 0, <<>>, <<t>>)
FixedField(f, t) == t \in Texts /\ f = Field("fixed", 2, <<>>, <<t>>)
ServerField(f, n, t) ==
  n \in Numbers /\ t \in Texts /\ f = Field("server", 0, <<n, n, n>>, <<t, t>>)

\* A field is of one of them.
LEMMA FieldKinds ==
  ASSUME NEW f \in Fields
  PROVE  \/ \E n, w : NumberField(f, n, w)
         \/ \E t : TextField(f, t)
         \/ \E t : FixedField(f, t)
         \/ \E n, t : ServerField(f, n, t)
<1>1. CASE f \in NumberFields
  <2>1. \E n, w : NumberField(f, n, w)
    BY <1>1 DEF NumberFields, NumberField
  <2> QED BY <2>1
<1>2. CASE f \in TextFields
  BY <1>2 DEF TextFields, TextField
<1>3. CASE f \in FixedFields
  BY <1>3 DEF FixedFields, FixedField
<1>4. CASE f \in ServerFields
  <2>1. \E n, t : ServerField(f, n, t)
    BY <1>4 DEF ServerFields, ServerField
  <2> QED BY <2>1
<1> QED BY <1>1, <1>2, <1>3, <1>4 DEF Fields

\* What a number is written as.
LEMMA NumberFieldIs ==
  ASSUME NEW f, NEW n, NEW w, NumberField(f, n, w)
  PROVE  /\ f.kind = "number" /\ f.len = w /\ f.numbers = <<n>> /\ f.numbers[1] = n /\ f.texts = <<>>
         /\ FieldBytes(f) = NumberBytes(n, w)
<1>1. f.kind = "number" /\ f.len = w /\ f.numbers = <<n>> /\ f.texts = <<>>
  BY FieldParts DEF NumberField
<1>2. f.numbers[1] = n
  BY <1>1
<1> QED BY <1>1, <1>2 DEF FieldBytes

\* What a text is written as.
LEMMA TextFieldIs ==
  ASSUME NEW f, NEW t, TextField(f, t)
  PROVE  /\ f.kind = "text" /\ f.numbers = <<>> /\ f.texts = <<t>> /\ f.texts[1] = t
         /\ FieldBytes(f) = TextBytes(t)
<1>1. f.kind = "text" /\ f.numbers = <<>> /\ f.texts = <<t>>
  BY FieldParts DEF TextField
<1>2. f.texts[1] = t
  BY <1>1
<1> QED BY <1>1, <1>2 DEF FieldBytes

\* What a text of fixed length is written as.
LEMMA FixedFieldIs ==
  ASSUME NEW f, NEW t, FixedField(f, t)
  PROVE  /\ f.kind = "fixed" /\ f.len = 2 /\ f.numbers = <<>> /\ f.texts = <<t>> /\ f.texts[1] = t
         /\ FieldBytes(f) = FixLen(t, 2)
<1>1. f.kind = "fixed" /\ f.len = 2 /\ f.numbers = <<>> /\ f.texts = <<t>>
  BY FieldParts DEF FixedField
<1>2. f.texts[1] = t
  BY <1>1
<1> QED BY <1>1, <1>2 DEF FieldBytes

\* What a row of the list of servers is written as.
LEMMA ServerFieldIs ==
  ASSUME NEW f, NEW n, NEW t, ServerField(f, n, t)
  PROVE  /\ f.kind = "server" /\ f.texts = <<t, t>>
         /\ f.numbers[1] = n /\ f.numbers[2] = n /\ f.numbers[3] = n
         /\ FieldBytes(f) = NumberBytes(n, 1) \o NumberBytes(n, 2) \o TextBytes(t)
                               \o TextBytes(t) \o NumberBytes(n, 4)
<1>1. f.kind = "server" /\ f.numbers = <<n, n, n>> /\ f.texts = <<t, t>>
  BY FieldParts DEF ServerField
<1>2. f.numbers[1] = n /\ f.numbers[2] = n /\ f.numbers[3] = n /\ f.texts[1] = t /\ f.texts[2] = t
  BY <1>1
<1> QED BY <1>1, <1>2 DEF FieldBytes

\* A number that is written is a number, of one, two or four bytes.
LEMMA WidthIs == \A n \in Numbers, w \in Widths : n \in Nat /\ w \in 0..4 /\ w \in 1..4
BY WrittenIs DEF Widths

\* Where the parts of a row of the list of servers stand.
ServerParts(n, t, pos) ==
  /\ Stands(NumberBytes(n, 1), pos) /\ Stands(NumberBytes(n, 2), pos + 1)
  /\ Stands(TextBytes(t), pos + 3) /\ Stands(TextBytes(t), pos + 3 + Len(t) + 1)
  /\ Stands(NumberBytes(n, 4), pos + 3 + Len(t) + 1 + Len(t) + 1)

\* Some bytes are two others, one behind the other.
Joined(both, a, b) ==
  /\ both \in Seq(Byte) /\ Len(both) = Len(a) + Len(b)
  /\ \A pos \in Nat : buffer \in Seq(Byte) /\ Stands(both, pos)
                        => Stands(a, pos) /\ Stands(b, pos + Len(a))

\* That is what \o makes of them.
LEMMA JoinedIs ==
  ASSUME NEW a \in Seq(Byte), NEW b \in Seq(Byte)
  PROVE  Joined(a \o b, a, b)
<1>1. a \o b \in Seq(Byte) /\ Len(a \o b) = Len(a) + Len(b)
  BY ConcatProperties
<1>2. \A pos \in Nat : buffer \in Seq(Byte) /\ Stands(a \o b, pos)
                        => Stands(a, pos) /\ Stands(b, pos + Len(a))
  BY StandsApart
<1> QED BY <1>1, <1>2 DEF Joined

\* Such a row is bytes, and where it stands, its parts do.
LEMMA ServerTyped ==
  ASSUME NEW n \in Numbers, NEW t \in Texts, NEW bytes,
         bytes = NumberBytes(n, 1) \o NumberBytes(n, 2) \o TextBytes(t) \o TextBytes(t) \o NumberBytes(n, 4)
  PROVE  /\ bytes \in Seq(Byte)
         /\ Len(bytes) = 3 + Len(t) + 1 + Len(t) + 1 + 4
         /\ \A pos \in Nat : buffer \in Seq(Byte) /\ Stands(bytes, pos) => ServerParts(n, t, pos)
<1> DEFINE one == NumberBytes(n, 1)
           two == NumberBytes(n, 2)
           four == NumberBytes(n, 4)
           text == TextBytes(t)
           a == one \o two
           b == a \o text
           c == b \o text
<1>1. /\ one \in Seq(Byte) /\ two \in Seq(Byte) /\ four \in Seq(Byte)
      /\ Len(one) = 1 /\ Len(two) = 2 /\ Len(four) = 4
  <2>1. n \in Nat /\ 1 \in 0..4 /\ 2 \in 0..4 /\ 4 \in 0..4
    BY WrittenIs
  <2> QED BY <2>1, NumberTyped
<1>2. text \in Seq(Byte) /\ Len(t) \in Nat /\ Len(text) = Len(t) + 1
  BY TextTyped
<1>3. bytes = c \o four
  OBVIOUS
<1> HIDE DEF one, two, four, text
<1>4. Joined(a, one, two)
  BY <1>1, JoinedIs
<1>5. a \in Seq(Byte) /\ Len(a) = Len(one) + Len(two)
  BY <1>4 DEF Joined
<1> HIDE DEF a
<1>6. Joined(b, a, text)
  BY <1>2, <1>5, JoinedIs
<1>7. b \in Seq(Byte) /\ Len(b) = Len(a) + Len(text)
  BY <1>6 DEF Joined
<1> HIDE DEF b
<1>8. Joined(c, b, text)
  BY <1>2, <1>7, JoinedIs
<1>9. c \in Seq(Byte) /\ Len(c) = Len(b) + Len(text)
  BY <1>8 DEF Joined
<1> HIDE DEF c
<1>10. Joined(bytes, c, four)
  BY <1>1, <1>3, <1>9, JoinedIs
<1>11. bytes \in Seq(Byte) /\ Len(bytes) = Len(c) + Len(four)
  BY <1>10 DEF Joined
<1>12. PICK l \in Nat : l = Len(t)
  BY <1>2
<1>13. Len(a) = 3 /\ Len(b) = 3 + (l + 1) /\ Len(c) = 3 + (l + 1) + (l + 1)
  BY <1>1, <1>2, <1>5, <1>7, <1>9, <1>12
<1>14. Len(bytes) = 3 + Len(t) + 1 + Len(t) + 1 + 4
  BY <1>1, <1>11, <1>12, <1>13
<1>15. ASSUME NEW pos \in Nat, buffer \in Seq(Byte), Stands(bytes, pos)
       PROVE  ServerParts(n, t, pos)
  <2>1. Stands(c, pos) /\ Stands(four, pos + Len(c))
    BY <1>10, <1>15 DEF Joined
  <2>2. Stands(b, pos) /\ Stands(text, pos + Len(b))
    BY <1>8, <1>15, <2>1 DEF Joined
  <2>3. Stands(a, pos) /\ Stands(text, pos + Len(a))
    BY <1>6, <1>15, <2>2 DEF Joined
  <2>4. Stands(one, pos) /\ Stands(two, pos + Len(one))
    BY <1>4, <1>15, <2>3 DEF Joined
  <2>5. /\ pos + Len(one) = pos + 1 /\ pos + Len(a) = pos + 3 /\ pos + Len(b) = pos + 3 + Len(t) + 1
        /\ pos + Len(c) = pos + 3 + Len(t) + 1 + Len(t) + 1
    BY <1>1, <1>12, <1>13
  <2>6. /\ Stands(one, pos) /\ Stands(two, pos + 1) /\ Stands(text, pos + 3)
        /\ Stands(text, pos + 3 + Len(t) + 1) /\ Stands(four, pos + 3 + Len(t) + 1 + Len(t) + 1)
    BY <2>1, <2>2, <2>3, <2>4, <2>5
  <2> QED BY <2>6 DEF ServerParts, one, two, four, text
<1> QED BY <1>11, <1>14, <1>15

\* What is written of a field is bytes.
LEMMA FieldTyped ==
  ASSUME NEW f \in Fields
  PROVE  FieldBytes(f) \in Seq(Byte)
<1>1. ASSUME NEW n, NEW w, NumberField(f, n, w) PROVE FieldBytes(f) \in Seq(Byte)
  <2>1. FieldBytes(f) = NumberBytes(n, w) /\ n \in Nat /\ w \in 0..4
    BY <1>1, NumberFieldIs, WidthIs DEF NumberField
  <2> QED BY <2>1, NumberTyped
<1>2. ASSUME NEW t, TextField(f, t) PROVE FieldBytes(f) \in Seq(Byte)
  BY <1>2, TextFieldIs, TextTyped DEF TextField
<1>3. ASSUME NEW t, FixedField(f, t) PROVE FieldBytes(f) \in Seq(Byte)
  BY <1>3, FixedFieldIs, FixedTyped DEF FixedField
<1>4. ASSUME NEW n, NEW t, ServerField(f, n, t) PROVE FieldBytes(f) \in Seq(Byte)
  BY <1>4, ServerFieldIs, ServerTyped DEF ServerField
<1> QED BY <1>1, <1>2, <1>3, <1>4, FieldKinds

\* A row of the list of servers that is there is read as it was written.
LEMMA ServerRead ==
  ASSUME NEW n \in Numbers, NEW t \in Texts, NEW pos \in Nat, buffer \in Seq(Byte),
         ServerParts(n, t, pos)
  PROVE  ReadServer(pos) = Answer(<<n % Power[1], n % Power[2], n % Power[4]>>, <<t, t>>,
                                  pos + (3 + Len(t) + 1 + Len(t) + 1 + 4))
<1>1. PICK len \in Nat : len = Len(t)
  BY TextTyped
<1>2. n \in Nat /\ 1 \in 1..4 /\ 2 \in 1..4 /\ 4 \in 1..4
  BY WrittenIs
<1> DEFINE p1 == pos + 1
           p2 == pos + 3
           p3 == pos + 3 + Len(t) + 1
           p4 == pos + 3 + Len(t) + 1 + Len(t) + 1
           p5 == pos + (3 + Len(t) + 1 + Len(t) + 1 + 4)
<1>3. /\ p1 \in Nat /\ p2 \in Nat /\ p3 \in Nat /\ p4 \in Nat /\ p5 \in Nat
      /\ p2 = p1 + 2 /\ p3 = p2 + Len(t) + 1 /\ p4 = p3 + Len(t) + 1 /\ p5 = p4 + 4 /\ p1 = pos + 1
  BY <1>1
<1>4. /\ Stands(NumberBytes(n, 1), pos) /\ Stands(NumberBytes(n, 2), p1) /\ Stands(TextBytes(t), p2)
      /\ Stands(TextBytes(t), p3) /\ Stands(NumberBytes(n, 4), p4)
  BY DEF ServerParts
<1> HIDE DEF p1, p2, p3, p4
<1>5. ReadNumber(pos, 1) = [value |-> n % Power[1], pos |-> p1]
  BY <1>2, <1>3, <1>4, NumberRead
<1>6. ReadNumber(p1, 2) = [value |-> n % Power[2], pos |-> p2]
  BY <1>2, <1>3, <1>4, NumberRead
<1>7. ReadText(p2) = [value |-> t, pos |-> p3]
  BY <1>3, <1>4, TextRead
<1>8. ReadText(p3) = [value |-> t, pos |-> p4]
  BY <1>3, <1>4, TextRead
<1>9. ReadNumber(p4, 4) = [value |-> n % Power[4], pos |-> p5]
  BY <1>2, <1>3, <1>4, NumberRead
<1>10. ReadServer(pos) = Answer(<<n % Power[1], n % Power[2], n % Power[4]>>, <<t, t>>, p5)
  <2> HIDE DEF p5
  <2> QED BY <1>5, <1>6, <1>7, <1>8, <1>9 DEF ReadServer
<1> QED BY <1>10

\* A field that is there is read as it was meant, up to its end.
LEMMA FieldRead ==
  ASSUME NEW f \in Fields, curPos \in Nat, buffer \in Seq(Byte), Stands(FieldBytes(f), curPos)
  PROVE  AsMeant(ReadField(f), f) /\ ReadField(f).pos = curPos + Len(FieldBytes(f))
<1>1. ASSUME NEW n, NEW w, NumberField(f, n, w)
      PROVE  AsMeant(ReadField(f), f) /\ ReadField(f).pos = curPos + Len(FieldBytes(f))
  <2>1. /\ f.kind = "number" /\ f.len = w /\ f.numbers[1] = n /\ f.texts = <<>>
        /\ FieldBytes(f) = NumberBytes(n, w) /\ n \in Nat /\ w \in 0..4 /\ w \in 1..4
    BY <1>1, NumberFieldIs, WidthIs DEF NumberField
  <2>2. ReadNumber(curPos, w) = [value |-> n % Power[w], pos |-> curPos + w]
    BY <2>1, NumberRead
  <2>3. /\ ReadField(f).numbers = <<ReadNumber(curPos, w).value>>
        /\ ReadField(f).texts = <<>> /\ ReadField(f).pos = ReadNumber(curPos, w).pos
    <3>1. f.kind = "number" /\ f.len = w
      BY <2>1
    <3>2. ReadField(f).pos = ReadNumber(curPos, w).pos
      BY <3>1 DEF ReadField, Answer
    <3>3. ReadField(f).texts = <<>>
      BY <3>1 DEF ReadField, Answer
    <3>4. ReadField(f).numbers = <<ReadNumber(curPos, w).value>>
      BY <3>1 DEF ReadField, Answer
    <3> QED BY <3>2, <3>3, <3>4
  <2>4. Len(FieldBytes(f)) = w
    <3>1. n \in Nat /\ w \in 0..4 /\ FieldBytes(f) = NumberBytes(n, w)
      BY <2>1
    <3>2. Len(NumberBytes(n, w)) = w
      BY ONLY <3>1, NumberTyped
    <3> QED BY <3>1, <3>2
  <2>5. /\ ReadField(f).numbers = <<n % Power[w]>> /\ ReadField(f).texts = <<>>
        /\ ReadField(f).pos = curPos + w
    <3>1. ReadNumber(curPos, w).value = n % Power[w] /\ ReadNumber(curPos, w).pos = curPos + w
      BY <2>2
    <3> QED BY <2>3, <3>1
  <2> QED BY <2>1, <2>4, <2>5 DEF AsMeant
<1>2. ASSUME NEW t, TextField(f, t)
      PROVE  AsMeant(ReadField(f), f) /\ ReadField(f).pos = curPos + Len(FieldBytes(f))
  <2>1. /\ f.kind = "text" /\ f.texts = <<t>> /\ FieldBytes(f) = TextBytes(t) /\ t \in Texts
    BY <1>2, TextFieldIs DEF TextField
  <2>2. ReadText(curPos) = [value |-> t, pos |-> curPos + Len(t) + 1]
    BY <2>1, TextRead
  <2>3. ReadField(f) = Answer(<<>>, <<t>>, curPos + Len(t) + 1)
    BY <2>1, <2>2 DEF ReadField
  <2>4. Len(FieldBytes(f)) = Len(t) + 1 /\ Len(t) \in Nat
    BY <2>1, TextTyped
  <2>5. /\ ReadField(f).numbers = <<>> /\ ReadField(f).texts = <<t>>
        /\ ReadField(f).pos = curPos + Len(t) + 1
    BY <2>3 DEF Answer
  <2> QED BY <2>1, <2>4, <2>5 DEF AsMeant
<1>3. ASSUME NEW t, FixedField(f, t)
      PROVE  AsMeant(ReadField(f), f) /\ ReadField(f).pos = curPos + Len(FieldBytes(f))
  <2>1. /\ f.kind = "fixed" /\ f.len = 2 /\ f.texts[1] = t /\ FieldBytes(f) = FixLen(t, 2) /\ t \in Texts
    BY <1>3, FixedFieldIs DEF FixedField
  <2>2. FixLen(t, 2) \in Seq(Byte) /\ Len(FixLen(t, 2)) = 2
    BY <2>1, FixedTyped
  <2>3. ReadBytes(curPos, 2) = [value |-> FixLen(t, 2), pos |-> curPos + 2]
    <3>1. ReadBytes(curPos, Len(FixLen(t, 2))) = [value |-> FixLen(t, 2), pos |-> curPos + Len(FixLen(t, 2))]
      BY <2>1, <2>2, BytesRead
    <3> QED BY <2>2, <3>1
  <2>4. ReadField(f) = Answer(<<>>, <<FixLen(t, 2)>>, curPos + 2)
    BY <2>1, <2>3 DEF ReadField
  <2>5. /\ ReadField(f).numbers = <<>> /\ ReadField(f).texts = <<FixLen(t, 2)>>
        /\ ReadField(f).pos = curPos + 2
    BY <2>4 DEF Answer
  <2> QED BY <2>1, <2>2, <2>5 DEF AsMeant
<1>4. ASSUME NEW n, NEW t, ServerField(f, n, t)
      PROVE  AsMeant(ReadField(f), f) /\ ReadField(f).pos = curPos + Len(FieldBytes(f))
  <2>1. /\ f.kind = "server" /\ f.texts = <<t, t>> /\ n \in Numbers /\ t \in Texts
        /\ f.numbers[1] = n /\ f.numbers[2] = n /\ f.numbers[3] = n
        /\ FieldBytes(f) = NumberBytes(n, 1) \o NumberBytes(n, 2) \o TextBytes(t)
                              \o TextBytes(t) \o NumberBytes(n, 4)
    BY <1>4, ServerFieldIs DEF ServerField
  <2>2. /\ Len(FieldBytes(f)) = 3 + Len(t) + 1 + Len(t) + 1 + 4
        /\ ServerParts(n, t, curPos)
    BY <2>1, ServerTyped
  <2>3. ReadServer(curPos) = Answer(<<n % Power[1], n % Power[2], n % Power[4]>>, <<t, t>>,
                                    curPos + (3 + Len(t) + 1 + Len(t) + 1 + 4))
    BY <2>1, <2>2, ServerRead
  <2>4. ReadField(f) = ReadServer(curPos)
    BY <2>1 DEF ReadField
  <2>5. /\ ReadField(f).numbers = <<n % Power[1], n % Power[2], n % Power[4]>>
        /\ ReadField(f).texts = <<t, t>>
        /\ ReadField(f).pos = curPos + (3 + Len(t) + 1 + Len(t) + 1 + 4)
    BY <2>3, <2>4 DEF Answer
  <2>6. ReadField(f).pos = curPos + Len(FieldBytes(f))
    BY <2>2, <2>5
  <2> QED BY <2>1, <2>5, <2>6 DEF AsMeant
<1> QED BY <1>1, <1>2, <1>3, <1>4, FieldKinds

\* Nothing that is read ends behind the packet.
LEMMA ReadsInside ==
  ASSUME buffer \in Seq(Byte), NEW pos \in Nat, pos <= Len(buffer)
  PROVE  /\ \A w \in Nat : ReadNumber(pos, w).pos \in Nat /\ ReadNumber(pos, w).pos <= Len(buffer)
         /\ ReadText(pos).pos \in Nat /\ ReadText(pos).pos <= Len(buffer)
         /\ \A n \in Nat : ReadBytes(pos, n).pos \in Nat /\ ReadBytes(pos, n).pos <= Len(buffer)
<1>1. PICK len \in Nat : len = Len(buffer)
  BY LenProperties
<1>2. ASSUME NEW w \in Nat
      PROVE  ReadNumber(pos, w).pos \in Nat /\ ReadNumber(pos, w).pos <= Len(buffer)
  BY <1>1 DEF ReadNumber
<1>3. ReadText(pos).pos \in Nat /\ ReadText(pos).pos <= Len(buffer)
  <2> DEFINE zeros == {i \in (pos + 1)..Len(buffer) : buffer[i] = 0}
  <2>1. zeros # {} => Min(zeros) \in Nat /\ Min(zeros) <= Len(buffer)
    <3> SUFFICES ASSUME zeros # {} PROVE Min(zeros) \in Nat /\ Min(zeros) <= Len(buffer)
      OBVIOUS
    <3>1. zeros \subseteq Nat /\ \A i \in zeros : i <= len
      BY <1>1
    <3> HIDE DEF zeros
    <3>2. Min(zeros) \in zeros
      BY <3>1, MinIsThere
    <3> QED BY <1>1, <3>1, <3>2
  <2>2. ReadText(pos).pos = IF zeros = {} THEN Len(buffer) ELSE Min(zeros)
    BY DEF ReadText
  <2> HIDE DEF zeros
  <2> QED BY <1>1, <2>1, <2>2
<1>4. ASSUME NEW n \in Nat
      PROVE  ReadBytes(pos, n).pos \in Nat /\ ReadBytes(pos, n).pos <= Len(buffer)
  <2>1. PICK both : both = {pos + n, Len(buffer)}
    OBVIOUS
  <2>2. both \subseteq Nat /\ both # {} /\ Len(buffer) \in both
    BY <1>1, <2>1
  <2>3. Min(both) \in Nat /\ Min(both) <= Len(buffer)
    BY <2>2, MinIsThere
  <2>4. ReadBytes(pos, n).pos = Min(both)
    BY <2>1 DEF ReadBytes
  <2> QED BY <2>3, <2>4
<1> QED BY <1>2, <1>3, <1>4

\* Nor does a field, whatever was expected.
LEMMA FieldInside ==
  ASSUME NEW f \in Fields, buffer \in Seq(Byte), curPos \in Nat, curPos <= Len(buffer)
  PROVE  ReadField(f).pos \in Nat /\ ReadField(f).pos <= Len(buffer)
<1>1. ASSUME NEW n, NEW w, NumberField(f, n, w)
      PROVE  ReadField(f).pos \in Nat /\ ReadField(f).pos <= Len(buffer)
  <2>1. f.kind = "number" /\ f.len = w /\ w \in 0..4 /\ w \in Nat
    BY <1>1, NumberFieldIs, WidthIs DEF NumberField
  <2>2. ReadField(f).pos = ReadNumber(curPos, w).pos
    BY <2>1 DEF ReadField, Answer
  <2> QED BY <2>1, <2>2, ReadsInside
<1>2. ASSUME NEW t, TextField(f, t)
      PROVE  ReadField(f).pos \in Nat /\ ReadField(f).pos <= Len(buffer)
  <2>1. f.kind = "text"
    BY <1>2, TextFieldIs
  <2>2. ReadField(f).pos = ReadText(curPos).pos
    BY <2>1 DEF ReadField, Answer
  <2> QED BY <2>2, ReadsInside
<1>3. ASSUME NEW t, FixedField(f, t)
      PROVE  ReadField(f).pos \in Nat /\ ReadField(f).pos <= Len(buffer)
  <2>1. f.kind = "fixed" /\ f.len = 2
    BY <1>3, FixedFieldIs
  <2>2. ReadField(f).pos = ReadBytes(curPos, 2).pos
    BY <2>1 DEF ReadField, Answer
  <2> QED BY <2>2, ReadsInside
<1>4. ASSUME NEW n, NEW t, ServerField(f, n, t)
      PROVE  ReadField(f).pos \in Nat /\ ReadField(f).pos <= Len(buffer)
  <2>1. f.kind = "server"
    BY <1>4, ServerFieldIs
  <2> DEFINE p1 == ReadNumber(curPos, 1).pos
             p2 == ReadNumber(p1, 2).pos
             p3 == ReadText(p2).pos
             p4 == ReadText(p3).pos
             p5 == ReadNumber(p4, 4).pos
  <2>2. ReadField(f).pos = p5
    BY <2>1 DEF ReadField, ReadServer, Answer
  <2>3. p1 \in Nat /\ p1 <= Len(buffer)
    BY ReadsInside
  <2> HIDE DEF p1
  <2>4. p2 \in Nat /\ p2 <= Len(buffer)
    BY <2>3, ReadsInside
  <2> HIDE DEF p2
  <2>5. p3 \in Nat /\ p3 <= Len(buffer)
    BY <2>4, ReadsInside
  <2> HIDE DEF p3
  <2>6. p4 \in Nat /\ p4 <= Len(buffer)
    BY <2>5, ReadsInside
  <2> HIDE DEF p4
  <2>7. p5 \in Nat /\ p5 <= Len(buffer)
    BY <2>6, ReadsInside
  <2> HIDE DEF p5
  <2> QED BY <2>2, <2>7
<1> QED BY <1>1, <1>2, <1>3, <1>4, FieldKinds

\* Where the first i of some fields end.
EndIn(all, i) == PacketHeader + Len(FlattenSeq(Firsts([j \in 1..i |-> FieldBytes(all[j])], i)))

\* Field by field: each ends as many bytes behind the one before as it is written with.
LEMMA EndsAt ==
  ASSUME NEW all \in Seq(Fields)
  PROVE  /\ EndIn(all, 0) = PacketHeader
         /\ \A i \in 1..Len(all) : EndIn(all, i) = EndIn(all, i - 1) + Len(FieldBytes(all[i]))
         /\ \A i \in 0..Len(all) : EndIn(all, i) \in Nat
         /\ \A i \in 1..Len(all) : FieldBytes(all[i]) \in Seq(Byte) /\ Len(FieldBytes(all[i])) \in Nat
                                   /\ EndIn(all, i - 1) <= EndIn(all, i)
<1>1. PICK n \in Nat : n = Len(all) /\ \A i \in 1..n : all[i] \in Fields
  BY LenProperties, ElementOfSeq
<1> DEFINE parts == [j \in 1..n |-> FieldBytes(all[j])]
<1>2. \A i \in 1..n : parts[i] \in Seq(Byte) /\ parts[i] = FieldBytes(all[i])
  BY <1>1, FieldTyped
<1>3. ASSUME NEW i \in 0..n
      PROVE  Firsts([j \in 1..i |-> FieldBytes(all[j])], i) = Firsts(parts, i)
  BY DEF Firsts
<1> HIDE DEF parts
<1>4. /\ FlattenSeq(Firsts(parts, 0)) = <<>>
      /\ \A m \in 1..n : FlattenSeq(Firsts(parts, m)) = FlattenSeq(Firsts(parts, m - 1)) \o parts[m]
      /\ \A m \in 0..n : FlattenSeq(Firsts(parts, m)) \in Seq(Byte)
  BY <1>2, FlattenParts
<1> DEFINE flat(i) == FlattenSeq(Firsts(parts, i))
<1>5. \A i \in 0..n : EndIn(all, i) = PacketHeader + Len(flat(i)) /\ flat(i) \in Seq(Byte)
  BY <1>3, <1>4 DEF EndIn
<1>6. PacketHeader \in Nat
  BY ByteIs
<1>7. flat(0) = <<>> /\ \A i \in 1..n : flat(i) = flat(i - 1) \o parts[i]
  BY <1>4
<1> HIDE DEF flat
<1>8. \A i \in 0..n : Len(flat(i)) \in Nat
  BY <1>5, LenProperties
<1>9. ASSUME NEW i \in 1..n
      PROVE  /\ EndIn(all, i) = EndIn(all, i - 1) + Len(FieldBytes(all[i]))
             /\ FieldBytes(all[i]) \in Seq(Byte) /\ Len(FieldBytes(all[i])) \in Nat
             /\ EndIn(all, i - 1) <= EndIn(all, i)
  <2>1. i - 1 \in 0..n /\ i \in 0..n
    OBVIOUS
  <2>2. PICK part \in Seq(Byte), before \in Seq(Byte) :
          part = FieldBytes(all[i]) /\ before = flat(i - 1) /\ flat(i) = before \o part
    BY <1>2, <1>5, <1>7, <2>1
  <2>3. Len(flat(i)) = Len(before) + Len(part)
    BY <2>2, ConcatProperties
  <2>4. Len(part) \in Nat /\ Len(before) \in Nat
    BY LenProperties
  <2>5. EndIn(all, i) = PacketHeader + Len(flat(i)) /\ EndIn(all, i - 1) = PacketHeader + Len(before)
    BY <1>5, <2>1, <2>2
  <2>6. EndIn(all, i) = EndIn(all, i - 1) + Len(part) /\ EndIn(all, i - 1) <= EndIn(all, i)
    BY <1>6, <2>3, <2>4, <2>5
  <2> QED BY <2>2, <2>4, <2>6
<1>10. EndIn(all, 0) = PacketHeader
  <2>1. EndIn(all, 0) = PacketHeader + Len(flat(0)) /\ Len(flat(0)) = 0
    BY <1>5, <1>7
  <2> QED BY <1>6, <2>1
<1>11. \A i \in 0..n : EndIn(all, i) \in Nat
  BY <1>5, <1>6, <1>8
<1> QED BY <1>1, <1>9, <1>10, <1>11

\* The property's FieldEnd is of the fields that were written.
LEMMA FieldEndIs == \A i \in Nat : FieldEnd(i) = EndIn(added, i)
<1> SUFFICES ASSUME NEW i \in Nat PROVE FieldEnd(i) = EndIn(added, i)
  OBVIOUS
<1>1. Firsts([j \in 1..i |-> FieldBytes(added[j])], i) = [j \in 1..i |-> FieldBytes(added[j])]
  BY DEF Firsts
<1> QED BY <1>1 DEF FieldEnd, EndIn

\* If two lists begin with fields that are written with as many bytes, these end alike.
LEMMA EndsAlike ==
  ASSUME NEW all \in Seq(Fields), NEW other \in Seq(Fields), NEW n \in Nat,
         n <= Len(all), n <= Len(other),
         \A i \in 1..n : Len(FieldBytes(all[i])) = Len(FieldBytes(other[i]))
  PROVE  \A i \in 0..n : EndIn(all, i) = EndIn(other, i)
<1> DEFINE alike == {i \in Nat : i <= n => EndIn(all, i) = EndIn(other, i)}
<1>1. Len(all) \in Nat /\ Len(other) \in Nat
  BY LenProperties
<1>2. 0 \in alike
  BY EndsAt
<1>3. ASSUME NEW i \in Nat, i \in alike PROVE i + 1 \in alike
  <2> SUFFICES ASSUME i + 1 <= n PROVE EndIn(all, i + 1) = EndIn(other, i + 1)
    OBVIOUS
  <2>1. i <= n /\ (i + 1) - 1 = i /\ i + 1 \in 1..n /\ i + 1 \in 1..Len(all) /\ i + 1 \in 1..Len(other)
    BY <1>1
  <2>2. EndIn(all, i) = EndIn(other, i)
    BY <1>3, <2>1
  <2>3. EndIn(all, i + 1) = EndIn(all, i) + Len(FieldBytes(all[i + 1]))
    BY <2>1, EndsAt
  <2>4. EndIn(other, i + 1) = EndIn(other, i) + Len(FieldBytes(other[i + 1]))
    BY <2>1, EndsAt
  <2>5. Len(FieldBytes(all[i + 1])) = Len(FieldBytes(other[i + 1]))
    BY <2>1
  <2> QED BY <2>2, <2>3, <2>4, <2>5
<1> HIDE DEF alike
<1>4. \A i \in Nat : i \in alike
  BY <1>2, <1>3, NaturalInduction
<1> QED BY <1>4 DEF alike

\* No field ends before the first one does.
LEMMA EndsRise ==
  ASSUME NEW all \in Seq(Fields)
  PROVE  \A i \in 1..Len(all) : EndIn(all, 1) <= EndIn(all, i)
<1> DEFINE behind == {i \in Nat : i \in 1..Len(all) => EndIn(all, 1) <= EndIn(all, i)}
<1>0. Len(all) \in Nat /\ \A i \in 0..Len(all) : EndIn(all, i) \in Nat
  BY LenProperties, EndsAt
<1>1. 0 \in behind
  OBVIOUS
<1>2. ASSUME NEW i \in Nat, i \in behind PROVE i + 1 \in behind
  <2> SUFFICES ASSUME i + 1 \in 1..Len(all) PROVE EndIn(all, 1) <= EndIn(all, i + 1)
    OBVIOUS
  <2>1. PICK j \in 1..Len(all) : j = i + 1 /\ j - 1 = i /\ 1 \in 0..Len(all) /\ i \in 0..Len(all)
    BY <1>0
  <2>2. EndIn(all, j - 1) <= EndIn(all, j)
    BY EndsAt
  <2>3. CASE i = 0
    BY <1>0, <2>1, <2>3
  <2>4. CASE i # 0
    <3>1. EndIn(all, 1) <= EndIn(all, i)
      BY <1>2, <2>1, <2>4
    <3> QED BY <1>0, <2>1, <2>2, <3>1
  <2> QED BY <2>3, <2>4
<1> HIDE DEF behind
<1>3. \A i \in Nat : i \in behind
  BY <1>1, <1>2, NaturalInduction
<1> QED BY <1>0, <1>3 DEF behind

\* One field more ends behind the others, which end where they did.
Appended(more, all, f, n) ==
  /\ more \in Seq(Fields) /\ Len(more) = n + 1 /\ more[n + 1] = f
  /\ \A i \in 1..n : more[i] = all[i]
  /\ \A i \in 0..n : EndIn(more, i) = EndIn(all, i)
  /\ EndIn(more, n + 1) = EndIn(all, n) + Len(FieldBytes(f))

\* That is so when one is added.
LEMMA EndsAppend ==
  ASSUME NEW all \in Seq(Fields), NEW f \in Fields, NEW n \in Nat, n = Len(all)
  PROVE  Appended(Append(all, f), all, f, n)
<1>0. PICK more : more = Append(all, f)
  OBVIOUS
<1>1. /\ more \in Seq(Fields) /\ Len(more) = n + 1 /\ more[n + 1] = f
      /\ \A i \in 1..n : more[i] = all[i]
  BY <1>0, AppendProperties
<1>2. \A i \in 0..n : EndIn(more, i) = EndIn(all, i)
  <2>1. n <= Len(more) /\ n <= Len(all) /\ \A i \in 1..n : Len(FieldBytes(more[i])) = Len(FieldBytes(all[i]))
    BY <1>1
  <2> QED BY <1>1, <2>1, EndsAlike
<1>3. EndIn(more, n + 1) = EndIn(all, n) + Len(FieldBytes(f))
  <2>1. PICK m \in 1..Len(more) : m = n + 1 /\ m - 1 = n
    BY <1>1
  <2>2. EndIn(more, m) = EndIn(more, m - 1) + Len(FieldBytes(more[m]))
    BY <1>1, EndsAt
  <2> QED BY <1>1, <1>2, <2>1, <2>2
<1> QED BY <1>0, <1>1, <1>2, <1>3 DEF Appended

-----------------------------------------------------------------------------
(* What is read of a packet                                                 *)

\* The shape of a packet and of what was read.
Packet == /\ buffer \in Seq(Byte) /\ added \in Seq(Fields) /\ curPos \in Nat
          /\ \E S : answers \in Seq(S)
          /\ Len(answers) <= Len(added)

\* The fields that end before the packet does stand in it, one behind the other.
FieldsStand == \A i \in 1..Len(added) :
             EndIn(added, i) <= Len(buffer) => Stands(FieldBytes(added[i]), EndIn(added, i - 1))

\* A packet that is not cut ends with its last field.
Whole == /\ PacketHeader <= Len(buffer)
         /\ ~cut => /\ Len(buffer) = EndIn(added, Len(added))
                    /\ \A i \in 1..Len(added) : EndIn(added, i) <= Len(buffer)

\* The next field is read where the last one ended, as long as all was there.
Place == /\ curPos <= Len(buffer)
         /\ EndIn(added, Len(answers)) <= Len(buffer) => curPos = EndIn(added, Len(answers))

\* What was read of a field is what InsideThePacket asks for.
Answered(answer, f, start, end) ==
  /\ end <= Len(buffer) => AsMeant(answer, f)
  /\ (start <= Len(buffer) /\ end > Len(buffer) /\ f.kind = "number") => answer.numbers = <<0>>
AllAnswered == \A i \in 1..Len(answers) :
                 Answered(answers[i], added[i], EndIn(added, i - 1), EndIn(added, i))

PacketInv == Packet /\ FieldsStand /\ Whole /\ Place /\ AllAnswered

\* A field that is called a number is one.
LEMMA NumberKind ==
  ASSUME NEW f \in Fields, f.kind = "number"
  PROVE  \E n, w : NumberField(f, n, w)
<1>1. ~\E t : TextField(f, t)
  <2> SUFFICES ASSUME NEW t, TextField(f, t) PROVE FALSE
    OBVIOUS
  <2>1. f.kind = "text"
    BY TextFieldIs
  <2> QED BY <2>1
<1>2. ~\E t : FixedField(f, t)
  <2> SUFFICES ASSUME NEW t, FixedField(f, t) PROVE FALSE
    OBVIOUS
  <2>1. f.kind = "fixed"
    BY FixedFieldIs
  <2> QED BY <2>1
<1>3. ~\E n, t : ServerField(f, n, t)
  <2> SUFFICES ASSUME NEW n, NEW t, ServerField(f, n, t) PROVE FALSE
    OBVIOUS
  <2>1. f.kind = "server"
    BY ServerFieldIs
  <2> QED BY <2>1
<1> QED BY <1>1, <1>2, <1>3, FieldKinds

\* A number that is not all there is read as 0.
LEMMA CutNumber ==
  ASSUME NEW f \in Fields, f.kind = "number", curPos \in Nat, buffer \in Seq(Byte),
         curPos + Len(FieldBytes(f)) > Len(buffer)
  PROVE  ReadField(f).numbers = <<0>>
<1>1. PICK n, w : NumberField(f, n, w)
  BY NumberKind
<1>2. f.len = w /\ n \in Nat /\ w \in 0..4 /\ FieldBytes(f) = NumberBytes(n, w)
  BY <1>1, NumberFieldIs, WidthIs DEF NumberField
<1>3. Len(FieldBytes(f)) = w
  <2>1. Len(NumberBytes(n, w)) = w
    BY ONLY <1>2, NumberTyped
  <2> QED BY <1>2, <2>1
<1>4. curPos + w > Len(buffer)
  BY <1>3
<1>5. ReadNumber(curPos, w).value = 0
  BY <1>4 DEF ReadNumber
<1>6. ReadField(f).numbers = <<ReadNumber(curPos, w).value>>
  BY <1>2 DEF ReadField, Answer
<1> QED BY <1>5, <1>6

\* One element more.
Grown(more, s, e) == /\ \E S : more \in Seq(S)
                     /\ Len(s) \in Nat /\ Len(more) = Len(s) + 1
                     /\ \A i \in 1..Len(s) : more[i] = s[i]
                     /\ more[Len(s) + 1] = e

\* push_back, on a list of anything.
LEMMA AnswersGrow ==
  ASSUME NEW s, \E S : s \in Seq(S), NEW e
  PROVE  Grown(Append(s, e), s, e)
<1>1. PICK S : s \in Seq(S)
  OBVIOUS
<1> DEFINE T == S \cup {e}
<1>2. S \subseteq T /\ e \in T
  OBVIOUS
<1> HIDE DEF T
<1>3. s \in Seq(T)
  BY <1>1, <1>2, SeqMonotonic
<1>4. Append(s, e) \in Seq(T) /\ Len(Append(s, e)) = Len(s) + 1
      /\ (\A i \in 1..Len(s) : Append(s, e)[i] = s[i]) /\ Append(s, e)[Len(s) + 1] = e
  BY <1>2, <1>3, AppendProperties
<1>5. Len(s) \in Nat
  BY <1>3, LenProperties
<1> QED BY <1>4, <1>5 DEF Grown

\* It holds of the empty packet.
LEMMA PacketStarts == PacketInit => PacketInv
<1> SUFFICES ASSUME PacketInit PROVE PacketInv
  OBVIOUS
<1>1. PacketHeader \in Nat /\ 0 \in Byte
  BY ByteIs DEF Byte
<1>2. buffer \in Seq(Byte) /\ Len(buffer) = PacketHeader
  <2>1. buffer \in [1..PacketHeader -> Byte]
    BY <1>1 DEF PacketInit
  <2>2. buffer \in Seq(Byte)
    BY <1>1, <2>1, SeqDef
  <2> QED BY <1>1, <2>1, <2>2, LenProperties
<1>3. added = <<>> /\ answers = <<>> /\ curPos = PacketHeader
  BY DEF PacketInit
<1>4. added \in Seq(Fields) /\ Len(added) = 0 /\ answers \in Seq({}) /\ Len(answers) = 0
  BY <1>3, EmptySeq
<1>5. EndIn(added, 0) = PacketHeader
  BY <1>4, EndsAt
<1>6. Packet
  BY <1>1, <1>2, <1>3, <1>4 DEF Packet
<1>7. FieldsStand /\ AllAnswered
  BY <1>4 DEF FieldsStand, AllAnswered
<1>8. Whole
  BY <1>1, <1>2, <1>4, <1>5 DEF Whole
<1>9. Place
  BY <1>1, <1>2, <1>3, <1>4, <1>5 DEF Place
<1> QED BY <1>6, <1>7, <1>8, <1>9 DEF PacketInv

\* Stands, in any bytes.
StandsIn(buf, bytes, pos) == /\ pos + Len(bytes) <= Len(buf)
                             /\ \A k \in 1..Len(bytes) : buf[pos + k] = bytes[k]

\* As far as m, bytes are what they were.
SameTo(now, old, m) == m <= Len(now) /\ \A k \in 1..m : now[k] = old[k]

\* What stands there stays, as far as the bytes do.
LEMMA StandsStill ==
  ASSUME NEW old, NEW now, NEW m \in Nat, SameTo(now, old, m), now \in Seq(Byte),
         NEW bytes \in Seq(Byte), NEW pos \in Nat, StandsIn(old, bytes, pos), pos + Len(bytes) <= m
  PROVE  StandsIn(now, bytes, pos)
<1>1. PICK n \in Nat, len \in Nat : n = Len(bytes) /\ len = Len(now) /\ pos + n <= m /\ m <= len
  BY LenProperties DEF SameTo
<1>2. \A k \in 1..n : pos + k \in 1..m
  BY <1>1
<1>3. \A k \in 1..n : now[pos + k] = bytes[k]
  BY <1>1, <1>2 DEF SameTo, StandsIn
<1> QED BY <1>1, <1>3 DEF StandsIn

\* Bytes behind others; these stay, and those stand there.
IsBehind(now, old, part) == now = old \o part
PutBehind(now, old, part, len, plus) ==
  /\ now \in Seq(Byte) /\ Len(now) = len + plus
  /\ SameTo(now, old, len) /\ StandsIn(now, part, len)

\* What is written behind the others stands there, and they stay.
LEMMA StandsBehind ==
  ASSUME NEW old \in Seq(Byte), NEW part \in Seq(Byte), NEW now, IsBehind(now, old, part),
         NEW len \in Nat, len = Len(old), NEW plus \in Nat, plus = Len(part)
  PROVE  PutBehind(now, old, part, len, plus)
<1>1. /\ now \in Seq(Byte) /\ Len(now) = len + plus
      /\ \A k \in 1..(len + plus) : now[k] = IF k <= len THEN old[k] ELSE part[k - len]
  <2>1. PICK both : both = old \o part /\ both = now
    BY DEF IsBehind
  <2>2. /\ both \in Seq(Byte) /\ Len(both) = Len(old) + Len(part)
        /\ \A k \in 1..(Len(old) + Len(part)) : both[k] = IF k <= Len(old) THEN old[k] ELSE part[k - Len(old)]
    BY <2>1, ConcatProperties
  <2> QED BY <2>1, <2>2
<1>2. \A k \in 1..len : k \in 1..(len + plus) /\ k <= len
  OBVIOUS
<1>3. \A k \in 1..plus : len + k \in 1..(len + plus) /\ ~(len + k <= len) /\ (len + k) - len = k
  OBVIOUS
<1>4. /\ \A k \in 1..len : now[k] = old[k]
      /\ \A k \in 1..plus : now[len + k] = part[k]
  <2>1. ASSUME NEW k \in 1..len PROVE now[k] = old[k]
    BY <1>1, <1>2
  <2>2. ASSUME NEW k \in 1..plus PROVE now[len + k] = part[k]
    <3>1. PICK j \in 1..(len + plus) : j = len + k /\ ~(j <= len) /\ j - len = k
      BY <1>3
    <3>2. now[j] = part[j - len]
      BY <1>1, <3>1
    <3> QED BY <3>1, <3>2
  <2> QED BY <2>1, <2>2
<1> QED BY <1>1, <1>4 DEF PutBehind, SameTo, StandsIn

\* FieldsStand, of any bytes and any fields.
WrittenIn(buf, all) == \A i \in 1..Len(all) :
                         EndIn(all, i) <= Len(buf) => StandsIn(buf, FieldBytes(all[i]), EndIn(all, i - 1))

\* Of the packet itself, now.
LEMMA WrittenAre == FieldsStand <=> WrittenIn(buffer, added)
<1>1. \A bytes, pos : Stands(bytes, pos) <=> StandsIn(buffer, bytes, pos)
  BY DEF Stands, StandsIn
<1> QED BY <1>1 DEF FieldsStand, WrittenIn

\* And after a step.
LEMMA WrittenAreThen == FieldsStand' <=> WrittenIn(buffer', added')
<1>1. \A bytes, pos : Stands(bytes, pos)' <=> StandsIn(buffer', bytes, pos)
  BY DEF Stands, StandsIn
<1> QED BY <1>1 DEF FieldsStand, WrittenIn

\* Nothing is missing of n fields.
WholeIn(buf, all, n) == /\ Len(buf) = EndIn(all, n)
                        /\ \A i \in 1..n : EndIn(all, i) <= Len(buf)

\* Where a field starts and ends.
LEMMA FieldSpan ==
  ASSUME NEW all \in Seq(Fields), NEW i \in 1..Len(all)
  PROVE  \E start \in Nat, plus \in Nat, bytes \in Seq(Byte) :
           /\ start = EndIn(all, i - 1) /\ EndIn(all, i) = start + plus
           /\ bytes = FieldBytes(all[i]) /\ plus = Len(bytes)
<1>1. i - 1 \in 0..Len(all)
  BY LenProperties
<1>2. EndIn(all, i - 1) \in Nat
  BY <1>1, EndsAt
<1>3. FieldBytes(all[i]) \in Seq(Byte) /\ Len(FieldBytes(all[i])) \in Nat
      /\ EndIn(all, i) = EndIn(all, i - 1) + Len(FieldBytes(all[i]))
  BY EndsAt
<1> QED BY <1>2, <1>3

\* Fields that were written stay where they are when one more is written behind them.
LEMMA WrittenAppend ==
  ASSUME NEW old \in Seq(Byte), NEW all \in Seq(Fields), NEW n \in Nat, n = Len(all),
         NEW f \in Fields, WrittenIn(old, all), WholeIn(old, all, n),
         NEW now, IsBehind(now, old, FieldBytes(f)), NEW more, Appended(more, all, f, n)
  PROVE  /\ now \in Seq(Byte) /\ WrittenIn(now, more)
         /\ WholeIn(now, more, n + 1) /\ Len(old) <= Len(now)
<1>0. Len(old) = EndIn(all, n) /\ \A i \in 1..n : EndIn(all, i) <= Len(old)
  BY DEF WholeIn
<1>1. PICK part \in Seq(Byte), len \in Nat, plus \in Nat :
        part = FieldBytes(f) /\ len = Len(old) /\ plus = Len(part)
  BY FieldTyped, LenProperties
<1>2. /\ now \in Seq(Byte) /\ Len(now) = len + plus
      /\ SameTo(now, old, len) /\ StandsIn(now, part, len)
  <2>1. IsBehind(now, old, part)
    BY <1>1 DEF IsBehind
  <2>2. PutBehind(now, old, part, len, plus)
    BY <1>1, <2>1, StandsBehind
  <2> QED BY <2>2 DEF PutBehind
<1>3. EndIn(more, n + 1) = len + plus /\ EndIn(more, n) = len
  <2>1. n \in 0..n
    OBVIOUS
  <2> QED BY <1>0, <1>1, <2>1 DEF Appended
<1>4. ASSUME NEW i \in 1..n
      PROVE  /\ EndIn(more, i) <= len + plus
             /\ StandsIn(now, FieldBytes(more[i]), EndIn(more, i - 1))
  <2>1. i \in 0..n /\ i - 1 \in 0..n
    OBVIOUS
  <2>2. EndIn(more, i) = EndIn(all, i) /\ EndIn(more, i - 1) = EndIn(all, i - 1) /\ more[i] = all[i]
    BY <2>1 DEF Appended
  <2>3. PICK start \in Nat, size \in Nat, bytes \in Seq(Byte) :
          /\ start = EndIn(all, i - 1) /\ EndIn(all, i) = start + size
          /\ bytes = FieldBytes(all[i]) /\ size = Len(bytes)
    BY FieldSpan
  <2>4. start + size <= len
    BY <1>0, <1>1, <2>3
  <2>5. StandsIn(old, bytes, start)
    BY <1>0, <2>3 DEF WrittenIn
  <2>6. StandsIn(now, bytes, start)
    BY <1>2, <2>3, <2>4, <2>5, StandsStill
  <2> QED BY <2>2, <2>3, <2>4, <2>6
<1>5. more[n + 1] = f /\ Len(more) = n + 1
  BY DEF Appended
<1>6. StandsIn(now, FieldBytes(more[n + 1]), EndIn(more, n))
  BY <1>1, <1>2, <1>3, <1>5
<1>7. ASSUME NEW i \in 1..(n + 1)
      PROVE  /\ EndIn(more, i) <= len + plus
             /\ StandsIn(now, FieldBytes(more[i]), EndIn(more, i - 1))
  <2>1. CASE i \in 1..n
    BY <1>4, <2>1
  <2>2. CASE i = n + 1
    <3>1. i - 1 = n
      BY <2>2
    <3> QED BY <1>3, <1>6, <2>2, <3>1
  <2> QED BY <2>1, <2>2
<1>8. WrittenIn(now, more)
  BY <1>5, <1>7 DEF WrittenIn
<1> QED BY <1>1, <1>2, <1>3, <1>7, <1>8 DEF WholeIn

\* A packet that is shorter, and what stands in it.
CutTo(now, old, last) == now = SubSeq(old, 1, last)
FrontWritten(now, all, last) == now \in Seq(Byte) /\ Len(now) = last /\ WrittenIn(now, all)

\* The fields that are all there in a shorter packet stand there.
LEMMA WrittenCut ==
  ASSUME NEW old \in Seq(Byte), NEW all \in Seq(Fields), WrittenIn(old, all),
         NEW last \in Nat, last <= Len(old), NEW now, CutTo(now, old, last)
  PROVE  FrontWritten(now, all, last)
<1>1. PICK len \in Nat : len = Len(old) /\ last <= len
  BY LenProperties
<1>2. now \in Seq(Byte) /\ Len(now) = last /\ \A k \in 1..last : now[k] = old[k]
  <2>1. \A k \in 1..last : old[k] \in Byte
    BY <1>1, ElementOfSeq
  <2>2. PICK front : front = SubSeq(old, 1, last) /\ front = now
    BY DEF CutTo
  <2>3. front \in Seq(Byte) /\ Len(front) = last /\ \A k \in 1..last : front[k] = old[k]
    BY <1>1, <2>1, <2>2, SubSeqProperties
  <2> QED BY <2>2, <2>3
<1>3. SameTo(now, old, last)
  BY <1>2 DEF SameTo
<1>4. ASSUME NEW i \in 1..Len(all), EndIn(all, i) <= last
      PROVE  StandsIn(now, FieldBytes(all[i]), EndIn(all, i - 1))
  <2>1. PICK start \in Nat, size \in Nat, bytes \in Seq(Byte) :
          /\ start = EndIn(all, i - 1) /\ EndIn(all, i) = start + size
          /\ bytes = FieldBytes(all[i]) /\ size = Len(bytes)
    BY FieldSpan
  <2>2. StandsIn(old, bytes, start)
    BY <1>1, <1>4, <2>1 DEF WrittenIn
  <2>3. start + Len(bytes) <= last
    BY <1>4, <2>1
  <2>4. StandsIn(now, bytes, start)
    BY <1>2, <1>3, <2>2, <2>3, StandsStill
  <2> QED BY <2>1, <2>4
<1> QED BY <1>2, <1>4 DEF WrittenIn, FrontWritten

\* Fields that were written stay where they are when more is written behind them.
LEMMA AddKeeps ==
  ASSUME PacketInv, NEW f \in Fields, Add(f)
  PROVE  PacketInv'
<1>1. PICK n \in Nat : n = Len(added)
  BY LenProperties DEF PacketInv, Packet
<1>2. /\ buffer \in Seq(Byte) /\ added \in Seq(Fields) /\ answers = <<>> /\ curPos = PacketHeader
      /\ PacketHeader <= Len(buffer) /\ PacketHeader \in Nat
      /\ Len(buffer) = EndIn(added, n) /\ \A i \in 1..n : EndIn(added, i) <= Len(buffer)
  BY <1>1, ByteIs DEF PacketInv, Packet, Whole, Add
<1>3. /\ curPos' = PacketHeader /\ answers' = <<>> /\ cut' = cut
  BY <1>2 DEF Add
<1>0. PICK old \in Seq(Byte), all \in Seq(Fields) : old = buffer /\ all = added
  BY <1>2
<1>4. PICK now, more : /\ old = buffer /\ all = added /\ now = old \o FieldBytes(f)
                       /\ more = Append(all, f) /\ buffer' = now /\ added' = more
  BY <1>0 DEF Add
<1>5. Appended(more, all, f, n)
  <2>1. Appended(Append(all, f), all, f, n)
    BY <1>1, <1>4, EndsAppend
  <2> QED BY <1>4, <2>1
<1>6. WrittenIn(old, all)
  BY <1>4, WrittenAre DEF PacketInv
<1>7. /\ now \in Seq(Byte) /\ WrittenIn(now, more)
      /\ WholeIn(now, more, n + 1) /\ Len(old) <= Len(now)
  <2>1. n = Len(all) /\ WholeIn(old, all, n)
    BY <1>1, <1>2, <1>4 DEF WholeIn
  <2>2. IsBehind(now, old, FieldBytes(f))
    BY <1>4 DEF IsBehind
  <2> QED BY <1>5, <1>6, <2>1, <2>2, WrittenAppend
<1>8. more \in Seq(Fields) /\ Len(more) = n + 1
  BY <1>5 DEF Appended
<1>9. Len(old) \in Nat /\ Len(now) \in Nat
  BY <1>7, LenProperties
<1>10. <<>> \in Seq({}) /\ Len(<<>>) = 0
  BY EmptySeq
<1>11. Packet'
  BY <1>2, <1>3, <1>4, <1>7, <1>8, <1>10 DEF Packet
<1>12. FieldsStand'
  <2>1. FieldsStand' <=> WrittenIn(buffer', added')
    BY WrittenAreThen
  <2> QED BY <1>4, <1>7, <2>1
<1>13. Whole'
  <2>1. PacketHeader <= Len(now)
    BY <1>2, <1>4, <1>7, <1>9
  <2> QED BY <1>3, <1>4, <1>7, <1>8, <2>1 DEF Whole, WholeIn
<1>14. Place'
  <2>1. EndIn(more, 0) = PacketHeader
    BY <1>8, EndsAt
  <2>2. PacketHeader <= Len(now)
    BY <1>2, <1>4, <1>7, <1>9
  <2> QED BY <1>3, <1>4, <1>10, <2>1, <2>2 DEF Place
<1>15. AllAnswered'
  BY <1>3, <1>10 DEF AllAnswered
<1> QED BY <1>11, <1>12, <1>13, <1>14, <1>15 DEF PacketInv

\* A packet that ends earlier has fewer fields, and those where they were.
LEMMA CutKeeps ==
  ASSUME PacketInv, NEW n \in 0..(Len(buffer) - 1), Cut(n)
  PROVE  PacketInv'
<1>1. PICK len \in Nat, last \in Nat : /\ len = Len(buffer) /\ last = PacketHeader + n /\ last < len
                                       /\ PacketHeader <= last /\ PacketHeader \in Nat
  BY ByteIs, LenProperties DEF PacketInv, Packet, Cut
<1>2. /\ buffer \in Seq(Byte) /\ added \in Seq(Fields) /\ curPos \in Nat /\ answers = <<>>
      /\ cut' = TRUE /\ added' = added /\ curPos' = curPos /\ answers' = answers
  BY DEF PacketInv, Packet, Cut
<1>0. PICK old \in Seq(Byte), all \in Seq(Fields) : old = buffer /\ all = added
  BY <1>2
<1>3. PICK now : /\ old = buffer /\ all = added /\ now = SubSeq(old, 1, last) /\ buffer' = now
  BY <1>0, <1>1 DEF Cut
<1>4. WrittenIn(old, all)
  BY <1>3, WrittenAre DEF PacketInv
<1>5. now \in Seq(Byte) /\ Len(now) = last /\ WrittenIn(now, all)
  <2>1. last <= Len(old) /\ CutTo(now, old, last)
    BY <1>1, <1>3 DEF CutTo
  <2>2. FrontWritten(now, all, last)
    BY <1>4, <2>1, WrittenCut
  <2> QED BY <2>2 DEF FrontWritten
<1>6. EndIn(all, 0) = PacketHeader /\ Len(<<>>) = 0
  BY EndsAt
<1>7. curPos = PacketHeader
  BY <1>1, <1>2, <1>3, <1>6 DEF PacketInv, Place
<1>8. Packet'
  BY <1>2, <1>3, <1>5 DEF PacketInv, Packet
<1>9. FieldsStand'
  <2>1. FieldsStand' <=> WrittenIn(buffer', added')
    BY WrittenAreThen
  <2> QED BY <1>2, <1>3, <1>5, <2>1
<1>10. Whole'
  BY <1>1, <1>2, <1>3, <1>5 DEF Whole
<1>11. Place'
  BY <1>1, <1>2, <1>3, <1>5, <1>6, <1>7 DEF Place
<1>12. AllAnswered'
  BY <1>2, <1>6 DEF AllAnswered
<1> QED BY <1>8, <1>9, <1>10, <1>11, <1>12 DEF PacketInv

\* The first field is written over, and is another one.
Over(now, old, bytes) ==
  now = [i \in DOMAIN old |-> IF i - PacketHeader \in DOMAIN bytes THEN bytes[i - PacketHeader] ELSE old[i]]
Replaced(more, all, f) == /\ more \in Seq(Fields) /\ Len(more) = Len(all) /\ more[1] = f
                          /\ \A i \in 2..Len(all) : more[i] = all[i]
                          /\ \A i \in 0..Len(all) : EndIn(more, i) = EndIn(all, i)
OverWritten(now, old, more) == now \in Seq(Byte) /\ Len(now) = Len(old) /\ WrittenIn(now, more)

\* If the other is as long, all end where they did.
LEMMA FieldReplaced ==
  ASSUME NEW all \in Seq(Fields), 1 \in 1..Len(all), NEW f \in Fields,
         Len(FieldBytes(f)) = Len(FieldBytes(all[1])), NEW more, more = [all EXCEPT ![1] = f]
  PROVE  Replaced(more, all, f)
<1>1. PICK n \in Nat : n = Len(all) /\ DOMAIN all = 1..n /\ \A i \in 1..n : all[i] \in Fields
  BY LenProperties, ElementOfSeq
<1>2. all \in [1..n -> Fields]
  BY <1>1, LenProperties
<1>3. more \in [1..n -> Fields] /\ more[1] = f /\ \A i \in 2..n : more[i] = all[i]
  BY <1>1, <1>2
<1>4. more \in Seq(Fields)
  BY <1>3, SeqDef
<1>5. Len(more) = n
  BY <1>3, <1>4, LenProperties
<1>6. \A i \in 1..n : Len(FieldBytes(more[i])) = Len(FieldBytes(all[i]))
  <2> SUFFICES ASSUME NEW i \in 1..n PROVE Len(FieldBytes(more[i])) = Len(FieldBytes(all[i]))
    OBVIOUS
  <2>1. CASE i = 1
    BY <1>3, <2>1
  <2>2. CASE i # 1
    BY <1>3, <2>2
  <2> QED BY <2>1, <2>2
<1>7. \A i \in 0..n : EndIn(more, i) = EndIn(all, i)
  <2>1. n <= Len(more) /\ n <= Len(all)
    BY <1>1, <1>5
  <2> HIDE <1>2, <1>3
  <2> QED BY <1>4, <1>6, <2>1, EndsAlike
<1> QED BY <1>1, <1>3, <1>4, <1>5, <1>7 DEF Replaced

\* It stands there instead of the first one, and the others stay.
LEMMA WrittenOver ==
  ASSUME NEW old \in Seq(Byte), NEW all \in Seq(Fields), WrittenIn(old, all), 1 \in 1..Len(all),
         EndIn(all, 1) <= Len(old), NEW f \in Fields,
         Len(FieldBytes(f)) = Len(FieldBytes(all[1])), NEW more, Replaced(more, all, f),
         NEW now, Over(now, old, FieldBytes(f))
  PROVE  OverWritten(now, old, more)
<1>1. PICK header \in Nat, len \in Nat : header = PacketHeader /\ len = Len(old)
  BY ByteIs, LenProperties
<1>2. PICK bytes \in Seq(Byte), plus \in Nat :
        bytes = FieldBytes(f) /\ plus = Len(bytes) /\ DOMAIN bytes = 1..plus
  BY FieldTyped, LenProperties
<1>3. DOMAIN old = 1..len /\ \A i \in 1..len : old[i] \in Byte
  BY <1>1, LenProperties, ElementOfSeq
<1>4. now = [i \in 1..len |-> IF i - header \in 1..plus THEN bytes[i - header] ELSE old[i]]
  BY <1>1, <1>2, <1>3 DEF Over
<1>5. \A i \in 1..plus : bytes[i] \in Byte
  BY <1>2, ElementOfSeq
<1>6. now \in [1..len -> Byte]
  <2>1. \A i \in 1..len : now[i] \in Byte
    BY <1>3, <1>4, <1>5
  <2> QED BY <1>4, <2>1
<1>7. now \in Seq(Byte)
  BY <1>6, SeqDef
<1>8. Len(now) = len
  BY <1>6, <1>7, LenProperties
<1>9. EndIn(all, 0) = header /\ EndIn(all, 1) = header + plus /\ header + plus <= len
  <2>1. EndIn(all, 0) = header
    BY <1>1, EndsAt
  <2>2. PICK one \in 1..Len(all) : one = 1 /\ one - 1 = 0
    OBVIOUS
  <2>3. EndIn(all, one) = EndIn(all, one - 1) + Len(FieldBytes(all[one]))
    BY EndsAt
  <2> QED BY <1>1, <1>2, <2>1, <2>2, <2>3
<1>10. StandsIn(now, bytes, header)
  <2>1. ASSUME NEW k \in 1..plus PROVE now[header + k] = bytes[k]
    <3>1. PICK i \in 1..len : i = header + k /\ i - header = k
      BY <1>9
    <3>2. now[i] = bytes[k]
      BY <1>4, <3>1
    <3> QED BY <3>1, <3>2
  <2> QED BY <1>2, <1>8, <1>9, <2>1 DEF StandsIn
<1>11. ASSUME NEW i \in 2..Len(all), EndIn(all, i) <= len
       PROVE  StandsIn(now, FieldBytes(all[i]), EndIn(all, i - 1))
  <2>0. i \in 1..Len(all) /\ i - 1 \in 1..Len(all)
    BY LenProperties
  <2>1. PICK start \in Nat, size \in Nat, part \in Seq(Byte) :
          /\ start = EndIn(all, i - 1) /\ EndIn(all, i) = start + size
          /\ part = FieldBytes(all[i]) /\ size = Len(part)
    BY <2>0, FieldSpan
  <2>2. header + plus <= start
    <3>1. EndIn(all, 1) <= EndIn(all, i - 1)
      BY <2>0, EndsRise
    <3> QED BY <1>9, <2>1, <3>1
  <2>3. StandsIn(old, part, start)
    BY <1>1, <1>11, <2>0, <2>1 DEF WrittenIn
  <2>4. start + size <= len
    BY <1>11, <2>1
  <2>5. ASSUME NEW k \in 1..size PROVE now[start + k] = part[k]
    <3>1. PICK j \in 1..len : j = start + k /\ j - header \notin 1..plus
      BY <2>2, <2>4
    <3>2. now[j] = old[j]
      BY <1>4, <3>1
    <3>3. old[j] = part[k]
      BY <2>1, <2>3, <3>1 DEF StandsIn
    <3> QED BY <3>1, <3>2, <3>3
  <2>6. StandsIn(now, part, start)
    BY <1>8, <2>1, <2>4, <2>5 DEF StandsIn
  <2> QED BY <2>1, <2>6
<1>12. WrittenIn(now, more)
  <2> SUFFICES ASSUME NEW i \in 1..Len(more), EndIn(more, i) <= Len(now)
               PROVE  StandsIn(now, FieldBytes(more[i]), EndIn(more, i - 1))
    BY DEF WrittenIn
  <2>1. PICK n \in Nat : n = Len(all) /\ n = Len(more)
    BY LenProperties DEF Replaced
  <2>2. i \in 0..n /\ i - 1 \in 0..n /\ i \in 1..n
    BY <2>1
  <2>3. EndIn(more, i) = EndIn(all, i) /\ EndIn(more, i - 1) = EndIn(all, i - 1)
    BY <2>1, <2>2 DEF Replaced
  <2>4. CASE i = 1
    <3>1. more[i] = f /\ i - 1 = 0
      BY <2>4 DEF Replaced
    <3> QED BY <1>2, <1>9, <1>10, <2>3, <3>1
  <2>5. CASE i # 1
    <3>1. i \in 2..Len(all)
      BY <2>1, <2>2, <2>5
    <3>2. more[i] = all[i]
      BY <3>1 DEF Replaced
    <3> QED BY <1>8, <1>11, <2>3, <3>1, <3>2
  <2> QED BY <2>4, <2>5
<1> QED BY <1>1, <1>7, <1>8, <1>12 DEF OverWritten

\* A counter that is set is written over the one that was there.
LEMMA SetKeeps ==
  ASSUME PacketInv, NEW n \in Numbers, SetNumber(n)
  PROVE  PacketInv'
<1>1. /\ buffer \in Seq(Byte) /\ added \in Seq(Fields) /\ answers = <<>> /\ added # <<>>
      /\ curPos' = curPos /\ answers' = answers /\ cut' = cut /\ ~cut
      /\ Head(added).kind = "number"
  BY DEF PacketInv, Packet, SetNumber
<1>2. PICK old \in Seq(Byte), all \in Seq(Fields) : old = buffer /\ all = added /\ all # <<>>
  BY <1>1
<1>3. 1 \in 1..Len(all) /\ Len(all) \in Nat /\ Head(all) = all[1] /\ 1 \in DOMAIN all
  BY <1>2, LenProperties, EmptySeq
<1>4. all[1] \in Fields
  BY <1>3, ElementOfSeq
<1>5. PICK m, w : NumberField(all[1], m, w)
  BY <1>1, <1>2, <1>3, <1>4, NumberKind
<1> DEFINE f == Field("number", w, <<n>>, <<>>)
<1>6. NumberField(f, n, w) /\ f \in Fields
  BY <1>5 DEF NumberField, Fields, NumberFields
<1>7. all[1] = Field("number", w, <<m>>, <<>>) /\ m \in Numbers /\ w \in Widths
  BY <1>5 DEF NumberField
<1>8. FieldBytes(f) = NumberBytes(n, w) /\ FieldBytes(all[1]) = NumberBytes(m, w) /\ all[1].len = w
  <2>1. FieldBytes(f) = NumberBytes(n, w)
    BY <1>6, NumberFieldIs
  <2>2. FieldBytes(all[1]) = NumberBytes(m, w) /\ all[1].len = w
    BY <1>5, NumberFieldIs
  <2> QED BY <2>1, <2>2
<1>9. [all[1] EXCEPT !.numbers = <<n>>] = f
  BY <1>7 DEF Field
<1> HIDE DEF f
<1>10. PICK now, more : buffer' = now /\ added' = more
  OBVIOUS
<1>11. more = [all EXCEPT ![1] = f]
  <2>1. more = [all EXCEPT ![1].numbers = <<n>>]
    BY <1>2, <1>10 DEF SetNumber
  <2> QED BY <1>3, <1>9, <2>1
<1>12. Over(now, old, FieldBytes(f))
  <2>1. now = [i \in DOMAIN old |-> IF i - PacketHeader \in DOMAIN NumberBytes(n, Head(all).len)
                                    THEN NumberBytes(n, Head(all).len)[i - PacketHeader] ELSE old[i]]
    BY <1>2, <1>10 DEF SetNumber
  <2>2. Head(all).len = w
    BY <1>3, <1>8
  <2>3. NumberBytes(n, Head(all).len) = FieldBytes(f)
    BY <1>8, <2>2
  <2> QED BY <2>1, <2>3 DEF Over
<1>13. Len(FieldBytes(f)) = Len(FieldBytes(all[1]))
  <2>1. n \in Nat /\ m \in Nat /\ w \in 0..4
    BY <1>7, WidthIs
  <2>2. Len(NumberBytes(n, w)) = w /\ Len(NumberBytes(m, w)) = w
    BY ONLY <2>1, NumberTyped
  <2> QED BY <1>8, <2>2
<1>14. Replaced(more, all, f)
  BY <1>3, <1>6, <1>11, <1>13, FieldReplaced
<1>15. WrittenIn(old, all) /\ EndIn(all, 1) <= Len(old)
  BY <1>1, <1>2, <1>3, WrittenAre DEF PacketInv, Whole
<1>16. OverWritten(now, old, more)
  BY <1>3, <1>6, <1>12, <1>13, <1>14, <1>15, WrittenOver
<1>17. now \in Seq(Byte) /\ Len(now) = Len(old) /\ WrittenIn(now, more)
  BY <1>16 DEF OverWritten
<1>18. /\ more \in Seq(Fields) /\ Len(more) = Len(all)
       /\ \A i \in 0..Len(all) : EndIn(more, i) = EndIn(all, i)
  BY <1>14 DEF Replaced
<1>19. Len(<<>>) = 0 /\ EndIn(more, 0) = EndIn(all, 0)
  BY <1>3, <1>18
<1>20. Packet'
  BY <1>1, <1>2, <1>10, <1>17, <1>18 DEF PacketInv, Packet
<1>21. FieldsStand'
  BY <1>10, <1>17, WrittenAreThen
<1>22. Whole'
  <2>1. PacketHeader <= Len(old) /\ Len(old) = EndIn(all, Len(all)) /\ \A i \in 1..Len(all) : EndIn(all, i) <= Len(old)
    BY <1>1, <1>2 DEF PacketInv, Whole
  <2>2. \A i \in 1..Len(all) : i \in 0..Len(all)
    OBVIOUS
  <2>3. Len(all) \in 0..Len(all)
    BY <1>3
  <2> QED BY <1>1, <1>10, <1>17, <1>18, <2>1, <2>2, <2>3 DEF Whole
<1>23. Place'
  BY <1>1, <1>2, <1>10, <1>17, <1>19 DEF PacketInv, Place
<1>24. AllAnswered'
  BY <1>1, <1>19 DEF AllAnswered
<1> QED BY <1>20, <1>21, <1>22, <1>23, <1>24 DEF PacketInv

\* What is read next is what InsideThePacket asks for.
LEMMA ReadKeeps ==
  ASSUME PacketInv, ReadNext
  PROVE  PacketInv'
<1>1. /\ buffer \in Seq(Byte) /\ added \in Seq(Fields) /\ curPos \in Nat
      /\ (\E S : answers \in Seq(S)) /\ curPos <= Len(buffer)
      /\ buffer' = buffer /\ added' = added /\ cut' = cut /\ Len(answers) < Len(added)
  BY DEF PacketInv, Packet, Place, ReadNext
<1>2. PICK n \in Nat, i \in 1..Len(added) :
        n = Len(answers) /\ i = n + 1 /\ i - 1 = n
  <2>1. Len(answers) \in Nat
    BY <1>1, LenProperties
  <2>2. Len(added) \in Nat
    BY <1>1, LenProperties
  <2> QED BY <1>1, <2>1, <2>2
<1>3. PICK f \in Fields : f = added[i] /\ f = added[n + 1]
  BY <1>1, <1>2, ElementOfSeq
<1>4. PICK answer : answer = ReadField(f) /\ answers' = Append(answers, answer) /\ curPos' = answer.pos
  BY <1>2, <1>3 DEF ReadNext
<1>5. PICK start \in Nat, plus \in Nat, bytes \in Seq(Byte) :
        /\ start = EndIn(added, i - 1) /\ EndIn(added, i) = start + plus
        /\ bytes = FieldBytes(f) /\ plus = Len(bytes)
  <2>1. PICK all \in Seq(Fields) : all = added /\ i \in 1..Len(all) /\ all[i] = f
    BY <1>1, <1>3
  <2>2. PICK start \in Nat, plus \in Nat, bytes \in Seq(Byte) :
          /\ start = EndIn(all, i - 1) /\ EndIn(all, i) = start + plus
          /\ bytes = FieldBytes(all[i]) /\ plus = Len(bytes)
    BY <2>1, FieldSpan
  <2>3. bytes = FieldBytes(f) /\ start = EndIn(added, i - 1) /\ EndIn(added, i) = start + plus
    BY <2>1, <2>2
  <2> QED BY <2>2, <2>3
<1>6. start <= Len(buffer) => curPos = start
  BY <1>2, <1>5 DEF PacketInv, Place
<1>7. start + plus <= Len(buffer) =>
        /\ AsMeant(answer, f) /\ answer.pos = start + plus
  <2> SUFFICES ASSUME start + plus <= Len(buffer)
               PROVE  AsMeant(answer, f) /\ answer.pos = start + plus
    OBVIOUS
  <2>1. start <= Len(buffer)
    BY <1>1, LenProperties
  <2>2. Stands(FieldBytes(f), curPos)
    BY <1>3, <1>5, <1>6, <2>1 DEF PacketInv, FieldsStand
  <2>3. AsMeant(ReadField(f), f) /\ ReadField(f).pos = curPos + Len(FieldBytes(f))
    BY <1>1, <2>2, FieldRead
  <2> QED BY <1>4, <1>5, <1>6, <2>1, <2>3
<1>8. (start <= Len(buffer) /\ start + plus > Len(buffer) /\ f.kind = "number") => answer.numbers = <<0>>
  <2> SUFFICES ASSUME start <= Len(buffer), start + plus > Len(buffer), f.kind = "number"
               PROVE  answer.numbers = <<0>>
    OBVIOUS
  <2>1. curPos + Len(FieldBytes(f)) > Len(buffer)
    BY <1>5, <1>6
  <2>2. ReadField(f).numbers = <<0>>
    BY <1>1, <2>1, CutNumber
  <2> QED BY <1>4, <2>2
<1>9. answer.pos \in Nat /\ answer.pos <= Len(buffer)
  BY <1>1, <1>4, FieldInside
<1>10. PICK more : more = answers' /\ more = Append(answers, answer)
  BY <1>4
<1>11. /\ \E S : more \in Seq(S)
       /\ Len(more) = n + 1 /\ (\A k \in 1..n : more[k] = answers[k]) /\ more[n + 1] = answer
  <2>1. Grown(Append(answers, answer), answers, answer)
    BY <1>1, AnswersGrow
  <2> QED BY <1>2, <1>10, <2>1 DEF Grown
<1>12. Packet'
  BY <1>1, <1>2, <1>4, <1>9, <1>10, <1>11 DEF Packet
<1>13. FieldsStand'
  <2>1. WrittenIn(buffer, added)
    BY WrittenAre DEF PacketInv
  <2> QED BY <1>1, <2>1, WrittenAreThen
<1>14. Whole'
  BY <1>1 DEF PacketInv, Whole
<1>15. Place'
  <2>1. EndIn(added, Len(more)) = start + plus
    BY <1>2, <1>5, <1>11
  <2> QED BY <1>1, <1>4, <1>7, <1>9, <1>10, <2>1 DEF Place
<1>16. Answered(answer, f, start, start + plus)
  BY <1>7, <1>8 DEF Answered
<1>17. AllAnswered'
  <2>1. ASSUME NEW k \in 1..(n + 1)
        PROVE  Answered(more[k], added[k], EndIn(added, k - 1), EndIn(added, k))'
    <3>1. CASE k \in 1..n
      <4>1. Answered(answers[k], added[k], EndIn(added, k - 1), EndIn(added, k))
        BY <1>2, <3>1 DEF PacketInv, AllAnswered
      <4>2. more[k] = answers[k]
        BY <1>11, <3>1
      <4> QED BY <1>1, <4>1, <4>2 DEF Answered
    <3>2. CASE k = n + 1
      <4>1. more[k] = answer /\ added[k] = f /\ EndIn(added, k - 1) = start /\ EndIn(added, k) = start + plus
        BY <1>2, <1>3, <1>5, <1>11, <3>2
      <4> QED BY <1>1, <1>16, <4>1 DEF Answered
    <3> QED BY <3>1, <3>2
  <2> QED BY <1>10, <1>11, <2>1 DEF AllAnswered
<1> QED BY <1>12, <1>13, <1>14, <1>15, <1>17 DEF PacketInv

\* Every step keeps it.
LEMMA PacketKeeps == PacketInv /\ [PacketNext]_packetVars => PacketInv'
<1> SUFFICES ASSUME PacketInv, [PacketNext]_packetVars PROVE PacketInv'
  OBVIOUS
<1>1. ASSUME NEW f \in Fields, Add(f) PROVE PacketInv'
  BY <1>1, AddKeeps
<1>2. ASSUME NEW n \in Numbers, SetNumber(n) PROVE PacketInv'
  BY <1>2, SetKeeps
<1>3. ASSUME NEW n \in 0..(Len(buffer) - 1), Cut(n) PROVE PacketInv'
  BY <1>3, CutKeeps
<1>4. CASE ReadNext
  BY <1>4, ReadKeeps
<1>5. CASE UNCHANGED packetVars
  <2>1. buffer' = buffer /\ added' = added /\ curPos' = curPos /\ answers' = answers /\ cut' = cut
    BY <1>5 DEF packetVars
  <2>2. Packet' /\ Whole' /\ Place'
    BY <2>1 DEF PacketInv, Packet, Whole, Place
  <2>3. WrittenIn(buffer, added)
    BY WrittenAre DEF PacketInv
  <2>4. FieldsStand'
    BY <2>1, <2>3, WrittenAreThen
  <2>5. AllAnswered'
    BY <2>1 DEF PacketInv, AllAnswered, Answered
  <2> QED BY <2>2, <2>4, <2>5 DEF PacketInv
<1> QED BY <1>1, <1>2, <1>3, <1>4, <1>5 DEF PacketNext

\* It is more than the property asks for.
LEMMA PacketSays == PacketInv => InsideThePacket
<1> SUFFICES ASSUME PacketInv PROVE InsideThePacket
  OBVIOUS
<1>1. curPos <= Len(buffer)
  BY DEF PacketInv, Place
<1>2. DOMAIN answers = 1..Len(answers)
  <2>1. PICK S : answers \in Seq(S)
    BY DEF PacketInv, Packet
  <2> QED BY <2>1, LenProperties
<1>3. ASSUME NEW i \in DOMAIN answers
      PROVE  /\ FieldEnd(i) <= Len(buffer) => AsMeant(answers[i], added[i])
             /\ (FieldEnd(i - 1) <= Len(buffer) /\ FieldEnd(i) > Len(buffer)
                   /\ added[i].kind = "number") => answers[i].numbers = <<0>>
  <2>1. i \in 1..Len(answers) /\ i \in Nat /\ i - 1 \in Nat
    BY <1>2
  <2>2. FieldEnd(i) = EndIn(added, i) /\ FieldEnd(i - 1) = EndIn(added, i - 1)
    BY <2>1, FieldEndIs
  <2>3. Answered(answers[i], added[i], EndIn(added, i - 1), EndIn(added, i))
    BY <2>1 DEF PacketInv, AllAnswered
  <2> QED BY <2>2, <2>3 DEF Answered
<1> QED BY <1>1, <1>3 DEF InsideThePacket

\* Nobody reads behind the end of a packet, however long its fields are and however
\* short it is: what is whole is read as it was written, the first number that is not is 0.
THEOREM FieldsAreReadInside == PacketInit /\ [][PacketNext]_packetVars => []InsideThePacket
<1> QED BY PacketStarts, PacketKeeps, PacketSays, PTL
-----------------------------------------------------------------------------
(* The tables of the game's data                                            *)

\* The greatest of some places.
LEMMA GreatestIs ==
  ASSUME NEW s, s \subseteq Nat, NEW x \in s, \A y \in s : y <= x
  PROVE  Max(s) = x
<1>1. \A y \in s : x >= y
  OBVIOUS
<1>2. Max(s) \in s /\ \A y \in s : Max(s) >= y
  BY <1>1 DEF Max
<1>3. x \in Nat /\ Max(s) \in Nat /\ Max(s) >= x /\ Max(s) <= x
  BY <1>2
<1> QED BY <1>3

\* Of two lists, one behind the other, each stands where it was put.
BothStand(both, S, a, b) ==
  both \in Seq(S) /\ Len(both) = Len(a) + Len(b) /\ StandsIn(both, a, 0) /\ StandsIn(both, b, Len(a))

\* That is what \o makes of them.
LEMMA JoinStands ==
  ASSUME NEW S, NEW a \in Seq(S), NEW b \in Seq(S)
  PROVE  BothStand(a \o b, S, a, b)
<1>0. PICK both : both = a \o b
  OBVIOUS
<1>1. PICK m \in Nat, n \in Nat : m = Len(a) /\ n = Len(b) /\ both = a \o b
  BY <1>0, LenProperties
<1>2. /\ both \in Seq(S) /\ Len(both) = m + n
      /\ \A k \in 1..(m + n) : both[k] = IF k <= m THEN a[k] ELSE b[k - m]
  BY <1>1, ConcatProperties
<1>3. ASSUME NEW k \in 1..m PROVE both[0 + k] = a[k]
  BY <1>2
<1>4. ASSUME NEW k \in 1..n PROVE both[m + k] = b[k]
  <2>1. PICK j \in 1..(m + n) : j = m + k /\ ~(j <= m) /\ j - m = k
    OBVIOUS
  <2>2. both[j] = b[j - m]
    BY <1>2, <2>1
  <2> QED BY <2>1, <2>2
<1>5. StandsIn(both, a, 0)
  BY <1>1, <1>2, <1>3 DEF StandsIn
<1>6. StandsIn(both, b, m)
  BY <1>1, <1>2, <1>4 DEF StandsIn
<1> QED BY <1>1, <1>2, <1>5, <1>6 DEF BothStand

\* What stands in something that stands in the data stands there too.
LEMMA StandsWithin ==
  ASSUME NEW data, Len(data) \in Nat, NEW whole, Len(whole) \in Nat, NEW part, Len(part) \in Nat,
         NEW p \in Nat, NEW q \in Nat, StandsIn(data, whole, p), StandsIn(whole, part, q)
  PROVE  StandsIn(data, part, p + q)
<1>1. PICK l \in Nat, m \in Nat, n \in Nat :
        l = Len(data) /\ m = Len(whole) /\ n = Len(part) /\ p + m <= l /\ q + n <= m
  BY DEF StandsIn
<1>2. ASSUME NEW k \in 1..n PROVE data[(p + q) + k] = part[k]
  <2>1. PICK j \in 1..m : j = q + k /\ p + j = (p + q) + k
    BY <1>1
  <2>2. data[p + j] = whole[j] /\ whole[q + k] = part[k]
    BY <1>1, <2>1 DEF StandsIn
  <2> QED BY <2>1, <2>2
<1> QED BY <1>1, <1>2 DEF StandsIn

\* Where the parts of a list end that was put together of them.
EndOf(parts, i) == Len(FlattenSeq(Firsts(parts, i)))
PartsIn(whole, parts, n) ==
  /\ EndOf(parts, 0) = 0 /\ Len(whole) = EndOf(parts, n)
  /\ \A i \in 0..n : EndOf(parts, i) \in Nat
  /\ \A i \in 1..n : /\ EndOf(parts, i) = EndOf(parts, i - 1) + Len(parts[i])
                     /\ StandsIn(whole, parts[i], EndOf(parts, i - 1))

\* Each part of a list stands where the one before ends.
LEMMA PartsStand ==
  ASSUME NEW S, NEW n \in Nat, NEW parts, \A i \in 1..n : parts[i] \in Seq(S)
  PROVE  FlattenSeq(Firsts(parts, n)) \in Seq(S) /\ PartsIn(FlattenSeq(Firsts(parts, n)), parts, n)
<1> DEFINE flat(m) == FlattenSeq(Firsts(parts, m))
<1>1. /\ flat(0) = <<>>
      /\ \A m \in 1..n : flat(m) = flat(m - 1) \o parts[m]
      /\ \A m \in 0..n : flat(m) \in Seq(S)
  BY FlattenParts
<1>2. \A m \in 0..n : EndOf(parts, m) = Len(flat(m))
  BY DEF EndOf
<1> HIDE DEF flat
<1>3. \A m \in 0..n : EndOf(parts, m) \in Nat /\ Len(flat(m)) \in Nat
  BY <1>1, <1>2, LenProperties
<1>4. EndOf(parts, 0) = 0
  BY <1>1, <1>2
<1>5. ASSUME NEW m \in 1..n
      PROVE  /\ EndOf(parts, m) = EndOf(parts, m - 1) + Len(parts[m])
             /\ Len(parts[m]) \in Nat
             /\ StandsIn(flat(m), flat(m - 1), 0)
             /\ StandsIn(flat(m), parts[m], EndOf(parts, m - 1))
  <2>0. m - 1 \in 0..n /\ m \in 0..n
    OBVIOUS
  <2>1. PICK a \in Seq(S), b \in Seq(S) : a = flat(m - 1) /\ b = parts[m] /\ flat(m) = a \o b
    <3>1. flat(m - 1) \in Seq(S) /\ parts[m] \in Seq(S) /\ flat(m) = flat(m - 1) \o parts[m]
      BY <1>1, <2>0
    <3> QED BY <3>1
  <2>2. BothStand(a \o b, S, a, b)
    BY JoinStands
  <2>3. Len(flat(m)) = Len(a) + Len(b) /\ StandsIn(flat(m), a, 0) /\ StandsIn(flat(m), b, Len(a))
    BY <2>1, <2>2 DEF BothStand
  <2>4. EndOf(parts, m) = Len(flat(m)) /\ EndOf(parts, m - 1) = Len(a) /\ Len(b) \in Nat
    <3>1. EndOf(parts, m) = Len(flat(m)) /\ EndOf(parts, m - 1) = Len(flat(m - 1))
      BY <1>2, <2>0
    <3>2. Len(b) \in Nat
      BY LenProperties
    <3> QED BY <2>1, <3>1, <3>2
  <2> QED BY <2>1, <2>3, <2>4
<1> DEFINE done == {m \in Nat : m <= n => \A i \in 1..m : StandsIn(flat(m), parts[i], EndOf(parts, i - 1))}
<1>6. 0 \in done
  OBVIOUS
<1>7. ASSUME NEW m \in Nat, m \in done PROVE m + 1 \in done
  <2> SUFFICES ASSUME m + 1 <= n, NEW i \in 1..(m + 1)
               PROVE  StandsIn(flat(m + 1), parts[i], EndOf(parts, i - 1))
    OBVIOUS
  <2>1. m + 1 \in 1..n /\ m \in 0..n /\ (m + 1) - 1 = m /\ m + 1 \in 0..n
    OBVIOUS
  <2>2. CASE i = m + 1
    BY <1>5, <2>1, <2>2
  <2>3. CASE i # m + 1
    <3>1. i \in 1..m /\ i \in 1..n /\ i - 1 \in 0..n
      BY <2>1, <2>3
    <3>2. PICK p \in Nat : p = EndOf(parts, i - 1) /\ 0 + p = p
      BY <1>3, <3>1
    <3>3. StandsIn(flat(m), parts[i], p)
      BY <1>7, <2>1, <3>1, <3>2
    <3>4. StandsIn(flat(m + 1), flat(m), 0)
      BY <1>5, <2>1
    <3>5. Len(parts[i]) \in Nat /\ Len(flat(m)) \in Nat /\ Len(flat(m + 1)) \in Nat
      BY <1>3, <1>5, <2>1, <3>1
    <3>6. StandsIn(flat(m + 1), parts[i], 0 + p)
      BY <3>2, <3>3, <3>4, <3>5, StandsWithin
    <3> QED BY <3>2, <3>6
  <2> QED BY <2>2, <2>3
<1> HIDE DEF done
<1>8. n \in done
  BY <1>6, <1>7, NaturalInduction
<1>9. \A i \in 1..n : StandsIn(flat(n), parts[i], EndOf(parts, i - 1))
  BY <1>8 DEF done
<1>10. flat(n) \in Seq(S) /\ Len(flat(n)) = EndOf(parts, n)
  BY <1>1, <1>2
<1>11. PartsIn(flat(n), parts, n)
  BY <1>3, <1>4, <1>5, <1>9, <1>10 DEF PartsIn
<1> QED BY <1>10, <1>11 DEF flat

\* The first n + 1 of some parts are the first n, and one more.
LEMMA FirstsGrow ==
  ASSUME NEW parts, NEW i \in Nat, NEW j, j = i + 1
  PROVE  Append(Firsts(parts, i), parts[j]) = Firsts(parts, j)
<1> DEFINE S == {parts[k] : k \in 1..j}
<1>1. PICK few, many : few = Firsts(parts, i) /\ many = Firsts(parts, j)
  OBVIOUS
<1>2. few \in [1..i -> S] /\ many \in [1..j -> S] /\ parts[j] \in S
  BY <1>1 DEF Firsts
<1>3. (\A k \in 1..i : few[k] = parts[k]) /\ (\A k \in 1..j : many[k] = parts[k])
  BY <1>1 DEF Firsts
<1> HIDE DEF S
<1>4. few \in Seq(S) /\ many \in Seq(S)
  BY <1>2, SeqDef
<1>5. Len(few) = i /\ Len(many) = j
  BY <1>2, <1>4, LenProperties
<1>6. PICK more : more = Append(few, parts[j])
  OBVIOUS
<1>7. more \in Seq(S) /\ Len(more) = j /\ (\A k \in 1..i : more[k] = few[k]) /\ more[j] = parts[j]
  BY <1>2, <1>4, <1>5, <1>6, AppendProperties
<1>8. \A k \in 1..j : more[k] = many[k]
  <2> SUFFICES ASSUME NEW k \in 1..j PROVE more[k] = many[k]
    OBVIOUS
  <2>1. CASE k \in 1..i
    BY <1>3, <1>7, <2>1
  <2>2. CASE k = j
    BY <1>3, <1>7, <2>2
  <2> QED BY <2>1, <2>2
<1>9. more = many
  BY <1>4, <1>5, <1>7, <1>8, SeqEqual
<1> QED BY <1>1, <1>6, <1>9

\* What the writer enciphers, Decrypt makes readable: each byte is under the key of its
\* place in the file, once in and once out.
LEMMA SeenIs ==
  ASSUME NEW S, NEW bytes \in Seq(S)
  PROVE  Seen(Decrypt(Enciphered(bytes))) = bytes
<1>1. PICK n \in Nat : n = Len(bytes) /\ DOMAIN bytes = 1..n /\ bytes = [i \in 1..n |-> bytes[i]]
  BY LenProperties
<1>2. PICK hidden : hidden = Enciphered(bytes)
  OBVIOUS
<1>3. hidden = [i \in 1..n |-> [v |-> bytes[i], keys |-> IF i = 1 THEN {} ELSE {<<n, i>>}]]
  BY <1>1, <1>2 DEF Enciphered
<1>4. DOMAIN hidden = 1..n /\ Len(hidden) = n
  BY <1>3
<1>5. PICK plain : plain = Decrypt(hidden)
  OBVIOUS
<1>6. plain = [i \in 1..n |-> IF i = 1 THEN hidden[i]
                              ELSE [hidden[i] EXCEPT !.keys = SymDiff(@, {<<n, i>>})]]
  BY <1>4, <1>5 DEF Decrypt
<1>7. ASSUME NEW i \in 1..n PROVE plain[i].keys = {} /\ plain[i].v = bytes[i]
  <2>1. CASE i = 1
    BY <1>3, <1>6, <2>1
  <2>2. CASE i # 1
    <3>1. hidden[i] = [v |-> bytes[i], keys |-> {<<n, i>>}]
      BY <1>3, <2>2
    <3>2. plain[i] = [hidden[i] EXCEPT !.keys = SymDiff(@, {<<n, i>>})]
      BY <1>6, <2>2
    <3>3. SymDiff({<<n, i>>}, {<<n, i>>}) = {}
      BY DEF SymDiff
    <3>4. PICK key : key = {<<n, i>>}
      OBVIOUS
    <3>5. plain[i] = [v |-> bytes[i], keys |-> SymDiff(key, key)]
      BY <3>1, <3>2, <3>4
    <3>6. SymDiff(key, key) = {}
      BY <3>3, <3>4
    <3> QED BY <3>5, <3>6
  <2> QED BY <2>1, <2>2
<1>8. DOMAIN plain = 1..n
  BY <1>6
<1>9. Seen(plain) = [i \in 1..n |-> bytes[i]]
  BY <1>7, <1>8 DEF Seen
<1> QED BY <1>1, <1>2, <1>5, <1>9

\* One cell of a row, and one row of a table, behind those that were read.
CellStep(data, read, column) ==
  [cells |-> Append(read.cells, Cell(column, data, read.pos).value),
   pos |-> Cell(column, data, read.pos).pos]
RowStep(data, read) ==
  [rows |-> Append(read.rows, Row(data, read.pos).cells), pos |-> Row(data, read.pos).pos]
Step(what, data, read, e) == IF what = "cells" THEN CellStep(data, read, e) ELSE RowStep(data, read)

\* The loop that FoldLeft is: a function of the places that were passed.
FoldsAt(f, what, data, base, elems, s) ==
  IF s = {} THEN base ELSE Step(what, data, f[s \ {Max(s)}], elems[Max(s)])
Folds(f, what, data, base, elems, n) ==
  f = [s \in SUBSET (1..n) |-> FoldsAt(f, what, data, base, elems, s)]

\* It can be carried on.
LEMMA FoldsOn ==
  ASSUME NEW what, NEW data, NEW base, NEW elems, NEW n \in Nat, NEW f,
         Folds(f, what, data, base, elems, n)
  PROVE  \E g : Folds(g, what, data, base, elems, n + 1)
<1> DEFINE x == n + 1
           D == 1..n
           E == 1..(n + 1)
           g == [s \in SUBSET E |-> IF x \in s THEN Step(what, data, f[s \ {x}], elems[x]) ELSE f[s]]
<1>1. x \in Nat /\ E = D \cup {x} /\ x \notin D /\ E \subseteq Nat /\ \A y \in E : y <= x
  OBVIOUS
<1>2. f = [s \in SUBSET D |-> FoldsAt(f, what, data, base, elems, s)]
  BY DEF Folds
<1> HIDE DEF x, D, E
<1>3. ASSUME NEW s \in SUBSET E PROVE g[s] = FoldsAt(g, what, data, base, elems, s)
  <2>1. CASE x \in s
    <3>1. Max(s) = x
      BY <1>1, <2>1, GreatestIs
    <3>2. s \ {x} \in SUBSET D /\ s \ {x} \in SUBSET E /\ x \notin s \ {x}
      BY <1>1
    <3>3. g[s \ {x}] = f[s \ {x}]
      BY <3>2
    <3>4. g[s] = Step(what, data, f[s \ {x}], elems[x])
      BY <2>1
    <3> HIDE DEF g
    <3> QED BY <2>1, <3>1, <3>3, <3>4 DEF FoldsAt
  <2>2. CASE x \notin s
    <3>1. s \in SUBSET D
      BY <1>1, <2>2
    <3>2. g[s] = f[s]
      BY <2>2
    <3>3. f[s] = FoldsAt(f, what, data, base, elems, s)
      BY <1>2, <3>1
    <3>4. CASE s = {}
      <4> HIDE DEF g
      <4> QED BY <3>2, <3>3, <3>4 DEF FoldsAt
    <3>5. CASE s # {}
      <4>1. s \ {Max(s)} \in SUBSET E /\ x \notin s \ {Max(s)}
        BY <2>2
      <4>2. g[s \ {Max(s)}] = f[s \ {Max(s)}]
        BY <4>1
      <4> HIDE DEF g
      <4> QED BY <3>2, <3>3, <3>5, <4>2 DEF FoldsAt
    <3> QED BY <3>4, <3>5
  <2> QED BY <2>1, <2>2
<1>4. g = [s \in SUBSET E |-> FoldsAt(g, what, data, base, elems, s)]
  BY <1>3
<1>5. Folds(g, what, data, base, elems, n + 1)
  BY <1>4 DEF Folds, E
<1> QED BY <1>5

\* There is such a loop over all elements.
LEMMA FoldsThere ==
  ASSUME NEW what, NEW data, NEW base, NEW elems, NEW n \in Nat
  PROVE  \E f : Folds(f, what, data, base, elems, n)
<1> DEFINE can == {m \in Nat : \E f : Folds(f, what, data, base, elems, m)}
<1>1. 0 \in can
  <2>1. Folds([s \in SUBSET (1..0) |-> base], what, data, base, elems, 0)
    <3>1. \A s \in SUBSET (1..0) : s = {}
      OBVIOUS
    <3> QED BY <3>1 DEF Folds, FoldsAt
  <2> QED BY <2>1
<1>2. ASSUME NEW m \in Nat, m \in can PROVE m + 1 \in can
  BY <1>2, FoldsOn
<1> HIDE DEF can
<1>3. n \in can
  BY <1>1, <1>2, NaturalInduction
<1> QED BY <1>3 DEF can

\* The loop, element by element.
Passes(g, what, data, base, elems, n) ==
  g[0] = base /\ \A i \in 1..n : g[i] = Step(what, data, g[i - 1], elems[i])

\* What the loop has made of the first i elements is a function of i.
LEMMA FoldsPass ==
  ASSUME NEW what, NEW data, NEW base, NEW elems, NEW n \in Nat, NEW f,
         Folds(f, what, data, base, elems, n)
  PROVE  Passes([i \in 0..n |-> f[1..i]], what, data, base, elems, n)
<1> DEFINE g == [i \in 0..n |-> f[1..i]]
<1>1. \A s \in SUBSET (1..n) : f[s] = FoldsAt(f, what, data, base, elems, s)
  BY DEF Folds
<1>2. g[0] = base
  <2>1. 1..0 = {} /\ 0 \in 0..n /\ 1..0 \in SUBSET (1..n)
    OBVIOUS
  <2>2. f[1..0] = base
    BY <1>1, <2>1 DEF FoldsAt
  <2> QED BY <2>1, <2>2
<1>3. ASSUME NEW i \in 1..n PROVE g[i] = Step(what, data, g[i - 1], elems[i])
  <2>1. /\ 1..i \in SUBSET (1..n) /\ 1..i # {} /\ 1..i \subseteq Nat /\ i \in 1..i
        /\ (\A y \in 1..i : y <= i) /\ (1..i) \ {i} = 1..(i - 1)
    OBVIOUS
  <2>2. Max(1..i) = i
    BY <2>1, GreatestIs
  <2>3. f[1..i] = Step(what, data, f[1..(i - 1)], elems[i])
    BY <1>1, <2>1, <2>2 DEF FoldsAt
  <2>4. i \in 0..n /\ i - 1 \in 0..n
    OBVIOUS
  <2> QED BY <2>3, <2>4
<1> HIDE DEF g
<1>4. Passes(g, what, data, base, elems, n)
  BY <1>2, <1>3 DEF Passes
<1> QED BY <1>4 DEF g

\* Row reads the cells one by one.
LEMMA RowPass ==
  ASSUME NEW data, NEW pos, NEW n \in Nat, DOMAIN columns = 1..n
  PROVE  \E g : /\ Passes(g, "cells", data, [cells |-> <<>>, pos |-> pos + 2], columns, n)
                /\ Row(data, pos) = g[n]
<1> DEFINE base == [cells |-> <<>>, pos |-> pos + 2]
           body(f, s) == IF s = {} THEN base
                         ELSE LET cell == Cell(columns[Max(s)], data, f[s \ {Max(s)}].pos) IN
                              [cells |-> Append(f[s \ {Max(s)}].cells, cell.value), pos |-> cell.pos]
           f == CHOOSE f : f = [s \in SUBSET (DOMAIN columns) |-> body(f, s)]
<1>1. Row(data, pos) = f[DOMAIN columns]
  BY DEF Row, FoldLeft, MapThenFoldSet
<1>2. \A g, s : FoldsAt(g, "cells", data, base, columns, s) = body(g, s)
  BY DEF FoldsAt, Step, CellStep
<1> HIDE DEF base, body
<1>3. PICK h : Folds(h, "cells", data, base, columns, n)
  BY FoldsThere
<1>4. h = [s \in SUBSET (DOMAIN columns) |-> FoldsAt(h, "cells", data, base, columns, s)]
  BY <1>3 DEF Folds
<1>5. h = [s \in SUBSET (DOMAIN columns) |-> body(h, s)]
  BY <1>2, <1>4
<1>6. f = [s \in SUBSET (DOMAIN columns) |-> body(f, s)]
  BY <1>5
<1> HIDE DEF f
<1>7. Folds(f, "cells", data, base, columns, n)
  <2>1. f = [s \in SUBSET (1..n) |-> body(f, s)]
    BY <1>6
  <2>2. f = [s \in SUBSET (1..n) |-> FoldsAt(f, "cells", data, base, columns, s)]
    BY <1>2, <2>1
  <2> QED BY <2>2 DEF Folds
<1>8. Passes([i \in 0..n |-> f[1..i]], "cells", data, base, columns, n)
  BY <1>7, FoldsPass
<1>9. Row(data, pos) = [i \in 0..n |-> f[1..i]][n]
  BY <1>1
<1> QED BY <1>8, <1>9 DEF base

\* RowsOf reads the rows one by one.
LEMMA RowsPass ==
  ASSUME NEW data, NEW n \in Nat
  PROVE  \E g, any : /\ Passes(g, "rows", data, [rows |-> <<>>, pos |-> 1], any, n)
                     /\ RowsOf(data, n) = g[n].rows
<1> DEFINE base == [rows |-> <<>>, pos |-> 1]
           zeros == Zeros(n)
           body(f, s) == IF s = {} THEN base
                         ELSE LET row == Row(data, f[s \ {Max(s)}].pos) IN
                              [rows |-> Append(f[s \ {Max(s)}].rows, row.cells), pos |-> row.pos]
           f == CHOOSE f : f = [s \in SUBSET (DOMAIN zeros) |-> body(f, s)]
<1>0. DOMAIN zeros = 1..n
  BY DEF Zeros
<1>1. RowsOf(data, n) = f[DOMAIN zeros].rows
  BY DEF RowsOf, FoldLeft, MapThenFoldSet
<1> HIDE DEF zeros
<1>2. \A g, s : FoldsAt(g, "rows", data, base, zeros, s) = body(g, s)
  BY DEF FoldsAt, Step, RowStep
<1> HIDE DEF base, body
<1>3. PICK h : Folds(h, "rows", data, base, zeros, n)
  BY FoldsThere
<1>4. h = [s \in SUBSET (DOMAIN zeros) |-> FoldsAt(h, "rows", data, base, zeros, s)]
  BY <1>0, <1>3 DEF Folds
<1>5. h = [s \in SUBSET (DOMAIN zeros) |-> body(h, s)]
  BY <1>2, <1>4
<1>6. f = [s \in SUBSET (DOMAIN zeros) |-> body(f, s)]
  BY <1>5
<1> HIDE DEF f
<1>7. Folds(f, "rows", data, base, zeros, n)
  <2>1. f = [s \in SUBSET (1..n) |-> body(f, s)]
    BY <1>0, <1>6
  <2>2. f = [s \in SUBSET (1..n) |-> FoldsAt(f, "rows", data, base, zeros, s)]
    BY <1>2, <2>1
  <2> QED BY <2>2 DEF Folds
<1>8. Passes([i \in 0..n |-> f[1..i]], "rows", data, base, zeros, n)
  BY <1>7, FoldsPass
<1>9. RowsOf(data, n) = [i \in 0..n |-> f[1..i]][n].rows
  BY <1>0, <1>1
<1> QED BY <1>8, <1>9 DEF base

\* What stands in the data is what is cut out of it there, as Cell does.
LEMMA TakenIs ==
  ASSUME NEW S, NEW data \in Seq(S), NEW bytes \in Seq(S), NEW pos \in Nat,
         NEW w \in Nat, w = Len(bytes), StandsIn(data, bytes, pos)
  PROVE  SubSeq(data, pos + 1, Min({pos + w, Len(data)})) = bytes
<1>1. PICK last \in Nat, len \in Nat : last = pos + w /\ len = Len(data) /\ last <= len
  BY LenProperties DEF StandsIn
<1>2. Min({pos + w, Len(data)}) = last
  <2>1. PICK both : both = {last, len}
    OBVIOUS
  <2>2. both \subseteq Nat /\ last \in both /\ \A y \in both : last <= y
    BY <1>1, <2>1
  <2>3. Min(both) = last
    BY <2>2, LeastIs
  <2> QED BY <1>1, <2>1, <2>3
<1>3. PICK part : part = SubSeq(data, pos + 1, last)
  OBVIOUS
<1>4. part \in Seq(S) /\ Len(part) = w /\ \A k \in 1..w : part[k] = data[pos + k]
  <2>1. \A k \in (pos + 1)..last : data[k] \in S
    BY <1>1, ElementOfSeq
  <2>2. /\ part \in Seq(S) /\ Len(part) = IF pos + 1 <= last THEN last - (pos + 1) + 1 ELSE 0
        /\ \A k \in 1..(last - (pos + 1) + 1) : part[k] = data[pos + 1 + k - 1]
    BY <1>1, <1>3, <2>1, SubSeqProperties
  <2>3. Len(part) = w /\ last - (pos + 1) + 1 = w
    BY <1>1, <2>2
  <2>4. ASSUME NEW k \in 1..w PROVE part[k] = data[pos + k]
    <3>1. pos + 1 + k - 1 = pos + k
      OBVIOUS
    <3> QED BY <2>2, <2>3, <3>1
  <2> QED BY <2>2, <2>3, <2>4
<1>5. \A k \in 1..w : part[k] = bytes[k]
  BY <1>4 DEF StandsIn
<1>6. part = bytes
  BY <1>4, <1>5, SeqEqual
<1> QED BY <1>2, <1>3, <1>6

\* Zeros are so many bytes.
LEMMA ZerosAre ==
  ASSUME NEW n \in Nat
  PROVE  Zeros(n) \in Seq(Nat) /\ Len(Zeros(n)) = n /\ \A k \in 1..n : Zeros(n)[k] = 0
<1>1. Zeros(n) \in [1..n -> Nat]
  BY DEF Zeros
<1>2. Zeros(n) \in Seq(Nat)
  BY <1>1, SeqDef
<1> QED BY <1>2, LenProperties DEF Zeros

\* Filled up with zeros or not, a string is what stands before the first zero.
LEMMA StringIs ==
  ASSUME NEW str \in Seq(Nat \ {0}), NEW n \in Nat
  PROVE  /\ str \o Zeros(n) \in Seq(Nat) /\ Len(str \o Zeros(n)) = Len(str) + n
         /\ UpToZero(str \o Zeros(n)) = str
<1>1. PICK m \in Nat : m = Len(str) /\ DOMAIN str = 1..m /\ \A k \in 1..m : str[k] \in Nat \ {0}
  BY LenProperties, ElementOfSeq
<1>2. str \in Seq(Nat)
  <2>1. Nat \ {0} \subseteq Nat
    OBVIOUS
  <2> QED BY <2>1, SeqMonotonic
<1>3. PICK zeros \in Seq(Nat) : zeros = Zeros(n) /\ Len(zeros) = n /\ \A k \in 1..n : zeros[k] = 0
  BY ZerosAre
<1>4. PICK all : all = str \o zeros
  OBVIOUS
<1>5. /\ all \in Seq(Nat) /\ Len(all) = m + n
      /\ \A k \in 1..(m + n) : all[k] = IF k <= m THEN str[k] ELSE zeros[k - m]
  BY <1>1, <1>2, <1>3, <1>4, ConcatProperties
<1>6. DOMAIN all = 1..(m + n)
  BY <1>5, LenProperties
<1>7. ASSUME NEW k \in 1..m PROVE all[k] = str[k] /\ all[k] # 0
  <2>1. k \in 1..(m + n) /\ k <= m
    OBVIOUS
  <2> QED BY <1>1, <1>5, <2>1
<1>8. ASSUME NEW k \in (m + 1)..(m + n) PROVE all[k] = 0
  <2>1. k \in 1..(m + n) /\ ~(k <= m) /\ k - m \in 1..n
    OBVIOUS
  <2> QED BY <1>3, <1>5, <2>1
<1> DEFINE places == {i \in DOMAIN all : all[i] = 0}
<1>9. UpToZero(all) = IF places = {} THEN all ELSE SubSeq(all, 1, Min(places) - 1)
  BY DEF UpToZero
<1>10. places = (m + 1)..(m + n)
  BY <1>6, <1>7, <1>8
<1> HIDE DEF places
<1>11. UpToZero(all) = str
  <2>1. CASE n = 0
    <3>1. places = {}
      BY <1>10, <2>1
    <3>2. \A k \in 1..m : all[k] = str[k]
      BY <1>7
    <3>3. Len(all) = m
      BY <1>5, <2>1
    <3>4. all = str
      BY <1>1, <1>2, <1>5, <3>2, <3>3, SeqEqual
    <3> QED BY <1>9, <3>1, <3>4
  <2>2. CASE n # 0
    <3>1. m + 1 \in places /\ places \subseteq Nat /\ \A y \in places : m + 1 <= y
      BY <1>10, <2>2
    <3>2. Min(places) = m + 1
      BY <3>1, LeastIs
    <3>3. PICK part : part = SubSeq(all, 1, m)
      OBVIOUS
    <3>4. \A k \in 1..m : all[k] \in Nat
      BY <1>1, <1>7
    <3>5. part \in Seq(Nat) /\ Len(part) = m /\ \A k \in 1..m : part[k] = all[k]
      BY <3>3, <3>4, SubSeqProperties
    <3>6. part = str
      BY <1>1, <1>2, <1>7, <3>5, SeqEqual
    <3>7. (m + 1) - 1 = m
      OBVIOUS
    <3> QED BY <1>9, <3>1, <3>2, <3>3, <3>6, <3>7
  <2> QED BY <2>1, <2>2
<1> QED BY <1>1, <1>3, <1>4, <1>5, <1>11

\* A column that can be read past, and a value in it.
CellOf(column, value) == /\ column \in [type : Nat, size : Nat] /\ column.type # 26
                         /\ \E cols \in Columns : \E j \in DOMAIN cols : cols[j] = column
                         /\ value \in ValuesOf(column)

\* A cell of either kind is as many bytes as its column is wide.
LEMMA NumberCell ==
  ASSUME NEW column, NEW value, CellOf(column, value), column.type \in Numeric
  PROVE  /\ CellBytes(column, value) = value /\ value \in Seq(Nat)
         /\ Len(value) = WidthOf(column) /\ WidthOf(column) \in Nat
<1>1. WidthOf(column) \in 1..4
  BY DEF WidthOf, Numeric
<1>2. PICK id \in Ids, w \in 1..4 : w = WidthOf(column) /\ value = SubSeq(id, 1, w)
  <2>1. value \in {SubSeq(id, 1, WidthOf(column)) : id \in Ids}
    BY DEF CellOf, ValuesOf, Numeric, Textual
  <2> QED BY <1>1, <2>1
<1>3. \A k \in 1..w : id[k] \in Nat
  BY <1>2, IdsAre
<1>4. value \in Seq(Nat) /\ Len(value) = w
  BY <1>2, <1>3, SubSeqProperties
<1>5. CellBytes(column, value) = value
  BY DEF CellBytes, Numeric
<1> QED BY <1>2, <1>4, <1>5

\* A string of fixed length is read back: it is what stands before the first zero.
LEMMA StringCell ==
  ASSUME NEW column, NEW value, CellOf(column, value), column.type \notin Numeric
  PROVE  /\ value \in Seq(Nat \ {0}) /\ column.size - Len(value) \in Nat /\ Len(value) \in Nat
         /\ CellBytes(column, value) = value \o Zeros(column.size - Len(value))
         /\ WidthOf(column) = column.size /\ column.size \in Nat
         /\ column.type # 9 => value = Nothing
<1>1. WidthOf(column) = column.size /\ column.size \in Nat
  BY DEF WidthOf, Numeric, CellOf
<1>2. CellBytes(column, value) = value \o Zeros(column.size - Len(value))
  BY DEF CellBytes, CellOf
<1>3. CASE column.type = 9
  <2>1. value \in Strings
    BY <1>3 DEF CellOf, ValuesOf, Textual
  <2>2. PICK cols \in Columns : \E j \in DOMAIN cols : cols[j] = column
    BY DEF CellOf
  <2>3. Len(value) <= column.size
    BY <1>3, <2>1, <2>2, StringsAre
  <2>4. value \in Seq(Nat \ {0})
    BY <2>1, StringsAre
  <2>5. Len(value) \in Nat
    BY <2>4, LenProperties
  <2> QED BY <1>1, <1>2, <1>3, <2>3, <2>4, <2>5
<1>4. CASE column.type # 9
  <2>1. value = Nothing
    BY <1>4 DEF CellOf, ValuesOf, Textual
  <2>2. value \in Seq(Nat \ {0}) /\ Len(value) = 0
    BY <2>1, EmptySeq DEF Nothing
  <2> QED BY <1>1, <1>2, <2>1, <2>2
<1> QED BY <1>3, <1>4

\* A cell is bytes, as many as its column is wide.
LEMMA CellTyped ==
  ASSUME NEW column, NEW value, CellOf(column, value)
  PROVE  CellBytes(column, value) \in Seq(Nat) /\ Len(CellBytes(column, value)) = WidthOf(column)
         /\ WidthOf(column) \in Nat
<1>1. CASE column.type \in Numeric
  BY <1>1, NumberCell
<1>2. CASE column.type \notin Numeric
  <2>1. PICK n \in Nat : /\ n = column.size - Len(value) /\ value \in Seq(Nat \ {0})
                         /\ CellBytes(column, value) = value \o Zeros(n)
                         /\ WidthOf(column) = column.size /\ column.size \in Nat /\ Len(value) \in Nat
    BY <1>2, StringCell
  <2>2. value \o Zeros(n) \in Seq(Nat) /\ Len(value \o Zeros(n)) = Len(value) + n
    BY <2>1, StringIs
  <2> QED BY <2>1, <2>2
<1> QED BY <1>1, <1>2

\* A cell that stands in the data is read as it was written, and passed over.
LEMMA CellRead ==
  ASSUME NEW column, NEW value, CellOf(column, value), NEW data \in Seq(Nat), NEW pos \in Nat,
         StandsIn(data, CellBytes(column, value), pos)
  PROVE  Cell(column, data, pos).value = value /\ Cell(column, data, pos).pos = pos + WidthOf(column)
<1>1. PICK bytes \in Seq(Nat), w \in Nat :
        bytes = CellBytes(column, value) /\ w = WidthOf(column) /\ w = Len(bytes)
  BY CellTyped
<1>2. SubSeq(data, pos + 1, Min({pos + w, Len(data)})) = bytes
  BY <1>1, TakenIs
<1>3. CASE column.type \in Numeric
  <2>1. bytes = value
    BY <1>1, <1>3, NumberCell
  <2>2. /\ Cell(column, data, pos).value = SubSeq(data, pos + 1, Min({pos + WidthOf(column), Len(data)}))
        /\ Cell(column, data, pos).pos = pos + WidthOf(column)
    <3>1. column.type # 9 /\ column.type # 26
      BY <1>3 DEF Numeric
    <3> QED BY ONLY <1>3, <3>1 DEF Cell
  <2> QED BY ONLY <1>1, <1>2, <2>1, <2>2
<1>4. CASE column.type \notin Numeric /\ column.type = 9
  <2>1. UpToZero(bytes) = value
    <3>1. PICK n \in Nat : bytes = value \o Zeros(n) /\ value \in Seq(Nat \ {0})
      BY <1>1, <1>4, StringCell
    <3>2. UpToZero(value \o Zeros(n)) = value
      BY <3>1, StringIs
    <3> QED BY <3>1, <3>2
  <2>2. /\ Cell(column, data, pos).value
              = UpToZero(SubSeq(data, pos + 1, Min({pos + WidthOf(column), Len(data)})))
        /\ Cell(column, data, pos).pos = pos + WidthOf(column)
    BY <1>4 DEF Cell
  <2>3. UpToZero(SubSeq(data, pos + 1, Min({pos + WidthOf(column), Len(data)}))) = value
    BY ONLY <1>1, <1>2, <2>1
  <2> QED BY <2>2, <2>3
<1>5. CASE column.type \notin Numeric /\ column.type # 9
  <2>1. value = Nothing
    BY <1>5, StringCell
  <2>2. Cell(column, data, pos) = [value |-> Nothing, pos |-> pos + WidthOf(column)]
    BY <1>5 DEF Cell, CellOf
  <2> QED BY <2>1, <2>2
<1> QED BY <1>3, <1>4, <1>5

\* The cells of a row, and where they stand.
CellsOf(row) == [j \in DOMAIN columns |-> CellBytes(columns[j], row[j])]
RowBytes(row) == Zeros(2) \o FlattenSeq(CellsOf(row))

\* The columns of a table, none of type 26.
ColumnsGood == columns \in Columns /\ Readable

LEMMA ColumnIs ==
  ASSUME ColumnsGood
  PROVE  \E n \in Nat : /\ n = Len(columns) /\ DOMAIN columns = 1..n
                        /\ \A row \in RowsWith(columns), j \in 1..n : CellOf(columns[j], row[j])
                        /\ \A row \in RowsWith(columns) : DOMAIN row = 1..n
<1>1. columns \in Seq([type : Nat, size : Nat])
  BY ColumnsAre DEF ColumnsGood
<1>2. PICK n \in Nat : n = Len(columns) /\ DOMAIN columns = 1..n
  BY <1>1, LenProperties
<1>3. ASSUME NEW row \in RowsWith(columns), NEW j \in 1..n PROVE CellOf(columns[j], row[j])
  <2>1. row[j] \in ValuesOf(columns[j])
    BY <1>2 DEF RowsWith
  <2>2. columns[j] \in [type : Nat, size : Nat]
    BY <1>1, <1>2, ElementOfSeq
  <2>3. columns[j].type # 26
    BY <1>2 DEF ColumnsGood, Readable
  <2>4. \E cols \in Columns : \E k \in DOMAIN cols : cols[k] = columns[j]
    BY <1>2 DEF ColumnsGood
  <2> QED BY <2>1, <2>2, <2>3, <2>4 DEF CellOf
<1>4. ASSUME NEW row \in RowsWith(columns) PROVE DOMAIN row = 1..n
  BY <1>2 DEF RowsWith
<1> QED BY <1>2, <1>3, <1>4

\* A row is bytes: a word, and its cells, one where the other ends.
LEMMA RowTyped ==
  ASSUME ColumnsGood, NEW row \in RowsWith(columns), NEW n \in Nat, DOMAIN columns = 1..n
  PROVE  /\ RowBytes(row) \in Seq(Nat) /\ Len(RowBytes(row)) = 2 + EndOf(CellsOf(row), n)
         /\ StandsIn(RowBytes(row), FlattenSeq(CellsOf(row)), 2)
         /\ FlattenSeq(CellsOf(row)) \in Seq(Nat)
         /\ PartsIn(FlattenSeq(CellsOf(row)), CellsOf(row), n)
<1>1. PICK cells : cells = CellsOf(row)
  OBVIOUS
<1>2. cells = [j \in 1..n |-> CellBytes(columns[j], row[j])]
  BY <1>1 DEF CellsOf
<1>3. \A j \in 1..n : CellOf(columns[j], row[j])
  BY ColumnIs
<1>4. \A j \in 1..n : cells[j] \in Seq(Nat)
  BY <1>2, <1>3, CellTyped
<1>5. Firsts(cells, n) = cells
  BY <1>2 DEF Firsts
<1>6. FlattenSeq(Firsts(cells, n)) \in Seq(Nat) /\ PartsIn(FlattenSeq(Firsts(cells, n)), cells, n)
  BY <1>4, PartsStand
<1>7. PICK flat \in Seq(Nat) : flat = FlattenSeq(cells) /\ PartsIn(flat, cells, n)
  BY <1>5, <1>6
<1>8. PICK two \in Nat, size \in Seq(Nat) : two = 2 /\ size = Zeros(2) /\ Len(size) = two
  <2>1. PICK two \in Nat : two = 2
    OBVIOUS
  <2>2. Zeros(two) \in Seq(Nat) /\ Len(Zeros(two)) = two
    BY ZerosAre
  <2> QED BY <2>1, <2>2
<1>9. BothStand(size \o flat, Nat, size, flat)
  BY JoinStands
<1>10. /\ size \o flat \in Seq(Nat) /\ Len(size \o flat) = 2 + EndOf(cells, n)
       /\ StandsIn(size \o flat, flat, 2)
  BY <1>7, <1>8, <1>9 DEF BothStand, PartsIn
<1>11. RowBytes(row) = size \o flat
  BY <1>1, <1>7, <1>8 DEF RowBytes
<1> QED BY <1>1, <1>7, <1>10, <1>11

\* A row that stands in the data is read as it was written, and passed over.
LEMMA RowRead ==
  ASSUME ColumnsGood, NEW row \in RowsWith(columns), NEW data \in Seq(Nat), NEW pos \in Nat,
         StandsIn(data, RowBytes(row), pos)
  PROVE  Row(data, pos).cells = row /\ Row(data, pos).pos = pos + Len(RowBytes(row))
<1>1. PICK n \in Nat : /\ n = Len(columns) /\ DOMAIN columns = 1..n /\ DOMAIN row = 1..n
                       /\ \A j \in 1..n : CellOf(columns[j], row[j])
  BY ColumnIs
<1>2. PICK cells : cells = CellsOf(row)
  OBVIOUS
<1>3. PICK flat \in Seq(Nat), all \in Seq(Nat) :
        /\ flat = FlattenSeq(cells) /\ all = RowBytes(row)
        /\ Len(all) = 2 + EndOf(cells, n) /\ StandsIn(all, flat, 2) /\ PartsIn(flat, cells, n)
  BY <1>1, <1>2, RowTyped
<1>4. \A j \in 1..n : cells[j] = CellBytes(columns[j], row[j])
  BY <1>1, <1>2 DEF CellsOf
<1>5. PICK start \in Nat : start = pos + 2
  OBVIOUS
<1>6. StandsIn(data, flat, start)
  <2>1. PICK two \in Nat : two = 2
    OBVIOUS
  <2>2. StandsIn(data, all, pos) /\ StandsIn(all, flat, two)
    BY <1>3, <2>1
  <2>3. Len(data) \in Nat /\ Len(all) \in Nat /\ Len(flat) \in Nat
    BY LenProperties
  <2>4. StandsIn(data, flat, pos + two)
    BY <2>2, <2>3, StandsWithin
  <2> QED BY <1>5, <2>1, <2>4
<1>7. ASSUME NEW j \in 1..n
      PROVE  /\ EndOf(cells, j - 1) \in Nat /\ EndOf(cells, j) = EndOf(cells, j - 1) + WidthOf(columns[j])
             /\ WidthOf(columns[j]) \in Nat
             /\ StandsIn(data, CellBytes(columns[j], row[j]), start + EndOf(cells, j - 1))
  <2>1. PICK q \in Nat : q = EndOf(cells, j - 1)
    BY <1>3 DEF PartsIn
  <2>2. PICK bytes \in Seq(Nat) : bytes = CellBytes(columns[j], row[j]) /\ Len(bytes) = WidthOf(columns[j])
                                  /\ WidthOf(columns[j]) \in Nat
    BY <1>1, CellTyped
  <2>3. StandsIn(flat, bytes, q) /\ EndOf(cells, j) = q + Len(bytes)
    BY <1>3, <1>4, <2>1, <2>2 DEF PartsIn
  <2>4. Len(data) \in Nat /\ Len(bytes) \in Nat /\ Len(flat) \in Nat
    BY LenProperties
  <2>5. StandsIn(data, bytes, start + q)
    BY <1>6, <2>3, <2>4, StandsWithin
  <2> QED BY <2>1, <2>2, <2>3, <2>5
<1>8. PICK g : /\ Passes(g, "cells", data, [cells |-> <<>>, pos |-> pos + 2], columns, n)
               /\ Row(data, pos) = g[n]
  BY <1>1, RowPass
<1>9. g[0].cells = <<>> /\ g[0].pos = start
  BY <1>5, <1>8 DEF Passes
<1>10. ASSUME NEW j \in 1..n
       PROVE  /\ g[j].cells = Append(g[j - 1].cells, Cell(columns[j], data, g[j - 1].pos).value)
              /\ g[j].pos = Cell(columns[j], data, g[j - 1].pos).pos
  <2>1. g[j] = Step("cells", data, g[j - 1], columns[j])
    BY <1>8 DEF Passes
  <2>2. g[j] = CellStep(data, g[j - 1], columns[j])
    BY <2>1 DEF Step
  <2> QED BY <2>2 DEF CellStep
<1> DEFINE read == {j \in Nat : j <= n => g[j].cells = Firsts(row, j) /\ g[j].pos = start + EndOf(cells, j)}
<1>11. 0 \in read
  <2>1. Firsts(row, 0) = <<>> /\ EndOf(cells, 0) = 0
    BY <1>3 DEF Firsts, PartsIn
  <2> QED BY <1>9, <2>1
<1>12. ASSUME NEW i \in Nat, i \in read PROVE i + 1 \in read
  <2> SUFFICES ASSUME i + 1 <= n
               PROVE  g[i + 1].cells = Firsts(row, i + 1) /\ g[i + 1].pos = start + EndOf(cells, i + 1)
    OBVIOUS
  <2>1. PICK j \in 1..n : j = i + 1 /\ j - 1 = i
    OBVIOUS
  <2>2. g[i].cells = Firsts(row, i) /\ g[i].pos = start + EndOf(cells, i)
    BY <1>12, <2>1
  <2>3. PICK p \in Nat : p = start + EndOf(cells, i) /\ StandsIn(data, CellBytes(columns[j], row[j]), p)
    <3>1. PICK q \in Nat : q = EndOf(cells, j - 1) /\ StandsIn(data, CellBytes(columns[j], row[j]), start + q)
      BY <1>7
    <3>2. q = EndOf(cells, i)
      BY <2>1, <3>1
    <3> QED BY <3>1, <3>2
  <2>4. Cell(columns[j], data, p).value = row[j] /\ Cell(columns[j], data, p).pos = p + WidthOf(columns[j])
    <3>1. PICK column, value : column = columns[j] /\ value = row[j]
      OBVIOUS
    <3>2. CellOf(column, value) /\ StandsIn(data, CellBytes(column, value), p)
      BY <1>1, <2>3, <3>1
    <3>3. Cell(column, data, p).value = value /\ Cell(column, data, p).pos = p + WidthOf(column)
      BY ONLY <3>2, data \in Seq(Nat), p \in Nat, CellRead
    <3> QED BY <3>1, <3>3
  <2>5. g[j].cells = Append(Firsts(row, i), row[j]) /\ g[j].pos = p + WidthOf(columns[j])
    BY <1>10, <2>1, <2>2, <2>3, <2>4
  <2>6. Append(Firsts(row, i), row[j]) = Firsts(row, j)
    BY <2>1, FirstsGrow
  <2>7. g[j].pos = start + EndOf(cells, j)
    BY <1>7, <2>1, <2>3, <2>5
  <2> QED BY <2>1, <2>5, <2>6, <2>7
<1> HIDE DEF read
<1>13. n \in read
  BY <1>11, <1>12, NaturalInduction
<1>14. g[n].cells = Firsts(row, n) /\ g[n].pos = start + EndOf(cells, n)
  BY <1>13 DEF read
<1>15. Firsts(row, n) = row
  BY <1>1 DEF Firsts, RowsWith
<1>16. EndOf(cells, n) \in Nat
  BY <1>3 DEF PartsIn
<1> QED BY <1>3, <1>5, <1>8, <1>14, <1>15, <1>16

\* The rows of a file, and where they stand.
PartsOf(saved) == [i \in DOMAIN saved |-> RowBytes(saved[i])]
RowsStand(data, saved, n) ==
  /\ EndOf(PartsOf(saved), 0) = 0
  /\ \A i \in 0..n : EndOf(PartsOf(saved), i) \in Nat
  /\ \A i \in 1..n :
       /\ EndOf(PartsOf(saved), i) = EndOf(PartsOf(saved), i - 1) + Len(RowBytes(saved[i]))
       /\ StandsIn(data, RowBytes(saved[i]), 1 + EndOf(PartsOf(saved), i - 1))

\* The file of a table is bytes, its rows stand in it one behind the other.
LEMMA TableTyped ==
  ASSUME ColumnsGood, NEW n \in Nat, NEW saved \in [1..n -> RowsWith(columns)]
  PROVE  FileData(saved) \in Seq(Nat) /\ RowsStand(FileData(saved), saved, n)
<1>1. PICK parts : parts = PartsOf(saved)
  OBVIOUS
<1>2. parts = [i \in 1..n |-> RowBytes(saved[i])]
  BY <1>1 DEF PartsOf
<1>3. PICK c \in Nat : DOMAIN columns = 1..c
  BY ColumnIs
<1>4. ASSUME NEW i \in 1..n PROVE parts[i] = RowBytes(saved[i]) /\ parts[i] \in Seq(Nat)
  <2>1. PICK row \in RowsWith(columns) : row = saved[i]
    OBVIOUS
  <2>2. RowBytes(row) \in Seq(Nat)
    BY <1>3, RowTyped
  <2> QED BY <1>2, <2>1, <2>2
<1>5. Firsts(parts, n) = parts
  BY <1>2 DEF Firsts
<1>6. FlattenSeq(Firsts(parts, n)) \in Seq(Nat) /\ PartsIn(FlattenSeq(Firsts(parts, n)), parts, n)
  BY <1>4, PartsStand
<1>7. PICK flat \in Seq(Nat) : flat = FlattenSeq(parts) /\ PartsIn(flat, parts, n)
  BY <1>5, <1>6
<1>8. PICK one \in Nat, head \in Seq(Nat) : one = 1 /\ head = <<0>> /\ Len(head) = one
  <2>1. <<0>> \in Seq(Nat) /\ Len(<<0>>) = 1
    OBVIOUS
  <2> QED BY <2>1
<1>9. PICK data : data = FileData(saved)
  OBVIOUS
<1>10. data = head \o flat
  BY <1>1, <1>7, <1>8, <1>9 DEF FileData, PartsOf, RowBytes, CellsOf
<1>11. BothStand(head \o flat, Nat, head, flat)
  BY JoinStands
<1>12. data \in Seq(Nat) /\ StandsIn(data, flat, one)
  BY <1>8, <1>10, <1>11 DEF BothStand
<1>13. \A i \in 0..n : EndOf(parts, i) \in Nat
  BY <1>7 DEF PartsIn
<1>14. ASSUME NEW i \in 1..n
       PROVE  /\ EndOf(parts, i) = EndOf(parts, i - 1) + Len(RowBytes(saved[i]))
              /\ StandsIn(data, RowBytes(saved[i]), 1 + EndOf(parts, i - 1))
  <2>1. PICK q \in Nat : q = EndOf(parts, i - 1)
    BY <1>13
  <2>2. PICK bytes \in Seq(Nat) : bytes = parts[i] /\ bytes = RowBytes(saved[i])
    BY <1>4
  <2>3. StandsIn(flat, bytes, q) /\ EndOf(parts, i) = EndOf(parts, i - 1) + Len(bytes)
    BY <1>7, <2>1, <2>2 DEF PartsIn
  <2>4. Len(data) \in Nat /\ Len(bytes) \in Nat /\ Len(flat) \in Nat
    BY <1>12, LenProperties
  <2>5. StandsIn(data, bytes, one + q)
    BY <1>12, <2>3, <2>4, StandsWithin
  <2> QED BY <1>8, <2>1, <2>2, <2>3, <2>5
<1>15. EndOf(parts, 0) = 0
  BY <1>7 DEF PartsIn
<1>16. RowsStand(data, saved, n)
  BY <1>1, <1>13, <1>14, <1>15 DEF RowsStand
<1> QED BY <1>9, <1>12, <1>16

\* RowsOf reads the rows that were written, no byte more and no byte less.
LEMMA TableRead ==
  ASSUME ColumnsGood, NEW n \in Nat, NEW saved \in [1..n -> RowsWith(columns)]
  PROVE  RowsOf(FileData(saved), n) = saved
<1>1. PICK data \in Seq(Nat) : data = FileData(saved) /\ RowsStand(data, saved, n)
  BY TableTyped
<1>2. PICK parts : parts = PartsOf(saved)
  OBVIOUS
<1>3. /\ EndOf(parts, 0) = 0
      /\ \A i \in 0..n : EndOf(parts, i) \in Nat
      /\ \A i \in 1..n : /\ EndOf(parts, i) = EndOf(parts, i - 1) + Len(RowBytes(saved[i]))
                         /\ StandsIn(data, RowBytes(saved[i]), 1 + EndOf(parts, i - 1))
  BY <1>1, <1>2 DEF RowsStand
<1>4. PICK g, any : /\ Passes(g, "rows", data, [rows |-> <<>>, pos |-> 1], any, n)
                    /\ RowsOf(data, n) = g[n].rows
  BY RowsPass
<1>5. g[0].rows = <<>> /\ g[0].pos = 1
  BY <1>4 DEF Passes
<1>6. ASSUME NEW j \in 1..n
      PROVE  /\ g[j].rows = Append(g[j - 1].rows, Row(data, g[j - 1].pos).cells)
             /\ g[j].pos = Row(data, g[j - 1].pos).pos
  <2>1. g[j] = Step("rows", data, g[j - 1], any[j])
    BY <1>4 DEF Passes
  <2>2. g[j] = RowStep(data, g[j - 1])
    BY <2>1 DEF Step
  <2> QED BY <2>2 DEF RowStep
<1> DEFINE read == {j \in Nat : j <= n => g[j].rows = Firsts(saved, j) /\ g[j].pos = 1 + EndOf(parts, j)}
<1>7. 0 \in read
  <2>1. Firsts(saved, 0) = <<>>
    BY DEF Firsts
  <2> QED BY <1>3, <1>5, <2>1
<1>8. ASSUME NEW i \in Nat, i \in read PROVE i + 1 \in read
  <2> SUFFICES ASSUME i + 1 <= n
               PROVE  g[i + 1].rows = Firsts(saved, i + 1) /\ g[i + 1].pos = 1 + EndOf(parts, i + 1)
    OBVIOUS
  <2>1. PICK j \in 1..n : j = i + 1 /\ j - 1 = i
    OBVIOUS
  <2>2. g[i].rows = Firsts(saved, i) /\ g[i].pos = 1 + EndOf(parts, i)
    BY <1>8, <2>1
  <2>3. PICK row \in RowsWith(columns) : row = saved[j]
    OBVIOUS
  <2>4. PICK p \in Nat : p = 1 + EndOf(parts, i) /\ StandsIn(data, RowBytes(row), p)
    <3>1. PICK q \in Nat : q = EndOf(parts, j - 1) /\ StandsIn(data, RowBytes(row), 1 + q)
      BY <1>3, <2>3
    <3>2. q = EndOf(parts, i)
      BY <2>1, <3>1
    <3> QED BY <3>1, <3>2
  <2>5. Row(data, p).cells = row /\ Row(data, p).pos = p + Len(RowBytes(row))
    BY <2>4, RowRead
  <2>6. g[j].rows = Append(Firsts(saved, i), row) /\ g[j].pos = p + Len(RowBytes(row))
    BY <1>6, <2>1, <2>2, <2>4, <2>5
  <2>7. Append(Firsts(saved, i), saved[j]) = Firsts(saved, j)
    BY <2>1, FirstsGrow
  <2>8. EndOf(parts, j) = EndOf(parts, i) + Len(RowBytes(row)) /\ EndOf(parts, j) \in Nat /\ EndOf(parts, i) \in Nat
    BY <1>3, <2>1, <2>3
  <2>9. g[j].pos = 1 + EndOf(parts, j)
    BY <2>4, <2>6, <2>8
  <2> QED BY <2>1, <2>3, <2>6, <2>7, <2>9
<1> HIDE DEF read
<1>9. n \in read
  BY <1>7, <1>8, NaturalInduction
<1>10. g[n].rows = Firsts(saved, n)
  BY <1>9 DEF read
<1>11. Firsts(saved, n) = saved
  BY DEF Firsts
<1> QED BY <1>1, <1>4, <1>10, <1>11

\* An open table without a column of type 26 has the rows of the file, and its maps are
\* made of them.
ShnInv ==
  /\ columns \in Columns
  /\ isOpen /\ Readable =>
       /\ rows = table
       /\ IdColumns # {} => idMap = IdMapOf(table, Min(IdColumns))
       /\ StrColumns # {} => strMap = StrMapOf(table, Min(StrColumns))

\* What OpenShn makes of the file are the rows that were written.
LEMMA OpenReads ==
  ASSUME ColumnsGood, NEW n \in Nat, NEW saved \in [1..n -> RowsWith(columns)]
  PROVE  RowsOf(Seen(Decrypt(Enciphered(FileData(saved)))), Len(saved)) = saved
<1>1. FileData(saved) \in Seq(Nat)
  BY TableTyped
<1>2. Seen(Decrypt(Enciphered(FileData(saved)))) = FileData(saved)
  BY <1>1, SeenIs
<1>3. Len(saved) = n
  BY SeqDef, LenProperties
<1> QED BY <1>2, <1>3, TableRead

\* The invariant holds after every step.
LEMMA ShnStep ==
  ASSUME ShnInv, [ShnNext]_shnVars
  PROVE  ShnInv'
<1>1. CASE UNCHANGED shnVars
  BY <1>1 DEF ShnInv, shnVars, Readable, IdColumns, StrColumns
<1>2. CASE CloseShn
  BY <1>2 DEF ShnInv, CloseShn
<1>3. ASSUME NEW n \in 0..MaxRows, NEW saved \in [1..n -> RowsWith(columns)], OpenShn(saved)
      PROVE  ShnInv'
  <2>1. n \in Nat
    BY MaxRowsIs
  <2>2. columns' = columns /\ table' = saved /\ columns \in Columns
    BY <1>3 DEF OpenShn, ShnInv
  <2>3. IdColumns' = IdColumns /\ StrColumns' = StrColumns /\ Readable' = Readable
    BY <2>2 DEF IdColumns, StrColumns, Readable
  <2>4. PICK read : read = RowsOf(Seen(Decrypt(Enciphered(FileData(saved)))), Len(saved))
    OBVIOUS
  <2>5. /\ rows' = read
        /\ IdColumns # {} => idMap' = IdMapOf(read, Min(IdColumns))
        /\ StrColumns # {} => strMap' = StrMapOf(read, Min(StrColumns))
    BY <1>3, <2>4 DEF OpenShn
  <2>6. Readable => read = saved
    BY <2>1, <2>2, <2>4, OpenReads DEF ColumnsGood
  <2> QED BY <2>2, <2>3, <2>5, <2>6 DEF ShnInv
<1> QED BY <1>1, <1>2, <1>3 DEF ShnNext

\* With it every lookup finds the row that the file means.
LEMMA ShnInvFinds ==
  ASSUME ShnInv
  PROVE  LookupsFind
<1> SUFFICES ASSUME isOpen, Readable
             PROVE  /\ IdColumns # {} => \A i \in DOMAIN table :
                         RowById(WordIn(table[i][Min(IdColumns)]))
                           = table[Max({k \in DOMAIN table :
                                          WordIn(table[k][Min(IdColumns)]) = WordIn(table[i][Min(IdColumns)])})]
                    /\ StrColumns # {} => \A i \in DOMAIN table :
                         RowByString(table[i][Min(StrColumns)])
                           = table[Min({k \in DOMAIN table :
                                          table[k][Min(StrColumns)] = table[i][Min(StrColumns)]})]
  BY DEF LookupsFind
<1>1. rows = table
  BY DEF ShnInv
<1>2. ASSUME IdColumns # {}, NEW i \in DOMAIN table
      PROVE  RowById(WordIn(table[i][Min(IdColumns)]))
               = table[Max({k \in DOMAIN table :
                              WordIn(table[k][Min(IdColumns)]) = WordIn(table[i][Min(IdColumns)])})]
  <2>1. PICK c : c = Min(IdColumns)
    OBVIOUS
  <2>2. idMap = IdMapOf(table, c)
    BY <1>2, <2>1 DEF ShnInv
  <2>3. PICK id : id = WordIn(table[i][c])
    OBVIOUS
  <2>4. id \in DOMAIN idMap /\ idMap[id] = Max({k \in DOMAIN table : WordIn(table[k][c]) = id})
    BY <1>2, <2>2, <2>3 DEF IdMapOf
  <2>5. RowById(id) = table[Max({k \in DOMAIN table : WordIn(table[k][c]) = id})]
    BY <1>1, <2>4 DEF RowById
  <2> QED BY <2>1, <2>3, <2>5
<1>3. ASSUME StrColumns # {}, NEW i \in DOMAIN table
      PROVE  RowByString(table[i][Min(StrColumns)])
               = table[Min({k \in DOMAIN table : table[k][Min(StrColumns)] = table[i][Min(StrColumns)]})]
  <2>1. PICK c : c = Min(StrColumns)
    OBVIOUS
  <2>2. strMap = StrMapOf(table, c)
    BY <1>3, <2>1 DEF ShnInv
  <2>3. PICK str : str = table[i][c]
    OBVIOUS
  <2>4. str \in DOMAIN strMap /\ strMap[str] = Min({k \in DOMAIN table : table[k][c] = str})
    BY <1>3, <2>2, <2>3 DEF StrMapOf
  <2>5. RowByString(str) = table[Min({k \in DOMAIN table : table[k][c] = str})]
    BY <1>1, <2>4 DEF RowByString
  <2> QED BY <2>1, <2>3, <2>5
<1> QED BY <1>2, <1>3

\* Every row of an open table is found under its number and its name, as the one that the
\* file means (CShn::Open, CShn.hpp:157).
THEOREM RowsAreFound == ShnInit /\ [][ShnNext]_shnVars => []LookupsFind
<1>1. ShnInit => ShnInv
  BY DEF ShnInit, ShnInv
<1>2. ShnInv /\ [ShnNext]_shnVars => ShnInv'
  BY ShnStep
<1>3. ShnInv => LookupsFind
  BY ShnInvFinds
<1> QED BY <1>1, <1>2, <1>3, PTL

(* What the configuration says                                              *)

\* The first of some characters.
LEMMA HeadIs ==
  ASSUME NEW S, NEW s \in Seq(S), s # <<>>
  PROVE  Head(s) = s[1] /\ Len(s) \in Nat /\ Len(s) >= 1 /\ s[1] \in S
<1>1. Len(s) \in Nat /\ Len(s) >= 1
  <2>1. Len(s) \in Nat /\ s \in [1..Len(s) -> S]
    BY LenProperties
  <2>2. Len(s) # 0
    BY EmptySeq
  <2> QED BY <2>1, <2>2
<1>2. PICK n \in Nat : n = Len(s) /\ 1 \in 1..n /\ n \in 1..n
  BY <1>1
<1>3. SubSeq(s, 1, n) = s
  BY <1>2, SubSeqFull
<1>4. Head(SubSeq(s, 1, n)) = s[1]
  BY <1>2, HeadTailOfSubSeq
<1>5. s[1] \in S
  BY <1>2, ElementOfSeq
<1> QED BY <1>1, <1>3, <1>4, <1>5

\* Some places are none of the first list's, and the second begins with one or is empty.
NoneBefore(places, both, a, b, other) ==
  /\ places \subseteq DOMAIN both /\ \A i \in DOMAIN a : i \notin places
  /\ IF b = <<>> THEN other = Len(a) + 1 ELSE Len(a) + 1 \in places

\* The first of them is where the second list begins.
LEMMA PlaceBetween ==
  ASSUME NEW S, NEW a \in Seq(S), NEW b \in Seq(S), NEW both, BothStand(both, S, a, b),
         NEW places, NEW other, NoneBefore(places, both, a, b, other)
  PROVE  FirstOr(places, other) = Len(a) + 1
<1>1. PICK m \in Nat, n \in Nat : m = Len(a) /\ n = Len(b) /\ DOMAIN a = 1..m
  BY LenProperties
<1>2. DOMAIN both = 1..(m + n)
  BY <1>1, LenProperties DEF BothStand
<1>3. \A i \in places : i \in Nat /\ m + 1 <= i
  BY <1>1, <1>2 DEF NoneBefore
<1>4. CASE b = <<>>
  <2>1. n = 0 /\ other = m + 1
    BY <1>1, <1>4, EmptySeq DEF NoneBefore
  <2>2. places = {}
    <3>1. \A i \in places : i \in 1..(m + n)
      BY <1>2 DEF NoneBefore
    <3> QED BY <1>3, <2>1, <3>1
  <2> QED BY <1>1, <2>1, <2>2 DEF FirstOr
<1>5. CASE b # <<>>
  <2>1. m + 1 \in places
    BY <1>1, <1>5 DEF NoneBefore
  <2>2. Min(places) = m + 1
    <3>1. PICK x \in Nat : x = m + 1
      OBVIOUS
    <3>2. places \subseteq Nat /\ x \in places /\ \A y \in places : x <= y
      BY <1>3, <2>1, <3>1
    <3>3. Min(places) = x
      BY <3>2, LeastIs
    <3> QED BY <3>1, <3>3
  <2> QED BY <1>1, <2>1, <2>2 DEF FirstOr
<1> QED BY <1>4, <1>5

\* Before and From take two lists apart again where the second begins.
LEMMA CutBetween ==
  ASSUME NEW S, NEW a \in Seq(S), NEW b \in Seq(S), NEW both, BothStand(both, S, a, b),
         NEW i, i = Len(a) + 1
  PROVE  Before(both, i) = a /\ From(both, i) = b
<1>1. PICK m \in Nat, n \in Nat : m = Len(a) /\ n = Len(b) /\ i = m + 1
  BY LenProperties
<1>2. /\ both \in Seq(S) /\ Len(both) = m + n
      /\ \A k \in 1..m : both[k] = a[k]
      /\ \A k \in 1..n : both[m + k] = b[k]
  <2>1. both \in Seq(S) /\ Len(both) = m + n /\ StandsIn(both, a, 0) /\ StandsIn(both, b, m)
    BY <1>1 DEF BothStand
  <2>2. ASSUME NEW k \in 1..m PROVE both[k] = a[k]
    <3>1. both[0 + k] = a[k]
      BY <1>1, <2>1 DEF StandsIn
    <3> QED BY <3>1
  <2>3. ASSUME NEW k \in 1..n PROVE both[m + k] = b[k]
    BY <1>1, <2>1 DEF StandsIn
  <2> QED BY <2>1, <2>2, <2>3
<1>3. PICK l \in Nat : l = m + n /\ DOMAIN both = 1..l
  BY <1>2, LenProperties
<1>4. \A k \in 1..l : both[k] \in S
  BY <1>2, <1>3, ElementOfSeq
<1>5. PICK left : left = SubSeq(both, 1, m)
  OBVIOUS
<1>6. left = a
  <2>1. \A k \in 1..m : both[k] \in S
    BY <1>3, <1>4
  <2>2. left \in Seq(S) /\ Len(left) = (IF 1 <= m THEN m - 1 + 1 ELSE 0)
          /\ \A k \in 1..(m - 1 + 1) : left[k] = both[1 + k - 1]
    BY <1>5, <2>1, SubSeqProperties
  <2>3. Len(left) = m
    BY <2>2
  <2>4. ASSUME NEW k \in 1..m PROVE left[k] = a[k]
    <3>1. k \in 1..(m - 1 + 1) /\ 1 + k - 1 = k
      OBVIOUS
    <3> QED BY <1>2, <2>2, <3>1
  <2> QED BY <1>1, <2>2, <2>3, <2>4, SeqEqual
<1>7. PICK right : right = SubSeq(both, m + 1, l)
  OBVIOUS
<1>8. right = b
  <2>1. \A k \in (m + 1)..l : both[k] \in S
    BY <1>3, <1>4
  <2>2. right \in Seq(S) /\ Len(right) = (IF m + 1 <= l THEN l - (m + 1) + 1 ELSE 0)
          /\ \A k \in 1..(l - (m + 1) + 1) : right[k] = both[m + 1 + k - 1]
    BY <1>7, <2>1, SubSeqProperties
  <2>3. Len(right) = n /\ l - (m + 1) + 1 = n
    BY <1>3, <2>2
  <2>4. ASSUME NEW k \in 1..n PROVE right[k] = b[k]
    <3>1. m + 1 + k - 1 = m + k
      OBVIOUS
    <3> QED BY <1>2, <2>2, <2>3, <3>1
  <2> QED BY <1>1, <2>2, <2>3, <2>4, SeqEqual
<1>9. i - 1 = m /\ Len(both) = l
  BY <1>1, <1>2, <1>3
<1> QED BY <1>1, <1>5, <1>6, <1>7, <1>8, <1>9 DEF Before, From

\* The spaces in front of a line, or of a value, are passed over.
LEMMA LedBy ==
  ASSUME NEW S, NEW n \in Nat, Spaces(n) \in Seq(S), NEW b \in Seq(S), NEW chars,
         BothStand(chars, S, Spaces(n), b), b = <<>> \/ b[1] # Space
  PROVE  Lead(chars) = n /\ Unled(chars) = b
<1>1. PICK a \in Seq(S) : a = Spaces(n)
  OBVIOUS
<1>2. Len(a) = n /\ DOMAIN a = 1..n /\ \A k \in 1..n : a[k] = Space
  BY <1>1 DEF Spaces
<1>3. PICK l \in Nat : l = Len(b) /\ Len(chars) = n + l /\ DOMAIN chars = 1..(n + l)
  BY <1>1, <1>2, LenProperties DEF BothStand
<1>4. PICK places : places = {i \in DOMAIN chars : chars[i] # Space}
  OBVIOUS
<1>5. \A i \in DOMAIN a : i \notin places
  <2>1. ASSUME NEW i \in 1..n PROVE chars[0 + i] = a[i]
    BY <1>1, <1>2 DEF BothStand, StandsIn
  <2>2. ASSUME NEW i \in 1..n PROVE chars[i] = Space
    BY <1>2, <2>1
  <2> QED BY <1>2, <1>4, <2>2
<1>6. IF b = <<>> THEN Len(chars) + 1 = Len(a) + 1 ELSE Len(a) + 1 \in places
  <2>1. CASE b = <<>>
    BY <1>2, <1>3, <2>1, EmptySeq
  <2>2. CASE b # <<>>
    <3>1. l >= 1
      BY <1>3, <2>2, HeadIs
    <3>2. chars[n + 1] = b[1]
      BY <1>1, <1>2, <1>3, <3>1 DEF BothStand, StandsIn
    <3> QED BY <1>2, <1>3, <1>4, <2>2, <3>1, <3>2
  <2> QED BY <2>1, <2>2
<1>7. FirstOr(places, Len(chars) + 1) = Len(a) + 1
  <2>1. PICK other : other = Len(chars) + 1
    OBVIOUS
  <2>2. BothStand(chars, S, a, b) /\ NoneBefore(places, chars, a, b, other)
    BY <1>1, <1>4, <1>5, <1>6, <2>1 DEF NoneBefore
  <2>3. FirstOr(places, other) = Len(a) + 1
    BY <2>2, PlaceBetween
  <2> QED BY <2>1, <2>3
<1>8. Lead(chars) = n
  <2>1. Lead(chars) = FirstOr(places, Len(chars) + 1) - 1
    BY <1>4 DEF Lead, PlacesOf
  <2> QED BY <1>2, <1>7, <2>1
<1>9. PICK i : i = Len(a) + 1
  OBVIOUS
<1>10. From(chars, i) = b
  BY <1>1, <1>9, CutBetween
<1> QED BY <1>2, <1>8, <1>9, <1>10 DEF Unled

\* The first place of a sign.
SignAt(chars, c, other) == FirstOr({i \in DOMAIN chars : chars[i] = c}, other)

\* A sign that is not in the first list, and with which the second begins.
Parts(both, a, b, c, other) ==
  /\ BothStand(both, Text, a, b) /\ \A i \in DOMAIN a : a[i] # c
  /\ IF b = <<>> THEN other = Len(a) + 1 ELSE b[1] = c

\* Such a sign parts them.
LEMMA SignBetween ==
  ASSUME NEW a \in Seq(Text), NEW b \in Seq(Text), NEW both, NEW c, NEW other,
         Parts(both, a, b, c, other)
  PROVE  SignAt(both, c, other) = Len(a) + 1 /\ Before(both, SignAt(both, c, other)) = a
<1>1. PICK m \in Nat, n \in Nat : m = Len(a) /\ n = Len(b) /\ DOMAIN a = 1..m
  BY LenProperties
<1>2. BothStand(both, Text, a, b)
  BY DEF Parts
<1>3. PICK places : places = {i \in DOMAIN both : both[i] = c}
  OBVIOUS
<1>4. DOMAIN both = 1..(m + n)
  BY <1>1, <1>2, LenProperties DEF BothStand
<1>5. ASSUME NEW i \in DOMAIN a PROVE i \notin places
  <2>1. both[0 + i] = a[i]
    BY <1>1, <1>2 DEF BothStand, StandsIn
  <2>2. both[i] = a[i] /\ a[i] # c
    BY <1>1, <2>1 DEF Parts
  <2> QED BY <1>3, <2>2
<1>6. IF b = <<>> THEN other = Len(a) + 1 ELSE Len(a) + 1 \in places
  <2>1. CASE b = <<>>
    BY <2>1 DEF Parts
  <2>2. CASE b # <<>>
    <3>1. n >= 1 /\ b[1] = c
      BY <1>1, <2>2, HeadIs DEF Parts
    <3>2. both[m + 1] = b[1]
      BY <1>1, <1>2, <3>1 DEF BothStand, StandsIn
    <3> QED BY <1>1, <1>3, <1>4, <2>2, <3>1, <3>2
  <2> QED BY <2>1, <2>2
<1>7. NoneBefore(places, both, a, b, other)
  BY <1>3, <1>5, <1>6 DEF NoneBefore
<1>8. FirstOr(places, other) = Len(a) + 1
  BY <1>2, <1>7, PlaceBetween
<1>9. PICK i : i = Len(a) + 1
  OBVIOUS
<1>10. Before(both, i) = a
  BY <1>2, <1>9, CutBetween
<1> QED BY <1>3, <1>8, <1>9, <1>10 DEF SignAt

\* Spaces are characters.
LEMMA SpacesAre ==
  ASSUME NEW n \in Nat
  PROVE  Spaces(n) \in Seq(Text) /\ Len(Spaces(n)) = n
          /\ \A k \in DOMAIN Spaces(n) : Spaces(n)[k] = Space
<1>1. Spaces(n) \in [1..n -> Text]
  BY DEF Spaces, Text, Space, LF, CR
<1>2. Spaces(n) \in Seq(Text)
  BY <1>1, SeqDef
<1> QED BY <1>2, LenProperties DEF Spaces

\* One sign.
LEMMA SignIs ==
  ASSUME NEW c \in Text
  PROVE  <<c>> \in Seq(Text) /\ Len(<<c>>) = 1 /\ <<c>>[1] = c /\ <<c>> # <<>> /\ Head(<<c>>) = c
<1>1. <<c>> \in Seq(Text) /\ Len(<<c>>) = 1 /\ <<c>>[1] = c /\ <<c>> # <<>>
  OBVIOUS
<1> QED BY <1>1, HeadIs

\* What begins with a sign begins with that sign.
LEMMA SignInFront ==
  ASSUME NEW c \in Text, NEW s \in Seq(Text), NEW both, both = <<c>> \o s
  PROVE  both \in Seq(Text) /\ both # <<>> /\ both[1] = c /\ Head(both) = c /\ Tail(both) = s
<1>1. PICK sign \in Seq(Text) : sign = <<c>> /\ Len(sign) = 1 /\ sign[1] = c
  BY SignIs
<1>2. BothStand(sign \o s, Text, sign, s)
  BY JoinStands
<1>3. BothStand(both, Text, sign, s)
  BY <1>1, <1>2
<1>4. both \in Seq(Text) /\ Len(both) = 1 + Len(s) /\ Len(s) \in Nat
  BY <1>1, <1>3, LenProperties DEF BothStand
<1>5. both[0 + 1] = sign[1]
  <2>1. 1 \in 1..Len(sign)
    BY <1>1
  <2> QED BY <1>3, <2>1 DEF BothStand, StandsIn
<1>6. both # <<>> /\ both[1] = c
  BY <1>1, <1>4, <1>5
<1>7. Head(both) = c
  BY <1>4, <1>6, HeadIs
<1>8. Tail(both) = s
  <2>1. Tail(both) = SubSeq(both, 2, Len(both))
    BY <1>4, <1>6, TailIsSubSeq
  <2>2. From(both, 2) = s
    <3>1. PICK two : two = 2 /\ two = Len(sign) + 1
      BY <1>1
    <3>2. From(both, two) = s
      BY <1>3, <3>1, CutBetween
    <3> QED BY <3>1, <3>2
  <2> QED BY <2>1, <2>2 DEF From
<1> QED BY <1>4, <1>6, <1>7, <1>8

\* What a line says, behind the spaces.
Quotes(l) == IF l.quoted THEN <<Quote>> ELSE <<>>
LineRest(l) ==
  CASE l.kind = "section" -> <<Open>> \o l.name \o <<Shut>>
    [] l.kind = "comment" -> <<Hash>> \o l.name
    [] l.kind = "blank" -> <<>>
    [] l.kind = "entry" -> l.name \o Spaces(l.gap) \o <<Equals>> \o Spaces(l.gap)
                     \o Quotes(l) \o l.value \o Quotes(l) \o Spaces(l.trail)

\* A line is made of it.
LEMMA LineOfParts ==
  ASSUME NEW l \in Lines
  PROVE  /\ Chars(l) = Spaces(l.lead) \o LineRest(l) /\ LineIs(l)
         /\ l.name \in Seq(Text) /\ l.value \in Seq(Text)
         /\ {l.lead, l.gap, l.trail} \subseteq Nat
<1>1. LineIs(l)
  BY LinesAre
<1>2. Chars(l) = Spaces(l.lead) \o LineRest(l)
  BY DEF Chars, LineRest, Quotes
<1> QED BY <1>1, <1>2 DEF LineIs

\* The name of a section stands between its brackets.
LEMMA SectionIs ==
  ASSUME NEW l \in Lines, l.kind = "section"
  PROVE  /\ LineRest(l) \in Seq(Text) /\ LineRest(l) # <<>> /\ Head(LineRest(l)) = Open
          /\ LineRest(l)[1] = Open
         /\ SectionOf(LineRest(l)) = l.name
<1>1. PICK name \in Seq(Text) : name = l.name /\ \A i \in DOMAIN name : name[i] # Shut
  BY LineOfParts DEF LineIs
<1>2. Open \in Text /\ Shut \in Text
  BY DEF Open, Shut, Text, LF, CR
<1>3. PICK open \in Seq(Text), shut \in Seq(Text) : open = <<Open>> /\ shut = <<Shut>>
        /\ shut # <<>> /\ shut[1] = Shut
  BY <1>2, SignIs
<1>4. PICK tail \in Seq(Text) : tail = name \o shut
  BY ConcatProperties
<1>5. LineRest(l) = open \o tail
  <2>1. LineRest(l) = (open \o name) \o shut
    BY <1>1, <1>3 DEF LineRest
  <2> QED BY <1>4, <2>1, ConcatAssociative
<1>6. PICK rest : rest = LineRest(l) /\ rest = <<Open>> \o tail
  BY <1>3, <1>5
<1>7. rest \in Seq(Text) /\ rest # <<>> /\ rest[1] = Open /\ Head(rest) = Open /\ Tail(rest) = tail
  BY <1>2, <1>6, SignInFront
<1>8. BothStand(tail, Text, name, shut)
  BY <1>4, JoinStands
<1>9. PICK other : other = Len(rest)
  OBVIOUS
<1>10. Parts(tail, name, shut, Shut, other)
  BY <1>1, <1>3, <1>8 DEF Parts
<1>11. Before(tail, SignAt(tail, Shut, other)) = name
  BY <1>10, SignBetween
<1>12. SectionOf(rest) = name
  BY <1>7, <1>9, <1>11 DEF SectionOf, PlacesOf, SignAt
<1> QED BY <1>1, <1>6, <1>7, <1>12

\* Two lists one behind the other.
IsJoined(both, a, b) == both = a \o b

\* Of three lists it does not matter which two are joined first.
LEMMA JoinedOtherwise ==
  ASSUME NEW S, NEW a \in Seq(S), NEW b \in Seq(S), NEW c \in Seq(S), NEW ab, NEW bc, NEW all,
         IsJoined(ab, a, b), IsJoined(bc, b, c), IsJoined(all, ab, c)
  PROVE  IsJoined(all, a, bc)
<1>1. (a \o b) \o c = a \o (b \o c)
  BY ConcatAssociative
<1> QED BY <1>1 DEF IsJoined

\* The value in its quotes, and with the spaces and the sign before it.
Quoted(l) == Quotes(l) \o (l.value \o Quotes(l))
Given(l) == Spaces(l.gap) \o Quoted(l)
Keyed(l) == l.name \o Spaces(l.gap)

\* Of what the text of an entry is made.
LEMMA EntryParts ==
  ASSUME NEW l \in Lines, l.kind = "entry", l.trail = 0
  PROVE  /\ Quotes(l) \in Seq(Text) /\ Quoted(l) \in Seq(Text) /\ Given(l) \in Seq(Text)
         /\ l.value \o Quotes(l) \in Seq(Text) /\ Keyed(l) \in Seq(Text) /\ LineRest(l) \in Seq(Text)
         /\ <<Equals>> \o Given(l) \in Seq(Text)
         /\ LineRest(l) = Keyed(l) \o (<<Equals>> \o Given(l))
         /\ Keyed(l) \o <<Equals>> \in Seq(Text)
         /\ LineRest(l) = (Keyed(l) \o <<Equals>>) \o Given(l)
<1>1. Equals \in Text /\ Quote \in Text
  BY DEF Equals, Quote, Text, LF, CR
<1>2. PICK name \in Seq(Text), value \in Seq(Text), gap \in Nat : name = l.name /\ value = l.value
        /\ gap = l.gap
  BY LineOfParts
<1>3. PICK space \in Seq(Text), sign \in Seq(Text) : space = Spaces(gap) /\ sign = <<Equals>>
  BY <1>1, SpacesAre, SignIs
<1>4. PICK quotes \in Seq(Text) : quotes = Quotes(l)
  <2>1. Quotes(l) \in Seq(Text)
    BY <1>1, SignIs DEF Quotes
  <2> QED BY <2>1
<1>5. PICK a \in Seq(Text) : a = name \o space
  BY ConcatProperties
<1>6. PICK b \in Seq(Text) : b = a \o sign
  BY ConcatProperties
<1>7. PICK c \in Seq(Text) : c = b \o space
  BY ConcatProperties
<1>8. PICK d \in Seq(Text) : d = c \o quotes
  BY ConcatProperties
<1>9. PICK x \in Seq(Text) : x = value \o quotes
  BY ConcatProperties
<1>10. PICK y \in Seq(Text) : y = quotes \o x
  BY ConcatProperties
<1>11. PICK z \in Seq(Text) : z = space \o y
  BY ConcatProperties
<1>12. PICK e \in Seq(Text) : e = sign \o z
  BY ConcatProperties
<1>13. PICK rest, f : rest = LineRest(l) /\ IsJoined(rest, f, quotes) /\ IsJoined(f, d, value)
  <2>1. PICK whole : whole = (d \o value) \o quotes
    OBVIOUS
  <2>2. d \o value \in Seq(Text)
    BY ConcatProperties
  <2>3. whole \in Seq(Text)
    BY <2>1, <2>2, ConcatProperties
  <2>4. LineRest(l) = whole \o Spaces(l.trail)
    BY <1>2, <1>3, <1>4, <1>5, <1>6, <1>7, <1>8, <2>1 DEF LineRest
  <2>5. Spaces(l.trail) = <<>>
    BY DEF Spaces
  <2>6. whole \o <<>> = whole
    BY <2>3, ConcatEmptySeq
  <2>7. LineRest(l) = whole
    BY <2>4, <2>5, <2>6
  <2> QED BY <2>1, <2>7 DEF IsJoined
<1>14. IsJoined(rest, d, x)
  <2>1. IsJoined(x, value, quotes)
    BY <1>9 DEF IsJoined
  <2> QED BY <1>13, <2>1, JoinedOtherwise
<1>15. IsJoined(rest, c, y)
  <2>1. IsJoined(d, c, quotes) /\ IsJoined(y, quotes, x)
    BY <1>8, <1>10 DEF IsJoined
  <2> QED BY <1>14, <2>1, JoinedOtherwise
<1>16. IsJoined(rest, b, z)
  <2>1. IsJoined(c, b, space) /\ IsJoined(z, space, y)
    BY <1>7, <1>11 DEF IsJoined
  <2> QED BY <1>15, <2>1, JoinedOtherwise
<1>17. IsJoined(rest, a, e)
  <2>1. IsJoined(b, a, sign) /\ IsJoined(e, sign, z)
    BY <1>6, <1>12 DEF IsJoined
  <2> QED BY <1>16, <2>1, JoinedOtherwise
<1>18. Quoted(l) = y /\ Given(l) = z /\ Keyed(l) = a
  BY <1>2, <1>3, <1>4, <1>5, <1>9, <1>10, <1>11 DEF Quoted, Given, Keyed
<1>19. a \o e \in Seq(Text)
  BY ConcatProperties
<1> QED BY <1>2, <1>3, <1>4, <1>6, <1>9, <1>12, <1>13, <1>16, <1>17, <1>18, <1>19 DEF IsJoined

\* The key stands before the sign and before the spaces in front of it.
LEMMA KeyIs ==
  ASSUME NEW l \in Lines, l.kind = "entry", l.trail = 0
  PROVE  /\ LineRest(l) \in Seq(Text) /\ LineRest(l) # <<>> /\ Head(LineRest(l)) \notin {Open, Hash}
          /\ LineRest(l)[1] # Space
         /\ KeyOf(LineRest(l)) = l.name /\ Behind(LineRest(l)) = Given(l)
<1>1. Equals \in Text
  BY DEF Equals, Text, LF, CR
<1>2. PICK name \in Seq(Text), gap \in Nat :
        /\ name = l.name /\ gap = l.gap /\ name # <<>> /\ name[1] \notin {Hash, Open}
        /\ \A i \in DOMAIN name : name[i] \notin {Space, Equals}
  BY LineOfParts DEF LineIs
<1>3. PICK space \in Seq(Text) : space = Spaces(gap) /\ Len(space) = gap
        /\ \A i \in DOMAIN space : space[i] = Space
  BY SpacesAre
<1>4. PICK key \in Seq(Text), given \in Seq(Text), rest \in Seq(Text),
        signed \in Seq(Text), front \in Seq(Text) :
        /\ key = Keyed(l) /\ given = Given(l) /\ rest = LineRest(l)
        /\ signed = <<Equals>> \o given /\ rest = key \o signed
        /\ front = key \o <<Equals>> /\ rest = front \o given
  BY EntryParts
<1>5. BothStand(key, Text, name, space)
  <2>1. key = name \o space
    BY <1>2, <1>3, <1>4 DEF Keyed
  <2> QED BY <2>1, JoinStands
<1>6. BothStand(rest, Text, key, signed)
  BY <1>4, JoinStands
<1>7. PICK m \in Nat, k \in Nat : m = Len(name) /\ m >= 1 /\ k = Len(key) /\ k = m + gap
        /\ DOMAIN name = 1..m /\ DOMAIN key = 1..k
  BY <1>2, <1>3, <1>5, HeadIs, LenProperties DEF BothStand
<1>8. ASSUME NEW i \in 1..k PROVE key[i] # Equals /\ (i <= m => key[i] = name[i])
  <2>1. CASE i <= m
    <3>1. key[0 + i] = name[i] /\ i \in DOMAIN name
      BY <1>5, <1>7, <2>1 DEF BothStand, StandsIn
    <3>2. key[i] = name[i] /\ name[i] # Equals
      BY <1>2, <3>1
    <3> QED BY <3>2
  <2>2. CASE ~(i <= m)
    <3>1. PICK j \in 1..gap : i = m + j
      <4>1. i - m \in 1..gap /\ i = m + (i - m)
        BY <1>7, <2>2
      <4> QED BY <4>1
    <3>2. key[m + j] = space[j] /\ space[j] = Space
      BY <1>3, <1>5, <1>7, <3>1 DEF BothStand, StandsIn
    <3> QED BY <2>2, <3>1, <3>2 DEF Space, Equals
  <2> QED BY <2>1, <2>2
<1>9. signed # <<>> /\ signed[1] = Equals
  BY <1>1, <1>4, SignInFront
<1>10. PICK last : last = Len(rest) + 1
  OBVIOUS
<1>11. Parts(rest, key, signed, Equals, last)
  BY <1>6, <1>7, <1>8, <1>9 DEF Parts
<1>12. Before(rest, SignAt(rest, Equals, last)) = key
  BY <1>11, SignBetween
<1>13. PICK end : end = Len(key) + 1
  OBVIOUS
<1>14. Parts(key, name, space, Space, end)
  <2>1. CASE space = <<>>
    <3>1. gap = 0
      BY <1>3, <2>1, EmptySeq
    <3> QED BY <1>2, <1>5, <1>7, <1>13, <2>1, <3>1 DEF Parts
  <2>2. CASE space # <<>>
    <3>1. space[1] = Space
      <4>1. 1 \in DOMAIN space
        BY <2>2, HeadIs, LenProperties
      <4> QED BY <1>3, <4>1
    <3> QED BY <1>2, <1>5, <2>2, <3>1 DEF Parts
  <2> QED BY <2>1, <2>2
<1>15. Before(key, SignAt(key, Space, end)) = name
  BY <1>14, SignBetween
<1>16. KeyOf(rest) = name
  BY <1>10, <1>12, <1>13, <1>15 DEF KeyOf, PlacesOf, SignAt
<1>17. Behind(rest) = given
  <2>1. PICK whole : whole = Len(rest)
    OBVIOUS
  <2>2. Parts(rest, key, signed, Equals, whole)
    BY <1>6, <1>7, <1>8, <1>9 DEF Parts
  <2>3. SignAt(rest, Equals, whole) = k + 1
    <3>1. SignAt(rest, Equals, whole) = Len(key) + 1
      BY <2>2, SignBetween
    <3> QED BY <1>7, <3>1
  <2>4. PICK sign \in Seq(Text) : sign = <<Equals>> /\ Len(sign) = 1
    BY <1>1, SignIs
  <2>5. Len(front) = k + 1
    <3>1. Len(key \o sign) = Len(key) + Len(sign)
      BY ONLY key \in Seq(Text), sign \in Seq(Text), ConcatProperties
    <3> QED BY <1>4, <1>7, <2>4, <3>1
  <2>6. BothStand(rest, Text, front, given)
    BY <1>4, JoinStands
  <2>7. PICK next : next = k + 1 + 1 /\ next = Len(front) + 1
    BY <2>5
  <2>8. From(rest, next) = given
    BY <2>6, <2>7, CutBetween
  <2> QED BY <2>1, <2>3, <2>7, <2>8 DEF Behind, PlacesOf, SignAt
<1>18. rest # <<>> /\ rest[1] = name[1]
  <2>1. rest[0 + 1] = key[1]
    <3>1. 1 \in 1..Len(key)
      BY <1>7
    <3> QED BY <1>6, <3>1 DEF BothStand, StandsIn
  <2>2. key[1] = name[1]
    BY <1>7, <1>8
  <2>3. Len(rest) # 0
    BY <1>6, <1>7, LenProperties DEF BothStand
  <2>4. rest # <<>>
    BY <2>3
  <2> QED BY <2>1, <2>2, <2>4
<1>19. Head(rest) = rest[1]
  BY <1>18, HeadIs
<1>20. name[1] \notin {Hash, Open, Space}
  BY <1>2, <1>7
<1> QED BY <1>2, <1>4, <1>16, <1>17, <1>18, <1>19, <1>20

\* The value is what was given, without the spaces and the quotes.
LEMMA ValueIs ==
  ASSUME NEW l \in Lines, l.kind = "entry", ValuePlain(l)
  PROVE  ValueOf(LineRest(l)) = l.value
<1>1. l.trail = 0
  BY DEF ValuePlain
<1>2. Quote \in Text
  BY DEF Quote, Text, LF, CR
<1>3. PICK value \in Seq(Text), gap \in Nat : value = l.value /\ gap = l.gap
  BY LineOfParts
<1>4. PICK given \in Seq(Text), quoted \in Seq(Text) : given = Given(l) /\ quoted = Quoted(l)
        /\ Behind(LineRest(l)) = given
  BY <1>1, EntryParts, KeyIs
<1>5. Spaces(gap) \in Seq(Text) /\ given = Spaces(gap) \o quoted
  BY <1>3, <1>4, SpacesAre DEF Given
<1>6. BothStand(given, Text, Spaces(gap), quoted)
  BY <1>5, JoinStands
<1>7. CASE l.quoted
  <2>1. PICK mark \in Seq(Text) : mark = <<Quote>> /\ Len(mark) = 1 /\ mark[1] = Quote
          /\ Quotes(l) = mark
    BY <1>2, <1>7, SignIs DEF Quotes
  <2>2. PICK tail \in Seq(Text) : tail = value \o mark /\ quoted = <<Quote>> \o tail
    BY <1>3, <1>4, <2>1, ConcatProperties DEF Quoted
  <2>3. quoted # <<>> /\ quoted[1] = Quote /\ Head(quoted) = Quote /\ Tail(quoted) = tail
    BY <1>2, <2>2, SignInFront
  <2>4. Unled(given) = quoted
    BY <1>5, <1>6, <2>3, LedBy DEF Quote, Space
  <2>5. BothStand(tail, Text, value, mark)
    BY <2>2, JoinStands
  <2>6. PICK n \in Nat : n = Len(value) /\ Len(tail) = n + 1
    BY <2>1, <2>5, LenProperties DEF BothStand
  <2>7. tail[n + 1] = Quote
    <3>1. 1 \in 1..Len(mark)
      BY <2>1
    <3> QED BY <2>1, <2>5, <2>6, <3>1 DEF BothStand, StandsIn
  <2>8. tail # <<>> /\ Last(tail) = Quote
    BY <2>6, <2>7 DEF Last
  <2>9. Front(tail) = value
    <3>1. PICK i : i = Len(value) + 1
      OBVIOUS
    <3>2. Before(tail, i) = value
      BY <2>5, <3>1, CutBetween
    <3> QED BY <2>6, <3>1, <3>2 DEF Before, Front
  <2> QED BY <1>3, <1>4, <2>3, <2>4, <2>8, <2>9 DEF ValueOf
<1>8. CASE ~l.quoted
  <2>1. quoted = value
    <3>1. Quotes(l) = <<>>
      BY <1>8 DEF Quotes
    <3>2. value \o <<>> = value /\ <<>> \o value = value
      BY ConcatEmptySeq
    <3> QED BY <1>3, <1>4, <3>1, <3>2 DEF Quoted
  <2>2. CASE value = <<>>
    <3>1. gap = 0
      BY <1>3, <1>8, <2>2 DEF ValuePlain
    <3>2. Unled(given) = quoted
      <4>1. quoted = <<>> \/ quoted[1] # Space
        BY <2>1, <2>2
      <4> QED BY <1>5, <1>6, <4>1, LedBy
    <3>3. Spaces(gap) = <<>>
      BY <3>1 DEF Spaces
    <3>4. given = <<>>
      BY <1>5, <2>1, <2>2, <3>3, ConcatEmptySeq
    <3> QED BY <1>3, <1>4, <2>1, <2>2, <3>2, <3>4 DEF ValueOf
  <2>3. CASE value # <<>>
    <3>1. value[1] \notin {Space, Quote} /\ Last(value) # Quote
      BY <1>3, <1>8, <2>3, LineOfParts DEF LineIs
    <3>2. Unled(given) = value
      BY <1>5, <1>6, <2>1, <3>1, LedBy
    <3>3. Head(value) # Quote
      BY <2>3, <3>1, HeadIs
    <3> QED BY <1>3, <1>4, <2>3, <3>1, <3>2, <3>3 DEF ValueOf
  <2> QED BY <2>2, <2>3
<1>9. l.quoted \in BOOLEAN
  BY LineOfParts DEF LineIs
<1> QED BY <1>7, <1>8, <1>9

\* A line that is nothing is passed over.
LEMMA NothingTaken == Skipped(<<>>)
<1>1. PICK none \in Seq(Text) : none = <<>>
  BY EmptySeq
<1>2. PICK zero \in Nat : zero = 0
  OBVIOUS
<1>3. Spaces(zero) \in Seq(Text) /\ Spaces(zero) = <<>>
  BY <1>2, SpacesAre DEF Spaces
<1>4. BothStand(none \o none, Text, none, none)
  BY JoinStands
<1>5. BothStand(none, Text, Spaces(zero), none)
  BY <1>1, <1>3, <1>4, ConcatEmptySeq
<1>6. Unled(none) = none
  BY <1>1, <1>3, <1>5, LedBy
<1> QED BY <1>1, <1>6 DEF Skipped

\* A line that says something, behind its spaces, is not passed over.
LEMMA SomethingTaken ==
  ASSUME NEW l \in Lines, LineRest(l) \in Seq(Text), LineRest(l) = <<>> \/ LineRest(l)[1] # Space
  PROVE  /\ Chars(l) \in Seq(Text) /\ Unled(Chars(l)) = LineRest(l)
         /\ LineRest(l) # <<>> /\ Head(LineRest(l)) # Hash /\ LinePlain(l) => ~Skipped(Chars(l))
         /\ LineRest(l) = <<>> \/ Head(LineRest(l)) = Hash => Skipped(Chars(l))
<1>1. PICK rest \in Seq(Text), lead \in Nat : rest = LineRest(l) /\ lead = l.lead
  BY LineOfParts
<1>2. Spaces(lead) \in Seq(Text) /\ Len(Spaces(lead)) = lead
  BY SpacesAre
<1>3. PICK chars : chars = Chars(l) /\ chars = Spaces(lead) \o rest
  BY <1>1, LineOfParts
<1>4. BothStand(chars, Text, Spaces(lead), rest)
  BY <1>2, <1>3, JoinStands
<1>5. rest = <<>> \/ rest[1] # Space
  BY <1>1
<1>6. Lead(chars) = lead /\ Unled(chars) = rest
  BY <1>2, <1>4, <1>5, LedBy
<1>7. chars \in Seq(Text) /\ Len(chars) = lead + Len(rest) /\ Len(rest) \in Nat
  BY <1>2, <1>4, LenProperties DEF BothStand
<1>8. rest = <<>> \/ Head(rest) = Hash => Skipped(chars)
  BY <1>6 DEF Skipped
<1>9. ASSUME rest # <<>>, Head(rest) # Hash, LinePlain(l) PROVE ~Skipped(chars)
  <2>1. Len(rest) >= 1
    BY <1>9, HeadIs
  <2>2. lead # Len(rest)
    <3>1. lead = 0 \/ 2 * lead # Len(chars)
      BY <1>1, <1>3, <1>9 DEF LinePlain
    <3> QED BY <1>7, <2>1, <3>1
  <2> QED BY <1>6, <1>9, <2>2 DEF Skipped
<1> QED BY <1>1, <1>3, <1>6, <1>7, <1>8, <1>9

\* What ReadINI takes from a line.
Taken(l) ==
  /\ Chars(l) \in Seq(Text) /\ Len(Chars(l)) \in Nat /\ Len(Chars(l)) < MaxLine
  /\ l.kind \in {"section", "comment", "blank", "entry"}
  /\ l.kind \in {"comment", "blank"} => Skipped(Chars(l))
  /\ l.kind = "section" =>
       /\ ~Skipped(Chars(l)) /\ Head(Unled(Chars(l))) = Open
       /\ SectionOf(Unled(Chars(l))) = l.name
  /\ l.kind = "entry" =>
       /\ ~Skipped(Chars(l)) /\ Head(Unled(Chars(l))) # Open
       /\ KeyOf(Unled(Chars(l))) = l.name /\ ValueOf(Unled(Chars(l))) = l.value

\* It is what the line says.
LEMMA LineTaken ==
  ASSUME NEW l \in Lines, LinePlain(l)
  PROVE  Taken(l)
<1>1. l.kind \in {"section", "comment", "blank", "entry"} /\ Len(Chars(l)) < MaxLine
  BY LineOfParts DEF LineIs
<1>2. CASE l.kind = "section"
  <2>1. LineRest(l) \in Seq(Text) /\ LineRest(l) # <<>> /\ Head(LineRest(l)) = Open
          /\ LineRest(l)[1] = Open /\ SectionOf(LineRest(l)) = l.name
    BY <1>2, SectionIs
  <2>2. Open # Space /\ Open # Hash
    BY DEF Open, Space, Hash
  <2>3. Chars(l) \in Seq(Text) /\ Unled(Chars(l)) = LineRest(l) /\ ~Skipped(Chars(l))
    BY <2>1, <2>2, SomethingTaken
  <2> QED BY <1>1, <1>2, <2>1, <2>3, LenProperties DEF Taken
<1>3. CASE l.kind = "entry"
  <2>1. l.trail = 0 /\ ValuePlain(l)
    BY DEF LinePlain, ValuePlain
  <2>2. /\ LineRest(l) \in Seq(Text) /\ LineRest(l) # <<>> /\ Head(LineRest(l)) \notin {Open, Hash}
          /\ LineRest(l)[1] # Space
        /\ KeyOf(LineRest(l)) = l.name
    BY <1>3, <2>1, KeyIs
  <2>3. ValueOf(LineRest(l)) = l.value
    BY <1>3, <2>1, ValueIs
  <2>4. Chars(l) \in Seq(Text) /\ Unled(Chars(l)) = LineRest(l) /\ ~Skipped(Chars(l))
    BY <2>2, SomethingTaken
  <2> QED BY <1>1, <1>3, <2>2, <2>3, <2>4, LenProperties DEF Taken
<1>4. CASE l.kind = "comment"
  <2>1. Hash \in Text /\ Hash # Space
    BY DEF Hash, Space, Text, LF, CR
  <2>2. PICK rest : rest = <<Hash>> \o l.name /\ l.name \in Seq(Text)
    BY LineOfParts
  <2>3. LineRest(l) = rest
    BY <1>4, <2>2 DEF LineRest
  <2>4. rest \in Seq(Text) /\ rest[1] = Hash /\ Head(rest) = Hash
    BY <2>1, <2>2, SignInFront
  <2>5. Chars(l) \in Seq(Text) /\ Skipped(Chars(l))
    BY <2>1, <2>3, <2>4, SomethingTaken
  <2> QED BY <1>1, <1>4, <2>5, LenProperties DEF Taken
<1>5. CASE l.kind = "blank"
  <2>1. LineRest(l) = <<>>
    BY <1>5 DEF LineRest
  <2>2. LineRest(l) \in Seq(Text)
    BY <2>1
  <2>3. Chars(l) \in Seq(Text) /\ Skipped(Chars(l))
    BY <2>1, <2>2, SomethingTaken
  <2> QED BY <1>1, <1>5, <2>3, LenProperties DEF Taken
<1> QED BY <1>1, <1>2, <1>3, <1>4, <1>5

\* Where ReadLn stops that begins at pos and finds these characters: at the end of the file,
\* at the newline behind them, or before it, when its buffer is full.
Stops(bytes, chars, pos, size) ==
  /\ StandsIn(bytes, chars, pos) /\ Len(chars) < MaxLine
  /\ \/ pos + Len(chars) = size
     \/ pos + Len(chars) < size /\ bytes[pos + Len(chars) + 1] = LF
StopAt(chars, pos, size) ==
  IF pos + Len(chars) = size \/ Len(chars) = MaxLine - 1 THEN pos + Len(chars) ELSE pos + Len(chars) + 1

\* Whole numbers are whole.
LEMMA ByOne ==
  ASSUME NEW x \in Nat
  PROVE  x % 1 = 0 /\ x \div 1 = x
OBVIOUS

\* Characters are numbers.
LEMMA TextIs == Text \subseteq Nat
  BY DEF Text

\* That is where the line ends.
LEMMA LineEnds ==
  ASSUME NEW pos \in Nat, pos = fh.pos, NEW bytes \in Seq(Nat), bytes = Bytes, ftype = "ascii",
         NEW size, size = Len(bytes), NEW chars \in Seq(Text), Stops(bytes, chars, pos, size)
  PROVE  LineEnd = StopAt(chars, pos, size)
<1>1. PICK m \in Nat, n \in Nat, room \in Nat :
        m = Len(chars) /\ n = size /\ room = MaxLine - 1 /\ m <= room /\ pos + m <= n
  <2>1. Len(chars) \in Nat /\ Len(bytes) \in Nat
    BY LenProperties
  <2>2. MaxLine - 1 \in Nat
    BY RoomForChars
  <2> QED BY <2>1, <2>2, RoomForChars DEF Stops, StandsIn
<1>2. Width = 1
  BY DEF Width
<1>3. PICK news : news = Newlines
  OBVIOUS
<1>4. news = {i \in pos + 1..n : bytes[i] = LF}
  <2>1. \A i \in pos + 1..n : (i - pos) % 1 = 0 /\ 1 % 1 = 0
    BY ByOne
  <2>2. Size = n
    BY <1>1 DEF Size
  <2> QED BY <1>2, <1>3, <2>1, <2>2 DEF Newlines
<1>5. PICK limit \in Nat : limit = MinOf(fh.pos + Width * (MaxLine - 1), Size)
        /\ limit = IF pos + room < n THEN pos + room ELSE n
  BY <1>1, <1>2 DEF MinOf, Size
<1>6. PICK stops : stops = {i + Width - 1 : i \in Newlines} \cup {limit}
  OBVIOUS
<1>7. stops = news \cup {limit}
  <2>1. \A i \in news : i + Width - 1 = i
    BY <1>2, <1>4
  <2> QED BY <1>3, <1>6, <2>1
<1>8. LineEnd = Min(stops)
  BY <1>5, <1>6 DEF LineEnd
<1>9. ASSUME NEW i \in news PROVE i \in Nat /\ pos + m < i /\ i <= n
  <2>1. i \in pos + 1..n /\ bytes[i] = LF
    BY <1>4
  <2>2. ASSUME i <= pos + m PROVE FALSE
    <3>1. PICK j \in 1..m : i = pos + j
      <4>1. i - pos \in 1..m /\ i = pos + (i - pos)
        BY <2>1, <2>2
      <4> QED BY <4>1
    <3>2. bytes[pos + j] = chars[j]
      BY <1>1, <3>1 DEF Stops, StandsIn
    <3>3. chars[j] \in Text
      BY <1>1, <3>1, ElementOfSeq
    <3> QED BY <2>1, <3>1, <3>2, <3>3 DEF Text
  <2> QED BY <2>1, <2>2
<1>10. stops \subseteq Nat
  BY <1>7, <1>9
<1>11. CASE pos + m = n
  <2>1. limit = n /\ n \in stops /\ \A y \in stops : n <= y
    BY <1>1, <1>5, <1>7, <1>9, <1>11
  <2>2. Min(stops) = n
    BY <1>10, <2>1, LeastIs
  <2> QED BY <1>1, <1>8, <1>11, <2>2 DEF StopAt
<1>12. CASE pos + m < n /\ m = room
  <2>1. PICK x \in Nat : x = pos + m
    OBVIOUS
  <2>2. x \in stops /\ \A y \in stops : x <= y
    BY <1>5, <1>7, <1>9, <1>12, <2>1
  <2>3. Min(stops) = x
    BY <1>10, <2>2, LeastIs
  <2> QED BY <1>1, <1>8, <1>12, <2>1, <2>3 DEF StopAt
<1>13. CASE pos + m < n /\ m # room
  <2>1. PICK x \in Nat : x = pos + m + 1 /\ x = (pos + m) + 1
    OBVIOUS
  <2>2. bytes[pos + m + 1] = LF
    BY <1>1, <1>13 DEF Stops
  <2>3. x \in news
    BY <1>4, <1>13, <2>1, <2>2
  <2>4. x <= limit
    BY <1>1, <1>5, <1>13, <2>1
  <2>5. x \in stops /\ \A y \in stops : x <= y
    BY <1>7, <1>9, <2>1, <2>3, <2>4
  <2>6. Min(stops) = x
    BY <1>10, <2>5, LeastIs
  <2> QED BY <1>1, <1>8, <1>13, <2>1, <2>6 DEF StopAt
<1> QED BY <1>1, <1>11, <1>12, <1>13

\* What is read, up to there: the characters, and the newline if it fits.
LEMMA LineRead ==
  ASSUME NEW pos \in Nat, pos = fh.pos, NEW bytes \in Seq(Nat), bytes = Bytes, ftype = "ascii",
         NEW size, size = Len(bytes), NEW chars \in Seq(Text), Stops(bytes, chars, pos, size)
  PROVE  /\ TheLine = chars /\ LineEnd = StopAt(chars, pos, size)
         /\ Dropped => LineEnd = pos + Len(chars) + 1 /\ LineEnd >= size - 2
<1>1. PICK m \in Nat, n \in Nat, end \in Nat :
        /\ m = Len(chars) /\ n = size /\ m <= MaxLine - 1 /\ pos + m <= n
        /\ end = StopAt(chars, pos, size) /\ end \in {pos + m, pos + m + 1} /\ end <= n
        /\ end # pos + m => pos + m < n /\ bytes[pos + m + 1] = LF
  <2>1. PICK m \in Nat, n \in Nat : m = Len(chars) /\ n = Len(bytes)
    BY LenProperties
  <2>2. PICK most \in Nat : most = MaxLine - 1 /\ m <= most /\ pos + m <= n
    BY <2>1, RoomForChars DEF Stops, StandsIn
  <2>3. pos + m = n \/ (pos + m < n /\ bytes[pos + m + 1] = LF)
    BY <2>1 DEF Stops
  <2>4. StopAt(chars, pos, size) = IF pos + m = n \/ m = most THEN pos + m ELSE pos + m + 1
    BY <2>1, <2>2 DEF StopAt
  <2> QED BY <2>1, <2>2, <2>3, <2>4
<1>2. LineEnd = end
  BY <1>1, LineEnds
<1>3. chars \in Seq(Nat)
  BY TextIs, SeqMonotonic
<1>4. \A k \in 1..n : bytes[k] \in Nat
  BY <1>1, ElementOfSeq, LenProperties
<1>5. PICK read : read = LineBytes
  OBVIOUS
<1>6. /\ read \in Seq(Nat) /\ Len(read) = end - pos /\ \A k \in 1..(end - pos) : read[k] = bytes[pos + k]
  <2>1. PICK first \in Nat : first = pos + 1 /\ end - first + 1 = end - pos
    BY ONLY pos \in Nat, end \in Nat
  <2>2. read = SubSeq(bytes, first, end)
    BY <1>2, <1>5, <2>1 DEF LineBytes
  <2>3. ASSUME NEW k \in first..end PROVE bytes[k] \in Nat
    <3>1. k \in 1..n
      <4>1. pos \in Nat /\ end <= n /\ end \in Nat /\ n \in Nat
        BY <1>1
      <4> QED BY ONLY <2>1, <4>1, k \in first..end
    <3> QED BY <1>4, <3>1
  <2>4. read \in Seq(Nat) /\ Len(read) = (IF first <= end THEN end - first + 1 ELSE 0)
        /\ \A k \in 1..(end - first + 1) : read[k] = bytes[first + k - 1]
    BY ONLY <2>2, <2>3, first \in Nat, end \in Nat, SubSeqProperties
  <2>5. Len(read) = end - pos
    <3>1. pos <= end
      BY <1>1
    <3> QED BY ONLY <2>1, <2>4, <3>1, pos \in Nat, end \in Nat, first \in Nat
  <2>6. ASSUME NEW k \in 1..(end - pos) PROVE read[k] = bytes[pos + k]
    <3>1. first + k - 1 = pos + k /\ k \in 1..(end - first + 1)
      BY <1>1, <2>1
    <3> QED BY <2>4, <3>1
  <2> QED BY <2>4, <2>5, <2>6
<1>7. PICK l \in Nat : l = end - pos /\ l \in {m, m + 1} /\ DOMAIN read = 1..l
  BY <1>1, <1>6, LenProperties
<1>8. PICK line : line = LineChars
  OBVIOUS
<1>9. line = read
  <2>1. Width = 1 /\ Len(read) \div 1 = l
    BY <1>6, <1>7, ByOne DEF Width
  <2>2. line = [i \in 1..l |-> read[1 * (i - 1) + 1]]
    BY <1>5, <1>8, <2>1 DEF LineChars
  <2>3. \A i \in 1..l : 1 * (i - 1) + 1 = i
    OBVIOUS
  <2>4. line = [i \in 1..l |-> read[i]]
    BY <2>2, <2>3
  <2>5. read = [i \in 1..l |-> read[i]]
    BY <1>6, <1>7, LenProperties
  <2> QED BY <2>4, <2>5
<1>10. ASSUME NEW k \in 1..m PROVE line[k] = chars[k] /\ line[k] \notin {LF, CR}
  <2>1. bytes[pos + k] = chars[k]
    BY <1>1 DEF Stops, StandsIn
  <2>2. chars[k] \in Text
    BY <1>1, ElementOfSeq
  <2>3. line[k] = bytes[pos + k]
    <3>1. k \in 1..(end - pos)
      BY ONLY <1>7, m \in Nat, l \in Nat, end \in Nat, pos \in Nat, k \in 1..m
    <3> QED BY ONLY <1>6, <1>9, <3>1
  <2> QED BY <2>1, <2>2, <2>3 DEF Text
<1>11. PICK ends : ends = {i \in DOMAIN line : line[i] \in {LF, CR}}
  OBVIOUS
<1>12. TheLine = IF ends = {} THEN line ELSE SubSeq(line, 1, Min(ends) - 1)
  BY <1>8, <1>11 DEF TheLine
<1>13. CASE l = m
  <2>1. ends = {}
    BY <1>7, <1>9, <1>10, <1>11, <1>13
  <2>2. line = chars
    <3>1. Len(line) = m /\ \A k \in 1..m : line[k] = chars[k]
      BY <1>6, <1>7, <1>9, <1>10, <1>13
    <3> QED BY <1>1, <1>6, <1>9, <1>3, <3>1, SeqEqual
  <2>3. ~Dropped
    BY <1>8, <1>11, <2>1 DEF Dropped
  <2> QED BY <1>1, <1>2, <1>7, <1>12, <1>13, <2>1, <2>2, <2>3
<1>14. CASE l = m + 1
  <2>1. end = pos + m + 1 /\ end # pos + m /\ bytes[pos + m + 1] = LF
    BY <1>1, <1>7, <1>14
  <2>2. PICK x \in Nat : x = m + 1 /\ pos + x = pos + m + 1
    OBVIOUS
  <2>3. line[x] = LF
    <3>1. x \in 1..(end - pos)
      BY ONLY <1>7, <1>14, <2>2, m \in Nat, l \in Nat, x \in Nat
    <3>2. line[x] = bytes[pos + x]
      BY ONLY <1>6, <1>9, <3>1
    <3> QED BY <2>1, <2>2, <3>2
  <2>4. ends \subseteq Nat /\ x \in ends /\ \A y \in ends : x <= y
    <3>1. DOMAIN line = 1..x
      BY <1>7, <1>9, <1>14, <2>2
    <3>2. ASSUME NEW y \in ends PROVE y \in Nat /\ x <= y
      <4>1. y \in 1..x /\ line[y] \in {LF, CR}
        BY <1>11, <3>1
      <4>2. y \notin 1..m
        BY <1>10, <4>1
      <4> QED BY <2>2, <4>1, <4>2
    <3>3. x \in ends
      BY <1>11, <2>2, <2>3, <3>1
    <3> QED BY <3>2, <3>3
  <2>5. Min(ends) = x
    BY <2>4, LeastIs
  <2>6. TheLine = SubSeq(line, 1, m)
    BY <1>12, <2>2, <2>4, <2>5
  <2>7. PICK part : part = SubSeq(line, 1, m)
    OBVIOUS
  <2>8. part = chars
    <3>1. \A k \in 1..m : line[k] \in Nat
      BY <1>10, <1>3, ElementOfSeq, <1>1
    <3>2. part \in Seq(Nat) /\ Len(part) = (IF 1 <= m THEN m - 1 + 1 ELSE 0)
            /\ \A k \in 1..(m - 1 + 1) : part[k] = line[1 + k - 1]
      BY <2>7, <3>1, SubSeqProperties
    <3>3. Len(part) = m
      BY <3>2
    <3>4. ASSUME NEW k \in 1..m PROVE part[k] = chars[k]
      <4>1. k \in 1..(m - 1 + 1) /\ 1 + k - 1 = k
        OBVIOUS
      <4> QED BY <1>10, <3>2, <4>1
    <3> QED BY <1>1, <1>3, <3>2, <3>3, <3>4, SeqEqual
  <2>9. Dropped => end >= size - 2
    BY <1>1, <1>2 DEF Dropped, Size
  <2> QED BY <1>1, <1>2, <2>1, <2>6, <2>7, <2>8, <2>9
<1> QED BY <1>7, <1>13, <1>14

\* The bytes of the file, line by line, and where each ends.
Ascii == 1..127
LinePart(i) == Chars(written[i]) \o (IF i < Len(written) \/ ended THEN <<LF>> ELSE <<>>)
FileParts == [i \in DOMAIN written |-> LinePart(i)]
EndAt(i) == EndOf(FileParts, i)
LaidOut(file, n) ==
  /\ file \in Seq(Ascii) /\ EndAt(0) = 0 /\ EndAt(n) = Len(file) /\ \A i \in 0..n : EndAt(i) \in Nat
  /\ \A j \in 1..n : /\ Taken(written[j]) /\ Stops(file, Chars(written[j]), EndAt(j - 1), Len(file))
                     /\ EndAt(j) = EndAt(j - 1) + Len(Chars(written[j])) + (IF j < n THEN 1 ELSE 0)
  /\ \A j \in 1..(n - 1) : EndAt(j) < Len(file) - 2 /\ file[EndAt(j)] = LF /\ EndAt(j) >= 1

\* One line of the file.
LEMMA PartIs ==
  ASSUME WellFormed, written \in Seq(Lines), NEW n \in Nat, n = Len(written), NEW j \in 1..n,
         NEW chars, chars = Chars(written[j])
  PROVE  /\ Taken(written[j]) /\ chars \in Seq(Text) /\ chars \in Seq(Ascii)
          /\ LinePart(j) \in Seq(Ascii)
         /\ Len(chars) \in Nat /\ Len(chars) < MaxLine
         /\ Len(LinePart(j)) = Len(chars) + (IF j < n THEN 1 ELSE 0)
         /\ StandsIn(LinePart(j), chars, 0)
         /\ j < n => LinePart(j)[Len(chars) + 1] = LF
<1>1. written[j] \in Lines /\ LinePlain(written[j]) /\ ~ended
  BY ElementOfSeq, LenProperties DEF WellFormed
<1>2. Taken(written[j])
  BY <1>1, LineTaken
<1>3. chars \in Seq(Text) /\ Len(chars) \in Nat /\ Len(chars) < MaxLine
  BY <1>2 DEF Taken
<1>4. chars \in Seq(Ascii)
  <2>1. Text \subseteq Ascii
    BY DEF Text, Ascii
  <2> QED BY <1>3, <2>1, SeqMonotonic
<1>5. PICK newline \in Seq(Ascii) : newline = (IF j < n THEN <<LF>> ELSE <<>>)
                                    /\ Len(newline) = (IF j < n THEN 1 ELSE 0)
                                            /\ (j < n => newline[1] = LF)
  <2>1. <<LF>> \in Seq(Ascii) /\ Len(<<LF>>) = 1 /\ <<LF>>[1] = LF
    BY DEF LF, Ascii
  <2> QED BY <2>1, EmptySeq
<1>6. PICK part : part = LinePart(j) /\ part = chars \o newline
  BY <1>1, <1>5 DEF LinePart
<1>7. BothStand(part, Ascii, chars, newline)
  BY <1>4, <1>6, JoinStands
<1>8. ASSUME j < n PROVE part[Len(chars) + 1] = LF
  <2>1. 1 \in 1..Len(newline)
    BY <1>5, <1>8
  <2> QED BY <1>5, <1>7, <1>8, <2>1 DEF BothStand, StandsIn
<1> QED BY <1>2, <1>3, <1>4, <1>5, <1>6, <1>7, <1>8 DEF BothStand

\* The lines of a file stand in it one behind the other, each but the last with its newline,
\* and more than two characters behind the last newline.
LEMMA FileLaidOut ==
  ASSUME WellFormed, written \in Seq(Lines), NEW n \in Nat, n = Len(written)
  PROVE  n >= 1 /\ LaidOut(FileOf(written, ended), n)
<1>1. n >= 1 /\ DOMAIN written = 1..n /\ Len(Chars(written[n])) > 2
  <2>1. n # 0 /\ DOMAIN written = 1..n
    BY EmptySeq, LenProperties DEF WellFormed
  <2> QED BY <2>1 DEF WellFormed, Last
<1>2. PICK parts : parts = FileParts
  OBVIOUS
<1>3. parts = [i \in 1..n |-> LinePart(i)]
  BY <1>1, <1>2 DEF FileParts
<1>4. \A i \in 1..n : parts[i] \in Seq(Ascii)
  BY <1>3, PartIs
<1>5. Firsts(parts, n) = parts
  BY <1>3 DEF Firsts
<1>6. FlattenSeq(Firsts(parts, n)) \in Seq(Ascii) /\ PartsIn(FlattenSeq(Firsts(parts, n)), parts, n)
  BY <1>4, PartsStand
<1>7. PICK file : file = FileOf(written, ended)
  OBVIOUS
<1>8. file = FlattenSeq(parts)
  BY <1>2, <1>7 DEF FileOf, FileParts, LinePart
<1>9. file \in Seq(Ascii) /\ PartsIn(file, parts, n)
  BY <1>5, <1>6, <1>8
<1>10. /\ EndAt(0) = 0 /\ EndAt(n) = Len(file) /\ \A i \in 0..n : EndAt(i) \in Nat
       /\ \A i \in 1..n : EndAt(i) = EndAt(i - 1) + Len(LinePart(i))
               /\ StandsIn(file, LinePart(i), EndAt(i - 1))
  BY <1>2, <1>3, <1>9 DEF PartsIn, EndAt
<1>11. ASSUME NEW j \in 1..n
       PROVE  /\ Taken(written[j]) /\ Stops(file, Chars(written[j]), EndAt(j - 1), Len(file))
              /\ EndAt(j) = EndAt(j - 1) + Len(Chars(written[j])) + (IF j < n THEN 1 ELSE 0)
              /\ j < n => file[EndAt(j)] = LF /\ EndAt(j) >= 1
  <2>1. PICK chars : chars = Chars(written[j])
    OBVIOUS
  <2>2. PICK part \in Seq(Ascii) :
          /\ part = LinePart(j) /\ Taken(written[j]) /\ Len(chars) \in Nat /\ Len(chars) < MaxLine
          /\ Len(part) = Len(chars) + (IF j < n THEN 1 ELSE 0)
          /\ StandsIn(part, chars, 0) /\ (j < n => part[Len(chars) + 1] = LF)
    BY <2>1, PartIs
  <2>3. PICK start \in Nat, zero \in Nat : start = EndAt(j - 1) /\ zero = 0
    BY <1>10
  <2>4. StandsIn(file, part, start) /\ EndAt(j) = start + Len(part) /\ Len(part) \in Nat
          /\ Len(file) \in Nat
    BY <1>9, <1>10, <2>2, <2>3, LenProperties
  <2>5. StandsIn(file, chars, start + zero)
    BY <2>2, <2>3, <2>4, StandsWithin
  <2>6. StandsIn(file, chars, start)
    BY <2>3, <2>5
  <2>7. ASSUME j < n PROVE file[start + Len(chars) + 1] = LF /\ start + Len(chars) + 1 = EndAt(j)
          /\ EndAt(j) <= Len(file)
    <3>1. PICK k \in 1..Len(part) : k = Len(chars) + 1
      BY <2>2, <2>7
    <3>2. file[start + k] = part[k] /\ part[k] = LF
      BY <2>2, <2>4, <2>7, <3>1 DEF StandsIn
    <3>3. start + k = start + Len(chars) + 1
      BY <2>2, <3>1
    <3> QED BY <2>2, <2>4, <2>7, <3>1, <3>2, <3>3 DEF StandsIn
  <2>8. CASE j < n
    <3>1. start + Len(chars) < Len(file)
      BY <2>2, <2>4, <2>7, <2>8
    <3>2. Stops(file, chars, start, Len(file))
      BY <2>2, <2>6, <2>7, <2>8, <3>1 DEF Stops
    <3>3. file[EndAt(j)] = LF /\ EndAt(j) >= 1
      BY <2>2, <2>7, <2>8
    <3> QED BY <2>1, <2>2, <2>3, <2>4, <2>8, <3>2, <3>3
  <2>9. CASE ~(j < n)
    <3>1. j = n /\ EndAt(j) = Len(file)
      BY <1>10, <2>9
    <3>2. start + Len(chars) = Len(file)
      BY <2>2, <2>4, <2>9, <3>1
    <3>3. Stops(file, chars, start, Len(file))
      BY <2>2, <2>6, <3>2 DEF Stops
    <3> QED BY <2>1, <2>2, <2>3, <2>4, <2>9, <3>3
  <2> QED BY <2>8, <2>9
<1> DEFINE short == {d \in Nat : d + 1 <= n => EndAt(n - (d + 1)) < Len(file) - 2}
<1>12. Len(file) \in Nat
  BY <1>9, LenProperties
<1>13. 0 \in short
  <2>1. n \in 1..n /\ n - 1 \in 0..n
    BY <1>1
  <2>2. EndAt(n) = EndAt(n - 1) + Len(Chars(written[n])) + 0
    BY <1>11, <2>1
  <2>3. Len(Chars(written[n])) \in Nat
    BY <1>11, <2>1 DEF Taken
  <2>4. EndAt(n - 1) \in Nat /\ EndAt(n) = Len(file)
    BY <1>10, <2>1
  <2>5. EndAt(n - 1) < Len(file) - 2
    BY <1>1, <1>12, <2>2, <2>3, <2>4
  <2>6. n - (0 + 1) = n - 1
    OBVIOUS
  <2> QED BY <2>5, <2>6
<1>14. ASSUME NEW d \in Nat, d \in short PROVE d + 1 \in short
  <2> SUFFICES ASSUME d + 1 + 1 <= n PROVE EndAt(n - (d + 1 + 1)) < Len(file) - 2
    OBVIOUS
  <2>1. PICK j : j = n - (d + 1)
    OBVIOUS
  <2>2. j \in 1..n /\ j = n - (d + 1) /\ j - 1 = n - (d + 1 + 1) /\ j - 1 \in 0..n /\ j \in 0..n
    BY <2>1
  <2>3. EndAt(j) < Len(file) - 2
    BY <1>14, <2>2
  <2>4. Taken(written[j]) /\ EndAt(j) = EndAt(j - 1) + Len(Chars(written[j])) + (IF j < n THEN 1 ELSE 0)
    BY <1>11, <2>2
  <2>5. EndAt(j) = EndAt(j - 1) + Len(Chars(written[j])) + (IF j < n THEN 1 ELSE 0)
          /\ Len(Chars(written[j])) \in Nat
    BY <2>4 DEF Taken
  <2>6. EndAt(j) \in Nat /\ EndAt(j - 1) \in Nat
    BY <1>10, <2>2
  <2>7. EndAt(j - 1) < Len(file) - 2
    BY <1>12, <2>3, <2>5, <2>6
  <2> QED BY <2>2, <2>7
<1> HIDE DEF short
<1>15. \A d \in Nat : d \in short
  BY <1>13, <1>14, NaturalInduction
<1>16. ASSUME NEW j \in 1..(n - 1) PROVE EndAt(j) < Len(file) - 2
  <2>1. PICK d \in Nat : d = n - 1 - j /\ n - (d + 1) = j /\ d + 1 <= n
    <3>1. n - 1 - j \in Nat /\ n - ((n - 1 - j) + 1) = j /\ (n - 1 - j) + 1 <= n
      OBVIOUS
    <3> QED BY <3>1
  <2> QED BY <1>15, <2>1 DEF short
<1>17. LaidOut(file, n)
  <2>1. \A j \in 1..(n - 1) : j \in 1..n /\ j < n
    OBVIOUS
  <2> QED BY <1>9, <1>10, <1>11, <1>16, <2>1 DEF LaidOut
<1> QED BY <1>1, <1>7, <1>17

\* Where ReadLine stands when the first k of n lines are read: behind the k-th, or before
\* its newline, if that did not fit.
StandsAfter(k, n) ==
  \/ fh.pos = EndAt(k) /\ (fh.eof => k = n)
  \/ k \in 1..(n - 1) /\ fh.pos = EndAt(k) - 1 /\ ~fh.eof
ReadsFile == /\ fh \in [name : {IniFile}, pos : Nat, eof : BOOLEAN] /\ ftype = "ascii"
             /\ Bytes = FileOf(written, ended)

\* What it reads next: the characters of the next line, or nothing.
NextRead(file, chars, k, j, n) ==
  /\ chars \in Seq(Text) /\ Stops(file, chars, fh.pos, Len(file)) /\ j \in 0..n
  /\ \/ j = k /\ chars = <<>>
     \/ j = k + 1 /\ chars = Chars(written[j])
  /\ j < n => \/ StopAt(chars, fh.pos, Len(file)) = EndAt(j)
              \/ j >= 1 /\ StopAt(chars, fh.pos, Len(file)) = EndAt(j) - 1
  /\ j < n => StopAt(chars, fh.pos, Len(file)) < Len(file) - 2
  /\ j = n => /\ StopAt(chars, fh.pos, Len(file)) = EndAt(n)
              /\ StopAt(chars, fh.pos, Len(file)) = fh.pos + Len(chars)

\* There is always one of them.
LEMMA SomethingNext ==
  ASSUME NEW n \in Nat, n >= 1, NEW file, LaidOut(file, n),
          NEW k \in 0..n, StandsAfter(k, n), fh.pos \in Nat
  PROVE  \E chars, j : NextRead(file, chars, k, j, n)
<1>1. PICK size \in Nat, pos \in Nat : size = Len(file) /\ pos = fh.pos
  BY LenProperties DEF LaidOut
<1>2. \A i \in 0..n : EndAt(i) \in Nat
  BY DEF LaidOut
<1>3. PICK room \in Nat : room = MaxLine - 1 /\ room >= 1
  <2>1. MaxLine - 1 \in Nat /\ MaxLine - 1 >= 1
    BY RoomForChars
  <2> QED BY <2>1
<1>4. PICK none \in Seq(Text) : none = <<>> /\ Len(none) = 0
  BY EmptySeq
<1>5. \A p \in Nat : p <= size => StandsIn(file, none, p)
  BY <1>1, <1>4 DEF StandsIn
<1>6. Len(none) < MaxLine
  BY <1>4, RoomForChars
<1>7. CASE fh.pos = EndAt(k) /\ k < n
  <2>1. PICK j \in 1..n : j = k + 1 /\ j - 1 = k
    <3>1. k + 1 \in 1..n /\ (k + 1) - 1 = k
      BY <1>7
    <3> QED BY <3>1
  <2>2. PICK chars : chars = Chars(written[j])
    OBVIOUS
  <2>3. PICK m \in Nat : m = Len(chars) /\ m <= room /\ chars \in Seq(Text)
    <3>1. Taken(written[j])
      BY DEF LaidOut
    <3>2. Len(chars) \in Nat /\ Len(chars) < MaxLine /\ chars \in Seq(Text)
      BY <2>2, <3>1 DEF Taken
    <3> QED BY <1>3, <3>2, RoomForChars
  <2>4. Stops(file, chars, pos, size) /\ EndAt(j) = pos + m + (IF j < n THEN 1 ELSE 0)
    <3>1. EndAt(j - 1) = pos
      BY <1>1, <1>7, <2>1
    <3> QED BY <1>1, <2>2, <2>3, <3>1 DEF LaidOut
  <2>5. PICK stop : stop = StopAt(chars, pos, size)
    OBVIOUS
  <2>6. stop = IF pos + m = size \/ m = room THEN pos + m ELSE pos + m + 1
    BY <1>3, <2>3, <2>5 DEF StopAt
  <2>7. CASE j < n
    <3>1. EndAt(j) = pos + m + 1
      BY <2>4, <2>7
    <3>2. EndAt(j) < size - 2
      <4>1. j \in 1..(n - 1)
        BY <2>7
      <4> QED BY <1>1, <4>1 DEF LaidOut
    <3>3. stop \in {EndAt(j), EndAt(j) - 1} /\ stop < size - 2
      BY <2>6, <3>1, <3>2
    <3>4. NextRead(file, chars, k, j, n)
      BY <1>1, <2>1, <2>2, <2>3, <2>4, <2>5, <2>7, <3>3 DEF NextRead
    <3> QED BY <3>4
  <2>8. CASE ~(j < n)
    <3>1. j = n /\ EndAt(n) = pos + m /\ EndAt(n) = size
      <4>1. j = n /\ EndAt(j) = pos + m
        BY <2>4, <2>8
      <4>2. EndAt(n) = size
        BY <1>1 DEF LaidOut
      <4> QED BY <4>1, <4>2
    <3>2. stop = pos + m
      BY <2>6, <3>1
    <3>3. NextRead(file, chars, k, j, n)
      BY <1>1, <2>1, <2>2, <2>3, <2>4, <2>5, <3>1, <3>2 DEF NextRead
    <3> QED BY <3>3
  <2> QED BY <2>7, <2>8
<1>8. CASE fh.pos = EndAt(k) /\ ~(k < n)
  <2>1. k = n /\ pos = size
    <3>1. k = n
      BY <1>8
    <3>2. EndAt(n) = size
      BY <1>1 DEF LaidOut
    <3> QED BY <1>1, <1>8, <3>1, <3>2
  <2>2. Stops(file, none, pos, size)
    <3>1. StandsIn(file, none, pos)
      BY <1>5, <2>1
    <3>2. pos + Len(none) = size
      BY <1>4, <2>1
    <3> QED BY <1>6, <3>1, <3>2 DEF Stops
  <2>3. StopAt(none, pos, size) = pos + 0 /\ pos + 0 = pos
    BY <1>4, <2>1 DEF StopAt
  <2>4. NextRead(file, none, k, k, n)
    BY <1>1, <1>4, <1>8, <2>1, <2>2, <2>3 DEF NextRead
  <2> QED BY <2>4
<1>9. CASE k \in 1..(n - 1) /\ fh.pos = EndAt(k) - 1
  <2>1. EndAt(k) < size - 2 /\ file[EndAt(k)] = LF /\ k < n /\ k >= 1
    BY <1>1, <1>9 DEF LaidOut
  <2>2. pos + 0 + 1 = EndAt(k) /\ pos + 0 = pos /\ pos + 0 < size /\ pos <= size
    BY <1>1, <1>2, <1>9, <2>1
  <2>3. Stops(file, none, pos, size)
    <3>1. StandsIn(file, none, pos)
      BY <1>5, <2>2
    <3>2. pos + Len(none) < size /\ pos + Len(none) + 1 = EndAt(k)
      BY <1>4, <2>2
    <3> QED BY <1>6, <2>1, <3>1, <3>2 DEF Stops
  <2>4. StopAt(none, pos, size) = EndAt(k)
    BY <1>3, <1>4, <2>2 DEF StopAt
  <2>5. NextRead(file, none, k, k, n)
    BY <1>1, <1>4, <2>1, <2>3, <2>4 DEF NextRead
  <2> QED BY <2>5
<1> QED BY <1>7, <1>8, <1>9 DEF StandsAfter

\* What ReadLine does with it.
LEMMA NextLine ==
  ASSUME ReadsFile, ~fh.eof, NEW n \in Nat, n >= 1,
          NEW file, file = FileOf(written, ended), LaidOut(file, n),
         NEW k \in 0..n, NEW j, NEW chars, NextRead(file, chars, k, j, n)
  PROVE  /\ TheLine = chars
         /\ AfterLine \in [name : {IniFile}, pos : Nat, eof : BOOLEAN]
         /\ AfterLine.pos = StopAt(chars, fh.pos, Len(file))
         /\ j < n => ~AfterLine.eof
         /\ ~Dropped
<1>1. PICK size \in Nat, pos \in Nat : size = Len(file) /\ pos = fh.pos
  BY LenProperties DEF LaidOut, ReadsFile
<1>2. file \in Seq(Nat)
  <2>1. Ascii \subseteq Nat
    BY DEF Ascii
  <2> QED BY <2>1, SeqMonotonic DEF LaidOut
<1>3. file = Bytes /\ ftype = "ascii" /\ chars \in Seq(Text) /\ Stops(file, chars, pos, size)
  BY <1>1 DEF ReadsFile, NextRead
<1>4. PICK stop : stop = StopAt(chars, pos, size)
  OBVIOUS
<1>5. /\ TheLine = chars /\ LineEnd = stop
      /\ Dropped => LineEnd = pos + Len(chars) + 1 /\ LineEnd >= size - 2
  BY <1>1, <1>2, <1>3, <1>4, LineRead
<1>6. Len(chars) \in Nat
  BY <1>3, LenProperties
<1>7. stop \in Nat
  BY <1>4, <1>6 DEF StopAt
<1>8. j \in 0..n /\ (j < n => stop < size - 2) /\ (j = n => stop = pos + Len(chars))
  BY <1>1, <1>4 DEF NextRead
<1>9. ~Dropped
  BY <1>1, <1>5, <1>6, <1>7, <1>8
<1>10. PICK ends \in BOOLEAN :
         /\ ends = (LineEnd = Size /\ (LineChars = <<>> \/ Last(LineChars) # LF) /\ Len(LineChars) < MaxLine - 1)
         /\ AfterLine = [fh EXCEPT !.pos = LineEnd, !.eof = @ \/ ends]
  BY DEF AfterLine
<1>11. ASSUME j < n PROVE ~ends
  <2>1. Size = size
    BY <1>1, <1>3 DEF Size
  <2>2. LineEnd # Size
    BY <1>1, <1>5, <1>7, <1>8, <1>11, <2>1
  <2> QED BY <1>10, <2>2
<1>12. fh \in [name : {IniFile}, pos : Nat, eof : BOOLEAN] /\ fh.eof = FALSE
  BY DEF ReadsFile
<1>13. AfterLine = [name |-> fh.name, pos |-> stop, eof |-> ends]
  <2>1. AfterLine = [fh EXCEPT !.pos = stop, !.eof = ends]
    BY <1>5, <1>10, <1>12
  <2> QED BY <1>12, <2>1
<1> QED BY <1>1, <1>4, <1>5, <1>7, <1>9, <1>11, <1>12, <1>13

\* What the entries are when the first k lines are read: at has the lines that they are of.
EntryOf(i) == [section |-> SectionAt(i), key |-> written[i].name, value |-> written[i].value]
TakenFrom(ents, at, m, k) ==
  /\ at \in [1..m -> 1..k] /\ ents = [a \in 1..m |-> EntryOf(at[a])]
  /\ \A a, b \in 1..m : a < b => at[a] < at[b]
  /\ \A a \in 1..m : written[at[a]].kind = "entry"
  /\ \A i \in 1..k : written[i].kind = "entry" => \E a \in 1..m : at[a] = i
UpTo(section, ents, k) == section = SectionAt(k) /\ \E m \in Nat : \E at : TakenFrom(ents, at, m, k)

\* Before the first line there is no section.
LEMMA NoneTaken == UpTo(NoSection, <<>>, 0)
<1>1. SectionAt(0) = NoSection
  <2>1. {j \in 1..0 : written[j].kind = "section"} = {}
    OBVIOUS
  <2> QED BY <2>1 DEF SectionAt
<1>2. PICK at : at = [a \in 1..0 |-> 0]
  OBVIOUS
<1>3. TakenFrom(<<>>, at, 0, 0)
  BY <1>2 DEF TakenFrom
<1> QED BY <1>1, <1>3 DEF UpTo

\* A line opens a section or is in that of the line before.
LEMMA SectionGoesOn ==
  ASSUME NEW k \in Nat, NEW j, j = k + 1
  PROVE  SectionAt(j) = IF written[j].kind = "section" THEN written[j].name ELSE SectionAt(k)
<1>1. PICK before : before = {i \in 1..j : written[i].kind = "section"}
  OBVIOUS
<1>2. CASE written[j].kind = "section"
  <2>1. before \subseteq Nat /\ j \in before /\ \A y \in before : y <= j
    BY <1>1, <1>2
  <2>2. Max(before) = j
    BY <2>1, GreatestIs
  <2> QED BY <1>1, <1>2, <2>1, <2>2 DEF SectionAt
<1>3. CASE written[j].kind # "section"
  <2>1. before = {i \in 1..k : written[i].kind = "section"}
    <3>1. \A i \in 1..j : i # j => i \in 1..k
      OBVIOUS
    <3>2. \A i \in 1..k : i \in 1..j
      OBVIOUS
    <3> QED BY <1>1, <1>3, <3>1, <3>2
  <2> QED BY <1>1, <1>3, <2>1 DEF SectionAt
<1> QED BY <1>2, <1>3

\* A line that is no entry adds none.
LEMMA NoEntryTaken ==
  ASSUME NEW k \in Nat, NEW j, j = k + 1, written[j].kind # "entry", NEW ents, NEW m \in Nat, NEW at,
         TakenFrom(ents, at, m, k)
  PROVE  TakenFrom(ents, at, m, j)
<1>1. at \in [1..m -> 1..j]
  <2>1. \A i \in 1..k : i \in 1..j
    OBVIOUS
  <2> QED BY <2>1 DEF TakenFrom
<1>2. ASSUME NEW i \in 1..j, written[i].kind = "entry" PROVE \E a \in 1..m : at[a] = i
  <2>1. i # j
    BY <1>2
  <2>2. i \in 1..k
    BY <2>1
  <2> QED BY <1>2, <2>2 DEF TakenFrom
<1> QED BY <1>1, <1>2 DEF TakenFrom

\* An entry is added behind those that are there.
LEMMA EntryTaken ==
  ASSUME NEW k \in Nat, NEW j, j = k + 1, written[j].kind = "entry", NEW ents, NEW m \in Nat, NEW at,
         TakenFrom(ents, at, m, k)
  PROVE  \E more : TakenFrom(Append(ents, EntryOf(j)), more, m + 1, j)
<1>1. PICK x \in Nat : x = m + 1
  OBVIOUS
<1>2. PICK more : more = [a \in 1..x |-> IF a = x THEN j ELSE at[a]]
  OBVIOUS
<1>3. PICK all : all = [a \in 1..x |-> EntryOf(more[a])]
  OBVIOUS
<1>4. ASSUME NEW a \in 1..m PROVE a \in 1..x /\ a # x /\ more[a] = at[a] /\ at[a] \in 1..k
        /\ at[a] \in 1..j /\ at[a] < j
  <2>1. a \in 1..x /\ a # x
    BY <1>1
  <2>2. more[a] = at[a]
    BY <1>2, <2>1
  <2>3. at[a] \in 1..k
    BY DEF TakenFrom
  <2>4. at[a] \in 1..j /\ at[a] < j
    BY <2>3
  <2> QED BY <2>1, <2>2, <2>3, <2>4
<1>5. x \in 1..x /\ more[x] = j /\ j \in 1..j
  BY <1>1, <1>2
<1>6. ASSUME NEW a \in 1..x PROVE a = x \/ a \in 1..m
  BY <1>1
<1>7. Firsts(all, m) = ents
  <2>1. Firsts(all, m) = [a \in 1..m |-> all[a]]
    BY DEF Firsts
  <2>2. \A a \in 1..m : all[a] = EntryOf(at[a])
    BY <1>3, <1>4
  <2>3. ents = [a \in 1..m |-> EntryOf(at[a])]
    BY DEF TakenFrom
  <2> QED BY <2>1, <2>2, <2>3
<1>8. Append(Firsts(all, m), all[x]) = Firsts(all, x)
  BY <1>1, FirstsGrow
<1>9. Firsts(all, x) = all /\ all[x] = EntryOf(j)
  BY <1>3, <1>5 DEF Firsts
<1>10. Append(ents, EntryOf(j)) = all
  BY <1>7, <1>8, <1>9
<1>11. more \in [1..x -> 1..j]
  <2>1. \A a \in 1..x : more[a] \in 1..j
    BY <1>4, <1>5, <1>6
  <2> QED BY <1>2, <2>1
<1>12. ASSUME NEW a \in 1..x, NEW b \in 1..x, a < b PROVE more[a] < more[b]
  <2>1. a \in 1..m
    BY <1>1, <1>12
  <2>2. CASE b = x
    BY <1>4, <1>5, <2>1, <2>2
  <2>3. CASE b \in 1..m
    BY <1>4, <1>12, <2>1, <2>3 DEF TakenFrom
  <2> QED BY <1>6, <2>2, <2>3
<1>13. ASSUME NEW a \in 1..x PROVE written[more[a]].kind = "entry"
  <2>1. CASE a = x
    BY <1>5, <2>1
  <2>2. CASE a \in 1..m
    BY <1>4, <2>2 DEF TakenFrom
  <2> QED BY <1>6, <2>1, <2>2
<1>14. ASSUME NEW i \in 1..j, written[i].kind = "entry" PROVE \E a \in 1..x : more[a] = i
  <2>1. CASE i = j
    BY <1>5, <2>1
  <2>2. CASE i # j
    <3>1. i \in 1..k
      BY <2>2
    <3>2. PICK a \in 1..m : at[a] = i
      BY <1>14, <3>1 DEF TakenFrom
    <3> QED BY <1>4, <3>2
  <2> QED BY <2>1, <2>2
<1>15. TakenFrom(all, more, x, j)
  BY <1>3, <1>11, <1>12, <1>13, <1>14 DEF TakenFrom
<1> QED BY <1>1, <1>10, <1>15

\* What ReadLine makes of the characters of a line.
SectionThen(chars) ==
  IF Skipped(chars) \/ Head(Unled(chars)) # Open THEN currentSection ELSE SectionOf(Unled(chars))
EntriesThen(chars) ==
  IF Skipped(chars) \/ Head(Unled(chars)) = Open THEN entries
  ELSE Append(entries, [section |-> currentSection,
          key |-> KeyOf(Unled(chars)), value |-> ValueOf(Unled(chars))])

\* It is what the line says.
LEMMA LineDone ==
  ASSUME NEW k \in Nat, NEW j, j = k + 1, Taken(written[j]), UpTo(currentSection, entries, k),
         NEW chars, chars = Chars(written[j])
  PROVE  UpTo(SectionThen(chars), EntriesThen(chars), j)
<1>1. PICK m \in Nat : \E at : TakenFrom(entries, at, m, k)
  BY DEF UpTo
<1>2. PICK at : TakenFrom(entries, at, m, k)
  BY <1>1
<1>3. currentSection = SectionAt(k)
  BY DEF UpTo
<1>4. CASE written[j].kind = "section"
  <2>1. SectionThen(chars) = written[j].name /\ EntriesThen(chars) = entries
    BY <1>4 DEF Taken, SectionThen, EntriesThen
  <2>2. SectionAt(j) = written[j].name
    BY <1>4, SectionGoesOn
  <2>3. TakenFrom(entries, at, m, j)
    BY <1>2, <1>4, NoEntryTaken
  <2> QED BY <2>1, <2>2, <2>3 DEF UpTo
<1>5. CASE written[j].kind = "entry"
  <2>1. SectionAt(j) = currentSection
    BY <1>3, <1>5, SectionGoesOn
  <2>2. SectionThen(chars) = currentSection /\ EntriesThen(chars) = Append(entries, EntryOf(j))
    BY <1>5, <2>1 DEF Taken, SectionThen, EntriesThen, EntryOf
  <2>3. PICK more : TakenFrom(Append(entries, EntryOf(j)), more, m + 1, j)
    BY <1>2, <1>5, EntryTaken
  <2>4. m + 1 \in Nat
    OBVIOUS
  <2> QED BY <2>1, <2>2, <2>3, <2>4 DEF UpTo
<1>6. CASE written[j].kind \in {"comment", "blank"}
  <2>1. SectionThen(chars) = currentSection /\ EntriesThen(chars) = entries
    BY <1>6 DEF Taken, SectionThen, EntriesThen
  <2>2. SectionAt(j) = currentSection
    BY <1>3, <1>6, SectionGoesOn
  <2>3. TakenFrom(entries, at, m, j)
    BY <1>2, <1>6, NoEntryTaken
  <2> QED BY <2>1, <2>2, <2>3 DEF UpTo
<1> QED BY <1>4, <1>5, <1>6 DEF Taken

\* Whoever asks gets the first entry that the file has.
LEMMA AllIsFound ==
  ASSUME NEW n \in Nat, DOMAIN written = 1..n, UpTo(currentSection, entries, n), NEW section, NEW key
  PROVE  GetString(section, key) = Said(section, key)
<1>1. PICK m \in Nat : \E at : TakenFrom(entries, at, m, n)
  BY DEF UpTo
<1>2. PICK at : TakenFrom(entries, at, m, n)
  BY <1>1
<1>3. DOMAIN entries = 1..m /\ \A a \in 1..m : entries[a] = EntryOf(at[a]) /\ at[a] \in 1..n
  BY <1>2 DEF TakenFrom
<1>4. PICK found : found = Fitting(section, key)
  OBVIOUS
<1>5. found = {a \in 1..m : written[at[a]].name = key /\ SectionAt(at[a]) = section}
  BY <1>3, <1>4 DEF Fitting, EntryOf
<1>6. PICK lines : lines = {i \in 1..n : written[i].kind = "entry" /\ written[i].name = key
        /\ SectionAt(i) = section}
  OBVIOUS
<1>7. Said(section, key) = IF lines = {} THEN NotFound ELSE written[Min(lines)].value
  BY <1>6 DEF Said
<1>8. GetString(section, key) = IF found = {} THEN NotFound ELSE entries[Min(found)].value
  BY <1>4 DEF GetString
<1>9. ASSUME NEW a \in found PROVE a \in 1..m /\ at[a] \in lines
  BY <1>2, <1>3, <1>5, <1>6 DEF TakenFrom
<1>10. ASSUME NEW i \in lines PROVE \E a \in found : at[a] = i
  <2>1. PICK a \in 1..m : at[a] = i
    BY <1>2, <1>6 DEF TakenFrom
  <2> QED BY <1>5, <1>6, <2>1
<1>11. CASE found = {}
  BY <1>7, <1>8, <1>10, <1>11
<1>12. CASE found # {}
  <2>1. found \subseteq Nat
    BY <1>9
  <2>2. PICK x : x = Min(found) /\ x \in found /\ \A a \in found : x <= a
    BY <1>12, <2>1, MinIsThere
  <2>3. PICK y : y = at[x]
    OBVIOUS
  <2>4. y \in lines
    BY <1>9, <2>2, <2>3
  <2>5. ASSUME NEW i \in lines PROVE y <= i
    <3>1. PICK a \in found : at[a] = i
      BY <1>10
    <3>2. x \in 1..m /\ a \in 1..m /\ x <= a /\ at[x] \in Nat /\ at[a] \in Nat
      BY <1>3, <1>9, <2>2
    <3>3. CASE x = a
      BY <2>3, <3>1, <3>2, <3>3
    <3>4. CASE x < a
      <4>1. \A b, c \in 1..m : b < c => at[b] < at[c]
        BY <1>2 DEF TakenFrom
      <4>2. at[x] < at[a]
        BY ONLY <3>2, <3>4, <4>1
      <4>3. y < i
        BY <2>3, <3>1, <4>2
      <4> QED BY ONLY <2>3, <3>1, <3>2, <4>3
    <3> QED BY <3>2, <3>3, <3>4
  <2>6. lines \subseteq Nat
    BY <1>6
  <2>7. Min(lines) = y
    BY <2>4, <2>5, <2>6, LeastIs
  <2>8. entries[x].value = written[y].value
    BY <1>3, <1>9, <2>2, <2>3 DEF EntryOf
  <2> QED BY <1>7, <1>8, <1>12, <2>2, <2>4, <2>7, <2>8
<1> QED BY <1>11, <1>12

\* While a file is read the entries are those of its first lines, and at the end of all.
ReaderInv ==
  /\ IniFile \in Names /\ written \in Seq(Lines)
  /\ WellFormed =>
       /\ disk[IniFile] = FileOf(written, ended)
       /\ reading = "not yet" => ftype # "binary"
       /\ reading = "yes" => /\ ReadsFile
                             /\ \E k \in 0..Len(written) :
                                  StandsAfter(k, Len(written)) /\ UpTo(currentSection, entries, k)
       /\ reading = "done" => UpTo(currentSection, entries, Len(written))

\* A configuration begins with no header.
LEMMA NoHeader ==
  ASSUME NEW file \in Seq(Ascii), Len(file) > 1
  PROVE  ~HasHeader(file)
<1>1. PICK n \in Nat : n = Len(file) /\ n >= 2
  BY LenProperties
<1>2. file[1] \in Ascii /\ \A k \in 1..2 : file[k] \in Ascii
  BY <1>1, ElementOfSeq
<1>3. SubSeq(file, 1, 2)[1] = file[1]
  <2>1. \A k \in 1..(2 - 1 + 1) : SubSeq(file, 1, 2)[k] = file[1 + k - 1]
    BY ONLY <1>2, SubSeqProperties
  <2>2. 1 \in 1..(2 - 1 + 1) /\ 1 + 1 - 1 = 1
    OBVIOUS
  <2> QED BY <2>1, <2>2
<1>4. PICK header \in Seq(Nat) : header = UnicodeHeader /\ Len(header) = 2 /\ header[1] = 255
  <2>1. <<255, 254>> \in Seq(Nat) /\ Len(<<255, 254>>) = 2 /\ <<255, 254>>[1] = 255
    OBVIOUS
  <2>2. UnicodeHeader \in Seq(Nat) /\ Len(UnicodeHeader) = 2 /\ UnicodeHeader[1] = 255
    BY <2>1 DEF UnicodeHeader
  <2> QED BY <2>2
<1>5. SubSeq(header, 1, 2) = header
  BY <1>4, SubSeqFull
<1>6. ASSUME HasHeader(file) PROVE FALSE
  <2>1. SubSeq(header, 1, 2) = SubSeq(file, 1, 2)
    BY <1>4, <1>6 DEF HasHeader, IsPrefix
  <2>2. file[1] = 255
    BY <1>3, <1>4, <1>5, <2>1
  <2> QED BY <1>2, <2>2 DEF Ascii
<1> QED BY <1>6

\* The lines of the file are what they were.
LEMMA UpToThen ==
  ASSUME written' = written, NEW k
  PROVE  UpTo(currentSection, entries, k)' = UpTo(currentSection', entries', k)
<1>1. ASSUME NEW i PROVE SectionAt(i)' = SectionAt(i)
  BY DEF SectionAt
<1>2. ASSUME NEW i PROVE EntryOf(i)' = EntryOf(i)
  BY <1>1 DEF EntryOf
<1>3. ASSUME NEW m, NEW at PROVE TakenFrom(entries, at, m, k)' = TakenFrom(entries', at, m, k)
  BY <1>2 DEF TakenFrom
<1> QED BY <1>1, <1>3 DEF UpTo

\* ReadINI stands before the first line.
LEMMA ReadStarts ==
  ASSUME ReaderInv, ReadINI
  PROVE  ReaderInv'
<1>1. PICK garbage \in BOOLEAN : OpenText(IniFile, {"read"}, garbage)
  BY DEF ReadINI
<1>2. /\ currentSection' = NoSection /\ entries' = <<>> /\ written' = written /\ ended' = ended
      /\ reading = "not yet" /\ reading' = "yes"
  BY DEF ReadINI
<1>3. WellFormed' = WellFormed
  BY <1>2 DEF WellFormed
<1>4. ASSUME WellFormed
      PROVE  /\ disk'[IniFile] = FileOf(written, ended) /\ ReadsFile'
             /\ StandsAfter(0, Len(written))' /\ UpTo(currentSection', entries', 0)
  <2>1. PICK n \in Nat : n = Len(written)
    BY LenProperties DEF ReaderInv
  <2>2. PICK file : file = FileOf(written, ended) /\ n >= 1 /\ LaidOut(file, n)
    BY <1>4, <2>1, FileLaidOut DEF ReaderInv
  <2>3. FopenMode({"read"}) = "r"
    BY DEF FopenMode
  <2>4. disk' = disk
    BY <1>1, <2>3 DEF OpenText, DiskOpened
  <2>5. disk[IniFile] = file /\ disk'[IniFile] = file
    BY <1>4, <2>2, <2>4 DEF ReaderInv
  <2>6. file \in Seq(Ascii) /\ Len(file) > 1
    <3>1. file \in Seq(Ascii) /\ Len(file) \in Nat /\ EndAt(n) = Len(file)
      BY <2>2, LenProperties DEF LaidOut
    <3>2. EndAt(n - 1) \in Nat /\ EndAt(n) = EndAt(n - 1) + Len(Chars(written[n])) + 0
      <4>1. n \in 1..n /\ n - 1 \in 0..n
        BY <2>2
      <4> QED BY <2>2, <4>1 DEF LaidOut
    <3>3. Len(Chars(written[n])) > 2
      BY <1>4, <2>1 DEF WellFormed, Last
    <3>4. Len(Chars(written[n])) \in Nat
      <4>1. Taken(written[n])
        BY <2>2 DEF LaidOut
      <4> QED BY <4>1 DEF Taken
    <3> QED BY <3>1, <3>2, <3>3, <3>4
  <2>7. fh' = At(IniFile, 0) /\ ftype' = "ascii"
    <3>1. ~HasHeader(disk'[IniFile])
      BY <2>5, <2>6, NoHeader
    <3>2. Len(disk'[IniFile]) > 1
      BY <2>5, <2>6
    <3> QED BY <1>1, <3>1, <3>2 DEF OpenText
  <2>8. fh'.pos = 0 /\ fh'.eof = FALSE /\ fh' \in [name : {IniFile}, pos : Nat, eof : BOOLEAN]
          /\ fh'.name = IniFile
    BY <2>7 DEF At
  <2>9. ReadsFile'
    BY <1>2, <2>2, <2>5, <2>7, <2>8 DEF ReadsFile, Bytes, FileOf
  <2>10. EndAt(0)' = EndAt(0)
    BY <1>2 DEF EndAt, EndOf, FileParts, LinePart
  <2>11. EndAt(0) = 0
    BY <2>2 DEF LaidOut
  <2>12. StandsAfter(0, Len(written))'
    BY <2>8, <2>10, <2>11 DEF StandsAfter
  <2>13. UpTo(currentSection', entries', 0)
    BY <1>2, NoneTaken
  <2> QED BY <2>2, <2>5, <2>9, <2>12, <2>13
<1>5. UpTo(currentSection, entries, 0)' = UpTo(currentSection', entries', 0)
  BY <1>2, UpToThen
<1>6. FileOf(written, ended)' = FileOf(written, ended) /\ Len(written) \in Nat
  BY <1>2, LenProperties DEF ReaderInv
<1>7. 0 \in 0..Len(written)
  BY <1>6
<1> QED BY <1>2, <1>3, <1>4, <1>5, <1>6, <1>7 DEF ReaderInv

\* ReadLine reads one line further, or the newline that did not fit, or that nothing is left.
LEMMA ReadGoesOn ==
  ASSUME ReaderInv, ReadLine
  PROVE  ReaderInv'
<1>1. /\ reading = "yes" /\ reading' = "yes" /\ ~fh.eof /\ fh' = AfterLine
      /\ written' = written /\ ended' = ended /\ disk' = disk /\ ftype' = ftype
      /\ currentSection' = SectionThen(TheLine) /\ entries' = EntriesThen(TheLine)
  <2>1. currentSection' = SectionThen(TheLine) /\ entries' = EntriesThen(TheLine)
    <3>1. PICK chars : chars = TheLine
      OBVIOUS
    <3>2. CASE Skipped(chars)
      BY <3>1, <3>2 DEF ReadLine, SectionThen, EntriesThen
    <3>3. CASE ~Skipped(chars) /\ Head(Unled(chars)) = Open
      BY <3>1, <3>3 DEF ReadLine, SectionThen, EntriesThen
    <3>4. CASE ~Skipped(chars) /\ Head(Unled(chars)) # Open
      BY <3>1, <3>4 DEF ReadLine, SectionThen, EntriesThen
    <3> QED BY <3>2, <3>3, <3>4
  <2> QED BY <2>1 DEF ReadLine
<1>2. WellFormed' = WellFormed
  BY <1>1 DEF WellFormed
<1>3. ASSUME WellFormed
      PROVE  /\ ReadsFile'
             /\ \E k \in 0..Len(written) : StandsAfter(k, Len(written))'
                     /\ UpTo(currentSection', entries', k)
  <2>1. PICK n \in Nat : n = Len(written)
    BY LenProperties DEF ReaderInv
  <2>2. PICK file : file = FileOf(written, ended) /\ n >= 1 /\ LaidOut(file, n)
    BY <1>3, <2>1, FileLaidOut DEF ReaderInv
  <2>3. ReadsFile /\ fh.pos \in Nat
    BY <1>1, <1>3 DEF ReaderInv, ReadsFile
  <2>4. PICK k \in 0..n : StandsAfter(k, n) /\ UpTo(currentSection, entries, k)
    BY <1>1, <1>3, <2>1 DEF ReaderInv
  <2>5. PICK chars, j : NextRead(file, chars, k, j, n)
    BY <2>2, <2>3, <2>4, SomethingNext
  <2>6. /\ TheLine = chars
        /\ AfterLine \in [name : {IniFile}, pos : Nat, eof : BOOLEAN]
        /\ AfterLine.pos = StopAt(chars, fh.pos, Len(file))
        /\ j < n => ~AfterLine.eof
    BY <1>1, <2>2, <2>3, <2>5, NextLine
  <2>7. j \in 0..n /\ ((j = k /\ chars = <<>>) \/ (j = k + 1 /\ chars = Chars(written[j])))
    BY <2>5 DEF NextRead
  <2>8. UpTo(currentSection', entries', j)
    <3>1. CASE j = k /\ chars = <<>>
      <4>1. currentSection' = currentSection /\ entries' = entries
        BY <1>1, <2>6, <3>1, NothingTaken DEF SectionThen, EntriesThen
      <4> QED BY <2>4, <3>1, <4>1
    <3>2. CASE j = k + 1 /\ chars = Chars(written[j])
      <4>1. j \in 1..n /\ k \in Nat /\ j = k + 1
        BY <2>7, <3>2
      <4>2. Taken(written[j])
        BY <2>2, <4>1 DEF LaidOut
      <4>3. UpTo(SectionThen(chars), EntriesThen(chars), j)
        BY <2>4, <3>2, <4>1, <4>2, LineDone
      <4> QED BY <1>1, <2>6, <4>3
    <3> QED BY <2>7, <3>1, <3>2
  <2>9. EndAt(j)' = EndAt(j)
    BY <1>1 DEF EndAt, EndOf, FileParts, LinePart
  <2>10. PICK after : after = AfterLine /\ fh' = after
    BY <1>1
  <2>11. StandsAfter(j, n)'
    <3>1. CASE j < n
      <4>1. ~after.eof
        BY <2>6, <2>10, <3>1
      <4>2. after.pos = EndAt(j) \/ (j >= 1 /\ after.pos = EndAt(j) - 1)
        BY <2>5, <2>6, <2>10, <3>1 DEF NextRead
      <4>3. j >= 1 => j \in 1..(n - 1)
        BY <2>7, <3>1
      <4> QED BY <2>9, <2>10, <4>1, <4>2, <4>3 DEF StandsAfter
    <3>2. CASE ~(j < n)
      <4>1. j = n
        BY <2>7, <3>2
      <4>2. after.pos = EndAt(j)
        BY <2>5, <2>6, <2>10, <4>1 DEF NextRead
      <4> QED BY <2>9, <2>10, <4>1, <4>2 DEF StandsAfter
    <3> QED BY <3>1, <3>2
  <2>12. ReadsFile'
    <3>1. fh'.name = fh.name /\ disk' = disk
      BY <1>1, <2>3, <2>6 DEF ReadsFile
    <3>2. Bytes' = Bytes
      BY <3>1 DEF Bytes
    <3>3. FileOf(written, ended)' = FileOf(written, ended)
      BY <1>1
    <3> QED BY <1>1, <2>3, <2>6, <3>2, <3>3 DEF ReadsFile
  <2>13. StandsAfter(j, Len(written))'
    <3>1. Len(written)' = n
      BY <1>1, <2>1
    <3> QED BY <2>11, <3>1 DEF StandsAfter
  <2> QED BY <2>1, <2>7, <2>8, <2>12, <2>13
<1>4. \A k : UpTo(currentSection, entries, k)' = UpTo(currentSection', entries', k)
  BY <1>1, UpToThen
<1>5. FileOf(written, ended)' = FileOf(written, ended) /\ Len(written)' = Len(written)
  BY <1>1
<1> QED BY <1>1, <1>2, <1>3, <1>4, <1>5 DEF ReaderInv

\* When nothing is left, all is read.
LEMMA ReadStops ==
  ASSUME ReaderInv, ReadEnds
  PROVE  ReaderInv'
<1>1. /\ reading = "yes" /\ reading' = "done" /\ (fh.eof \/ Dropped)
      /\ UNCHANGED <<written, ended, currentSection, entries, disk>>
  BY DEF ReadEnds
<1>2. WellFormed' = WellFormed
  BY <1>1 DEF WellFormed
<1>3. ASSUME WellFormed PROVE UpTo(currentSection, entries, Len(written))
  <2>1. PICK n \in Nat : n = Len(written)
    BY LenProperties DEF ReaderInv
  <2>2. PICK file : file = FileOf(written, ended) /\ n >= 1 /\ LaidOut(file, n)
    BY <1>3, <2>1, FileLaidOut DEF ReaderInv
  <2>3. ReadsFile /\ fh.pos \in Nat
    BY <1>1, <1>3 DEF ReaderInv, ReadsFile
  <2>4. PICK k \in 0..n : StandsAfter(k, n) /\ UpTo(currentSection, entries, k)
    BY <1>1, <1>3, <2>1 DEF ReaderInv
  <2>5. fh.eof
    <3>1. PICK chars, j : NextRead(file, chars, k, j, n)
      BY <2>2, <2>3, <2>4, SomethingNext
    <3>2. ~fh.eof => ~Dropped
      BY <2>2, <2>3, <3>1, NextLine
    <3> QED BY <1>1, <3>2
  <2>6. k = n
    BY <2>4, <2>5 DEF StandsAfter
  <2> QED BY <2>1, <2>4, <2>6
<1>4. UpTo(currentSection, entries, Len(written))' = UpTo(currentSection, entries, Len(written))
  BY <1>1 DEF UpTo, TakenFrom, EntryOf, SectionAt
<1>5. FileOf(written, ended)' = FileOf(written, ended)
  BY <1>1
<1> QED BY <1>1, <1>2, <1>3, <1>4, <1>5 DEF ReaderInv

\* Nothing happens.
LEMMA ReadWaits ==
  ASSUME ReaderInv, UNCHANGED <<fileVars, iniVars>>
  PROVE  ReaderInv'
<1>1. UNCHANGED <<written, ended, currentSection, entries, reading, disk, fh, ftype>>
  BY DEF fileVars, iniVars
<1>2. WellFormed' = WellFormed
  BY <1>1 DEF WellFormed
<1>3. FileOf(written, ended)' = FileOf(written, ended) /\ Len(written)' = Len(written)
  BY <1>1
<1>4. \A k : UpTo(currentSection, entries, k)' = UpTo(currentSection, entries, k)
  BY <1>1 DEF UpTo, TakenFrom, EntryOf, SectionAt
<1>5. \A k, n : StandsAfter(k, n)' = StandsAfter(k, n)
  BY <1>1 DEF StandsAfter, EndAt, EndOf, FileParts, LinePart
<1>6. ReadsFile' = ReadsFile
  BY <1>1, <1>3 DEF ReadsFile, Bytes
<1> QED BY <1>1, <1>2, <1>3, <1>4, <1>5, <1>6 DEF ReaderInv

\* A configuration as the servers have them says to whoever asks what is written in it, in
\* whichever section and however the value is quoted and spaced (CTitanIniReader.hpp:44).
THEOREM ConfigurationIsRead ==
  FileInit /\ IniInit /\ [][IniNext]_<<fileVars, iniVars>> => []FindsWhatIsSaid
<1>1. FileInit /\ IniInit => ReaderInv
  <2> SUFFICES ASSUME FileInit, IniInit PROVE ReaderInv
    OBVIOUS
  <2>1. IniFile \in Names
    BY NamesThere DEF IniFile
  <2>2. PICK n \in 0..MaxLines : written \in [1..n -> Lines]
    BY DEF IniInit
  <2>3. written \in Seq(Lines)
    BY <2>2, SeqDef, LinesAre
  <2>4. disk[IniFile] = FileOf(written, ended)
    BY <2>1 DEF IniInit
  <2> QED BY <2>1, <2>3, <2>4 DEF FileInit, IniInit, ReaderInv
<1>2. ReaderInv /\ [IniNext]_<<fileVars, iniVars>> => ReaderInv'
  BY ReadStarts, ReadGoesOn, ReadStops, ReadWaits DEF IniNext
<1>3. ReaderInv => FindsWhatIsSaid
  <2> SUFFICES ASSUME ReaderInv, reading = "done", WellFormed, NEW i \in DOMAIN written,
          NEW j \in DOMAIN written
               PROVE  /\ GetString(SectionAt(j), written[i].name) = Said(SectionAt(j), written[i].name)
                      /\ SectionAt(j) # NoSection =>
                           GetInt(SectionAt(j), written[i].name) = Said(SectionAt(j), written[i].name)
    BY DEF FindsWhatIsSaid
  <2>1. PICK n \in Nat : n = Len(written) /\ DOMAIN written = 1..n
    BY LenProperties DEF ReaderInv
  <2>2. UpTo(currentSection, entries, n)
    BY <2>1 DEF ReaderInv
  <2>3. GetString(SectionAt(j), written[i].name) = Said(SectionAt(j), written[i].name)
    BY <2>1, <2>2, AllIsFound
  <2> QED BY <2>3 DEF GetInt
<1> QED BY <1>1, <1>2, <1>3, PTL
==============================================================================
