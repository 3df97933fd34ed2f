------------------------- MODULE CharServerProofs -------------------------
(***************************************************************************)
(* Proof that the limit of characters holds up to one more for every        *)
(* further thread (CharLimit), for any numbers of accounts, clients,        *)
(* threads and names; of the types; and, of a server with one thread, that   *)
(* it replies and saves what belongs to the account that asks (CreatedTold,  *)
(* SavesToOwner).                                                           *)
(*                                                                         *)
(* CharLimit is not inductive: what it leaves out is how many inserts are   *)
(* still to come.  A worker is Committed from the moment the number it has  *)
(* read does not stop it.  CharInv bounds the characters of an account      *)
(* together with the workers committed to make one more: only a count made  *)
(* when there was room adds to them, and then even every thread together    *)
(* keeps the bound; an insert moves one from one term to the other.         *)
(*                                                                         *)
(* The last part follows names.  A client saves by the name of the character *)
(* it plays, and plays one whose name it has read in the rows of its own     *)
(* account (ClientOwned, TaskOwned).  With one thread no name is taken       *)
(* between the look and the insert, so no two accounts share one (OneOwner). *)
(***************************************************************************)
EXTENDS CharServer, FiniteSetTheorems, FunctionTheorems, TLAPS

Committed(t) == \/ t.at \in {"name", "taken", "insert"}
                \/ t.at = "count" /\ t.num < MaxChars

Pending(u) == {w \in Workers : Committed(task[w]) /\ client[task[w].s].user = u}

\* A worker that is busy serves a session of its own.
TaskOK(w) == /\ task[w] # Idle => task[w].s \in Sessions /\ thread[task[w].s] = w
             /\ task[w].at = "count" => task[w].num \in Nat

Shape == /\ IsFiniteSet(characters)
         /\ thread \in [Sessions -> Workers]
         /\ task = [w \in Workers |-> task[w]]
         /\ client = [s \in Sessions |-> client[s]]
         /\ \A w \in Workers : TaskOK(w)

Room(u) == Cardinality(CharsOf(u)) + Cardinality(Pending(u))
             < MaxChars + Cardinality(Threads)
CharInv == Shape /\ \A u \in Users : Room(u)
-----------------------------------------------------------------------------
(* Sets of characters                                                       *)

LEMMA CharsFinite ==
  ASSUME IsFiniteSet(characters), NEW u
  PROVE  IsFiniteSet(CharsOf(u)) /\ Cardinality(CharsOf(u)) \in Nat
  <1>1. CharsOf(u) \in SUBSET characters
    BY DEF CharsOf
  <1>2. IsFiniteSet(CharsOf(u))
    BY <1>1, FS_Subset
  <1> QED BY <1>2, FS_CardinalityType

LEMMA PendingFinite ==
  ASSUME NEW u
  PROVE  IsFiniteSet(Pending(u)) /\ Cardinality(Pending(u)) \in Nat
  <1>1. Pending(u) \in SUBSET Workers
    BY DEF Pending
  <1>2. IsFiniteSet(Pending(u))
    BY <1>1, WorkersFinite, FS_Subset
  <1> QED BY <1>2, FS_CardinalityType

LEMMA ThreadsFinite ==
  ASSUME Shape
  PROVE  IsFiniteSet(Threads) /\ Cardinality(Threads) \in Nat
  <1>1. Threads \in SUBSET Workers
    BY DEF Threads, Shape
  <1>2. IsFiniteSet(Threads)
    BY <1>1, WorkersFinite, FS_Subset
  <1> QED BY <1>2, FS_CardinalityType

\* The image of a finite set under a function is finite and no larger.
LEMMA ImageNoLarger ==
  ASSUME NEW S, IsFiniteSet(S), NEW f, f = [x \in S |-> f[x]]
  PROVE  /\ IsFiniteSet({f[x] : x \in S})
         /\ Cardinality({f[x] : x \in S}) <= Cardinality(S)
  <1> DEFINE T == {f[x] : x \in S}
  <1>1. f \in [S -> T]
    OBVIOUS
  <1>2. \A y \in T : \E x \in S : f[x] = y
    OBVIOUS
  <1>3. f \in Surjection(S, T)
    BY <1>1, <1>2, Fun_IsSurj
  <1> HIDE DEF T
  <1>4. IsFiniteSet(T) /\ Cardinality(T) <= Cardinality(S)
    BY <1>3, FS_Surjection
  <1> QED BY <1>4 DEF T

\* A state in which no term of Room grows has room if the last one had.
LEMMA RoomKept ==
  ASSUME Shape, Shape', NEW u, Room(u), Threads' = Threads,
         Cardinality(CharsOf(u))' <= Cardinality(CharsOf(u)),
         Pending(u)' \subseteq Pending(u)
  PROVE  Room(u)'
  <1>1. Cardinality(Pending(u)') <= Cardinality(Pending(u))
    <2>1. Pending(u)' \in SUBSET Pending(u)
      OBVIOUS
    <2> QED BY <2>1, PendingFinite, FS_Subset
  <1>2. /\ Cardinality(CharsOf(u)) \in Nat /\ Cardinality(Pending(u)) \in Nat
        /\ Cardinality(Threads) \in Nat
    BY CharsFinite, PendingFinite, ThreadsFinite DEF Shape
  <1>3. IsFiniteSet(characters')
    BY DEF Shape
  <1>4. IsFiniteSet(CharsOf(u)') /\ Cardinality(CharsOf(u)') \in Nat
    <2>1. CharsOf(u)' \in SUBSET characters'
      BY DEF CharsOf
    <2>2. IsFiniteSet(CharsOf(u)')
      BY <1>3, <2>1, FS_Subset
    <2> QED BY <2>2, FS_CardinalityType
  <1>5. IsFiniteSet(Pending(u)') /\ Cardinality(Pending(u)') \in Nat
    <2>1. Pending(u)' \in SUBSET Workers
      BY DEF Pending
    <2>2. IsFiniteSet(Pending(u)')
      BY <2>1, WorkersFinite, FS_Subset
    <2> QED BY <2>2, FS_CardinalityType
  <1> QED BY <1>1, <1>2, <1>4, <1>5, MaxCharsPos DEF Room
-----------------------------------------------------------------------------
(* One step of one worker                                                   *)

\* Worker w's handler of session s's packet goes on to t; of the clients only
\* s's changes.
Handles(w, s, t) ==
  /\ thread[s] = w /\ thread' = thread
  /\ task' = [task EXCEPT ![w] = t]
  /\ t = Idle \/ t.s = s
  /\ t.at = "count" => t.num \in Nat
  /\ client' = [v \in Sessions |-> client'[v]]
  /\ \A v \in Sessions \ {s} : client'[v] = client[v]

LEMMA HandlesShape ==
  ASSUME Shape, NEW w \in Workers, NEW s \in Sessions, NEW t, Handles(w, s, t),
         IsFiniteSet(characters')
  PROVE  /\ Shape' /\ Threads' = Threads
         /\ \A u : Pending(u)' \subseteq Pending(u) \cup {w}
         /\ \A u : w \in Pending(u)' <=> Committed(t) /\ client'[t.s].user = u
  <1>1. task' = [v \in Workers |-> task'[v]]
    BY DEF Handles, Shape
  <1>2. task'[w] = t /\ \A v \in Workers \ {w} : task'[v] = task[v]
    BY DEF Handles, Shape
  <1>4. \A v \in Workers : TaskOK(v)'
    BY <1>2 DEF Handles, Shape, TaskOK
  <1>5. \A v \in Workers \ {w} : task[v] # Idle => client'[task[v].s] = client[task[v].s]
    BY DEF Handles, Shape, TaskOK
  <1>6. ~Committed(Idle)
    BY DEF Committed, Idle
  <1>7. ASSUME NEW u PROVE Pending(u)' \subseteq Pending(u) \cup {w}
    <2> SUFFICES ASSUME NEW v \in Pending(u)', v # w PROVE v \in Pending(u)
      OBVIOUS
    <2>1. v \in Workers /\ Committed(task'[v]) /\ client'[task'[v].s].user = u
      BY DEF Pending, Committed
    <2>2. task'[v] = task[v] /\ task[v] # Idle
      BY <1>2, <1>6, <2>1
    <2> QED BY <1>5, <2>1, <2>2 DEF Pending
  <1>8. ASSUME NEW u PROVE w \in Pending(u)' <=> Committed(t) /\ client'[t.s].user = u
    BY <1>2 DEF Pending, Committed
  <1>9. Shape'
    BY <1>1, <1>4 DEF Handles, Shape
  <1>10. Threads' = Threads
    BY DEF Threads, Handles
  <1> QED BY <1>7, <1>8, <1>9, <1>10

\* A step that makes no character and commits nobody keeps the invariant.
LEMMA HandlesKeeps ==
  ASSUME CharInv, NEW w \in Workers, NEW s \in Sessions, NEW t, Handles(w, s, t),
         IsFiniteSet(characters'),
         \A u \in Users : Cardinality(CharsOf(u))' <= Cardinality(CharsOf(u)),
         \/ ~Committed(t)
         \/ /\ Committed(task[w]) /\ task[w].s = t.s
            /\ client' = client
  PROVE  CharInv'
  <1>1. Shape' /\ Threads' = Threads
    BY HandlesShape DEF CharInv
  <1>2. ASSUME NEW u \in Users PROVE Pending(u)' \subseteq Pending(u)
    <2>1. Pending(u)' \subseteq Pending(u) \cup {w}
      BY HandlesShape DEF CharInv
    <2>2. w \in Pending(u)' => w \in Pending(u)
      <3>1. w \in Pending(u)' <=> Committed(t) /\ client'[t.s].user = u
        BY HandlesShape DEF CharInv
      <3> QED BY <3>1 DEF Pending
    <2> QED BY <2>1, <2>2
  <1>3. ASSUME NEW u \in Users PROVE Room(u)'
    <2>1. Shape /\ Room(u)
      BY DEF CharInv
    <2>2. Cardinality(CharsOf(u))' <= Cardinality(CharsOf(u))
      OBVIOUS
    <2> QED BY <1>1, <1>2, <2>1, <2>2, RoomKept
  <1> QED BY <1>1, <1>3 DEF CharInv

LEMMA SameTable ==
  ASSUME CharInv, characters' = characters
  PROVE  /\ IsFiniteSet(characters')
         /\ \A u \in Users : Cardinality(CharsOf(u))' <= Cardinality(CharsOf(u))
  <1>1. IsFiniteSet(characters')
    BY DEF CharInv, Shape
  <1>2. \A u \in Users : Cardinality(CharsOf(u))' <= Cardinality(CharsOf(u))
    <2> SUFFICES ASSUME NEW u \in Users
                 PROVE  Cardinality(CharsOf(u))' <= Cardinality(CharsOf(u))
      OBVIOUS
    <2>1. CharsOf(u)' = CharsOf(u)
      BY DEF CharsOf
    <2>2. Cardinality(CharsOf(u)) \in Nat
      BY CharsFinite DEF CharInv, Shape
    <2> QED BY <2>1, <2>2
  <1> QED BY <1>1, <1>2

\* A step that leaves the table alone.
LEMMA PlainKeeps ==
  ASSUME CharInv, NEW w \in Workers, NEW s \in Sessions, NEW t, Handles(w, s, t),
         characters' = characters,
         \/ ~Committed(t)
         \/ /\ Committed(task[w]) /\ task[w].s = t.s
            /\ client' = client
  PROVE  CharInv'
  BY SameTable, HandlesKeeps
-----------------------------------------------------------------------------
(* The steps                                                                *)

\* The step of a worker that is at some place of a handler.
LEMMA AtHandles ==
  ASSUME CharInv, NEW w \in Workers, task[w] # Idle, NEW t, Goto(w, t), thread' = thread,
         client' = client, t = Idle \/ t.s = task[w].s,
         t.at = "count" => t.num \in Nat
  PROVE  task[w].s \in Sessions /\ Handles(w, task[w].s, t)
  <1>1. Shape /\ TaskOK(w)
    BY DEF CharInv, Shape
  <1>2. task[w].s \in Sessions /\ thread[task[w].s] = w
    BY <1>1 DEF TaskOK
  <1>3. client' = [v \in Sessions |-> client'[v]]
    BY <1>1, <1>2 DEF Shape
  <1> QED BY <1>2, <1>3 DEF Handles, Goto

\* A step that begins a handler, or is the whole of one.
LEMMA ServesHandles ==
  ASSUME CharInv, NEW w \in Workers, NEW s \in Sessions, Serves(w, s), NEW t,
         task' = [task EXCEPT ![w] = t], thread' = thread,
         client' = [client EXCEPT ![s] = client'[s]],
         t = Idle \/ t.s = s, t.at = "count" => t.num \in Nat
  PROVE  Handles(w, s, t)
  BY DEF CharInv, Shape, Serves, Handles

LEMMA WaitsKeeps ==
  ASSUME CharInv, NEW w \in Workers, NEW s \in Sessions, Serves(w, s), task' = task,
         thread' = thread, IsFiniteSet(characters'),
         client' = [client EXCEPT ![s] = client'[s]],
         \A u \in Users : Cardinality(CharsOf(u))' <= Cardinality(CharsOf(u))
  PROVE  CharInv'
  <1>1. task' = [task EXCEPT ![w] = Idle]
    BY DEF CharInv, Shape, Serves, Free
  <1>2. ~Committed(Idle) /\ Idle.at # "count"
    BY DEF Committed, Idle
  <1>3. Handles(w, s, Idle)
    BY <1>1, <1>2, ServesHandles
  <1> QED BY <1>2, <1>3, HandlesKeeps

\* The step of a worker that goes on to a place where it is not committed.
LEMMA GoesOn ==
  ASSUME CharInv, NEW w \in Workers, task[w] # Idle, NEW t, Goto(w, t),
         thread' = thread, characters' = characters,
         client' = [client EXCEPT ![task[w].s] = client'[task[w].s]],
         t = Idle \/ t.s = task[w].s,
         t.at \notin {"count", "name", "taken", "insert"}
  PROVE  CharInv'
  <1>1. Shape /\ TaskOK(w)
    BY DEF CharInv, Shape
  <1>2. task[w].s \in Sessions /\ thread[task[w].s] = w
    BY <1>1 DEF TaskOK
  <1>3. Handles(w, task[w].s, t)
    BY <1>1, <1>2 DEF Shape, Handles, Goto
  <1>4. ~Committed(t)
    BY DEF Committed
  <1> QED BY <1>2, <1>3, <1>4, PlainKeeps

\* The same for a step that begins a handler.
LEMMA Begins ==
  ASSUME CharInv, NEW w \in Workers, NEW s \in Sessions, Serves(w, s), NEW t, Goto(w, t),
         thread' = thread, characters' = characters,
         client' = [client EXCEPT ![s] = client'[s]], t.s = s,
         t.at \notin {"count", "name", "taken", "insert"}
  PROVE  CharInv'
  <1>1. Handles(w, s, t)
    BY ServesHandles DEF Goto
  <1>2. ~Committed(t)
    BY DEF Committed
  <1> QED BY <1>1, <1>2, PlainKeeps

LEMMA IdleIsPlain == Idle.at \notin {"count", "name", "taken", "insert"} /\ Idle.at = "idle"
  BY DEF Idle

LEMMA Unedited == CharInv /\ client' = client
                    => \A s \in Sessions : client' = [client EXCEPT ![s] = client'[s]]
  BY DEF CharInv, Shape

LEMMA LoginKeeps ==
  ASSUME CharInv, NEW w \in Workers, Login(w)
  PROVE  CharInv'
  <1>1. ASSUME NEW s \in Sessions, RefuseZero(w, s) PROVE CharInv'
    <2>1. /\ Serves(w, s) /\ task' = task /\ thread' = thread /\ characters' = characters
          /\ client' = [client EXCEPT ![s] = client'[s]]
      BY <1>1 DEF RefuseZero, same, dbVars, CharInv, Shape
    <2> QED BY <2>1, SameTable, WaitsKeeps
  <1>2. ASSUME NEW s \in Sessions, NEW tk \in Tokens, AskUser(w, s, tk) PROVE CharInv'
    <2> DEFINE t == [at |-> "user", s |-> s, ok |-> Sent(conn),
                     rows |-> {u \in Users : loginid[u] = tk}]
    <2>1. /\ Serves(w, s) /\ Goto(w, t) /\ thread' = thread /\ characters' = characters
          /\ client' = [client EXCEPT ![s] = client'[s]]
      BY <1>2 DEF AskUser, Ask, same, dbVars, CharInv, Shape
    <2> QED BY <2>1, Begins
  <1>3. ASSUME CheckUser(w) PROVE CharInv'
    <2> DEFINE s == task[w].s
               on == [at |-> "load", s |-> s]
    <2>1. task[w] # Idle /\ thread' = thread /\ characters' = characters
      BY <1>3, IdleIsPlain DEF CheckUser, At, same, dbVars
    <2>2. s \in Sessions
      BY <2>1 DEF CharInv, Shape, TaskOK
    <2>3. client' = [client EXCEPT ![s] = client'[s]] /\ (Goto(w, Idle) \/ Goto(w, on))
      BY <1>3, <2>2 DEF CheckUser, Done, CharInv, Shape
    <2>4. CASE Goto(w, Idle)
      BY <2>1, <2>3, <2>4, IdleIsPlain, GoesOn
    <2>5. CASE Goto(w, on)
      BY <2>1, <2>3, <2>5, GoesOn
    <2> QED BY <2>3, <2>4, <2>5
  <1>4. ASSUME LoadCount(w) \/ StoreCount(w) \/ ReportCount(w) PROVE CharInv'
    <2>1. task[w] # Idle /\ thread' = thread /\ characters' = characters /\ client' = client
      BY <1>4, IdleIsPlain DEF LoadCount, StoreCount, ReportCount, At, same, dbVars
    <2>2. client' = [client EXCEPT ![task[w].s] = client'[task[w].s]]
      BY <2>1, Unedited DEF CharInv, Shape, TaskOK
    <2>3. CASE LoadCount(w)
      BY <2>1, <2>2, <2>3, GoesOn DEF LoadCount
    <2>4. CASE StoreCount(w)
      BY <2>1, <2>2, <2>4, GoesOn DEF StoreCount
    <2>5. CASE ReportCount(w)
      BY <2>1, <2>2, <2>5, GoesOn DEF ReportCount
    <2> QED BY <1>4, <2>3, <2>4, <2>5
  <1> QED BY <1>1, <1>2, <1>3, <1>4 DEF Login

LEMMA ListKeeps ==
  ASSUME CharInv, NEW w \in Workers, List(w)
  PROVE  CharInv'
  <1>1. ASSUME NEW s \in Sessions, PickChar(w, s) PROVE CharInv'
    <2>1. /\ Serves(w, s) /\ Goto(w, [at |-> "list", s |-> s]) /\ thread' = thread
          /\ characters' = characters /\ client' = client
      BY <1>1 DEF PickChar, SignedIn, same, dbVars
    <2> QED BY <2>1, Unedited, Begins
  <1>2. ASSUME AskList(w) \/ SendCharList(w) PROVE CharInv'
    <2>1. task[w] # Idle /\ thread' = thread /\ characters' = characters /\ client' = client
      BY <1>2, IdleIsPlain DEF AskList, SendCharList, At, same, dbVars
    <2>2. client' = [client EXCEPT ![task[w].s] = client'[task[w].s]]
      BY <2>1, Unedited DEF CharInv, Shape, TaskOK
    <2>3. CASE AskList(w)
      BY <2>1, <2>2, <2>3, GoesOn DEF AskList, Ask
    <2>4. CASE SendCharList(w)
      BY <2>1, <2>2, <2>4, IdleIsPlain, GoesOn DEF SendCharList, Done
    <2> QED BY <1>2, <2>3, <2>4
  <1> QED BY <1>1, <1>2 DEF List

\* Who is committed serves a session.
LEMMA CommittedServe ==
  ASSUME Shape'
  PROVE  \A u : Pending(u)' \subseteq Threads'
  <1>1. \A v \in Workers : TaskOK(v)'
    BY DEF Shape
  <1>2. ASSUME NEW v \in Workers, Committed(task'[v]) PROVE v \in Threads'
    <2>1. task'[v] # Idle
      BY <1>2, IdleIsPlain DEF Committed
    <2> QED BY <1>1, <2>1 DEF TaskOK, Threads
  <1> QED BY <1>2 DEF Pending, Committed

\* A count that found room: all threads together may insert one each.
LEMMA AskCountKeeps ==
  ASSUME CharInv, NEW w \in Workers, NEW s \in Sessions, NEW n, NEW sl, AskCount(w, s, n, sl)
  PROVE  CharInv'
  <1> DEFINE num == Cardinality(CharsOf(client[s].user))
             t == [at |-> "count", s |-> s, name |-> n, slot |-> sl, ok |-> Sent(conn),
                   num |-> num]
  <1>1. /\ Serves(w, s) /\ Goto(w, t) /\ thread' = thread
        /\ characters' = characters /\ client' = client
    BY DEF AskCount, SignedIn, Ask, same, dbVars
  <1>2. num \in Nat /\ t.num = num /\ t.s = s /\ t.at = "count"
    BY CharsFinite DEF CharInv, Shape
  <1>3. Handles(w, s, t)
    BY <1>1, <1>2, Unedited, ServesHandles DEF Goto
  <1>4. CASE ~(num < MaxChars)
    <2>1. ~Committed(t)
      BY <1>2, <1>4 DEF Committed
    <2> QED BY <1>1, <1>3, <2>1, PlainKeeps
  <1>5. CASE num < MaxChars
    <2>1. Shape' /\ Threads' = Threads
      BY <1>1, <1>3, SameTable, HandlesShape DEF CharInv
    <2>2. ASSUME NEW u \in Users, u # client[s].user PROVE Room(u)'
      <3>1. Pending(u)' \subseteq Pending(u) \cup {w}
        BY <1>1, <1>3, SameTable, HandlesShape DEF CharInv
      <3>2. w \notin Pending(u)'
        BY <1>1, <1>2, <1>3, <2>2, SameTable, HandlesShape DEF CharInv
      <3>3. Cardinality(CharsOf(u))' <= Cardinality(CharsOf(u))
        BY <1>1, SameTable
      <3> QED BY <2>1, <3>1, <3>2, <3>3, RoomKept DEF CharInv
    <2>3. ASSUME NEW u \in Users, u = client[s].user PROVE Room(u)'
      <3>1. Pending(u)' \in SUBSET Threads
        BY <2>1, CommittedServe
      <3>2. IsFiniteSet(Threads) /\ Cardinality(Threads) \in Nat
        BY ThreadsFinite DEF CharInv
      <3>3. /\ Cardinality(Pending(u)') <= Cardinality(Threads)
            /\ Cardinality(Pending(u)') \in Nat
        BY <3>1, <3>2, FS_Subset, FS_CardinalityType
      <3>4. CharsOf(u)' = CharsOf(u)
        BY <1>1 DEF CharsOf
      <3>5. Cardinality(CharsOf(u)') < MaxChars /\ Cardinality(CharsOf(u)') \in Nat
        BY <1>2, <1>5, <2>3, <3>4
      <3> HIDE DEF num, t
      <3> QED BY <2>1, <3>2, <3>3, <3>5, MaxCharsPos DEF Room
    <2> QED BY <2>1, <2>2, <2>3 DEF CharInv
  <1> QED BY <1>4, <1>5

\* An insert: one more character, one worker less that is committed.
LEMMA InsertKeeps ==
  ASSUME CharInv, NEW w \in Workers, InsertChar(w)
  PROVE  CharInv'
  <1> DEFINE s == task[w].s
             u == client[s].user
             row == [id |-> lastId + 1, owner |-> u, name |-> task[w].name,
                     slot |-> task[w].slot, bars |-> None]
             t == [at |-> "created", s |-> s, name |-> task[w].name, slot |-> task[w].slot]
  <1>1. /\ task[w].at = "insert" /\ task[w] # Idle /\ Goto(w, t)
        /\ thread' = thread /\ client' = client
    BY IdleIsPlain DEF InsertChar, At, same
  <1>2. \/ characters' = characters
        \/ characters' = characters \cup {row}
    BY DEF InsertChar, Insert, dbVars
  <1>3. t.s = s /\ t.at = "created"
    OBVIOUS
  <1>4. s \in Sessions /\ Handles(w, s, t)
    BY <1>1, <1>3, AtHandles
  <1>5. ~Committed(t) /\ Committed(task[w])
    BY <1>1, <1>3 DEF Committed
  <1>6. CASE characters' = characters
    BY <1>4, <1>5, <1>6, PlainKeeps
  <1>7. CASE characters' = characters \cup {row}
    <2>1. IsFiniteSet(characters')
      BY <1>7, FS_AddElement DEF CharInv, Shape
    <2>2. Shape' /\ Threads' = Threads
      BY <1>4, <2>1, HandlesShape DEF CharInv
    <2>3. ASSUME NEW v \in Users PROVE Pending(v)' \subseteq Pending(v) \ {w}
      <3>1. Pending(v)' \subseteq Pending(v) \cup {w}
        BY <1>4, <2>1, HandlesShape DEF CharInv
      <3>2. w \notin Pending(v)'
        BY <1>4, <1>5, <2>1, HandlesShape DEF CharInv
      <3> QED BY <3>1, <3>2
    <2>4. ASSUME NEW v \in Users, v # u PROVE Room(v)'
      <3>1. CharsOf(v)' = CharsOf(v)
        BY <1>7, <2>4 DEF CharsOf
      <3>2. Cardinality(CharsOf(v)) \in Nat
        BY CharsFinite DEF CharInv, Shape
      <3>3. Cardinality(CharsOf(v))' <= Cardinality(CharsOf(v))
        BY <3>1, <3>2
      <3>4. Pending(v)' \subseteq Pending(v)
        BY <2>3
      <3> HIDE DEF u, row, t
      <3> QED BY <2>2, <3>3, <3>4, RoomKept DEF CharInv
    <2>5. ASSUME NEW v \in Users, v = u PROVE Room(v)'
      <3>1. CharsOf(v)' = CharsOf(v) \cup {row}
        BY <1>7, <2>5 DEF CharsOf
      <3>2. IsFiniteSet(CharsOf(v)) /\ Cardinality(CharsOf(v)) \in Nat
        BY CharsFinite DEF CharInv, Shape
      <3>3. /\ Cardinality(CharsOf(v)') <= Cardinality(CharsOf(v)) + 1
            /\ Cardinality(CharsOf(v)') \in Nat
        <4> HIDE DEF row, u, t
        <4>1. /\ IsFiniteSet(CharsOf(v) \cup {row})
              /\ Cardinality(CharsOf(v) \cup {row})
                   = IF row \in CharsOf(v) THEN Cardinality(CharsOf(v))
                                           ELSE Cardinality(CharsOf(v)) + 1
          BY <3>2, FS_AddElement
        <4>2. Cardinality(CharsOf(v) \cup {row}) <= Cardinality(CharsOf(v)) + 1
          BY <3>2, <4>1
        <4> QED BY <3>1, <4>1, <4>2, FS_CardinalityType
      <3>4. w \in Pending(v)
        BY <1>5, <2>5 DEF Pending
      <3>5. /\ IsFiniteSet(Pending(v)) /\ Cardinality(Pending(v)) \in Nat
        BY PendingFinite
      <3>6. /\ IsFiniteSet(Pending(v) \ {w})
            /\ Cardinality(Pending(v) \ {w}) = Cardinality(Pending(v)) - 1
        BY <3>4, <3>5, FS_RemoveElement
      <3>7. Pending(v)' \in SUBSET (Pending(v) \ {w})
        BY <2>3
      <3>8. /\ Cardinality(Pending(v)') <= Cardinality(Pending(v)) - 1
            /\ Cardinality(Pending(v)') \in Nat
        BY <3>6, <3>7, FS_Subset, FS_CardinalityType
      <3>9. Cardinality(Threads) \in Nat /\ Room(v)
        BY ThreadsFinite DEF CharInv
      <3> HIDE DEF u, t
      <3> QED BY <2>2, <3>2, <3>3, <3>5, <3>8, <3>9, MaxCharsPos DEF Room
    <2> QED BY <2>2, <2>4, <2>5 DEF CharInv
  <1> QED BY <1>2, <1>6, <1>7

LEMMA CreateKeeps ==
  ASSUME CharInv, NEW w \in Workers, Create(w)
  PROVE  CharInv'
  <1>1. ASSUME CheckCount(w) PROVE CharInv'
    <2> DEFINE t == [at |-> "name", s |-> task[w].s, name |-> task[w].name,
                     slot |-> task[w].slot]
    <2>1. /\ task[w].at = "count" /\ task[w] # Idle /\ thread' = thread
          /\ characters' = characters /\ client' = client
      BY <1>1, IdleIsPlain DEF CheckCount, At, same, dbVars
    <2>2. client' = [client EXCEPT ![task[w].s] = client'[task[w].s]]
      BY <2>1, Unedited DEF CharInv, Shape, TaskOK
    <2>3. \/ Goto(w, Idle)
          \/ Goto(w, t) /\ ~(task[w].num >= MaxChars)
      BY <1>1 DEF CheckCount, Crash, Done, Result
    <2>4. CASE Goto(w, Idle)
      BY <2>1, <2>2, <2>4, IdleIsPlain, GoesOn
    <2>5. CASE Goto(w, t) /\ ~(task[w].num >= MaxChars)
      <3>1. task[w].num \in Nat
        BY <2>1 DEF CharInv, Shape, TaskOK
      <3>2. Committed(task[w])
        BY <2>1, <2>5, <3>1, MaxCharsPos DEF Committed
      <3>3. task[w].s \in Sessions /\ Handles(w, task[w].s, t)
        BY <2>1, <2>5, AtHandles
      <3> QED BY <2>1, <3>2, <3>3, PlainKeeps
    <2> QED BY <2>3, <2>4, <2>5
  <1>2. ASSUME AskName(w) \/ CheckName(w) PROVE CharInv'
    <2> DEFINE ask == [at |-> "taken", s |-> task[w].s, name |-> task[w].name,
                       slot |-> task[w].slot, ok |-> Sent(conn),
                       num |-> Cardinality(Named(task[w].name))]
               go == [at |-> "insert", s |-> task[w].s, name |-> task[w].name,
                      slot |-> task[w].slot]
    <2>1. /\ task[w].at \in {"name", "taken"} /\ task[w] # Idle /\ thread' = thread
          /\ characters' = characters /\ client' = client
      BY <1>2, IdleIsPlain DEF AskName, CheckName, At, same, dbVars
    <2>2. client' = [client EXCEPT ![task[w].s] = client'[task[w].s]]
      BY <2>1, Unedited DEF CharInv, Shape, TaskOK
    <2>3. Goto(w, Idle) \/ Goto(w, ask) \/ Goto(w, go)
      BY <1>2 DEF AskName, CheckName, Ask, Crash, Done
    <2>4. CASE Goto(w, Idle)
      BY <2>1, <2>2, <2>4, IdleIsPlain, GoesOn
    <2>5. CASE Goto(w, ask)
      <3>1. task[w].s \in Sessions /\ Handles(w, task[w].s, ask)
        BY <2>1, <2>5, AtHandles
      <3>2. Committed(task[w])
        BY <2>1 DEF Committed
      <3> QED BY <2>1, <3>1, <3>2, PlainKeeps
    <2>6. CASE Goto(w, go)
      <3>1. task[w].s \in Sessions /\ Handles(w, task[w].s, go)
        BY <2>1, <2>6, AtHandles
      <3>2. Committed(task[w])
        BY <2>1 DEF Committed
      <3> QED BY <2>1, <3>1, <3>2, PlainKeeps
    <2> QED BY <2>3, <2>4, <2>5, <2>6
  <1>3. ASSUME SendCreated(w) PROVE CharInv'
    <2>1. /\ task[w] # Idle /\ thread' = thread /\ characters' = characters
          /\ client' = client /\ Goto(w, Idle)
      BY <1>3, IdleIsPlain DEF SendCreated, At, Done, same, dbVars
    <2>2. client' = [client EXCEPT ![task[w].s] = client'[task[w].s]]
      BY <2>1, Unedited DEF CharInv, Shape, TaskOK
    <2> QED BY <2>1, <2>2, IdleIsPlain, GoesOn
  <1> QED BY <1>1, <1>2, <1>3, AskCountKeeps, InsertKeeps DEF Create

LEMMA SelectKeeps ==
  ASSUME CharInv, NEW w \in Workers, Select(w)
  PROVE  CharInv'
  <1>1. ASSUME NEW s \in Sessions, NEW sl \in Slots, DeleteChar(w, s, sl) PROVE CharInv'
    <2>1. /\ Serves(w, s) /\ task' = task /\ thread' = thread /\ client' = client
          /\ characters' \subseteq characters
      BY <1>1 DEF DeleteChar, Delete, SignedIn, same, dbVars
    <2>2. IsFiniteSet(characters')
      BY <2>1, FS_Subset DEF CharInv, Shape
    <2>3. ASSUME NEW u \in Users
          PROVE  Cardinality(CharsOf(u))' <= Cardinality(CharsOf(u))
      <3>1. CharsOf(u)' \in SUBSET CharsOf(u)
        BY <2>1 DEF CharsOf
      <3> QED BY <3>1, CharsFinite, FS_Subset DEF CharInv, Shape
    <2> QED BY <2>1, <2>2, <2>3, Unedited, WaitsKeeps
  <1>2. ASSUME NEW s \in Sessions, NEW sl \in Slots, SelectChar(w, s, sl) PROVE CharInv'
    <2>1. /\ Serves(w, s) /\ Goto(w, [at |-> "select", s |-> s, slot |-> sl])
          /\ thread' = thread /\ characters' = characters /\ client' = client
      BY <1>2 DEF SelectChar, SignedIn, same, dbVars
    <2> QED BY <2>1, Unedited, Begins
  <1>3. ASSUME AskSlot(w) \/ Redirect(w) PROVE CharInv'
    <2>1. task[w] # Idle /\ thread' = thread /\ characters' = characters /\ client' = client
      BY <1>3, IdleIsPlain DEF AskSlot, Redirect, At, same, dbVars
    <2>2. client' = [client EXCEPT ![task[w].s] = client'[task[w].s]]
      BY <2>1, Unedited DEF CharInv, Shape, TaskOK
    <2>3. CASE AskSlot(w)
      BY <2>1, <2>2, <2>3, GoesOn DEF AskSlot, Ask
    <2>4. CASE Redirect(w)
      BY <2>1, <2>2, <2>4, IdleIsPlain, GoesOn DEF Redirect, Done, Crash
    <2> QED BY <1>3, <2>3, <2>4
  <1>4. ASSUME TakeSlot(w) PROVE CharInv'
    <2> DEFINE s == task[w].s
               on == [at |-> "redirect", s |-> s]
    <2>1. task[w] # Idle /\ thread' = thread /\ characters' = characters
      BY <1>4, IdleIsPlain DEF TakeSlot, At, same, dbVars
    <2>2. s \in Sessions
      BY <2>1 DEF CharInv, Shape, TaskOK
    <2>3. client' = [client EXCEPT ![s] = client'[s]] /\ (Goto(w, Idle) \/ Goto(w, on))
      BY <1>4, <2>2 DEF TakeSlot, Done, Crash, CharInv, Shape
    <2>4. CASE Goto(w, Idle)
      BY <2>1, <2>3, <2>4, IdleIsPlain, GoesOn
    <2>5. CASE Goto(w, on)
      BY <2>1, <2>3, <2>5, GoesOn
    <2> QED BY <2>3, <2>4, <2>5
  <1> QED BY <1>1, <1>2, <1>3, <1>4 DEF Select

LEMMA TalkKeeps ==
  ASSUME CharInv, NEW w \in Workers, Talk(w)
  PROVE  CharInv'
  <1>1. ASSUME NEW s \in Sessions, SaveQB(w, s) PROVE CharInv'
    <2>1. Serves(w, s) /\ task' = task /\ thread' = thread /\ client' = client
      BY <1>1 DEF SaveQB, SignedIn, same
    <2>2. CASE characters' = characters
      BY <2>1, <2>2, SameTable, Unedited, WaitsKeeps
    <2>3. CASE SaveBars(client[s].user, client[s].name)
      <3> DEFINE edit == [r \in characters |->
                            IF r.name = client[s].name
                              THEN [r EXCEPT !.bars = client[s].user] ELSE r]
      <3>1. characters' = {edit[r] : r \in characters}
        BY <2>3 DEF SaveBars
      <3>2. \A r \in characters : edit[r].owner = r.owner
        OBVIOUS
      <3>3. IsFiniteSet(characters) /\ edit = [r \in characters |-> edit[r]]
        BY DEF CharInv, Shape
      <3> HIDE DEF edit
      <3>4. IsFiniteSet(characters')
        BY <3>1, <3>3, ImageNoLarger
      <3>5. ASSUME NEW u \in Users
            PROVE  Cardinality(CharsOf(u))' <= Cardinality(CharsOf(u))
        <4> DEFINE f == [r \in CharsOf(u) |-> edit[r]]
        <4>1. CharsOf(u)' = {f[r] : r \in CharsOf(u)}
          BY <3>1, <3>2 DEF CharsOf
        <4>2. f = [r \in CharsOf(u) |-> f[r]] /\ IsFiniteSet(CharsOf(u))
          BY <3>3, CharsFinite
        <4> HIDE DEF f
        <4> QED BY <4>1, <4>2, ImageNoLarger
      <3> QED BY <2>1, <3>4, <3>5, Unedited, WaitsKeeps
    <2> QED BY <1>1, <2>2, <2>3 DEF SaveQB, dbVars
  <1>2. ASSUME NEW s \in Sessions, AskQB(w, s) PROVE CharInv'
    <2> DEFINE t == [at |-> "bars", s |-> s, ok |-> Sent(conn),
                     rows |-> {r.bars : r \in Named(client[s].name)}]
    <2>1. /\ Serves(w, s) /\ Goto(w, t) /\ thread' = thread
          /\ characters' = characters /\ client' = client
      BY <1>2 DEF AskQB, Ask, SignedIn, same, dbVars
    <2> QED BY <2>1, Unedited, Begins
  <1>3. ASSUME SendQB(w) PROVE CharInv'
    <2>1. /\ task[w] # Idle /\ thread' = thread /\ characters' = characters
          /\ client' = client /\ Goto(w, Idle)
      BY <1>3, IdleIsPlain DEF SendQB, At, Crash, Done, same, dbVars
    <2>2. client' = [client EXCEPT ![task[w].s] = client'[task[w].s]]
      BY <2>1, Unedited DEF CharInv, Shape, TaskOK
    <2> QED BY <2>1, <2>2, IdleIsPlain, GoesOn
  <1>4. ASSUME NEW s \in Sessions, NEW n \in Names, Whisper(w, s, n) PROVE CharInv'
    <2>1. /\ Serves(w, s) /\ task' = task /\ thread' = thread /\ client' = client
          /\ characters' = characters
      BY <1>4 DEF Whisper, SignedIn, same, dbVars
    <2> QED BY <2>1, SameTable, Unedited, WaitsKeeps
  <1> QED BY <1>1, <1>2, <1>3, <1>4 DEF Talk

\* Clients and game servers come and go.
LEMMA OthersKeep ==
  ASSUME CharInv,
         \/ \E s \in Sessions : Connect(s) \/ Disconnect(s)
         \/ \E g \in Games : GameServerComes(g) \/ GameServerGoes(g)
         \/ UNCHANGED vars
  PROVE  CharInv'
  <1>1. ASSUME NEW s \in Sessions, Connect(s) \/ Disconnect(s) PROVE CharInv'
    <2>1. /\ ListFree /\ task' = task /\ thread' = thread /\ characters' = characters
          /\ client' = [client EXCEPT ![s] = client'[s]]
      BY <1>1 DEF Connect, Disconnect, same, dbVars, CharInv, Shape
    <2>2. thread[s] \in Workers /\ task[thread[s]] = Idle
      BY <2>1 DEF ListFree, CharInv, Shape
    <2>3. task' = [task EXCEPT ![thread[s]] = Idle]
      BY <2>1, <2>2 DEF CharInv, Shape
    <2>4. Handles(thread[s], s, Idle)
      BY <2>1, <2>2, <2>3, IdleIsPlain DEF Handles, CharInv, Shape
    <2>5. ~Committed(Idle)
      BY IdleIsPlain DEF Committed
    <2> QED BY <2>1, <2>2, <2>4, <2>5, PlainKeeps
  <1>2. ASSUME \/ \E g \in Games : GameServerComes(g) \/ GameServerGoes(g)
               \/ UNCHANGED vars
        PROVE  CharInv'
    <2>1. /\ task' = task /\ thread' = thread /\ characters' = characters
          /\ client' = client
      BY <1>2 DEF GameServerComes, GameServerGoes, dbVars, vars, charVars
    <2>2. Shape'
      BY <2>1 DEF CharInv, Shape, TaskOK
    <2>3. /\ Threads' = Threads
          /\ \A u : CharsOf(u)' = CharsOf(u) /\ Pending(u)' = Pending(u)
      BY <2>1 DEF Threads, CharsOf, Pending, Committed
    <2> QED BY <2>2, <2>3 DEF CharInv, Room
  <1> QED BY <1>1, <1>2

LEMMA CharStep == CharInv /\ [Next]_vars => CharInv'
  <1> SUFFICES ASSUME CharInv, [Next]_vars PROVE CharInv'
    OBVIOUS
  <1>1. ASSUME NEW w \in Workers, Login(w) \/ List(w) \/ Create(w) \/ Select(w) \/ Talk(w)
        PROVE  CharInv'
    BY <1>1, LoginKeeps, ListKeeps, CreateKeeps, SelectKeeps, TalkKeeps
  <1> QED BY <1>1, OthersKeep DEF Next

LEMMA CharStart == Init => CharInv
  <1> SUFFICES ASSUME Init PROVE CharInv
    OBVIOUS
  <1>1. Shape
    BY FS_EmptySet, IdleIsPlain DEF Init, DBInit, CharInit, Shape, TaskOK
  <1>2. ASSUME NEW u \in Users PROVE Room(u)
    <2>1. CharsOf(u) = {} /\ Pending(u) = {}
      BY IdleIsPlain DEF Init, DBInit, CharInit, CharsOf, Pending, Committed
    <2>2. Cardinality(Threads) \in Nat
      BY <1>1, ThreadsFinite
    <2> QED BY <2>1, <2>2, FS_EmptySet, MaxCharsPos DEF Room
  <1> QED BY <1>1, <1>2 DEF CharInv

LEMMA RoomIsLimit == CharInv => CharLimit
  <1> SUFFICES ASSUME CharInv, NEW u \in Users
               PROVE  Cardinality(CharsOf(u)) < MaxChars + Cardinality(Threads)
    BY DEF CharLimit
  <1>1. Cardinality(CharsOf(u)) \in Nat /\ Cardinality(Pending(u)) \in Nat
    BY CharsFinite, PendingFinite DEF CharInv, Shape
  <1>2. Cardinality(Threads) \in Nat /\ Room(u)
    BY ThreadsFinite DEF CharInv
  <1> QED BY <1>1, <1>2, MaxCharsPos DEF Room

\* However many clients, threads and accounts there are, an account has fewer
\* than MaxChars + (number of threads) characters: exactly the limit when one
\* thread serves all clients (pakCreateChar, CCharServer.cpp:322).
THEOREM CharLimitHolds == Spec => []CharLimit
  BY CharStart, CharStep, RoomIsLimit, PTL DEF Spec
-----------------------------------------------------------------------------
(* Types                                                                    *)

Client == [on : BOOLEAN, id : Users \cup {None}, user : Users \cup {None},
           name : Names \cup {None}, picked : BOOLEAN]
Creating == {"count", "name", "taken", "insert", "created"}

\* What a handler remembers keeps its type, and it is its session's thread's.
TaskTyped(w) ==
  /\ task[w] # Idle => task[w].s \in Sessions /\ thread[task[w].s] = w
  /\ task[w].at = "user" => task[w].rows \subseteq Users /\ client[task[w].s].id = None
  /\ task[w].at = "store" => task[w].n \in Nat
  /\ task[w].at \in Creating => /\ task[w].name \in Names /\ task[w].slot \in Slots
                                /\ client[task[w].s].user \in Users
  /\ task[w].at = "picked" => task[w].rows \subseteq Names

\* Who is signed in is signed in as the account whose name he has.
IdIsUser == \A s \in Sessions : client[s].id \in {None, client[s].user}

ConnTyped == conn \in [pending : Workers \cup {None}, insertId : 0..MaxId]
CountsTyped == /\ currentusers \in Nat /\ logins \in 0..MaxLogins
               /\ deleted \subseteq Names /\ crashed \in BOOLEAN /\ gameList \subseteq Games
StateTyped == /\ DBTypeOK /\ ConnTyped /\ CountsTyped
              /\ thread \in [Sessions -> Workers]
              /\ client \in [Sessions -> Client]

CharTyped == /\ StateTyped
             /\ task = [w \in Workers |-> task[w]]
             /\ \A w \in Workers : TaskTyped(w)
             /\ IdIsUser

LEMMA TypedStart == Init => CharTyped
  <1> SUFFICES ASSUME Init PROVE CharTyped
    OBVIOUS
  <1>1. Gone \in Client
    BY DEF Gone, Client
  <1>2. DBTypeOK
    BY MaxIdNat DEF Init, DBInit, DBTypeOK
  <1>3. ConnTyped
    BY MaxIdNat DEF Init, CharInit, FreshConn, ConnTyped
  <1>4. client \in [Sessions -> Client] /\ thread \in [Sessions -> Workers]
    BY <1>1 DEF Init, CharInit
  <1>5. \A w \in Workers : TaskTyped(w)
    BY IdleIsPlain DEF Init, CharInit, TaskTyped, Idle, Creating
  <1>6. IdIsUser
    BY DEF Init, CharInit, IdIsUser, Gone
  <1>7. CountsTyped
    <2>1. crashed \in BOOLEAN
      BY DEF Init, CharInit
    <2>2. currentusers \in Nat /\ logins \in 0..MaxLogins
      BY MaxLoginsNat DEF Init, CharInit
    <2>3. deleted \subseteq Names /\ gameList \subseteq Games
      BY DEF Init, CharInit
    <2> QED BY <2>1, <2>2, <2>3 DEF CountsTyped
  <1>8. task = [w \in Workers |-> task[w]]
    BY DEF Init, CharInit
  <1> QED BY <1>2, <1>3, <1>4, <1>5, <1>6, <1>7, <1>8 DEF CharTyped, StateTyped

LEMMA TypedIsTypeOK == CharTyped => TypeOK
  BY DEF CharTyped, StateTyped, ConnTyped, CountsTyped, TaskTyped, TypeOK, Client

\* A worker's step of session s's handler, on to t.
LEMMA TasksTyped ==
  ASSUME CharTyped, NEW w \in Workers, NEW s \in Sessions, thread[s] = w, NEW t,
         task' = [task EXCEPT ![w] = t], thread' = thread,
         \A v \in Sessions \ {s} : client'[v] = client[v],
         t = Idle \/ t.s = s,
         t.at = "user" => t.rows \subseteq Users /\ client'[s].id = None,
         t.at = "store" => t.n \in Nat,
         t.at \in Creating => /\ t.name \in Names /\ t.slot \in Slots
                              /\ client'[s].user \in Users,
         t.at = "picked" => t.rows \subseteq Names
  PROVE  task' = [v \in Workers |-> task'[v]] /\ \A v \in Workers : TaskTyped(v)'
  <1>1. task'[w] = t /\ \A v \in Workers \ {w} : task'[v] = task[v]
    BY DEF CharTyped
  <1>2. task' = [v \in Workers |-> task'[v]]
    BY DEF CharTyped
  <1>3. TaskTyped(w)'
    BY <1>1, IdleIsPlain DEF TaskTyped, Creating, Idle
  <1>4. ASSUME NEW v \in Workers, v # w PROVE TaskTyped(v)'
    <2>1. TaskTyped(v) /\ task'[v] = task[v]
      BY <1>1, <1>4 DEF CharTyped
    <2>2. task[v] # Idle => client'[task[v].s] = client[task[v].s]
      BY <1>4, <2>1 DEF TaskTyped
    <2>3. task[v].at \in Creating \cup {"user"} => task[v] # Idle
      BY DEF Idle, Creating
    <2> QED BY <2>1, <2>2, <2>3 DEF TaskTyped
  <1> QED BY <1>2, <1>3, <1>4

\* What a worker at some place may rely on.
LEMMA BusyServes ==
  ASSUME CharTyped, NEW w \in Workers, task[w] # Idle
  PROVE  task[w].s \in Sessions /\ thread[task[w].s] = w /\ TaskTyped(w)
  BY DEF CharTyped, TaskTyped

\* A step that keeps the clients and the state's types, on to t.
LEMMA TypedGoes ==
  ASSUME CharTyped, NEW w \in Workers, NEW s \in Sessions, thread[s] = w, NEW t,
         Goto(w, t), client' = client, StateTyped', thread' = thread,
         t = Idle \/ t.s = s,
         t.at \notin {"user", "store", "picked"},
         t.at \in Creating => /\ t.name \in Names /\ t.slot \in Slots
                              /\ client[s].user \in Users
  PROVE  CharTyped'
  <1>1. task' = [v \in Workers |-> task'[v]] /\ \A v \in Workers : TaskTyped(v)'
    BY TasksTyped DEF Goto
  <1>2. IdIsUser'
    BY DEF CharTyped, IdIsUser
  <1> QED BY <1>1, <1>2 DEF CharTyped

\* A step of the library keeps the connection's type.
LEMMA ConnSteps ==
  ASSUME ConnTyped, NEW w \in Workers,
         conn' = conn \/ conn' = Asked(conn, w) \/ conn' = Fetched(conn, w)
  PROVE  ConnTyped'
  BY DEF ConnTyped, Asked, Fetched, Sent

LEMMA InsertIds ==
  ASSUME ConnTyped, NEW i \in 0..MaxId, conn' = [conn EXCEPT !.insertId = i]
  PROVE  ConnTyped'
  BY DEF ConnTyped

LEMMA ClientIsUser ==
  ASSUME CharTyped, NEW w \in Workers, NEW s \in Sessions, SignedIn(w, s)
  PROVE  client[s].user \in Users
  <1>1. client[s] \in Client /\ client[s].id # None /\ client[s].id \in {None, client[s].user}
    BY DEF CharTyped, StateTyped, IdIsUser, SignedIn
  <1> QED BY <1>1 DEF Client

\* The counters, the lists and whether the process lives.
LEMMA CountSteps ==
  ASSUME CountsTyped, currentusers' = currentusers, logins' = logins,
         deleted' = deleted, gameList' = gameList,
         crashed' = crashed \/ crashed' = TRUE
  PROVE  CountsTyped'
  <1>1. crashed' \in BOOLEAN
    BY DEF CountsTyped
  <1> QED BY <1>1 DEF CountsTyped

LEMMA LoginTyped ==
  ASSUME CharTyped, NEW w \in Workers, Login(w)
  PROVE  CharTyped'
  <1> USE DEF CharTyped, StateTyped
  <1>1. ASSUME NEW s \in Sessions, RefuseZero(w, s) PROVE CharTyped'
    <2>1. /\ Serves(w, s) /\ client[s].id = None /\ task' = task /\ thread' = thread
          /\ client' = [client EXCEPT ![s].user = None]
          /\ DBTypeOK' /\ ConnTyped' /\ CountsTyped'
      BY <1>1 DEF RefuseZero, Alive, same, dbVars, DBTypeOK, ConnTyped, CountsTyped, Rows
    <2>2. client' \in [Sessions -> Client] /\ client'[s].id = None
          /\ \A v \in Sessions \ {s} : client'[v] = client[v]
      BY <2>1 DEF Client
    <2>3. thread[s] = w /\ task[w] = Idle /\ task' = [task EXCEPT ![w] = Idle]
      BY <2>1 DEF Serves, Free
    <2>4. task' = [v \in Workers |-> task'[v]] /\ \A v \in Workers : TaskTyped(v)'
      BY <2>1, <2>2, <2>3, IdleIsPlain, TasksTyped DEF Creating
    <2>5. IdIsUser'
      BY <2>2 DEF IdIsUser
    <2> QED BY <2>1, <2>2, <2>4, <2>5
  <1>2. ASSUME NEW s \in Sessions, NEW tk \in Tokens, AskUser(w, s, tk) PROVE CharTyped'
    <2> DEFINE t == [at |-> "user", s |-> s, ok |-> Sent(conn),
                     rows |-> {u \in Users : loginid[u] = tk}]
    <2>1. /\ Serves(w, s) /\ client[s].id = None /\ Goto(w, t) /\ thread' = thread
          /\ client' = [client EXCEPT ![s].user = None] /\ conn' = Asked(conn, w)
          /\ DBTypeOK' /\ CountsTyped'
      BY <1>2 DEF AskUser, Ask, Alive, same, dbVars, DBTypeOK, CountsTyped, Rows
    <2>2. client' \in [Sessions -> Client] /\ client'[s].id = None
          /\ \A v \in Sessions \ {s} : client'[v] = client[v]
      BY <2>1 DEF Client
    <2>3. thread[s] = w /\ t.rows \subseteq Users /\ t.s = s /\ t.at = "user"
      BY <2>1 DEF Serves
    <2> HIDE DEF t
    <2>4. task' = [v \in Workers |-> task'[v]] /\ \A v \in Workers : TaskTyped(v)'
      BY <2>1, <2>2, <2>3, TasksTyped DEF Goto, Creating
    <2>5. IdIsUser'
      BY <2>2 DEF IdIsUser
    <2>6. ConnTyped'
      BY <2>1, ConnSteps
    <2> QED BY <2>1, <2>2, <2>4, <2>5, <2>6
  <1>3. ASSUME CheckUser(w) PROVE CharTyped'
    <2> DEFINE s == task[w].s
               on == [at |-> "load", s |-> s]
    <2>1. /\ task[w] # Idle /\ task[w].at = "user" /\ thread' = thread
          /\ DBTypeOK' /\ conn' = Fetched(conn, w)
      BY <1>3, IdleIsPlain DEF CheckUser, At, Fetch, same, dbVars, DBTypeOK, Rows
    <2>2. s \in Sessions /\ thread[s] = w /\ task[w].rows \subseteq Users
      BY <2>1, BusyServes DEF TaskTyped
    <2>3. Goto(w, Idle) \/ Goto(w, on)
      BY <1>3 DEF CheckUser, Done
    <2>4. \/ client' = client
          \/ \E u \in Users : \/ client' = [client EXCEPT ![s].user = u] /\ u \in Banned
                              \/ client' = [client EXCEPT ![s].id = u, ![s].user = u]
      BY <1>3, <2>2 DEF CheckUser, Result
    <2>5. client' \in [Sessions -> Client] /\ IdIsUser'
          /\ \A v \in Sessions \ {s} : client'[v] = client[v]
      <3>1. CASE client' = client
        BY <3>1 DEF IdIsUser
      <3>2. ASSUME NEW u \in Users, client' = [client EXCEPT ![s].user = u] PROVE <2>5!1
        BY <2>1, <2>2, <3>2, BusyServes DEF IdIsUser, Client, TaskTyped
      <3>3. ASSUME NEW u \in Users, client' = [client EXCEPT ![s].id = u, ![s].user = u]
            PROVE  <2>5!1
        BY <2>2, <3>3 DEF IdIsUser, Client
      <3> QED BY <2>4, <3>1, <3>2, <3>3
    <2>6. task' = [v \in Workers |-> task'[v]] /\ \A v \in Workers : TaskTyped(v)'
      <3>1. CASE Goto(w, Idle)
        BY <2>2, <2>1, <2>5, <3>1, IdleIsPlain, TasksTyped DEF Goto, Creating
      <3>2. CASE Goto(w, on)
        BY <2>2, <2>1, <2>5, <3>2, TasksTyped DEF Goto, Creating
      <3> QED BY <2>3, <3>1, <3>2
    <2>7. ConnTyped'
      BY <2>1, ConnSteps
    <2>8. CountsTyped'
      <3>1. logins' = logins \/ (logins < MaxLogins /\ logins' = logins + 1)
        BY <1>3 DEF CheckUser
      <3>2. /\ currentusers' = currentusers /\ deleted' = deleted /\ gameList' = gameList
            /\ crashed' = crashed
        BY <1>3 DEF CheckUser, Alive, same
      <3>3. logins' \in 0..MaxLogins
        BY <3>1, MaxLoginsNat DEF CountsTyped
      <3> QED BY <3>2, <3>3 DEF CountsTyped
    <2> QED BY <2>1, <2>5, <2>6, <2>7, <2>8
  <1>4. ASSUME LoadCount(w) \/ StoreCount(w) \/ ReportCount(w) PROVE CharTyped'
    <2>1. task[w] # Idle /\ thread' = thread /\ client' = client /\ conn' = conn /\ DBTypeOK'
      BY <1>4, IdleIsPlain DEF LoadCount, StoreCount, ReportCount, At, same, dbVars, DBTypeOK,
                               Rows
    <2>2. task[w].s \in Sessions /\ thread[task[w].s] = w /\ TaskTyped(w)
      BY <2>1, BusyServes
    <2>3. ConnTyped' /\ IdIsUser'
      BY <2>1 DEF ConnTyped, IdIsUser
    <2>4. CountsTyped'
      <3>1. logins' = logins /\ deleted' = deleted /\ gameList' = gameList /\ crashed' = crashed
        BY <1>4 DEF LoadCount, StoreCount, ReportCount, Alive, same
      <3>2. currentusers' \in Nat
        BY <1>4, <2>2 DEF LoadCount, StoreCount, ReportCount, At, TaskTyped, CountsTyped
      <3> QED BY <3>1, <3>2 DEF CountsTyped
    <2>5. CASE LoadCount(w)
      <3> DEFINE t == [at |-> "store", s |-> task[w].s, n |-> currentusers]
      <3>1. Goto(w, t) /\ t.s = task[w].s /\ t.at = "store" /\ t.n \in Nat
        BY <2>5 DEF LoadCount, CountsTyped
      <3> HIDE DEF t
      <3>2. task' = [v \in Workers |-> task'[v]] /\ \A v \in Workers : TaskTyped(v)'
        BY <2>1, <2>2, <3>1, TasksTyped DEF Goto, Creating
      <3> QED BY <2>1, <2>3, <2>4, <3>2
    <2>6. CASE StoreCount(w)
      BY <2>1, <2>2, <2>3, <2>4, <2>6, TypedGoes DEF StoreCount, Creating
    <2>7. CASE ReportCount(w)
      BY <2>1, <2>2, <2>3, <2>4, <2>7, TypedGoes DEF ReportCount, Creating
    <2> QED BY <1>4, <2>5, <2>6, <2>7
  <1> QED BY <1>1, <1>2, <1>3, <1>4 DEF Login

\* A worker at some place asks, fetches, or does neither, and the tables stay.
LEMMA PlaceTyped ==
  ASSUME CharTyped, NEW w \in Workers, task[w] # Idle, NEW t, Goto(w, t),
         client' = client, thread' = thread, UNCHANGED dbVars,
         conn' = conn \/ conn' = Asked(conn, w) \/ conn' = Fetched(conn, w),
         currentusers' = currentusers, logins' = logins, deleted' = deleted,
         gameList' = gameList, crashed' = crashed \/ crashed' = TRUE,
         t = Idle \/ t.s = task[w].s,
         t.at \notin {"user", "store", "picked"},
         t.at \in Creating => /\ t.name = task[w].name /\ t.slot = task[w].slot
                              /\ task[w].at \in Creating
  PROVE  CharTyped'
  <1>1. task[w].s \in Sessions /\ thread[task[w].s] = w /\ TaskTyped(w)
    BY BusyServes
  <1>2. ConnTyped' /\ CountsTyped'
    BY ConnSteps, CountSteps DEF CharTyped, StateTyped
  <1>3. StateTyped'
    BY <1>2 DEF CharTyped, StateTyped, DBTypeOK, dbVars, Rows
  <1>4. t.at \in Creating => /\ t.name \in Names /\ t.slot \in Slots
                             /\ client[task[w].s].user \in Users
    BY <1>1 DEF TaskTyped
  <1> QED BY <1>1, <1>3, <1>4, TypedGoes

\* A step that begins a handler and asks nothing that has a type.
LEMMA BeginTyped ==
  ASSUME CharTyped, NEW w \in Workers, NEW s \in Sessions, Serves(w, s), NEW t, Goto(w, t),
         client' = client, thread' = thread, UNCHANGED dbVars, ConnTyped',
         currentusers' = currentusers, logins' = logins, deleted' = deleted,
         gameList' = gameList, crashed' = crashed, t.s = s,
         t.at \notin {"user", "store", "picked"},
         t.at \in Creating => /\ t.name \in Names /\ t.slot \in Slots
                              /\ client[s].user \in Users
  PROVE  CharTyped'
  <1>1. CountsTyped'
    BY CountSteps DEF CharTyped, StateTyped
  <1>2. StateTyped'
    BY <1>1 DEF CharTyped, StateTyped, DBTypeOK, dbVars, Rows
  <1> QED BY <1>2, TypedGoes DEF Serves

LEMMA ListTyped ==
  ASSUME CharTyped, NEW w \in Workers, List(w)
  PROVE  CharTyped'
  <1>1. ASSUME NEW s \in Sessions, PickChar(w, s) PROVE CharTyped'
    <2>1. ConnTyped'
      BY <1>1 DEF PickChar, ConnTyped, CharTyped, StateTyped
    <2> QED BY <1>1, <2>1, BeginTyped DEF PickChar, SignedIn, same, Alive, Creating
  <1>2. CASE AskList(w)
    BY <1>2, IdleIsPlain, PlaceTyped DEF AskList, Ask, At, same, Alive, Creating
  <1>3. CASE SendCharList(w)
    BY <1>3, IdleIsPlain, PlaceTyped DEF SendCharList, Fetch, Done, At, same, Alive, Creating
  <1> QED BY <1>1, <1>2, <1>3 DEF List

LEMMA CreateTyped ==
  ASSUME CharTyped, NEW w \in Workers, Create(w)
  PROVE  CharTyped'
  <1>1. ASSUME NEW s \in Sessions, NEW n \in Names, NEW sl \in Slots, AskCount(w, s, n, sl)
        PROVE  CharTyped'
    <2> DEFINE t == [at |-> "count", s |-> s, name |-> n, slot |-> sl, ok |-> Sent(conn),
                     num |-> Cardinality(CharsOf(client[s].user))]
    <2>1. Serves(w, s) /\ client[s].user \in Users
      BY <1>1, ClientIsUser DEF AskCount, SignedIn
    <2>2. ConnTyped'
      BY <1>1, ConnSteps DEF AskCount, Ask, CharTyped, StateTyped
    <2>3. Goto(w, t) /\ t.s = s /\ t.at = "count" /\ t.name = n /\ t.slot = sl
      BY <1>1 DEF AskCount, Ask
    <2> HIDE DEF t
    <2> QED BY <1>1, <2>1, <2>2, <2>3, BeginTyped DEF AskCount, same, Alive
  <1>2. ASSUME CheckCount(w) PROVE CharTyped'
    <2> DEFINE t == [at |-> "name", s |-> task[w].s, name |-> task[w].name,
                     slot |-> task[w].slot]
    <2>1. /\ Goto(w, Idle) \/ Goto(w, t)
          /\ crashed' = crashed \/ crashed' = TRUE
      BY <1>2 DEF CheckCount, Crash, Done, Alive
    <2>2. /\ task[w] # Idle /\ task[w].at \in Creating /\ conn' = Fetched(conn, w)
          /\ UNCHANGED <<dbVars, client, thread, gameList, currentusers, logins, deleted>>
      BY <1>2, IdleIsPlain DEF CheckCount, At, Fetch, same, Creating
    <2>3. CASE Goto(w, Idle)
      BY <2>1, <2>2, <2>3, IdleIsPlain, PlaceTyped DEF Creating
    <2>4. CASE Goto(w, t)
      BY <2>1, <2>2, <2>4, PlaceTyped DEF Creating
    <2> QED BY <2>1, <2>3, <2>4
  <1>3. ASSUME AskName(w) PROVE CharTyped'
    BY <1>3, IdleIsPlain, PlaceTyped DEF AskName, Ask, At, same, Alive, Creating
  <1>4. ASSUME CheckName(w) PROVE CharTyped'
    <2> DEFINE t == [at |-> "insert", s |-> task[w].s, name |-> task[w].name,
                     slot |-> task[w].slot]
    <2>1. /\ Goto(w, Idle) \/ Goto(w, t)
          /\ crashed' = crashed \/ crashed' = TRUE
      BY <1>4 DEF CheckName, Crash, Done, Alive
    <2>2. /\ task[w] # Idle /\ task[w].at \in Creating /\ conn' = Fetched(conn, w)
          /\ UNCHANGED <<dbVars, client, thread, gameList, currentusers, logins, deleted>>
      BY <1>4, IdleIsPlain DEF CheckName, At, Fetch, same, Creating
    <2>3. CASE Goto(w, Idle)
      BY <2>1, <2>2, <2>3, IdleIsPlain, PlaceTyped DEF Creating
    <2>4. CASE Goto(w, t)
      BY <2>1, <2>2, <2>4, PlaceTyped DEF Creating
    <2> QED BY <2>1, <2>3, <2>4
  <1>5. ASSUME InsertChar(w) PROVE CharTyped'
    <2> DEFINE s == task[w].s
               t == [at |-> "created", s |-> s, name |-> task[w].name, slot |-> task[w].slot]
    <2>1. /\ task[w] # Idle /\ task[w].at \in Creating /\ Goto(w, t)
          /\ UNCHANGED <<client, thread, gameList, currentusers, logins, deleted, crashed>>
      BY <1>5, IdleIsPlain DEF InsertChar, At, same, Alive, Creating
    <2>2. /\ s \in Sessions /\ thread[s] = w /\ task[w].name \in Names /\ task[w].slot \in Slots
          /\ client[s].user \in Users
      BY <2>1, BusyServes DEF TaskTyped
    <2>3. CASE ~Sent(conn)
      <3>1. UNCHANGED dbVars /\ conn' = conn
        BY <1>5, <2>3 DEF InsertChar
      <3> QED BY <2>1, <3>1, PlaceTyped DEF Creating
    <2>4. CASE Sent(conn)
      <3>1. /\ Insert(client[s].user, task[w].name, task[w].slot)
            /\ conn' = [conn EXCEPT !.insertId = lastId + 1]
        BY <1>5, <2>4 DEF InsertChar
      <3>2. lastId + 1 \in 1..MaxId /\ lastId + 1 \in 0..MaxId
        BY <3>1, MaxIdNat DEF Insert, CharTyped, StateTyped, DBTypeOK
      <3>3. ConnTyped'
        BY <3>1, <3>2, InsertIds DEF CharTyped, StateTyped
      <3>4. DBTypeOK'
        BY <2>2, <3>1, <3>2 DEF Insert, CharTyped, StateTyped, DBTypeOK, Rows
      <3>5. CountsTyped'
        BY <2>1, CountSteps DEF CharTyped, StateTyped
      <3>6. StateTyped'
        BY <2>1, <3>3, <3>4, <3>5 DEF CharTyped, StateTyped
      <3> QED BY <2>1, <2>2, <3>6, TypedGoes DEF Creating
    <2> QED BY <2>3, <2>4
  <1>6. ASSUME SendCreated(w) PROVE CharTyped'
    BY <1>6, IdleIsPlain, PlaceTyped DEF SendCreated, Done, At, same, Alive, Creating
  <1> QED BY <1>1, <1>2, <1>3, <1>4, <1>5, <1>6 DEF Create

\* A statement that is executed: the connection forgets its last insert.
LEMMA StatementTyped ==
  ASSUME CharTyped, conn' = [conn EXCEPT !.insertId = 0] \/ conn' = conn
  PROVE  ConnTyped'
  <1>1. 0 \in 0..MaxId
    BY MaxIdNat
  <1> QED BY <1>1, InsertIds DEF CharTyped, StateTyped, ConnTyped

\* A step that leaves the handlers and the clients as they are.
LEMMA TableTyped ==
  ASSUME CharTyped, UNCHANGED <<task, client, thread>>, ConnTyped', CountsTyped', DBTypeOK'
  PROVE  CharTyped'
  BY DEF CharTyped, StateTyped, TaskTyped, IdIsUser

LEMMA SelectTyped ==
  ASSUME CharTyped, NEW w \in Workers, Select(w)
  PROVE  CharTyped'
  <1>1. ASSUME NEW s \in Sessions, NEW sl \in Slots, DeleteChar(w, s, sl) PROVE CharTyped'
    <2>1. UNCHANGED <<task, client, thread, gameList, currentusers, logins, crashed>>
      BY <1>1 DEF DeleteChar, same, Alive
    <2>2. ConnTyped'
      BY <1>1, StatementTyped DEF DeleteChar
    <2>3. DBTypeOK'
      BY <1>1 DEF DeleteChar, Delete, dbVars, CharTyped, StateTyped, DBTypeOK, Rows
    <2>4. deleted' \subseteq Names
      BY <1>1 DEF DeleteChar, CharTyped, StateTyped, DBTypeOK, Rows, CountsTyped
    <2>5. CountsTyped'
      BY <2>1, <2>4 DEF CharTyped, StateTyped, CountsTyped
    <2> QED BY <2>1, <2>2, <2>3, <2>5, TableTyped
  <1>2. ASSUME NEW s \in Sessions, NEW sl \in Slots, SelectChar(w, s, sl) PROVE CharTyped'
    <2>1. ConnTyped'
      BY <1>2, StatementTyped DEF SelectChar
    <2> QED BY <1>2, <2>1, BeginTyped DEF SelectChar, SignedIn, same, Alive, Creating
  <1>3. ASSUME AskSlot(w) PROVE CharTyped'
    <2> DEFINE s == task[w].s
               rows == {r.name : r \in {q \in CharsOf(client[s].user) : q.slot = task[w].slot}}
               t == [at |-> "picked", s |-> s, ok |-> Sent(conn), rows |-> rows]
    <2>1. /\ task[w] # Idle /\ Goto(w, t) /\ conn' = Asked(conn, w)
          /\ UNCHANGED <<dbVars, client, thread, gameList, currentusers, logins, deleted,
                         crashed>>
      BY <1>3, IdleIsPlain DEF AskSlot, Ask, At, same, Alive
    <2>2. s \in Sessions /\ thread[s] = w
      BY <2>1, BusyServes
    <2>3. rows \subseteq Names
      BY DEF CharsOf, CharTyped, StateTyped, DBTypeOK, Rows
    <2>4. t.at = "picked" /\ t.rows \subseteq Names /\ t.s = s
      BY <2>3
    <2> HIDE DEF t
    <2>5. task' = [v \in Workers |-> task'[v]] /\ \A v \in Workers : TaskTyped(v)'
      BY <2>1, <2>2, <2>4, TasksTyped DEF Goto, Creating
    <2>6. ConnTyped' /\ CountsTyped'
      BY <2>1, ConnSteps, CountSteps DEF CharTyped, StateTyped
    <2> QED BY <2>1, <2>5, <2>6
            DEF CharTyped, StateTyped, IdIsUser, DBTypeOK, Rows, dbVars
  <1>4. ASSUME TakeSlot(w) PROVE CharTyped'
    <2> DEFINE s == task[w].s
               on == [at |-> "redirect", s |-> s]
    <2>1. /\ task[w] # Idle /\ task[w].at = "picked" /\ conn' = Fetched(conn, w)
          /\ UNCHANGED <<dbVars, thread, gameList, currentusers, logins, deleted>>
      BY <1>4, IdleIsPlain DEF TakeSlot, At, Fetch, same
    <2>2. s \in Sessions /\ thread[s] = w /\ task[w].rows \subseteq Names
      BY <2>1, BusyServes DEF TaskTyped
    <2>3. /\ Goto(w, Idle) \/ Goto(w, on)
          /\ crashed' = crashed \/ crashed' = TRUE
      BY <1>4 DEF TakeSlot, Crash, Done, Alive
    <2>4. \/ client' = client
          \/ \E n \in Names : client' = [client EXCEPT ![s].name = n, ![s].picked = TRUE]
      BY <1>4, <2>2 DEF TakeSlot, Result
    <2>5. client' \in [Sessions -> Client] /\ IdIsUser'
          /\ \A v \in Sessions \ {s} : client'[v] = client[v]
      <3>1. CASE client' = client
        BY <3>1 DEF CharTyped, StateTyped, IdIsUser
      <3>2. ASSUME NEW n \in Names,
                   client' = [client EXCEPT ![s].name = n, ![s].picked = TRUE]
            PROVE  <2>5!1
        BY <2>2, <3>2 DEF CharTyped, StateTyped, IdIsUser, Client
      <3> QED BY <2>4, <3>1, <3>2
    <2>6. task' = [v \in Workers |-> task'[v]] /\ \A v \in Workers : TaskTyped(v)'
      <3>1. CASE Goto(w, Idle)
        BY <2>2, <2>1, <2>5, <3>1, IdleIsPlain, TasksTyped DEF Goto, Creating
      <3>2. CASE Goto(w, on)
        BY <2>2, <2>1, <2>5, <3>2, TasksTyped DEF Goto, Creating
      <3> QED BY <2>3, <3>1, <3>2
    <2>7. ConnTyped' /\ CountsTyped'
      BY <2>1, <2>3, ConnSteps, CountSteps DEF CharTyped, StateTyped
    <2> QED BY <2>1, <2>5, <2>6, <2>7 DEF CharTyped, StateTyped, DBTypeOK, Rows, dbVars
  <1>5. ASSUME Redirect(w) PROVE CharTyped'
    <2>1. /\ task[w] # Idle /\ Goto(w, Idle) /\ conn' = conn
          /\ UNCHANGED <<dbVars, client, thread, gameList, currentusers, logins, deleted>>
          /\ crashed' = crashed \/ crashed' = TRUE
      BY <1>5, IdleIsPlain DEF Redirect, Crash, Done, At, same, Alive
    <2> QED BY <2>1, IdleIsPlain, PlaceTyped DEF Creating
  <1> QED BY <1>1, <1>2, <1>3, <1>4, <1>5 DEF Select

LEMMA TalkTyped ==
  ASSUME CharTyped, NEW w \in Workers, Talk(w)
  PROVE  CharTyped'
  <1>1. ASSUME NEW s \in Sessions, SaveQB(w, s) PROVE CharTyped'
    <2>1. UNCHANGED <<task, client, thread, gameList, currentusers, logins, deleted, crashed>>
      BY <1>1 DEF SaveQB, same, Alive
    <2>2. ConnTyped'
      BY <1>1, StatementTyped DEF SaveQB
    <2>3. client[s].user \in Users
      BY <1>1, ClientIsUser DEF SaveQB
    <2>4. DBTypeOK'
      <3>1. CASE UNCHANGED dbVars
        BY <3>1 DEF dbVars, CharTyped, StateTyped, DBTypeOK, Rows
      <3>2. CASE SaveBars(client[s].user, client[s].name)
        <4>1. \A r \in Rows : [r EXCEPT !.bars = client[s].user] \in Rows
          BY <2>3 DEF Rows
        <4>2. characters' \subseteq Rows
          BY <3>2, <4>1 DEF SaveBars, CharTyped, StateTyped, DBTypeOK
        <4> QED BY <3>2, <4>2 DEF SaveBars, CharTyped, StateTyped, DBTypeOK, Rows
      <3> QED BY <1>1, <3>1, <3>2 DEF SaveQB, dbVars
    <2>5. CountsTyped'
      BY <2>1, CountSteps DEF CharTyped, StateTyped
    <2> QED BY <2>1, <2>2, <2>4, <2>5, TableTyped
  <1>2. ASSUME NEW s \in Sessions, AskQB(w, s) PROVE CharTyped'
    <2>1. ConnTyped'
      BY <1>2, ConnSteps DEF AskQB, Ask, CharTyped, StateTyped
    <2> QED BY <1>2, <2>1, BeginTyped DEF AskQB, Ask, SignedIn, same, Alive, Creating
  <1>3. ASSUME SendQB(w) PROVE CharTyped'
    <2>1. /\ task[w] # Idle /\ Goto(w, Idle) /\ conn' = Fetched(conn, w)
          /\ UNCHANGED <<dbVars, client, thread, gameList, currentusers, logins, deleted>>
          /\ crashed' = crashed \/ crashed' = TRUE
      BY <1>3, IdleIsPlain DEF SendQB, Crash, Done, Fetch, At, same, Alive
    <2> QED BY <2>1, IdleIsPlain, PlaceTyped DEF Creating
  <1>4. ASSUME NEW s \in Sessions, NEW n \in Names, Whisper(w, s, n) PROVE CharTyped'
    <2>1. UNCHANGED <<dbVars, task, client, thread, conn, gameList, currentusers, logins,
                      deleted, crashed>>
      BY <1>4 DEF Whisper, same, Alive
    <2>2. ConnTyped' /\ CountsTyped' /\ DBTypeOK'
      BY <2>1, CountSteps DEF CharTyped, StateTyped, ConnTyped, DBTypeOK, Rows, dbVars
    <2> QED BY <2>1, <2>2, TableTyped
  <1> QED BY <1>1, <1>2, <1>3, <1>4 DEF Talk

LEMMA OthersTyped ==
  ASSUME CharTyped,
         \/ \E s \in Sessions : Connect(s) \/ Disconnect(s)
         \/ \E g \in Games : GameServerComes(g) \/ GameServerGoes(g)
         \/ UNCHANGED vars
  PROVE  CharTyped'
  <1>1. ASSUME NEW s \in Sessions, Connect(s) \/ Disconnect(s) PROVE CharTyped'
    <2>1. /\ ListFree
          /\ UNCHANGED <<dbVars, task, thread, conn, gameList, currentusers, logins, deleted,
                         crashed>>
          /\ client' = [client EXCEPT ![s] = Fresh] \/ client' = [client EXCEPT ![s] = Gone]
      BY <1>1 DEF Connect, Disconnect, same, Alive
    <2>2. Gone \in Client /\ Fresh \in Client /\ Gone.id = None /\ Fresh.id = None
      <3>1. Gone \in Client /\ Gone.id = None
        BY DEF Gone, Client
      <3> QED BY <3>1 DEF Fresh, Client
    <2>3. client' \in [Sessions -> Client] /\ IdIsUser'
      BY <2>1, <2>2 DEF CharTyped, StateTyped, IdIsUser
    <2>4. \A w \in Workers : TaskTyped(w)'
      BY <2>1, IdleIsPlain DEF ListFree, TaskTyped, Creating
    <2>5. ConnTyped' /\ CountsTyped' /\ DBTypeOK'
      BY <2>1, CountSteps DEF CharTyped, StateTyped, ConnTyped, DBTypeOK, Rows, dbVars
    <2> QED BY <2>1, <2>3, <2>4, <2>5 DEF CharTyped, StateTyped
  <1>2. ASSUME NEW g \in Games, GameServerComes(g) \/ GameServerGoes(g) PROVE CharTyped'
    <2>1. /\ UNCHANGED <<dbVars, task, client, thread, conn, currentusers, logins, deleted,
                         crashed>>
          /\ gameList' = gameList \cup {g} \/ gameList' = gameList \ {g}
      BY <1>2 DEF GameServerComes, GameServerGoes
    <2>2. CountsTyped'
      BY <2>1 DEF CharTyped, StateTyped, CountsTyped
    <2>3. ConnTyped' /\ DBTypeOK'
      BY <2>1 DEF CharTyped, StateTyped, ConnTyped, DBTypeOK, Rows, dbVars
    <2> QED BY <2>1, <2>2, <2>3, TableTyped
  <1>3. ASSUME UNCHANGED vars PROVE CharTyped'
    <2>1. UNCHANGED <<dbVars, task, client, thread, conn, gameList, currentusers, logins,
                      deleted, crashed>>
      BY <1>3 DEF vars, charVars
    <2>2. ConnTyped' /\ CountsTyped' /\ DBTypeOK'
      BY <2>1, CountSteps DEF CharTyped, StateTyped, ConnTyped, DBTypeOK, Rows, dbVars
    <2> QED BY <2>1, <2>2, TableTyped
  <1> QED BY <1>1, <1>2, <1>3

LEMMA TypedStep == CharTyped /\ [Next]_vars => CharTyped'
  <1> SUFFICES ASSUME CharTyped, [Next]_vars PROVE CharTyped'
    OBVIOUS
  <1>1. ASSUME NEW w \in Workers, Login(w) \/ List(w) \/ Create(w) \/ Select(w) \/ Talk(w)
        PROVE  CharTyped'
    BY <1>1, LoginTyped, ListTyped, CreateTyped, SelectTyped, TalkTyped
  <1> QED BY <1>1, OthersTyped DEF Next

\* The tables, the connection, the clients and what every handler remembers keep
\* their types, and a handler is its session's thread's (CCharServer.cpp).
THEOREM CharTypes == Spec => []TypeOK
  BY TypedStart, TypedStep, TypedIsTypeOK, PTL DEF Spec
-----------------------------------------------------------------------------
(* Owners                                                                   *)

\* A character of this name is or was one of u's.
Owned(n, u) == n \in deleted \/ \E r \in characters : r.name = n /\ r.owner = u

Asking == {"user", "send", "count", "taken", "picked", "bars"}

\* The rows a handler has asked for, and those it finds gone, taken or made.
TaskOwned(w) ==
  /\ conn.pending = w => task[w].at \in Asking
  /\ task[w].at \in {"select", "picked"} => client[task[w].s].id # None
  /\ task[w].at = "picked" => \A n \in task[w].rows : Owned(n, client[task[w].s].user)
  /\ task[w].at = "taken" => task[w].num \in Nat
  /\ OneThread =>
       /\ task[w].at = "insert" \/ (task[w].at = "taken" /\ task[w].num = 0) =>
            Named(task[w].name) = {}
       /\ task[w].at = "created" =>
            \E r \in CharsOf(client[task[w].s].user) :
              r.id = conn.insertId /\ r.name = task[w].name /\ r.slot = task[w].slot

ClientOwned(s) ==
  client[s].name # None => client[s].id # None /\ Owned(client[s].name, client[s].user)

OneOwner == OneThread => \A q, r \in characters : q.name = r.name => q.owner = r.owner

OwnInv == /\ \A w \in Workers : TaskOwned(w)
          /\ \A s \in Sessions : ClientOwned(s)
          /\ OneOwner /\ SavesToOwner /\ CreatedTold

\* With one thread, all sessions are its own,
LEMMA OneServes ==
  ASSUME CharTyped, OneThread, NEW s \in Sessions, NEW v \in Sessions
  PROVE  thread[s] = thread[v]
  <1> SUFFICES ASSUME thread[s] # thread[v] PROVE FALSE
    OBVIOUS
  <1> DEFINE a == thread[s]
             b == thread[v]
  <1>1. a \in Threads /\ b \in Threads /\ a \in Workers /\ b \in Workers
    BY DEF Threads, CharTyped, StateTyped
  <1>2. Threads \in SUBSET Workers
    BY DEF Threads, CharTyped, StateTyped
  <1>3. IsFiniteSet(Threads)
    BY <1>2, WorkersFinite, FS_Subset
  <1> HIDE DEF a, b
  <1>4. a # b
    BY DEF a, b
  <1>5. /\ IsFiniteSet({a}) /\ Cardinality({a}) = 1
    BY FS_Singleton
  <1> DEFINE S == {a}
  <1>6. /\ IsFiniteSet({a} \cup {b}) /\ Cardinality({a} \cup {b}) = 1 + 1
    <2>1. IsFiniteSet(S) /\ Cardinality(S) = 1 /\ b \notin S
      BY <1>4, <1>5
    <2> HIDE DEF S
    <2>2. /\ IsFiniteSet(S \cup {b}) /\ Cardinality(S \cup {b}) = Cardinality(S) + 1
      BY <2>1, FS_AddElement
    <2> QED BY <2>1, <2>2 DEF S
  <1>7. {a} \cup {b} \in SUBSET Threads
    BY <1>1
  <1>8. Cardinality({a} \cup {b}) <= Cardinality(Threads)
    BY <1>3, <1>7, FS_Subset
  <1> QED BY <1>6, <1>8 DEF OneThread

\* and while it has a packet to handle no other worker is in a handler.
LEMMA OthersIdle ==
  ASSUME CharTyped, OneThread, NEW w \in Workers, NEW s \in Sessions, thread[s] = w,
         NEW v \in Workers, v # w
  PROVE  task[v] = Idle
  <1> SUFFICES ASSUME task[v] # Idle PROVE FALSE
    OBVIOUS
  <1>1. task[v].s \in Sessions /\ thread[task[v].s] = v
    BY BusyServes
  <1> QED BY <1>1, OneServes

LEMMA OtherOwned ==
  ASSUME CharTyped, NEW w \in Workers, NEW s \in Sessions, thread[s] = w, thread' = thread,
         NEW v \in Workers, v # w, TaskOwned(v), task'[v] = task[v],
         \A x \in Sessions \ {s} : client'[x] = client[x],
         \A n, u : Owned(n, u) => Owned(n, u)',
         conn'.pending \in {conn.pending, w, None}
  PROVE  TaskOwned(v)'
  <1>1. conn'.pending = v => task'[v].at \in Asking
    BY WorkersFinite DEF TaskOwned
  <1>2. task[v] # Idle => client'[task[v].s] = client[task[v].s]
    <2>1. task[v] # Idle => task[v].s \in Sessions /\ thread[task[v].s] = v
      BY BusyServes
    <2> QED BY <2>1
  <1>3. task[v].at \in {"select", "picked"} => client'[task[v].s].id # None
    BY <1>2, IdleIsPlain DEF TaskOwned
  <1>4. task[v].at = "picked" => \A n \in task[v].rows : Owned(n, client[task[v].s].user)'
    <2> SUFFICES ASSUME task[v].at = "picked", NEW n \in task[v].rows
                 PROVE  Owned(n, client[task[v].s].user)'
      OBVIOUS
    <2> DEFINE u == client[task[v].s].user
    <2>1. Owned(n, u) /\ u' = u
      BY <1>2, IdleIsPlain DEF TaskOwned
    <2>2. Owned(n, u) => (n \in deleted' \/ \E r \in characters' : r.name = n /\ r.owner = u)
      BY DEF Owned
    <2> QED BY <2>1, <2>2 DEF Owned
  <1>5. OneThread' => task[v] = Idle
    <2>1. OneThread' <=> OneThread
      BY DEF OneThread, Threads
    <2> QED BY <2>1, OthersIdle
  <1> QED BY <1>1, <1>3, <1>4, <1>5, IdleIsPlain DEF TaskOwned

\* One step of one worker, for a client of its own.
LEMMA StepOwned ==
  ASSUME CharTyped, OwnInv, NEW w \in Workers, NEW s \in Sessions, thread[s] = w, NEW t,
         thread' = thread, task' = [task EXCEPT ![w] = t],
         \A x \in Sessions \ {s} : client'[x] = client[x],
         \A n, u : Owned(n, u) => Owned(n, u)',
         conn'.pending \in {conn.pending, w, None},
         TaskOwned(w)', ClientOwned(s)', OneOwner', SavesToOwner', CreatedTold'
  PROVE  OwnInv'
  <1>1. ASSUME NEW v \in Workers, v # w PROVE TaskOwned(v)'
    <2>1. TaskOwned(v) /\ task'[v] = task[v]
      BY <1>1 DEF OwnInv, CharTyped
    <2> QED BY <1>1, <2>1, OtherOwned
  <1>2. ASSUME NEW v \in Sessions, v # s PROVE ClientOwned(v)'
    <2>1. ClientOwned(v) /\ client'[v] = client[v]
      BY <1>2 DEF OwnInv
    <2>2. Owned(client[v].name, client[v].user) =>
            \/ client[v].name \in deleted'
            \/ \E r \in characters' : r.name = client[v].name /\ r.owner = client[v].user
      BY DEF Owned
    <2> QED BY <2>1, <2>2 DEF ClientOwned, Owned
  <1> QED BY <1>1, <1>2 DEF OwnInv

LEMMA SameRows ==
  ASSUME OwnInv, UNCHANGED <<thread, characters, deleted>>
  PROVE  /\ OneOwner' /\ SavesToOwner'
         /\ \A n, u : Owned(n, u) => Owned(n, u)'
  <1>1. OneThread' <=> OneThread
    BY DEF OneThread, Threads
  <1> QED BY <1>1 DEF OwnInv, OneOwner, SavesToOwner, Owned

LEMMA NoneCreated ==
  ASSUME \A m \in sent' : m.cmd # "1406"
  PROVE  CreatedTold'
  BY DEF CreatedTold

\* One that leaves the table as it is.
LEMMA TableOwned ==
  ASSUME CharTyped, OwnInv, NEW w \in Workers, NEW s \in Sessions, thread[s] = w, NEW t,
         UNCHANGED <<thread, characters, deleted>>, task' = [task EXCEPT ![w] = t],
         \A x \in Sessions \ {s} : client'[x] = client[x],
         conn'.pending \in {conn.pending, w, None}, \A m \in sent' : m.cmd # "1406",
         TaskOwned(w)', ClientOwned(s)'
  PROVE  OwnInv'
  BY SameRows, NoneCreated, StepOwned

\* The connection after a step of worker w, which goes on to t.
LEMMA ConnOwned ==
  ASSUME CharTyped, OwnInv, NEW w \in Workers, NEW t,
         \/ conn' = Fetched(conn, w)
         \/ conn' = Asked(conn, w) /\ t.at \in Asking
         \/ conn'.pending = conn.pending /\ task[w].at \notin Asking
  PROVE  conn'.pending \in {conn.pending, w, None} /\ (conn'.pending = w => t.at \in Asking)
  <1>1. conn \in [pending : Workers \cup {None}, insertId : 0..MaxId]
    BY DEF CharTyped, StateTyped, ConnTyped
  <1>2. CASE conn' = Fetched(conn, w)
    BY <1>1, <1>2, WorkersFinite DEF Fetched
  <1>3. CASE conn' = Asked(conn, w) /\ t.at \in Asking
    BY <1>1, <1>3 DEF Asked, Sent
  <1>4. CASE conn'.pending = conn.pending /\ task[w].at \notin Asking
    BY <1>4 DEF OwnInv, TaskOwned
  <1> QED BY <1>2, <1>3, <1>4

\* One that makes no claim about a character.
LEMMA PlainOwned ==
  ASSUME CharTyped, OwnInv, NEW w \in Workers, NEW s \in Sessions, thread[s] = w, NEW t,
         UNCHANGED <<thread, characters, deleted, client>>, task' = [task EXCEPT ![w] = t],
         t.at \notin {"select", "picked", "taken", "insert", "created"},
         \/ conn' = Fetched(conn, w)
         \/ conn' = Asked(conn, w) /\ t.at \in Asking
         \/ conn'.pending = conn.pending /\ task[w].at \notin Asking,
         \A m \in sent' : m.cmd # "1406"
  PROVE  OwnInv'
  <1>1. conn'.pending \in {conn.pending, w, None} /\ (conn'.pending = w => t.at \in Asking)
    BY ConnOwned
  <1>2. task'[w] = t
    BY DEF CharTyped
  <1>3. TaskOwned(w)'
    BY <1>1, <1>2 DEF TaskOwned
  <1>4. ClientOwned(s)'
    BY DEF OwnInv, ClientOwned, Owned
  <1> QED BY <1>1, <1>3, <1>4, TableOwned

LEMMA LoginOwned ==
  ASSUME CharTyped, OwnInv, NEW w \in Workers, Login(w)
  PROVE  OwnInv'
  <1>1. ASSUME NEW s \in Sessions, RefuseZero(w, s) PROVE OwnInv'
    <2>1. /\ thread[s] = w /\ task[w] = Idle /\ task' = [task EXCEPT ![w] = Idle]
          /\ UNCHANGED <<thread, characters, deleted>> /\ conn' = conn
          /\ client[s].id = None
      BY <1>1 DEF RefuseZero, Serves, Free, same, dbVars, CharTyped
    <2>2. client' = [client EXCEPT ![s].user = None]
      BY <1>1 DEF RefuseZero
    <2>3. \A m \in sent' : m.cmd # "1406"
      BY <1>1 DEF RefuseZero, Say
    <2>4. client'[s].name = None
      BY <2>1, <2>2 DEF OwnInv, ClientOwned, CharTyped, StateTyped, Client
    <2>5. /\ conn'.pending \in {conn.pending, w, None}
          /\ conn'.pending = w => Idle.at \in Asking
      BY <2>1, IdleIsPlain, ConnOwned DEF Asking
    <2>6. TaskOwned(w)'
      BY <2>1, <2>5, IdleIsPlain DEF TaskOwned, CharTyped
    <2>7. ClientOwned(s)'
      BY <2>4 DEF ClientOwned
    <2>8. \A x \in Sessions \ {s} : client'[x] = client[x]
      BY <2>2 DEF CharTyped, StateTyped
    <2> QED BY <2>1, <2>3, <2>5, <2>6, <2>7, <2>8, TableOwned
  <1>2. ASSUME NEW s \in Sessions, NEW tk \in Tokens, AskUser(w, s, tk) PROVE OwnInv'
    <2> DEFINE t == [at |-> "user", s |-> s, ok |-> Sent(conn),
                     rows |-> {u \in Users : loginid[u] = tk}]
    <2>1. /\ thread[s] = w /\ task' = [task EXCEPT ![w] = t]
          /\ UNCHANGED <<thread, characters, deleted>> /\ conn' = Asked(conn, w)
          /\ client[s].id = None /\ sent' = {}
      BY <1>2 DEF AskUser, Ask, Goto, Serves, Quiet, same, dbVars
    <2>2. client' = [client EXCEPT ![s].user = None] /\ t.at = "user"
      BY <1>2 DEF AskUser
    <2>3. client'[s].name = None
      BY <2>1, <2>2 DEF OwnInv, ClientOwned, CharTyped, StateTyped, Client
    <2> HIDE DEF t
    <2>4. /\ conn'.pending \in {conn.pending, w, None}
          /\ conn'.pending = w => t.at \in Asking
      BY <2>1, <2>2, ConnOwned DEF Asking
    <2>5. TaskOwned(w)'
      BY <2>1, <2>2, <2>4 DEF TaskOwned, CharTyped
    <2>6. ClientOwned(s)'
      BY <2>3 DEF ClientOwned
    <2>7. \A x \in Sessions \ {s} : client'[x] = client[x]
      BY <2>2 DEF CharTyped, StateTyped
    <2> QED BY <2>1, <2>4, <2>5, <2>6, <2>7, TableOwned
  <1>3. ASSUME CheckUser(w) PROVE OwnInv'
    <2>1. /\ task[w].at = "user" /\ conn' = Fetched(conn, w)
          /\ UNCHANGED <<thread, characters, deleted>>
      BY <1>3 DEF CheckUser, At, Fetch, same, dbVars
    <2>2. PICK s \in Sessions : /\ s = task[w].s /\ thread[s] = w /\ client[s].id = None
                               /\ task[w].rows \subseteq Users
      BY <2>1, IdleIsPlain, BusyServes DEF TaskTyped
    <2> DEFINE on == [at |-> "load", s |-> s]
    <2>3. \A m \in sent' : m.cmd # "1406"
      <3>1. sent' \in {{}, {[to |-> s, cmd |-> "0c09"]}}
        BY <1>3, <2>2 DEF CheckUser, Say, Quiet
      <3> QED BY <3>1
    <2>4. \/ client' = client
          \/ \E u \in Users : \/ client' = [client EXCEPT ![s].user = u]
                              \/ client' = [client EXCEPT ![s].id = u, ![s].user = u]
      BY <1>3, <2>2 DEF CheckUser, Result
    <2>5. client[s].name = None
      BY <2>2 DEF OwnInv, ClientOwned
    <2>8. PICK t \in {Idle, on} : task' = [task EXCEPT ![w] = t]
      BY <1>3, <2>2 DEF CheckUser, Done, Goto
    <2>9. t.at \in {"idle", "load"}
      BY <2>8, IdleIsPlain
    <2> HIDE DEF on
    <2>6. client'[s].name = None /\ \A x \in Sessions \ {s} : client'[x] = client[x]
      <3>1. client \in [Sessions -> Client]
        BY DEF CharTyped, StateTyped
      <3>2. CASE client' = client
        BY <2>5, <3>2
      <3>3. ASSUME NEW u \in Users, client' = [client EXCEPT ![s].user = u]
            PROVE  client'[s].name = None /\ \A x \in Sessions \ {s} : client'[x] = client[x]
        BY <2>2, <2>5, <3>1, <3>3 DEF Client
      <3>4. ASSUME NEW u \in Users, client' = [client EXCEPT ![s].id = u, ![s].user = u]
            PROVE  client'[s].name = None /\ \A x \in Sessions \ {s} : client'[x] = client[x]
        BY <2>2, <2>5, <3>1, <3>4 DEF Client
      <3> QED BY <2>4, <3>2, <3>3, <3>4
    <2>7. ClientOwned(s)'
      BY <2>6 DEF ClientOwned
    <2>10. /\ conn'.pending \in {conn.pending, w, None}
           /\ conn'.pending = w => t.at \in Asking
      BY <2>1, ConnOwned
    <2>11. TaskOwned(w)'
      BY <2>8, <2>9, <2>10 DEF TaskOwned, CharTyped
    <2> QED BY <2>1, <2>2, <2>3, <2>6, <2>7, <2>8, <2>10, <2>11, TableOwned
  <1>4. ASSUME LoadCount(w) \/ StoreCount(w) \/ ReportCount(w) PROVE OwnInv'
    <2> DEFINE s == task[w].s
    <2>1. /\ task[w].at \in {"load", "store", "report"} /\ conn' = conn
          /\ UNCHANGED <<thread, characters, deleted, client>>
          /\ \A m \in sent' : m.cmd # "1406"
      BY <1>4 DEF LoadCount, StoreCount, ReportCount, At, Say, Quiet, same, dbVars
    <2>2. s \in Sessions /\ thread[s] = w
      BY <2>1, IdleIsPlain, BusyServes
    <2> DEFINE store == [at |-> "store", s |-> s, n |-> currentusers]
               report == [at |-> "report", s |-> s]
               list == [at |-> "list", s |-> s]
    <2>3. PICK t \in {store, report, list} : task' = [task EXCEPT ![w] = t]
      BY <1>4 DEF LoadCount, StoreCount, ReportCount, Goto
    <2>5. t.at \in {"store", "report", "list"}
      BY <2>3
    <2> HIDE DEF store, report, list
    <2>4. task[w].at \notin Asking
      BY <2>1 DEF Asking
    <2> QED BY <2>1, <2>2, <2>3, <2>4, <2>5, PlainOwned
  <1> QED BY <1>1, <1>2, <1>3, <1>4 DEF Login

LEMMA ListOwned ==
  ASSUME CharTyped, OwnInv, NEW w \in Workers, List(w)
  PROVE  OwnInv'
  <1>1. ASSUME NEW s \in Sessions, PickChar(w, s) PROVE OwnInv'
    <2>1. /\ thread[s] = w /\ task[w] = Idle /\ conn' = conn /\ sent' = {}
          /\ UNCHANGED <<thread, characters, deleted, client>>
      BY <1>1 DEF PickChar, SignedIn, Serves, Free, Quiet, same, dbVars
    <2> DEFINE t == [at |-> "list", s |-> s]
    <2>2. task' = [task EXCEPT ![w] = t] /\ t.at = "list"
      BY <1>1 DEF PickChar, Goto
    <2> HIDE DEF t
    <2>3. task[w].at \notin Asking
      BY <2>1, IdleIsPlain DEF Asking
    <2> QED BY <2>1, <2>2, <2>3, PlainOwned
  <1>2. ASSUME AskList(w) PROVE OwnInv'
    <2>1. /\ task[w].at = "list" /\ conn' = Asked(conn, w) /\ sent' = {}
          /\ UNCHANGED <<thread, characters, deleted, client>>
      BY <1>2 DEF AskList, At, Ask, Quiet, same, dbVars
    <2> DEFINE t == [at |-> "send", s |-> task[w].s, ok |-> Sent(conn),
                     rows |-> {r.id : r \in CharsOf(client[task[w].s].user)}]
    <2>2. task' = [task EXCEPT ![w] = t] /\ t.at = "send"
      BY <1>2 DEF AskList, Ask, Goto
    <2> HIDE DEF t
    <2>3. task[w].s \in Sessions /\ thread[task[w].s] = w
      BY <2>1, IdleIsPlain, BusyServes
    <2>4. t.at \in Asking
      BY <2>2 DEF Asking
    <2> QED BY <2>1, <2>2, <2>3, <2>4, PlainOwned
  <1>3. ASSUME SendCharList(w) PROVE OwnInv'
    <2>1. /\ task[w].at = "send" /\ conn' = Fetched(conn, w)
          /\ UNCHANGED <<thread, characters, deleted, client>>
          /\ \A m \in sent' : m.cmd # "1406"
      BY <1>3 DEF SendCharList, At, Fetch, Say, same, dbVars
    <2>2. task' = [task EXCEPT ![w] = Idle]
      BY <1>3 DEF SendCharList, Done, Goto
    <2>3. task[w].s \in Sessions /\ thread[task[w].s] = w
      BY <2>1, IdleIsPlain, BusyServes
    <2> QED BY <2>1, <2>2, <2>3, IdleIsPlain, PlainOwned
  <1> QED BY <1>1, <1>2, <1>3 DEF List

\* A name is free if none of the finitely many characters has it.
LEMMA NoneNamed ==
  ASSUME CharInv, NEW n
  PROVE  Cardinality(Named(n)) \in Nat /\ (Cardinality(Named(n)) = 0 => Named(n) = {})
  <1>1. Named(n) \in SUBSET characters /\ IsFiniteSet(characters)
    BY DEF Named, CharInv, Shape
  <1>2. IsFiniteSet(Named(n))
    BY <1>1, FS_Subset
  <1> QED BY <1>2, FS_CardinalityType, FS_EmptySet

\* From the check of the name to the INSERT, with one thread, it stays free.
LEMMA NamingOwned ==
  ASSUME CharInv, CharTyped, OwnInv, NEW w \in Workers,
         CheckCount(w) \/ AskName(w) \/ CheckName(w)
  PROVE  OwnInv'
  <1>1. ASSUME CheckCount(w) PROVE OwnInv'
    <2>1. /\ task[w].at = "count" /\ conn' = Fetched(conn, w) /\ sent' = {}
          /\ UNCHANGED <<thread, characters, deleted, client>>
      BY <1>1 DEF CheckCount, At, Fetch, Quiet, same, dbVars
    <2>2. PICK s \in Sessions : s = task[w].s /\ thread[s] = w
      BY <2>1, IdleIsPlain, BusyServes
    <2> DEFINE on == [at |-> "name", s |-> task[w].s, name |-> task[w].name,
                      slot |-> task[w].slot]
    <2>3. PICK t \in {Idle, on} : task' = [task EXCEPT ![w] = t]
      BY <1>1 DEF CheckCount, Crash, Done, Goto
    <2>4. t.at \in {"idle", "name"}
      BY <2>3, IdleIsPlain
    <2> HIDE DEF on
    <2> QED BY <2>1, <2>2, <2>3, <2>4, PlainOwned
  <1>2. ASSUME AskName(w) PROVE OwnInv'
    <2>1. /\ task[w].at = "name" /\ conn' = Asked(conn, w) /\ sent' = {}
          /\ UNCHANGED <<thread, characters, deleted, client>>
      BY <1>2 DEF AskName, At, Ask, Quiet, same, dbVars
    <2>2. PICK s \in Sessions : s = task[w].s /\ thread[s] = w
      BY <2>1, IdleIsPlain, BusyServes
    <2> DEFINE t == [at |-> "taken", s |-> task[w].s, name |-> task[w].name,
                     slot |-> task[w].slot, ok |-> Sent(conn),
                     num |-> Cardinality(Named(task[w].name))]
    <2>3. task' = [task EXCEPT ![w] = t]
      BY <1>2 DEF AskName, Ask, Goto
    <2>4. /\ t.at = "taken" /\ t.name = task[w].name
          /\ t.num = Cardinality(Named(task[w].name))
      OBVIOUS
    <2> HIDE DEF t
    <2>5. task'[w] = t
      BY <2>3 DEF CharTyped
    <2>6. /\ conn'.pending \in {conn.pending, w, None}
          /\ conn'.pending = w => t.at \in Asking
      BY <2>1, <2>4, ConnOwned DEF Asking
    <2>7. t.num \in Nat /\ (t.num = 0 => Named(t.name) = {})
      BY <2>4, NoneNamed
    <2>8. TaskOwned(w)'
      <3>1. \A n : Named(n)' = Named(n)
        BY <2>1 DEF Named
      <3> QED BY <2>4, <2>5, <2>6, <2>7, <3>1 DEF TaskOwned, Named
    <2>9. ClientOwned(s)'
      BY <2>1 DEF OwnInv, ClientOwned, Owned
    <2> QED BY <2>1, <2>2, <2>3, <2>6, <2>8, <2>9, TableOwned
  <1>3. ASSUME CheckName(w) PROVE OwnInv'
    <2>1. /\ task[w].at = "taken" /\ conn' = Fetched(conn, w)
          /\ UNCHANGED <<thread, characters, deleted, client>>
      BY <1>3 DEF CheckName, At, Fetch, same, dbVars
    <2>2. PICK s \in Sessions : s = task[w].s /\ thread[s] = w
      BY <2>1, IdleIsPlain, BusyServes
    <2>3. \A m \in sent' : m.cmd # "1406"
      <3>1. sent' \in {{}, {[to |-> s, cmd |-> "1404"]}}
        BY <1>3, <2>2 DEF CheckName, Say, Quiet
      <3> QED BY <3>1
    <2> DEFINE on == [at |-> "insert", s |-> task[w].s, name |-> task[w].name,
                      slot |-> task[w].slot]
    <2>4. CASE task' = [task EXCEPT ![w] = Idle]
      BY <2>1, <2>2, <2>3, <2>4, IdleIsPlain, PlainOwned
    <2>5. CASE task' = [task EXCEPT ![w] = on] /\ ~(task[w].num > 0)
      <3>1. task'[w] = on /\ on.at = "insert" /\ on.name = task[w].name
        BY <2>5 DEF CharTyped
      <3>2. OneThread => Named(task[w].name) = {}
        BY <2>1, <2>5 DEF OwnInv, TaskOwned
      <3>3. /\ conn'.pending \in {conn.pending, w, None}
            /\ conn'.pending = w => on.at \in Asking
        BY <2>1, ConnOwned
      <3> HIDE DEF on
      <3>4. TaskOwned(w)'
        <4>1. (OneThread' <=> OneThread) /\ Named(task[w].name) = {r \in characters' : r.name = task[w].name}
          BY <2>1 DEF OneThread, Threads, Named
        <4> QED BY <3>1, <3>2, <3>3, <4>1 DEF TaskOwned, Named
      <3>5. ClientOwned(s)'
        BY <2>1 DEF OwnInv, ClientOwned, Owned
      <3> QED BY <2>1, <2>2, <2>3, <2>5, <3>3, <3>4, <3>5, TableOwned
    <2>6. \/ task' = [task EXCEPT ![w] = Idle]
          \/ task' = [task EXCEPT ![w] = on] /\ ~(task[w].num > 0)
      BY <1>3 DEF CheckName, Crash, Done, Goto
    <2> QED BY <2>4, <2>5, <2>6
  <1> QED BY <1>1, <1>2, <1>3

\* The INSERT makes the row that the reply will name.
LEMMA InsertOwned ==
  ASSUME CharTyped, OwnInv, NEW w \in Workers, InsertChar(w)
  PROVE  OwnInv'
  <1>1. task[w].at = "insert" /\ UNCHANGED <<thread, client, deleted>> /\ sent' = {}
    BY DEF InsertChar, At, Quiet, same
  <1>2. PICK s \in Sessions : s = task[w].s /\ thread[s] = w
    BY <1>1, IdleIsPlain, BusyServes
  <1> DEFINE t == [at |-> "created", s |-> task[w].s, name |-> task[w].name,
                   slot |-> task[w].slot]
  <1>11. PICK u : u = client[s].user
    OBVIOUS
  <1>3. task' = [task EXCEPT ![w] = t]
    BY DEF InsertChar, Goto
  <1>4. t.at = "created" /\ t.name = task[w].name /\ t.slot = task[w].slot /\ t.s = s
    BY <1>2
  <1> HIDE DEF t
  <1>5. task'[w] = t
    BY <1>3 DEF CharTyped
  <1>6. conn.pending # w
    BY <1>1 DEF OwnInv, TaskOwned, Asking
  <1>7. conn \in [pending : Workers \cup {None}, insertId : 0..MaxId]
    BY DEF CharTyped, StateTyped, ConnTyped
  <1>8. OneThread' <=> OneThread
    BY <1>1 DEF OneThread, Threads
  <1>9. CASE ~Sent(conn)
    <2>1. characters' = characters /\ conn' = conn
      BY <1>9 DEF InsertChar, dbVars
    <2>2. ~OneThread
      <3>1. conn.pending \in Workers \ {w}
        BY <1>6, <1>7, <1>9 DEF Sent
      <3>2. task[conn.pending].at \in Asking
        BY <3>1 DEF OwnInv, TaskOwned
      <3>3. task[conn.pending] # Idle
        BY <3>2, IdleIsPlain DEF Asking
      <3> QED BY <1>2, <3>1, <3>3, OthersIdle
    <2>3. TaskOwned(w)'
      BY <1>4, <1>5, <1>6, <1>8, <2>1, <2>2 DEF TaskOwned
    <2>4. ClientOwned(s)'
      BY <1>1, <2>1 DEF OwnInv, ClientOwned, Owned
    <2> QED BY <1>1, <1>2, <1>3, <2>1, <2>3, <2>4, TableOwned
  <1>10. CASE Sent(conn)
    <2> DEFINE row == [id |-> lastId + 1, owner |-> u, name |-> task[w].name,
                       slot |-> task[w].slot, bars |-> None]
    <2>1. /\ Insert(client[task[w].s].user, task[w].name, task[w].slot)
          /\ conn' = [conn EXCEPT !.insertId = lastId + 1]
      BY <1>10 DEF InsertChar
    <2>2. characters' = characters \cup {row}
      BY <1>2, <1>11, <2>1 DEF Insert
    <2>3. conn'.insertId = lastId + 1 /\ conn'.pending = conn.pending
      BY <1>7, <2>1
    <2>4. /\ row.id = conn'.insertId /\ row.owner = u /\ row.name = task[w].name
          /\ row.slot = task[w].slot /\ row.bars = None
      BY <2>3
    <2> HIDE DEF row
    <2>5. OneThread => Named(task[w].name) = {}
      BY <1>1 DEF OwnInv, TaskOwned
    <2>6. \A n, v : Owned(n, v) => Owned(n, v)'
      BY <1>1, <2>2 DEF Owned
    <2>7. OneOwner'
      BY <1>8, <2>2, <2>4, <2>5 DEF OwnInv, OneOwner, Named
    <2>8. SavesToOwner'
      BY <1>1, <1>8, <2>2, <2>4 DEF OwnInv, SavesToOwner
    <2>9. TaskOwned(w)'
      <3>1. row \in CharsOf(u)'
        BY <2>2, <2>4 DEF CharsOf
      <3>2. client'[t.s].user = u
        BY <1>1, <1>4, <1>11
      <3>3. \E r \in CharsOf(client[task[w].s].user)' :
              r.id = conn'.insertId /\ r.name = t.name /\ r.slot = t.slot
        BY <1>4, <1>5, <2>4, <3>1, <3>2 DEF CharsOf
      <3> QED BY <1>4, <1>5, <1>6, <2>3, <3>3 DEF TaskOwned
    <2>10. ClientOwned(s)'
      <3>1. ClientOwned(s) /\ client'[s] = client[s]
        BY <1>1 DEF OwnInv
      <3> QED BY <1>1, <2>2, <3>1 DEF ClientOwned, Owned
    <2>11. CreatedTold'
      BY <1>1, NoneCreated
    <2> QED BY <1>1, <1>2, <1>3, <2>3, <2>6, <2>7, <2>8, <2>9, <2>10, <2>11, StepOwned
  <1> QED BY <1>9, <1>10

LEMMA CreateOwned ==
  ASSUME CharInv, CharTyped, OwnInv, NEW w \in Workers, Create(w)
  PROVE  OwnInv'
  <1>1. ASSUME NEW s \in Sessions, NEW n \in Names, NEW sl \in Slots, AskCount(w, s, n, sl)
        PROVE  OwnInv'
    <2> DEFINE t == [at |-> "count", s |-> s, name |-> n, slot |-> sl, ok |-> Sent(conn),
                     num |-> Cardinality(CharsOf(client[s].user))]
    <2>1. /\ thread[s] = w /\ conn' = Asked(conn, w) /\ sent' = {}
          /\ UNCHANGED <<thread, characters, deleted, client>>
          /\ task' = [task EXCEPT ![w] = t]
      BY <1>1 DEF AskCount, Ask, Goto, SignedIn, Serves, Quiet, same, dbVars
    <2>2. t.at = "count" /\ t.at \in Asking
      BY DEF Asking
    <2> HIDE DEF t
    <2> QED BY <2>1, <2>2, PlainOwned
  <1>2. ASSUME SendCreated(w) PROVE OwnInv'
    <2>1. /\ task[w].at = "created" /\ conn' = conn /\ task' = [task EXCEPT ![w] = Idle]
          /\ UNCHANGED <<thread, characters, deleted, client>>
      BY <1>2 DEF SendCreated, At, Done, Goto, same, dbVars
    <2>2. PICK s \in Sessions : s = task[w].s /\ thread[s] = w
      BY <2>1, IdleIsPlain, BusyServes
    <2>9. PICK reply : reply = [to |-> task[w].s, cmd |-> "1406", id |-> conn.insertId,
                                name |-> task[w].name, slot |-> task[w].slot]
      OBVIOUS
    <2>3. sent' = {reply}
      BY <1>2, <2>9 DEF SendCreated, Say
    <2>4. OneThread' <=> OneThread
      BY <2>1 DEF OneThread, Threads
    <2>5. CreatedTold'
      <3>1. OneThread => \E r \in CharsOf(client[s].user) :
                           r.id = reply.id /\ r.name = reply.name /\ r.slot = reply.slot
        BY <2>1, <2>2, <2>9 DEF OwnInv, TaskOwned
      <3>2. reply.to = s
        BY <2>2, <2>9
      <3>3. OneThread => \E r \in CharsOf(client[reply.to].user)' :
                           r.id = reply.id /\ r.name = reply.name /\ r.slot = reply.slot
        BY <2>1, <3>1, <3>2 DEF CharsOf
      <3> QED BY <2>3, <2>4, <3>3 DEF CreatedTold, CharsOf
    <2>6. /\ conn'.pending \in {conn.pending, w, None}
          /\ conn'.pending = w => Idle.at \in Asking
      BY <2>1, ConnOwned DEF Asking
    <2>7. TaskOwned(w)'
      BY <2>1, <2>6, IdleIsPlain DEF TaskOwned, CharTyped
    <2>8. ClientOwned(s)'
      BY <2>1 DEF OwnInv, ClientOwned, Owned
    <2> QED BY <2>1, <2>2, <2>5, <2>6, <2>7, <2>8, SameRows, StepOwned
  <1> QED BY <1>1, <1>2, NamingOwned, InsertOwned DEF Create

\* A worker that serves a client at once and stays idle claims nothing.
LEMMA WaitsOwned ==
  ASSUME CharTyped, OwnInv, NEW w \in Workers, task[w] = Idle, task' = task,
         conn'.pending = conn.pending
  PROVE  /\ TaskOwned(w)' /\ task' = [task EXCEPT ![w] = Idle]
         /\ conn'.pending \in {conn.pending, w, None}
  <1>1. conn.pending # w
    BY IdleIsPlain DEF OwnInv, TaskOwned, Asking
  <1>2. task' = [task EXCEPT ![w] = Idle]
    BY DEF CharTyped
  <1> QED BY <1>1, <1>2, IdleIsPlain DEF TaskOwned

LEMMA SelectOwned ==
  ASSUME CharTyped, OwnInv, NEW w \in Workers, Select(w)
  PROVE  OwnInv'
  <1>1. ASSUME NEW s \in Sessions, NEW sl \in Slots, DeleteChar(w, s, sl) PROVE OwnInv'
    <2>1. /\ thread[s] = w /\ task[w] = Idle /\ UNCHANGED <<thread, client, task>>
          /\ \A m \in sent' : m.cmd # "1406"
      BY <1>1 DEF DeleteChar, SignedIn, Serves, Free, Say, same
    <2>2. conn \in [pending : Workers \cup {None}, insertId : 0..MaxId]
      BY DEF CharTyped, StateTyped, ConnTyped
    <2>3. conn'.pending = conn.pending
      BY <1>1, <2>2 DEF DeleteChar
    <2>4. /\ characters' \subseteq characters /\ deleted \subseteq deleted'
          /\ \A r \in characters \ characters' : r.name \in deleted'
      BY <1>1 DEF DeleteChar, Delete, dbVars
    <2>5. OneThread' <=> OneThread
      BY <2>1 DEF OneThread, Threads
    <2>6. \A n, u : Owned(n, u) => Owned(n, u)'
      BY <2>4 DEF Owned
    <2>7. OneOwner' /\ SavesToOwner'
      BY <2>4, <2>5 DEF OwnInv, OneOwner, SavesToOwner
    <2>8. ClientOwned(s)'
      <3>1. ClientOwned(s) /\ client'[s] = client[s]
        BY <2>1 DEF OwnInv
      <3> QED BY <2>4, <3>1 DEF ClientOwned, Owned
    <2> QED BY <2>1, <2>3, <2>6, <2>7, <2>8, WaitsOwned, NoneCreated, StepOwned
  <1>2. ASSUME NEW s \in Sessions, NEW sl \in Slots, SelectChar(w, s, sl) PROVE OwnInv'
    <2> DEFINE t == [at |-> "select", s |-> s, slot |-> sl]
    <2>1. /\ thread[s] = w /\ task[w] = Idle /\ client[s].id # None /\ sent' = {}
          /\ UNCHANGED <<thread, characters, deleted, client>>
          /\ task' = [task EXCEPT ![w] = t]
      BY <1>2 DEF SelectChar, SignedIn, Serves, Free, Goto, Quiet, same, dbVars
    <2>2. t.at = "select" /\ t.s = s
      OBVIOUS
    <2> HIDE DEF t
    <2>3. conn \in [pending : Workers \cup {None}, insertId : 0..MaxId]
      BY DEF CharTyped, StateTyped, ConnTyped
    <2>4. conn'.pending = conn.pending
      BY <1>2, <2>3 DEF SelectChar
    <2>5. /\ conn'.pending \in {conn.pending, w, None}
          /\ conn'.pending = w => t.at \in Asking
      BY <2>1, <2>4, IdleIsPlain, ConnOwned DEF Asking
    <2>6. TaskOwned(w)'
      BY <2>1, <2>2, <2>5 DEF TaskOwned, CharTyped
    <2>7. ClientOwned(s)'
      BY <2>1 DEF OwnInv, ClientOwned, Owned
    <2> QED BY <2>1, <2>5, <2>6, <2>7, TableOwned
  <1>3. ASSUME AskSlot(w) PROVE OwnInv'
    <2>1. /\ task[w].at = "select" /\ conn' = Asked(conn, w) /\ sent' = {}
          /\ UNCHANGED <<thread, characters, deleted, client>>
      BY <1>3 DEF AskSlot, At, Ask, Quiet, same, dbVars
    <2>2. PICK s \in Sessions : s = task[w].s /\ thread[s] = w
      BY <2>1, IdleIsPlain, BusyServes
    <2>3. PICK rows : rows = {r.name : r \in {q \in CharsOf(client[task[w].s].user) :
                                                q.slot = task[w].slot}}
      OBVIOUS
    <2> DEFINE t == [at |-> "picked", s |-> task[w].s, ok |-> Sent(conn), rows |-> rows]
    <2>4. task' = [task EXCEPT ![w] = t]
      BY <1>3, <2>3 DEF AskSlot, Ask, Goto
    <2>5. t.at = "picked" /\ t.s = s /\ t.rows = rows
      BY <2>2
    <2> HIDE DEF t
    <2>6. /\ conn'.pending \in {conn.pending, w, None}
          /\ conn'.pending = w => t.at \in Asking
      BY <2>1, <2>5, ConnOwned DEF Asking
    <2>7. \A n \in rows : Owned(n, client[s].user)'
      BY <2>1, <2>2, <2>3 DEF CharsOf, Owned
    <2>8. client[s].id # None
      BY <2>1, <2>2 DEF OwnInv, TaskOwned
    <2>9. task'[w] = t /\ client'[s] = client[s]
      BY <2>1, <2>4 DEF CharTyped
    <2>10. TaskOwned(w)'
      BY <2>5, <2>6, <2>7, <2>8, <2>9 DEF TaskOwned, Owned
    <2>11. ClientOwned(s)'
      BY <2>1 DEF OwnInv, ClientOwned, Owned
    <2> QED BY <2>1, <2>2, <2>4, <2>6, <2>10, <2>11, TableOwned
  <1>4. ASSUME TakeSlot(w) PROVE OwnInv'
    <2>1. /\ task[w].at = "picked" /\ conn' = Fetched(conn, w) /\ sent' = {}
          /\ UNCHANGED <<thread, characters, deleted>>
      BY <1>4 DEF TakeSlot, At, Fetch, Quiet, same, dbVars
    <2>2. PICK s \in Sessions : s = task[w].s /\ thread[s] = w
      BY <2>1, IdleIsPlain, BusyServes
    <2> DEFINE on == [at |-> "redirect", s |-> task[w].s]
    <2>3. PICK t \in {Idle, on} : task' = [task EXCEPT ![w] = t]
      BY <1>4 DEF TakeSlot, Crash, Done, Goto
    <2>4. t.at \in {"idle", "redirect"}
      BY <2>3, IdleIsPlain
    <2> HIDE DEF on
    <2>5. /\ conn'.pending \in {conn.pending, w, None}
          /\ conn'.pending = w => t.at \in Asking
      BY <2>1, ConnOwned
    <2>6. TaskOwned(w)'
      BY <2>3, <2>4, <2>5 DEF TaskOwned, CharTyped
    <2>7. \/ client' = client
          \/ \E n \in task[w].rows : client' = [client EXCEPT ![s].name = n, ![s].picked = TRUE]
      BY <1>4, <2>2 DEF TakeSlot, Result
    <2>8. /\ client \in [Sessions -> Client] /\ client[s].id # None
          /\ \A n \in task[w].rows : Owned(n, client[s].user)
      BY <2>1, <2>2 DEF OwnInv, TaskOwned, CharTyped, StateTyped
    <2>9. ClientOwned(s)' /\ \A x \in Sessions \ {s} : client'[x] = client[x]
      <3>1. CASE client' = client
        BY <2>1, <3>1 DEF OwnInv, ClientOwned, Owned
      <3>2. ASSUME NEW n \in task[w].rows,
                   client' = [client EXCEPT ![s].name = n, ![s].picked = TRUE]
            PROVE  ClientOwned(s)' /\ \A x \in Sessions \ {s} : client'[x] = client[x]
        <4>1. client'[s].name = n /\ client'[s].id # None /\ client'[s].user = client[s].user
          BY <2>8, <3>2 DEF Client
        <4>2. Owned(n, client[s].user)
          BY <2>8
        <4> QED BY <2>1, <3>2, <2>8, <4>1, <4>2 DEF ClientOwned, Owned
      <3> QED BY <2>7, <3>1, <3>2
    <2> QED BY <2>1, <2>2, <2>3, <2>5, <2>6, <2>9, TableOwned
  <1>5. ASSUME Redirect(w) PROVE OwnInv'
    <2>1. /\ task[w].at = "redirect" /\ conn' = conn /\ task' = [task EXCEPT ![w] = Idle]
          /\ UNCHANGED <<thread, characters, deleted, client>>
      BY <1>5 DEF Redirect, At, Crash, Done, Goto, same, dbVars
    <2>2. PICK s \in Sessions : s = task[w].s /\ thread[s] = w
      BY <2>1, IdleIsPlain, BusyServes
    <2>3. \A m \in sent' : m.cmd # "1406"
      <3>1. sent' = {} \/ \E g : sent' = {[to |-> s, cmd |-> "1003", game |-> g]}
        BY <1>5, <2>2 DEF Redirect, Say, Quiet
      <3> QED BY <3>1
    <2>4. task[w].at \notin Asking
      BY <2>1 DEF Asking
    <2> QED BY <2>1, <2>2, <2>3, <2>4, IdleIsPlain, PlainOwned
  <1> QED BY <1>1, <1>2, <1>3, <1>4, <1>5 DEF Select

\* What is saved by name goes to rows of the client's own account.
LEMMA SaveOwned ==
  ASSUME CharTyped, OwnInv, NEW w \in Workers, NEW s \in Sessions, SaveQB(w, s)
  PROVE  OwnInv'
  <1>1. /\ thread[s] = w /\ task[w] = Idle /\ sent' = {}
        /\ UNCHANGED <<thread, client, task, deleted>>
    BY DEF SaveQB, SignedIn, Serves, Free, Quiet, same
  <1>2. conn \in [pending : Workers \cup {None}, insertId : 0..MaxId]
    BY DEF CharTyped, StateTyped, ConnTyped
  <1>3. conn'.pending = conn.pending
    BY <1>2 DEF SaveQB
  <1>4. OneThread' <=> OneThread
    BY <1>1 DEF OneThread, Threads
  <1>5. CASE characters' = characters
    <2>1. ClientOwned(s)'
      BY <1>1, <1>5 DEF OwnInv, ClientOwned, Owned
    <2> QED BY <1>1, <1>3, <1>5, <2>1, WaitsOwned, TableOwned
  <1>6. CASE SaveBars(client[s].user, client[s].name)
    <2>1. PICK u, n : u = client[s].user /\ n = client[s].name
      OBVIOUS
    <2> DEFINE edit(r) == IF r.name = n THEN [r EXCEPT !.bars = u] ELSE r
    <2>2. characters' = {edit(r) : r \in characters}
      BY <1>6, <2>1 DEF SaveBars
    <2>3. \A r \in characters : r \in Rows
      BY DEF CharTyped, StateTyped, DBTypeOK
    <2>4. \A r \in characters : /\ edit(r).name = r.name /\ edit(r).owner = r.owner
                                /\ edit(r).bars = IF r.name = n THEN u ELSE r.bars
      BY <2>3 DEF Rows
    <2> HIDE DEF edit
    <2>5. \A m, v : Owned(m, v) => Owned(m, v)'
      BY <1>1, <2>2, <2>4 DEF Owned
    <2>6. OneOwner'
      BY <1>4, <2>2, <2>4 DEF OwnInv, OneOwner
    <2>7. OneThread => \A r \in characters : r.name = n => r.name \in deleted \/ r.owner = u
      <3> SUFFICES ASSUME OneThread, NEW r \in characters, r.name = n, r.name \notin deleted
                   PROVE  r.owner = u
        OBVIOUS
      <3>1. n # None
        BY <2>3, TokensNamed DEF Rows
      <3>2. Owned(n, u)
        BY <2>1, <3>1 DEF OwnInv, ClientOwned
      <3>3. PICK q \in characters : q.name = n /\ q.owner = u
        BY <3>2 DEF Owned
      <3> QED BY <3>3 DEF OwnInv, OneOwner
    <2>8. SavesToOwner'
      <3> SUFFICES ASSUME OneThread, NEW r \in characters, r.name \notin deleted
                   PROVE  edit(r).bars \in {None, r.owner}
        BY <1>1, <1>4, <2>2, <2>4 DEF SavesToOwner
      <3>1. r.bars \in {None, r.owner}
        BY DEF OwnInv, SavesToOwner
      <3> QED BY <2>4, <2>7, <3>1
    <2>9. ClientOwned(s)'
      <3>1. ClientOwned(s) /\ client'[s] = client[s]
        BY <1>1 DEF OwnInv
      <3>2. Owned(client[s].name, client[s].user) =>
              \/ client[s].name \in deleted'
              \/ \E r \in characters' : r.name = client[s].name /\ r.owner = client[s].user
        BY <1>1, <2>2, <2>4 DEF Owned
      <3> QED BY <3>1, <3>2 DEF ClientOwned, Owned
    <2>10. CreatedTold'
      BY <1>1, NoneCreated
    <2> QED BY <1>1, <1>3, <2>5, <2>6, <2>8, <2>9, <2>10, WaitsOwned, StepOwned
  <1> QED BY <1>5, <1>6 DEF SaveQB, dbVars

LEMMA TalkOwned ==
  ASSUME CharTyped, OwnInv, NEW w \in Workers, Talk(w)
  PROVE  OwnInv'
  <1>1. ASSUME NEW s \in Sessions, AskQB(w, s) PROVE OwnInv'
    <2> DEFINE t == [at |-> "bars", s |-> s, ok |-> Sent(conn),
                     rows |-> {r.bars : r \in Named(client[s].name)}]
    <2>1. /\ thread[s] = w /\ conn' = Asked(conn, w) /\ sent' = {}
          /\ UNCHANGED <<thread, characters, deleted, client>>
          /\ task' = [task EXCEPT ![w] = t]
      BY <1>1 DEF AskQB, Ask, Goto, SignedIn, Serves, Quiet, same, dbVars
    <2>2. t.at = "bars" /\ t.at \in Asking
      BY DEF Asking
    <2> HIDE DEF t
    <2> QED BY <2>1, <2>2, PlainOwned
  <1>2. ASSUME SendQB(w) PROVE OwnInv'
    <2>1. /\ task[w].at = "bars" /\ conn' = Fetched(conn, w)
          /\ task' = [task EXCEPT ![w] = Idle]
          /\ UNCHANGED <<thread, characters, deleted, client>>
      BY <1>2 DEF SendQB, At, Fetch, Crash, Done, Goto, same, dbVars
    <2>2. PICK s \in Sessions : s = task[w].s /\ thread[s] = w
      BY <2>1, IdleIsPlain, BusyServes
    <2>3. \A m \in sent' : m.cmd # "1406"
      <3>1. sent' = {} \/ \E b : sent' = {[to |-> s, cmd |-> "bars", by |-> b]}
        BY <1>2, <2>2 DEF SendQB, Say, Quiet
      <3> QED BY <3>1
    <2> QED BY <2>1, <2>2, <2>3, IdleIsPlain, PlainOwned
  <1>3. ASSUME NEW s \in Sessions, NEW n \in Names, Whisper(w, s, n) PROVE OwnInv'
    <2>1. /\ thread[s] = w /\ task[w] = Idle /\ task' = task /\ conn' = conn
          /\ UNCHANGED <<thread, characters, deleted, client>>
      BY <1>3 DEF Whisper, SignedIn, Serves, Free, same, dbVars
    <2>2. \A m \in sent' : m.cmd # "1406"
      BY <1>3 DEF Whisper, Say
    <2>3. ClientOwned(s)'
      BY <2>1 DEF OwnInv, ClientOwned, Owned
    <2> QED BY <2>1, <2>2, <2>3, WaitsOwned, TableOwned
  <1> QED BY <1>1, <1>2, <1>3, SaveOwned DEF Talk

\* Clients and game servers come and go while no packet is handled.
LEMMA OthersOwned ==
  ASSUME CharTyped, OwnInv,
         \/ \E s \in Sessions : Connect(s) \/ Disconnect(s)
         \/ \E g \in Games : GameServerComes(g) \/ GameServerGoes(g)
         \/ UNCHANGED vars
  PROVE  OwnInv'
  <1>1. ASSUME NEW s \in Sessions, Connect(s) \/ Disconnect(s) PROVE OwnInv'
    <2>1. /\ \A v \in Workers : task[v] = Idle
          /\ UNCHANGED <<thread, characters, deleted, task, conn>>
          /\ client' = [client EXCEPT ![s] = Fresh] \/ client' = [client EXCEPT ![s] = Gone]
          /\ \A m \in sent' : m.cmd # "1406"
      BY <1>1 DEF Connect, Disconnect, ListFree, Say, Quiet, same, dbVars
    <2>2. Gone.name = None /\ Fresh.name = None
      BY DEF Gone, Fresh
    <2>3. client'[s].name = None /\ \A x \in Sessions \ {s} : client'[x] = client[x]
      BY <2>1, <2>2 DEF CharTyped, StateTyped
    <2>4. thread[s] \in Workers
      BY DEF CharTyped, StateTyped
    <2>5. ClientOwned(s)'
      BY <2>3 DEF ClientOwned
    <2>6. /\ TaskOwned(thread[s])' /\ task' = [task EXCEPT ![thread[s]] = Idle]
          /\ conn'.pending \in {conn.pending, thread[s], None}
      <3>1. PICK w \in Workers : w = thread[s]
        BY <2>4
      <3>2. TaskOwned(w)' /\ task' = [task EXCEPT ![w] = Idle]
            /\ conn'.pending \in {conn.pending, w, None}
        BY <2>1, WaitsOwned
      <3> QED BY <2>1, <3>1, <3>2
    <2> QED BY <2>1, <2>3, <2>4, <2>5, <2>6, TableOwned
  <1>2. ASSUME \/ \E g \in Games : GameServerComes(g) \/ GameServerGoes(g)
               \/ UNCHANGED vars
        PROVE  OwnInv'
    <2>1. /\ UNCHANGED <<thread, characters, deleted, task, conn, client>>
          /\ sent' \in {{}, sent}
      BY <1>2 DEF GameServerComes, GameServerGoes, Quiet, dbVars, vars, charVars
    <2>2. OneThread' <=> OneThread
      BY <2>1 DEF OneThread, Threads
    <2>3. CreatedTold'
      BY <2>1, <2>2 DEF OwnInv, CreatedTold, CharsOf
    <2>4. \A w \in Workers : TaskOwned(w)'
      BY <2>1, <2>2 DEF OwnInv, TaskOwned, CharsOf, Named, Owned
    <2>5. \A s \in Sessions : ClientOwned(s)'
      BY <2>1 DEF OwnInv, ClientOwned, Owned
    <2> QED BY <2>1, <2>3, <2>4, <2>5, SameRows DEF OwnInv
  <1> QED BY <1>1, <1>2

LEMMA OwnStart == Init => OwnInv
  <1> SUFFICES ASSUME Init PROVE OwnInv
    OBVIOUS
  <1>1. /\ conn.pending = None /\ characters = {} /\ sent = {}
        /\ \A w \in Workers : task[w] = Idle
        /\ \A s \in Sessions : client[s].name = None
    BY DEF Init, DBInit, CharInit, FreshConn, Gone
  <1>2. \A w \in Workers : TaskOwned(w)
    BY <1>1, IdleIsPlain, WorkersFinite DEF TaskOwned
  <1> QED BY <1>1, <1>2 DEF OwnInv, ClientOwned, OneOwner, SavesToOwner, CreatedTold

LEMMA OwnStep == CharInv /\ CharTyped /\ OwnInv /\ [Next]_vars => OwnInv'
  <1> SUFFICES ASSUME CharInv, CharTyped, OwnInv, [Next]_vars PROVE OwnInv'
    OBVIOUS
  <1>1. ASSUME NEW w \in Workers, Login(w) \/ List(w) \/ Create(w) \/ Select(w) \/ Talk(w)
        PROVE  OwnInv'
    BY <1>1, LoginOwned, ListOwned, CreateOwned, SelectOwned, TalkOwned
  <1> QED BY <1>1, OthersOwned DEF Next

LEMMA OwnInvariant == Spec => []OwnInv
  BY CharStart, CharStep, TypedStart, TypedStep, OwnStart, OwnStep, PTL DEF Spec

\* With one worker thread, the reply to pakCreateChar names the very row that
\* this handler inserted (LastInsertId, CCharServer.cpp:363).
THEOREM CreatedIsTold == Spec => []CreatedTold
  <1>1. OwnInv => CreatedTold
    BY DEF OwnInv
  <1> QED BY OwnInvariant, <1>1, PTL

\* With one worker thread, no client's quickbars are saved to a character of
\* another account, unless one of that name was deleted (CCharServer.cpp:511).
THEOREM SavedToOwner == Spec => []SavesToOwner
  <1>1. OwnInv => SavesToOwner
    BY DEF OwnInv
  <1> QED BY OwnInvariant, <1>1, PTL
=============================================================================
