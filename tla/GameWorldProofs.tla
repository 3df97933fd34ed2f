-------------------------- MODULE GameWorldProofs --------------------------
(***************************************************************************)
(* For every number of players, workers and maps: the lists of the maps    *)
(* and the screens of the clients agree.                                   *)
(*                                                                         *)
(* The argument goes by who is listed.  A client is in the list of its own *)
(* map from the moment its worker has that map's lock (ListedAreThere,     *)
(* ThereAreListed), and stays there when it disconnects: only RemoveClient *)
(* erases.  While a worker holds the lock, whoever it has yet to show is   *)
(* exactly what two clients on the map may be missing of each other        *)
(* (MissesNobody); nobody shows a client of another map (ShowsItsMap), as  *)
(* RemoveClient tells everyone left on the list.  When the lock is free    *)
(* nothing is missing, which is what the properties say.                   *)
(*                                                                         *)
(* The last part is about the ids of the entities of a map.                *)
(***************************************************************************)
EXTENDS GameWorld, EntityIds, SequenceTheorems, TLAPS
-----------------------------------------------------------------------------
(* The invariant                                                           *)

Stages == {"new", "login", "loading", "in", "gone"}
Character == [stage : Stages, map : Maps \cup {None}, gear : {"null", "made", "freed"}]
Handler == [at : {"idle"}] \cup [at : {"add", "hide", "free"}, p : Players]
             \cup [at : {"show"}, p : Players, todo : Seq(Players)]

WorldTypes ==
  /\ player \in [Players -> Character]
  /\ clientList \subseteq Players
  /\ mapList \in [Maps -> Seq(Players)]
  /\ writer \in [Maps -> Workers \cup {None}]
  /\ running \in [Maps -> BOOLEAN]
  /\ mapThread \in [Maps -> {"sleeps", "counts", "ended"}]
  /\ task \in [Workers -> Handler]
  /\ screen \in [Players -> SUBSET Players]

On(m) == ToSet(mapList[m])
Gone(p) == player[p].stage = "gone"
Adding(w, p) == task[w].at = "show" /\ task[w].p = p

\* A client whose Map pointer is set.
Mapped == \A p \in Players : player[p].stage \in {"loading", "in"} => player[p].map \in Maps

\* A list has no client twice.
NoDoubles ==
  \A m \in Maps : \A i, j \in DOMAIN mapList[m] : mapList[m][i] = mapList[m][j] => i = j

\* A handler runs on the client's own worker, on a client at that point of its way.
HandlersFit ==
  \A w \in Workers : task[w].at # "idle" =>
    /\ ThreadOf[task[w].p] = w
    /\ task[w].at \in {"add", "show"} => player[task[w].p].stage = "loading"
    /\ task[w].at \in {"hide", "free"} => Gone(task[w].p)

\* The lock of a map is held for writing by who adds a client to it, and who is
\* still to be shown is on that map.
LockHeld ==
  \A w \in Workers : task[w].at = "show" =>
    /\ writer[player[task[w].p].map] = w
    /\ ToSet(task[w].todo) \subseteq On(player[task[w].p].map)
HolderAdds ==
  \A m \in Maps, w \in Workers :
    writer[m] = w => task[w].at = "show" /\ player[task[w].p].map = m

\* Who is on a map, and who must be.
ListedAreThere ==
  \A m \in Maps : \A p \in On(m) :
    /\ player[p].map = m
    /\ player[p].stage \in {"in", "gone"} \/ Adding(ThreadOf[p], p)
ThereAreListed ==
  \A p \in Players : (player[p].stage = "in" \/ Adding(ThreadOf[p], p)) => p \in On(player[p].map)

\* A client shows nobody of another map...
ShowsItsMap ==
  \A p \in Players : \A q \in screen[p] :
    /\ player[p].stage \in {"loading", "in"} /\ p \in On(player[p].map)
    /\ Gone(q) \/ q \in On(player[p].map)
\* ... and everybody of its own, but for those its lock's holder has yet to show.
YetToShow(m, p, q) ==
  \E w \in Workers :
    /\ writer[m] = w
    /\ \/ task[w].p = p /\ q \in ToSet(task[w].todo)
       \/ task[w].p = q /\ p \in ToSet(task[w].todo)
MissesNobody ==
  \A m \in Maps : \A p, q \in On(m) :
    Gone(p) \/ Gone(q) \/ q \in screen[p] \/ YetToShow(m, p, q)

WorldInv ==
  /\ WorldTypes
  /\ Mapped /\ NoDoubles /\ HandlersFit
  /\ LockHeld /\ HolderAdds
  /\ ListedAreThere /\ ThereAreListed
  /\ ShowsItsMap /\ MissesNobody
  /\ ~astray
-----------------------------------------------------------------------------
(* Lists                                                                    *)

\* push_back: one more client, at the end.
LEMMA AppendedTo ==
  ASSUME NEW S, NEW s \in Seq(S), NEW e \in S
  PROVE  /\ Append(s, e) \in Seq(S)
         /\ ToSet(Append(s, e)) = ToSet(s) \cup {e}
         /\ (\A i, j \in DOMAIN s : s[i] = s[j] => i = j) /\ e \notin ToSet(s)
              => \A i, j \in DOMAIN Append(s, e) : Append(s, e)[i] = Append(s, e)[j] => i = j
  <1> DEFINE t == Append(s, e)
             n == Len(s)
  <1>1. /\ t \in Seq(S) /\ Len(t) = n + 1 /\ t[n + 1] = e
        /\ \A i \in 1..n : t[i] = s[i]
        /\ n \in Nat /\ DOMAIN s = 1..n
    BY AppendProperties, LenProperties
  <1>2. DOMAIN t = 1..(n + 1)
    BY <1>1, LenProperties
  <1> HIDE DEF t, n
  <1>3. \A i \in 1..(n + 1) : i = n + 1 \/ i \in 1..n
    BY <1>1
  <1>4. \A i \in 1..n : i \in 1..(n + 1) /\ i # n + 1
    BY <1>1
  <1>5. n + 1 \in 1..(n + 1)
    BY <1>1
  <1>6. ToSet(t) = ToSet(s) \cup {e}
    BY <1>1, <1>2, <1>3, <1>4, <1>5 DEF ToSet
  <1>7. ASSUME \A i, j \in DOMAIN s : s[i] = s[j] => i = j, e \notin ToSet(s),
               NEW i \in DOMAIN t, NEW j \in DOMAIN t, t[i] = t[j]
        PROVE  i = j
    <2>1. \A k \in 1..n : s[k] # e
      BY <1>1, <1>7 DEF ToSet
    <2> QED BY <2>1, <1>1, <1>2, <1>3, <1>7
  <1> QED BY <1>1, <1>6, <1>7 DEF t

\* What is left of a list after its first client.
LEMMA TailOf ==
  ASSUME NEW S, NEW s \in Seq(S), s # <<>>
  PROVE  /\ Head(s) \in S /\ Tail(s) \in Seq(S)
         /\ ToSet(s) = {Head(s)} \cup ToSet(Tail(s))
  <1> DEFINE t == Tail(s)
             n == Len(s)
  <1>1. /\ Head(s) \in S /\ t \in Seq(S) /\ Len(t) = n - 1
        /\ \A i \in 1..(n - 1) : t[i] = s[i + 1]
        /\ n \in Nat \ {0} /\ DOMAIN s = 1..n
    BY HeadTailProperties, LenProperties, EmptySeq
  <1>2. DOMAIN t = 1..(n - 1) /\ Head(s) = s[1]
    BY <1>1, LenProperties
  <1> HIDE DEF t, n
  <1>3. \A i \in 1..n : i = 1 \/ (i - 1 \in 1..(n - 1) /\ i = (i - 1) + 1)
    BY <1>1
  <1>4. \A i \in 1..(n - 1) : i + 1 \in 1..n
    BY <1>1
  <1>5. 1 \in 1..n
    BY <1>1
  <1>6. ToSet(s) \subseteq {Head(s)} \cup ToSet(t)
    <2> SUFFICES ASSUME NEW i \in 1..n PROVE s[i] = Head(s) \/ \E k \in DOMAIN t : t[k] = s[i]
      BY <1>1 DEF ToSet
    <2>1. CASE i = 1
      BY <2>1, <1>2
    <2>2. CASE i # 1
      <3>1. i - 1 \in 1..(n - 1) /\ i = (i - 1) + 1
        BY <2>2, <1>3
      <3>2. t[i - 1] = s[i]
        BY <3>1, <1>1
      <3> QED BY <3>1, <3>2, <1>2
    <2> QED BY <2>1, <2>2
  <1>7. {Head(s)} \cup ToSet(t) \subseteq ToSet(s)
    BY <1>1, <1>2, <1>4, <1>5 DEF ToSet
  <1> QED BY <1>1, <1>6, <1>7 DEF t

\* erase: the others stay, in their order.
LEMMA ErasedFrom ==
  ASSUME NEW S, NEW s \in Seq(S), NEW a \in DOMAIN s,
         \A i, j \in DOMAIN s : s[i] = s[j] => i = j
  PROVE  /\ RemoveAt(s, a) \in Seq(S)
         /\ ToSet(RemoveAt(s, a)) = ToSet(s) \ {s[a]}
         /\ \A i, j \in DOMAIN RemoveAt(s, a) :
              RemoveAt(s, a)[i] = RemoveAt(s, a)[j] => i = j
  <1> DEFINE n == Len(s)
             before == SubSeq(s, 1, a - 1)
             after == SubSeq(s, a + 1, n)
             t == RemoveAt(s, a)
  <1>1. /\ n \in Nat /\ DOMAIN s = 1..n /\ a \in 1..n
        /\ \A i \in 1..n : s[i] \in S
    BY LenProperties, ElementOfSeq
  <1>2. /\ before \in Seq(S) /\ Len(before) = a - 1
        /\ \A i \in 1..(a - 1) : before[i] = s[i]
    <2>1. /\ 1 \in Int /\ a - 1 \in Int
          /\ \A i \in 1..(a - 1) : s[i] \in S
      BY <1>1
    <2>2. /\ before \in Seq(S)
          /\ Len(before) = IF 1 <= a - 1 THEN a - 1 - 1 + 1 ELSE 0
          /\ \A i \in 1..(a - 1 - 1 + 1) : before[i] = s[1 + i - 1]
      BY <2>1, SubSeqProperties
    <2> HIDE DEF before
    <2> QED BY <2>2, <1>1
  <1>3. /\ after \in Seq(S) /\ Len(after) = n - a
        /\ \A i \in 1..(n - a) : after[i] = s[a + i]
    <2>1. /\ a + 1 \in Int /\ n \in Int
          /\ \A i \in (a + 1)..n : s[i] \in S
      BY <1>1
    <2>2. /\ after \in Seq(S)
          /\ Len(after) = IF a + 1 <= n THEN n - (a + 1) + 1 ELSE 0
          /\ \A i \in 1..(n - (a + 1) + 1) : after[i] = s[a + 1 + i - 1]
      BY <2>1, SubSeqProperties
    <2> HIDE DEF after, before, t, n
    <2>3. /\ n - (a + 1) + 1 = n - a /\ \A i \in 1..(n - a) : a + 1 + i - 1 = a + i
          /\ (a + 1 <= n => n - (a + 1) + 1 = n - a) /\ (~(a + 1 <= n) => n - a = 0)
      BY <1>1
    <2>4. Len(after) = n - a
      BY <2>2, <2>3
    <2> QED BY <2>2, <2>3, <2>4
  <1>4. t = before \o after
    BY DEF RemoveAt
  <1> HIDE DEF before, after, t, n
  <1>5. /\ t \in Seq(S) /\ Len(t) = n - 1
        /\ \A i \in 1..(n - 1) : t[i] = IF i < a THEN s[i] ELSE s[i + 1]
    <2>1. /\ t \in Seq(S) /\ Len(t) = Len(before) + Len(after)
          /\ \A i \in 1..(Len(before) + Len(after)) :
               t[i] = IF i <= Len(before) THEN before[i] ELSE after[i - Len(before)]
      BY <1>2, <1>3, <1>4, ConcatProperties
    <2>2. Len(before) + Len(after) = n - 1
      BY <1>1, <1>2, <1>3
    <2>3. ASSUME NEW i \in 1..(n - 1) PROVE t[i] = IF i < a THEN s[i] ELSE s[i + 1]
      <3>1. CASE i < a
        <4>1. i <= Len(before) /\ i \in 1..(a - 1)
          BY <3>1, <1>1, <1>2
        <4> QED BY <4>1, <2>1, <2>2, <1>2, <3>1
      <3>2. CASE ~(i < a)
        <4>1. ~(i <= Len(before)) /\ i - Len(before) \in 1..(n - a) /\ a + (i - Len(before)) = i + 1
          BY <3>2, <1>1, <1>2
        <4>2. t[i] = after[i - Len(before)]
          BY <4>1, <2>1, <2>2
        <4> QED BY <4>1, <4>2, <1>3, <3>2
      <3> QED BY <3>1, <3>2
    <2> QED BY <2>1, <2>2, <2>3
  <1>6. DOMAIN t = 1..(n - 1)
    BY <1>5, LenProperties
  <1>7. ToSet(t) = ToSet(s) \ {s[a]}
    <2>1. ASSUME NEW i \in 1..(n - 1) PROVE t[i] \in ToSet(s) \ {s[a]}
      <3>1. CASE i < a
        <4>1. i \in 1..n /\ i # a /\ t[i] = s[i]
          BY <3>1, <1>1, <1>5
        <4> QED BY <4>1, <1>1 DEF ToSet
      <3>2. CASE ~(i < a)
        <4>1. i + 1 \in 1..n /\ i + 1 # a /\ t[i] = s[i + 1]
          BY <3>2, <1>1, <1>5
        <4> QED BY <4>1, <1>1 DEF ToSet
      <3> QED BY <3>1, <3>2
    <2>2. ASSUME NEW i \in 1..n, i # a PROVE \E k \in 1..(n - 1) : t[k] = s[i]
      <3>1. CASE i < a
        <4>1. i \in 1..(n - 1)
          BY <3>1, <1>1
        <4> QED BY <4>1, <3>1, <1>5
      <3>2. CASE ~(i < a)
        <4>1. i - 1 \in 1..(n - 1) /\ ~(i - 1 < a) /\ (i - 1) + 1 = i
          BY <3>2, <2>2, <1>1
        <4>2. t[i - 1] = s[i]
          BY <4>1, <1>5
        <4> QED BY <4>1, <4>2
      <3> QED BY <3>1, <3>2
    <2>3. ToSet(t) = {t[i] : i \in 1..(n - 1)} /\ ToSet(s) = {s[i] : i \in 1..n}
      BY <1>1, <1>6 DEF ToSet
    <2>4. ASSUME NEW x \in ToSet(s) \ {s[a]} PROVE x \in ToSet(t)
      <3>1. PICK i \in 1..n : s[i] = x
        BY <2>3
      <3>2. PICK k \in 1..(n - 1) : t[k] = s[i]
        BY <3>1, <2>2
      <3> QED BY <3>1, <3>2, <2>3
    <2>5. ASSUME NEW x \in ToSet(t) PROVE x \in ToSet(s) \ {s[a]}
      BY <2>1, <2>3
    <2> QED BY <2>4, <2>5
  <1>8. ASSUME NEW i \in 1..(n - 1), NEW j \in 1..(n - 1), t[i] = t[j] PROVE i = j
    <2> DEFINE at(k) == IF k < a THEN k ELSE k + 1
    <2>1. \A k \in 1..(n - 1) : at(k) \in 1..n /\ t[k] = s[at(k)]
      BY <1>1, <1>5
    <2>2. at(i) = at(j)
      BY <2>1, <1>1, <1>8
    <2> QED BY <2>2, <1>1
  <1> QED BY <1>5, <1>6, <1>7, <1>8 DEF t
-----------------------------------------------------------------------------
(* Handlers and clients                                                     *)

LEMMA WorldInitInv == Init => WorldInv
  <1> SUFFICES ASSUME Init PROVE WorldInv
    OBVIOUS
  <1>1. /\ \A p \in Players : player[p] = NewPlayer /\ screen[p] = {}
        /\ \A m \in Maps : mapList[m] = <<>> /\ writer[m] = None /\ On(m) = {}
        /\ \A w \in Workers : task[w] = Idle /\ task[w].at = "idle"
    BY DEF Init, On, ToSet, Idle
  <1>2. WorldTypes
    <2>1. NewPlayer \in Character /\ Idle \in Handler /\ <<>> \in Seq(Players)
      BY EmptySeq DEF NewPlayer, Character, Stages, Idle, Handler
    <2> QED BY <2>1 DEF Init, WorldTypes
  <1>3. Mapped /\ ThereAreListed
    BY <1>1, ThreadsType DEF Mapped, ThereAreListed, NewPlayer, Adding
  <1>4. NoDoubles
    BY <1>1 DEF NoDoubles
  <1>5. HandlersFit /\ LockHeld
    BY <1>1 DEF HandlersFit, LockHeld
  <1>6. HolderAdds
    BY <1>1, NobodyIsNoWorker DEF HolderAdds
  <1>7. ListedAreThere /\ ShowsItsMap /\ MissesNobody
    BY <1>1 DEF ListedAreThere, ShowsItsMap, MissesNobody
  <1> QED BY <1>2, <1>3, <1>4, <1>5, <1>6, <1>7 DEF WorldInv, Init

\* The entries of a list are clients.
LEMMA OnPlayers == WorldInv => \A m \in Maps : On(m) \subseteq Players
  <1> SUFFICES ASSUME WorldInv, NEW m \in Maps, NEW i \in DOMAIN mapList[m]
               PROVE  mapList[m][i] \in Players
    BY DEF On, ToSet
  <1>1. mapList[m] \in Seq(Players)
    BY DEF WorldInv, WorldTypes
  <1> QED BY <1>1, LenProperties, ElementOfSeq

\* What a handler that runs knows.
LEMMA Running ==
  ASSUME WorldInv, NEW w \in Workers
  PROVE  /\ task[w] = Idle <=> task[w].at = "idle"
         /\ task[w].at # "idle" =>
              task[w].p \in Players /\ ThreadOf[task[w].p] = w
         /\ task[w].at \in {"add", "show"} =>
              player[task[w].p].stage = "loading" /\ player[task[w].p].map \in Maps
         /\ task[w].at \in {"hide", "free"} => Gone(task[w].p)
         /\ task[w].at = "show" =>
              /\ task[w].todo \in Seq(Players)
              /\ task[w] = [at |-> "show", p |-> task[w].p, todo |-> task[w].todo]
              /\ ToSet(task[w].todo) \subseteq On(player[task[w].p].map)
              /\ writer[player[task[w].p].map] = w
  <1>1. task[w] \in Handler
    BY DEF WorldInv, WorldTypes
  <1>2. task[w] = Idle <=> task[w].at = "idle"
    BY <1>1 DEF Handler, Idle
  <1>3. task[w].at # "idle" => task[w].p \in Players /\ ThreadOf[task[w].p] = w
    BY <1>1 DEF Handler, WorldInv, HandlersFit
  <1>4. task[w].at = "show" =>
          /\ task[w].todo \in Seq(Players)
          /\ task[w] = [at |-> "show", p |-> task[w].p, todo |-> task[w].todo]
    BY <1>1 DEF Handler
  <1> QED BY <1>2, <1>3, <1>4 DEF WorldInv, HandlersFit, Mapped, LockHeld

\* Who is listed has been on the way in, at least.
LEMMA Listed ==
  ASSUME WorldInv, NEW m \in Maps, NEW p \in On(m)
  PROVE  p \in Players /\ player[p].map = m /\ player[p].stage \in {"loading", "in", "gone"}
  <1>1. p \in Players /\ ThreadOf[p] \in Workers
    BY OnPlayers, ThreadsType
  <1>2. player[p].stage \in {"in", "gone"} \/ Adding(ThreadOf[p], p)
    BY DEF WorldInv, ListedAreThere
  <1>3. Adding(ThreadOf[p], p) => player[p].stage = "loading"
    BY <1>1, Running DEF Adding
  <1> QED BY <1>1, <1>2, <1>3 DEF WorldInv, ListedAreThere

\* Only what changes on the way of one client.
LEMMA Went ==
  ASSUME WorldInv, NEW p \in Players, NEW st \in Stages,
         player' = [player EXCEPT ![p].stage = st]
  PROVE  /\ player' \in [Players -> Character]
         /\ player'[p].stage = st
         /\ \A q \in Players : player'[q].map = player[q].map
         /\ \A q \in Players : q # p => player'[q].stage = player[q].stage
  <1> DEFINE r == [player[p] EXCEPT !.stage = st]
  <1>1. player \in [Players -> Character] /\ player[p] \in Character
    BY DEF WorldInv, WorldTypes
  <1>2. r \in Character /\ r.stage = st /\ r.map = player[p].map
    BY <1>1 DEF Character
  <1>3. player' = [player EXCEPT ![p] = r]
    OBVIOUS
  <1> HIDE DEF r
  <1> QED BY <1>1, <1>2, <1>3

\* A client that is not on a map yet.
LEMMA Elsewhere ==
  ASSUME WorldInv, NEW p \in Players, player[p].stage \in {"new", "login"}
  PROVE  /\ \A m \in Maps : p \notin On(m)
         /\ \A w \in Workers : task[w].at # "idle" => task[w].p # p
         /\ screen[p] = {}
         /\ \A q \in Players : p \notin screen[q]
  <1>1. ~Adding(ThreadOf[p], p)
    BY Running, ThreadsType DEF Adding
  <1>2. \A m \in Maps : p \notin On(m)
    BY <1>1 DEF WorldInv, ListedAreThere
  <1>3. \A w \in Workers : task[w].at # "idle" => task[w].p # p
    <2> SUFFICES ASSUME NEW w \in Workers, task[w].at # "idle", task[w].p = p PROVE FALSE
      OBVIOUS
    <2>1. task[w] \in Handler
      BY DEF WorldInv, WorldTypes
    <2>2. task[w].at \in {"add", "show", "hide", "free"}
      BY <2>1 DEF Handler
    <2> QED BY <2>2, Running DEF Gone
  <1>4. screen[p] = {}
    BY DEF WorldInv, WorldTypes, ShowsItsMap
  <1>5. ASSUME NEW q \in Players, p \in screen[q] PROVE FALSE
    <2>1. player[q].stage \in {"loading", "in"} /\ p \in On(player[q].map)
      BY <1>5 DEF WorldInv, ShowsItsMap, Gone
    <2>2. player[q].map \in Maps
      BY <2>1 DEF WorldInv, Mapped
    <2> QED BY <2>1, <2>2, <1>2
  <1> QED BY <1>2, <1>3, <1>4, <1>5

\* Nothing of what the invariant is about changes.
LEMMA CalmKeeps ==
  ASSUME WorldInv, UNCHANGED <<player, mapList, writer, task, screen>>, ~astray',
         clientList' \subseteq Players, running' \in [Maps -> BOOLEAN],
         mapThread' \in [Maps -> {"sleeps", "counts", "ended"}]
  PROVE  WorldInv'
  <1>1. WorldTypes'
    BY DEF WorldInv, WorldTypes
  <1>2. /\ \A m \in Maps : On(m)' = On(m)
        /\ \A p \in Players : Gone(p)' <=> Gone(p)
        /\ \A p \in Players, w \in Workers : Adding(w, p)' <=> Adding(w, p)
    BY DEF On, Gone, Adding
  <1>3. Mapped' /\ NoDoubles' /\ HandlersFit' /\ HolderAdds' /\ LockHeld'
    BY DEF WorldInv, Mapped, NoDoubles, HandlersFit, HolderAdds, LockHeld, Gone, On
  <1>4. ListedAreThere' /\ ThereAreListed' /\ ShowsItsMap'
    BY DEF WorldInv, ListedAreThere, ThereAreListed, ShowsItsMap, Gone, On, Adding
  <1>5. MissesNobody'
    BY DEF WorldInv, MissesNobody, Gone, On, YetToShow
  <1> QED BY <1>1, <1>3, <1>4, <1>5 DEF WorldInv

\* A client that is on no map comes nearer to one.
LEMMA ComingKeeps ==
  ASSUME WorldInv, NEW p \in Players, player[p].stage \in {"new", "login"},
         NEW r \in Character, r.stage \in {"login", "loading"},
         r.stage = "loading" => r.map \in Maps,
         player' = [player EXCEPT ![p] = r], clientList' \subseteq Players,
         UNCHANGED <<mapVars, task, screen, astray>>
  PROVE  WorldInv'
  <1>1. /\ player'[p] = r
        /\ \A q \in Players : q # p => player'[q] = player[q]
    BY DEF WorldInv, WorldTypes
  <1>2. /\ \A m \in Maps : p \notin On(m)
        /\ \A w \in Workers : task[w].at # "idle" => task[w].p # p
        /\ screen[p] = {}
        /\ \A q \in Players : p \notin screen[q]
    BY Elsewhere
  <1>3. WorldTypes'
    BY DEF WorldInv, WorldTypes, mapVars
  <1>4. \A w \in Workers : task[w].at # "idle" =>
          task[w].p \in Players /\ player'[task[w].p] = player[task[w].p]
    BY <1>1, <1>2, Running
  <1>5. Mapped' /\ NoDoubles'
    BY <1>1 DEF WorldInv, Mapped, NoDoubles, mapVars
  <1>6. HandlersFit' /\ LockHeld'
    <2>1. HandlersFit'
      BY <1>4 DEF WorldInv, HandlersFit, Gone
    <2>2. ASSUME NEW w \in Workers, task[w].at = "show"
          PROVE  /\ writer'[player'[task[w].p].map] = w
                 /\ ToSet(task[w].todo) \subseteq ToSet(mapList'[player'[task[w].p].map])
      BY <2>2, <1>4 DEF WorldInv, LockHeld, On, mapVars
    <2> QED BY <2>1, <2>2 DEF LockHeld, On
  <1>7. HolderAdds'
    BY <1>4 DEF WorldInv, HolderAdds, mapVars
  <1>8. \A m \in Maps : On(m) \subseteq Players /\ On(m)' = On(m)
    BY DEF WorldInv, WorldTypes, On, ToSet, mapVars
  <1>9. ListedAreThere'
    BY <1>1, <1>2, <1>8 DEF WorldInv, ListedAreThere, Adding
  <1>10. ThereAreListed'
    <2>1. ~Adding(ThreadOf[p], p)
      BY <1>2, ThreadsType DEF Adding
    <2> QED BY <2>1, <1>1 DEF WorldInv, ThereAreListed, Adding, On, mapVars
  <1>11. ShowsItsMap'
    BY <1>1, <1>2 DEF WorldInv, WorldTypes, ShowsItsMap, Gone, On, mapVars
  <1>12. MissesNobody'
    BY <1>1, <1>2, <1>8 DEF WorldInv, MissesNobody, Gone, YetToShow, mapVars
  <1> QED BY <1>3, <1>5, <1>6, <1>7, <1>9, <1>10, <1>11, <1>12 DEF WorldInv

\* A worker that adds nobody to a map goes on to something else that does not:
\* clients stay where they are, and only who is gone leaves a screen.
LEMMA AsideKeeps ==
  ASSUME WorldInv, NEW w \in Workers, NEW t \in Handler,
         task[w].at # "show", t.at # "show", task' = [task EXCEPT ![w] = t],
         t.at # "idle" => ThreadOf[t.p] = w,
         t.at = "add" => player[t.p].stage = "loading",
         t.at \in {"hide", "free"} => Gone(t.p),
         player' \in [Players -> Character],
         \A q \in Players : player'[q].stage = player[q].stage /\ player'[q].map = player[q].map,
         screen' \in [Players -> SUBSET Players],
         \A q \in Players : screen'[q] \subseteq screen[q],
         \A q \in Players : \A x \in screen[q] \ screen'[q] : Gone(x),
         UNCHANGED <<mapVars, clientList, astray>>
  PROVE  WorldInv'
  <1>1. task'[w] = t /\ \A v \in Workers : v # w => task'[v] = task[v]
    BY DEF WorldInv, WorldTypes
  <1>2. WorldTypes'
    BY DEF WorldInv, WorldTypes, mapVars
  <1>3. \A v \in Workers : task'[v].at = "show" <=> task[v].at = "show"
    BY <1>1
  <1>4. \A v \in Workers : task[v].at = "show" => task'[v] = task[v] /\ task[v].p \in Players
    BY <1>1, Running
  <1>5. \A v \in Workers : task'[v].at # "idle" => task'[v].p \in Players
    <2> SUFFICES ASSUME NEW v \in Workers, task'[v].at # "idle" PROVE task'[v].p \in Players
      OBVIOUS
    <2>1. task'[v] \in Handler
      BY <1>2 DEF WorldTypes
    <2> QED BY <2>1 DEF Handler
  <1>6. Mapped' /\ NoDoubles'
    BY DEF WorldInv, Mapped, NoDoubles, mapVars
  <1>7. HandlersFit'
    <2>1. ASSUME NEW v \in Workers, task'[v].at # "idle"
          PROVE  /\ ThreadOf[task'[v].p] = v
                 /\ task'[v].at \in {"add", "show"} => player[task'[v].p].stage = "loading"
                 /\ task'[v].at \in {"hide", "free"} => player[task'[v].p].stage = "gone"
      BY <2>1, <1>1 DEF WorldInv, HandlersFit, Gone
    <2> QED BY <2>1, <1>5 DEF HandlersFit, Gone
  <1>8. LockHeld'
    <2>1. ASSUME NEW v \in Workers, task[v].at = "show"
          PROVE  /\ writer'[player'[task[v].p].map] = v
                 /\ ToSet(task[v].todo) \subseteq ToSet(mapList'[player'[task[v].p].map])
      BY <2>1, <1>4 DEF WorldInv, LockHeld, On, mapVars
    <2> QED BY <2>1, <1>3, <1>4 DEF LockHeld, On
  <1>9. HolderAdds'
    BY <1>3, <1>4 DEF WorldInv, HolderAdds, mapVars
  <1>10. /\ \A m \in Maps : On(m)' = On(m) /\ On(m) \subseteq Players
         /\ \A v \in Workers, q \in Players : Adding(v, q)' <=> Adding(v, q)
         /\ \A q \in Players : Gone(q)' <=> Gone(q)
    BY <1>3, <1>4 DEF WorldInv, WorldTypes, On, Adding, Gone, ToSet, mapVars
  <1>11. ListedAreThere'
    BY <1>10, ThreadsType DEF WorldInv, ListedAreThere
  <1>12. ThereAreListed'
    BY <1>10, ThreadsType DEF WorldInv, ThereAreListed, On, mapVars
  <1>13. ShowsItsMap'
    BY <1>2, <1>10 DEF WorldInv, WorldTypes, ShowsItsMap, On, mapVars
  <1>14. MissesNobody'
    <2> SUFFICES ASSUME NEW m \in Maps, NEW p \in On(m), NEW q \in On(m),
                        ~Gone(p), ~Gone(q), q \notin screen'[p]
                 PROVE  YetToShow(m, p, q)'
      BY <1>10 DEF MissesNobody
    <2>1. q \notin screen[p]
      BY <1>10
    <2>2. PICK v \in Workers :
            /\ writer[m] = v
            /\ \/ task[v].p = p /\ q \in ToSet(task[v].todo)
               \/ task[v].p = q /\ p \in ToSet(task[v].todo)
      BY <2>1 DEF WorldInv, MissesNobody, YetToShow
    <2>3. task'[v] = task[v]
      BY <2>2, <1>4 DEF WorldInv, HolderAdds
    <2> QED BY <2>2, <2>3 DEF YetToShow, mapVars
  <1> QED BY <1>2, <1>6, <1>7, <1>8, <1>9, <1>11, <1>12, <1>13, <1>14 DEF WorldInv

\* The lock is let in by nobody, and the client was in no list.
LEMMA AddClientKeeps ==
  ASSUME WorldInv, NEW w \in Workers, AddClient(w)
  PROVE  WorldInv'
  <1> DEFINE p == task[w].p
             m == player[p].map
             list == Append(mapList[m], p)
             t == [at |-> "show", p |-> p, todo |-> list]
  <1>1. /\ task[w].at = "add" /\ writer[m] = None
        /\ writer' = [writer EXCEPT ![m] = w]
        /\ mapList' = [mapList EXCEPT ![m] = list]
        /\ task' = [task EXCEPT ![w] = t]
        /\ UNCHANGED <<astray, player, clientList, running, mapThread, screen>>
    BY DEF AddClient, At, Goto
  <1>2. /\ p \in Players /\ ThreadOf[p] = w /\ player[p].stage = "loading" /\ m \in Maps
        /\ mapList[m] \in Seq(Players)
    BY <1>1, Running DEF WorldInv, WorldTypes
  <1>3. \A k \in Maps : p \notin On(k)
    BY <1>1, <1>2 DEF WorldInv, ListedAreThere, Adding
  <1>4. /\ list \in Seq(Players) /\ ToSet(list) = On(m) \cup {p}
        /\ \A i, j \in DOMAIN list : list[i] = list[j] => i = j
    <2>1. (\A i, j \in DOMAIN mapList[m] : mapList[m][i] = mapList[m][j] => i = j)
          /\ ToSet(mapList[m]) = On(m) /\ p \notin ToSet(mapList[m])
      BY <1>2, <1>3 DEF WorldInv, NoDoubles, On
    <2> HIDE DEF p, m
    <2>2. /\ list \in Seq(Players) /\ ToSet(list) = ToSet(mapList[m]) \cup {p}
          /\ \A i, j \in DOMAIN list : list[i] = list[j] => i = j
      BY <1>2, <2>1, AppendedTo
    <2> QED BY <2>1, <2>2
  <1>5. t \in Handler
    BY <1>2, <1>4 DEF Handler
  <1>6. t.at = "show" /\ t.p = p /\ t.todo = list
    OBVIOUS
  <1>7. PICK c \in Players, n \in Maps, h \in Handler, l \in Seq(Players) :
          c = p /\ n = m /\ h = t /\ l = list
    BY <1>2, <1>4, <1>5
  <1> HIDE DEF p, m, list, t
  <1>8. /\ task'[w] = h /\ \A v \in Workers : v # w => task'[v] = task[v]
        /\ writer'[n] = w /\ \A k \in Maps : k # n => writer'[k] = writer[k]
        /\ mapList'[n] = l /\ \A k \in Maps : k # n => mapList'[k] = mapList[k]
    BY <1>1, <1>7 DEF WorldInv, WorldTypes
  <1>9. WorldTypes'
    BY <1>1, <1>7 DEF WorldInv, WorldTypes
  <1>10. /\ On(n)' = On(n) \cup {c}
         /\ \A k \in Maps : k # n => On(k)' = On(k)
         /\ \A k \in Maps : On(k) \subseteq Players
    <2>1. ToSet(mapList'[n]) = ToSet(mapList[n]) \cup {c}
      BY <1>4, <1>7, <1>8 DEF On
    <2>2. \A k \in Maps : On(k) \subseteq Players
      BY OnPlayers
    <2> QED BY <2>1, <2>2, <1>8 DEF On
  <1>11. /\ ThreadOf[c] = w /\ player[c].stage = "loading" /\ player[c].map = n
         /\ h.at = "show" /\ h.p = c /\ h.todo = l /\ ToSet(l) = On(n) \cup {c}
    BY <1>2, <1>4, <1>6, <1>7 DEF m
  <1>12. /\ \A v \in Workers, q \in Players : Adding(v, q)' <=> (Adding(v, q) \/ (v = w /\ q = c))
         /\ ~\E q \in Players : Adding(w, q)
    BY <1>1, <1>8, <1>11 DEF Adding
  <1>13. Mapped'
    BY <1>1 DEF WorldInv, Mapped
  <1>14. NoDoubles'
    BY <1>4, <1>7, <1>8 DEF WorldInv, NoDoubles
  <1>15. HandlersFit'
    BY <1>1, <1>8, <1>11 DEF WorldInv, HandlersFit, Gone
  <1>16. \A v \in Workers : v # w /\ task[v].at = "show" =>
           player[task[v].p].map \in Maps \ {n}
    <2> SUFFICES ASSUME NEW v \in Workers, task[v].at = "show"
                 PROVE  player[task[v].p].map \in Maps /\ player[task[v].p].map # n
      OBVIOUS
    <2>1. writer[player[task[v].p].map] = v /\ player[task[v].p].map \in Maps
      BY Running
    <2> QED BY <2>1, <1>1, <1>7, NobodyIsNoWorker
  <1>17. LockHeld'
    <2>1. ASSUME NEW v \in Workers, v # w, task[v].at = "show"
          PROVE  /\ writer'[player[task[v].p].map] = v
                 /\ ToSet(task[v].todo) \subseteq ToSet(mapList'[player[task[v].p].map])
      BY <2>1, <1>8, <1>16 DEF WorldInv, LockHeld, On
    <2>2. writer'[player[h.p].map] = w /\ ToSet(h.todo) \subseteq ToSet(mapList'[player[h.p].map])
      BY <1>8, <1>11
    <2>3. ASSUME NEW v \in Workers, task'[v].at = "show"
          PROVE  /\ writer'[player'[task'[v].p].map] = v
                 /\ ToSet(task'[v].todo) \subseteq ToSet(mapList'[player'[task'[v].p].map])
      <3>1. CASE v = w
        BY <3>1, <2>2, <1>1, <1>8
      <3>2. CASE v # w
        BY <3>2, <2>1, <2>3, <1>1, <1>8
      <3> QED BY <3>1, <3>2
    <2> QED BY <2>3 DEF LockHeld, On
  <1>18. HolderAdds'
    BY <1>1, <1>8, <1>11 DEF WorldInv, HolderAdds
  <1>19. ListedAreThere'
    BY <1>1, <1>10, <1>11, <1>12, ThreadsType DEF WorldInv, ListedAreThere
  <1>20. ThereAreListed'
    <2> SUFFICES ASSUME NEW q \in Players, player[q].stage = "in" \/ Adding(ThreadOf[q], q)'
                 PROVE  q \in On(player[q].map)'
      BY <1>1 DEF ThereAreListed, On
    <2>1. CASE q = c
      BY <2>1, <1>1, <1>8, <1>11 DEF On
    <2>2. CASE q # c
      <3>1. /\ player[q].stage = "in" \/ Adding(ThreadOf[q], q)
            /\ q \in On(player[q].map)
        BY <2>2, <1>12, ThreadsType DEF WorldInv, ThereAreListed
      <3>2. player[q].stage \in {"in", "loading"}
        BY <3>1, Running, ThreadsType DEF Adding
      <3>3. player[q].map \in Maps
        BY <3>2 DEF WorldInv, Mapped
      <3>4. player[q].map = n \/ On(player[q].map)' = On(player[q].map)
        BY <3>3, <1>1, <1>8 DEF On
      <3> QED BY <3>1, <3>4, <1>1, <1>10 DEF On
    <2> QED BY <2>1, <2>2
  <1>21. ShowsItsMap'
    <2> SUFFICES ASSUME NEW q \in Players, NEW x \in screen[q]
                 PROVE  /\ player[q].stage \in {"loading", "in"} /\ q \in On(player[q].map)'
                        /\ Gone(x) \/ x \in On(player[q].map)'
      BY <1>1 DEF ShowsItsMap, Gone, On
    <2>1. /\ player[q].stage \in {"loading", "in"} /\ q \in On(player[q].map)
          /\ Gone(x) \/ x \in On(player[q].map)
      BY DEF WorldInv, ShowsItsMap
    <2>2. player[q].map \in Maps
      BY <2>1 DEF WorldInv, Mapped
    <2>3. On(player[q].map) \subseteq On(player[q].map)'
      BY <2>2, <1>1, <1>4, <1>7, <1>8 DEF On
    <2> QED BY <2>1, <2>3
  <1>22. MissesNobody'
    <2> SUFFICES ASSUME NEW k \in Maps, NEW a \in On(k)', NEW b \in On(k)',
                        ~Gone(a), ~Gone(b), b \notin screen[a]
                 PROVE  YetToShow(k, a, b)'
      BY <1>1 DEF MissesNobody, Gone
    <2>1. CASE k = n /\ (a = c \/ b = c)
      <3>1. a \in ToSet(l) /\ b \in ToSet(l)
        BY <2>1, <1>10, <1>11
      <3>2. writer'[k] = w /\ task'[w].p = c /\ task'[w].todo = l
        BY <2>1, <1>8, <1>11
      <3> QED BY <3>1, <3>2, <2>1 DEF YetToShow
    <2>2. CASE ~(k = n /\ (a = c \/ b = c))
      <3>1. a \in On(k) /\ b \in On(k)
        BY <2>2, <1>10
      <3>2. PICK v \in Workers :
              /\ writer[k] = v
              /\ \/ task[v].p = a /\ b \in ToSet(task[v].todo)
                 \/ task[v].p = b /\ a \in ToSet(task[v].todo)
        BY <3>1 DEF WorldInv, MissesNobody, YetToShow
      <3>3. task[v].at = "show"
        BY <3>2 DEF WorldInv, HolderAdds
      <3>4. k # n /\ v # w
        BY <3>2, <3>3, <1>1, <1>7, NobodyIsNoWorker
      <3> QED BY <3>2, <3>4, <1>8 DEF YetToShow
    <2> QED BY <2>1, <2>2
  <1> QED BY <1>1, <1>9, <1>13, <1>14, <1>15, <1>17, <1>18, <1>19, <1>20, <1>21, <1>22 DEF WorldInv

\* One client of the list and the new one see each other.
LEMMA ShowNextKeeps ==
  ASSUME WorldInv, NEW w \in Workers, ShowNext(w)
  PROVE  WorldInv'
  <1> DEFINE tail == Tail(task[w].todo)
  <1>1. /\ task[w].at = "show" /\ task[w].todo # <<>>
        /\ UNCHANGED <<astray, player, clientList, mapList, writer, running, mapThread>>
    BY DEF ShowNext, At, mapVars
  <1>2. PICK p \in Players, c \in Players, m \in Maps, rest \in Seq(Players) :
          /\ p = task[w].p /\ c = Head(task[w].todo) /\ m = player[p].map /\ rest = tail
    BY <1>1, Running, TailOf
  <1> DEFINE t == [at |-> "show", p |-> p, todo |-> rest]
  <1>3. /\ player[p].stage = "loading" /\ ThreadOf[p] = w /\ writer[m] = w
        /\ task[w] = [at |-> "show", p |-> p, todo |-> task[w].todo]
        /\ ToSet(task[w].todo) = {c} \cup ToSet(rest)
        /\ ToSet(task[w].todo) \subseteq On(m)
    BY <1>1, <1>2, Running, TailOf
  <1>4. screen' = [q \in Players |-> screen[q]
            \cup (IF q = p THEN {c} ELSE {})
            \cup (IF q = c /\ Connected(c) THEN {p} ELSE {})]
    BY <1>2 DEF ShowNext
  <1>5. task' = [task EXCEPT ![w] = t]
    <2>1. task' = [task EXCEPT ![w] = [task[w] EXCEPT !.todo = rest]]
      BY <1>2 DEF ShowNext, Goto
    <2>2. [task[w] EXCEPT !.todo = rest] = t
      BY <1>3
    <2> QED BY <2>1, <2>2
  <1>6. t \in Handler /\ t.at = "show" /\ t.p = p /\ t.todo = rest
    BY DEF Handler
  <1> HIDE DEF t, tail
  <1>7. task'[w] = t /\ \A v \in Workers : v # w => task'[v] = task[v]
    BY <1>5 DEF WorldInv, WorldTypes
  <1>8. \A v \in Workers : /\ task'[v].at = task[v].at
                           /\ task[v].at # "idle" => task'[v].p = task[v].p
    BY <1>1, <1>2, <1>6, <1>7
  <1>9. \A m_1 \in Maps : On(m_1) \subseteq Players
    BY OnPlayers
  <1>10. p \in On(m) /\ c \in On(m)
    BY <1>1, <1>2, <1>3 DEF WorldInv, ThereAreListed, Adding
  <1>11. WorldTypes'
    <2>1. screen' \in [Players -> SUBSET Players]
      BY <1>4 DEF WorldInv, WorldTypes
    <2> QED BY <2>1, <1>1, <1>5, <1>6 DEF WorldInv, WorldTypes
  <1>12. Mapped' /\ NoDoubles'
    BY <1>1 DEF WorldInv, Mapped, NoDoubles
  <1>13. HandlersFit'
    BY <1>1, <1>8 DEF WorldInv, HandlersFit, Gone
  <1>14. LockHeld'
    <2>1. ASSUME NEW v \in Workers, task'[v].at = "show"
          PROVE  /\ writer[player[task'[v].p].map] = v
                 /\ ToSet(task'[v].todo) \subseteq ToSet(mapList[player[task'[v].p].map])
      <3>1. CASE v = w
        BY <3>1, <1>2, <1>3, <1>6, <1>7 DEF On
      <3>2. CASE v # w
        BY <3>2, <2>1, <1>7 DEF WorldInv, LockHeld, On
      <3> QED BY <3>1, <3>2
    <2> QED BY <2>1, <1>1 DEF LockHeld, On
  <1>15. HolderAdds'
    BY <1>1, <1>8 DEF WorldInv, HolderAdds
  <1>16. \A v \in Workers, q \in Players : Adding(v, q)' <=> Adding(v, q)
    BY <1>8 DEF Adding
  <1>17. ListedAreThere'
    BY <1>1, <1>9, <1>16, ThreadsType DEF WorldInv, ListedAreThere, On
  <1>18. ThereAreListed'
    BY <1>1, <1>16, ThreadsType DEF WorldInv, ThereAreListed, On
  <1>19. ShowsItsMap'
    <2> SUFFICES ASSUME NEW q \in Players, NEW x \in screen'[q]
                 PROVE  /\ player[q].stage \in {"loading", "in"} /\ q \in On(player[q].map)
                        /\ Gone(x) \/ x \in On(player[q].map)
      BY <1>1 DEF ShowsItsMap, Gone, On
    <2>1. CASE x \in screen[q]
      BY <2>1 DEF WorldInv, ShowsItsMap
    <2>2. CASE q = p /\ x = c
      BY <2>2, <1>2, <1>3, <1>10
    <2>3. CASE q = c /\ Connected(c) /\ x = p
      <3>1. player[c].map = m /\ player[c].stage # "login"
        BY <1>10, Listed
      <3> QED BY <2>3, <3>1, <1>10 DEF Connected
    <2> QED BY <2>1, <2>2, <2>3, <1>4
  <1>20. MissesNobody'
    <2> SUFFICES ASSUME NEW k \in Maps, NEW a \in On(k), NEW b \in On(k),
                        ~Gone(a), ~Gone(b), b \notin screen'[a]
                 PROVE  YetToShow(k, a, b)'
      BY <1>1 DEF MissesNobody, Gone, On
    <2>1. a \in Players /\ b \in Players /\ b \notin screen[a]
      BY <1>4, <1>9
    <2>2. PICK v \in Workers :
            /\ writer[k] = v
            /\ \/ task[v].p = a /\ b \in ToSet(task[v].todo)
               \/ task[v].p = b /\ a \in ToSet(task[v].todo)
      BY <2>1 DEF WorldInv, MissesNobody, YetToShow
    <2>3. CASE v # w
      BY <2>2, <2>3, <1>1, <1>7 DEF YetToShow
    <2>4. CASE v = w
      <3>1. CASE p = a /\ b \in ToSet(task[w].todo)
        <4>1. b # c
          BY <3>1, <2>1, <1>4
        <4> QED BY <4>1, <3>1, <2>2, <2>4, <1>1, <1>3, <1>6, <1>7 DEF YetToShow
      <3>2. CASE p = b /\ a \in ToSet(task[w].todo)
        <4>1. player[a].stage \in {"in", "gone", "loading"}
          BY Listed
        <4>2. Connected(a)
          BY <4>1 DEF Gone, Connected
        <4>3. a # c
          BY <4>2, <3>2, <2>1, <1>4
        <4> QED BY <4>3, <3>2, <2>2, <2>4, <1>1, <1>3, <1>6, <1>7 DEF YetToShow
      <3> QED BY <3>1, <3>2, <2>2, <2>4, <1>2
    <2> QED BY <2>3, <2>4
  <1> QED BY <1>1, <1>11, <1>12, <1>13, <1>14, <1>15, <1>17, <1>18, <1>19, <1>20 DEF WorldInv

\* The lock is released when everyone has been shown.
LEMMA AddedKeeps ==
  ASSUME WorldInv, NEW w \in Workers, Added(w)
  PROVE  WorldInv'
  <1>1. /\ task[w].at = "show" /\ task[w].todo = <<>>
        /\ task' = [task EXCEPT ![w] = Idle]
        /\ UNCHANGED <<astray, clientList, mapList, running, mapThread, screen>>
    BY DEF Added, At, Goto
  <1>2. PICK p \in Players, m \in Maps : p = task[w].p /\ m = player[p].map
    BY <1>1, Running
  <1>3. /\ player[p].stage = "loading" /\ ThreadOf[p] = w /\ writer[m] = w
        /\ writer' = [writer EXCEPT ![m] = None]
        /\ player' = [player EXCEPT ![p].stage = "in"]
    BY <1>1, <1>2, Running DEF Added
  <1>4. /\ player' \in [Players -> Character] /\ player'[p].stage = "in"
        /\ \A q \in Players : player'[q].map = player[q].map
        /\ \A q \in Players : q # p => player'[q].stage = player[q].stage
    BY <1>3, Went DEF Stages
  <1>5. /\ task'[w] = Idle /\ \A v \in Workers : v # w => task'[v] = task[v]
        /\ writer'[m] = None /\ \A k \in Maps : k # m => writer'[k] = writer[k]
    BY <1>1, <1>3 DEF WorldInv, WorldTypes
  <1>6. Idle \in Handler /\ Idle.at = "idle"
    BY DEF Idle, Handler
  <1>7. WorldTypes'
    BY <1>1, <1>3, <1>4, <1>6 DEF WorldInv, WorldTypes
  <1>8. \A v \in Workers : v # w /\ task[v].at # "idle" => task[v].p \in Players \ {p}
    BY <1>3, Running
  <1>9. /\ \A v \in Workers, q \in Players : Adding(v, q)' <=> (v # w /\ Adding(v, q))
        /\ \A q \in Players : Gone(q)' <=> Gone(q)
    BY <1>3, <1>4, <1>5, <1>6 DEF Adding, Gone
  <1>10. Mapped' /\ NoDoubles'
    BY <1>1, <1>2, <1>4 DEF WorldInv, Mapped, NoDoubles
  <1>11. HandlersFit'
    <2>1. ASSUME NEW v \in Workers, v # w, task[v].at # "idle"
          PROVE  /\ ThreadOf[task[v].p] = v
                 /\ task[v].at \in {"add", "show"} => player'[task[v].p].stage = "loading"
                 /\ task[v].at \in {"hide", "free"} => player'[task[v].p].stage = "gone"
      BY <2>1, <1>4, <1>8 DEF WorldInv, HandlersFit, Gone
    <2> QED BY <2>1, <1>5, <1>6 DEF HandlersFit, Gone
  <1>12. LockHeld'
    <2>1. ASSUME NEW v \in Workers, v # w, task[v].at = "show"
          PROVE  /\ writer'[player'[task[v].p].map] = v
                 /\ ToSet(task[v].todo) \subseteq ToSet(mapList[player'[task[v].p].map])
      <3>1. /\ writer[player[task[v].p].map] = v /\ player[task[v].p].map \in Maps
            /\ ToSet(task[v].todo) \subseteq ToSet(mapList[player[task[v].p].map])
            /\ player'[task[v].p].map = player[task[v].p].map
        BY <2>1, <1>4, <1>8, Running DEF On
      <3>2. player[task[v].p].map # m
        BY <3>1, <2>1, <1>3
      <3> QED BY <3>1, <3>2, <1>5
    <2>2. ASSUME NEW v \in Workers, task'[v].at = "show"
          PROVE  /\ writer'[player'[task'[v].p].map] = v
                 /\ ToSet(task'[v].todo) \subseteq ToSet(mapList[player'[task'[v].p].map])
      BY <2>1, <2>2, <1>5, <1>6
    <2> QED BY <2>2, <1>1 DEF LockHeld, On
  <1>13. HolderAdds'
    <2> SUFFICES ASSUME NEW k \in Maps, NEW v \in Workers, writer'[k] = v
                 PROVE  task'[v].at = "show" /\ player'[task'[v].p].map = k
      BY DEF HolderAdds
    <2>1. k # m /\ writer[k] = v
      BY <1>5, NobodyIsNoWorker
    <2>2. task[v].at = "show" /\ player[task[v].p].map = k
      BY <2>1 DEF WorldInv, HolderAdds
    <2>3. v # w
      BY <2>1, <2>2, <1>2
    <2> QED BY <2>2, <2>3, <1>4, <1>5, <1>8
  <1>14. \A k \in Maps : On(k)' = On(k) /\ On(k) \subseteq Players
    BY <1>1, OnPlayers DEF On
  <1>15. ListedAreThere'
    <2> SUFFICES ASSUME NEW k \in Maps, NEW q \in On(k)
                 PROVE  /\ player'[q].map = k
                        /\ player'[q].stage \in {"in", "gone"} \/ Adding(ThreadOf[q], q)'
      BY <1>14 DEF ListedAreThere
    <2>1. /\ q \in Players /\ player[q].map = k
          /\ player[q].stage \in {"in", "gone"} \/ Adding(ThreadOf[q], q)
      BY <1>14 DEF WorldInv, ListedAreThere
    <2>2. q # p /\ Adding(ThreadOf[q], q) => ThreadOf[q] # w
      BY <1>2 DEF Adding
    <2> QED BY <2>1, <2>2, <1>4, <1>9, ThreadsType
  <1>16. ThereAreListed'
    <2> SUFFICES ASSUME NEW q \in Players, player'[q].stage = "in" \/ Adding(ThreadOf[q], q)'
                 PROVE  q \in ToSet(mapList[player[q].map])
      BY <1>1, <1>4 DEF ThereAreListed, On
    <2>1. CASE q = p
      BY <2>1, <1>1, <1>2, <1>3 DEF WorldInv, ThereAreListed, Adding, On
    <2>2. CASE q # p
      BY <2>2, <1>4, <1>9, ThreadsType DEF WorldInv, ThereAreListed, On
    <2> QED BY <2>1, <2>2
  <1>17. ShowsItsMap'
    <2> SUFFICES ASSUME NEW q \in Players, NEW x \in screen[q]
                 PROVE  /\ player'[q].stage \in {"loading", "in"}
                        /\ q \in ToSet(mapList[player'[q].map])
                        /\ Gone(x) \/ x \in ToSet(mapList[player'[q].map])
      BY <1>1, <1>4, <1>9 DEF ShowsItsMap, On, WorldInv, WorldTypes
    <2> QED BY <1>4 DEF WorldInv, ShowsItsMap, On
  <1>18. MissesNobody'
    <2> SUFFICES ASSUME NEW k \in Maps, NEW a \in On(k), NEW b \in On(k),
                        ~Gone(a), ~Gone(b), b \notin screen[a]
                 PROVE  YetToShow(k, a, b)'
      BY <1>1, <1>9, <1>14 DEF MissesNobody
    <2>1. PICK v \in Workers :
            /\ writer[k] = v
            /\ \/ task[v].p = a /\ b \in ToSet(task[v].todo)
               \/ task[v].p = b /\ a \in ToSet(task[v].todo)
      BY DEF WorldInv, MissesNobody, YetToShow
    <2>2. v # w
      BY <2>1, <1>1 DEF ToSet
    <2>3. k # m
      BY <2>1, <2>2, <1>3
    <2> QED BY <2>1, <2>2, <2>3, <1>5 DEF YetToShow
  <1> QED BY <1>1, <1>7, <1>10, <1>11, <1>12, <1>13, <1>15, <1>16, <1>17, <1>18 DEF WorldInv

\* Who leaves a map is taken out of its list, and out of the others' screens.
LEMMA ChangeMapKeeps ==
  ASSUME WorldInv, NEW w \in Workers, NEW p \in Players, NEW m \in Maps, ChangeMap(w, p, m)
  PROVE  WorldInv'
  <1>1. /\ task[w] = Idle /\ ThreadOf[p] = w /\ player[p].stage = "in"
        /\ writer[player[p].map] = None
        /\ UNCHANGED <<astray, clientList, writer, running, mapThread, task>>
    BY DEF ChangeMap, Serves, Free
  <1>2. player[p].map \in Maps
    BY <1>1 DEF WorldInv, Mapped
  <1>3. PICK old \in Maps : old = player[p].map
    BY <1>2
  <1>4. PICK Erase \in DOMAIN mapList[old] :
          mapList[old][Erase] = p /\ mapList' = [mapList EXCEPT ![old] = RemoveAt(mapList[old], Erase)]
    <2> DEFINE Fits(i) == mapList[old][i] = p /\ \A j \in (i + 1)..Len(mapList[old]) : mapList[old][j] # p
    <2>1. mapList[old] \in Seq(Players)
      BY DEF WorldInv, WorldTypes
    <2>2. Len(mapList[old]) \in Nat /\ DOMAIN mapList[old] = 1..Len(mapList[old])
      BY <2>1, LenProperties
    <2>3. PICK i \in DOMAIN mapList[old] : mapList[old][i] = p
      BY <1>1, <1>3 DEF WorldInv, ThereAreListed, On, ToSet
    <2>4. \A j \in (i + 1)..Len(mapList[old]) : j \in DOMAIN mapList[old] /\ j # i
      BY <2>2, <2>3
    <2>5. Fits(i)
      BY <2>3, <2>4 DEF WorldInv, NoDoubles
    <2> DEFINE e == CHOOSE k \in DOMAIN mapList[old] : Fits(k)
    <2>6. e \in DOMAIN mapList[old] /\ Fits(e)
      BY <2>5
    <2>7. mapList' = [mapList EXCEPT ![old] = RemoveAt(mapList[old], e)]
      BY <1>3 DEF ChangeMap, Erased
    <2> QED BY <2>6, <2>7
  <1>5. screen' = [q \in Players |-> IF q = p THEN {}
                     ELSE IF q \in ToSet(mapList[old]) \ {p} THEN screen[q] \ {p} ELSE screen[q]]
    BY <1>3 DEF ChangeMap
  <1>6. /\ player' \in [Players -> Character]
        /\ player'[p].map = m /\ player'[p].stage = "loading"
        /\ \A q \in Players : q # p => player'[q] = player[q]
    <2> DEFINE r == [player[p] EXCEPT !.map = m, !.stage = "loading"]
    <2>1. player \in [Players -> Character] /\ player[p] \in Character
      BY DEF WorldInv, WorldTypes
    <2>2. r \in Character /\ r.stage = "loading" /\ r.map = m
      BY <2>1 DEF Character, Stages
    <2>3. player' = [player EXCEPT ![p] = r]
      BY DEF ChangeMap
    <2> HIDE DEF r
    <2> QED BY <2>1, <2>2, <2>3
  <1>7. /\ RemoveAt(mapList[old], Erase) \in Seq(Players)
        /\ ToSet(RemoveAt(mapList[old], Erase)) = On(old) \ {p}
        /\ \A i, j \in DOMAIN RemoveAt(mapList[old], Erase) :
             RemoveAt(mapList[old], Erase)[i] = RemoveAt(mapList[old], Erase)[j] => i = j
    <2>1. mapList[old] \in Seq(Players)
      BY DEF WorldInv, WorldTypes
    <2> QED BY <2>1, <1>4, ErasedFrom DEF WorldInv, NoDoubles, On
  <1>8. PICK rest \in Seq(Players) :
          /\ rest = RemoveAt(mapList[old], Erase) /\ ToSet(rest) = On(old) \ {p}
          /\ \A i, j \in DOMAIN rest : rest[i] = rest[j] => i = j
          /\ mapList' = [mapList EXCEPT ![old] = rest]
    BY <1>4, <1>7
  <1>9. mapList'[old] = rest /\ \A k \in Maps : k # old => mapList'[k] = mapList[k]
    BY <1>8 DEF WorldInv, WorldTypes
  <1>10. /\ ToSet(mapList'[old]) = On(old) \ {p}
         /\ \A k \in Maps : k # old => ToSet(mapList'[k]) = On(k) /\ p \notin On(k)
         /\ \A k \in Maps : On(k) \subseteq Players
    <2>1. \A k \in Maps : k # old => p \notin On(k)
      BY <1>3, Listed
    <2> QED BY <2>1, <1>8, <1>9, OnPlayers DEF On
  <1>11. \A k \in Maps : ToSet(mapList'[k]) = On(k) \ {p}
    BY <1>10
  <1>12. WorldTypes'
    <2>1. screen' \in [Players -> SUBSET Players]
      BY <1>5 DEF WorldInv, WorldTypes
    <2> QED BY <2>1, <1>1, <1>6, <1>8 DEF WorldInv, WorldTypes
  <1>13. \A v \in Workers : task[v].at # "idle" => task[v].p \in Players \ {p}
    <2> SUFFICES ASSUME NEW v \in Workers, task[v].at # "idle", task[v].p = p PROVE FALSE
      BY Running
    <2>1. v = w
      BY Running, <1>1
    <2> QED BY <2>1, <1>1 DEF Idle
  <1>14. ~Adding(w, p)
    BY <1>1 DEF Adding, Idle
  <1>15. Mapped'
    BY <1>6 DEF WorldInv, Mapped
  <1>16. NoDoubles'
    BY <1>8, <1>9 DEF WorldInv, NoDoubles
  <1>17. HandlersFit'
    <2>1. ASSUME NEW v \in Workers, task[v].at # "idle"
          PROVE  /\ ThreadOf[task[v].p] = v
                 /\ task[v].at \in {"add", "show"} => player'[task[v].p].stage = "loading"
                 /\ task[v].at \in {"hide", "free"} => player'[task[v].p].stage = "gone"
      BY <2>1, <1>6, <1>13 DEF WorldInv, HandlersFit, Gone
    <2> QED BY <2>1, <1>1 DEF HandlersFit, Gone
  <1>18. LockHeld'
    <2>1. ASSUME NEW v \in Workers, task[v].at = "show"
          PROVE  /\ writer[player'[task[v].p].map] = v
                 /\ ToSet(task[v].todo) \subseteq ToSet(mapList'[player'[task[v].p].map])
      <3>1. /\ writer[player[task[v].p].map] = v /\ player[task[v].p].map \in Maps
            /\ ToSet(task[v].todo) \subseteq On(player[task[v].p].map)
            /\ player'[task[v].p] = player[task[v].p]
        BY <2>1, <1>6, <1>13, Running
      <3>2. player[task[v].p].map # old
        BY <3>1, <1>1, <1>3, NobodyIsNoWorker
      <3> QED BY <3>1, <3>2, <1>10
    <2> QED BY <2>1, <1>1 DEF LockHeld, On
  <1>19. HolderAdds'
    BY <1>1, <1>6, <1>13 DEF WorldInv, HolderAdds
  <1>20. ListedAreThere'
    <2> SUFFICES ASSUME NEW k \in Maps, NEW q \in ToSet(mapList'[k])
                 PROVE  /\ player'[q].map = k
                        /\ player'[q].stage \in {"in", "gone"} \/ Adding(ThreadOf[q], q)
      BY <1>1 DEF ListedAreThere, On, Adding
    <2>1. q \in On(k) /\ q \in Players /\ q # p
      BY <1>10, <1>11
    <2> QED BY <2>1, <1>6 DEF WorldInv, ListedAreThere
  <1>21. ThereAreListed'
    <2> SUFFICES ASSUME NEW q \in Players, player'[q].stage = "in" \/ Adding(ThreadOf[q], q)
                 PROVE  q \in ToSet(mapList'[player'[q].map])
      BY <1>1 DEF ThereAreListed, On, Adding
    <2>1. q # p
      BY <1>1, <1>6, <1>14
    <2>2. player'[q] = player[q] /\ q \in On(player[q].map)
      BY <2>1, <1>6 DEF WorldInv, ThereAreListed
    <2>3. player[q].stage = "in" \/ player[q].stage = "loading"
      BY <2>1, <1>6, ThreadsType, Running DEF Adding
    <2>4. player[q].map \in Maps
      BY <2>3 DEF WorldInv, Mapped
    <2> QED BY <2>1, <2>2, <2>4, <1>11
  <1>22. ShowsItsMap'
    <2> SUFFICES ASSUME NEW q \in Players, NEW x \in screen'[q]
                 PROVE  /\ player'[q].stage \in {"loading", "in"}
                        /\ q \in ToSet(mapList'[player'[q].map])
                        /\ player'[x].stage = "gone" \/ x \in ToSet(mapList'[player'[q].map])
      BY DEF ShowsItsMap, On, Gone
    <2>1. q # p /\ x \in screen[q] /\ x \in Players
      BY <1>5, <1>12 DEF WorldTypes
    <2>2. /\ player[q].stage \in {"loading", "in"} /\ q \in On(player[q].map)
          /\ Gone(x) \/ x \in On(player[q].map)
      BY <2>1 DEF WorldInv, ShowsItsMap
    <2>3. player[q].map \in Maps /\ player'[q] = player[q]
      BY <2>1, <2>2, <1>6 DEF WorldInv, Mapped
    <2>4. x # p
      <3> SUFFICES ASSUME x = p PROVE FALSE
        OBVIOUS
      <3>1. p \in On(player[q].map)
        BY <2>2, <1>1 DEF Gone
      <3>2. player[q].map = old
        BY <3>1, <2>3, <1>3, Listed
      <3>3. q \in ToSet(mapList[old]) \ {p}
        BY <3>2, <2>1, <2>2 DEF On
      <3> QED BY <3>3, <1>5
    <2> QED BY <2>1, <2>2, <2>3, <2>4, <1>6, <1>11 DEF Gone
  <1>23. MissesNobody'
    <2> SUFFICES ASSUME NEW k \in Maps, NEW a \in ToSet(mapList'[k]), NEW b \in ToSet(mapList'[k]),
                        player'[a].stage # "gone", player'[b].stage # "gone", b \notin screen'[a]
                 PROVE  YetToShow(k, a, b)'
      BY DEF MissesNobody, Gone, On
    <2>1. a \in On(k) \ {p} /\ b \in On(k) \ {p} /\ a \in Players /\ b \in Players
      BY <1>10, <1>11
    <2>2. ~Gone(a) /\ ~Gone(b) /\ b \notin screen[a]
      BY <2>1, <1>5, <1>6 DEF Gone
    <2> QED BY <2>1, <2>2, <1>1 DEF WorldInv, MissesNobody, YetToShow
  <1> QED BY <1>1, <1>12, <1>15, <1>16, <1>17, <1>18, <1>19, <1>20, <1>21, <1>22, <1>23 DEF WorldInv

\* Nobody is in a handler: no map's lock is held.  Who goes stays listed.
LEMMA DisconnectKeeps ==
  ASSUME WorldInv, NEW p \in Players, Disconnect(p)
  PROVE  WorldInv'
  <1> DEFINE w == ThreadOf[p]
             hide == [at |-> "hide", p |-> p]
             t == IF player[p].stage = "login" THEN Idle ELSE hide
  <1>1. /\ w \in Workers /\ task[w] = Idle /\ Connected(p)
        /\ \A v \in Workers : task[v].at \notin {"add", "show"}
        /\ clientList' = clientList \ {p}
        /\ screen' = [screen EXCEPT ![p] = {}]
        /\ player' = [player EXCEPT ![p].stage = "gone"]
        /\ UNCHANGED <<astray, mapList, writer, running, mapThread>>
    BY ThreadsType DEF Disconnect, Free, ListFree, InHandler, mapVars
  <1>2. t \in Handler /\ t \in {Idle, hide}
    BY DEF Handler, Idle
  <1>3. task' = [task EXCEPT ![w] = t]
    <2>1. CASE player[p].stage = "login"
      <3>1. task' = task
        BY <2>1 DEF Disconnect
      <3> QED BY <3>1, <2>1, <1>1 DEF WorldInv, WorldTypes
    <2>2. CASE player[p].stage # "login"
      BY <2>2 DEF Disconnect, Goto
    <2> QED BY <2>1, <2>2
  <1>4. /\ player' \in [Players -> Character] /\ player'[p].stage = "gone"
        /\ \A q \in Players : player'[q].map = player[q].map
        /\ \A q \in Players : q # p => player'[q].stage = player[q].stage
    BY <1>1, Went DEF Stages
  <1>5. PICK h \in Handler : h = t
    BY <1>2
  <1>6. h \in {Idle, hide} /\ h.at \in {"idle", "hide"} /\ (h.at = "hide" => h.p = p)
    BY <1>2, <1>5 DEF Idle
  <1> HIDE DEF t, hide
  <1>7. task'[w] = h /\ \A v \in Workers : v # w => task'[v] = task[v]
    BY <1>1, <1>3, <1>5 DEF WorldInv, WorldTypes
  <1>8. WorldTypes'
    BY <1>1, <1>3, <1>4, <1>5 DEF WorldInv, WorldTypes
  <1>9. \A v \in Workers : task'[v].at \notin {"add", "show"}
    BY <1>1, <1>6, <1>7
  <1>10. /\ \A v \in Workers, q \in Players : ~Adding(v, q) /\ ~Adding(v, q)'
         /\ \A m \in Maps : On(m)' = On(m) /\ On(m) \subseteq Players
         /\ \A m \in Maps : writer[m] \notin Workers
    <2>1. \A m \in Maps : writer[m] \notin Workers
      BY <1>1 DEF WorldInv, HolderAdds
    <2> QED BY <2>1, <1>1, <1>9, OnPlayers DEF Adding, On
  <1>11. Mapped' /\ NoDoubles'
    BY <1>1, <1>4 DEF WorldInv, Mapped, NoDoubles
  <1>12. HandlersFit'
    <2> SUFFICES ASSUME NEW v \in Workers, task'[v].at # "idle"
                 PROVE  /\ ThreadOf[task'[v].p] = v
                        /\ task'[v].at \in {"hide", "free"} => player'[task'[v].p].stage = "gone"
      BY <1>9 DEF HandlersFit, Gone
    <2>1. CASE v = w
      BY <2>1, <1>4, <1>6, <1>7
    <2>2. CASE v # w
      <3>1. /\ task'[v] = task[v] /\ task[v].p \in Players /\ ThreadOf[task[v].p] = v
            /\ task[v].at \in {"hide", "free"} => player[task[v].p].stage = "gone"
        BY <2>2, <1>7, Running DEF Gone
      <3>2. task[v].p # p
        BY <3>1, <2>2
      <3> QED BY <3>1, <3>2, <1>4
    <2> QED BY <2>1, <2>2
  <1>13. LockHeld'
    BY <1>9 DEF LockHeld
  <1>14. HolderAdds'
    BY <1>1, <1>10 DEF HolderAdds
  <1>15. ListedAreThere'
    <2> SUFFICES ASSUME NEW m \in Maps, NEW q \in On(m)
                 PROVE  player'[q].map = m /\ player'[q].stage \in {"in", "gone"}
      BY <1>10 DEF ListedAreThere
    <2>1. q \in Players /\ player[q].map = m /\ player[q].stage \in {"in", "gone"}
      BY <1>10, ThreadsType DEF WorldInv, ListedAreThere
    <2> QED BY <2>1, <1>4
  <1>16. ThereAreListed'
    <2> SUFFICES ASSUME NEW q \in Players, player'[q].stage = "in"
                 PROVE  q \in ToSet(mapList'[player'[q].map])
      BY <1>10, ThreadsType DEF ThereAreListed, On
    <2> QED BY <1>1, <1>4 DEF WorldInv, ThereAreListed, On
  <1>17. ShowsItsMap'
    <2> SUFFICES ASSUME NEW q \in Players, NEW x \in screen'[q]
                 PROVE  /\ player'[q].stage \in {"loading", "in"}
                        /\ q \in ToSet(mapList'[player'[q].map])
                        /\ player'[x].stage = "gone" \/ x \in ToSet(mapList'[player'[q].map])
      BY DEF ShowsItsMap, On, Gone
    <2>1. q # p /\ x \in screen[q] /\ x \in Players
      BY <1>1, <1>8 DEF WorldInv, WorldTypes
    <2>2. /\ player[q].stage \in {"loading", "in"} /\ q \in ToSet(mapList[player[q].map])
          /\ player[x].stage = "gone" \/ x \in ToSet(mapList[player[q].map])
      BY <2>1 DEF WorldInv, ShowsItsMap, Gone, On
    <2> QED BY <2>1, <2>2, <1>1, <1>4
  <1>18. MissesNobody'
    <2> SUFFICES ASSUME NEW m \in Maps, NEW a \in On(m), NEW b \in On(m),
                        player'[a].stage # "gone", player'[b].stage # "gone"
                 PROVE  b \in screen'[a]
      BY <1>10 DEF MissesNobody, Gone
    <2>1. a \in Players \ {p} /\ b \in Players \ {p}
      BY <1>4, <1>10
    <2>2. ~Gone(a) /\ ~Gone(b)
      BY <2>1, <1>4 DEF Gone
    <2>3. b \in screen[a]
      BY <2>2, <1>10 DEF WorldInv, MissesNobody, YetToShow
    <2> QED BY <2>1, <2>3, <1>1 DEF WorldInv, WorldTypes
  <1> QED BY <1>1, <1>8, <1>11, <1>12, <1>13, <1>14, <1>15, <1>16, <1>17, <1>18 DEF WorldInv

\* Connecting, logging in, reporting a loaded map; what follows a disconnection.
LEMMA ConnectKeeps ==
  ASSUME WorldInv, NEW p \in Players, Connect(p)
  PROVE  WorldInv'
  <1> DEFINE r == [player[p] EXCEPT !.stage = "login"]
  <1>1. player[p] \in Character /\ player[p].stage = "new"
    BY DEF WorldInv, WorldTypes, Connect
  <1>2. r \in Character /\ r.stage = "login"
    BY <1>1 DEF Character, Stages
  <1>3. player' = [player EXCEPT ![p] = r]
    BY DEF Connect
  <1>4. clientList' \subseteq Players /\ UNCHANGED <<mapVars, task, screen, astray>>
    BY DEF Connect, WorldInv, WorldTypes
  <1> HIDE DEF r
  <1> QED BY <1>1, <1>2, <1>3, <1>4, ComingKeeps

LEMMA PlayerLoginKeeps ==
  ASSUME WorldInv, NEW w \in Workers, NEW p \in Players, NEW m \in Maps, PlayerLogin(w, p, m)
  PROVE  WorldInv'
  <1> DEFINE r == [stage |-> "loading", map |-> m, gear |-> "made"]
  <1>1. r \in Character /\ r.stage = "loading" /\ r.map = m
    BY DEF Character, Stages
  <1>2. player[p].stage = "login" /\ player' = [player EXCEPT ![p] = r]
    BY DEF PlayerLogin, Serves
  <1>3. clientList' \subseteq Players /\ UNCHANGED <<mapVars, task, screen, astray>>
    BY DEF PlayerLogin, WorldInv, WorldTypes
  <1> HIDE DEF r
  <1> QED BY <1>1, <1>2, <1>3, ComingKeeps

LEMMA ClientReadyKeeps ==
  ASSUME WorldInv, NEW w \in Workers, NEW p \in Players, ClientReady(w, p)
  PROVE  WorldInv'
  <1> DEFINE t == [at |-> "add", p |-> p]
  <1>1. t \in Handler /\ t.at = "add" /\ t.p = p
    BY DEF Handler
  <1>2. /\ task[w].at # "show" /\ ThreadOf[p] = w /\ player[p].stage = "loading"
        /\ task' = [task EXCEPT ![w] = t]
    BY DEF ClientReady, Serves, Free, Idle, Goto
  <1>3. UNCHANGED <<player, screen, mapVars, clientList, astray>>
    BY DEF ClientReady
  <1>4. player' \in [Players -> Character] /\ screen' \in [Players -> SUBSET Players]
    BY <1>3 DEF WorldInv, WorldTypes
  <1> HIDE DEF t
  <1> QED BY <1>1, <1>2, <1>3, <1>4, AsideKeeps

LEMMA HidePlayerKeeps ==
  ASSUME WorldInv, NEW w \in Workers, HidePlayer(w)
  PROVE  WorldInv'
  <1>1. task[w].at = "hide" /\ task[w].p \in Players /\ ThreadOf[task[w].p] = w /\ Gone(task[w].p)
    BY Running DEF HidePlayer, At
  <1>2. PICK p \in Players : p = task[w].p
    BY <1>1
  <1> DEFINE t == [at |-> "free", p |-> p]
  <1>3. t \in Handler /\ t.at = "free" /\ t.p = p
    BY DEF Handler
  <1>4. /\ task' = [task EXCEPT ![w] = t]
        /\ screen' = [q \in Players |-> screen[q] \ (IF q \in clientList THEN {p} ELSE {})]
        /\ UNCHANGED <<player, mapVars, clientList, astray>>
    BY <1>2 DEF HidePlayer, Goto
  <1>5. /\ player' \in [Players -> Character] /\ screen' \in [Players -> SUBSET Players]
        /\ \A q \in Players : screen'[q] \subseteq screen[q]
        /\ \A q \in Players : \A x \in screen[q] \ screen'[q] : x = p
    BY <1>4 DEF WorldInv, WorldTypes
  <1> HIDE DEF t
  <1> QED BY <1>1, <1>2, <1>3, <1>4, <1>5, AsideKeeps

LEMMA FreeItemsKeeps ==
  ASSUME WorldInv, NEW w \in Workers, FreeItems(w)
  PROVE  WorldInv'
  <1>1. task[w].at = "free" /\ task[w].p \in Players
    BY Running DEF FreeItems, At
  <1>2. PICK p \in Players : p = task[w].p
    BY <1>1
  <1> DEFINE r == [player[p] EXCEPT !.gear = "freed"]
  <1>3. player \in [Players -> Character] /\ player[p] \in Character
    BY DEF WorldInv, WorldTypes
  <1>4. r \in Character /\ r.stage = player[p].stage /\ r.map = player[p].map
    BY <1>3 DEF Character
  <1>5. player' = [player EXCEPT ![p] = r]
    BY <1>2 DEF FreeItems
  <1> HIDE DEF r
  <1>6. /\ player' \in [Players -> Character]
        /\ \A q \in Players : player'[q].stage = player[q].stage /\ player'[q].map = player[q].map
    BY <1>3, <1>4, <1>5
  <1>7. /\ task' = [task EXCEPT ![w] = Idle]
        /\ UNCHANGED <<screen, mapVars, clientList, astray>>
    BY DEF FreeItems, Goto
  <1>8. Idle \in Handler /\ Idle.at = "idle" /\ screen' \in [Players -> SUBSET Players]
    BY <1>7 DEF Idle, Handler, WorldInv, WorldTypes
  <1> QED BY <1>1, <1>6, <1>7, <1>8, AsideKeeps

\* Everyone on the map of a client in the world shows it, when nobody holds its lock.
LEMMA EveryoneShows ==
  ASSUME WorldInv, NEW p \in Players, player[p].stage = "in", writer[player[p].map] = None,
         NEW q \in On(player[p].map), ~Gone(q)
  PROVE  p \in screen[q]
  <1>1. player[p].map \in Maps /\ p \in On(player[p].map) /\ ~Gone(p)
    BY DEF WorldInv, Mapped, ThereAreListed, Gone
  <1>2. ~YetToShow(player[p].map, q, p)
    BY NobodyIsNoWorker DEF YetToShow
  <1> QED BY <1>1, <1>2 DEF WorldInv, MissesNobody

LEMMA MoveKeeps ==
  ASSUME WorldInv, NEW w \in Workers, NEW p \in Players, Move(w, p)
  PROVE  WorldInv'
  <1>1. /\ player[p].stage = "in" /\ writer[player[p].map] = None
        /\ astray' = (astray \/ \E q \in On(player[p].map) : Connected(q) /\ p \notin screen[q])
        /\ UNCHANGED <<player, clientList, mapVars, task, screen>>
    BY DEF Move, Serves, Broadcast, On
  <1>2. ASSUME NEW q \in On(player[p].map), Connected(q) PROVE p \in screen[q]
    BY <1>1, <1>2, EveryoneShows DEF Connected, Gone
  <1>3. ~astray'
    BY <1>1, <1>2 DEF WorldInv
  <1>4. /\ clientList' \subseteq Players /\ running' \in [Maps -> BOOLEAN]
        /\ mapThread' \in [Maps -> {"sleeps", "counts", "ended"}]
    BY <1>1 DEF WorldInv, WorldTypes, mapVars
  <1> QED BY <1>1, <1>3, <1>4, CalmKeeps DEF mapVars

\* The thread of a map, and who stops it.
LEMMA MapThreadKeeps ==
  ASSUME WorldInv,
         \/ \E w \in Workers, p \in Players : StopMaps(w, p)
         \/ \E m \in Maps : MapTurn(m) \/ MapCount(m)
  PROVE  WorldInv'
  <1>1. UNCHANGED <<player, clientList, mapList, writer, task, screen>> /\ ~astray'
    BY DEF StopMaps, MapTurn, MapCount, WorldInv
  <1>2. clientList' \subseteq Players
    BY <1>1 DEF WorldInv, WorldTypes
  <1>3. running' \in [Maps -> BOOLEAN]
    BY DEF WorldInv, WorldTypes, StopMaps, MapTurn, MapCount
  <1>4. mapThread' \in [Maps -> {"sleeps", "counts", "ended"}]
    BY DEF WorldInv, WorldTypes, StopMaps, MapTurn, MapCount
  <1> QED BY <1>1, <1>2, <1>3, <1>4, CalmKeeps

LEMMA WorldInvariant == Spec => []WorldInv
  <1>1. WorldInv /\ [Next]_vars => WorldInv'
    <2> SUFFICES ASSUME WorldInv, [Next]_vars PROVE WorldInv'
      OBVIOUS
    <2>1. CASE UNCHANGED vars
      <3>1. /\ UNCHANGED <<player, mapList, writer, task, screen>> /\ ~astray'
            /\ clientList' \subseteq Players /\ running' \in [Maps -> BOOLEAN]
            /\ mapThread' \in [Maps -> {"sleeps", "counts", "ended"}]
        BY <2>1 DEF vars, WorldInv, WorldTypes
      <3> QED BY <3>1, CalmKeeps
    <2>2. ASSUME NEW p \in Players, Connect(p) \/ Disconnect(p) PROVE WorldInv'
      BY <2>2, ConnectKeeps, DisconnectKeeps
    <2>3. ASSUME NEW w \in Workers, Continue(w) PROVE WorldInv'
      BY <2>3, AddClientKeeps, ShowNextKeeps, AddedKeeps, HidePlayerKeeps, FreeItemsKeeps
         DEF Continue
    <2>4. ASSUME NEW w \in Workers, NEW p \in Players, Packet(w, p) PROVE WorldInv'
      BY <2>4, PlayerLoginKeeps, ChangeMapKeeps, ClientReadyKeeps, MoveKeeps, MapThreadKeeps
         DEF Packet
    <2>5. ASSUME NEW m \in Maps, MapTurn(m) \/ MapCount(m) PROVE WorldInv'
      BY <2>5, MapThreadKeeps
    <2> QED BY <2>1, <2>2, <2>3, <2>4, <2>5 DEF Next
  <1> QED BY <1>1, WorldInitInv, PTL DEF Spec
-----------------------------------------------------------------------------
(* What follows                                                             *)

\* A client that is in the world is in the list of exactly one map, the one its
\* Map pointer names, and one that loads is in none: RemoveClient always finds the
\* entry it erases (CMap.cpp:130).
THEOREM ListsAreRight == Spec => []ListedOnce
  <1>1. WorldInv => ListedOnce
    <2> SUFFICES ASSUME WorldInv, NEW p \in Players
                 PROVE  /\ player[p].stage = "in" => \E i \in DOMAIN mapList[player[p].map] :
                             Places(p) = {<<player[p].map, i>>}
                        /\ player[p].stage = "loading" /\ task[ThreadOf[p]].at # "show" => Places(p) = {}
      BY DEF ListedOnce
    <2>1. ASSUME player[p].stage = "in"
          PROVE  \E i \in DOMAIN mapList[player[p].map] : Places(p) = {<<player[p].map, i>>}
      <3>1. PICK m \in Maps : m = player[p].map
        BY <2>1 DEF WorldInv, Mapped
      <3>2. PICK i \in DOMAIN mapList[m] : mapList[m][i] = p
        BY <2>1, <3>1 DEF WorldInv, ThereAreListed, On, ToSet
      <3>3. \A k \in Maps : \A j \in DOMAIN mapList[k] : mapList[k][j] = p => k = m /\ j = i
        BY <3>1, <3>2, Listed DEF WorldInv, NoDoubles, On, ToSet
      <3>4. Places(p) = {<<m, i>>}
        BY <3>2, <3>3 DEF Places
      <3> QED BY <3>1, <3>4
    <2>2. ASSUME player[p].stage = "loading", task[ThreadOf[p]].at # "show"
          PROVE  Places(p) = {}
      <3>1. \A m \in Maps : p \notin On(m)
        BY <2>2 DEF WorldInv, ListedAreThere, Adding
      <3> QED BY <3>1 DEF Places, On, ToSet
    <2> QED BY <2>1, <2>2
  <1> QED BY <1>1, WorldInvariant, PTL

\* Between two handlers a client shows, of those in the world, exactly the ones on
\* its map, however many come, go and change maps at once (CMap.cpp:69).
THEOREM ScreensAreRight == Spec => []ScreenIsMap
  <1>1. WorldInv => ScreenIsMap
    <2> SUFFICES ASSUME WorldInv, NEW p \in Players,
                        player[p].stage = "in", writer[player[p].map] = None
                 PROVE  {q \in screen[p] : player[q].stage \in {"in", "loading"}}
                          = {q \in Players : player[q].stage = "in" /\ player[q].map = player[p].map}
      BY DEF ScreenIsMap
    <2>1. PICK m \in Maps : m = player[p].map
      BY DEF WorldInv, Mapped
    <2>2. screen[p] \subseteq Players
      BY DEF WorldInv, WorldTypes
    <2>3. ASSUME NEW q \in screen[p], player[q].stage \in {"in", "loading"}
          PROVE  player[q].stage = "in" /\ player[q].map = m
      <3>1. q \in On(m)
        BY <2>1, <2>3 DEF WorldInv, ShowsItsMap, Gone
      <3>2. player[q].map = m /\ q \in Players
        BY <3>1, Listed
      <3>3. ~Adding(ThreadOf[q], q)
        <4> SUFFICES ASSUME Adding(ThreadOf[q], q) PROVE FALSE
          OBVIOUS
        <4>1. ThreadOf[q] \in Workers
          BY <3>2, ThreadsType
        <4>2. writer[m] = ThreadOf[q]
          BY <4>1, <3>2, Running DEF Adding
        <4> QED BY <4>1, <4>2, <2>1, NobodyIsNoWorker
      <3> QED BY <2>3, <3>1, <3>2, <3>3 DEF WorldInv, ListedAreThere
    <2>4. ASSUME NEW q \in Players, player[q].stage = "in", player[q].map = m
          PROVE  q \in screen[p]
      <3>1. p \in On(m) /\ ~Gone(p)
        BY <2>1 DEF WorldInv, ThereAreListed, Gone
      <3> QED BY <3>1, <2>1, <2>4, EveryoneShows
    <2> QED BY <2>1, <2>2, <2>3, <2>4
  <1> QED BY <1>1, WorldInvariant, PTL

\* No client is told that somebody moves whom it does not show (CMap.cpp:163).
THEOREM MovesAreOfShown == Spec => []MovesOfShown
  <1>1. WorldInv => MovesOfShown
    BY DEF WorldInv, MovesOfShown
  <1> QED BY <1>1, WorldInvariant, PTL

\* The fields of the clients, the maps and the screens have their types, and no
\* list has a double, for any number of clients, workers and maps (CMap.cpp:29).
THEOREM WorldTypesHold == Spec => []TypeOK
  <1>1. WorldInv => TypeOK
    <2> SUFFICES ASSUME WorldInv PROVE TypeOK
      OBVIOUS
    <2>1. \A m \in Maps : ToSet(mapList[m]) \subseteq Players
      BY OnPlayers DEF On
    <2>2. \A m \in Maps : IsInjective(mapList[m])
      BY DEF WorldInv, NoDoubles, IsInjective
    <2> QED BY <2>1, <2>2 DEF TypeOK, WorldInv, WorldTypes, Character, Stages
  <1> QED BY <1>1, WorldInvariant, PTL
-----------------------------------------------------------------------------
(* Entity ids (EntityIds): no id is given to two entities, and none is       *)
(* refused while one is free.                                                *)

\* A map starts with nobody on it.
LEMMA EidInitInv == EidInit => EidInv
  BY EidRange DEF EidInit, EidInv, EidTypeOK, EidsUnique, RecycleUnused, NothingLost, NoEID

\* What the top of a stack is, and what is left under it.
LEMMA StackTop ==
  ASSUME NEW S, NEW s \in Seq(S), s # <<>>
  PROVE  /\ Len(s) \in Nat \ {0}
         /\ s[Len(s)] \in S
         /\ SubSeq(s, 1, Len(s) - 1) \in Seq(S)
         /\ Len(SubSeq(s, 1, Len(s) - 1)) = Len(s) - 1
         /\ \A i \in 1..(Len(s) - 1) : SubSeq(s, 1, Len(s) - 1)[i] = s[i]
  <1>1. Len(s) \in Nat \ {0}
    BY EmptySeq, LenProperties
  <1>2. s[Len(s)] \in S
    BY <1>1, ElementOfSeq
  <1>3. \A i \in 1..(Len(s) - 1) : s[i] \in S
    BY <1>1, ElementOfSeq
  <1>4. /\ SubSeq(s, 1, Len(s) - 1) \in Seq(S)
        /\ Len(SubSeq(s, 1, Len(s) - 1)) = IF 1 <= Len(s) - 1 THEN Len(s) - 1 - 1 + 1 ELSE 0
        /\ \A i \in 1..(Len(s) - 1 - 1 + 1) : SubSeq(s, 1, Len(s) - 1)[i] = s[1 + i - 1]
    BY <1>1, <1>3, SubSeqProperties
  <1>5. Len(SubSeq(s, 1, Len(s) - 1)) = Len(s) - 1
    <2>1. \A n \in Nat \ {0} : n - 1 = IF 1 <= n - 1 THEN n - 1 - 1 + 1 ELSE 0
      OBVIOUS
    <2> QED BY <1>1, <1>4, <2>1, Zenon
  <1>6. \A i \in 1..(Len(s) - 1) : SubSeq(s, 1, Len(s) - 1)[i] = s[i]
    BY <1>1, <1>4
  <1> QED BY <1>1, <1>2, <1>4, <1>5, <1>6

\* An id that was given back is given out again: it leaves the stack for one entity.
LEMMA PopKeeps ==
  ASSUME EidInv, NEW e \in Entities, PopEID(e)
  PROVE  EidInv'
  <1> DEFINE n == Len(EIDRecycle)
             top == EIDRecycle[n]
  <1>1. /\ NextEID \in FirstEID..MAX_EID /\ EIDRecycle \in Seq(FirstEID..(NextEID - 1))
        /\ eid \in [Entities -> (FirstEID..(NextEID - 1)) \cup {NoEID}]
    BY DEF EidInv, EidTypeOK
  <1>2. /\ n \in Nat \ {0} /\ top \in FirstEID..(NextEID - 1)
        /\ EIDRecycle' \in Seq(FirstEID..(NextEID - 1))
        /\ Len(EIDRecycle') = n - 1
        /\ \A i \in 1..(n - 1) : EIDRecycle'[i] = EIDRecycle[i]
    BY <1>1, StackTop, EidRange DEF PopEID
  <1>3. EidTypeOK'
    BY <1>1, <1>2 DEF PopEID, EidTypeOK
  <1>4. EidsUnique'
    <2> SUFFICES ASSUME NEW c \in Entities, NEW d \in Entities, eid'[c] = eid'[d], c # d
                 PROVE  eid'[c] = NoEID
      BY DEF EidsUnique
    <2>1. \A x \in Entities : eid[x] # top
      BY <1>2 DEF EidInv, RecycleUnused
    <2>2. eid'[e] = top /\ \A x \in Entities : x # e => eid'[x] = eid[x]
      BY <1>1 DEF PopEID
    <2> QED BY <2>1, <2>2 DEF EidInv, EidsUnique
  <1>5. RecycleUnused'
    <2>1. \A i, j \in 1..n : EIDRecycle[i] = EIDRecycle[j] => i = j
      BY DEF EidInv, RecycleUnused
    <2>2. \A i \in 1..(n - 1) : EIDRecycle'[i] # top
      BY <1>2, <2>1
    <2>3. ASSUME NEW i \in 1..(n - 1), NEW d \in Entities PROVE eid'[d] # EIDRecycle'[i]
      <3>1. CASE d = e
        BY <3>1, <1>1, <2>2 DEF PopEID
      <3>2. CASE d # e
        <4>1. eid'[d] = eid[d] /\ EIDRecycle'[i] = EIDRecycle[i] /\ i \in 1..n
          BY <3>2, <1>1, <1>2 DEF PopEID
        <4> QED BY <4>1 DEF EidInv, RecycleUnused
      <3> QED BY <3>1, <3>2
    <2> QED BY <1>2, <2>1, <2>3 DEF RecycleUnused
  <1>6. NothingLost'
    <2> SUFFICES ASSUME NEW id \in FirstEID..(NextEID - 1)
                 PROVE  \/ \E d \in Entities : eid'[d] = id
                        \/ \E i \in 1..Len(EIDRecycle') : EIDRecycle'[i] = id
      BY DEF NothingLost, PopEID
    <2>1. CASE \E d \in Entities : eid[d] = id
      <3>1. PICK d \in Entities : eid[d] = id
        BY <2>1
      <3>2. d # e
        BY <3>1, <1>1, EidRange DEF PopEID, NoEID
      <3> QED BY <3>1, <3>2, <1>1 DEF PopEID
    <2>2. CASE \E i \in 1..n : EIDRecycle[i] = id
      <3>1. PICK i \in 1..n : EIDRecycle[i] = id
        BY <2>2
      <3>2. CASE i = n
        BY <3>1, <3>2, <1>1 DEF PopEID
      <3>3. CASE i # n
        BY <3>1, <3>3, <1>2
      <3> QED BY <3>2, <3>3
    <2> QED BY <2>1, <2>2 DEF EidInv, NothingLost
  <1> QED BY <1>3, <1>4, <1>5, <1>6 DEF EidInv

\* An id that was never given out is nobody's and not on the stack.
LEMMA NextKeeps ==
  ASSUME EidInv, NEW e \in Entities, GetNextEID(e)
  PROVE  EidInv'
  <1>1. /\ NextEID \in FirstEID..MAX_EID /\ EIDRecycle = <<>>
        /\ eid \in [Entities -> (FirstEID..(NextEID - 1)) \cup {NoEID}]
        /\ NextEID' = NextEID + 1 /\ NextEID' \in FirstEID..MAX_EID
        /\ EIDRecycle' = <<>>
    BY EidRange DEF EidInv, EidTypeOK, GetNextEID
  <1>2. eid'[e] = NextEID /\ \A x \in Entities : x # e => eid'[x] = eid[x]
    BY <1>1 DEF GetNextEID
  <1>3. \A x \in Entities : eid[x] # NextEID
    BY <1>1, EidRange DEF NoEID
  <1>4. EidTypeOK'
    BY <1>1, EidRange DEF EidTypeOK, GetNextEID
  <1>5. EidsUnique'
    BY <1>2, <1>3 DEF EidInv, EidsUnique
  <1>6. RecycleUnused'
    BY <1>1 DEF RecycleUnused
  <1>7. NothingLost'
    <2> SUFFICES ASSUME NEW id \in FirstEID..NextEID
                 PROVE  \E d \in Entities : eid'[d] = id
      BY <1>1, EidRange DEF NothingLost
    <2>1. CASE id = NextEID
      BY <2>1, <1>2
    <2>2. CASE id # NextEID
      <3>1. id \in FirstEID..(NextEID - 1)
        BY <2>2, <1>1, EidRange
      <3>2. PICK d \in Entities : eid[d] = id
        BY <3>1, <1>1 DEF EidInv, NothingLost
      <3>3. d # e
        BY <3>1, <3>2, EidRange DEF GetNextEID, NoEID
      <3> QED BY <3>2, <3>3, <1>2
    <2> QED BY <2>1, <2>2
  <1> QED BY <1>4, <1>5, <1>6, <1>7 DEF EidInv

\* An id that is given back was one entity's, and is now the top of the stack.
LEMMA FreeKeeps ==
  ASSUME EidInv, NEW e \in Entities, FreeEID(e)
  PROVE  EidInv'
  <1> DEFINE n == Len(EIDRecycle)
  <1>1. /\ NextEID \in FirstEID..MAX_EID /\ EIDRecycle \in Seq(FirstEID..(NextEID - 1))
        /\ eid \in [Entities -> (FirstEID..(NextEID - 1)) \cup {NoEID}]
        /\ NextEID' = NextEID
    BY DEF EidInv, EidTypeOK, FreeEID
  <1>2. eid[e] \in FirstEID..(NextEID - 1)
    BY <1>1 DEF FreeEID
  <1>3. /\ n \in Nat /\ EIDRecycle' \in Seq(FirstEID..(NextEID - 1))
        /\ Len(EIDRecycle') = n + 1 /\ EIDRecycle'[n + 1] = eid[e]
        /\ \A i \in 1..n : EIDRecycle'[i] = EIDRecycle[i]
    BY <1>1, <1>2 DEF FreeEID
  <1>4. eid'[e] = NoEID /\ \A x \in Entities : x # e => eid'[x] = eid[x]
    BY <1>1 DEF FreeEID
  <1>5. EidTypeOK'
    BY <1>1, <1>3 DEF EidTypeOK, FreeEID
  <1>6. EidsUnique'
    BY <1>4 DEF EidInv, EidsUnique
  <1>7. RecycleUnused'
    <2>1. \A i \in 1..n : EIDRecycle[i] # eid[e]
      BY DEF EidInv, RecycleUnused
    <2>2. \A i, j \in 1..(n + 1) : EIDRecycle'[i] = EIDRecycle'[j] => i = j
      <3> SUFFICES ASSUME NEW i \in 1..(n + 1), NEW j \in 1..(n + 1), EIDRecycle'[i] = EIDRecycle'[j]
                   PROVE  i = j
        OBVIOUS
      <3>1. (i = n + 1 \/ i \in 1..n) /\ (j = n + 1 \/ j \in 1..n)
        BY <1>3
      <3> QED BY <3>1, <2>1, <1>3 DEF EidInv, RecycleUnused
    <2>3. ASSUME NEW i \in 1..(n + 1), NEW d \in Entities PROVE eid'[d] # EIDRecycle'[i]
      <3>1. CASE d = e
        <4>1. EIDRecycle'[i] \in FirstEID..(NextEID - 1)
          BY <1>3, ElementOfSeq
        <4> QED BY <4>1, <3>1, <1>4, EidRange DEF NoEID
      <3>2. CASE d # e /\ i = n + 1
        BY <3>2, <1>2, <1>3, <1>4, EidRange DEF EidInv, EidsUnique, NoEID
      <3>3. CASE d # e /\ i # n + 1
        <4>1. i \in 1..n
          BY <3>3, <1>3
        <4> QED BY <4>1, <3>3, <1>3, <1>4 DEF EidInv, RecycleUnused
      <3> QED BY <3>1, <3>2, <3>3
    <2> QED BY <1>3, <2>2, <2>3 DEF RecycleUnused
  <1>8. NothingLost'
    <2> SUFFICES ASSUME NEW id \in FirstEID..(NextEID - 1)
                 PROVE  \/ \E d \in Entities : eid'[d] = id
                        \/ \E i \in 1..(n + 1) : EIDRecycle'[i] = id
      BY <1>1, <1>3 DEF NothingLost
    <2>1. CASE id = eid[e]
      BY <2>1, <1>3
    <2>2. CASE id # eid[e] /\ \E d \in Entities : eid[d] = id
      BY <2>2, <1>4
    <2>3. CASE \E i \in 1..n : EIDRecycle[i] = id
      <3>1. PICK i \in 1..n : EIDRecycle[i] = id
        BY <2>3
      <3>2. i \in 1..(n + 1)
        BY <1>3
      <3> QED BY <3>1, <3>2, <1>3
    <2> QED BY <2>1, <2>2, <2>3 DEF EidInv, NothingLost
  <1> QED BY <1>5, <1>6, <1>7, <1>8 DEF EidInv

\* The inductive invariant holds of every map.
LEMMA EidInvariant == EidSpec => []EidInv
  <1>1. EidInv /\ [EidNext]_eidVars => EidInv'
    <2> SUFFICES ASSUME EidInv, [EidNext]_eidVars PROVE EidInv'
      OBVIOUS
    <2>1. CASE EidNext
      BY <2>1, PopKeeps, NextKeeps, FreeKeeps DEF EidNext
    <2>2. CASE UNCHANGED eidVars
      BY <2>2 DEF eidVars, EidInv, EidTypeOK, EidsUnique, RecycleUnused, NothingLost
    <2> QED BY <2>1, <2>2
  <1> QED BY <1>1, EidInitInv, PTL DEF EidSpec

\* No two entities of a map have the same id (CMap.cpp:171).
THEOREM EntityIdsAreUnique == EidSpec => []EidsUnique
  <1>1. EidInv => EidsUnique
    BY DEF EidInv
  <1> QED BY <1>1, EidInvariant, PTL

\* MAX_EID is returned only "if all are allocated" (CMap.h:51).
THEOREM NoIdIsLost == EidSpec => []RefusedOnlyIfAllAllocated
  <1>1. EidInv => RefusedOnlyIfAllAllocated
    BY EidRange DEF EidInv, NothingLost, RefusedOnlyIfAllAllocated, AllAllocated, EIDs
  <1> QED BY <1>1, EidInvariant, PTL
=============================================================================
