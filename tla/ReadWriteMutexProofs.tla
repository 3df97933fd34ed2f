------------------------ MODULE ReadWriteMutexProofs ------------------------
(***************************************************************************)
(* The safety of the lock for every set of threads and every nesting depth. *)
(*                                                                         *)
(* MutualExclusion is not inductive: wakeInTurn lets a writer in without    *)
(* looking at m_readers.  It may, because a writer that has seen the last   *)
(* reader leave keeps m_pendingWriters above 0, which bars new readers;     *)
(* that is TurnIsDrained, and it needs the counters to be exact.            *)
(***************************************************************************)
EXTENDS ReadWriteMutex, FiniteSetTheorems, TLAPS

\* Sleepers are in a wait loop; a writer, waiting or not, holds no read lock,
\* and a reader that waits has room for one more.
Placement == /\ \A t \in asleep : pc[t] \in Waiting
             /\ \A t \in Threads : Writing(t) \/ WaitsToWrite(t) => depth[t] = 0
             /\ \A t \in Threads : WaitsToRead(t) => depth[t] < MaxDepth

\* Past the first wait of acquireWriteLock no reader is inside.
TurnIsDrained == \A t \in Threads : pc[t] = "awaitTurn" => m_readers = 0

OneWriter == \A t, u \in Threads : Writing(t) /\ Writing(u) => t = u

WriterSeesNoReader == m_currentWriter => m_readers = 0

IInv == /\ TypeOK /\ Placement /\ CountersExact
        /\ OneWriter /\ WriterSeesNoReader /\ TurnIsDrained /\ NoLostWakeup
-----------------------------------------------------------------------------
(* Counting facts: a counter that equals the size of a set tells emptiness, *)
(* and follows the set when one element comes or goes.                      *)

\* The counted sets are finite, since the threads are.
LEMMA HoldsFinite == IsFiniteSet(Holds)
<1>1. IsFiniteSet(1..MaxDepth)
  BY FS_Interval, MaxDepthPos
<1>2. IsFiniteSet(Threads \X (1..MaxDepth))
  BY <1>1, ThreadsFinite, FS_Product
<1>3. QED BY <1>2, FS_Subset DEF Holds

LEMMA InLineFinite == IsFiniteSet(InLine)
BY ThreadsFinite, FS_Subset DEF InLine

\* No reader is counted exactly when no thread holds the lock for reading.
LEMMA ReadersZero ==
  ASSUME TypeOK, CountersExact
  PROVE m_readers = 0 <=> \A t \in Threads : depth[t] = 0
<1>1. m_readers = 0 <=> Holds = {}
  BY HoldsFinite, FS_EmptySet DEF CountersExact
<1>2. ASSUME Holds = {}, NEW t \in Threads PROVE depth[t] = 0
  <2>1. <<t, 1>> \notin Holds BY <1>2
  <2>2. QED BY <2>1, MaxDepthPos DEF Holds, TypeOK
<1>3. ASSUME \A t \in Threads : depth[t] = 0 PROVE Holds = {}
  BY <1>3 DEF Holds
<1>4. QED BY <1>1, <1>2, <1>3

\* No writer is counted as pending exactly when none is in line.
LEMMA PendingZero ==
  ASSUME CountersExact
  PROVE m_pendingWriters = 0 <=> InLine = {}
BY InLineFinite, FS_EmptySet DEF CountersExact

\* One more read lock of a thread is one more element of Holds.
LEMMA OneMoreHold ==
  ASSUME TypeOK, NEW t \in Threads, depth[t] < MaxDepth,
         depth' = [depth EXCEPT ![t] = @ + 1]
  PROVE Cardinality(Holds') = Cardinality(Holds) + 1
<1> DEFINE h == <<t, depth[t] + 1>>
<1>1. Holds' = Holds \cup {h}
  BY MaxDepthPos DEF Holds, TypeOK
<1>2. h \notin Holds
  BY DEF Holds, TypeOK
<1>3. QED BY <1>1, <1>2, HoldsFinite, FS_AddElement

\* One read lock less of a thread is one element of Holds less.
LEMMA OneHoldLess ==
  ASSUME TypeOK, NEW t \in Threads, depth[t] > 0,
         depth' = [depth EXCEPT ![t] = @ - 1]
  PROVE Cardinality(Holds') = Cardinality(Holds) - 1
<1> DEFINE h == <<t, depth[t]>>
<1>1. Holds' = Holds \ {h}
  BY MaxDepthPos DEF Holds, TypeOK
<1>2. h \in Holds
  BY DEF Holds, TypeOK
<1>3. QED BY <1>1, <1>2, HoldsFinite, FS_RemoveElement

\* A read lock held is counted.
LEMMA HolderCounted ==
  ASSUME TypeOK, CountersExact, NEW t \in Threads, depth[t] > 0
  PROVE m_readers > 0
BY ReadersZero DEF TypeOK
-----------------------------------------------------------------------------
(* The invariant is inductive: one lemma per transition of the lock.        *)

\* The constructor establishes the invariant.
LEMMA InitIInv == Init => IInv
<1> SUFFICES ASSUME Init PROVE IInv
  OBVIOUS
<1>1. TypeOK
  <2>1. 0 \in 0..MaxDepth
    BY MaxDepthPos
  <2>2. m_currentWriter \in BOOLEAN
    BY DEF Init
  <2>3. pc \in [Threads -> Waiting \cup {"outside", "writing"}]
    BY DEF Init
  <2>4. QED BY <2>1, <2>2, <2>3 DEF Init, TypeOK
<1>2. Holds = {} /\ InLine = {}
  BY MaxDepthPos DEF Init, Holds, InLine, WaitsToWrite
<1>3. CountersExact
  BY <1>2, FS_EmptySet DEF Init, CountersExact, Writing
<1>4. QED
  BY <1>1, <1>3 DEF Init, IInv, Placement, OneWriter, WriterSeesNoReader,
     TurnIsDrained, NoLostWakeup, Writing, WaitsToWrite, WaitsToRead

\* A thread goes to sleep before the read gate.
LEMMA SleepAtReadGate ==
  ASSUME IInv, NEW t \in Threads, depth[t] < MaxDepth,
         pc[t] \in {"outside", "awaitRead"},
         m_pendingWriters # 0 \/ m_currentWriter,
         Sleep(t, "awaitRead"), UNCHANGED <<counters, depth>>
  PROVE IInv'
<1> USE DEF counters, Sleep
<1>1. TypeOK'
  BY DEF IInv, TypeOK, Waiting
<1>2. InLine' = InLine /\ Holds' = Holds /\ \A u \in Threads : Writing(u)' = Writing(u)
  BY DEF IInv, TypeOK, InLine, WaitsToWrite, Holds, Writing
<1>3. CountersExact'
  BY <1>2 DEF IInv, CountersExact
<1>4. Placement' /\ OneWriter' /\ WriterSeesNoReader' /\ TurnIsDrained'
  BY <1>2 DEF IInv, TypeOK, Placement, OneWriter, WriterSeesNoReader,
     TurnIsDrained, Writing, WaitsToWrite, WaitsToRead, Waiting
<1>5. NoLostWakeup'
  <2>1. m_currentWriter \/ InLine # {}
    BY PendingZero DEF IInv
  <2>2. QED BY <1>2, <2>1 DEF IInv, TypeOK, NoLostWakeup
<1>6. QED BY <1>1, <1>3, <1>4, <1>5 DEF IInv

\* A thread passes the read gate: nobody writes or waits to write.
LEMMA EnterAsReader ==
  ASSUME IInv, NEW t \in Threads, depth[t] < MaxDepth,
         pc[t] \in {"outside", "awaitRead"}, t \notin asleep,
         m_pendingWriters = 0, ~m_currentWriter,
         m_readers' = m_readers + 1,
         depth' = [depth EXCEPT ![t] = @ + 1],
         pc' = [pc EXCEPT ![t] = "outside"],
         UNCHANGED <<m_pendingWriters, m_currentWriter, asleep>>
  PROVE IInv'
<1>1. TypeOK'
  BY MaxDepthPos DEF IInv, TypeOK
<1>2. InLine = {} /\ InLine' = InLine
  BY PendingZero DEF IInv, TypeOK, InLine, WaitsToWrite
<1>3. \A u \in Threads : ~Writing(u) /\ ~Writing(u)' /\ ~WaitsToWrite(u)'
  BY <1>2 DEF IInv, TypeOK, CountersExact, Writing, InLine, WaitsToWrite
<1>4. Cardinality(Holds') = Cardinality(Holds) + 1
  BY OneMoreHold DEF IInv
<1>5. CountersExact'
  BY <1>2, <1>3, <1>4 DEF IInv, CountersExact
<1>6. Placement'
  BY <1>3 DEF IInv, TypeOK, Placement, WaitsToRead
<1>7. OneWriter' /\ WriterSeesNoReader' /\ TurnIsDrained'
  BY <1>3 DEF OneWriter, WriterSeesNoReader, TurnIsDrained, WaitsToWrite
<1>8. NoLostWakeup'
  BY <1>2 DEF IInv, TypeOK, NoLostWakeup
<1>9. QED BY <1>1, <1>5, <1>6, <1>7, <1>8 DEF IInv

\* releaseReadLock; the last reader wakes the writers that wait for it.
LEMMA ReleaseReadIInv ==
  ASSUME IInv, NEW t \in Threads, releaseReadLock(t)
  PROVE IInv'
<1> USE DEF releaseReadLock
<1>1. m_readers > 0
  BY HolderCounted DEF IInv
<1>2. TypeOK'
  BY <1>1, MaxDepthPos DEF IInv, TypeOK, NotifyAll
<1>3. InLine' = InLine /\ \A u \in Threads : Writing(u)' = Writing(u)
  BY DEF InLine, WaitsToWrite, Writing
<1>4. CountersExact'
  BY <1>3, OneHoldLess DEF IInv, CountersExact
<1>5. Placement'
  BY DEF IInv, TypeOK, Placement, NotifyAll, Writing, WaitsToWrite, WaitsToRead
<1>6. OneWriter' /\ WriterSeesNoReader' /\ TurnIsDrained'
  BY <1>1, <1>3 DEF IInv, TypeOK, OneWriter, WriterSeesNoReader, TurnIsDrained
<1>7. NoLostWakeup'
  <2>1. CASE m_readers' = 0
    BY <2>1, <1>3 DEF IInv, NoLostWakeup, NotifyAll, NoReaders
  <2>2. CASE m_readers' # 0
    BY <2>2, <1>2, <1>3 DEF IInv, TypeOK, NoLostWakeup
  <2>3. QED BY <2>1, <2>2
<1>8. QED BY <1>2, <1>4, <1>5, <1>6, <1>7 DEF IInv

\* What the two gates of acquireWriteLock need to know of the number of
\* writers in line, the caller included.
LEMMA LineWithMe ==
  ASSUME IInv, NEW t \in Threads
  PROVE /\ pc[t] = "outside" => Cardinality(InLine \cup {t}) = m_pendingWriters + 1
        /\ WaitsToWrite(t) => Cardinality(InLine \cup {t}) = m_pendingWriters
        /\ Cardinality(InLine \ {t}) = Cardinality(InLine \cup {t}) - 1
        /\ Cardinality(InLine \cup {t}) \in Nat
        /\ Cardinality(InLine \ {t}) \in Nat
<1>1. CASE t \in InLine
  <2>1. InLine \cup {t} = InLine
    BY <1>1
  <2>2. QED
    BY <1>1, <2>1, InLineFinite, FS_RemoveElement, FS_Subset, FS_CardinalityType
       DEF IInv, CountersExact, InLine, WaitsToWrite
<1>2. CASE t \notin InLine
  <2>1. InLine \ {t} = InLine
    BY <1>2
  <2>2. Cardinality(InLine) \in Nat
    BY InLineFinite, FS_CardinalityType
  <2>3. Cardinality(InLine \cup {t}) = Cardinality(InLine) + 1
    BY <1>2, InLineFinite, FS_AddElement
  <2>4. ~WaitsToWrite(t)
    BY <1>2 DEF InLine
  <2>5. QED BY <2>1, <2>2, <2>3, <2>4 DEF IInv, CountersExact
<1>3. QED BY <1>1, <1>2

\* A writer goes to sleep at one of its two gates.
LEMMA WriterSleeps ==
  ASSUME IInv, NEW t \in Threads, depth[t] = 0,
         pc[t] = "outside" \/ WaitsToWrite(t),
         NEW where \in {"awaitDrain", "awaitTurn"},
         where = "awaitDrain" => m_readers > 0,
         where = "awaitTurn" => m_readers = 0 /\ m_currentWriter,
         Sleep(t, where),
         m_pendingWriters' = Cardinality(InLine \cup {t}),
         UNCHANGED <<m_readers, m_currentWriter, depth>>
  PROVE IInv'
<1> USE DEF Sleep
<1>1. TypeOK'
  BY LineWithMe DEF IInv, TypeOK, Waiting
<1>2. InLine' = InLine \cup {t} /\ Holds' = Holds
  BY DEF IInv, TypeOK, InLine, WaitsToWrite, Holds
<1>3. \A u \in Threads : Writing(u)' = Writing(u)
  BY DEF IInv, TypeOK, Writing, WaitsToWrite
<1>4. CountersExact'
  BY <1>2, <1>3 DEF IInv, CountersExact
<1>5. Placement'
  BY <1>3 DEF IInv, TypeOK, Placement, WaitsToWrite, WaitsToRead, Waiting
<1>6. OneWriter' /\ WriterSeesNoReader' /\ TurnIsDrained'
  BY <1>3 DEF IInv, TypeOK, OneWriter, WriterSeesNoReader, TurnIsDrained
<1>7. NoLostWakeup'
  BY <1>2 DEF IInv, TypeOK, NoLostWakeup
<1>8. QED BY <1>1, <1>4, <1>5, <1>6, <1>7 DEF IInv

\* A writer gets in: nobody reads, nobody writes.
LEMMA EnterAsWriter ==
  ASSUME IInv, NEW t \in Threads, depth[t] = 0, t \notin asleep,
         m_readers = 0, ~m_currentWriter,
         m_pendingWriters' = Cardinality(InLine \ {t}),
         m_currentWriter' = TRUE,
         pc' = [pc EXCEPT ![t] = "writing"],
         UNCHANGED <<m_readers, depth, asleep>>
  PROVE IInv'
<1>1. TypeOK'
  BY LineWithMe DEF IInv, TypeOK
<1>2. InLine' = InLine \ {t} /\ Holds' = Holds
  BY DEF IInv, TypeOK, InLine, WaitsToWrite, Holds
<1>3. \A u \in Threads : Writing(u)' <=> u = t
  BY DEF IInv, TypeOK, CountersExact, Writing
<1>4. CountersExact'
  BY <1>2, <1>3 DEF IInv, CountersExact
<1>5. Placement'
  BY <1>3 DEF IInv, TypeOK, Placement, WaitsToWrite, WaitsToRead
<1>6. OneWriter' /\ WriterSeesNoReader' /\ TurnIsDrained'
  BY <1>3 DEF IInv, TypeOK, OneWriter, WriterSeesNoReader, TurnIsDrained
<1>7. NoLostWakeup'
  BY DEF IInv, TypeOK, NoLostWakeup
<1>8. QED BY <1>1, <1>4, <1>5, <1>6, <1>7 DEF IInv

\* releaseWriteLock, which wakes the readers and the writers in turn.
LEMMA ReleaseWriteIInv ==
  ASSUME IInv, NEW t \in Threads, releaseWriteLock(t)
  PROVE IInv'
<1> USE DEF releaseWriteLock
<1>1. TypeOK'
  BY DEF IInv, TypeOK, NotifyAll
<1>2. InLine' = InLine /\ Holds' = Holds
  BY DEF IInv, TypeOK, InLine, WaitsToWrite, Holds
<1>3. \A u \in Threads : ~Writing(u)'
  BY DEF IInv, TypeOK, OneWriter, Writing
<1>4. CountersExact'
  BY <1>2, <1>3 DEF IInv, CountersExact
<1>5. Placement'
  BY DEF IInv, TypeOK, Placement, Writing, WaitsToWrite, WaitsToRead,
     NotifyAll, Waiting
<1>6. OneWriter' /\ WriterSeesNoReader' /\ TurnIsDrained'
  BY <1>3 DEF IInv, TypeOK, OneWriter, WriterSeesNoReader, TurnIsDrained
<1>7. NoLostWakeup'
  BY DEF IInv, TypeOK, NoLostWakeup, NotifyAll, WriterFinished, Writing
<1>8. QED BY <1>1, <1>4, <1>5, <1>6, <1>7 DEF IInv

\* wakeInTurn and the second half of acquireWriteLock.
LEMMA TurnGateIInv ==
  ASSUME IInv, NEW t \in Threads, depth[t] = 0, t \notin asleep,
         pc[t] = "outside" \/ WaitsToWrite(t), m_readers = 0,
         NEW pending, pending = Cardinality(InLine \cup {t}),
         PassTurnGate(t, pending)
  PROVE IInv'
<1>1. CASE m_currentWriter
  BY <1>1, WriterSleeps DEF PassTurnGate
<1>2. CASE ~m_currentWriter
  BY <1>2, EnterAsWriter, LineWithMe DEF PassTurnGate
<1>3. QED BY <1>1, <1>2

\* The first half of acquireWriteLock, and wakeInDrain.
LEMMA DrainGateIInv ==
  ASSUME IInv, NEW t \in Threads, depth[t] = 0, t \notin asleep,
         pc[t] = "outside" \/ WaitsToWrite(t),
         NEW pending, pending = Cardinality(InLine \cup {t}),
         PassDrainGate(t, pending)
  PROVE IInv'
<1>1. CASE m_readers > 0
  BY <1>1, WriterSleeps DEF PassDrainGate
<1>2. CASE m_readers = 0
  BY <1>2, TurnGateIInv DEF PassDrainGate
<1>3. QED BY <1>1, <1>2 DEF PassDrainGate

\* Every transition, a spurious wake-up included, preserves the invariant.
LEMMA NextIInv == IInv /\ [Next]_vars => IInv'
<1> SUFFICES ASSUME IInv, [Next]_vars PROVE IInv'
  OBVIOUS
<1>0. \A t \in Threads : pc[t] \in {"outside", "writing"} => t \notin asleep
  BY DEF IInv, Placement, Waiting
<1>1. ASSUME NEW t \in Threads, acquireReadLock(t) PROVE IInv'
  BY <1>0, <1>1, SleepAtReadGate, EnterAsReader
     DEF acquireReadLock, PassReadGate
<1>2. ASSUME NEW t \in Threads, wakeInReadLock(t) PROVE IInv'
  <2>1. Awake(t, "awaitRead") /\ PassReadGate(t)
    BY <1>2 DEF wakeInReadLock
  <2>2. depth[t] < MaxDepth
    BY <2>1 DEF Awake, IInv, Placement, WaitsToRead
  <2>3. QED
    BY <2>1, <2>2, SleepAtReadGate, EnterAsReader DEF Awake, PassReadGate
<1>3. ASSUME NEW t \in Threads, releaseReadLock(t) PROVE IInv'
  BY <1>3, ReleaseReadIInv
<1>4. ASSUME NEW t \in Threads, acquireWriteLock(t) PROVE IInv'
  BY <1>0, <1>4, DrainGateIInv, LineWithMe DEF acquireWriteLock
<1>5. ASSUME NEW t \in Threads, wakeInDrain(t) PROVE IInv'
  <2>1. WaitsToWrite(t) /\ depth[t] = 0
    BY <1>5 DEF wakeInDrain, Awake, WaitsToWrite, IInv, Placement
  <2>2. QED BY <1>5, <2>1, DrainGateIInv, LineWithMe DEF wakeInDrain, Awake
<1>6. ASSUME NEW t \in Threads, wakeInTurn(t) PROVE IInv'
  <2>1. WaitsToWrite(t) /\ depth[t] = 0 /\ m_readers = 0
    BY <1>6 DEF wakeInTurn, Awake, WaitsToWrite, IInv, Placement, TurnIsDrained
  <2>2. QED BY <1>6, <2>1, TurnGateIInv, LineWithMe DEF wakeInTurn, Awake
<1>7. ASSUME NEW t \in Threads, releaseWriteLock(t) PROVE IInv'
  BY <1>7, ReleaseWriteIInv
<1>8. CASE UNCHANGED <<counters, pc, depth>> /\ asleep' \subseteq asleep
  <2>1. InLine' = InLine /\ Holds' = Holds
    BY <1>8 DEF InLine, WaitsToWrite, Holds
  <2>2. \A u \in Threads : Writing(u)' = Writing(u)
    BY <1>8 DEF Writing
  <2>3. TypeOK' /\ CountersExact'
    BY <1>8, <2>1, <2>2 DEF IInv, TypeOK, CountersExact, counters
  <2>4. Placement' /\ OneWriter' /\ WriterSeesNoReader' /\ TurnIsDrained'
    BY <1>8, <2>2 DEF IInv, Placement, OneWriter, WriterSeesNoReader,
       TurnIsDrained, counters, WaitsToWrite, WaitsToRead
  <2>5. NoLostWakeup'
    BY <1>8, <2>1 DEF IInv, NoLostWakeup, counters
  <2>6. QED BY <2>3, <2>4, <2>5 DEF IInv
<1>9. QED
  BY <1>1, <1>2, <1>3, <1>4, <1>5, <1>6, <1>7, <1>8
     DEF Next, Step, SpuriousWake, vars, counters
-----------------------------------------------------------------------------

\* The inductive invariant holds always: in particular, past the first wait of
\* acquireWriteLock no reader is inside, though m_readers is not looked at again.
THEOREM Invariance == Spec => []IInv
BY InitIInv, NextIInv, PTL DEF Spec

\* Exact counters and a drained lock at the second wait give exclusion.
LEMMA IInvGivesExclusion == IInv => MutualExclusion
<1> SUFFICES ASSUME IInv, NEW t \in Threads, Writing(t)
             PROVE /\ \A u \in Threads \ {t} : ~Writing(u)
                   /\ \A u \in Threads : depth[u] = 0
  BY DEF MutualExclusion
<1>1. m_readers = 0
  BY DEF IInv, CountersExact, WriterSeesNoReader
<1>2. QED BY <1>1, ReadersZero DEF IInv, OneWriter

\* Every variable keeps its type, for every number of threads and every depth:
\* the counters are naturals, so no release ever makes the dword m_readers wrap.
THEOREM TypeCorrect == Spec => []TypeOK
<1>1. IInv => TypeOK BY DEF IInv
<1>2. QED BY <1>1, Invariance, PTL

\* releaseReadLock and releaseWriteLock let nobody in beside a writer: it is
\* alone, for every number of threads and every depth of nested read locks.
THEOREM Exclusion == Spec => []MutualExclusion
BY Invariance, IInvGivesExclusion, PTL

\* The three fields of the class count what they are named for, always.
THEOREM ExactCounters == Spec => []CountersExact
<1>1. IInv => CountersExact BY DEF IInv
<1>2. QED BY <1>1, Invariance, PTL

\* Both notify_all calls come where they are needed: no thread sleeps on a
\* condition that holds already.
THEOREM WakeupsKept == Spec => []NoLostWakeup
<1>1. IInv => NoLostWakeup BY DEF IInv
<1>2. QED BY <1>1, Invariance, PTL
-----------------------------------------------------------------------------
(* The lock implements ReadersWriters: the safety half of the refinement.   *)
(* (Its fairness is left to the model checker.)                             *)

\* acquireReadLock and its wake-up take a read lock or none.
LEMMA ReadGateStep ==
  ASSUME IInv, NEW t \in Threads, pc[t] \in {"outside", "awaitRead"},
         PassReadGate(t)
  PROVE Abstract!StartRead(t) \/ UNCHANGED Abstract!absVars
<1>1. CASE m_pendingWriters # 0 \/ m_currentWriter
  <2>1. UNCHANGED depth /\ pc' = [pc EXCEPT ![t] = "awaitRead"]
    BY <1>1 DEF PassReadGate, Sleep
  <2>2. QED
    BY <2>1 DEF IInv, TypeOK, Abstract!absVars, InLine, Writing, WaitsToWrite
<1>2. CASE m_pendingWriters = 0 /\ ~m_currentWriter
  <2>1. InLine = {} /\ \A u \in Threads : ~Writing(u)
    BY <1>2, PendingZero DEF IInv, CountersExact
  <2>2. /\ depth' = [depth EXCEPT ![t] = @ + 1]
        /\ pc' = [pc EXCEPT ![t] = "outside"]
    BY <1>2 DEF PassReadGate
  <2>3. QED
    BY <2>1, <2>2 DEF IInv, TypeOK, Abstract!StartRead, InLine, Writing,
       WaitsToWrite
<1>3. QED BY <1>1, <1>2

\* A writer's call either queues it, lets it in, or changes nothing visible.
LEMMA DrainGateStep ==
  ASSUME IInv, NEW t \in Threads, pc[t] = "outside" \/ WaitsToWrite(t),
         NEW pending, PassDrainGate(t, pending)
  PROVE \/ Abstract!QueueWriter(t) \/ Abstract!StartWrite(t)
        \/ UNCHANGED Abstract!absVars
<1> DEFINE Queued == /\ pc' = [pc EXCEPT ![t] = "awaitDrain"]
                        \/ pc' = [pc EXCEPT ![t] = "awaitTurn"]
                     /\ UNCHANGED depth
<1>1. CASE Queued
  <2>1. InLine' = InLine \cup {t} /\ \A u \in Threads : Writing(u)' = Writing(u)
    BY <1>1 DEF IInv, TypeOK, InLine, Writing, WaitsToWrite
  <2>2. ~Writing(t)
    BY DEF Writing, WaitsToWrite
  <2>3. CASE t \in InLine
    BY <1>1, <2>1, <2>3 DEF Abstract!absVars
  <2>4. CASE t \notin InLine
    BY <1>1, <2>1, <2>2, <2>4 DEF Abstract!QueueWriter
  <2>5. QED BY <2>3, <2>4
<1>2. CASE ~Queued
  <2>1. /\ m_readers = 0 /\ ~m_currentWriter
        /\ pc' = [pc EXCEPT ![t] = "writing"]
        /\ UNCHANGED depth
    BY <1>2 DEF PassDrainGate, PassTurnGate, Sleep
  <2>2. /\ \A u \in Threads : depth[u] = 0
        /\ \A u \in Threads : ~Writing(u)
    BY <2>1, ReadersZero DEF IInv, CountersExact
  <2>3. /\ InLine' = InLine \ {t}
        /\ \A u \in Threads : Writing(u)' <=> u = t
    BY <2>1, <2>2 DEF IInv, TypeOK, InLine, Writing, WaitsToWrite
  <2>4. QED
    BY <2>1, <2>2, <2>3 DEF Abstract!StartWrite, Abstract!NoReader
<1>3. QED BY <1>1, <1>2

\* Every step of the lock is a step of ReadersWriters or changes nothing there.
LEMMA StepRefines == IInv /\ [Next]_vars => [Abstract!Next]_(Abstract!absVars)
<1> SUFFICES ASSUME IInv, [Next]_vars
             PROVE Abstract!Next \/ UNCHANGED Abstract!absVars
  OBVIOUS
<1> USE DEF Abstract!Next
<1>1. ASSUME NEW t \in Threads, acquireReadLock(t) \/ wakeInReadLock(t)
      PROVE Abstract!Next \/ UNCHANGED Abstract!absVars
  BY <1>1, ReadGateStep DEF acquireReadLock, wakeInReadLock, Awake
<1>2. ASSUME NEW t \in Threads, releaseReadLock(t)
      PROVE Abstract!Next \/ UNCHANGED Abstract!absVars
  <2>1. Abstract!EndRead(t)
    BY <1>2 DEF releaseReadLock, Abstract!EndRead, InLine, Writing, WaitsToWrite
  <2>2. QED BY <2>1
<1>3. ASSUME NEW t \in Threads, acquireWriteLock(t) \/ wakeInDrain(t)
      PROVE Abstract!Next \/ UNCHANGED Abstract!absVars
  BY <1>3, DrainGateStep DEF acquireWriteLock, wakeInDrain, Awake, WaitsToWrite
<1>4. ASSUME NEW t \in Threads, wakeInTurn(t)
      PROVE Abstract!Next \/ UNCHANGED Abstract!absVars
  <2>1. WaitsToWrite(t) /\ m_readers = 0
    BY <1>4 DEF wakeInTurn, Awake, WaitsToWrite, IInv, TurnIsDrained
  <2>2. PassDrainGate(t, m_pendingWriters)
    BY <1>4, <2>1 DEF wakeInTurn, PassDrainGate
  <2>3. QED BY <2>1, <2>2, DrainGateStep
<1>5. ASSUME NEW t \in Threads, releaseWriteLock(t)
      PROVE Abstract!Next \/ UNCHANGED Abstract!absVars
  <2>1. InLine' = InLine
    BY <1>5 DEF releaseWriteLock, IInv, TypeOK, InLine, WaitsToWrite
  <2>2. \A u \in Threads : Writing(u)' <=> Writing(u) /\ u # t
    BY <1>5 DEF releaseWriteLock, IInv, TypeOK, Writing
  <2>3. Abstract!EndWrite(t)
    BY <1>5, <2>1, <2>2 DEF releaseWriteLock, Abstract!EndWrite, Writing
  <2>4. QED BY <2>3
<1>6. CASE UNCHANGED <<pc, depth>>
  BY <1>6 DEF Abstract!absVars, InLine, Writing, WaitsToWrite
<1>7. QED
  BY <1>1, <1>2, <1>3, <1>4, <1>5, <1>6 DEF Next, Step, SpuriousWake, vars

\* The lock is a writer-preferring readers-writer lock: each of its behaviours
\* is one of ReadersWriters, for every number of threads and every depth.
THEOREM Refinement == Spec => Abstract!SafeSpec
<1>1. Init => Abstract!Init
  BY DEF Init, Abstract!Init, InLine, Writing, WaitsToWrite
<1>2. QED BY <1>1, StepRefines, Invariance, PTL DEF Spec, Abstract!SafeSpec

\* A step that admits a reader finds no writer in line.
LEMMA NoOvertaking ==
  IInv /\ [Next]_vars => [InLine # {} => \A t \in Threads : depth'[t] <= depth[t]]_vars
<1> SUFFICES ASSUME IInv, Next, InLine # {}, NEW u \in Threads
             PROVE depth'[u] <= depth[u]
  BY DEF Next
<1>1. m_pendingWriters # 0
  BY PendingZero DEF IInv
<1>2. depth[u] \in 0..MaxDepth
  BY DEF IInv, TypeOK
<1>3. ASSUME NEW t \in Threads, PassReadGate(t) PROVE UNCHANGED depth
  BY <1>1, <1>3 DEF PassReadGate
<1>4. ASSUME NEW t \in Threads, releaseReadLock(t) PROVE depth'[u] <= depth[u]
  BY <1>2, <1>4, MaxDepthPos DEF releaseReadLock, IInv, TypeOK
<1>5. ASSUME NEW t \in Threads, NEW p, PassDrainGate(t, p) \/ PassTurnGate(t, p)
      PROVE UNCHANGED depth
  BY <1>5 DEF PassDrainGate, PassTurnGate
<1>6. QED
  BY <1>2, <1>3, <1>4, <1>5 DEF Next, Step, SpuriousWake, acquireReadLock,
     wakeInReadLock, acquireWriteLock, wakeInDrain, wakeInTurn, releaseWriteLock

\* Readers never overtake a writer in line, nested read locks included.
THEOREM WritersPreferred == Spec => WriterPreference
BY NoOvertaking, Invariance, PTL DEF Spec, WriterPreference
=============================================================================
