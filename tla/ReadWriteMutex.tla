--------------------------- MODULE ReadWriteMutex ---------------------------
(***************************************************************************)
(* TitanBase/TitanBase/CReadWriteMutex.hpp: the writer-preferring lock that *)
(* guards every shared list of the servers.                                 *)
(*                                                                         *)
(* m_mutex makes the code between two waits atomic, so every action is the  *)
(* stretch of one call from an acquisition of m_mutex to the next wait or   *)
(* to the return.  A thread that waits on a condition variable is in        *)
(* `asleep' until it is notified (or wakes spuriously, which boost allows); *)
(* its `pc' says which `while' it is in, hence which variable it waits on:  *)
(*    awaitRead, awaitTurn   on m_writerFinished                            *)
(*    awaitDrain             on m_noReaders                                 *)
(***************************************************************************)
EXTENDS Naturals, FiniteSets

CONSTANTS Threads,   \* the threads that share the lock
          MaxDepth   \* how deep a thread nests read locks: 1 in the plain
                     \* servers, 2 where a packet handler that runs under the
                     \* lock takes it again (CTitanISC.cpp:90)

ASSUME ThreadsFinite == IsFiniteSet(Threads)
ASSUME MaxDepthPos == MaxDepth \in Nat \ {0}

VARIABLES m_readers, m_pendingWriters, m_currentWriter,
          pc, asleep, depth

counters == <<m_readers, m_pendingWriters, m_currentWriter>>
vars == <<m_readers, m_pendingWriters, m_currentWriter, pc, asleep, depth>>

Waiting == {"awaitRead", "awaitDrain", "awaitTurn"}

TypeOK == /\ m_readers \in Nat
          /\ m_pendingWriters \in Nat
          /\ m_currentWriter \in BOOLEAN
          /\ pc \in [Threads -> Waiting \cup {"outside", "writing"}]
          /\ asleep \in SUBSET Threads
          /\ depth \in [Threads -> 0..MaxDepth]

Init == /\ m_readers = 0
        /\ m_pendingWriters = 0
        /\ m_currentWriter = FALSE
        /\ pc = [t \in Threads |-> "outside"]
        /\ asleep = {}
        /\ depth = [t \in Threads |-> 0]
-----------------------------------------------------------------------------
(* Condition variables                                                      *)

Sleep(t, where) == /\ pc' = [pc EXCEPT ![t] = where]
                   /\ asleep' = asleep \cup {t}

\* notify_all: the sleepers whose `while' is one of those that wait on it.
NotifyAll(places) == asleep' = {t \in asleep : pc[t] \notin places}

WriterFinished == {"awaitRead", "awaitTurn"}
NoReaders == {"awaitDrain"}

\* A notified (or spuriously woken) thread has m_mutex again.
Awake(t, where) == pc[t] = where /\ t \notin asleep

SpuriousWake(t) == /\ t \in asleep
                   /\ asleep' = asleep \ {t}
                   /\ UNCHANGED <<counters, pc, depth>>
-----------------------------------------------------------------------------
(* Readers                                                                  *)

\* Mutants of the next definition: m_pendingWriters is not looked at; the
\* reader is not counted.
PassReadGate_IgnoresPending(t) ==
  \/ /\ m_currentWriter
     /\ Sleep(t, "awaitRead")
     /\ UNCHANGED <<counters, depth>>
  \/ /\ ~m_currentWriter
     /\ m_readers' = m_readers + 1
     /\ depth' = [depth EXCEPT ![t] = @ + 1]
     /\ pc' = [pc EXCEPT ![t] = "outside"]
     /\ UNCHANGED <<m_pendingWriters, m_currentWriter, asleep>>
PassReadGate_NotCounted(t) ==
  \/ /\ m_pendingWriters # 0 \/ m_currentWriter
     /\ Sleep(t, "awaitRead")
     /\ UNCHANGED <<counters, depth>>
  \/ /\ m_pendingWriters = 0 /\ ~m_currentWriter
     /\ depth' = [depth EXCEPT ![t] = @ + 1]
     /\ pc' = [pc EXCEPT ![t] = "outside"]
     /\ UNCHANGED <<counters, asleep>>

PassReadGate(t) ==
  \/ /\ m_pendingWriters # 0 \/ m_currentWriter
     /\ Sleep(t, "awaitRead")
     /\ UNCHANGED <<counters, depth>>
  \/ /\ m_pendingWriters = 0 /\ ~m_currentWriter
     /\ m_readers' = m_readers + 1
     /\ depth' = [depth EXCEPT ![t] = @ + 1]
     /\ pc' = [pc EXCEPT ![t] = "outside"]
     /\ UNCHANGED <<m_pendingWriters, m_currentWriter, asleep>>

acquireReadLock(t) == /\ pc[t] = "outside" /\ depth[t] < MaxDepth
                      /\ PassReadGate(t)

wakeInReadLock(t) == Awake(t, "awaitRead") /\ PassReadGate(t)

\* Mutant: m_readers is tested before it is decremented.
releaseReadLock_TestsFirst(t) ==
  /\ pc[t] = "outside" /\ depth[t] > 0
  /\ m_readers' = m_readers - 1
  /\ depth' = [depth EXCEPT ![t] = @ - 1]
  /\ \/ m_readers = 0 /\ NotifyAll(NoReaders)
     \/ m_readers # 0 /\ UNCHANGED asleep
  /\ UNCHANGED <<m_pendingWriters, m_currentWriter, pc>>

releaseReadLock(t) ==
  /\ pc[t] = "outside" /\ depth[t] > 0
  /\ m_readers' = m_readers - 1
  /\ depth' = [depth EXCEPT ![t] = @ - 1]
  /\ \/ m_readers' = 0 /\ NotifyAll(NoReaders)
     \/ m_readers' # 0 /\ UNCHANGED asleep
  /\ UNCHANGED <<m_pendingWriters, m_currentWriter, pc>>
-----------------------------------------------------------------------------
(* Writers.  `pending' is m_pendingWriters as the call has left it so far.  *)

\* Mutant: the writer that gets in stays pending.
PassTurnGate_StaysPending(t, pending) ==
  /\ \/ /\ m_currentWriter
        /\ Sleep(t, "awaitTurn")
        /\ UNCHANGED m_currentWriter
     \/ /\ ~m_currentWriter
        /\ m_currentWriter' = TRUE
        /\ pc' = [pc EXCEPT ![t] = "writing"]
        /\ UNCHANGED asleep
  /\ m_pendingWriters' = pending
  /\ UNCHANGED <<m_readers, depth>>

PassTurnGate(t, pending) ==
  /\ \/ /\ m_currentWriter
        /\ Sleep(t, "awaitTurn")
        /\ m_pendingWriters' = pending
        /\ UNCHANGED m_currentWriter
     \/ /\ ~m_currentWriter
        /\ m_pendingWriters' = pending - 1
        /\ m_currentWriter' = TRUE
        /\ pc' = [pc EXCEPT ![t] = "writing"]
        /\ UNCHANGED asleep
  /\ UNCHANGED <<m_readers, depth>>

PassDrainGate(t, pending) ==
  \/ /\ m_readers > 0
     /\ Sleep(t, "awaitDrain")
     /\ m_pendingWriters' = pending
     /\ UNCHANGED <<m_readers, m_currentWriter, depth>>
  \/ /\ m_readers = 0
     /\ PassTurnGate(t, pending)

\* No caller asks to write while it holds the lock for reading: the worker
\* loop drops its read lock first (CTitanClientThread.cpp:53-55).
acquireWriteLock(t) == /\ pc[t] = "outside" /\ depth[t] = 0
                       /\ PassDrainGate(t, m_pendingWriters + 1)

\* Mutant: an `if' in place of the `while' around the first wait.
wakeInDrain_NoRecheck(t) == /\ Awake(t, "awaitDrain")
                            /\ PassTurnGate(t, m_pendingWriters)

wakeInDrain(t) == /\ Awake(t, "awaitDrain")
                  /\ PassDrainGate(t, m_pendingWriters)

wakeInTurn(t) == /\ Awake(t, "awaitTurn")
                 /\ PassTurnGate(t, m_pendingWriters)

\* Mutant: only the writers in line are woken.
releaseWriteLock_WakesWriters(t) == /\ pc[t] = "writing"
                                    /\ m_currentWriter' = FALSE
                                    /\ NotifyAll({"awaitTurn"})
                                    /\ pc' = [pc EXCEPT ![t] = "outside"]
                                    /\ UNCHANGED <<m_readers, m_pendingWriters, depth>>

releaseWriteLock(t) == /\ pc[t] = "writing"
                       /\ m_currentWriter' = FALSE
                       /\ NotifyAll(WriterFinished)
                       /\ pc' = [pc EXCEPT ![t] = "outside"]
                       /\ UNCHANGED <<m_readers, m_pendingWriters, depth>>
-----------------------------------------------------------------------------
Step(t) == \/ acquireReadLock(t) \/ wakeInReadLock(t) \/ releaseReadLock(t)
           \/ acquireWriteLock(t) \/ wakeInDrain(t) \/ wakeInTurn(t)
           \/ releaseWriteLock(t)

Next == \E t \in Threads : Step(t) \/ SpuriousWake(t)

Spec == Init /\ [][Next]_vars

(* A woken thread gets m_mutex in the end, and every critical section of    *)
(* the callers ends.  Nobody is obliged to ask for the lock, and nothing is *)
(* assumed of spurious wake-ups.                                            *)
Fairness == \A t \in Threads :
              /\ WF_vars(wakeInReadLock(t)) /\ WF_vars(wakeInDrain(t))
              /\ WF_vars(wakeInTurn(t))
              /\ WF_vars(releaseReadLock(t)) /\ WF_vars(releaseWriteLock(t))

FairSpec == Spec /\ Fairness
-----------------------------------------------------------------------------
(* Properties                                                               *)

Writing(t) == pc[t] = "writing"
WaitsToWrite(t) == pc[t] \in {"awaitDrain", "awaitTurn"}
WaitsToRead(t) == pc[t] = "awaitRead"

\* The read locks held: the i-th nested one of thread t is <<t, i>>.
Holds == {h \in Threads \X (1..MaxDepth) : h[2] <= depth[h[1]]}
InLine == {t \in Threads : WaitsToWrite(t)}

(* A writer is alone: no second writer, and no reader beside it, although a *)
(* writer that waited its turn never looks at m_readers again.              *)
MutualExclusion ==
  \A t \in Threads : Writing(t) => /\ \A u \in Threads \ {t} : ~Writing(u)
                                   /\ \A u \in Threads : depth[u] = 0

(* The three fields say exactly who holds the lock and who waits for it:    *)
(* a counter left high would lock everybody out for ever, one left low      *)
(* would let a writer in beside a reader.                                   *)
CountersExact ==
  /\ m_readers = Cardinality(Holds)
  /\ m_pendingWriters = Cardinality(InLine)
  /\ m_currentWriter = (\E t \in Threads : Writing(t))

(* No wake-up is lost: whoever sleeps still has a reason to, so that a      *)
(* notification that it will receive is yet to come.                        *)
NoLostWakeup ==
  \A t \in asleep :
    /\ pc[t] = "awaitDrain" => m_readers > 0
    /\ pc[t] = "awaitTurn" => m_currentWriter
    /\ pc[t] = "awaitRead" => m_currentWriter \/ InLine # {}

(* While a writer is in line no thread gets to read, however often the      *)
(* readers that are already inside come and go.                             *)
WriterPreference ==
  [][InLine # {} => \A t \in Threads : depth'[t] <= depth[t]]_vars

(* The lock is the abstract one: condition variables, wake-ups and counters *)
(* only decide when its transitions happen.                                 *)
Abstract == INSTANCE ReadersWriters
              WITH writers <- {t \in Threads : Writing(t)}, inLine <- InLine
ImplementsReadersWriters == Abstract!Spec

(* Writers as a group never starve: when one waits, one gets in.            *)
SomeWriterGetsIn == InLine # {} ~> \E t \in Threads : Writing(t)

(* A reader may be overtaken by writers for ever, and only by writers: if   *)
(* they stop coming, every waiting reader gets the lock.                    *)
ReadersGetInOnceWritersStop ==
  <>[](InLine = {} /\ \A t \in Threads : ~Writing(t))
     => \A t \in Threads : WaitsToRead(t) ~> depth[t] > 0

(* Every call of acquireReadLock made by a thread that already holds the    *)
(* lock returns: what TitanISC needs to forward a packet to its peers.      *)
NestedReadReturns ==
  \A t \in Threads :
    WaitsToRead(t) /\ depth[t] > 0 ~> pc[t] = "outside"
=============================================================================
