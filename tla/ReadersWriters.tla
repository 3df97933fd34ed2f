--------------------------- MODULE ReadersWriters ---------------------------
(***************************************************************************)
(* What the server framework relies on when it takes a ReadWriteMutex: the  *)
(* threads that hold it for reading, the one that holds it for writing, and *)
(* the writers in line.  No counter, no condition variable: those belong to *)
(* the implementation, ReadWriteMutex.                                      *)
(***************************************************************************)
EXTENDS Naturals

CONSTANT Threads

VARIABLES depth,     \* how many times each thread holds the lock for reading
          writers,   \* the threads that hold it for writing
          inLine     \* the threads that asked to write and do not hold it yet

absVars == <<depth, writers, inLine>>

NoReader == \A t \in Threads : depth[t] = 0

Init == /\ depth = [t \in Threads |-> 0]
        /\ writers = {}
        /\ inLine = {}

\* A reader gets in only when no writer holds the lock or waits for it.
StartRead(t) == /\ writers = {} /\ inLine = {}
                /\ depth' = [depth EXCEPT ![t] = @ + 1]
                /\ UNCHANGED <<writers, inLine>>

EndRead(t) == /\ depth[t] > 0
              /\ depth' = [depth EXCEPT ![t] = @ - 1]
              /\ UNCHANGED <<writers, inLine>>

QueueWriter(t) == /\ t \notin writers /\ t \notin inLine
                  /\ inLine' = inLine \cup {t}
                  /\ UNCHANGED <<depth, writers>>

\* A writer gets in only when nobody is inside; it need not have waited.
StartWrite(t) == /\ writers = {} /\ NoReader
                 /\ writers' = {t}
                 /\ inLine' = inLine \ {t}
                 /\ UNCHANGED depth

EndWrite(t) == /\ t \in writers
               /\ writers' = writers \ {t}
               /\ UNCHANGED <<depth, inLine>>

Next == \E t \in Threads : \/ StartRead(t) \/ EndRead(t)
                           \/ QueueWriter(t) \/ StartWrite(t) \/ EndWrite(t)

\* A free lock with writers in line is taken by one of them.
Fairness == WF_absVars(\E t \in inLine : StartWrite(t))

SafeSpec == Init /\ [][Next]_absVars
Spec == SafeSpec /\ Fairness
=============================================================================
