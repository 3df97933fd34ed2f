----------------------------- MODULE EntityIds -----------------------------
(***************************************************************************)
(* The entity ids of a map (CMap::GetNewEID and FreeEID, Game Server/       *)
(* CMap.cpp): a counter that goes up to MAX_EID, and a stack of the ids     *)
(* that have been given back.                                               *)
(***************************************************************************)
EXTENDS Integers, Sequences

CONSTANTS
  Entities,  \* what may be on a map
  FirstEID,  \* 100
  MAX_EID    \* 0xffff: what is returned when all are allocated

ASSUME EidRange == FirstEID \in Nat /\ MAX_EID \in Nat /\ FirstEID <= MAX_EID

VARIABLES
  NextEID,     \* the lowest id that was never given out
  EIDRecycle,  \* ids that were given back, the top of the stack last
  eid          \* the id of each entity, NoEID for one that has none

eidVars == <<NextEID, EIDRecycle, eid>>

NoEID == -1
EIDs == FirstEID..(MAX_EID - 1)

EidInit == /\ NextEID = FirstEID
           /\ EIDRecycle = <<>>
           /\ eid = [e \in Entities |-> NoEID]
-----------------------------------------------------------------------------
\* Mutant: the id stays on the stack.
PopEID_NotPopped(e) ==
  /\ eid[e] = NoEID /\ EIDRecycle # <<>>
  /\ eid' = [eid EXCEPT ![e] = EIDRecycle[Len(EIDRecycle)]]
  /\ UNCHANGED <<NextEID, EIDRecycle>>

\* GetNewEID, an id having been given back.
PopEID(e) ==
  /\ eid[e] = NoEID /\ EIDRecycle # <<>>
  /\ eid' = [eid EXCEPT ![e] = EIDRecycle[Len(EIDRecycle)]]
  /\ EIDRecycle' = SubSeq(EIDRecycle, 1, Len(EIDRecycle) - 1)
  /\ UNCHANGED NextEID

\* GetNewEID, the stack being empty.
GetNextEID(e) ==
  /\ eid[e] = NoEID /\ EIDRecycle = <<>> /\ NextEID # MAX_EID
  /\ eid' = [eid EXCEPT ![e] = NextEID]
  /\ NextEID' = NextEID + 1
  /\ UNCHANGED EIDRecycle

\* Mutant: an entity that goes does not give its id back.
FreeEID_Forgotten(e) ==
  /\ eid[e] # NoEID
  /\ eid' = [eid EXCEPT ![e] = NoEID]
  /\ UNCHANGED <<NextEID, EIDRecycle>>

\* "this function should be called when an entity is deleted" (CMap.h:52).
FreeEID(e) ==
  /\ eid[e] # NoEID
  /\ EIDRecycle' = Append(EIDRecycle, eid[e])
  /\ eid' = [eid EXCEPT ![e] = NoEID]
  /\ UNCHANGED NextEID

\* MAX_EID is returned, and no entity made.
AllAllocated == EIDRecycle = <<>> /\ NextEID = MAX_EID

EidNext == \E e \in Entities : PopEID(e) \/ GetNextEID(e) \/ FreeEID(e)

EidSpec == EidInit /\ [][EidNext]_eidVars
-----------------------------------------------------------------------------
EidTypeOK ==
  /\ NextEID \in FirstEID..MAX_EID
  /\ EIDRecycle \in Seq(FirstEID..(NextEID - 1))
  /\ eid \in [Entities -> (FirstEID..(NextEID - 1)) \cup {NoEID}]

\* No two entities have the same id, however many came and went before
\* (CMap.cpp:171).
EidsUnique == \A d, e \in Entities : eid[d] = eid[e] => d = e \/ eid[d] = NoEID

\* An id on the stack is nobody's, and is there once.
RecycleUnused ==
  /\ \A i \in 1..Len(EIDRecycle), e \in Entities : eid[e] # EIDRecycle[i]
  /\ \A i, j \in 1..Len(EIDRecycle) : EIDRecycle[i] = EIDRecycle[j] => i = j

\* "returns unused entity id or MAX_EID if all are allocated" (CMap.h:51): no id
\* is lost, so that none is refused while there is one.
RefusedOnlyIfAllAllocated ==
  AllAllocated => \A id \in EIDs : \E e \in Entities : eid[e] = id

\* Why: what was given out is somebody's or on the stack.
NothingLost ==
  \A id \in FirstEID..(NextEID - 1) :
    \/ \E e \in Entities : eid[e] = id
    \/ \E i \in 1..Len(EIDRecycle) : EIDRecycle[i] = id

EidInv == EidTypeOK /\ EidsUnique /\ RecycleUnused /\ NothingLost
=============================================================================
