--------------------------- MODULE MCAgent_proofs ---------------------------
(***************************************************************************)
(* Proofs about the machines of MCAgent.                                   *)
(*                                                                         *)
(* The heavy-I/O lane, for every set of keys, jobs and priorities and      *)
(* every bound on the entries: the inductive invariant LaneInv, the safety *)
(* properties the runs check on a small instance, and the refinement of    *)
(* JobLane.                                                                *)
(*                                                                         *)
(* The processes of a bounded call, which has no parameters: the inductive *)
(* invariant OwnedInv, for any order of the caller and its processes and   *)
(* any system call that fails.                                             *)
(*                                                                         *)
(* The dashboard, for every set of selections, charts, history pages and   *)
(* overlapping refreshes: the inductive invariant DashboardInv and what is *)
(* shown to the user.                                                      *)
(*                                                                         *)
(* The recovery of history, for every finite set of tasks and every bound  *)
(* on what Codex does: the inductive invariant RecoveryInv, over image and *)
(* speed slices, captures, changes of the files and crashes.               *)
(*                                                                         *)
(* The reuse of earlier work, for every set of moments, percentages and    *)
(* requests and every length of the journal: the inductive invariant       *)
(* ReuseInv, over collectors of two versions, repairs of the tracking,     *)
(* overlapping requests and restarts.                                      *)
(***************************************************************************)
EXTENDS MCAgent, FiniteSetTheorems, WellFoundedInduction, TLAPS

-----------------------------------------------------------------------------
(* The heavy-I/O lane.                                                     *)


(* The idle lane of __init__ satisfies the invariant.                      *)
LEMMA LaneInvInit == Init => LaneInv
<1> SUFFICES ASSUME Init PROVE LaneInv
  OBVIOUS
<1>1. TypeOK
  BY DEF Init, TypeOK, FutureStates, WorkerStates
<1>2. EntriesNameTheirJob /\ SequencesDistinct /\ CurrentEntryWaits
  BY DEF Init, EntriesNameTheirJob, SequencesDistinct, CurrentEntryWaits
<1>3. PendingIsCurrent /\ WorkerHolds /\ StopIsLast
  BY DEF Init, PendingIsCurrent, WorkerHolds, StopIsLast
<1>4. RegistryNamesLiveJob /\ WorkerSurvives
  BY DEF Init, RegistryNamesLiveJob, WorkerSurvives, Live
<1> QED
  BY <1>1, <1>2, <1>3, <1>4 DEF LaneInv

(* Every step of a client or of the worker preserves it.                   *)
LEMMA LaneInvStep == LaneInv /\ [Next]_vars => LaneInv'
<1> SUFFICES ASSUME TypeOK, EntriesNameTheirJob, SequencesDistinct,
                    CurrentEntryWaits, PendingIsCurrent, WorkerHolds,
                    StopIsLast, RegistryNamesLiveJob, WorkerSurvives,
                    [Next]_vars
             PROVE  LaneInv'
  BY DEF LaneInv
<1>1. ASSUME NEW k \in Keys, NEW p \in Priorities, NEW j \in Jobs, Submit(k, p, j)
      PROVE  LaneInv'
  <2>1. TypeOK'
    BY <1>1, PriorityAssumption, NoneAssumption, TypeOK DEF Submit,
       MayAccept, HasLiveOwner, TypeOK, Entries, StopEntries, IsStop,
       FutureStates, WorkerStates
  <2>2. EntriesNameTheirJob'
    BY <1>1, PriorityAssumption, NoneAssumption, TypeOK, EntriesNameTheirJob
       DEF Submit, MayAccept, HasLiveOwner, TypeOK, EntriesNameTheirJob,
       Entries, StopEntries, IsStop
  <2>3. SequencesDistinct'
    BY <1>1, PriorityAssumption, NoneAssumption, TypeOK, SequencesDistinct
       DEF Submit, MayAccept, HasLiveOwner, TypeOK, SequencesDistinct,
       Entries, StopEntries
  <2>4. CurrentEntryWaits'
    BY <1>1, PriorityAssumption, NoneAssumption, TypeOK,
       EntriesNameTheirJob, CurrentEntryWaits, WorkerHolds DEF Submit,
       MayAccept, HasLiveOwner, TypeOK, EntriesNameTheirJob,
       CurrentEntryWaits, WorkerHolds, Entries, IsStop
  <2>5. PendingIsCurrent'
    BY <1>1, PriorityAssumption, NoneAssumption, TypeOK,
       EntriesNameTheirJob, PendingIsCurrent, WorkerHolds,
       RegistryNamesLiveJob DEF Submit, MayAccept, HasLiveOwner, TypeOK,
       EntriesNameTheirJob, PendingIsCurrent, WorkerHolds,
       RegistryNamesLiveJob, Entries, Live
  <2>6. WorkerHolds'
    BY <1>1, PriorityAssumption, NoneAssumption, TypeOK,
       EntriesNameTheirJob, CurrentEntryWaits, WorkerHolds DEF Submit,
       MayAccept, HasLiveOwner, TypeOK, EntriesNameTheirJob,
       CurrentEntryWaits, WorkerHolds, Entries, StopEntries, IsStop
  <2>7. StopIsLast'
    BY <1>1, PriorityAssumption, NoneAssumption, TypeOK, StopIsLast,
       SequencesDistinct DEF Submit, MayAccept, HasLiveOwner, TypeOK,
       StopIsLast, SequencesDistinct, Entries, StopEntries, IsStop
  <2>8. RegistryNamesLiveJob'
    BY <1>1, NoneAssumption, TypeOK, EntriesNameTheirJob, WorkerHolds,
       RegistryNamesLiveJob DEF Submit, MayAccept, HasLiveOwner, TypeOK,
       EntriesNameTheirJob, WorkerHolds, RegistryNamesLiveJob, Live
  <2>9. WorkerSurvives'
    BY <1>1, NoneAssumption, TypeOK, WorkerHolds, WorkerSurvives DEF Submit,
       MayAccept, HasLiveOwner, TypeOK, WorkerHolds, WorkerSurvives
  <2> QED
    BY <2>1, <2>2, <2>3, <2>4, <2>5, <2>6, <2>7, <2>8, <2>9 DEF LaneInv
<1>2. ASSUME NEW k \in Keys, NEW p \in Priorities, Promote(k, p)
      PROVE  LaneInv'
  <2>1. TypeOK'
    BY <1>2, PriorityAssumption, NoneAssumption, TypeOK DEF Promote, TypeOK,
       Entries, StopEntries, IsStop, FutureStates, WorkerStates
  <2>2. EntriesNameTheirJob'
    BY <1>2, PriorityAssumption, NoneAssumption, TypeOK, EntriesNameTheirJob
       DEF Promote, TypeOK, EntriesNameTheirJob, Entries, StopEntries,
       IsStop
  <2>3. SequencesDistinct'
    BY <1>2, PriorityAssumption, NoneAssumption, TypeOK, SequencesDistinct
       DEF Promote, TypeOK, SequencesDistinct, Entries, StopEntries
  <2>4. CurrentEntryWaits'
    BY <1>2, PriorityAssumption, NoneAssumption, TypeOK,
       EntriesNameTheirJob, CurrentEntryWaits, WorkerHolds DEF Promote,
       TypeOK, EntriesNameTheirJob, CurrentEntryWaits, WorkerHolds, Entries,
       IsStop
  <2>5. PendingIsCurrent'
    BY <1>2, PriorityAssumption, NoneAssumption, TypeOK,
       EntriesNameTheirJob, PendingIsCurrent, WorkerHolds,
       RegistryNamesLiveJob DEF Promote, TypeOK, EntriesNameTheirJob,
       PendingIsCurrent, WorkerHolds, RegistryNamesLiveJob, Entries, Live
  <2>6. WorkerHolds'
    BY <1>2, PriorityAssumption, NoneAssumption, TypeOK,
       EntriesNameTheirJob, CurrentEntryWaits, WorkerHolds DEF Promote,
       TypeOK, EntriesNameTheirJob, CurrentEntryWaits, WorkerHolds, Entries,
       StopEntries, IsStop
  <2>7. StopIsLast'
    BY <1>2, PriorityAssumption, NoneAssumption, TypeOK, StopIsLast,
       SequencesDistinct, CurrentEntryWaits DEF Promote, TypeOK, StopIsLast,
       SequencesDistinct, CurrentEntryWaits, Entries, StopEntries, IsStop
  <2>8. RegistryNamesLiveJob'
    BY <1>2, NoneAssumption, TypeOK, EntriesNameTheirJob, WorkerHolds,
       RegistryNamesLiveJob DEF Promote, TypeOK, EntriesNameTheirJob,
       WorkerHolds, RegistryNamesLiveJob, Live
  <2>9. WorkerSurvives'
    BY <1>2, NoneAssumption, TypeOK, WorkerHolds, WorkerSurvives DEF
       Promote, TypeOK, WorkerHolds, WorkerSurvives
  <2> QED
    BY <2>1, <2>2, <2>3, <2>4, <2>5, <2>6, <2>7, <2>8, <2>9 DEF LaneInv
<1>3. ASSUME NEW j \in Jobs, Cancel(j)
      PROVE  LaneInv'
  <2>1. TypeOK'
    BY <1>3, PriorityAssumption, NoneAssumption, TypeOK DEF Cancel, TypeOK,
       Entries, StopEntries, IsStop, FutureStates, WorkerStates
  <2>2. EntriesNameTheirJob'
    BY <1>3, PriorityAssumption, NoneAssumption, TypeOK, EntriesNameTheirJob
       DEF Cancel, TypeOK, EntriesNameTheirJob, Entries, StopEntries, IsStop
  <2>3. SequencesDistinct'
    BY <1>3, PriorityAssumption, NoneAssumption, TypeOK, SequencesDistinct
       DEF Cancel, TypeOK, SequencesDistinct, Entries, StopEntries
  <2>4. CurrentEntryWaits'
    BY <1>3, PriorityAssumption, NoneAssumption, TypeOK,
       EntriesNameTheirJob, CurrentEntryWaits, WorkerHolds DEF Cancel,
       TypeOK, EntriesNameTheirJob, CurrentEntryWaits, WorkerHolds, Entries,
       IsStop
  <2>5. PendingIsCurrent'
    BY <1>3, PriorityAssumption, NoneAssumption, TypeOK,
       EntriesNameTheirJob, PendingIsCurrent, WorkerHolds,
       RegistryNamesLiveJob DEF Cancel, TypeOK, EntriesNameTheirJob,
       PendingIsCurrent, WorkerHolds, RegistryNamesLiveJob, Entries, Live
  <2>6. WorkerHolds'
    BY <1>3, PriorityAssumption, NoneAssumption, TypeOK,
       EntriesNameTheirJob, CurrentEntryWaits, WorkerHolds DEF Cancel,
       TypeOK, EntriesNameTheirJob, CurrentEntryWaits, WorkerHolds, Entries,
       StopEntries, IsStop
  <2>7. StopIsLast'
    BY <1>3, PriorityAssumption, NoneAssumption, TypeOK, StopIsLast,
       SequencesDistinct DEF Cancel, TypeOK, StopIsLast, SequencesDistinct,
       Entries, StopEntries, IsStop
  <2>8. RegistryNamesLiveJob'
    BY <1>3, NoneAssumption, TypeOK, EntriesNameTheirJob, WorkerHolds,
       RegistryNamesLiveJob DEF Cancel, TypeOK, EntriesNameTheirJob,
       WorkerHolds, RegistryNamesLiveJob, Live
  <2>9. WorkerSurvives'
    BY <1>3, NoneAssumption, TypeOK, WorkerHolds, WorkerSurvives DEF Cancel,
       TypeOK, WorkerHolds, WorkerSurvives
  <2> QED
    BY <2>1, <2>2, <2>3, <2>4, <2>5, <2>6, <2>7, <2>8, <2>9 DEF LaneInv
<1>4. ASSUME Close
      PROVE  LaneInv'
  <2>1. TypeOK'
    BY <1>4, PriorityAssumption, NoneAssumption, TypeOK DEF Close, TypeOK,
       Entries, StopEntries, IsStop, FutureStates, WorkerStates
  <2>2. EntriesNameTheirJob'
    BY <1>4, PriorityAssumption, NoneAssumption, TypeOK, EntriesNameTheirJob
       DEF Close, TypeOK, EntriesNameTheirJob, Entries, StopEntries, IsStop
  <2>3. SequencesDistinct'
    BY <1>4, PriorityAssumption, NoneAssumption, TypeOK, SequencesDistinct
       DEF Close, TypeOK, SequencesDistinct, Entries, StopEntries
  <2>4. CurrentEntryWaits'
    BY <1>4, PriorityAssumption, NoneAssumption, TypeOK,
       EntriesNameTheirJob, CurrentEntryWaits, WorkerHolds DEF Close,
       TypeOK, EntriesNameTheirJob, CurrentEntryWaits, WorkerHolds, Entries,
       IsStop
  <2>5. PendingIsCurrent'
    BY <1>4, PriorityAssumption, NoneAssumption, TypeOK,
       EntriesNameTheirJob, PendingIsCurrent, WorkerHolds,
       RegistryNamesLiveJob DEF Close, TypeOK, EntriesNameTheirJob,
       PendingIsCurrent, WorkerHolds, RegistryNamesLiveJob, Entries, Live
  <2>6. WorkerHolds'
    BY <1>4, PriorityAssumption, NoneAssumption, TypeOK,
       EntriesNameTheirJob, CurrentEntryWaits, WorkerHolds DEF Close,
       TypeOK, EntriesNameTheirJob, CurrentEntryWaits, WorkerHolds, Entries,
       StopEntries, IsStop
  <2>7. StopIsLast'
    BY <1>4, PriorityAssumption, NoneAssumption, TypeOK, StopIsLast,
       SequencesDistinct DEF Close, TypeOK, StopIsLast, SequencesDistinct,
       Entries, StopEntries, IsStop
  <2>8. RegistryNamesLiveJob'
    BY <1>4, NoneAssumption, TypeOK, EntriesNameTheirJob, WorkerHolds,
       RegistryNamesLiveJob DEF Close, TypeOK, EntriesNameTheirJob,
       WorkerHolds, RegistryNamesLiveJob, Live
  <2>9. WorkerSurvives'
    BY <1>4, NoneAssumption, TypeOK, WorkerHolds, WorkerSurvives DEF Close,
       TypeOK, WorkerHolds, WorkerSurvives
  <2> QED
    BY <2>1, <2>2, <2>3, <2>4, <2>5, <2>6, <2>7, <2>8, <2>9 DEF LaneInv
<1>5. ASSUME PutStop
      PROVE  LaneInv'
  <2>1. TypeOK'
    BY <1>5, PriorityAssumption, NoneAssumption, TypeOK DEF PutStop,
       StopEntry, TypeOK, Entries, StopEntries, IsStop, FutureStates,
       WorkerStates
  <2>2. EntriesNameTheirJob'
    BY <1>5, PriorityAssumption, NoneAssumption, TypeOK, EntriesNameTheirJob
       DEF PutStop, StopEntry, TypeOK, EntriesNameTheirJob, Entries,
       StopEntries, IsStop
  <2>3. SequencesDistinct'
    BY <1>5, PriorityAssumption, NoneAssumption, TypeOK, SequencesDistinct
       DEF PutStop, StopEntry, TypeOK, SequencesDistinct, Entries,
       StopEntries
  <2>4. CurrentEntryWaits'
    BY <1>5, PriorityAssumption, NoneAssumption, TypeOK,
       EntriesNameTheirJob, CurrentEntryWaits, WorkerHolds DEF PutStop,
       StopEntry, TypeOK, EntriesNameTheirJob, CurrentEntryWaits,
       WorkerHolds, Entries, IsStop
  <2>5. PendingIsCurrent'
    BY <1>5, PriorityAssumption, NoneAssumption, TypeOK,
       EntriesNameTheirJob, PendingIsCurrent, WorkerHolds,
       RegistryNamesLiveJob DEF PutStop, StopEntry, TypeOK,
       EntriesNameTheirJob, PendingIsCurrent, WorkerHolds,
       RegistryNamesLiveJob, Entries, Live
  <2>6. WorkerHolds'
    BY <1>5, PriorityAssumption, NoneAssumption, TypeOK,
       EntriesNameTheirJob, CurrentEntryWaits, WorkerHolds DEF PutStop,
       StopEntry, TypeOK, EntriesNameTheirJob, CurrentEntryWaits,
       WorkerHolds, Entries, StopEntries, IsStop
  <2>7. StopIsLast'
    BY <1>5, PriorityAssumption, NoneAssumption, TypeOK, StopIsLast,
       SequencesDistinct DEF PutStop, StopEntry, TypeOK, StopIsLast,
       SequencesDistinct, Entries, StopEntries, IsStop
  <2>8. RegistryNamesLiveJob'
    BY <1>5, NoneAssumption, TypeOK, EntriesNameTheirJob, WorkerHolds,
       RegistryNamesLiveJob DEF PutStop, StopEntry, TypeOK,
       EntriesNameTheirJob, WorkerHolds, RegistryNamesLiveJob, Live
  <2>9. WorkerSurvives'
    BY <1>5, NoneAssumption, TypeOK, WorkerHolds, WorkerSurvives DEF
       PutStop, StopEntry, TypeOK, WorkerHolds, WorkerSurvives
  <2> QED
    BY <2>1, <2>2, <2>3, <2>4, <2>5, <2>6, <2>7, <2>8, <2>9 DEF LaneInv
<1>6. ASSUME Get
      PROVE  LaneInv'
  <2>1. TypeOK'
    BY <1>6, PriorityAssumption, NoneAssumption, TypeOK DEF Get, Before,
       TypeOK, Entries, StopEntries, IsStop, FutureStates, WorkerStates
  <2>2. EntriesNameTheirJob'
    BY <1>6, PriorityAssumption, NoneAssumption, TypeOK, EntriesNameTheirJob
       DEF Get, Before, TypeOK, EntriesNameTheirJob, Entries, StopEntries,
       IsStop
  <2>3. SequencesDistinct'
    BY <1>6, PriorityAssumption, NoneAssumption, TypeOK, SequencesDistinct
       DEF Get, Before, TypeOK, SequencesDistinct, Entries, StopEntries
  <2>4. CurrentEntryWaits'
    BY <1>6, PriorityAssumption, NoneAssumption, TypeOK,
       EntriesNameTheirJob, CurrentEntryWaits, WorkerHolds DEF Get, Before,
       TypeOK, EntriesNameTheirJob, CurrentEntryWaits, WorkerHolds, Entries,
       IsStop
  <2>5. PendingIsCurrent'
    BY <1>6, PriorityAssumption, NoneAssumption, TypeOK,
       EntriesNameTheirJob, PendingIsCurrent, WorkerHolds,
       RegistryNamesLiveJob DEF Get, Before, TypeOK, EntriesNameTheirJob,
       PendingIsCurrent, WorkerHolds, RegistryNamesLiveJob, Entries, Live
  <2>6. WorkerHolds'
    BY <1>6, PriorityAssumption, NoneAssumption, TypeOK,
       EntriesNameTheirJob, CurrentEntryWaits, WorkerHolds DEF Get, Before,
       TypeOK, EntriesNameTheirJob, CurrentEntryWaits, WorkerHolds, Entries,
       StopEntries, IsStop
  <2>7. StopIsLast'
    <3>1. PICK e \in queue :
            /\ \A other \in queue \ {e} : Before(e, other)
            /\ queue' = queue \ {e}
            /\ IF IsStop(e) THEN pc' = "exited" ELSE pc' = "claim"
      BY <1>6 DEF Get
    <3>2. CASE IsStop(e)
      <4>1. stopQueued /\ closed
        BY <3>2, StopIsLast DEF StopIsLast
      <4>2. ASSUME NEW other \in queue \ {e}
            PROVE  FALSE
        <5>1. CASE IsStop(other)
          BY <3>2, <4>2, <5>1, StopIsLast DEF StopIsLast
        <5>2. CASE ~IsStop(other)
          <6>1. e.priority = StopPriority
            BY <3>2, TypeOK, NoneAssumption
            DEF TypeOK, IsStop, Entries, StopEntries
          <6>2. other.priority \in Priorities
            BY <5>2, TypeOK, NoneAssumption
            DEF TypeOK, IsStop, Entries, StopEntries
          <6>3. StopPriority < other.priority
                  \/ StopPriority = other.priority
            BY <3>1, <4>2, <6>1 DEF Before
          <6>4. other.priority < StopPriority /\ other.priority \in Nat
            BY <6>2, PriorityAssumption
          <6> QED
            BY <6>3, <6>4, PriorityAssumption
        <5> QED
          BY <5>1, <5>2
      <4>3. queue' = {}
        BY <3>1, <4>2
      <4> QED
        BY <1>6, <4>1, <4>3 DEF Get, StopIsLast
    <3>3. CASE ~IsStop(e)
      BY <1>6, <3>1, <3>3, StopIsLast DEF Get, StopIsLast
    <3> QED
      BY <3>2, <3>3
  <2>8. RegistryNamesLiveJob'
    BY <1>6, NoneAssumption, TypeOK, EntriesNameTheirJob, WorkerHolds,
       RegistryNamesLiveJob DEF Get, Before, TypeOK, EntriesNameTheirJob,
       WorkerHolds, RegistryNamesLiveJob, Live
  <2>9. WorkerSurvives'
    BY <1>6, NoneAssumption, TypeOK, WorkerHolds, WorkerSurvives DEF Get,
       Before, TypeOK, WorkerHolds, WorkerSurvives
  <2> QED
    BY <2>1, <2>2, <2>3, <2>4, <2>5, <2>6, <2>7, <2>8, <2>9 DEF LaneInv
<1>7. ASSUME Claim
      PROVE  LaneInv'
  <2>1. TypeOK'
    BY <1>7, PriorityAssumption, NoneAssumption, TypeOK DEF Claim,
       IsCurrent, TypeOK, Entries, StopEntries, IsStop, FutureStates,
       WorkerStates
  <2>2. EntriesNameTheirJob'
    BY <1>7, PriorityAssumption, NoneAssumption, TypeOK, EntriesNameTheirJob
       DEF Claim, IsCurrent, TypeOK, EntriesNameTheirJob, Entries,
       StopEntries, IsStop
  <2>3. SequencesDistinct'
    BY <1>7, PriorityAssumption, NoneAssumption, TypeOK, SequencesDistinct
       DEF Claim, IsCurrent, TypeOK, SequencesDistinct, Entries, StopEntries
  <2>4. CurrentEntryWaits'
    BY <1>7, PriorityAssumption, NoneAssumption, TypeOK,
       EntriesNameTheirJob, CurrentEntryWaits, WorkerHolds DEF Claim,
       IsCurrent, TypeOK, EntriesNameTheirJob, CurrentEntryWaits,
       WorkerHolds, Entries, IsStop
  <2>5. PendingIsCurrent'
    BY <1>7, PriorityAssumption, NoneAssumption, TypeOK,
       EntriesNameTheirJob, PendingIsCurrent, WorkerHolds,
       RegistryNamesLiveJob DEF Claim, IsCurrent, TypeOK,
       EntriesNameTheirJob, PendingIsCurrent, WorkerHolds,
       RegistryNamesLiveJob, Entries, Live
  <2>6. WorkerHolds'
    BY <1>7, PriorityAssumption, NoneAssumption, TypeOK,
       EntriesNameTheirJob, CurrentEntryWaits, WorkerHolds DEF Claim,
       IsCurrent, TypeOK, EntriesNameTheirJob, CurrentEntryWaits,
       WorkerHolds, Entries, StopEntries, IsStop
  <2>7. StopIsLast'
    BY <1>7, PriorityAssumption, NoneAssumption, TypeOK, StopIsLast,
       SequencesDistinct DEF Claim, IsCurrent, TypeOK, StopIsLast,
       SequencesDistinct, Entries, StopEntries, IsStop
  <2>8. RegistryNamesLiveJob'
    BY <1>7, NoneAssumption, TypeOK, EntriesNameTheirJob, WorkerHolds,
       RegistryNamesLiveJob DEF Claim, IsCurrent, TypeOK,
       EntriesNameTheirJob, WorkerHolds, RegistryNamesLiveJob, Live
  <2>9. WorkerSurvives'
    BY <1>7, NoneAssumption, TypeOK, WorkerHolds, WorkerSurvives DEF Claim,
       IsCurrent, TypeOK, WorkerHolds, WorkerSurvives
  <2> QED
    BY <2>1, <2>2, <2>3, <2>4, <2>5, <2>6, <2>7, <2>8, <2>9 DEF LaneInv
<1>8. ASSUME StartJob
      PROVE  LaneInv'
  <2>1. TypeOK'
    BY <1>8, PriorityAssumption, NoneAssumption, TypeOK DEF StartJob,
       Runnable, TypeOK, Entries, StopEntries, IsStop, FutureStates,
       WorkerStates
  <2>2. EntriesNameTheirJob'
    BY <1>8, PriorityAssumption, NoneAssumption, TypeOK, EntriesNameTheirJob
       DEF StartJob, Runnable, TypeOK, EntriesNameTheirJob, Entries,
       StopEntries, IsStop
  <2>3. SequencesDistinct'
    BY <1>8, PriorityAssumption, NoneAssumption, TypeOK, SequencesDistinct
       DEF StartJob, Runnable, TypeOK, SequencesDistinct, Entries,
       StopEntries
  <2>4. CurrentEntryWaits'
    BY <1>8, PriorityAssumption, NoneAssumption, TypeOK,
       EntriesNameTheirJob, CurrentEntryWaits, WorkerHolds DEF StartJob,
       Runnable, TypeOK, EntriesNameTheirJob, CurrentEntryWaits,
       WorkerHolds, Entries, IsStop
  <2>5. PendingIsCurrent'
    BY <1>8, PriorityAssumption, NoneAssumption, TypeOK,
       EntriesNameTheirJob, PendingIsCurrent, WorkerHolds,
       RegistryNamesLiveJob DEF StartJob, Runnable, TypeOK,
       EntriesNameTheirJob, PendingIsCurrent, WorkerHolds,
       RegistryNamesLiveJob, Entries, Live
  <2>6. WorkerHolds'
    BY <1>8, PriorityAssumption, NoneAssumption, TypeOK,
       EntriesNameTheirJob, CurrentEntryWaits, WorkerHolds DEF StartJob,
       Runnable, TypeOK, EntriesNameTheirJob, CurrentEntryWaits,
       WorkerHolds, Entries, StopEntries, IsStop
  <2>7. StopIsLast'
    BY <1>8, PriorityAssumption, NoneAssumption, TypeOK, StopIsLast,
       SequencesDistinct DEF StartJob, Runnable, TypeOK, StopIsLast,
       SequencesDistinct, Entries, StopEntries, IsStop
  <2>8. RegistryNamesLiveJob'
    BY <1>8, NoneAssumption, TypeOK, EntriesNameTheirJob, WorkerHolds,
       RegistryNamesLiveJob DEF StartJob, Runnable, TypeOK,
       EntriesNameTheirJob, WorkerHolds, RegistryNamesLiveJob, Live
  <2>9. WorkerSurvives'
    BY <1>8, NoneAssumption, TypeOK, WorkerHolds, WorkerSurvives DEF
       StartJob, Runnable, TypeOK, WorkerHolds, WorkerSurvives
  <2> QED
    BY <2>1, <2>2, <2>3, <2>4, <2>5, <2>6, <2>7, <2>8, <2>9 DEF LaneInv
<1>9. ASSUME FinishJob
      PROVE  LaneInv'
  <2>1. TypeOK'
    BY <1>9, PriorityAssumption, NoneAssumption, TypeOK DEF FinishJob,
       TypeOK, Entries, StopEntries, IsStop, FutureStates, WorkerStates
  <2>2. EntriesNameTheirJob'
    BY <1>9, PriorityAssumption, NoneAssumption, TypeOK,
       EntriesNameTheirJob, WorkerHolds DEF FinishJob, TypeOK,
       EntriesNameTheirJob, WorkerHolds, Entries, StopEntries, IsStop
  <2>3. SequencesDistinct'
    BY <1>9, PriorityAssumption, NoneAssumption, TypeOK, SequencesDistinct
       DEF FinishJob, TypeOK, SequencesDistinct, Entries, StopEntries
  <2>4. CurrentEntryWaits'
    BY <1>9, PriorityAssumption, NoneAssumption, TypeOK,
       EntriesNameTheirJob, CurrentEntryWaits, WorkerHolds DEF FinishJob,
       TypeOK, EntriesNameTheirJob, CurrentEntryWaits, WorkerHolds, Entries,
       IsStop
  <2>5. PendingIsCurrent'
    BY <1>9, PriorityAssumption, NoneAssumption, TypeOK,
       EntriesNameTheirJob, PendingIsCurrent, WorkerHolds,
       RegistryNamesLiveJob DEF FinishJob, TypeOK, EntriesNameTheirJob,
       PendingIsCurrent, WorkerHolds, RegistryNamesLiveJob, Entries, Live
  <2>6. WorkerHolds'
    BY <1>9, PriorityAssumption, NoneAssumption, TypeOK,
       EntriesNameTheirJob, CurrentEntryWaits, WorkerHolds DEF FinishJob,
       TypeOK, EntriesNameTheirJob, CurrentEntryWaits, WorkerHolds, Entries,
       StopEntries, IsStop
  <2>7. StopIsLast'
    BY <1>9, PriorityAssumption, NoneAssumption, TypeOK, StopIsLast,
       SequencesDistinct DEF FinishJob, TypeOK, StopIsLast,
       SequencesDistinct, Entries, StopEntries, IsStop
  <2>8. RegistryNamesLiveJob'
    BY <1>9, NoneAssumption, TypeOK, EntriesNameTheirJob, WorkerHolds,
       RegistryNamesLiveJob DEF FinishJob, TypeOK, EntriesNameTheirJob,
       WorkerHolds, RegistryNamesLiveJob, Live
  <2>9. WorkerSurvives'
    BY <1>9, NoneAssumption, TypeOK, WorkerHolds, WorkerSurvives DEF
       FinishJob, TypeOK, WorkerHolds, WorkerSurvives
  <2> QED
    BY <2>1, <2>2, <2>3, <2>4, <2>5, <2>6, <2>7, <2>8, <2>9 DEF LaneInv
<1>10. ASSUME Release
      PROVE  LaneInv'
  <2>1. TypeOK'
    BY <1>10, PriorityAssumption, NoneAssumption, TypeOK DEF Release,
       Forget, TypeOK, Entries, StopEntries, IsStop, FutureStates,
       WorkerStates
  <2>2. EntriesNameTheirJob'
    BY <1>10, PriorityAssumption, NoneAssumption, TypeOK,
       EntriesNameTheirJob DEF Release, Forget, TypeOK, EntriesNameTheirJob,
       Entries, StopEntries, IsStop
  <2>3. SequencesDistinct'
    BY <1>10, PriorityAssumption, NoneAssumption, TypeOK, SequencesDistinct
       DEF Release, Forget, TypeOK, SequencesDistinct, Entries, StopEntries
  <2>4. CurrentEntryWaits'
    BY <1>10, PriorityAssumption, NoneAssumption, TypeOK,
       EntriesNameTheirJob, CurrentEntryWaits, WorkerHolds DEF Release,
       Forget, TypeOK, EntriesNameTheirJob, CurrentEntryWaits, WorkerHolds,
       Entries, IsStop
  <2>5. PendingIsCurrent'
    BY <1>10, PriorityAssumption, NoneAssumption, TypeOK,
       EntriesNameTheirJob, PendingIsCurrent, WorkerHolds,
       RegistryNamesLiveJob DEF Release, Forget, TypeOK,
       EntriesNameTheirJob, PendingIsCurrent, WorkerHolds,
       RegistryNamesLiveJob, Entries, Live
  <2>6. WorkerHolds'
    BY <1>10, PriorityAssumption, NoneAssumption, TypeOK,
       EntriesNameTheirJob, CurrentEntryWaits, WorkerHolds DEF Release,
       Forget, TypeOK, EntriesNameTheirJob, CurrentEntryWaits, WorkerHolds,
       Entries, StopEntries, IsStop
  <2>7. StopIsLast'
    BY <1>10, PriorityAssumption, NoneAssumption, TypeOK, StopIsLast,
       SequencesDistinct DEF Release, Forget, TypeOK, StopIsLast,
       SequencesDistinct, Entries, StopEntries, IsStop
  <2>8. RegistryNamesLiveJob'
    BY <1>10, NoneAssumption, TypeOK, EntriesNameTheirJob, WorkerHolds,
       RegistryNamesLiveJob DEF Release, Forget, TypeOK,
       EntriesNameTheirJob, WorkerHolds, RegistryNamesLiveJob, Live
  <2>9. WorkerSurvives'
    BY <1>10, NoneAssumption, TypeOK, WorkerHolds, WorkerSurvives DEF
       Release, Forget, TypeOK, WorkerHolds, WorkerSurvives
  <2> QED
    BY <2>1, <2>2, <2>3, <2>4, <2>5, <2>6, <2>7, <2>8, <2>9 DEF LaneInv
<1>11. CASE UNCHANGED vars
  BY <1>11 DEF LaneInv, vars, TypeOK, EntriesNameTheirJob,
     SequencesDistinct, CurrentEntryWaits, PendingIsCurrent, WorkerHolds,
     StopIsLast, RegistryNamesLiveJob, WorkerSurvives, Live
<1> QED
  BY <1>1, <1>2, <1>3, <1>4, <1>5, <1>6, <1>7, <1>8, <1>9, <1>10, <1>11
  DEF Next, Worker

(* The invariant of the lane, from which the properties below follow.      *)
THEOREM LaneInvariant == Spec => []LaneInv
<1> QED
  BY LaneInvInit, LaneInvStep, PTL DEF Spec

(* Every state of the lane is well typed.                                  *)
THEOREM TypeCorrect == Spec => []TypeOK
<1>1. LaneInv => TypeOK
  BY DEF LaneInv
<1> QED
  BY <1>1, LaneInvariant, PTL

(* No accepted job is lost between the queue, the registry and the worker, *)
(* however often its key is promoted (agent_jobs.py submit, promote, _run) *)
THEOREM NoJobLost == Spec => []LiveJobReachable
<1>1. LaneInv => LiveJobReachable
  <2> SUFFICES ASSUME LaneInv, NEW j \in Jobs, future[j] = "pending"
               PROVE  \/ \E e \in queue : e.job = j /\ queuedJobs[e.key] = e
                      \/ /\ held # None /\ held.job = j
                         /\ \/ pc = "start"
                            \/ pc = "claim" /\ queuedJobs[held.key] = held
    BY DEF LiveJobReachable
  <2>1. CASE pc = "start" /\ held.job = j
    BY <2>1 DEF LaneInv, WorkerHolds
  <2>2. CASE queuedJobs[keyOf[j]] # None /\ queuedJobs[keyOf[j]].job = j
    <3>1. keyOf[j] \in Keys
      BY DEF LaneInv, TypeOK, EntriesNameTheirJob
    <3> QED
      BY <2>2, <3>1
      DEF LaneInv, CurrentEntryWaits, EntriesNameTheirJob, WorkerHolds
  <2> QED
    BY <2>1, <2>2 DEF LaneInv, PendingIsCurrent
<1> QED
  BY <1>1, LaneInvariant, PTL

(* Two jobs of one key are never live together: the registry submit()      *)
(* coalesces by always names the live one.                                 *)
THEOREM OneLiveJobPerKey == Spec => []RegistryNamesLiveJob
<1>1. LaneInv => RegistryNamesLiveJob
  BY DEF LaneInv
<1> QED
  BY <1>1, LaneInvariant, PTL

(* A stale entry never reaches set_running_or_notify_cancel(), so no step  *)
(* of the lane can end its only worker with an exception.                  *)
THEOREM WorkerNeverDies == Spec => []WorkerSurvives
<1>1. LaneInv => WorkerSurvives
  BY DEF LaneInv
<1> QED
  BY <1>1, LaneInvariant, PTL

(* When the worker has returned after close(), nothing is left unsettled.  *)
THEOREM CloseLeavesNothing == Spec => []DrainedOnExit
<1>1. LaneInv => DrainedOnExit
  BY DEF LaneInv, TypeOK, DrainedOnExit, StopIsLast, PendingIsCurrent,
         WorkerHolds, CurrentEntryWaits, EntriesNameTheirJob, Live
<1> QED
  BY <1>1, LaneInvariant, PTL

(* The worker never takes an entry while a more urgent one is current.     *)
THEOREM MostUrgentFirst == Spec => TakesMostUrgent
<1>1. ASSUME LaneInv, [Next]_vars, pc = "get", pc' = "claim",
             NEW k \in Keys, queuedJobs[k] # None
      PROVE  queuedJobs[k].priority >= held'.priority
  <2>1. Get
    BY <1>1 DEF Next, Worker, Submit, Promote, Cancel, Close, PutStop, Claim,
                StartJob, FinishJob, Release, vars
  <2>2. PICK e \in queue : /\ \A other \in queue \ {e} : Before(e, other)
                           /\ held' = e
                           /\ ~IsStop(e)
    BY <1>1, <2>1 DEF Get
  <2>3. queuedJobs[k] \in queue /\ queuedJobs[k] \in Entries
    BY <1>1 DEF LaneInv, CurrentEntryWaits, TypeOK
  <2>4. e.priority \in Nat /\ queuedJobs[k].priority \in Nat
    BY <1>1, <2>2, <2>3, PriorityAssumption
    DEF LaneInv, TypeOK, Entries, StopEntries, IsStop
  <2> QED
    BY <2>2, <2>3, <2>4 DEF Before
<1>2. LaneInv /\ [Next]_vars =>
        [pc = "get" /\ pc' = "claim" =>
           \A k \in Keys : queuedJobs[k] # None =>
                            queuedJobs[k].priority >= held'.priority]_vars
  BY <1>1
<1> QED
  BY <1>2, LaneInvariant, PTL DEF Spec, TakesMostUrgent

(* The lane implements JobLane: a stale entry, a promotion or the stop     *)
(* entry is a stutter there, and every other step is the step of its name. *)
THEOREM RefinesJobLane == Spec => ImplementsJobLane
<1>1. Init => Promise!LaneInit
  BY DEF Init, Promise!LaneInit
<1>2. LaneInv /\ LaneInv' /\ [Next]_vars => [Promise!LaneNext]_(Promise!laneVars)
  <2> SUFFICES ASSUME LaneInv, LaneInv', [Next]_vars
               PROVE  [Promise!LaneNext]_(Promise!laneVars)
    OBVIOUS
  <2>1. ASSUME NEW k \in Keys, NEW p \in Priorities, NEW j \in Jobs,
               Submit(k, p, j)
        PROVE  Promise!Accept(k, j)
    BY <2>1 DEF LaneInv, TypeOK, Submit, MayAccept, HasLiveOwner, Live,
                FutureStates, Promise!Accept,
                Promise!HasLiveOwner, Promise!Live
  <2>2. ASSUME NEW j \in Jobs, Cancel(j)
        PROVE  Promise!Cancel(j)
    BY <2>2 DEF LaneInv, TypeOK, Cancel, Promise!Cancel
  <2>3. CASE Close
    BY <2>3 DEF Close, Promise!Close, Promise!LaneNext
  <2>4. CASE StartJob
    <3>1. PICK mine \in Jobs : mine = held.job
      BY <2>4, NoneAssumption
      DEF LaneInv, TypeOK, StartJob, WorkerHolds, Entries
    <3>2. CASE future[held.job] = "pending"
      <4>1. \A other \in Jobs : future[other] # "running"
        BY <2>4 DEF LaneInv, StartJob, WorkerHolds
      <4>2. Promise!Start(mine)
        BY <2>4, <3>1, <3>2, <4>1
        DEF LaneInv, TypeOK, StartJob, Runnable, Promise!Start
      <4> QED
        BY <4>2 DEF Promise!LaneNext
    <3>3. CASE future[held.job] = "cancelled"
      <4>1. future' = [future EXCEPT ![held.job] = "notified"]
        BY <2>4, <3>3 DEF StartJob, Runnable
      <4>2. \A j \in Jobs :
              (IF future'[j] = "notified" THEN "cancelled" ELSE future'[j])
              = (IF future[j] = "notified" THEN "cancelled" ELSE future[j])
        BY <3>3, <4>1 DEF LaneInv, TypeOK
      <4> QED
        BY <2>4, <4>2 DEF StartJob, Promise!laneVars
    <3> QED
      BY <2>4, <3>2, <3>3 DEF LaneInv, StartJob, WorkerHolds
  <2>5. CASE FinishJob
    <3>1. PICK mine \in Jobs : mine = held.job /\ future[mine] = "running"
      BY <2>5, NoneAssumption
      DEF LaneInv, TypeOK, FinishJob, WorkerHolds, Entries
    <3>2. Promise!Finish(mine)
      BY <2>5, <3>1 DEF LaneInv, TypeOK, FinishJob, Promise!Finish
    <3> QED
      BY <3>2 DEF Promise!LaneNext
  <2>6. CASE Release
    <3>1. held \in Entries /\ held.key \in Keys /\ held.job \in Jobs
      BY <2>6, NoneAssumption
      DEF LaneInv, TypeOK, Release, WorkerHolds, Entries
    <3>2. CASE futures[held.key] = held.job
      <4>1. Promise!Retire(held.key)
        BY <2>6, <3>1, <3>2, NoneAssumption
        DEF LaneInv, TypeOK, Release, Forget, WorkerHolds, Promise!Retire, Promise!Live
      <4> QED
        BY <3>1, <4>1 DEF Promise!LaneNext
    <3>3. CASE futures[held.key] # held.job
      BY <2>6, <3>3 DEF Release, Forget, Promise!laneVars
    <3> QED
      BY <3>2, <3>3
  <2>7. ASSUME \/ \E k \in Keys, p \in Priorities : Promote(k, p)
               \/ PutStop \/ Get \/ Claim \/ UNCHANGED vars
        PROVE  UNCHANGED Promise!laneVars
    BY <2>7 DEF Promote, PutStop, Get, Claim, vars, Promise!laneVars
  <2> QED
    BY <2>1, <2>2, <2>3, <2>4, <2>5, <2>6, <2>7
    DEF Next, Worker, Promise!LaneNext
<1> QED
  BY <1>1, <1>2, LaneInvariant, PTL
  DEF Spec, ImplementsJobLane, Promise!LaneSpec

-----------------------------------------------------------------------------
(* The processes of a bounded call.                                        *)

(* A kill ends processes and changes nothing else about them.              *)
LEMMA KilledProcesses ==
  ASSUME Process!TypeOK, NEW ps, proc' = Process!Killed(ps)
  PROVE  /\ proc' \in [Process!Processes -> [state : {"absent", "alive", "dead"},
                                             owned : BOOLEAN, output : BOOLEAN]]
         /\ \A p \in Process!Processes :
              /\ Process!Alive(p)' <=> Process!Alive(p) /\ p \notin ps
              /\ proc'[p].owned = proc[p].owned /\ proc'[p].output = proc[p].output
              /\ proc[p] = Process!Absent => proc'[p] = Process!Absent
<1> DEFINE Processes == [state : {"absent", "alive", "dead"}, owned : BOOLEAN, output : BOOLEAN]
<1>1. ASSUME NEW p \in Process!Processes
      PROVE  /\ proc'[p] \in Processes
             /\ Process!Alive(p)' <=> Process!Alive(p) /\ p \notin ps
             /\ proc'[p].owned = proc[p].owned /\ proc'[p].output = proc[p].output
             /\ proc[p] = Process!Absent => proc'[p] = Process!Absent
  <2>1. proc'[p] = IF p \in ps /\ Process!Alive(p) THEN [proc[p] EXCEPT !.state = "dead"] ELSE proc[p]
    BY DEF Process!Killed
  <2>2. proc[p] \in Processes
    BY DEF Process!TypeOK
  <2> QED
    BY <2>1, <2>2 DEF Process!Alive, Process!Absent
<1>2. proc' = [p \in Process!Processes |-> proc'[p]]
  BY DEF Process!Killed
<1> QED
  BY <1>1, <1>2

(* Nothing of the tree exists before the launch, and the direct child      *)
(* after it: on POSIX in a group of its own.                               *)
LEMMA ProcessLaunch == Process!OwnedInv /\ Process!Launch => Process!OwnedInv'
<1> SUFFICES ASSUME Process!OwnedInv, Process!Launch PROVE Process!OwnedInv'
  OBVIOUS
<1> DEFINE Child(owned) == [state |-> "alive", owned |-> owned, output |-> TRUE]
<1>1. step = "launch" /\ gate = "shut" /\ \A p \in Process!Processes : proc[p] = Process!Absent
  BY DEF Process!OwnedInv, Process!Launch, Process!LaunchIsOrdered
<1>2. UNCHANGED <<platform, gate, inJob, failed>>
  BY DEF Process!Launch
<1>3. CASE step' = "done" /\ cause' = "launch" /\ UNCHANGED <<proc, job>>
  BY <1>1, <1>2, <1>3
  DEF Process!OwnedInv, Process!TypeOK, Process!LaunchIsOrdered, Process!CommandIsOwned, Process!CleanupIsWhole,
      Process!NothingSurvives, Process!Quiet, Process!Alive, Process!Owned, Process!Processes, Process!Absent
<1>4. ASSUME proc' = [proc EXCEPT !["direct"] = Child(platform = "posix")],
             platform = "posix" => step' = "wait" /\ UNCHANGED job,
             platform = "nt" => step' = "assign" /\ job' = "open",
             platform \in {"posix", "nt"}, UNCHANGED cause
      PROVE  Process!OwnedInv'
  <2>1. /\ \A p \in Process!Processes : p # "direct" => proc'[p] = Process!Absent
        /\ proc'["direct"] = Child(platform = "posix")
        /\ proc' = [p \in Process!Processes |-> proc'[p]]
    BY <1>1, <1>4 DEF Process!OwnedInv, Process!TypeOK, Process!Processes
  <2>2. Process!TypeOK'
    <3>1. Process!Absent \in [state : {"absent", "alive", "dead"}, owned : BOOLEAN, output : BOOLEAN]
      BY DEF Process!Absent
    <3>2. Child(platform = "posix") \in [state : {"absent", "alive", "dead"}, owned : BOOLEAN, output : BOOLEAN]
      OBVIOUS
    <3>3. proc' \in [Process!Processes -> [state : {"absent", "alive", "dead"}, owned : BOOLEAN, output : BOOLEAN]]
      BY <2>1, <3>1, <3>2
    <3> QED
      BY <1>2, <1>4, <3>3 DEF Process!OwnedInv, Process!TypeOK
  <2>3. Process!LaunchIsOrdered'
    <3>1. CASE platform = "posix"
      <4>1. proc'["direct"] = Child(TRUE)
        BY <2>1, <3>1
      <4>2. proc'["direct"].owned
        BY <4>1
      <4>3. proc'["target"] = Process!Absent /\ step' = "wait" /\ platform' = "posix"
        BY <1>2, <1>4, <2>1, <3>1 DEF Process!Processes
      <4> QED
        BY <4>2, <4>3 DEF Process!LaunchIsOrdered
    <3>2. CASE platform = "nt"
      BY <1>1, <1>2, <1>4, <2>1, <3>2 DEF Process!OwnedInv, Process!LaunchIsOrdered
    <3> QED
      BY <1>4, <3>1, <3>2
  <2>4. Process!CommandIsOwned'
    BY <2>1 DEF Process!CommandIsOwned, Process!Alive, Process!Processes, Process!Absent
  <2>5. Process!CleanupIsWhole' /\ Process!NothingSurvives'
    BY <1>4 DEF Process!CleanupIsWhole, Process!NothingSurvives
  <2> QED
    BY <2>2, <2>3, <2>4, <2>5 DEF Process!OwnedInv
<1> QED
  BY <1>3, <1>4 DEF Process!Launch, Process!EndWith

LEMMA ProcessAssign == Process!OwnedInv /\ Process!Assign => Process!OwnedInv'
<1> SUFFICES ASSUME Process!OwnedInv, Process!Assign PROVE Process!OwnedInv'
  OBVIOUS
<1> USE DEF Process!OwnedInv
<1>1. PICK assigned \in BOOLEAN, reported \in BOOLEAN :
        /\ reported => assigned
        /\ proc' = IF assigned /\ Process!Alive("direct")
                   THEN [proc EXCEPT !["direct"].owned = TRUE] ELSE proc
        /\ inJob' = reported
        /\ step' = IF reported THEN "release" ELSE "abort"
        /\ cause' = IF reported THEN cause ELSE "launch"
  BY DEF Process!Assign
<1>2. step = "assign" /\ UNCHANGED <<platform, gate, job, failed>>
  BY DEF Process!Assign
<1>3. Process!TypeOK'
  BY <1>1, <1>2 DEF Process!TypeOK, Process!Processes
<1>4. Process!LaunchIsOrdered'
  BY <1>1, <1>2 DEF Process!TypeOK, Process!LaunchIsOrdered, Process!Alive, Process!Processes
<1>5. Process!CommandIsOwned'
  BY <1>1, <1>2 DEF Process!TypeOK, Process!CommandIsOwned, Process!Alive, Process!Processes
<1>6. Process!CleanupIsWhole' /\ Process!NothingSurvives'
  BY <1>1, <1>2 DEF Process!CleanupIsWhole, Process!NothingSurvives
<1> QED
  BY <1>3, <1>4, <1>5, <1>6

LEMMA ProcessRelease == Process!OwnedInv /\ Process!Release => Process!OwnedInv'
BY DEF Process!OwnedInv, Process!Release, Process!TypeOK, Process!LaunchIsOrdered, Process!CommandIsOwned,
  Process!CleanupIsWhole, Process!NothingSurvives, Process!Alive

LEMMA ProcessExpire == Process!OwnedInv /\ Process!Expire => Process!OwnedInv'
BY DEF Process!OwnedInv, Process!Expire, Process!TypeOK, Process!LaunchIsOrdered, Process!CommandIsOwned,
  Process!CleanupIsWhole, Process!NothingSurvives, Process!Alive

LEMMA ProcessAbort == Process!OwnedInv /\ Process!Abort => Process!OwnedInv'
<1> SUFFICES ASSUME Process!OwnedInv, Process!Abort PROVE Process!OwnedInv'
  OBVIOUS
<1> USE DEF Process!OwnedInv
<1>1. PICK shut \in BOOLEAN, killed \in BOOLEAN :
        /\ gate' = IF shut /\ gate = "shut" THEN "closed" ELSE gate
        /\ proc' = IF killed /\ ~inJob THEN Process!Killed({"direct"}) ELSE proc
        /\ failed' = (~shut \/ (~inJob /\ ~killed))
  BY DEF Process!Abort
<1>2. step = "abort" /\ step' = "terminate" /\ UNCHANGED <<platform, job, inJob, cause>>
  BY DEF Process!Abort
<1>3. /\ proc' \in [Process!Processes -> [state : {"absent", "alive", "dead"},
                                             owned : BOOLEAN, output : BOOLEAN]]
      /\ \A p \in Process!Processes :
              /\ Process!Alive(p)' => Process!Alive(p)
              /\ proc'[p].owned = proc[p].owned
              /\ proc[p] = Process!Absent => proc'[p] = Process!Absent
      /\ killed /\ ~inJob => ~Process!Alive("direct")'
  <2>1. CASE killed /\ ~inJob
    BY <1>1, <2>1, KilledProcesses DEF Process!Processes
  <2>2. CASE ~(killed /\ ~inJob)
    BY <1>1, <2>2 DEF Process!TypeOK, Process!Alive
  <2> QED
    BY <2>1, <2>2
<1>4. Process!TypeOK'
  BY <1>1, <1>2, <1>3 DEF Process!TypeOK
<1>5. Process!LaunchIsOrdered'
  BY <1>1, <1>2, <1>3 DEF Process!LaunchIsOrdered, Process!Processes
<1>6. Process!CommandIsOwned'
  BY <1>2, <1>3 DEF Process!CommandIsOwned, Process!Processes
<1>7. Process!CleanupIsWhole' /\ Process!NothingSurvives'
  BY <1>1, <1>2, <1>3 DEF Process!CleanupIsWhole, Process!NothingSurvives, Process!TypeOK
<1> QED
  BY <1>4, <1>5, <1>6, <1>7

(* A call that got all its output: on Windows the handle of the job is     *)
(* shut before it returns.                                               *)
LEMMA ProcessComplete == Process!OwnedInv /\ Process!Complete => Process!OwnedInv'
<1> SUFFICES ASSUME Process!OwnedInv, Process!Complete PROVE Process!OwnedInv'
  OBVIOUS
<1>1. step = "wait" /\ step' = "done" /\ cause' = "result" /\ UNCHANGED <<platform, gate, inJob>>
  BY DEF Process!Complete, Process!EndWith
<1>2. CASE platform = "posix"
  <2>1. UNCHANGED <<job, proc, failed>>
    BY <1>2 DEF Process!Complete
  <2> QED
    BY <1>1, <1>2, <2>1
    DEF Process!OwnedInv, Process!TypeOK, Process!LaunchIsOrdered, Process!CommandIsOwned,
        Process!CleanupIsWhole, Process!NothingSurvives, Process!Alive
<1>3. CASE platform = "nt"
  <2>1. PICK ok \in BOOLEAN : Process!ClosedJob(ok) /\ failed' = ~ok
    BY <1>3 DEF Process!Complete
  <2>2. /\ proc' \in [Process!Processes -> [state : {"absent", "alive", "dead"},
                                            owned : BOOLEAN, output : BOOLEAN]]
        /\ \A p \in Process!Processes :
             /\ Process!Alive(p)' => Process!Alive(p)
             /\ proc'[p].owned = proc[p].owned /\ proc'[p].output = proc[p].output
             /\ ok => ~Process!Owned(p)'
    <3>1. CASE ok
      <4>1. proc' = Process!Killed(Process!Tree)
        BY <2>1, <3>1 DEF Process!ClosedJob
      <4> QED
        BY <4>1, KilledProcesses DEF Process!OwnedInv, Process!Tree, Process!Owned
    <3>2. CASE ~ok
      BY <2>1, <3>2 DEF Process!ClosedJob, Process!OwnedInv, Process!TypeOK, Process!Alive
    <3> QED
      BY <3>1, <3>2
  <2>3. Process!TypeOK'
    BY <1>1, <2>1, <2>2 DEF Process!OwnedInv, Process!TypeOK, Process!ClosedJob
  <2>4. Process!LaunchIsOrdered'
    BY <1>1, <1>3, <2>2 DEF Process!OwnedInv, Process!LaunchIsOrdered, Process!Processes
  <2>5. Process!CommandIsOwned'
    BY <1>1, <2>2 DEF Process!OwnedInv, Process!CommandIsOwned, Process!Processes
  <2>6. ~failed' => \A p \in Process!Processes : Process!Alive(p)' => ~proc'[p].owned /\ ~proc'[p].output
    BY <2>1, <2>2 DEF Process!Complete, Process!Silent, Process!Owned
  <2>7. ~failed' => Process!Quiet'
    <3>1. ~Process!Alive("direct")'
      BY <2>2 DEF Process!Complete, Process!Silent, Process!Processes
    <3>2. Process!Alive("target")' => proc'["target"].owned
      BY <1>1, <1>3, <2>5 DEF Process!CommandIsOwned
    <3> QED
      BY <2>6, <3>1, <3>2 DEF Process!Quiet, Process!Owned, Process!Processes
  <2> QED
    BY <1>1, <2>3, <2>4, <2>5, <2>6, <2>7 DEF Process!OwnedInv, Process!CleanupIsWhole, Process!NothingSurvives
<1> QED
  BY <1>2, <1>3 DEF Process!OwnedInv, Process!TypeOK

(* The tree is killed whole unless a call fails, which is told.            *)
LEMMA ProcessTerminate == Process!OwnedInv /\ Process!Terminate => Process!OwnedInv'
<1> SUFFICES ASSUME Process!OwnedInv, Process!Terminate PROVE Process!OwnedInv'
  OBVIOUS
<1>1. step = "terminate" /\ step' = "drain" /\ UNCHANGED <<platform, gate, inJob, cause>>
  BY DEF Process!Terminate
<1>2. PICK ps : /\ proc' = Process!Killed(ps)
                /\ failed' \in BOOLEAN
                /\ ~failed' => ~failed /\ Process!Tree \subseteq ps
                /\ job' \in {job, "closed"}
                /\ platform = "posix" => job' = job
  <2>1. PICK killed \in BOOLEAN, shut \in BOOLEAN, direct \in BOOLEAN :
          LET tree == IF (platform = "posix" /\ killed) \/
                         (platform = "nt" /\ (killed \/ shut)) THEN Process!Tree ELSE {}
              fine == killed /\ (platform = "nt" => shut)
              child == IF ~fine /\ direct THEN {"direct"} ELSE {}
          IN  /\ proc' = Process!Killed(tree \cup child)
              /\ job' = IF platform = "nt" /\ shut THEN "closed" ELSE job
              /\ failed' = (failed \/ ~fine)
    BY DEF Process!Terminate
  <2>2. platform \in {"posix", "nt"}
    BY DEF Process!OwnedInv, Process!TypeOK
  <2> QED
    BY <2>1, <2>2
<1>3. /\ proc' \in [Process!Processes -> [state : {"absent", "alive", "dead"},
                                          owned : BOOLEAN, output : BOOLEAN]]
      /\ \A p \in Process!Processes :
           /\ Process!Alive(p)' <=> Process!Alive(p) /\ p \notin ps
           /\ proc'[p].owned = proc[p].owned
           /\ proc[p] = Process!Absent => proc'[p] = Process!Absent
  BY <1>2, KilledProcesses DEF Process!OwnedInv
<1>4. Process!TypeOK'
  BY <1>1, <1>2, <1>3 DEF Process!OwnedInv, Process!TypeOK
<1>5. Process!LaunchIsOrdered'
  BY <1>1, <1>2, <1>3 DEF Process!OwnedInv, Process!LaunchIsOrdered, Process!Processes
<1>6. Process!CommandIsOwned'
  BY <1>1, <1>3 DEF Process!OwnedInv, Process!CommandIsOwned, Process!Processes
<1>7. ~failed' => Process!Quiet'
  <2> SUFFICES ASSUME ~failed' PROVE Process!Quiet'
    OBVIOUS
  <2>1. \A p \in Process!Processes : ~Process!Owned(p)'
    BY <1>2, <1>3 DEF Process!Owned, Process!Tree
  <2>2. ~Process!Alive("target")'
    BY <1>1, <1>3, <1>6, <2>1
    DEF Process!OwnedInv, Process!TypeOK, Process!LaunchIsOrdered, Process!CommandIsOwned, Process!Owned, Process!Alive, Process!Absent, Process!Processes
  <2>3. ~Process!Alive("direct")'
    <3>1. Process!Alive("direct") => proc["direct"].owned
      BY <1>1, <1>2 DEF Process!OwnedInv, Process!TypeOK, Process!LaunchIsOrdered, Process!CleanupIsWhole
    <3> QED
      BY <1>3, <2>1, <3>1 DEF Process!Owned, Process!Processes
  <2> QED
    BY <2>1, <2>2, <2>3 DEF Process!Quiet
<1>8. Process!CleanupIsWhole' /\ Process!NothingSurvives'
  BY <1>1, <1>7 DEF Process!CleanupIsWhole, Process!NothingSurvives
<1> QED
  BY <1>4, <1>5, <1>6, <1>8 DEF Process!OwnedInv

(* Once the tree is gone, what still ends changes nothing.                 *)
LEMMA ProcessDrain == Process!OwnedInv /\ Process!Drain => Process!OwnedInv'
<1> SUFFICES ASSUME Process!OwnedInv, Process!Drain PROVE Process!OwnedInv'
  OBVIOUS
<1>1. step = "drain" /\ UNCHANGED <<platform, gate, job, inJob>>
  BY DEF Process!Drain
<1>2. CASE Process!Silent /\ Process!EndWith(cause) /\ UNCHANGED <<proc, failed>>
  BY <1>1, <1>2
  DEF Process!OwnedInv, Process!TypeOK, Process!LaunchIsOrdered, Process!CommandIsOwned, Process!Quiet, Process!Owned,
      Process!CleanupIsWhole, Process!NothingSurvives, Process!Alive, Process!EndWith, Process!Silent
<1>3. CASE \E expired, direct, broken \in BOOLEAN :
             /\ proc' = IF direct THEN Process!Killed({"direct"}) ELSE proc
             /\ failed' = (failed \/ expired \/ ~direct \/ broken)
             /\ step' = IF expired THEN "reap" ELSE "again"
             /\ UNCHANGED cause
  <2>1. PICK expired \in BOOLEAN, direct \in BOOLEAN, broken \in BOOLEAN :
             /\ proc' = IF direct THEN Process!Killed({"direct"}) ELSE proc
             /\ failed' = (failed \/ expired \/ ~direct \/ broken)
             /\ step' = IF expired THEN "reap" ELSE "again"
             /\ UNCHANGED cause
    BY <1>3
  <2>2. /\ proc' \in [Process!Processes -> [state : {"absent", "alive", "dead"},
                                            owned : BOOLEAN, output : BOOLEAN]]
        /\ \A p \in Process!Processes :
             /\ Process!Alive(p)' => Process!Alive(p)
             /\ proc'[p].owned = proc[p].owned
             /\ proc[p] = Process!Absent => proc'[p] = Process!Absent
    <3>1. CASE direct
      BY <2>1, <3>1, KilledProcesses DEF Process!OwnedInv
    <3>2. CASE ~direct
      BY <2>1, <3>2 DEF Process!OwnedInv, Process!TypeOK, Process!Alive
    <3> QED
      BY <3>1, <3>2
  <2>3. Process!TypeOK'
    BY <1>1, <2>1, <2>2 DEF Process!OwnedInv, Process!TypeOK
  <2>4. Process!LaunchIsOrdered'
    BY <1>1, <2>1, <2>2 DEF Process!OwnedInv, Process!LaunchIsOrdered, Process!Processes
  <2>5. Process!CommandIsOwned'
    BY <1>1, <2>2 DEF Process!OwnedInv, Process!CommandIsOwned, Process!Processes
  <2>6. ~failed' => Process!Quiet'
    BY <1>1, <2>1, <2>2
    DEF Process!OwnedInv, Process!TypeOK, Process!CleanupIsWhole, Process!Quiet, Process!Owned, Process!Processes
  <2>7. Process!CleanupIsWhole' /\ Process!NothingSurvives'
    BY <2>1, <2>6 DEF Process!CleanupIsWhole, Process!NothingSurvives
  <2> QED
    BY <2>3, <2>4, <2>5, <2>7 DEF Process!OwnedInv
<1> QED
  BY <1>2, <1>3 DEF Process!Drain

LEMMA ProcessAgain == Process!OwnedInv /\ Process!Again => Process!OwnedInv'
<1> SUFFICES ASSUME Process!OwnedInv, Process!Again PROVE Process!OwnedInv'
  OBVIOUS
<1>1. /\ step = "again" /\ step' \in {"done", "reap"} /\ UNCHANGED <<platform, proc, gate, job, inJob, cause>>
      /\ failed' \in BOOLEAN
      /\ step' = "reap" => failed'
      /\ step' = "done" => failed' = failed /\ Process!Silent
  BY DEF Process!OwnedInv, Process!TypeOK, Process!Again, Process!EndWith
<1>2. Process!TypeOK' /\ Process!LaunchIsOrdered' /\ Process!CommandIsOwned'
  BY <1>1 DEF Process!OwnedInv, Process!TypeOK, Process!LaunchIsOrdered, Process!CommandIsOwned, Process!Alive
<1>3. Process!CleanupIsWhole' /\ Process!NothingSurvives'
  BY <1>1 DEF Process!OwnedInv, Process!CleanupIsWhole, Process!NothingSurvives, Process!Alive, Process!Owned, Process!Quiet, Process!Silent
<1> QED
  BY <1>2, <1>3 DEF Process!OwnedInv

LEMMA ProcessReap == Process!OwnedInv /\ Process!Reap => Process!OwnedInv'
<1> SUFFICES ASSUME Process!OwnedInv, Process!Reap PROVE Process!OwnedInv'
  OBVIOUS
<1>1. step = "reap" /\ step' = "done" /\ UNCHANGED <<platform, proc, gate, job, inJob, cause>>
  BY DEF Process!Reap, Process!EndWith
<1>2. failed = TRUE
  BY <1>1 DEF Process!OwnedInv, Process!TypeOK, Process!CleanupIsWhole
<1>3. failed' = TRUE
  BY <1>2 DEF Process!Reap
<1>4. Process!TypeOK' /\ Process!LaunchIsOrdered' /\ Process!CommandIsOwned'
  BY <1>1, <1>3 DEF Process!OwnedInv, Process!TypeOK, Process!LaunchIsOrdered, Process!CommandIsOwned, Process!Alive
<1>5. Process!CleanupIsWhole' /\ Process!NothingSurvives'
  BY <1>1, <1>3 DEF Process!CleanupIsWhole, Process!NothingSurvives
<1> QED
  BY <1>4, <1>5 DEF Process!OwnedInv

(* The controller starts the command in its own job.                       *)
LEMMA ProcessControllerStarts == Process!OwnedInv /\ Process!ControllerStarts => Process!OwnedInv'
<1> SUFFICES ASSUME Process!OwnedInv, Process!ControllerStarts PROVE Process!OwnedInv'
  OBVIOUS
<1>1. /\ platform = "nt" /\ Process!Alive("direct") /\ gate = "open"
      /\ proc' = [proc EXCEPT !["target"] = proc["direct"]]
      /\ UNCHANGED <<platform, gate, job, step, inJob, failed, cause>>
  BY DEF Process!ControllerStarts, Process!World
<1>2. /\ proc'["target"] = proc["direct"]
      /\ \A p \in Process!Processes \ {"target"} : proc'[p] = proc[p]
  BY <1>1 DEF Process!OwnedInv, Process!TypeOK, Process!Processes
<1>3. Process!Alive("direct") /\ proc["direct"].owned
  BY <1>1 DEF Process!OwnedInv, Process!LaunchIsOrdered
<1>4. Process!TypeOK'
  BY <1>1 DEF Process!OwnedInv, Process!TypeOK, Process!Processes
<1>5. Process!LaunchIsOrdered'
  <2>1. proc["direct"] # Process!Absent
    BY <1>3 DEF Process!Alive, Process!Absent
  <2> QED
    BY <1>1, <1>2, <1>3, <2>1 DEF Process!OwnedInv, Process!LaunchIsOrdered, Process!Alive, Process!Processes
<1>6. Process!CommandIsOwned'
  BY <1>1, <1>2, <1>3 DEF Process!OwnedInv, Process!CommandIsOwned, Process!Alive, Process!Processes
<1>7. Process!CleanupIsWhole'
  BY <1>1, <1>3 DEF Process!OwnedInv, Process!CleanupIsWhole, Process!Quiet, Process!LaunchIsOrdered
<1>8. Process!NothingSurvives'
  BY <1>1, <1>3 DEF Process!OwnedInv, Process!CleanupIsWhole, Process!Quiet, Process!NothingSurvives
<1> QED
  BY <1>4, <1>5, <1>6, <1>7, <1>8 DEF Process!OwnedInv

(* A helper is owned with the command, or has left a POSIX group.          *)
LEMMA ProcessStartHelper == Process!OwnedInv /\ Process!StartHelper => Process!OwnedInv'
<1> SUFFICES ASSUME Process!OwnedInv, Process!StartHelper PROVE Process!OwnedInv'
  OBVIOUS
<1>1. /\ Process!Alive(Process!Command)
      /\ UNCHANGED <<platform, gate, job, step, inJob, failed, cause>>
  BY DEF Process!StartHelper, Process!World
<1>2. PICK output \in BOOLEAN, owned \in BOOLEAN :
        /\ proc' = [proc EXCEPT !["helper"] = [state |-> "alive", owned |-> owned, output |-> output]]
        /\ platform = "nt" => owned = proc["target"].owned
  <2>1. proc[Process!Command].owned \in BOOLEAN
    BY DEF Process!OwnedInv, Process!TypeOK, Process!Command, Process!Processes
  <2> QED
    BY <2>1 DEF Process!StartHelper, Process!Command
<1>3. /\ proc'["helper"] = [state |-> "alive", owned |-> owned, output |-> output]
      /\ \A p \in Process!Processes \ {"helper"} : proc'[p] = proc[p]
      /\ "direct" \in Process!Processes \ {"helper"} /\ "target" \in Process!Processes \ {"helper"}
  BY <1>2 DEF Process!OwnedInv, Process!TypeOK, Process!Processes
<1>4. ~Process!Quiet
  BY <1>1 DEF Process!Quiet, Process!Command
<1>5. Process!TypeOK'
  BY <1>1, <1>2 DEF Process!OwnedInv, Process!TypeOK, Process!Processes
<1>6. Process!LaunchIsOrdered'
  <2>1. step # "launch"
    BY <1>1 DEF Process!OwnedInv, Process!LaunchIsOrdered, Process!Command, Process!Alive, Process!Absent, Process!Processes
  <2> QED
    BY <1>1, <1>3, <2>1 DEF Process!OwnedInv, Process!LaunchIsOrdered, Process!Alive
<1>7. Process!CommandIsOwned'
  <2> SUFFICES ASSUME platform = "nt" PROVE \A p \in {"target", "helper"} : Process!Alive(p)' => proc'[p].owned
    BY <1>1 DEF Process!CommandIsOwned
  <2>1. Process!Alive("target") /\ proc["target"].owned
    BY <1>1 DEF Process!OwnedInv, Process!CommandIsOwned, Process!Command
  <2>2. proc'["helper"].owned = proc["target"].owned
    BY <1>2, <1>3
  <2> QED
    BY <1>3, <2>1, <2>2
<1>8. Process!CleanupIsWhole' /\ Process!NothingSurvives'
  BY <1>1, <1>3, <1>4 DEF Process!OwnedInv, Process!CleanupIsWhole, Process!NothingSurvives, Process!Alive
<1> QED
  BY <1>5, <1>6, <1>7, <1>8 DEF Process!OwnedInv

(* A process ends.                                                         *)
LEMMA ProcessExit ==
  ASSUME NEW p \in Process!Processes, Process!OwnedInv, Process!Exit(p)
  PROVE  Process!OwnedInv'
<1>1. proc' = Process!Killed({p}) /\ UNCHANGED <<platform, gate, job, step, inJob, failed, cause>>
  BY DEF Process!Exit, Process!World
<1>2. /\ proc' \in [Process!Processes -> [state : {"absent", "alive", "dead"},
                                          owned : BOOLEAN, output : BOOLEAN]]
      /\ \A q \in Process!Processes :
           /\ Process!Alive(q)' => Process!Alive(q)
           /\ proc'[q].owned = proc[q].owned /\ proc'[q].output = proc[q].output
           /\ proc[q] = Process!Absent => proc'[q] = Process!Absent
  BY <1>1, KilledProcesses DEF Process!OwnedInv
<1>3. Process!TypeOK' /\ Process!CommandIsOwned'
  BY <1>1, <1>2 DEF Process!OwnedInv, Process!TypeOK, Process!CommandIsOwned, Process!Processes
<1>4. Process!LaunchIsOrdered'
  BY <1>1, <1>2 DEF Process!OwnedInv, Process!LaunchIsOrdered, Process!Processes
<1>5. Process!Quiet => Process!Quiet'
  BY <1>2 DEF Process!Quiet, Process!Owned, Process!Processes
<1>6. Process!CleanupIsWhole'
  BY <1>1, <1>2, <1>5 DEF Process!OwnedInv, Process!CleanupIsWhole, Process!Processes
<1>7. Process!NothingSurvives'
  BY <1>1, <1>2 DEF Process!OwnedInv, Process!NothingSurvives
<1> QED
  BY <1>3, <1>4, <1>6, <1>7 DEF Process!OwnedInv

(* No call starts with a process.                                          *)
LEMMA ProcessInit == Process!Init => Process!OwnedInv
<1> SUFFICES ASSUME Process!Init PROVE Process!OwnedInv
  OBVIOUS
<1>1. \A p \in Process!Processes : proc[p] = Process!Absent /\ ~Process!Alive(p)
  BY DEF Process!Init, Process!Alive, Process!Absent
<1>2. Process!TypeOK
  BY DEF Process!Init, Process!TypeOK, Process!Absent
<1>3. Process!LaunchIsOrdered /\ Process!CommandIsOwned
  BY <1>1 DEF Process!Init, Process!LaunchIsOrdered, Process!CommandIsOwned, Process!Processes
<1>4. Process!CleanupIsWhole /\ Process!NothingSurvives
  BY DEF Process!Init, Process!CleanupIsWhole, Process!NothingSurvives
<1> QED
  BY <1>2, <1>3, <1>4 DEF Process!OwnedInv

LEMMA ProcessStep == Process!OwnedInv /\ [Process!Next]_(Process!vars) => Process!OwnedInv'
<1> SUFFICES ASSUME Process!OwnedInv, [Process!Next]_(Process!vars) PROVE Process!OwnedInv'
  OBVIOUS
<1>1. CASE Process!Next
  BY <1>1, ProcessLaunch, ProcessAssign, ProcessRelease, ProcessAbort, ProcessComplete, ProcessExpire,
     ProcessTerminate, ProcessDrain, ProcessAgain, ProcessReap, ProcessControllerStarts, ProcessStartHelper,
     ProcessExit
  DEF Process!Next, Process!Caller
<1>2. CASE UNCHANGED Process!vars
  BY <1>2
  DEF Process!vars, Process!OwnedInv, Process!TypeOK, Process!LaunchIsOrdered, Process!CommandIsOwned,
      Process!CleanupIsWhole, Process!NothingSurvives, Process!Quiet, Process!Alive, Process!Owned
<1> QED
  BY <1>1, <1>2

(* A bounded call, on either platform, whatever its processes do, whichever *)
(* system call fails and whenever the deadline passes: one that ends with  *)
(* no complaint leaves no process of the tree, and on Windows no command    *)
(* ever runs outside the job.                                              *)
THEOREM NoProcessSurvives == MCSpec => []NothingSurvives
<1>1. MCInit => NothingSurvives
  BY ProcessInit DEF MCInit, NothingSurvives
<1>2. NothingSurvives /\ [MCNext]_allVars => NothingSurvives'
  <2> SUFFICES ASSUME NothingSurvives, [MCNext]_allVars, machine' = "process"
               PROVE  Process!OwnedInv'
    BY DEF NothingSurvives
  <2>1. machine = "process"
    BY DEF MCNext, allVars
  <2>2. [Process!Next]_(Process!vars)
    BY <2>1 DEF MCNext, allVars, ofProcess, Process!vars
  <2> QED
    BY <2>1, <2>2, ProcessStep DEF NothingSurvives
<1> QED
  BY <1>1, <1>2, PTL DEF MCSpec

-----------------------------------------------------------------------------
(* The dashboard.                                                          *)

(* A view that is before another stays so as the ledger moves on.          *)
LEMMA ViewsAreOrdered ==
  ASSUME NEW v, NEW w, NEW x, v.revision \in Nat, w.revision \in Nat, x.revision \in Nat,
         Dash!NotAfter(w, x)
  PROVE  /\ Dash!Before(v, w) => Dash!Before(v, x)
         /\ Dash!NotAfter(v, w) => Dash!NotAfter(v, x)
BY DEF Dash!NotAfter, Dash!Before, Dash!HistoryContext

LEMMA FlagsAreFlags == \A x \in BOOLEAN : {FALSE, x} \subseteq BOOLEAN
<1> TAKE x \in BOOLEAN
<1> SUFFICES ASSUME NEW y \in {FALSE, x} PROVE y \in BOOLEAN
  OBVIOUS
<1>1. CASE y = FALSE
  BY <1>1
<1>2. CASE y = x
  BY <1>2, Zenon
<1> QED
  BY <1>1, <1>2, Zenon

LEMMA LedgerMovesOn ==
  ASSUME ledger \in Dash!Ledgers, Dash!LedgerMoves
  PROVE  ledger' \in Dash!Ledgers /\ Dash!NotAfter(Dash!Status, Dash!Status')
<1>1. \A l \in Dash!Ledgers :
        /\ Dash!Moved(l) => ledger' \in Dash!Ledgers /\ ledger' = [l EXCEPT !.moves = l.moves + 1]
        /\ l.revision \in Nat /\ l.token \in Nat /\ l.forgets \in Nat
  BY DashboardAssumption DEF Dash!Ledgers, Dash!Moved
<1>2. Dash!Status = [revision |-> ledger.revision,
                     evidence |-> [probe |-> ledger.probe, elapsed |-> ledger.elapsed]]
      /\ Dash!Status' = [revision |-> ledger'.revision,
                         evidence |-> [probe |-> ledger'.probe, elapsed |-> ledger'.elapsed]]
  BY DEF Dash!Status, Dash!Evidence
<1>3. /\ ledger'.revision > ledger.revision \/
           (ledger'.revision = ledger.revision /\ (ledger'.probe = ledger.probe \/ (ledger.probe = "fresh" /\ ledger'.probe = "stale")))
      /\ ledger' \in Dash!Ledgers
  <2>1. CASE Dash!Commit
    <3>0. ledger.elapsed \in BOOLEAN /\ ledger.probe \in {"fresh", "stale"}
      BY DEF Dash!Ledgers
    <3>1. {FALSE, ledger.elapsed} \subseteq BOOLEAN /\ {"fresh", ledger.probe} \subseteq {"fresh", "stale"}
      BY <3>0, FlagsAreFlags, Zenon
    <3>2. PICK probe \in {"fresh", "stale"}, elapsed \in BOOLEAN :
            Dash!Moved([ledger EXCEPT !.revision = @ + 1, !.token = 0, !.probe = probe, !.elapsed = elapsed])
      BY <2>1, <3>1, Zenon DEF Dash!Commit
    <3>a. ledger.revision < MaxRevision
      BY <2>1 DEF Dash!Commit
    <3> DEFINE l == [ledger EXCEPT !.revision = @ + 1, !.token = 0, !.probe = probe, !.elapsed = elapsed]
    <3>b. ledger.revision + 1 \in 0 .. MaxRevision
      BY <3>a, DashboardAssumption DEF Dash!Ledgers
    <3>c. /\ [ledger EXCEPT !.revision = @ + 1, !.token = 0, !.probe = probe] \in Dash!Ledgers
          /\ l = [[ledger EXCEPT !.revision = @ + 1, !.token = 0, !.probe = probe] EXCEPT !.elapsed = elapsed]
      BY <3>b DEF Dash!Ledgers
    <3>3. l \in Dash!Ledgers /\ l.revision = ledger.revision + 1
      BY <3>b, <3>c DEF Dash!Ledgers
    <3>4. ledger' \in Dash!Ledgers /\ ledger' = [l EXCEPT !.moves = l.moves + 1]
      BY <1>1, <3>2, <3>3
    <3>5. ledger'.revision = ledger.revision + 1
      BY <3>3, <3>4 DEF Dash!Ledgers
    <3>6. ledger'.revision > ledger.revision
      BY <1>1, <3>5
    <3> QED
      BY <3>4, <3>6
  <2>2. CASE Dash!Touch
    <3> DEFINE l == [ledger EXCEPT !.token = ledger.token + 1]
    <3>1. l \in Dash!Ledgers /\ Dash!Moved(l)
      BY <2>2, <1>1 DEF Dash!Touch, Dash!Ledgers
    <3>2. ledger' \in Dash!Ledgers /\ ledger' = [l EXCEPT !.moves = l.moves + 1]
      BY <1>1, <3>1
    <3> QED
      BY <3>2 DEF Dash!Ledgers
  <2>3. CASE Dash!Age
    <3>1. CASE ledger.probe = "fresh" /\ Dash!Moved([ledger EXCEPT !.probe = "stale"])
      <4> DEFINE l == [ledger EXCEPT !.probe = "stale"]
      <4>1. l \in Dash!Ledgers
        BY DEF Dash!Ledgers
      <4>2. ledger' \in Dash!Ledgers /\ ledger' = [l EXCEPT !.moves = l.moves + 1]
        BY <1>1, <3>1, <4>1
      <4> QED
        BY <3>1, <4>2 DEF Dash!Ledgers
    <3>2. CASE Dash!Moved([ledger EXCEPT !.elapsed = TRUE])
      <4> DEFINE l == [ledger EXCEPT !.elapsed = TRUE]
      <4>1. l \in Dash!Ledgers
        BY DEF Dash!Ledgers
      <4>2. ledger' \in Dash!Ledgers /\ ledger' = [l EXCEPT !.moves = l.moves + 1]
        BY <1>1, <3>2, <4>1
      <4> QED
        BY <4>2 DEF Dash!Ledgers
    <3> QED
      BY <2>3, <3>1, <3>2 DEF Dash!Age
  <2>4. CASE Dash!Forget
    <3> DEFINE l == [ledger EXCEPT !.forgets = ledger.forgets + 1]
    <3>1. l \in Dash!Ledgers /\ Dash!Moved(l)
      BY <2>4, <1>1 DEF Dash!Forget, Dash!Ledgers
    <3>2. ledger' \in Dash!Ledgers /\ ledger' = [l EXCEPT !.moves = l.moves + 1]
      BY <1>1, <3>1
    <3> QED
      BY <3>2 DEF Dash!Ledgers
  <2> QED
    BY <2>1, <2>2, <2>3, <2>4 DEF Dash!LedgerMoves
<1> QED
  BY <1>2, <1>3 DEF Dash!NotAfter, Dash!Before, Dash!HistoryContext

(* A refresh that an action leaves alone keeps what it holds.              *)
LEMMA OtherRefreshes ==
  ASSUME NEW s \in Slots, Dash!KeepsWhatWasAsked(s), refresh'[s] = refresh[s],
         UNCHANGED ledger,
         host'.latest = s => host'.revision = host.revision /\ host.latest = s
  PROVE  Dash!KeepsWhatWasAsked(s)'
BY DEF Dash!KeepsWhatWasAsked, Dash!Carries, Dash!AnswersTo, Dash!Status, Dash!Evidence

(* Old views remain old.                                                   *)
LEMMA DashLedgerMoves == Dash!DashboardInv /\ Dash!LedgerMoves => Dash!DashboardInv'
<1> SUFFICES ASSUME Dash!DashboardInv, Dash!LedgerMoves PROVE Dash!DashboardInv'
  OBVIOUS
<1> USE DashboardAssumption
<1>1. UNCHANGED <<host, refresh>>
  BY DEF Dash!LedgerMoves
<1>2. ledger' \in Dash!Ledgers /\ Dash!NotAfter(Dash!Status, Dash!Status')
  BY LedgerMovesOn DEF Dash!DashboardInv, Dash!TypeOK
<1>3. Dash!TypeOK'
  BY <1>1, <1>2 DEF Dash!DashboardInv, Dash!TypeOK
<1>4. Dash!RowsKeepTheirView'
  BY DEF Dash!DashboardInv, Dash!RowsKeepTheirView, Dash!LedgerMoves, Dash!Commit, Dash!Touch, Dash!Age, Dash!Forget
<1>5. Dash!Status.revision \in Nat /\ Dash!Status'.revision \in Nat
  BY <1>2 DEF Dash!DashboardInv, Dash!TypeOK, Dash!Status, Dash!Ledgers
<1>6. \A v \in Dash!Views :
        /\ Dash!Before(v, Dash!Status) => Dash!Before(v, Dash!Status')
        /\ Dash!NotAfter(v, Dash!Status) => Dash!NotAfter(v, Dash!Status')
  <2> SUFFICES ASSUME NEW v \in Dash!Views
               PROVE  /\ Dash!Before(v, Dash!Status) => Dash!Before(v, Dash!Status')
                      /\ Dash!NotAfter(v, Dash!Status) => Dash!NotAfter(v, Dash!Status')
    OBVIOUS
  <2>1. v.revision \in Nat
    BY DEF Dash!Views
  <2> QED
    BY <1>2, <1>5, <2>1, ViewsAreOrdered
<1>7. Dash!IsPast(host)'
  <2>1. ledger.revision <= ledger'.revision
    BY <1>2, <1>5 DEF Dash!NotAfter, Dash!Before, Dash!HistoryContext, Dash!Status
  <2>2. host.page.code = "ok" => host.page.history.view \in Dash!Views
    BY DEF Dash!DashboardInv, Dash!TypeOK, Dash!Hosts, Dash!Answers, Dash!Failures, Dash!Codes, Dash!HistoryScopes
  <2>3. host.history.action # None => host.history.action.scope.view \in Dash!Views
    BY DEF Dash!DashboardInv, Dash!TypeOK, Dash!Hosts, Dash!HistoryCommands, Dash!HistoryScopes
  <2>4. host.revision # None => host.revision \in Nat
    BY DEF Dash!DashboardInv, Dash!TypeOK, Dash!Hosts
  <2> QED
    BY <1>1, <1>2, <1>5, <1>6, <2>1, <2>2, <2>3, <2>4
    DEF Dash!DashboardInv, Dash!IsPast, Dash!TypeOK, Dash!Ledgers
<1>8. ASSUME NEW s \in Slots PROVE Dash!KeepsWhatWasAsked(s)'
  <2>1. refresh[s] \in {Dash!Idle} \cup Dash!Acquiring \cup Dash!Sent \cup Dash!Preparing \cup Dash!Judged
    BY DEF Dash!DashboardInv, Dash!TypeOK
  <2>2. Dash!KeepsWhatWasAsked(s)
    BY DEF Dash!DashboardInv
  <2>3. refresh[s].phase \in {"sent", "preparing", "answered"} /\ refresh[s].asked # None =>
          refresh[s].asked.scope.view \in Dash!Views
    BY <2>1 DEF Dash!Idle, Dash!Acquiring, Dash!Sent, Dash!Preparing, Dash!Judged, Dash!HistoryCommands, Dash!HistoryScopes
  <2>4. refresh[s].phase = "preparing" /\ refresh[s].plan.answer.code = "ok" =>
          refresh[s].plan.answer.view \in Dash!Views
    BY <2>1 DEF Dash!Idle, Dash!Acquiring, Dash!Sent, Dash!Preparing, Dash!Judged, Dash!Plans, Dash!Answers, Dash!Failures, Dash!Codes
  <2>5. refresh[s].phase = "answered" /\ refresh[s].answer.code = "ok" => refresh[s].answer.view \in Dash!Views
    BY <2>1 DEF Dash!Idle, Dash!Acquiring, Dash!Sent, Dash!Preparing, Dash!Judged, Dash!Answers, Dash!Failures, Dash!Codes
  <2> QED
    BY <1>1, <1>6, <2>2, <2>3, <2>4, <2>5 DEF Dash!KeepsWhatWasAsked, Dash!Carries, Dash!AnswersTo
<1> QED
  BY <1>3, <1>4, <1>7, <1>8 DEF Dash!DashboardInv

-----------------------------------------------------------------------------
(* The host changes while a refresh goes on to r; the others stay.         *)
LEMMA RefreshGoesOn ==
  ASSUME NEW s \in Slots, Dash!DashboardInv, UNCHANGED ledger,
         NEW r \in {Dash!Idle} \cup Dash!Acquiring \cup Dash!Sent \cup Dash!Preparing \cup Dash!Judged,
         refresh' = [refresh EXCEPT ![s] = r],
         host' \in Dash!Hosts, Dash!IsPast(host)', Dash!RowsKeepTheirView',
         \A q \in Slots \ {s} : host'.latest = q => host'.revision = host.revision /\ host.latest = q,
         refresh'[s] = r => Dash!KeepsWhatWasAsked(s)'
  PROVE  Dash!DashboardInv'
<1>1. refresh'[s] = r /\ \A q \in Slots \ {s} : refresh'[q] = refresh[q]
  BY DEF Dash!DashboardInv, Dash!TypeOK
<1>2. Dash!TypeOK'
  BY DEF Dash!DashboardInv, Dash!TypeOK
<1>3. \A q \in Slots \ {s} : Dash!KeepsWhatWasAsked(q)'
  BY <1>1, OtherRefreshes DEF Dash!DashboardInv
<1> QED
  BY <1>1, <1>2, <1>3 DEF Dash!DashboardInv

(* A host that forgets some of its navigation knows nothing new.           *)
LEMMA HostsForget ==
  ASSUME NEW h \in Dash!Hosts, Dash!IsPast(h)
  PROVE  /\ Dash!ResetHistory(h) \in Dash!Hosts /\ Dash!IsPast(Dash!ResetHistory(h))
         /\ Dash!ResetHistory(h).revision = h.revision /\ Dash!ResetHistory(h).latest = h.latest
         /\ Dash!ResetCharts(h) \in Dash!Hosts /\ Dash!IsPast(Dash!ResetCharts(h))
         /\ Dash!ResetCharts(h).revision = h.revision /\ Dash!ResetCharts(h).latest = h.latest
<1>1. /\ Dash!ResetHistory(h) \in Dash!Hosts
      /\ Dash!ResetHistory(h).revision = h.revision /\ Dash!ResetHistory(h).latest = h.latest
      /\ Dash!ResetHistory(h).page = h.page /\ Dash!ResetHistory(h).history.action = None
  BY DEF Dash!ResetHistory, Dash!Hosts
<1>2. /\ Dash!ResetCharts(h) \in Dash!Hosts
      /\ Dash!ResetCharts(h).revision = h.revision /\ Dash!ResetCharts(h).latest = h.latest
      /\ Dash!ResetCharts(h).page = h.page /\ Dash!ResetCharts(h).history = h.history
  BY DEF Dash!ResetCharts, Dash!Hosts, Dash!NoCharts
<1> QED
  BY <1>1, <1>2 DEF Dash!IsPast

LEMMA HostsReset ==
  ASSUME NEW h \in Dash!Hosts, Dash!IsPast(h)
  PROVE  /\ Dash!Reset(h) \in Dash!Hosts /\ Dash!IsPast(Dash!Reset(h))
         /\ Dash!Reset(h).revision = h.revision /\ Dash!Reset(h).latest = h.latest
BY HostsForget DEF Dash!Reset

LEMMA HostsAreQueried ==
  ASSUME NEW h \in Dash!Hosts, Dash!IsPast(h)
  PROVE  /\ Dash!Queried(h) \in Dash!Hosts /\ Dash!IsPast(Dash!Queried(h))
         /\ Dash!Queried(h).revision = h.revision /\ Dash!Queried(h).latest = h.latest
<1> DEFINE kept == Dash!ResetCharts(IF h.history.requested THEN h ELSE Dash!ResetHistory(h))
<1>1. /\ kept \in Dash!Hosts /\ Dash!IsPast(kept)
      /\ kept.revision = h.revision /\ kept.latest = h.latest
  <2>1. CASE h.history.requested
    BY <2>1, HostsForget
  <2>2. CASE ~h.history.requested
    BY <2>2, HostsForget
  <2> QED
    BY <2>1, <2>2
<1> DEFINE chosen == Dash!Select(h, h.selection)
<1>2. /\ chosen \in Dash!Hosts /\ Dash!IsPast(chosen)
      /\ chosen.revision = h.revision /\ chosen.latest = h.latest
  <2>1. CASE h.selection = h.identity
    BY <2>1 DEF Dash!Select
  <2>2. CASE h.selection # h.identity
    <3>1. chosen = [kept EXCEPT !.identity = h.selection]
      BY <2>2 DEF Dash!Select
    <3>2. h.selection \in Selections
      BY DEF Dash!Hosts
    <3> HIDE DEF kept
    <3>3. /\ chosen \in Dash!Hosts /\ chosen.revision = kept.revision /\ chosen.latest = kept.latest
          /\ chosen.page = kept.page /\ chosen.history = kept.history
      BY <1>1, <3>1, <3>2 DEF Dash!Hosts
    <3> QED
      BY <1>1, <3>3 DEF Dash!IsPast
  <2> QED
    BY <2>1, <2>2
<1> HIDE DEF chosen
<1> QED
  BY <1>2, HostsReset DEF Dash!Queried, chosen

-----------------------------------------------------------------------------
(* What starts a refresh.                                                  *)
LEMMA RefreshStarts ==
  ASSUME NEW h \in Dash!Hosts, Dash!IsPast(h), h.revision = host.revision, Dash!DashboardInv,
         NEW loading \in BOOLEAN, NEW loud \in BOOLEAN, NEW polled \in BOOLEAN,
         Dash!Start(h, loading, loud, polled)
  PROVE  Dash!DashboardInv' /\ host'.revision = host.revision
<1> DEFINE r == [phase |-> "acquiring", loud |-> loud, polled |-> polled]
<1> DEFINE page == IF loading THEN Dash!Failure("loading") ELSE h.page
<1>1. PICK s \in Slots : /\ host' = [h EXCEPT !.latest = s, !.page = page]
                         /\ refresh' = [refresh EXCEPT ![s] = r]
  BY DEF Dash!Start, Dash!Free
<1>2. UNCHANGED <<ledger, reports>>
  BY DEF Dash!Start, Dash!server
<1>3. page \in Dash!Answers \cup Dash!Failures /\ (page.code = "ok" => page = h.page)
  BY DEF Dash!Hosts, Dash!Failure, Dash!Failures, Dash!Codes
<1>4. r \in Dash!Acquiring
  BY DEF Dash!Acquiring
<1> HIDE DEF page
<1>5. /\ host' \in Dash!Hosts /\ host'.latest = s /\ host'.revision = h.revision
      /\ host'.page = page /\ host'.history = h.history
  BY <1>1, <1>3 DEF Dash!Hosts
<1>6. Dash!IsPast(host)'
  BY <1>2, <1>3, <1>5 DEF Dash!IsPast, Dash!Status, Dash!Evidence
<1>7. Dash!RowsKeepTheirView'
  BY <1>2 DEF Dash!DashboardInv, Dash!RowsKeepTheirView
<1>8. refresh'[s] = r => Dash!KeepsWhatWasAsked(s)'
  BY DEF Dash!KeepsWhatWasAsked
<1> HIDE DEF r
<1>9. Dash!DashboardInv'
  BY <1>1, <1>2, <1>4, <1>5, <1>6, <1>7, <1>8, RefreshGoesOn
<1> QED
  BY <1>5, <1>9

LEMMA ClickedHost ==
  Dash!DashboardInv =>
    /\ Dash!Clicked \in Dash!Hosts /\ Dash!IsPast(Dash!Clicked) /\ host \in Dash!Hosts
    /\ Dash!Clicked = [host EXCEPT !.clicks = host.clicks + 1]
    /\ Dash!Clicked.revision = host.revision /\ Dash!Clicked.page = host.page
    /\ Dash!Clicked.latest = host.latest /\ Dash!Clicked.history = host.history
BY DEF Dash!Clicked, Dash!Hosts, Dash!DashboardInv, Dash!TypeOK, Dash!IsPast

(* A change of the panel alone.                                            *)
LEMMA HostChanges ==
  ASSUME Dash!DashboardInv, UNCHANGED <<ledger, reports, refresh>>, host' \in Dash!Hosts,
         Dash!IsPast(host'), host'.revision = host.revision, host'.latest = host.latest
  PROVE  Dash!DashboardInv'
<1>1. Dash!TypeOK' /\ Dash!RowsKeepTheirView'
  BY DEF Dash!DashboardInv, Dash!TypeOK, Dash!RowsKeepTheirView
<1>2. \A s \in Slots : Dash!KeepsWhatWasAsked(s)'
  BY OtherRefreshes DEF Dash!DashboardInv
<1>3. Dash!IsPast(host)'
  BY DEF Dash!IsPast, Dash!Status, Dash!Evidence
<1> QED
  BY <1>1, <1>2, <1>3 DEF Dash!DashboardInv

LEMMA DashOpen == Dash!DashboardInv /\ Dash!Open => Dash!DashboardInv' /\ host'.revision = host.revision
<1> SUFFICES ASSUME Dash!DashboardInv, Dash!Open PROVE Dash!DashboardInv' /\ host'.revision = host.revision
  OBVIOUS
<1>1. CASE host.open
  BY <1>1, ClickedHost, RefreshStarts DEF Dash!Open
<1>2. CASE ~host.open
  <2> DEFINE bare == Dash!Reset(Dash!Clicked)
  <2>1. bare \in Dash!Hosts /\ Dash!IsPast(bare) /\ bare.revision = host.revision
    BY ClickedHost, HostsReset
  <2>2. bare.history.action = None
    BY ClickedHost DEF Dash!Reset, Dash!ResetHistory, Dash!ResetCharts, Dash!Hosts
  <2> DEFINE once == [bare EXCEPT !.history.requested = FALSE]
  <2> DEFINE h == [once EXCEPT !.open = TRUE]
  <2> HIDE DEF bare
  <2>a. /\ once \in Dash!Hosts /\ once.revision = bare.revision /\ once.page = bare.page
        /\ once.history.action = bare.history.action
    <3>1. [bare.history EXCEPT !.requested = FALSE] \in
             [nav : {None} \cup Dash!HistoryScopes, action : {None} \cup Dash!HistoryCommands,
              requested : BOOLEAN]
      BY <2>1 DEF Dash!Hosts
    <3>2. once = [bare EXCEPT !.history = [bare.history EXCEPT !.requested = FALSE]]
      BY <2>1 DEF Dash!Hosts
    <3>3. [bare.history EXCEPT !.requested = FALSE].action = bare.history.action
      BY <2>1 DEF Dash!Hosts
    <3> DEFINE history == [bare.history EXCEPT !.requested = FALSE]
    <3> HIDE DEF history
    <3> QED
      BY <2>1, <3>1, <3>2, <3>3 DEF Dash!Hosts, history
  <2> HIDE DEF once
  <2>3. /\ h \in Dash!Hosts /\ h.revision = bare.revision /\ h.page = bare.page
        /\ h.history.action = bare.history.action
    BY <2>a DEF Dash!Hosts
  <2>4. Dash!IsPast(h)
    BY <2>1, <2>2, <2>3 DEF Dash!IsPast
  <2>5. Dash!Start(h, TRUE, TRUE, FALSE)
    BY <1>2 DEF Dash!Open, Dash!Forgotten, bare, once
  <2> HIDE DEF h
  <2> QED
    BY <2>1, <2>3, <2>4, <2>5, RefreshStarts
<1> QED
  BY <1>1, <1>2

LEMMA DashClose == Dash!DashboardInv /\ Dash!Close => Dash!DashboardInv' /\ host'.revision = host.revision
<1> SUFFICES ASSUME Dash!DashboardInv, Dash!Close PROVE Dash!DashboardInv' /\ host'.revision = host.revision
  OBVIOUS
<1>1. /\ host' = [Dash!Clicked EXCEPT !.open = FALSE, !.page = Dash!Failure("closed"), !.fingerprint = None]
      /\ UNCHANGED <<ledger, reports, refresh>>
  BY DEF Dash!Close
<1>2. Dash!Failure("closed") \in Dash!Failures /\ Dash!Failure("closed").code = "closed"
  BY DEF Dash!Failure, Dash!Failures, Dash!Codes
<1> DEFINE c == Dash!Clicked
<1>3. c \in Dash!Hosts /\ c.revision = host.revision /\ c.latest = host.latest /\ Dash!IsPast(c)
  BY ClickedHost
<1>3a. host' = [c EXCEPT !.open = FALSE, !.page = Dash!Failure("closed"), !.fingerprint = None]
  BY <1>1
<1> HIDE DEF c
<1>4. /\ host' \in Dash!Hosts /\ host'.revision = host.revision /\ host'.latest = host.latest
      /\ host'.page = Dash!Failure("closed") /\ host'.history = c.history
  BY <1>3, <1>3a, <1>2 DEF Dash!Hosts
<1>5. Dash!IsPast(host')
  BY <1>2, <1>3, <1>4 DEF Dash!IsPast
<1> QED
  BY <1>1, <1>4, <1>5, HostChanges

LEMMA DashReload == Dash!DashboardInv /\ Dash!Reload => Dash!DashboardInv' /\ host'.revision = host.revision
BY ClickedHost, HostsReset, RefreshStarts DEF Dash!Reload

LEMMA DashChooseSelection == Dash!DashboardInv /\ Dash!ChooseSelection => Dash!DashboardInv' /\ host'.revision = host.revision
<1> SUFFICES ASSUME Dash!DashboardInv, NEW selection \in Selections,
                    Dash!Start([Dash!Clicked EXCEPT !.selection = selection], TRUE, TRUE, FALSE)
             PROVE  Dash!DashboardInv' /\ host'.revision = host.revision
  BY DEF Dash!ChooseSelection
<1> DEFINE h == [Dash!Clicked EXCEPT !.selection = selection]
<1>1. /\ h \in Dash!Hosts /\ h.revision = host.revision /\ h.page = Dash!Clicked.page
      /\ h.history = Dash!Clicked.history
  BY ClickedHost DEF Dash!Hosts
<1>2. Dash!IsPast(h)
  BY <1>1, ClickedHost DEF Dash!IsPast
<1> HIDE DEF h
<1>3. Dash!Start(h, TRUE, TRUE, FALSE)
  BY DEF h
<1> QED
  BY <1>1, <1>2, <1>3, RefreshStarts

LEMMA DashClickChart == Dash!DashboardInv /\ Dash!ClickChart => Dash!DashboardInv' /\ host'.revision = host.revision
<1> SUFFICES ASSUME Dash!DashboardInv, Dash!PageShown, NEW chart \in Charts,
                    Dash!Start([Dash!Clicked EXCEPT !.charts.action =
                                  [scope |-> host.page.chart, state |-> chart]], FALSE, FALSE, FALSE)
             PROVE  Dash!DashboardInv' /\ host'.revision = host.revision
  BY DEF Dash!ClickChart
<1> DEFINE command == [scope |-> host.page.chart, state |-> chart]
<1>1. command \in Dash!ChartCommands
  <2>1. host.page \in Dash!Answers
    BY ClickedHost DEF Dash!PageShown, Dash!Hosts, Dash!Failures, Dash!Codes
  <2> QED
    BY <2>1 DEF Dash!ChartCommands, Dash!Answers
<1> DEFINE h == [Dash!Clicked EXCEPT !.charts.action = command]
<1> HIDE DEF command
<1>2. /\ h \in Dash!Hosts /\ h.revision = host.revision /\ h.page = Dash!Clicked.page
      /\ h.history = Dash!Clicked.history
  BY <1>1, ClickedHost DEF Dash!Hosts
<1>3. Dash!IsPast(h)
  BY <1>2, ClickedHost DEF Dash!IsPast
<1> HIDE DEF h
<1>4. Dash!Start(h, FALSE, FALSE, FALSE)
  BY DEF h, command
<1> QED
  BY <1>2, <1>3, <1>4, RefreshStarts

LEMMA DashClickHistory == Dash!DashboardInv /\ Dash!ClickHistory => Dash!DashboardInv' /\ host'.revision = host.revision
<1> SUFFICES ASSUME Dash!DashboardInv, Dash!PageShown, NEW page \in Pages,
                    Dash!Start([Dash!Clicked EXCEPT !.history.requested = TRUE, !.history.action =
                                  [scope |-> host.page.history, state |-> page]], FALSE, TRUE, FALSE)
             PROVE  Dash!DashboardInv' /\ host'.revision = host.revision
  <2>1. Dash!FirstHistory \in Pages
    BY DashboardAssumption DEF Dash!FirstHistory
  <2>2. \A b : (IF b THEN {Dash!FirstHistory} ELSE Pages) \subseteq Pages
    BY <2>1
  <2> QED
    BY <2>2, Zenon DEF Dash!ClickHistory
<1> DEFINE command == [scope |-> host.page.history, state |-> page]
<1>1. command \in Dash!HistoryCommands /\ command.scope = host.page.history
  <2>1. host.page \in Dash!Answers
    BY ClickedHost DEF Dash!PageShown, Dash!Hosts, Dash!Failures, Dash!Codes
  <2> QED
    BY <2>1 DEF Dash!HistoryCommands, Dash!Answers
<1>2. Dash!NotAfter(command.scope.view, Dash!Status)
  BY <1>1 DEF Dash!DashboardInv, Dash!IsPast, Dash!PageShown
<1> DEFINE h == [Dash!Clicked EXCEPT !.history.requested = TRUE, !.history.action = command]
<1> HIDE DEF command
<1>3. /\ h \in Dash!Hosts /\ h.revision = host.revision /\ h.page = Dash!Clicked.page
      /\ h.history.action = command /\ h.history.requested
  BY <1>1, ClickedHost DEF Dash!Hosts
<1>4. Dash!IsPast(h)
  BY <1>2, <1>3, ClickedHost DEF Dash!IsPast
<1> HIDE DEF h
<1>5. Dash!Start(h, FALSE, TRUE, FALSE)
  BY DEF h, command
<1> QED
  BY <1>3, <1>4, <1>5, RefreshStarts

LEMMA DashPoll == Dash!DashboardInv /\ Dash!Poll => Dash!DashboardInv' /\ host'.revision = host.revision
<1> SUFFICES ASSUME Dash!DashboardInv, Dash!Poll PROVE Dash!DashboardInv' /\ host'.revision = host.revision
  OBVIOUS
<1> DEFINE h == [host EXCEPT !.status = Dash!Status]
<1>1. Dash!Status \in [revision : 0 .. MaxRevision, evidence : Dash!Evidences]
  BY DEF Dash!DashboardInv, Dash!TypeOK, Dash!Ledgers, Dash!Status, Dash!Evidence, Dash!Evidences
<1>2. /\ h \in Dash!Hosts /\ h.revision = host.revision /\ h.page = host.page
      /\ h.history = host.history /\ h.latest = host.latest
  BY <1>1, ClickedHost DEF Dash!Hosts
<1>3. Dash!IsPast(h)
  BY <1>2 DEF Dash!DashboardInv, Dash!IsPast
<1> HIDE DEF h
<1>4. \/ Dash!Start(h, FALSE, FALSE, TRUE)
      \/ host' = h /\ UNCHANGED <<ledger, reports, refresh>>
  BY DEF Dash!Poll, h
<1> QED
  BY <1>2, <1>3, <1>4, RefreshStarts, HostChanges

-----------------------------------------------------------------------------
(* How a refresh goes on.                                                  *)
LEMMA TypedRefresh ==
  ASSUME NEW s \in Slots, Dash!DashboardInv
  PROVE  /\ refresh[s].phase = "acquiring" => refresh[s] \in Dash!Acquiring
         /\ refresh[s].phase = "sent" => refresh[s] \in Dash!Sent
         /\ refresh[s].phase = "preparing" => refresh[s] \in Dash!Preparing
         /\ refresh[s].phase = "answered" => refresh[s] \in Dash!Judged
         /\ Dash!KeepsWhatWasAsked(s)
         /\ ledger \in Dash!Ledgers /\ host \in Dash!Hosts /\ Dash!IsPast(host)
BY DEF Dash!DashboardInv, Dash!TypeOK, Dash!Idle, Dash!Acquiring, Dash!Sent, Dash!Preparing, Dash!Judged

(* The host and the rows stay while a refresh goes on.                     *)
LEMMA RefreshAlone ==
  ASSUME NEW s \in Slots, Dash!DashboardInv, UNCHANGED <<ledger, host>>, Dash!RowsKeepTheirView',
         NEW r \in {Dash!Idle} \cup Dash!Acquiring \cup Dash!Sent \cup Dash!Preparing \cup Dash!Judged,
         refresh' = [refresh EXCEPT ![s] = r],
         refresh'[s] = r => Dash!KeepsWhatWasAsked(s)'
  PROVE  Dash!DashboardInv'
<1>1. Dash!IsPast(host)' /\ host' \in Dash!Hosts
  BY DEF Dash!DashboardInv, Dash!TypeOK, Dash!IsPast, Dash!Status, Dash!Evidence
<1> QED
  BY <1>1, RefreshGoesOn

LEMMA DashSend == ASSUME NEW s \in Slots, Dash!DashboardInv, Dash!Send(s) PROVE Dash!DashboardInv'
<1>1. /\ UNCHANGED <<ledger, reports>> /\ Dash!RowsKeepTheirView'
      /\ refresh[s] \in Dash!Acquiring
  BY TypedRefresh DEF Dash!Send, Dash!server, Dash!DashboardInv, Dash!RowsKeepTheirView
<1>2. CASE Dash!Current(s)
  <2> DEFINE h == Dash!Queried(host)
             r == [phase |-> "sent", loud |-> refresh[s].loud, polled |-> refresh[s].polled,
                   query |-> Dash!Query(h), asked |-> h.history.action, recovered |-> {}]
  <2>1. host' = h /\ refresh' = [refresh EXCEPT ![s] = r]
    BY <1>2 DEF Dash!Send
  <2>2. h \in Dash!Hosts /\ Dash!IsPast(h) /\ h.revision = host.revision /\ h.latest = host.latest
    BY HostsAreQueried DEF Dash!DashboardInv, Dash!TypeOK
  <2> HIDE DEF h
  <2>3. Dash!Query(h) \in Dash!Queries
    BY <2>2 DEF Dash!Query, Dash!Queries, Dash!Hosts
  <2>4. r \in Dash!Sent
    BY <1>1, <2>2, <2>3 DEF Dash!Sent, Dash!Acquiring, Dash!Hosts
  <2>5. refresh'[s] = r => Dash!KeepsWhatWasAsked(s)'
    <3> SUFFICES ASSUME refresh'[s] = r PROVE Dash!KeepsWhatWasAsked(s)'
      OBVIOUS
    <3>1. Dash!Status' = Dash!Status
      BY <1>1 DEF Dash!Status, Dash!Evidence
    <3>2. r.asked # None => r.query.history = "requested" /\ Dash!NotAfter(r.asked.scope.view, Dash!Status)
      BY <2>2 DEF Dash!IsPast, Dash!Query
    <3>3. r.query.allowance = r.asked
      BY DEF Dash!Query
    <3>4. Dash!Carries(refresh[s])'
      BY <3>1, <3>2, <3>3 DEF Dash!Carries
    <3>5. refresh'[s].phase = "sent"
      OBVIOUS
    <3> QED
      BY <3>4, <3>5 DEF Dash!KeepsWhatWasAsked
  <2>6. Dash!IsPast(host)'
    BY <1>1, <2>1, <2>2 DEF Dash!IsPast, Dash!Status, Dash!Evidence
  <2> HIDE DEF r
  <2> QED
    BY <1>1, <2>1, <2>2, <2>4, <2>5, <2>6, RefreshGoesOn
<1>3. CASE ~Dash!Current(s)
  <2>1. UNCHANGED host /\ refresh' = [refresh EXCEPT ![s] = Dash!Idle]
    BY <1>3 DEF Dash!Send
  <2>2. refresh'[s] = Dash!Idle => Dash!KeepsWhatWasAsked(s)'
    BY DEF Dash!KeepsWhatWasAsked, Dash!Idle
  <2> QED
    BY <1>1, <2>1, <2>2, RefreshAlone
<1> QED
  BY <1>2, <1>3

(* What the server works out from a snapshot.                              *)
LEMMA PlansAreTyped ==
  ASSUME NEW q \in Dash!Queries, NEW snapshot, snapshot.ledger \in Dash!Ledgers
  PROVE  /\ Dash!View(snapshot, q) \in Dash!Views
         /\ Dash!Answer(snapshot, q) \in Dash!Answers
         /\ Dash!Plan(snapshot, q) \in Dash!Plans
         /\ Dash!Plan(snapshot, q).view = Dash!View(snapshot, q)
         /\ Dash!Plan(snapshot, q).answer.code = "ok" =>
              Dash!Plan(snapshot, q).answer = Dash!Answer(snapshot, q)
<1>1. Dash!View(snapshot, q) \in Dash!Views
  BY DEF Dash!View, Dash!Views, Dash!Evidence, Dash!Evidences, Dash!Ledgers, Dash!Queries
<1>2. Dash!Chart(q) \in Charts
  BY DashboardAssumption DEF Dash!Chart, Dash!FirstChart, Dash!Queries, Dash!ChartCommands
<1>3. Dash!ShownHistory(q) \in Pages \cup {"invitation"}
  BY DashboardAssumption DEF Dash!ShownHistory, Dash!FirstHistory, Dash!Queries, Dash!HistoryCommands
<1>4. Dash!HistoryNav(snapshot, q) \in Dash!HistoryScopes
  BY <1>1, <1>3 DEF Dash!HistoryNav, Dash!HistoryScopes, Dash!HistoryScope, Dash!Invitation
<1>5. Dash!ChartScope(Dash!View(snapshot, q), Dash!Chart(q)) \in Dash!ChartScopes
  BY <1>1, <1>2 DEF Dash!ChartScope, Dash!ChartScopes
<1>6. Dash!Deferred(q) \in BOOLEAN
  BY DEF Dash!Deferred
<1>7. Dash!Answer(snapshot, q) \in Dash!Answers
  BY <1>1, <1>4, <1>5, <1>6 DEF Dash!Answer, Dash!Answers
<1>8. Dash!Transactions(snapshot, q) \in Seq({"allowance", "base", "account"})
  <2> DEFINE todo == {"allowance", "base", "account"}
  <2>1. <<>> \in Seq(todo) /\ <<"allowance">> \in Seq(todo) /\ <<"base">> \in Seq(todo) /\ <<"account">> \in Seq(todo)
    OBVIOUS
  <2>2. \A x, y \in Seq(todo) : x \o y \in Seq(todo)
    OBVIOUS
  <2> HIDE DEF todo
  <2>3. Dash!Transactions(snapshot, q) \in Seq(todo)
    BY <2>1, <2>2 DEF Dash!Transactions
  <2> QED
    BY <2>3 DEF todo
<1>9. snapshot.ledger.token \in Nat /\ Dash!Mode(q) \in {"deferred", "eager"} /\ (~Dash!FragmentHit(snapshot, q)) \in BOOLEAN
  BY DEF Dash!Ledgers, Dash!Mode, Dash!FragmentHit
<1>10. /\ Dash!Failure("unavailable") \in [code : {"unavailable"}]
       /\ Dash!Failure("unavailable").code # "ok"
  BY DEF Dash!Failure
<1> QED
  BY <1>1, <1>7, <1>8, <1>9, <1>10 DEF Dash!Plan, Dash!Plans

(* The verdict and the answer, of what a refresh carries.                  *)
LEMMA Verdicts ==
  ASSUME Dash!DashboardInv, NEW s \in Slots, refresh[s] \in Dash!Sent, NEW snapshot,
         snapshot = [ledger |-> ledger, rows |-> reports]
  PROVE  LET q == refresh[s].query
             verdict == Dash!Verdict(snapshot, q)
         IN /\ verdict = "ok" => Dash!AnswersTo(s, Dash!Answer(snapshot, q))
            /\ verdict = "allowance_scope_expired" /\ refresh[s].asked # None =>
                 Dash!Before(refresh[s].asked.scope.view, Dash!Status)
            /\ verdict # "ok" => verdict \in Dash!Codes
<1> DEFINE q == refresh[s].query
<1> DEFINE a == Dash!Answer(snapshot, q)
<1>1. snapshot.ledger = ledger /\ snapshot.rows = reports /\ q \in Dash!Queries
  BY DEF Dash!Sent
<1>2. Dash!Carries(refresh[s])
  BY TypedRefresh DEF Dash!KeepsWhatWasAsked, Dash!Sent
<1>3. /\ Dash!View(snapshot, q).revision = Dash!Status.revision
      /\ Dash!View(snapshot, q).evidence = Dash!Status.evidence
      /\ Dash!HistoryContext(Dash!View(snapshot, q)) = Dash!HistoryContext(Dash!Status)
      /\ Dash!NotAfter(Dash!View(snapshot, q), Dash!Status)
  BY <1>1 DEF Dash!View, Dash!Status, Dash!HistoryContext, Dash!NotAfter
<1>4. /\ a.view = Dash!View(snapshot, q) /\ a.chart.view = a.view /\ a.history.view = a.view
      /\ a.chart.state = Dash!Chart(q)
      /\ a.history.state = IF Dash!Deferred(q) THEN "invitation" ELSE Dash!ShownHistory(q)
  BY DEF Dash!Answer, Dash!ChartScope, Dash!HistoryNav, Dash!HistoryScope, Dash!Invitation
<1>5. ASSUME Dash!Verdict(snapshot, q) = "ok" PROVE Dash!AnswersTo(s, a)
  <2>1. ASSUME q.chart # None PROVE a.view = q.chart.scope.view /\ a.chart.state = q.chart.state
    <3>1. Dash!NavRow(Dash!View(snapshot, q), q.chart.scope) \in reports
      BY <1>1, <1>5, <2>1 DEF Dash!Verdict, Dash!ChartInScope
    <3>2. q.chart.scope.view = Dash!View(snapshot, q)
      BY <3>1 DEF Dash!DashboardInv, Dash!RowsKeepTheirView, Dash!NavRow
    <3> QED
      BY <1>4, <2>1, <3>2 DEF Dash!Chart
  <2>2. ASSUME refresh[s].asked # None,
               Dash!HistoryContext(refresh[s].asked.scope.view) = Dash!HistoryContext(a.view)
        PROVE  a.history.state = refresh[s].asked.state
    <3>1. ~Dash!Before(refresh[s].asked.scope.view, Dash!Status)
      BY <1>3, <1>4, <2>2 DEF Dash!Before, Dash!HistoryContext, Dash!Status, Dash!Ledgers, Dash!DashboardInv, Dash!TypeOK
    <3>2. q.allowance = refresh[s].asked /\ q.allowance # None
      BY <1>2, <2>2, <3>1 DEF Dash!Carries
    <3> QED
      BY <1>4, <3>2 DEF Dash!Deferred, Dash!ShownHistory
  <2>3. host.revision # None => a.view.revision >= host.revision
    BY <1>3, <1>4 DEF Dash!DashboardInv, Dash!IsPast, Dash!Status, Dash!TypeOK, Dash!Ledgers, Dash!Hosts
  <2> QED
    BY <1>3, <1>4, <2>1, <2>2, <2>3 DEF Dash!AnswersTo
<1>6. ASSUME Dash!Verdict(snapshot, q) = "allowance_scope_expired", refresh[s].asked # None
      PROVE  Dash!Before(refresh[s].asked.scope.view, Dash!Status)
  <2>1. q.allowance # None /\ ~Dash!HistoryInScope(snapshot, q)
    BY <1>6 DEF Dash!Verdict
  <2>2. CASE q.allowance = refresh[s].asked
    BY <1>2, <1>3, <1>6, <2>1, <2>2 DEF Dash!Carries, Dash!HistoryInScope, Dash!NotAfter
  <2> QED
    BY <1>2, <1>6, <2>2 DEF Dash!Carries
<1>7. Dash!Verdict(snapshot, q) # "ok" => Dash!Verdict(snapshot, q) \in Dash!Codes
  BY DEF Dash!Verdict, Dash!Codes
<1> QED
  BY <1>5, <1>6, <1>7

LEMMA DashPin == ASSUME NEW s \in Slots, Dash!DashboardInv, Dash!Pin(s) PROVE Dash!DashboardInv'
<1> DEFINE snapshot == [ledger |-> ledger, rows |-> reports]
           q == refresh[s].query
           verdict == Dash!Verdict(snapshot, q)
<1>1. /\ UNCHANGED <<ledger, reports, host>> /\ Dash!RowsKeepTheirView'
      /\ refresh[s] \in Dash!Sent /\ Dash!KeepsWhatWasAsked(s)
      /\ ledger \in Dash!Ledgers
  BY TypedRefresh DEF Dash!Pin, Dash!DashboardInv, Dash!RowsKeepTheirView
<1>2. q \in Dash!Queries /\ snapshot.ledger = ledger
  BY <1>1 DEF Dash!Sent
<1>3. /\ verdict = "ok" => Dash!AnswersTo(s, Dash!Answer(snapshot, q))
      /\ verdict = "allowance_scope_expired" /\ refresh[s].asked # None =>
           Dash!Before(refresh[s].asked.scope.view, Dash!Status)
      /\ verdict # "ok" => verdict \in Dash!Codes
  BY <1>1, Verdicts
<1>4. /\ Dash!Plan(snapshot, q) \in Dash!Plans
      /\ Dash!Plan(snapshot, q).view = Dash!View(snapshot, q)
      /\ Dash!Plan(snapshot, q).answer.code = "ok" =>
           Dash!Plan(snapshot, q).answer = Dash!Answer(snapshot, q)
  BY <1>1, <1>2, PlansAreTyped
<1>5. Dash!Answer(snapshot, q).view = Dash!View(snapshot, q)
  BY DEF Dash!Answer
<1>6. Dash!Status' = Dash!Status /\ Dash!Carries(refresh[s])
  BY <1>1 DEF Dash!Status, Dash!Evidence, Dash!KeepsWhatWasAsked, Dash!Sent
<1>7. CASE verdict = "ok"
  <2> DEFINE plan == Dash!Plan(snapshot, q)
             r == [phase |-> "preparing", loud |-> refresh[s].loud, polled |-> refresh[s].polled,
                   query |-> refresh[s].query, asked |-> refresh[s].asked,
                   recovered |-> refresh[s].recovered, plan |-> plan]
  <2>1. refresh' = [refresh EXCEPT ![s] = r]
    BY <1>7 DEF Dash!Pin
  <2>2. plan.answer.code = "ok" => Dash!AnswersTo(s, plan.answer) /\ plan.answer.view = plan.view
    BY <1>3, <1>4, <1>5, <1>7
  <2>3. plan \in Dash!Plans
    BY <1>4
  <2> HIDE DEF plan
  <2>4. r \in Dash!Preparing
    BY <1>1, <2>3 DEF Dash!Preparing, Dash!Sent
  <2>5. refresh'[s] = r => Dash!KeepsWhatWasAsked(s)'
    <3> SUFFICES ASSUME refresh'[s] = r PROVE Dash!KeepsWhatWasAsked(s)'
      OBVIOUS
    <3>1. Dash!Carries(refresh[s])'
      BY <1>6 DEF Dash!Carries
    <3>2. plan.answer.code = "ok" => Dash!AnswersTo(s, refresh[s].plan.answer)'
      BY <1>1, <1>6, <2>2 DEF Dash!AnswersTo
    <3> QED
      BY <2>2, <3>1, <3>2 DEF Dash!KeepsWhatWasAsked
  <2> HIDE DEF r
  <2> QED
    BY <1>1, <2>1, <2>4, <2>5, RefreshAlone
<1>8. CASE verdict # "ok"
  <2> DEFINE a == Dash!Failure(verdict)
             r == [phase |-> "answered", loud |-> refresh[s].loud, polled |-> refresh[s].polled,
                   query |-> refresh[s].query, asked |-> refresh[s].asked,
                   recovered |-> refresh[s].recovered, answer |-> a]
  <2>1. refresh' = [refresh EXCEPT ![s] = r]
    BY <1>8 DEF Dash!Pin, Dash!Answered
  <2>2. a \in Dash!Failures /\ a.code = verdict
    BY <1>3, <1>8 DEF Dash!Failure, Dash!Failures
  <2> HIDE DEF a
  <2>3. r \in Dash!Judged
    BY <1>1, <2>2 DEF Dash!Judged, Dash!Sent
  <2>4. refresh'[s] = r => Dash!KeepsWhatWasAsked(s)'
    <3> SUFFICES ASSUME refresh'[s] = r PROVE Dash!KeepsWhatWasAsked(s)'
      OBVIOUS
    <3>1. Dash!Carries(refresh[s])'
      BY <1>6 DEF Dash!Carries
    <3>2. r.answer.code # "ok" /\ (r.answer.code = "allowance_scope_expired" /\ r.asked # None =>
             Dash!Before(r.asked.scope.view, Dash!Status'))
      BY <1>3, <1>6, <1>8, <2>2
    <3> HIDE DEF verdict
    <3> QED
      BY <3>1, <3>2 DEF Dash!KeepsWhatWasAsked
  <2> HIDE DEF r, verdict
  <2> QED
    BY <1>1, <2>1, <2>3, <2>4, RefreshAlone
<1> QED
  BY <1>7, <1>8

LEMMA DashPrepare == ASSUME NEW s \in Slots, Dash!DashboardInv, Dash!Prepare(s) PROVE Dash!DashboardInv'
<1>1. /\ UNCHANGED <<ledger, host>> /\ refresh[s] \in Dash!Preparing /\ Dash!KeepsWhatWasAsked(s)
      /\ refresh[s].plan \in Dash!Plans /\ refresh[s].plan.todo # <<>>
  BY TypedRefresh DEF Dash!Prepare, Dash!Preparing
<1>2. \A row \in reports' : row.kind = "nav" => row \in reports
  BY DEF Dash!Prepare, Dash!StoreBase, Dash!StoreAllowance, Dash!AllowanceRow, Dash!PaceRow, Dash!BaseRow, Dash!FragmentRow
<1>3. Dash!RowsKeepTheirView'
  BY <1>2 DEF Dash!DashboardInv, Dash!RowsKeepTheirView
<1> DEFINE r == [refresh[s] EXCEPT !.plan.todo = Tail(refresh[s].plan.todo)]
<1>4. Tail(refresh[s].plan.todo) \in Seq({"allowance", "base", "account"})
  BY <1>1 DEF Dash!Plans
<1>5. /\ r \in Dash!Preparing /\ r.phase = "preparing" /\ r.plan.answer = refresh[s].plan.answer
      /\ r.plan.view = refresh[s].plan.view
      /\ r.query = refresh[s].query /\ r.asked = refresh[s].asked
  BY <1>1, <1>4 DEF Dash!Preparing, Dash!Plans
<1>6. refresh' = [refresh EXCEPT ![s] = r]
  BY <1>1 DEF Dash!Prepare
<1> HIDE DEF r
<1>7. refresh'[s] = r => Dash!KeepsWhatWasAsked(s)'
  BY <1>1, <1>5 DEF Dash!KeepsWhatWasAsked, Dash!Carries, Dash!AnswersTo, Dash!Status, Dash!Evidence, Dash!Preparing
<1> QED
  BY <1>1, <1>3, <1>5, <1>6, <1>7, RefreshAlone

LEMMA DashRender == ASSUME NEW s \in Slots, Dash!DashboardInv, Dash!Render(s) PROVE Dash!DashboardInv'
<1> DEFINE plan == refresh[s].plan
<1>1. /\ UNCHANGED <<ledger, host>> /\ refresh[s] \in Dash!Preparing /\ Dash!KeepsWhatWasAsked(s)
      /\ plan \in Dash!Plans
  BY TypedRefresh DEF Dash!Render, Dash!Preparing
<1>2. plan.answer.code = "ok" => Dash!AnswersTo(s, plan.answer) /\ plan.answer.view = plan.view
  BY <1>1 DEF Dash!KeepsWhatWasAsked, Dash!Preparing
<1>3. Dash!RowsKeepTheirView'
  <2>1. reports' = IF plan.answer.code = "ok" THEN Dash!StoreCommands(plan) ELSE reports
    BY DEF Dash!Render
  <2>2. \A row \in reports' : row.kind = "nav" =>
          row \in reports \/ (plan.answer.code = "ok" /\ row = Dash!NavRow(plan.view, plan.answer.chart))
    BY <2>1 DEF Dash!StoreCommands, Dash!MetadataRow, Dash!AccountRow, Dash!IssuedRow, Dash!IssuedHistoryRow, Dash!PageRow
  <2>3. plan.answer.code = "ok" => plan.answer.chart.view = plan.view
    BY <1>2 DEF Dash!AnswersTo
  <2> QED
    BY <2>2, <2>3 DEF Dash!DashboardInv, Dash!RowsKeepTheirView, Dash!NavRow
<1> DEFINE r == [phase |-> "answered", loud |-> refresh[s].loud, polled |-> refresh[s].polled,
                 query |-> refresh[s].query, asked |-> refresh[s].asked,
                 recovered |-> refresh[s].recovered, answer |-> plan.answer]
<1>4. r \in Dash!Judged
  BY <1>1 DEF Dash!Judged, Dash!Preparing, Dash!Plans, Dash!Failures, Dash!Codes
<1>5. refresh' = [refresh EXCEPT ![s] = r]
  BY DEF Dash!Render, Dash!Answered
<1>6. plan.answer.code # "allowance_scope_expired"
  BY <1>1 DEF Dash!Plans, Dash!Answers
<1>7. refresh'[s] = r => Dash!KeepsWhatWasAsked(s)'
  BY <1>1, <1>2, <1>6 DEF Dash!KeepsWhatWasAsked, Dash!Carries, Dash!AnswersTo, Dash!Status, Dash!Evidence, Dash!Preparing
<1> HIDE DEF r
<1> QED
  BY <1>1, <1>3, <1>4, <1>5, <1>7, RefreshAlone

(* The host that shows an answer.                                          *)
LEMMA HostsAccept ==
  ASSUME NEW h \in Dash!Hosts, NEW a \in Dash!Answers
  PROVE  LET shown == Dash!Accept(h, a)
         IN /\ shown \in Dash!Hosts /\ shown.page = a /\ shown.revision = a.view.revision
            /\ shown.latest = h.latest /\ shown.history.requested = h.history.requested
            /\ shown.history.action # None =>
                 h.history.requested /\ shown.history.action.scope = a.history
<1> DEFINE fingerprint == [revision |-> a.view.revision, evidence |-> a.view.evidence]
           charts == [nav |-> a.chart, action |-> [scope |-> a.chart, state |-> a.chart.state]]
           action == IF h.history.requested /\ ~a.deferred
                     THEN [scope |-> a.history, state |-> a.history.state] ELSE None
           history == [h.history EXCEPT !.nav = a.history, !.action = action]
<1>1. /\ a.view.revision \in 0 .. MaxRevision /\ a.view.evidence \in Dash!Evidences
      /\ a.chart \in Dash!ChartScopes /\ a.chart.state \in Charts
      /\ a.history \in Dash!HistoryScopes /\ a.history.state \in Pages \cup {"invitation"}
  BY DEF Dash!Answers, Dash!Views, Dash!ChartScopes, Dash!HistoryScopes
<1>2. /\ fingerprint \in [revision : 0 .. MaxRevision, evidence : Dash!Evidences]
      /\ charts \in [nav : {None} \cup Dash!ChartScopes, action : {None} \cup Dash!ChartCommands]
      /\ action \in {None} \cup Dash!HistoryCommands
      /\ action # None => h.history.requested /\ action.scope = a.history
  BY <1>1 DEF Dash!ChartCommands, Dash!HistoryCommands
<1>3. Dash!Accept(h, a) =
        [h EXCEPT !.page = a, !.fingerprint = fingerprint, !.revision = a.view.revision,
                  !.issued = a.view.evidence, !.charts = charts, !.history = history]
  BY Zenon DEF Dash!Accept, Dash!Hosts
<1> HIDE DEF fingerprint, charts, action
<1>4. /\ history \in [nav : {None} \cup Dash!HistoryScopes, action : {None} \cup Dash!HistoryCommands,
                      requested : BOOLEAN]
      /\ history.action = action /\ history.requested = h.history.requested
  BY <1>1, <1>2 DEF Dash!Hosts
<1> HIDE DEF history
<1>5. Dash!Accept(h, a) =
        [open |-> h.open, page |-> a, fingerprint |-> fingerprint, status |-> h.status,
         selection |-> h.selection, identity |-> h.identity, revision |-> a.view.revision,
         issued |-> a.view.evidence, charts |-> charts, history |-> history,
         latest |-> h.latest, clicks |-> h.clicks]
  BY <1>3 DEF Dash!Hosts
<1>6. Dash!Accept(h, a) \in Dash!Hosts
  BY <1>1, <1>2, <1>4, <1>5 DEF Dash!Hosts
<1> QED
  BY <1>2, <1>4, <1>5, <1>6

LEMMA DashShow == ASSUME NEW s \in Slots, Dash!DashboardInv, Dash!Show(s) PROVE Dash!DashboardInv'
<1> DEFINE a == refresh[s].answer
<1>1. /\ UNCHANGED <<ledger, reports>> /\ Dash!RowsKeepTheirView' /\ Dash!AnswersTo(s, a)
      /\ host \in Dash!Hosts /\ Dash!IsPast(host) /\ a \in Dash!Answers
      /\ refresh' = [refresh EXCEPT ![s] = Dash!Idle]
  BY TypedRefresh DEF Dash!Show, Dash!server, Dash!DashboardInv, Dash!RowsKeepTheirView, Dash!KeepsWhatWasAsked,
     Dash!Judged, Dash!Failures, Dash!Codes
<1>2. refresh'[s] = Dash!Idle => Dash!KeepsWhatWasAsked(s)'
  BY DEF Dash!KeepsWhatWasAsked, Dash!Idle
<1>3. CASE Dash!Current(s)
  <2>1. host' = Dash!Accept(host, a)
    BY <1>3 DEF Dash!Show
  <2> HIDE DEF a
  <2>2. /\ host' \in Dash!Hosts /\ host'.page = a /\ host'.revision = a.view.revision
        /\ host'.latest = host.latest /\ host'.history.requested = host.history.requested
        /\ host'.history.action # None =>
             host.history.requested /\ host'.history.action.scope = a.history
    BY <1>1, <2>1, HostsAccept
  <2>3. Dash!IsPast(host)'
    <3>1. Dash!NotAfter(a.view, Dash!Status') /\ a.history.view = a.view /\ a.view.revision \in Nat
      BY <1>1 DEF Dash!AnswersTo, Dash!Status, Dash!Evidence, Dash!Answers, Dash!Views
    <3>2. a.view.revision <= ledger'.revision
      BY <3>1, <1>1 DEF Dash!NotAfter, Dash!Before, Dash!HistoryContext, Dash!Status, Dash!DashboardInv,
         Dash!TypeOK, Dash!Ledgers
    <3> QED
      BY <2>2, <3>1, <3>2 DEF Dash!IsPast
  <2>4. host.latest = s
    BY <1>3 DEF Dash!Current
  <2> QED
    BY <1>1, <1>2, <2>2, <2>3, <2>4, RefreshGoesOn
<1>4. CASE ~Dash!Current(s)
  <2>1. UNCHANGED host
    BY <1>4 DEF Dash!Show
  <2> QED
    BY <1>1, <1>2, <2>1, RefreshAlone
<1> QED
  BY <1>3, <1>4

LEMMA DashRecover == ASSUME NEW s \in Slots, Dash!DashboardInv, Dash!Recover(s) PROVE Dash!DashboardInv'
<1> DEFINE code == refresh[s].answer.code
           query == Dash!Bare(refresh[s].query, code)
           r == [phase |-> "sent", loud |-> refresh[s].loud, polled |-> refresh[s].polled,
                 query |-> query, asked |-> refresh[s].asked,
                 recovered |-> refresh[s].recovered \cup {code}]
<1>1. /\ UNCHANGED <<ledger, reports>> /\ Dash!RowsKeepTheirView'
      /\ refresh[s] \in Dash!Judged /\ Dash!KeepsWhatWasAsked(s)
      /\ host \in Dash!Hosts /\ Dash!IsPast(host)
      /\ host' = IF code = "allowance_scope_expired" THEN Dash!Reset(host) ELSE Dash!ResetCharts(host)
      /\ refresh' = [refresh EXCEPT ![s] = r] /\ code # "ok"
  BY TypedRefresh DEF Dash!Recover, Dash!server, Dash!DashboardInv, Dash!RowsKeepTheirView
<1>2. /\ host' \in Dash!Hosts /\ Dash!IsPast(host')
      /\ host'.revision = host.revision /\ host'.latest = host.latest
  BY <1>1, HostsReset, HostsForget
<1>3. /\ query \in Dash!Queries /\ query.history = refresh[s].query.history
      /\ code # "allowance_scope_expired" => query.allowance = refresh[s].query.allowance
  BY <1>1 DEF Dash!Bare, Dash!Queries, Dash!Judged
<1>4. code \in Dash!Codes
  BY <1>1 DEF Dash!Judged, Dash!Answers, Dash!Failures
<1>5. Dash!Carries(refresh[s]) /\ (code = "allowance_scope_expired" /\ refresh[s].asked # None =>
         Dash!Before(refresh[s].asked.scope.view, Dash!Status))
  BY <1>1 DEF Dash!KeepsWhatWasAsked, Dash!Judged
<1>6. Dash!Status' = Dash!Status
  BY <1>1 DEF Dash!Status, Dash!Evidence
<1> HIDE DEF query, code
<1>7. r \in Dash!Sent
  BY <1>1, <1>3, <1>4 DEF Dash!Judged, Dash!Sent
<1>8. refresh'[s] = r => Dash!KeepsWhatWasAsked(s)'
  <2> SUFFICES ASSUME refresh'[s] = r PROVE Dash!KeepsWhatWasAsked(s)'
    OBVIOUS
  <2>1. Dash!Carries(refresh[s])'
    BY <1>3, <1>5, <1>6 DEF Dash!Carries
  <2> QED
    BY <2>1 DEF Dash!KeepsWhatWasAsked
<1>9. Dash!IsPast(host)'
  BY <1>2, <1>6, <1>1 DEF Dash!IsPast
<1> HIDE DEF r
<1> QED
  BY <1>1, <1>2, <1>7, <1>8, <1>9, RefreshGoesOn

LEMMA DashFail == ASSUME NEW s \in Slots, Dash!DashboardInv, Dash!Fail(s) PROVE Dash!DashboardInv'
<1> DEFINE a == refresh[s].answer
<1>1. /\ UNCHANGED <<ledger, reports>> /\ Dash!RowsKeepTheirView'
      /\ host \in Dash!Hosts /\ Dash!IsPast(host)
      /\ a \in Dash!Answers \cup Dash!Failures /\ a.code # "ok"
      /\ refresh' = [refresh EXCEPT ![s] = Dash!Idle]
      /\ host' = host \/ host' = [host EXCEPT !.page = a]
  BY TypedRefresh DEF Dash!Fail, Dash!server, Dash!DashboardInv, Dash!RowsKeepTheirView, Dash!Judged
<1>2. refresh'[s] = Dash!Idle => Dash!KeepsWhatWasAsked(s)'
  BY DEF Dash!KeepsWhatWasAsked, Dash!Idle
<1> HIDE DEF a
<1>3. /\ host' \in Dash!Hosts /\ host'.revision = host.revision /\ host'.latest = host.latest
      /\ host'.history = host.history /\ (host'.page = host.page \/ host'.page = a)
  BY <1>1 DEF Dash!Hosts
<1>4. Dash!IsPast(host)'
  BY <1>1, <1>3 DEF Dash!IsPast, Dash!Status, Dash!Evidence
<1> QED
  BY <1>1, <1>2, <1>3, <1>4, RefreshGoesOn

(* The dashboard that shows its first page.                                *)
LEMMA DashInit == Shown => Dash!DashboardInv
<1> SUFFICES ASSUME Shown PROVE Dash!DashboardInv
  OBVIOUS
<1> DEFINE first == [ledger |-> ledger, rows |-> {}]
<1>1. Home \in Selections
  BY DashboardAssumption DEF Home
<1>2. Query \in Dash!Queries
  BY <1>1 DEF Query, Dash!Queries
<1>3. ledger \in Dash!Ledgers /\ first.ledger = ledger
  BY DashboardAssumption DEF Shown, Dash!FirstLedger, Dash!Ledgers
<1>4. Answer \in Dash!Answers /\ Answer.view \in Dash!Views
      /\ Answer = Dash!Answer(first, Query) /\ Answer.view = Dash!View(first, Query)
      /\ Answer.chart.view = Answer.view /\ Answer.history.view = Answer.view
  BY <1>2, <1>3, PlansAreTyped
  DEF Answer, Dash!Answer, Dash!ChartScope, Dash!HistoryNav, Dash!HistoryScope, Dash!Invitation
<1>5. Dash!Status \in [revision : 0 .. MaxRevision, evidence : Dash!Evidences]
  BY <1>3 DEF Dash!Ledgers, Dash!Status, Dash!Evidence, Dash!Evidences
<1>6. Blank \in Dash!Hosts /\ Blank.history.requested = FALSE
  <2>1. /\ Dash!NoCharts \in [nav : {None} \cup Dash!ChartScopes, action : {None} \cup Dash!ChartCommands]
        /\ Dash!NoHistory \in [nav : {None} \cup Dash!HistoryScopes, action : {None} \cup Dash!HistoryCommands,
                               requested : BOOLEAN]
        /\ Dash!Failure("closed") \in Dash!Failures
    BY DEF Dash!NoCharts, Dash!NoHistory, Dash!Failure, Dash!Failures, Dash!Codes
  <2>2. Dash!NoHistory.requested = FALSE
    BY DEF Dash!NoHistory
  <2> QED
    BY <1>1, <1>5, <2>1, <2>2 DEF Blank, Dash!Hosts
<1>7. /\ host \in Dash!Hosts /\ host.page = Answer /\ host.revision = Answer.view.revision
      /\ host.history.action = None
  BY <1>4, <1>6, HostsAccept DEF Shown
<1>8. Dash!TypeOK
  BY <1>3, <1>7 DEF Dash!TypeOK, Shown
<1>9. Answer.view.revision = ledger.revision /\ Dash!NotAfter(Answer.view, Dash!Status)
  BY <1>3, <1>4 DEF Dash!View, Dash!NotAfter, Dash!HistoryContext, Dash!Status
<1>10. Dash!IsPast(host)
  BY <1>3, <1>4, <1>7, <1>9 DEF Dash!IsPast, Dash!Ledgers
<1>11. Dash!RowsKeepTheirView
  BY <1>4 DEF Dash!RowsKeepTheirView, Shown, Dash!AllowanceRow, Dash!PaceRow, Dash!BaseRow, Dash!FragmentRow,
     Dash!MetadataRow, Dash!AccountRow, Dash!NavRow, Dash!IssuedRow, Dash!IssuedHistoryRow
<1>12. \A s \in Slots : Dash!KeepsWhatWasAsked(s)
  BY DEF Shown, Dash!KeepsWhatWasAsked, Dash!Idle
<1> QED
  BY <1>8, <1>10, <1>11, <1>12 DEF Dash!DashboardInv

LEMMA DashStep == Dash!DashboardInv /\ [Dash!Next]_(Dash!vars) => Dash!DashboardInv'
<1> SUFFICES ASSUME Dash!DashboardInv, [Dash!Next]_(Dash!vars) PROVE Dash!DashboardInv'
  OBVIOUS
<1>1. ASSUME NEW s \in Slots, Dash!Step(s) PROVE Dash!DashboardInv'
  BY <1>1, DashSend, DashPin, DashPrepare, DashRender, DashShow, DashRecover, DashFail DEF Dash!Step
<1>2. CASE UNCHANGED Dash!vars
  <2>1. UNCHANGED <<ledger, reports, host, refresh>>
    BY <1>2 DEF Dash!vars
  <2> QED
    BY <2>1, HostChanges DEF Dash!DashboardInv, Dash!TypeOK
<1> QED
  BY <1>1, <1>2, DashOpen, DashClose, DashReload, DashChooseSelection, DashClickChart, DashClickHistory,
     DashPoll, DashLedgerMoves
  DEF Dash!Next

(* A page never makes way for one of an older revision.                    *)
LEMMA DashMovesForward ==
  Dash!DashboardInv /\ [Dash!Next]_(Dash!vars) => Dash!MovesForward
<1> SUFFICES ASSUME Dash!DashboardInv, [Dash!Next]_(Dash!vars), host.revision # None
             PROVE  host'.revision >= host.revision
  BY DEF Dash!MovesForward
<1>1. host.revision \in Nat /\ host \in Dash!Hosts /\ Dash!IsPast(host)
  BY DEF Dash!DashboardInv, Dash!TypeOK, Dash!Hosts
<1>3. ASSUME NEW s \in Slots, Dash!Step(s) PROVE host'.revision >= host.revision
  <2>1. CASE Dash!Show(s)
    <3>1. CASE Dash!Current(s)
      <4>1. Dash!AnswersTo(s, refresh[s].answer) /\ refresh[s].answer \in Dash!Answers
        BY <2>1, TypedRefresh DEF Dash!Show, Dash!KeepsWhatWasAsked, Dash!Judged, Dash!Failures, Dash!Codes
      <4>2. host'.revision = refresh[s].answer.view.revision
        BY <1>1, <2>1, <3>1, <4>1, HostsAccept DEF Dash!Show
      <4> QED
        BY <3>1, <4>1, <4>2 DEF Dash!AnswersTo, Dash!Current
    <3>2. CASE ~Dash!Current(s)
      BY <1>1, <2>1, <3>2 DEF Dash!Show
    <3> QED
      BY <3>1, <3>2
  <2>2. CASE Dash!Send(s)
    BY <1>1, <2>2, HostsAreQueried DEF Dash!Send
  <2>3. CASE Dash!Recover(s)
    BY <1>1, <2>3, HostsReset, HostsForget DEF Dash!Recover
  <2>4. CASE Dash!Fail(s)
    BY <1>1, <2>4 DEF Dash!Fail, Dash!Hosts
  <2>5. CASE Dash!Pin(s) \/ Dash!Prepare(s) \/ Dash!Render(s)
    BY <1>1, <2>5 DEF Dash!Pin, Dash!Prepare, Dash!Render
  <2> QED
    BY <1>3, <2>1, <2>2, <2>3, <2>4, <2>5 DEF Dash!Step
<1>4. CASE UNCHANGED host
  BY <1>1, <1>4
<1> QED
  BY <1>1, <1>3, <1>4, DashOpen, DashClose, DashReload, DashChooseSelection, DashClickChart, DashClickHistory, DashPoll
  DEF Dash!Next, Dash!LedgerMoves, Dash!vars

(* The page that is shown answers what was asked.                          *)
LEMMA DashShowsWhatWasAsked ==
  ASSUME Dash!DashboardInv, NEW s \in Slots, Dash!Shows(s)
  PROVE  /\ refresh[s].query.chart # None =>
              /\ host'.page.view = refresh[s].query.chart.scope.view
              /\ host'.page.chart.state = refresh[s].query.chart.state
         /\ refresh[s].asked # None /\
            Dash!HistoryContext(refresh[s].asked.scope.view) = Dash!HistoryContext(refresh[s].answer.view) =>
              host'.page.history.state = refresh[s].asked.state
<1>1. Dash!AnswersTo(s, refresh[s].answer) /\ refresh[s].answer \in Dash!Answers /\ host \in Dash!Hosts
  BY TypedRefresh DEF Dash!Shows, Dash!Show, Dash!KeepsWhatWasAsked, Dash!Judged, Dash!Failures, Dash!Codes
<1>2. host'.page = refresh[s].answer
  BY <1>1, HostsAccept DEF Dash!Shows, Dash!Show
<1> QED
  BY <1>1, <1>2 DEF Dash!AnswersTo

(* For every set of selections, charts, history pages and overlapping      *)
(* refreshes: a page never makes way for one of an older revision, a       *)
(* chart's command is answered for the view and with the state it names,   *)
(* and the page of the history that was asked for is shown as long as the  *)
(* account it rests on has not moved.                                      *)
THEOREM WhatWasAskedIsShown == MCSpec => ShowsWhatWasAsked
<1> DEFINE Inv == machine = "dashboard" => Dash!DashboardInv
<1>1. MCInit => Inv
  BY DashInit DEF MCInit
<1>2. ASSUME [MCNext]_allVars, machine = "dashboard" PROVE [Dash!Next]_(Dash!vars)
  BY <1>2 DEF MCNext, allVars, ofDashboard, Dash!vars
<1>3. Inv /\ [MCNext]_allVars => Inv'
  <2> SUFFICES ASSUME Inv, [MCNext]_allVars, machine' = "dashboard" PROVE Dash!DashboardInv'
    OBVIOUS
  <2>1. machine = "dashboard"
    BY DEF MCNext, allVars
  <2> QED
    BY <1>2, <2>1, DashStep
<1>4. Inv /\ [MCNext]_allVars =>
        [machine = "dashboard" =>
           Dash!DashboardInv /\ Dash!MovesForward /\ Dash!KeepsScope /\ Dash!KeepsHistory]_allVars
  <2> SUFFICES ASSUME Inv, [MCNext]_allVars, machine = "dashboard"
               PROVE  Dash!DashboardInv /\ Dash!MovesForward /\ Dash!KeepsScope /\ Dash!KeepsHistory
    OBVIOUS
  <2>1. Dash!MovesForward
    BY <1>2, DashMovesForward
  <2>2. Dash!KeepsScope /\ Dash!KeepsHistory
    BY DashShowsWhatWasAsked DEF Dash!KeepsScope, Dash!KeepsHistory
  <2> QED
    BY <2>1, <2>2
<1> QED
  BY <1>1, <1>3, <1>4, PTL DEF MCSpec, ShowsWhatWasAsked

-----------------------------------------------------------------------------
(* The recovery of history.                                                *)

LEMMA SameCardinality == \A S : Recovery!Cardinality(S) = Cardinality(S)
  BY DEF Recovery!Cardinality, Cardinality

(* Ranks are numbers: there are finitely many tasks. *)
LEMMA RanksAreNumbers ==
  ASSUME NEW T \in SUBSET Tasks, NEW f
  PROVE  Cardinality({f[u] : u \in T}) \in Nat
<1> DEFINE S == {f[u] : u \in T}
           g == [u \in T |-> f[u]]
<1>1. g \in Surjection(T, S)
  BY DEF Surjection
<1>2. IsFiniteSet(T)
  BY FS_Subset, RecoveryAssumption
<1>3. IsFiniteSet(S)
  BY <1>1, <1>2, FS_Surjection
<1> QED
  BY <1>3, FS_CardinalityType

LEMMA ServedIsRanked == ASSUME NEW f PROVE Recovery!Ranked(f) \in [Tasks -> Nat]
<1> DEFINE T(t) == {v \in Tasks : 0 < f[v] /\ f[v] <= f[t]}
           r(t) == Recovery!Cardinality({f[u] : u \in T(t)})
<1>1. Recovery!Ranked(f) = [t \in Tasks |-> r(t)]
  BY DEF Recovery!Ranked
<1>2. ASSUME NEW t \in Tasks PROVE r(t) \in Nat
  <2>1. T(t) \in SUBSET Tasks
    OBVIOUS
  <2> HIDE DEF T
  <2> QED
    BY <2>1, RanksAreNumbers, SameCardinality
<1> HIDE DEF r
<1> QED
  BY <1>1, <1>2

LEMMA RowsAreRanked ==
  ASSUME NEW rows,
         \A t \in Tasks : rows[t] \in [status : Recovery!Statuses, target : Nat, offset : Nat,
                                       rank : {rows[t].rank}]
  PROVE  /\ Recovery!Compress(rows) \in [Tasks -> Recovery!Rows]
         /\ \A t \in Tasks : LET row == Recovery!Compress(rows)[t] IN
              row.status = rows[t].status /\ row.target = rows[t].target /\ row.offset = rows[t].offset
<1> DEFINE T(t) == {v \in Tasks : rows[v].rank < rows[t].rank}
           g == [u \in Tasks |-> rows[u].rank]
           S(t) == {rows[u].rank : u \in T(t)}
           n(t) == Recovery!Cardinality(S(t))
<1>1. Recovery!Compress(rows) = [t \in Tasks |-> [rows[t] EXCEPT !.rank = n(t)]]
  BY DEF Recovery!Compress
<1>2. ASSUME NEW t \in Tasks PROVE n(t) \in Nat
  <2>1. T(t) \in SUBSET Tasks
    OBVIOUS
  <2>2. S(t) = {g[u] : u \in T(t)}
    OBVIOUS
  <2> HIDE DEF T, g, S
  <2>3. Cardinality({g[u] : u \in T(t)}) \in Nat
    BY <2>1, RanksAreNumbers
  <2> QED
    BY <2>2, <2>3, SameCardinality
<1> HIDE DEF n
<1>3. ASSUME NEW t \in Tasks
      PROVE  LET row == [rows[t] EXCEPT !.rank = n(t)] IN
             /\ row \in Recovery!Rows
             /\ row.status = rows[t].status /\ row.target = rows[t].target
             /\ row.offset = rows[t].offset
  BY <1>2 DEF Recovery!Rows
<1> QED
  BY <1>1, <1>3

(* A generation with a timing of as many of its lines as it has has them all. *)
LEMMA AllAreMeasured ==
  ASSUME Recovery!TypeOK, Recovery!FactsAreCaptured, NEW t \in Tasks,
         Cardinality({f \in facts : f[1] = t}) >= captured[t].size
  PROVE  Recovery!Measured(t, captured[t].size)
<1> DEFINE n == captured[t].size
           F == {f \in facts : f[1] = t}
           g == [l \in 1 .. n |-> <<t, captured[t].gen, captured[t].gen, l>>]
           A == {g[l] : l \in 1 .. n}
<1>1. n \in Nat
  BY DEF Recovery!TypeOK, Recovery!Captures
<1>2. IsFiniteSet(1 .. n) /\ Cardinality(1 .. n) = n
  BY <1>1, FS_Interval
<1>3. g \in Surjection(1 .. n, A)
  BY DEF Surjection
<1>4. IsFiniteSet(A) /\ Cardinality(A) <= n
  BY <1>2, <1>3, FS_Surjection
<1>5. F \in SUBSET A
  BY DEF Recovery!FactsAreCaptured
<1>6. Cardinality(F) <= Cardinality(A) /\ (Cardinality(A) = Cardinality(F) => A = F)
      /\ Cardinality(F) \in Nat /\ Cardinality(A) \in Nat
  <2> HIDE DEF F, A
  <2> QED
    BY <1>4, <1>5, FS_Subset, FS_CardinalityType
<1>7. A = F
  <2> HIDE DEF F, A
  <2>1. Cardinality(F) >= n
    BY DEF F
  <2> QED
    BY <1>1, <1>4, <1>6, <2>1
<1> QED
  BY <1>7 DEF Recovery!Measured

-----------------------------------------------------------------------------
(* Codex goes on: the files only grow, or begin a new generation. *)
LEMMA FilesMoveOn ==
  ASSUME Recovery!RecoveryInv, UNCHANGED <<captured, ops, facts, image, speed, capture>>,
         rollout' \in [Tasks -> Recovery!Files],
         \A t \in Tasks : /\ rollout[t].gen <= rollout'[t].gen
                          /\ rollout[t].gen = rollout'[t].gen => rollout[t].lines <= rollout'[t].lines
  PROVE  Recovery!RecoveryInv'
<1> USE DEF Recovery!RecoveryInv
<1>1. Recovery!TypeOK'
  BY DEF Recovery!TypeOK, Recovery!JobOK
<1>2. ASSUME NEW t \in Tasks
      PROVE  /\ captured[t].gen <= rollout'[t].gen
             /\ captured[t].gen = rollout'[t].gen =>
                  captured[t].size <= rollout'[t].lines /\ captured[t].gen = rollout[t].gen
  <2>1. rollout[t] \in Recovery!Files /\ rollout'[t] \in Recovery!Files /\ captured[t] \in Recovery!Captures
    BY DEF Recovery!TypeOK
  <2>2. /\ captured[t].gen <= rollout[t].gen
        /\ captured[t].gen = rollout[t].gen => captured[t].size <= rollout[t].lines
    BY DEF Recovery!CapturedIsPast
  <2> QED
    BY <2>1, <2>2 DEF Recovery!Files, Recovery!Captures
<1>3. ASSUME NEW s, NEW kept, Recovery!Covers(s, kept) PROVE Recovery!Covers(s, kept)'
  BY <1>2, <1>3 DEF Recovery!Covers, Recovery!Passed
<1>0. Recovery!CapturedIsPast'
  BY <1>2 DEF Recovery!CapturedIsPast
<1>4. Recovery!ImagesAreCovered'
  <2>1. Recovery!Covers(image, ops)'
    BY <1>3 DEF Recovery!ImagesAreCovered
  <2>2. ASSUME capture.pc \in Recovery!ImageSteps
        PROVE  Recovery!Covers(capture.state, ops \cup Recovery!Parsed)'
    BY <1>3, <2>2 DEF Recovery!ImagesAreCovered, Recovery!Parsed
  <2> QED
    BY <2>1, <2>2 DEF Recovery!ImagesAreCovered
<1>5. Recovery!FactsAreCaptured' /\ Recovery!RowsAreMeasured'
  BY DEF Recovery!FactsAreCaptured, Recovery!RowsAreMeasured, Recovery!Measured
<1>6. Recovery!SliceIsNext'
  <2> SUFFICES ASSUME NEW t \in capture.task,
                      capture.pc = "recheck" \/ (capture.pc = "speedCommit" /\ capture.reason = "none")
               PROVE  capture.parsed.gen <= rollout'[t].gen
    BY DEF Recovery!SliceIsNext
  <2>1. t \in Tasks /\ capture.parsed.gen \in Nat
    BY DEF Recovery!TypeOK, Recovery!JobOK, Recovery!Parses
  <2>2. capture.parsed.gen <= rollout[t].gen /\ rollout[t].gen <= rollout'[t].gen
    BY <2>1 DEF Recovery!SliceIsNext
  <2>4. rollout[t].gen \in Nat /\ rollout'[t].gen \in Nat
    BY <2>1 DEF Recovery!TypeOK, Recovery!Files
  <2> QED
    BY <2>1, <2>2, <2>4
<1> QED
  BY <1>0, <1>1, <1>4, <1>5, <1>6

(* A step of a slice before its commit touches only the slice. *)
LEMMA SliceGoesOn ==
  ASSUME Recovery!RecoveryInv, UNCHANGED <<rollout, captured, ops, facts, image, speed>>,
         Recovery!JobOK', Recovery!SliceIsNext',
         capture'.pc \in {"image", "pick", "glob", "read"} => capture'.parsed = Recovery!NoParse,
         capture'.pc \in Recovery!ImageSteps =>
           Recovery!Covers(capture'.state, ops \cup Recovery!Parsed')
  PROVE  Recovery!RecoveryInv'
<1> USE DEF Recovery!RecoveryInv
<1>1. Recovery!TypeOK' /\ Recovery!CapturedIsPast'
  BY DEF Recovery!TypeOK, Recovery!CapturedIsPast
<1>2. Recovery!FactsAreCaptured' /\ Recovery!RowsAreMeasured'
  BY DEF Recovery!FactsAreCaptured, Recovery!RowsAreMeasured, Recovery!Measured
<1>3. ASSUME NEW s, NEW kept, Recovery!Covers(s, kept)
      PROVE  \A t \in Tasks :
               /\ s.checkpoint[t].gen = 0 => s.checkpoint[t].lines = 0
               /\ \A l \in 1 .. captured'[t].size :
                    (\/ s.checkpoint[t].gen = captured'[t].gen /\ l <= s.checkpoint[t].lines
                     \/ t \in s.completed /\ captured'[t].gen = rollout'[t].gen)
                    => <<t, captured'[t].gen, l>> \in kept
  BY <1>3 DEF Recovery!Covers, Recovery!Passed
<1>4. Recovery!ImagesAreCovered'
  BY <1>3 DEF Recovery!ImagesAreCovered, Recovery!Covers, Recovery!Passed
<1> QED
  BY <1>1, <1>2, <1>4

(* One field after the other. *)
LEMMA FileUpdates ==
  ASSUME NEW file \in Recovery!Files, NEW n, NEW half \in BOOLEAN
  PROVE  /\ [[file EXCEPT !.torn = half] EXCEPT !.lines = n] =
              [gen |-> file.gen, lines |-> n, torn |-> half, at |-> file.at]
         /\ [[file EXCEPT !.gen = n] EXCEPT !.torn = half] =
              [gen |-> n, lines |-> file.lines, torn |-> half, at |-> file.at]
<1>1. [file EXCEPT !.torn = half] =
        [gen |-> file.gen, lines |-> file.lines, torn |-> half, at |-> file.at]
  BY DEF Recovery!Files
<1>2. [[gen |-> file.gen, lines |-> file.lines, torn |-> half, at |-> file.at] EXCEPT !.lines = n] =
        [gen |-> file.gen, lines |-> n, torn |-> half, at |-> file.at]
  OBVIOUS
<1>3. [file EXCEPT !.gen = n] =
        [gen |-> n, lines |-> file.lines, torn |-> file.torn, at |-> file.at]
  BY DEF Recovery!Files
<1>4. [[gen |-> n, lines |-> file.lines, torn |-> file.torn, at |-> file.at] EXCEPT !.torn = half] =
        [gen |-> n, lines |-> file.lines, torn |-> half, at |-> file.at]
  OBVIOUS
<1> QED
  BY <1>1, <1>2, <1>3, <1>4

LEMMA CodexGoesOn ==
  ASSUME Recovery!RecoveryInv, NEW t \in Tasks,
         \/ Recovery!Append1(t) \/ Recovery!Rewrite(t) \/ Recovery!Move(t)
         \/ Recovery!MakeImage(t) \/ Recovery!RemoveImages(t)
  PROVE  Recovery!RecoveryInv'
<1>1. UNCHANGED <<captured, ops, facts, image, speed, capture>>
  BY DEF Recovery!Append1, Recovery!Rewrite, Recovery!Move, Recovery!MakeImage,
         Recovery!RemoveImages, Recovery!Codex, Recovery!ledger
<1>2. rollout \in [Tasks -> Recovery!Files]
  BY DEF Recovery!RecoveryInv, Recovery!TypeOK
<1>3. CASE Recovery!Append1(t)
  <2>1. PICK torn \in BOOLEAN :
           rollout' = [rollout EXCEPT ![t].torn = torn, ![t].lines = IF torn THEN @ ELSE @ + 1]
    BY <1>3 DEF Recovery!Append1
  <2> DEFINE n == IF torn THEN rollout[t].lines ELSE rollout[t].lines + 1
             file == [gen |-> rollout[t].gen, lines |-> n, torn |-> torn, at |-> rollout[t].at]
  <2>2. /\ file \in Recovery!Files
        /\ file.gen = rollout[t].gen /\ rollout[t].lines <= file.lines
    BY <1>2 DEF Recovery!Files
  <2>3. rollout' = [rollout EXCEPT ![t] = file]
    <3>1. rollout' = [rollout EXCEPT ![t] = [[rollout[t] EXCEPT !.torn = torn] EXCEPT !.lines = n]]
      BY <1>2, <2>1 DEF Recovery!Files
    <3>0. rollout[t] \in Recovery!Files
      BY <1>2
    <3>2. [[rollout[t] EXCEPT !.torn = torn] EXCEPT !.lines = n] = file
      BY <3>0, FileUpdates
    <3> QED
      BY <3>1, <3>2
  <2> HIDE DEF file
  <2>4. rollout' \in [Tasks -> Recovery!Files]
    BY <1>2, <2>2, <2>3
  <2>5. \A u \in Tasks : rollout'[u].gen = rollout[u].gen /\ rollout[u].lines <= rollout'[u].lines
    BY <1>2, <2>2, <2>3 DEF Recovery!Files
  <2> QED
    BY <1>1, <1>2, <2>4, <2>5, FilesMoveOn DEF Recovery!Files
<1>4. CASE Recovery!Rewrite(t)
  <2> DEFINE n == rollout[t].gen + 1
             file == [gen |-> n, lines |-> rollout[t].lines, torn |-> FALSE, at |-> rollout[t].at]
  <2>2. /\ file \in Recovery!Files
        /\ rollout[t].gen <= file.gen /\ rollout[t].lines = file.lines
    BY <1>2 DEF Recovery!Files
  <2>3. rollout' = [rollout EXCEPT ![t] = file]
    <3>1. rollout' = [rollout EXCEPT ![t] = [[rollout[t] EXCEPT !.gen = n] EXCEPT !.torn = FALSE]]
      BY <1>2, <1>4 DEF Recovery!Rewrite, Recovery!Files
    <3>0. rollout[t] \in Recovery!Files
      BY <1>2
    <3>2. [[rollout[t] EXCEPT !.gen = n] EXCEPT !.torn = FALSE] = file
      BY <3>0, FileUpdates
    <3> QED
      BY <3>1, <3>2
  <2> HIDE DEF file
  <2>4. rollout' \in [Tasks -> Recovery!Files]
    BY <1>2, <2>2, <2>3
  <2>5. \A u \in Tasks : rollout[u].gen <= rollout'[u].gen /\ rollout[u].lines = rollout'[u].lines
    BY <1>2, <2>2, <2>3 DEF Recovery!Files
  <2> QED
    BY <1>1, <1>2, <2>4, <2>5, FilesMoveOn DEF Recovery!Files
<1>5. CASE Recovery!Move(t)
  <2>1. PICK place \in {"gone"} \cup (Recovery!Places \ {rollout[t].at}) :
           rollout' = [rollout EXCEPT ![t].at = place]
    BY <1>5 DEF Recovery!Move
  <2>2. rollout' \in [Tasks -> Recovery!Files]
    BY <1>2, <2>1 DEF Recovery!Files
  <2>3. \A u \in Tasks : rollout'[u].gen = rollout[u].gen /\ rollout[u].lines = rollout'[u].lines
    BY <1>2, <2>1 DEF Recovery!Files
  <2> QED
    BY <1>1, <1>2, <2>2, <2>3, FilesMoveOn DEF Recovery!Files
<1>6. CASE Recovery!MakeImage(t) \/ Recovery!RemoveImages(t)
  <2>1. rollout' = rollout
    BY <1>6 DEF Recovery!MakeImage, Recovery!RemoveImages
  <2> QED
    BY <1>1, <1>2, <2>1, FilesMoveOn DEF Recovery!Files
<1> QED
  BY <1>3, <1>4, <1>5, <1>6

LEMMA CoversMore ==
  ASSUME NEW s, NEW kept, NEW more, Recovery!Covers(s, kept), kept \subseteq more
  PROVE  Recovery!Covers(s, more)
  BY DEF Recovery!Covers

LEMMA SliceEnds ==
  ASSUME NEW p, capture' = Recovery!NextSlot(p) \/ capture' = Recovery!Idle
  PROVE  /\ Recovery!JobOK' /\ Recovery!SliceIsNext'
         /\ Recovery!Covers(image, ops)' => Recovery!ImagesAreCovered'
<1>1. /\ DOMAIN capture' = DOMAIN Recovery!Idle /\ capture'.pc \in {"idle", "image", "speed"}
      /\ capture'.task = {} /\ capture'.parsed = Recovery!NoParse /\ capture'.reason = "none"
  <2>1. /\ Recovery!Idle.pc = "idle" /\ Recovery!Idle.task = {} /\ Recovery!Idle.parsed = Recovery!NoParse
        /\ Recovery!Idle.reason = "none"
        /\ DOMAIN Recovery!Idle = {"pc", "slot", "tried", "known", "task", "look", "state", "parsed",
                                   "pending", "reason"}
    BY DEF Recovery!Idle
  <2>2. CASE capture' = Recovery!Idle
    BY <2>1, <2>2
  <2>3. ASSUME NEW n, NEW at \in {"image", "speed"},
               capture' = [Recovery!Idle EXCEPT !.slot = n, !.pending = p, !.pc = at]
        PROVE  /\ DOMAIN capture' = DOMAIN Recovery!Idle /\ capture'.pc = at /\ capture'.task = {}
               /\ capture'.parsed = Recovery!NoParse /\ capture'.reason = "none"
    BY <2>1, <2>3
  <2> QED
    BY <2>2, <2>3 DEF Recovery!NextSlot
<1>2. Recovery!JobOK'
  BY <1>1 DEF Recovery!JobOK, Recovery!ImageSteps, Recovery!Parses, Recovery!NoParse, Recovery!Reasons
<1>3. Recovery!SliceIsNext'
  BY <1>1 DEF Recovery!SliceIsNext
<1>4. Recovery!Covers(image, ops)' => Recovery!ImagesAreCovered'
  BY <1>1 DEF Recovery!ImagesAreCovered, Recovery!ImageSteps
<1> QED
  BY <1>2, <1>3, <1>4

LEMMA RecoveryCrash == Recovery!RecoveryInv /\ Recovery!Crash => Recovery!RecoveryInv'
<1> SUFFICES ASSUME Recovery!RecoveryInv, Recovery!Crash PROVE Recovery!RecoveryInv'
  OBVIOUS
<1>1. /\ UNCHANGED <<rollout, captured, ops, facts, image, speed>>
      /\ capture' = Recovery!Idle
  BY DEF Recovery!Crash, Recovery!ledger
<1>2. Recovery!JobOK' /\ Recovery!SliceIsNext'
  BY <1>1, SliceEnds
<1>3. capture'.pc = "idle"
  BY <1>1 DEF Recovery!Idle
<1> QED
  BY <1>1, <1>2, <1>3, SliceGoesOn DEF Recovery!ImageSteps

LEMMA RecoveryImageLoad == Recovery!RecoveryInv /\ Recovery!ImageLoad => Recovery!RecoveryInv'
<1> SUFFICES ASSUME Recovery!RecoveryInv, Recovery!ImageLoad PROVE Recovery!RecoveryInv'
  OBVIOUS
<1> DEFINE known == {t \in Tasks : artifact[t].time > 0}
           open == [t \in Tasks |-> IF t \in known \ Recovery!Settled(image) THEN image.served[t] ELSE 0]
           s == [completed |-> image.completed \cap known,
                 unavailable |-> [t \in Tasks |-> IF t \in known THEN image.unavailable[t] ELSE "none"],
                 checkpoint |-> [t \in Tasks |-> IF t \in known THEN image.checkpoint[t]
                                                 ELSE Recovery!NoCheckpoint],
                 served |-> Recovery!Ranked(open)]
<1>1. /\ UNCHANGED <<rollout, captured, ops, facts, image, speed>>
      /\ capture.pc = "image"
      /\ capture' = [capture EXCEPT !.pc = "pick", !.state = s,
                                    !.known = [t \in Tasks |-> artifact[t].time]]
  BY DEF Recovery!ImageLoad, Recovery!ledger, Recovery!files
<1>2. /\ DOMAIN capture' = DOMAIN Recovery!Idle /\ capture'.pc = "pick" /\ capture'.state = s
      /\ capture'.task = capture.task /\ capture'.parsed = capture.parsed
      /\ capture'.reason = capture.reason
  <2> HIDE DEF s
  <2> QED
    BY <1>1 DEF Recovery!RecoveryInv, Recovery!TypeOK, Recovery!JobOK, Recovery!Idle
<1>3. image \in Recovery!States /\ Recovery!Covers(image, ops) /\ capture.parsed = Recovery!NoParse
  BY <1>1 DEF Recovery!RecoveryInv, Recovery!TypeOK, Recovery!ImagesAreCovered
<1>4. s \in Recovery!States
  <2>1. s.completed \in SUBSET Tasks
    BY <1>3 DEF Recovery!States
  <2>2. s.unavailable \in [Tasks -> Recovery!Verdicts]
    BY <1>3 DEF Recovery!States, Recovery!Verdicts
  <2>3. s.checkpoint \in [Tasks -> Recovery!Checkpoints]
    BY <1>3 DEF Recovery!States, Recovery!Checkpoints, Recovery!NoCheckpoint
  <2>4. s.served \in [Tasks -> Nat]
    BY ServedIsRanked
  <2> HIDE DEF known, open
  <2> QED
    BY <2>1, <2>2, <2>3, <2>4 DEF Recovery!States
<1>5. Recovery!Covers(s, ops)
  <2>1. \A t \in Tasks : s.checkpoint[t] \in {image.checkpoint[t], Recovery!NoCheckpoint}
    OBVIOUS
  <2>2. s.completed \subseteq image.completed
    OBVIOUS
  <2> HIDE DEF s
  <2>3. ASSUME NEW t \in Tasks, NEW l \in 1 .. captured[t].size, Recovery!Passed(s, t, l)
        PROVE  Recovery!Passed(image, t, l)
    <3>1. captured[t].gen # 0 /\ Recovery!NoCheckpoint.gen = 0
      BY DEF Recovery!RecoveryInv, Recovery!TypeOK, Recovery!Captures, Recovery!NoCheckpoint
    <3> QED
      BY <2>1, <2>2, <2>3, <3>1 DEF Recovery!Passed
  <2>4. \A t \in Tasks : s.checkpoint[t].gen = 0 => s.checkpoint[t].lines = 0
    BY <1>3, <2>1 DEF Recovery!Covers, Recovery!NoCheckpoint
  <2> QED
    BY <1>3, <2>3, <2>4 DEF Recovery!Covers
<1> HIDE DEF s
<1>6. Recovery!JobOK'
  BY <1>2, <1>4 DEF Recovery!RecoveryInv, Recovery!TypeOK, Recovery!JobOK, Recovery!ImageSteps
<1>7. Recovery!SliceIsNext'
  BY <1>2 DEF Recovery!SliceIsNext, Recovery!SpeedSteps
<1>8. Recovery!Covers(capture'.state, ops \cup Recovery!Parsed')
  BY <1>2, <1>5, CoversMore
<1> QED
  BY <1>1, <1>2, <1>3, <1>6, <1>7, <1>8, SliceGoesOn

LEMMA CoversAlike ==
  ASSUME NEW s, NEW like, NEW kept, Recovery!Covers(s, kept),
         like.checkpoint = s.checkpoint, like.completed = s.completed
  PROVE  Recovery!Covers(like, kept)
  BY DEF Recovery!Covers, Recovery!Passed

(* A step of an image slice that leaves what it has covered as it was. *)
LEMMA ImageGoesOn ==
  ASSUME Recovery!RecoveryInv, UNCHANGED <<rollout, captured, ops, facts, image, speed>>,
         capture.pc \in {"pick", "glob"}, capture'.pc \in {"pick", "glob", "read", "imageCommit"},
         DOMAIN capture' = DOMAIN Recovery!Idle, capture'.task \subseteq Tasks,
         capture'.parsed = capture.parsed, capture'.reason = capture.reason,
         capture'.state \in Recovery!States,
         capture'.state.checkpoint = capture.state.checkpoint,
         capture'.state.completed = capture.state.completed
  PROVE  Recovery!RecoveryInv'
<1>1. /\ Recovery!JobOK /\ capture.parsed = Recovery!NoParse
      /\ Recovery!Covers(capture.state, ops \cup Recovery!Parsed)
  BY DEF Recovery!RecoveryInv, Recovery!TypeOK, Recovery!ImagesAreCovered, Recovery!ImageSteps
<1>2. Recovery!JobOK'
  BY <1>1 DEF Recovery!JobOK, Recovery!ImageSteps
<1>3. Recovery!SliceIsNext'
  BY DEF Recovery!SliceIsNext, Recovery!SpeedSteps
<1>4. Recovery!Parsed' = Recovery!Parsed
  BY DEF Recovery!Parsed
<1>5. Recovery!Covers(capture'.state, ops \cup Recovery!Parsed')
  BY <1>1, <1>4, CoversAlike
<1> QED
  BY <1>1, <1>2, <1>3, <1>5, SliceGoesOn

LEMMA ImageSkips ==
  ASSUME Recovery!RecoveryInv, UNCHANGED <<rollout, captured, ops, facts, image, speed>>,
         capture.pc \in {"pick", "glob"}, NEW t \in Tasks, NEW reason \in Recovery!Verdicts,
         Recovery!Skip(t, reason)
  PROVE  Recovery!RecoveryInv'
<1>1. Recovery!JobOK /\ capture.state \in Recovery!States
  BY DEF Recovery!RecoveryInv, Recovery!TypeOK, Recovery!JobOK, Recovery!ImageSteps
<1>2. /\ DOMAIN capture' = DOMAIN Recovery!Idle /\ capture'.pc = "pick" /\ capture'.task = capture.task
      /\ capture'.parsed = capture.parsed /\ capture'.reason = capture.reason
  BY <1>1 DEF Recovery!Skip, Recovery!JobOK, Recovery!Idle
<1>3. capture'.state = [capture.state EXCEPT !.unavailable = [@ EXCEPT ![t] = reason]]
  BY <1>1 DEF Recovery!Skip, Recovery!JobOK, Recovery!Idle
<1>4. /\ capture'.state \in Recovery!States
      /\ capture'.state.checkpoint = capture.state.checkpoint
      /\ capture'.state.completed = capture.state.completed
  BY <1>1, <1>3 DEF Recovery!States
<1>5. capture'.task \subseteq Tasks
  BY <1>1, <1>2 DEF Recovery!JobOK
<1> QED
  BY <1>2, <1>4, <1>5, ImageGoesOn

LEMMA RecoveryImagePick == Recovery!RecoveryInv /\ Recovery!ImagePick => Recovery!RecoveryInv'
<1> SUFFICES ASSUME Recovery!RecoveryInv, Recovery!ImagePick PROVE Recovery!RecoveryInv'
  OBVIOUS
<1>1. UNCHANGED <<rollout, captured, ops, facts, image, speed>> /\ capture.pc = "pick"
  BY DEF Recovery!ImagePick, Recovery!files, Recovery!ledger
<1>2. Recovery!JobOK /\ capture.state \in Recovery!States
  BY <1>1 DEF Recovery!RecoveryInv, Recovery!TypeOK, Recovery!JobOK, Recovery!ImageSteps
<1>3. CASE capture' = [capture EXCEPT !.pc = "imageCommit"]
  <2>1. /\ DOMAIN capture' = DOMAIN Recovery!Idle /\ capture'.pc = "imageCommit"
        /\ capture'.task = capture.task /\ capture'.state = capture.state
        /\ capture'.parsed = capture.parsed /\ capture'.reason = capture.reason
    BY <1>2, <1>3 DEF Recovery!JobOK, Recovery!Idle
  <2> QED
    BY <1>1, <1>2, <2>1, ImageGoesOn DEF Recovery!JobOK
<1>4. ASSUME NEW t \in Tasks, Recovery!Skip(t, "invalid_artifact") PROVE Recovery!RecoveryInv'
  BY <1>1, <1>4, ImageSkips DEF Recovery!Verdicts
<1>5. ASSUME NEW t \in Tasks,
             capture' = [capture EXCEPT !.pc = "glob", !.task = {t},
                                        !.look = {rollout[t].at} \cap {"sessions"}]
      PROVE  Recovery!RecoveryInv'
  <2>1. /\ DOMAIN capture' = DOMAIN Recovery!Idle /\ capture'.pc = "glob"
        /\ capture'.task = {t} /\ capture'.state = capture.state
        /\ capture'.parsed = capture.parsed /\ capture'.reason = capture.reason
    BY <1>2, <1>5 DEF Recovery!JobOK, Recovery!Idle
  <2> QED
    BY <1>1, <1>2, <2>1, ImageGoesOn
<1> QED
  BY <1>3, <1>4, <1>5 DEF Recovery!ImagePick

LEMMA RecoveryImageGlob == Recovery!RecoveryInv /\ Recovery!ImageGlob => Recovery!RecoveryInv'
<1> SUFFICES ASSUME Recovery!RecoveryInv, Recovery!ImageGlob PROVE Recovery!RecoveryInv'
  OBVIOUS
<1>1. UNCHANGED <<rollout, captured, ops, facts, image, speed>> /\ capture.pc = "glob"
  BY DEF Recovery!ImageGlob, Recovery!files, Recovery!ledger
<1>2. /\ Recovery!JobOK /\ capture.state \in Recovery!States /\ capture.task \subseteq Tasks
  BY <1>1 DEF Recovery!RecoveryInv, Recovery!TypeOK, Recovery!JobOK, Recovery!ImageSteps
<1>3. ASSUME NEW t \in capture.task, NEW reason \in {"missing", "ambiguous"}, Recovery!Skip(t, reason)
      PROVE  Recovery!RecoveryInv'
  BY <1>1, <1>2, <1>3, ImageSkips DEF Recovery!Verdicts
<1>4. ASSUME NEW found, capture' = [capture EXCEPT !.pc = "read", !.look = found]
      PROVE  Recovery!RecoveryInv'
  <2>1. /\ DOMAIN capture' = DOMAIN Recovery!Idle /\ capture'.pc = "read"
        /\ capture'.task = capture.task /\ capture'.state = capture.state
        /\ capture'.parsed = capture.parsed /\ capture'.reason = capture.reason
    BY <1>2, <1>4 DEF Recovery!JobOK, Recovery!Idle
  <2> QED
    BY <1>1, <1>2, <2>1, ImageGoesOn
<1> QED
  BY <1>3, <1>4 DEF Recovery!ImageGlob

LEMMA StateGivesUp ==
  ASSUME NEW s \in Recovery!States, NEW u, NEW k
  PROVE  [[s EXCEPT !.unavailable = u] EXCEPT !.checkpoint = k] =
           [completed |-> s.completed, unavailable |-> u, checkpoint |-> k, served |-> s.served]
<1> DEFINE first == [completed |-> s.completed, unavailable |-> u, checkpoint |-> s.checkpoint,
                     served |-> s.served]
<1>1. [s EXCEPT !.unavailable = u] = first
  BY DEF Recovery!States
<1>2. [first EXCEPT !.checkpoint = k] =
        [completed |-> s.completed, unavailable |-> u, checkpoint |-> k, served |-> s.served]
  OBVIOUS
<1> HIDE DEF first
<1> QED
  BY <1>1, <1>2

LEMMA StateGoesOn ==
  ASSUME NEW s \in Recovery!States, NEW c, NEW k, NEW v
  PROVE  [[[s EXCEPT !.completed = c] EXCEPT !.checkpoint = k] EXCEPT !.served = v] =
           [completed |-> c, unavailable |-> s.unavailable, checkpoint |-> k, served |-> v]
<1> DEFINE other == [completed |-> c, unavailable |-> s.unavailable, checkpoint |-> s.checkpoint,
                     served |-> s.served]
           next == [completed |-> c, unavailable |-> s.unavailable, checkpoint |-> k,
                    served |-> s.served]
<1>3. [s EXCEPT !.completed = c] = other
  BY DEF Recovery!States
<1>4. [other EXCEPT !.checkpoint = k] = next
  OBVIOUS
<1>5. [next EXCEPT !.served = v] =
        [completed |-> c, unavailable |-> s.unavailable, checkpoint |-> k, served |-> v]
  OBVIOUS
<1> HIDE DEF other, next
<1> QED
  BY <1>3, <1>4, <1>5

(* What a slice reads goes on from its checkpoint. *)
LEMMA RecoveryImageRead == Recovery!RecoveryInv /\ Recovery!ImageRead => Recovery!RecoveryInv'
<1> SUFFICES ASSUME Recovery!RecoveryInv, Recovery!ImageRead PROVE Recovery!RecoveryInv'
  OBVIOUS
<1>1. UNCHANGED <<rollout, captured, ops, facts, image, speed>> /\ capture.pc = "read"
  BY DEF Recovery!ImageRead, Recovery!files, Recovery!ledger
<1>2. /\ Recovery!JobOK /\ capture.state \in Recovery!States /\ capture.task \subseteq Tasks
      /\ capture.parsed = Recovery!NoParse /\ Recovery!Covers(capture.state, ops \cup Recovery!Parsed)
  BY <1>1 DEF Recovery!RecoveryInv, Recovery!TypeOK, Recovery!JobOK, Recovery!ImageSteps,
     Recovery!ImagesAreCovered
<1>3. Recovery!Covers(capture.state, ops)
  <2>1. Recovery!Parsed = {}
    BY <1>2 DEF Recovery!Parsed, Recovery!NoParse
  <2> QED
    BY <1>2, <2>1
<1> DEFINE from(t) == capture.state.checkpoint[t]
           line(t) == from(t).lines + 1
           parsed(t) == IF line(t) <= rollout[t].lines
                          THEN [task |-> {t}, gen |-> rollout[t].gen, line |-> line(t)]
                          ELSE Recovery!NoParse
           whole(t) == line(t) >= rollout[t].lines /\ ~rollout[t].torn
           mark(t) == IF whole(t) THEN Recovery!NoCheckpoint ELSE
                        [gen |-> rollout[t].gen,
                         lines |-> IF parsed(t) = Recovery!NoParse THEN from(t).lines ELSE line(t)]
           done(t) == IF whole(t) THEN capture.state.completed \cup {t} ELSE capture.state.completed
           turn(t) == IF whole(t) THEN Recovery!Ranked([capture.state.served EXCEPT ![t] = 0])
                      ELSE Recovery!AfterService(capture.state.served, t)
<1>4. PICK t \in capture.task :
        \/ capture' = [capture EXCEPT !.pc = "imageCommit", !.state.unavailable[t] = "error",
                                      !.state.checkpoint[t] = Recovery!NoCheckpoint]
        \/ /\ from(t).gen \in {0, rollout[t].gen}
           /\ capture' = [capture EXCEPT !.pc = "imageCommit", !.parsed = parsed(t),
                                         !.state.completed = done(t), !.state.checkpoint[t] = mark(t),
                                         !.state.served = turn(t)]
  BY DEF Recovery!ImageRead

<1> HIDE DEF parsed, whole, mark, done, turn
<1>5. CASE capture' = [capture EXCEPT !.pc = "imageCommit", !.state.unavailable[t] = "error",
                                      !.state.checkpoint[t] = Recovery!NoCheckpoint]
  <2>1. /\ DOMAIN capture' = DOMAIN Recovery!Idle /\ capture'.pc = "imageCommit"
        /\ capture'.task = capture.task
        /\ capture'.parsed = capture.parsed /\ capture'.reason = capture.reason
    BY <1>2, <1>5 DEF Recovery!JobOK, Recovery!Idle
  <2> DEFINE why == [capture.state.unavailable EXCEPT ![t] = "error"]
             k == [capture.state.checkpoint EXCEPT ![t] = Recovery!NoCheckpoint]
  <2>9. capture'.state = [[capture.state EXCEPT !.unavailable = why] EXCEPT !.checkpoint = k]
    BY <1>2, <1>5 DEF Recovery!JobOK, Recovery!Idle, Recovery!States
  <2>2. capture'.state = [completed |-> capture.state.completed, unavailable |-> why, checkpoint |-> k,
                          served |-> capture.state.served]
    <3>1. capture.state \in Recovery!States
      BY <1>2
    <3> HIDE DEF why, k
    <3>2. [[capture.state EXCEPT !.unavailable = why] EXCEPT !.checkpoint = k] =
            [completed |-> capture.state.completed, unavailable |-> why, checkpoint |-> k,
             served |-> capture.state.served]
      BY <3>1, StateGivesUp
    <3> QED
      BY <2>9, <3>2
  <2>3. /\ capture'.state \in Recovery!States
        /\ capture'.state.completed = capture.state.completed
        /\ capture'.state.checkpoint = [capture.state.checkpoint EXCEPT ![t] = Recovery!NoCheckpoint]
    BY <1>2, <2>2 DEF Recovery!States, Recovery!Verdicts, Recovery!Checkpoints, Recovery!NoCheckpoint
  <2>4. Recovery!JobOK'
    BY <1>2, <2>1, <2>3 DEF Recovery!JobOK, Recovery!ImageSteps
  <2>5. Recovery!Covers(capture'.state, ops)
    <3>1. ASSUME NEW u \in Tasks, NEW l \in 1 .. captured[u].size, Recovery!Passed(capture'.state, u, l)
          PROVE  Recovery!Passed(capture.state, u, l)
      <4>1. captured[u].gen # 0 /\ Recovery!NoCheckpoint.gen = 0
        BY DEF Recovery!RecoveryInv, Recovery!TypeOK, Recovery!Captures, Recovery!NoCheckpoint
      <4> QED
        BY <1>2, <2>3, <3>1, <4>1 DEF Recovery!Passed, Recovery!States
    <3>2. \A u \in Tasks : capture'.state.checkpoint[u].gen = 0 => capture'.state.checkpoint[u].lines = 0
      BY <1>2, <1>3, <2>3 DEF Recovery!Covers, Recovery!NoCheckpoint, Recovery!States
    <3> QED
      BY <1>3, <3>1, <3>2 DEF Recovery!Covers
  <2>6. Recovery!Covers(capture'.state, ops \cup Recovery!Parsed')
    BY <2>5, CoversMore
  <2>7. Recovery!SliceIsNext'
    BY <2>1 DEF Recovery!SliceIsNext, Recovery!SpeedSteps
  <2> QED
    BY <1>1, <2>1, <2>4, <2>6, <2>7, SliceGoesOn
<1>6. CASE /\ from(t).gen \in {0, rollout[t].gen}
           /\ capture' = [capture EXCEPT !.pc = "imageCommit", !.parsed = parsed(t),
                                         !.state.completed = done(t), !.state.checkpoint[t] = mark(t),
                                         !.state.served = turn(t)]
  <2>0. /\ t \in Tasks /\ rollout[t] \in Recovery!Files /\ captured[t] \in Recovery!Captures
        /\ from(t) \in Recovery!Checkpoints
    BY <1>2 DEF Recovery!RecoveryInv, Recovery!TypeOK, Recovery!States
  <2>1. /\ DOMAIN capture' = DOMAIN Recovery!Idle /\ capture'.pc = "imageCommit"
        /\ capture'.task = capture.task
        /\ capture'.parsed = parsed(t) /\ capture'.reason = capture.reason
    BY <1>2, <1>6 DEF Recovery!JobOK, Recovery!Idle
  <2> DEFINE k == [capture.state.checkpoint EXCEPT ![t] = mark(t)]
  <2>9. capture'.state = [[[capture.state EXCEPT !.completed = done(t)] EXCEPT !.checkpoint = k]
                             EXCEPT !.served = turn(t)]
    BY <1>2, <1>6 DEF Recovery!JobOK, Recovery!Idle, Recovery!States
  <2>2. capture'.state = [completed |-> done(t), unavailable |-> capture.state.unavailable,
                          checkpoint |-> k, served |-> turn(t)]
    <3>1. capture.state \in Recovery!States
      BY <1>2
    <3> DEFINE c == done(t)
               v == turn(t)
    <3>2. [[[capture.state EXCEPT !.completed = c] EXCEPT !.checkpoint = k] EXCEPT !.served = v] =
            [completed |-> c, unavailable |-> capture.state.unavailable, checkpoint |-> k, served |-> v]
      <4> HIDE DEF k, c, v
      <4> QED
        BY <3>1, StateGoesOn
    <3> HIDE DEF k
    <3> QED
      BY <2>9, <3>2
  <2>3. parsed(t) \in Recovery!Parses /\ mark(t) \in Recovery!Checkpoints /\ done(t) \subseteq Tasks
    BY <1>2, <2>0 DEF parsed, mark, done, Recovery!Parses, Recovery!Checkpoints, Recovery!Files,
       Recovery!NoParse, Recovery!NoCheckpoint, Recovery!States
  <2>4. turn(t) \in [Tasks -> Nat]
    BY ServedIsRanked DEF turn, Recovery!AfterService
  <2>5. /\ capture'.state \in Recovery!States
        /\ capture'.state.completed = done(t)
        /\ capture'.state.checkpoint = [capture.state.checkpoint EXCEPT ![t] = mark(t)]
    BY <1>2, <2>0, <2>2, <2>3, <2>4 DEF Recovery!States
  <2>6. Recovery!JobOK'
    BY <1>2, <2>1, <2>3, <2>5 DEF Recovery!JobOK, Recovery!ImageSteps
  <2>7. Recovery!Covers(capture'.state, ops \cup Recovery!Parsed')
    <3>1. ASSUME NEW l \in 1 .. captured[t].size, captured[t].gen = rollout[t].gen, l <= from(t).lines
          PROVE  <<t, captured[t].gen, l>> \in ops
      <4>1. from(t).gen # 0
        BY <1>3, <2>0, <3>1 DEF Recovery!Covers, Recovery!Checkpoints, Recovery!Captures
      <4>2. Recovery!Passed(capture.state, t, l)
        BY <1>6, <3>1, <4>1 DEF Recovery!Passed
      <4> QED
        BY <1>3, <2>0, <4>2 DEF Recovery!Covers
    <3>2. ASSUME line(t) <= rollout[t].lines, captured[t].gen = rollout[t].gen
          PROVE  <<t, captured[t].gen, line(t)>> \in Recovery!Parsed'
      <4>1. capture'.parsed = [task |-> {t}, gen |-> rollout[t].gen, line |-> line(t)]
        BY <2>1, <3>2 DEF parsed
      <4> QED
        BY <3>2, <4>1 DEF Recovery!Parsed
    <3>3. ASSUME NEW l \in 1 .. captured[t].size, Recovery!Passed(capture'.state, t, l)
          PROVE  <<t, captured[t].gen, l>> \in ops \cup Recovery!Parsed'
      <4>1. capture'.state.checkpoint[t] = mark(t)
        BY <1>2, <2>0, <2>5 DEF Recovery!States
      <4>2. CASE t \in capture.state.completed /\ captured[t].gen = rollout[t].gen
        BY <1>3, <2>0, <4>2 DEF Recovery!Covers, Recovery!Passed
      <4>3. CASE whole(t) /\ captured[t].gen = rollout[t].gen
        <5>1. captured[t].size <= rollout[t].lines
          BY <2>0, <4>3 DEF Recovery!RecoveryInv, Recovery!CapturedIsPast
        <5>2. rollout[t].lines <= line(t)
          BY <2>0, <4>3 DEF whole, Recovery!Files, Recovery!Checkpoints
        <5>3. l <= from(t).lines \/ (l = line(t) /\ line(t) <= rollout[t].lines)
          BY <2>0, <5>1, <5>2 DEF Recovery!Files, Recovery!Checkpoints, Recovery!Captures
        <5> QED
          BY <3>1, <3>2, <4>3, <5>3
      <4>4. CASE ~whole(t) /\ mark(t).gen = captured[t].gen /\ l <= mark(t).lines
        <5>1. mark(t).gen = rollout[t].gen
          BY <4>4 DEF mark
        <5>2. CASE line(t) <= rollout[t].lines
          <6>1. mark(t).lines <= line(t)
            BY <2>0, <4>4 DEF mark, Recovery!Checkpoints
          <6>2. l <= from(t).lines \/ l = line(t)
            BY <2>0, <2>3, <4>4, <6>1 DEF Recovery!Checkpoints, Recovery!Captures
          <6> QED
            BY <3>1, <3>2, <4>4, <5>1, <5>2, <6>2
        <5>3. CASE ~(line(t) <= rollout[t].lines)
          <6>1. mark(t).lines = from(t).lines
            BY <4>4, <5>3 DEF mark, parsed
          <6> QED
            BY <3>1, <4>4, <5>1, <6>1
        <5> QED
          BY <5>2, <5>3
      <4> QED
        <5>1. captured[t].gen # 0
          BY <2>0 DEF Recovery!Captures
        <5>2. whole(t) => mark(t).gen = 0
          BY DEF mark, Recovery!NoCheckpoint
        <5> QED
          BY <2>5, <3>3, <4>1, <4>2, <4>3, <4>4, <5>1, <5>2 DEF Recovery!Passed, done
    <3>4. ASSUME NEW u \in Tasks, u # t
          PROVE  /\ capture'.state.checkpoint[u] = capture.state.checkpoint[u]
                 /\ u \in capture'.state.completed => u \in capture.state.completed
      BY <1>2, <2>5, <3>4 DEF done, Recovery!States
    <3>5. mark(t).gen = 0 => mark(t).lines = 0
      BY <2>0 DEF mark, Recovery!NoCheckpoint, Recovery!Files
    <3>6. ASSUME NEW u \in Tasks
          PROVE  /\ capture'.state.checkpoint[u].gen = 0 => capture'.state.checkpoint[u].lines = 0
                 /\ \A l \in 1 .. captured[u].size : Recovery!Passed(capture'.state, u, l) =>
                      <<u, captured[u].gen, l>> \in ops \cup Recovery!Parsed'
      <4>1. CASE u = t
        <5>1. capture'.state.checkpoint[t] = mark(t)
          BY <1>2, <2>0, <2>5 DEF Recovery!States
        <5> QED
          BY <3>3, <3>5, <4>1, <5>1
      <4>2. CASE u # t
        BY <1>3, <3>4, <4>2 DEF Recovery!Covers, Recovery!Passed
      <4> QED
        BY <4>1, <4>2
    <3> QED
      BY <3>6 DEF Recovery!Covers
  <2>8. Recovery!SliceIsNext'
    BY <2>1 DEF Recovery!SliceIsNext, Recovery!SpeedSteps
  <2> QED
    BY <1>1, <2>1, <2>6, <2>7, <2>8, SliceGoesOn
<1> QED
  BY <1>4, <1>5, <1>6

LEMMA RecoveryImageCommit == Recovery!RecoveryInv /\ Recovery!ImageCommit => Recovery!RecoveryInv'
<1> SUFFICES ASSUME Recovery!RecoveryInv, Recovery!ImageCommit PROVE Recovery!RecoveryInv'
  OBVIOUS
<1>1. /\ UNCHANGED <<rollout, captured, facts, speed>> /\ image' = capture.state
      /\ ops' = ops \cup Recovery!Parsed /\ \E p : capture' = Recovery!NextSlot(p)
      /\ capture.pc = "imageCommit"
  BY DEF Recovery!ImageCommit, Recovery!files, Recovery!Parsed
<1>2. /\ capture.state \in Recovery!States /\ Recovery!Covers(capture.state, ops \cup Recovery!Parsed)
  BY <1>1 DEF Recovery!RecoveryInv, Recovery!TypeOK, Recovery!JobOK, Recovery!ImageSteps,
     Recovery!ImagesAreCovered
<1>3. Recovery!Covers(image, ops)'
  BY <1>1, <1>2 DEF Recovery!Covers, Recovery!Passed
<1>4. Recovery!JobOK' /\ Recovery!SliceIsNext' /\ Recovery!ImagesAreCovered'
  BY <1>1, <1>3, SliceEnds
<1>5. Recovery!TypeOK' /\ Recovery!CapturedIsPast'
  BY <1>1, <1>2, <1>4 DEF Recovery!RecoveryInv, Recovery!TypeOK, Recovery!CapturedIsPast
<1>6. Recovery!FactsAreCaptured' /\ Recovery!RowsAreMeasured'
  BY <1>1 DEF Recovery!RecoveryInv, Recovery!FactsAreCaptured, Recovery!RowsAreMeasured,
     Recovery!Measured
<1> QED
  BY <1>4, <1>5, <1>6 DEF Recovery!RecoveryInv

LEMMA NextLine ==
  ASSUME NEW a \in Nat, NEW b \in Nat
  PROVE  Recovery!MaxOf({a} \cup {n \in {a + 1} : n <= b}) = IF a + 1 <= b THEN a + 1 ELSE a
<1> DEFINE S == {a} \cup {n \in {a + 1} : n <= b}
           m == IF a + 1 <= b THEN a + 1 ELSE a
<1>1. m \in S /\ \A y \in S : y <= m
  OBVIOUS
<1>2. \A x \in S : (\A y \in S : y <= x) => x = m
  OBVIOUS
<1> HIDE DEF m, S
<1>3. Recovery!MaxOf(S) = m
  BY <1>1, <1>2 DEF Recovery!MaxOf
<1> QED
  BY <1>3 DEF m, S

(* What a capture trusts afterwards: the lines from before, unless the file *)
(* was replaced, and at most one more.                                      *)
LEMMA CaptureReads ==
  ASSUME Recovery!RecoveryInv, Recovery!CaptureOnce, NEW t \in Tasks
  PROVE  /\ captured'[t] \in Recovery!Captures
         /\ Recovery!Replaced(t) => /\ captured'[t].gen = rollout[t].gen /\ captured'[t].size = 1
                                    /\ Recovery!Present(t) /\ 1 \in Recovery!NewLines(t)
         /\ ~Recovery!Replaced(t) => /\ captured'[t].gen = captured[t].gen
                                     /\ captured[t].size <= captured'[t].size
         /\ ~Recovery!Replaced(t) /\ Recovery!Present(t) =>
              /\ captured'[t].gen = rollout[t].gen /\ captured'[t].size <= rollout[t].lines
              /\ \A l \in captured[t].size + 1 .. captured'[t].size : l \in Recovery!NewLines(t)
         /\ ~Recovery!Present(t) => captured'[t].size = captured[t].size
         /\ Recovery!Present(t) => \A l \in Recovery!NewLines(t) : l \in 1 .. captured'[t].size
<1>1. rollout[t] \in Recovery!Files /\ captured[t] \in Recovery!Captures
  BY DEF Recovery!RecoveryInv, Recovery!TypeOK
<1>2. captured'[t] = IF Recovery!Present(t)
                       THEN [gen |-> rollout[t].gen, size |-> Recovery!ReadTo(t), at |-> rollout[t].at]
                       ELSE [captured[t] EXCEPT !.at = "gone"]
  BY DEF Recovery!CaptureOnce
<1>3. Recovery!ReadTo(t) = IF Recovery!Replaced(t) THEN 1 ELSE
        IF captured[t].size + 1 <= rollout[t].lines THEN captured[t].size + 1 ELSE captured[t].size
  BY <1>1, NextLine DEF Recovery!ReadTo, Recovery!Files, Recovery!Captures
<1>4. captured[t].gen = rollout[t].gen => captured[t].size <= rollout[t].lines
  BY DEF Recovery!RecoveryInv, Recovery!CapturedIsPast
<1>5. CASE Recovery!Replaced(t)
  BY <1>1, <1>2, <1>3, <1>5 DEF Recovery!Replaced, Recovery!NewLines, Recovery!Files, Recovery!Captures,
     Recovery!Present
<1>6. CASE ~Recovery!Replaced(t) /\ Recovery!Present(t)
  <2>1. captured[t].gen = rollout[t].gen
    BY <1>6 DEF Recovery!Replaced
  <2>2. /\ captured'[t] = [gen |-> rollout[t].gen, size |-> Recovery!ReadTo(t), at |-> rollout[t].at]
        /\ Recovery!ReadTo(t) \in Nat /\ captured[t].size <= Recovery!ReadTo(t)
        /\ Recovery!ReadTo(t) <= rollout[t].lines
        /\ Recovery!NewLines(t) = captured[t].size + 1 .. Recovery!ReadTo(t)
    BY <1>1, <1>2, <1>3, <1>4, <1>6, <2>1 DEF Recovery!Files, Recovery!Captures, Recovery!NewLines
  <2> QED
    BY <1>1, <1>6, <2>1, <2>2 DEF Recovery!Files, Recovery!Captures
<1>7. CASE ~Recovery!Present(t)
  BY <1>1, <1>2, <1>7 DEF Recovery!Replaced, Recovery!Captures
<1> QED
  BY <1>5, <1>6, <1>7

LEMMA RecoveryCaptureOnce == Recovery!RecoveryInv /\ Recovery!CaptureOnce => Recovery!RecoveryInv'
<1> SUFFICES ASSUME Recovery!RecoveryInv, Recovery!CaptureOnce PROVE Recovery!RecoveryInv'
  OBVIOUS
<1>1. /\ UNCHANGED <<rollout, image>> /\ DOMAIN captured' = Tasks
      /\ capture' = [Recovery!Idle EXCEPT !.pc = "image", !.slot = 1]
      /\ speed' = [t \in Tasks |-> IF Recovery!Replaced(t) THEN Recovery!NoRow ELSE speed[t]]
      /\ captured' = [t \in Tasks |-> captured'[t]]
  BY DEF Recovery!CaptureOnce, Recovery!files
<1>2. ASSUME NEW t \in Tasks, NEW g, NEW l,
             \/ <<t, g, l>> \in ops /\ ~Recovery!Replaced(t)
             \/ Recovery!Present(t) /\ g = rollout[t].gen /\ l \in Recovery!NewLines(t)
      PROVE  <<t, g, l>> \in ops'
  BY <1>2 DEF Recovery!CaptureOnce
<1>3. ASSUME NEW t \in Tasks, NEW g, NEW l,
             <<t, g, g, l>> \in facts /\ ~Recovery!Replaced(t)
      PROVE  <<t, g, g, l>> \in facts'
  BY <1>3 DEF Recovery!CaptureOnce
<1>4. ASSUME NEW f \in facts'
      PROVE  \/ f \in facts /\ ~Recovery!Replaced(f[1])
             \/ \E t \in Tasks : \E l \in Recovery!NewLines(t) :
                  Recovery!Present(t) /\ f = <<t, rollout[t].gen, rollout[t].gen, l>>
  BY <1>4 DEF Recovery!CaptureOnce
<1>5. ASSUME NEW t \in Tasks
      PROVE  /\ rollout[t] \in Recovery!Files /\ captured[t] \in Recovery!Captures
             /\ captured[t].gen <= rollout[t].gen
             /\ captured[t].gen = rollout[t].gen => captured[t].size <= rollout[t].lines
             /\ speed[t] \in Recovery!Rows
  BY DEF Recovery!RecoveryInv, Recovery!TypeOK, Recovery!CapturedIsPast
<1>6. Recovery!JobOK' /\ Recovery!SliceIsNext'
      /\ capture'.pc = "image" /\ capture'.parsed = Recovery!NoParse
  <2>1. /\ Recovery!Idle.pc = "idle" /\ Recovery!Idle.task = {} /\ Recovery!Idle.parsed = Recovery!NoParse
        /\ Recovery!Idle.reason = "none"
        /\ DOMAIN Recovery!Idle = {"pc", "slot", "tried", "known", "task", "look", "state", "parsed",
                                   "pending", "reason"}
    BY DEF Recovery!Idle
  <2>2. /\ DOMAIN capture' = DOMAIN Recovery!Idle /\ capture'.pc = "image" /\ capture'.task = {}
        /\ capture'.parsed = Recovery!NoParse /\ capture'.reason = "none"
    BY <1>1, <2>1
  <2> QED
    BY <2>2 DEF Recovery!JobOK, Recovery!ImageSteps, Recovery!Parses, Recovery!NoParse,
       Recovery!Reasons, Recovery!SliceIsNext
<1>7. Recovery!TypeOK'
  <2>1. captured' \in [Tasks -> Recovery!Captures]
    BY <1>1, CaptureReads
  <2>2. speed' \in [Tasks -> Recovery!Rows]
    BY <1>1, <1>5 DEF Recovery!Rows, Recovery!NoRow, Recovery!Statuses
  <2> QED
    BY <1>1, <1>6, <2>1, <2>2 DEF Recovery!RecoveryInv, Recovery!TypeOK
<1>8. Recovery!CapturedIsPast'
  <2>1. ASSUME NEW t \in Tasks
        PROVE  /\ captured'[t].gen <= rollout[t].gen
               /\ captured'[t].gen = rollout[t].gen => captured'[t].size <= rollout[t].lines
    <3>1. CASE Recovery!Replaced(t)
      BY <1>5, <3>1, CaptureReads DEF Recovery!Files
    <3>2. CASE ~Recovery!Replaced(t)
      BY <1>5, <3>2, CaptureReads DEF Recovery!Files, Recovery!Captures
    <3> QED
      BY <3>1, <3>2
  <2> QED
    BY <1>1, <2>1 DEF Recovery!CapturedIsPast
<1>9. Recovery!Covers(image, ops)'
  <2>1. ASSUME NEW t \in Tasks, NEW l \in 1 .. captured'[t].size, Recovery!Passed(image, t, l)'
        PROVE  <<t, captured'[t].gen, l>> \in ops'
    <3>1. CASE Recovery!Replaced(t)
      BY <1>2, <3>1, CaptureReads
    <3>2. CASE ~Recovery!Replaced(t) /\ l \in 1 .. captured[t].size
      <4>1. Recovery!Passed(image, t, l)
        BY <1>1, <2>1, <3>2, CaptureReads DEF Recovery!Passed
      <4>2. <<t, captured[t].gen, l>> \in ops
        BY <3>2, <4>1 DEF Recovery!RecoveryInv, Recovery!ImagesAreCovered, Recovery!Covers
      <4> QED
        BY <1>2, <3>2, <4>2, CaptureReads
    <3>3. CASE ~Recovery!Replaced(t) /\ ~(l \in 1 .. captured[t].size)
      <4>1. captured'[t] \in Recovery!Captures
        BY CaptureReads
      <4>2. l \in captured[t].size + 1 .. captured'[t].size
        BY <1>5, <3>3, <4>1 DEF Recovery!Captures
      <4>3. Recovery!Present(t)
        BY <3>3, CaptureReads
      <4> QED
        BY <1>2, <3>3, <4>2, <4>3, CaptureReads
    <3> QED
      BY <3>1, <3>2, <3>3
  <2>2. \A t \in Tasks : image.checkpoint[t].gen = 0 => image.checkpoint[t].lines = 0
    BY DEF Recovery!RecoveryInv, Recovery!ImagesAreCovered, Recovery!Covers
  <2> QED
    BY <1>1, <2>1, <2>2 DEF Recovery!Covers
<1>10. Recovery!ImagesAreCovered'
  BY <1>6, <1>9 DEF Recovery!ImagesAreCovered, Recovery!ImageSteps
<1>11. Recovery!FactsAreCaptured'
  <2>1. ASSUME NEW f \in facts'
        PROVE  \E t \in Tasks : \E l \in 1 .. captured'[t].size :
                 f = <<t, captured'[t].gen, captured'[t].gen, l>>
    <3>1. CASE f \in facts /\ ~Recovery!Replaced(f[1])
      <4>1. PICK t \in Tasks : \E l \in 1 .. captured[t].size :
              f = <<t, captured[t].gen, captured[t].gen, l>>
        BY <3>1 DEF Recovery!RecoveryInv, Recovery!FactsAreCaptured
      <4>0. PICK l \in 1 .. captured[t].size : f = <<t, captured[t].gen, captured[t].gen, l>>
        BY <4>1
      <4>2. f[1] = t
        BY <4>0
      <4>3. /\ captured'[t].gen = captured[t].gen /\ captured[t].size <= captured'[t].size
            /\ captured'[t] \in Recovery!Captures
        BY <3>1, <4>2, CaptureReads
      <4>4. l \in 1 .. captured'[t].size
        BY <1>5, <4>3 DEF Recovery!Captures
      <4> QED
        BY <4>0, <4>3, <4>4
    <3>2. ASSUME NEW t \in Tasks, NEW l \in Recovery!NewLines(t), Recovery!Present(t),
                 f = <<t, rollout[t].gen, rollout[t].gen, l>>
          PROVE  \E u \in Tasks : \E m \in 1 .. captured'[u].size :
                   f = <<u, captured'[u].gen, captured'[u].gen, m>>
      <4>1. l \in 1 .. captured'[t].size /\ captured'[t].gen = rollout[t].gen
        BY <3>2, CaptureReads
      <4> QED
        BY <3>2, <4>1
    <3> QED
      BY <1>4, <3>1, <3>2
  <2> QED
    BY <2>1 DEF Recovery!FactsAreCaptured
<1>12. Recovery!RowsAreMeasured'
  <2>1. ASSUME NEW t \in Tasks
        PROVE  /\ speed'[t].target <= captured'[t].size /\ Recovery!Measured(t, speed[t].offset)'
               /\ speed'[t].status = "pending" => speed'[t].offset < speed'[t].target
               /\ speed'[t].status = "complete" => Recovery!Measured(t, speed[t].target)'
    <3>0. captured'[t] \in Recovery!Captures
      BY CaptureReads
    <3>1. CASE Recovery!Replaced(t)
      BY <1>1, <3>1, CaptureReads DEF Recovery!NoRow, Recovery!Measured
    <3>2. CASE ~Recovery!Replaced(t)
      <4>1. speed'[t] = speed[t] /\ captured'[t].gen = captured[t].gen
            /\ captured[t].size <= captured'[t].size
        BY <1>1, <3>2, CaptureReads
      <4>2. ASSUME NEW n, Recovery!Measured(t, n) PROVE Recovery!Measured(t, n)'
        BY <1>3, <3>2, <4>1, <4>2 DEF Recovery!Measured
      <4>3. /\ speed[t].target <= captured[t].size /\ Recovery!Measured(t, speed[t].offset)
            /\ speed[t].status = "pending" => speed[t].offset < speed[t].target
            /\ speed[t].status = "complete" => Recovery!Measured(t, speed[t].target)
        BY DEF Recovery!RecoveryInv, Recovery!RowsAreMeasured
      <4>4. speed'[t].target <= captured'[t].size
        BY <1>5, <3>0, <4>1, <4>3 DEF Recovery!Rows, Recovery!Captures
      <4> QED
        BY <4>1, <4>2, <4>3, <4>4 DEF Recovery!Measured
    <3> QED
      BY <3>1, <3>2
  <2> QED
    BY <2>1 DEF Recovery!RowsAreMeasured
<1> QED
  BY <1>6, <1>7, <1>8, <1>10, <1>11, <1>12 DEF Recovery!RecoveryInv

(* What the inventory says of a generation is so. *)
LEMMA InventoryIsSound ==
  ASSUME Recovery!RecoveryInv, NEW t \in Tasks
  PROVE  LET row == Recovery!Inventory[t] IN
         /\ row \in [status : Recovery!Statuses, target : Nat, offset : Nat, rank : {row.rank}]
         /\ row.target <= captured[t].size /\ Recovery!Measured(t, row.offset)
         /\ row.status = "pending" => row.offset < row.target
         /\ row.status = "complete" => Recovery!Measured(t, row.target)
<1> DEFINE row == Recovery!Inventory[t]
           n == Recovery!Cardinality({f \in facts : f[1] = t})
           r == Recovery!LastRank
<1>1. /\ captured[t].size \in Nat /\ speed[t] \in Recovery!Rows
      /\ speed[t].target <= captured[t].size /\ Recovery!Measured(t, speed[t].offset)
      /\ speed[t].status = "pending" => speed[t].offset < speed[t].target
      /\ speed[t].status = "complete" => Recovery!Measured(t, speed[t].target)
  BY DEF Recovery!RecoveryInv, Recovery!TypeOK, Recovery!Captures, Recovery!RowsAreMeasured
<1>2. row = IF speed[t] # Recovery!NoRow \/ captured[t].size = 0 THEN speed[t] ELSE
              [status |-> IF n >= captured[t].size THEN Recovery!Complete(t) ELSE "pending",
               target |-> captured[t].size, offset |-> 0, rank |-> r]
  BY DEF Recovery!Inventory
<1>3. n >= captured[t].size => Recovery!Measured(t, captured[t].size)
  BY AllAreMeasured, SameCardinality DEF Recovery!RecoveryInv
<1>4. Recovery!Complete(t) \in {"no_usable_timing", "complete"}
  BY DEF Recovery!Complete
<1>5. Recovery!Measured(t, 0)
  BY DEF Recovery!Measured
<1> HIDE DEF row, n, r
<1>6. CASE row = speed[t]
  BY <1>1, <1>6 DEF Recovery!Rows, row
<1>7. CASE /\ captured[t].size # 0
           /\ row = [status |-> IF n >= captured[t].size THEN Recovery!Complete(t) ELSE "pending",
                     target |-> captured[t].size, offset |-> 0, rank |-> r]
  <2>1. row \in [status : Recovery!Statuses, target : Nat, offset : Nat, rank : {row.rank}]
    BY <1>1, <1>4, <1>7 DEF Recovery!Statuses
  <2>2. /\ row.target = captured[t].size /\ row.offset = 0
        /\ row.status = "complete" => n >= captured[t].size
    BY <1>4, <1>7
  <2> QED
    BY <1>1, <1>3, <1>5, <1>7, <2>1, <2>2 DEF row
<1> QED
  BY <1>2, <1>6, <1>7

LEMMA RecoverySpeedTake == Recovery!RecoveryInv /\ Recovery!SpeedTake => Recovery!RecoveryInv'
<1> SUFFICES ASSUME Recovery!RecoveryInv, Recovery!SpeedTake PROVE Recovery!RecoveryInv'
  OBVIOUS
<1>1. /\ UNCHANGED <<rollout, captured, ops, facts, image>> /\ capture.pc = "speed"
      /\ speed' = Recovery!Compress(Recovery!Inventory)
  BY DEF Recovery!SpeedTake, Recovery!files
<1>2. /\ speed' \in [Tasks -> Recovery!Rows]
      /\ \A t \in Tasks : LET row == Recovery!Inventory[t] IN
           speed'[t].status = row.status /\ speed'[t].target = row.target /\ speed'[t].offset = row.offset
  BY <1>1, InventoryIsSound, RowsAreRanked
<1>3. Recovery!RowsAreMeasured'
  BY <1>1, <1>2, InventoryIsSound DEF Recovery!RowsAreMeasured, Recovery!Measured
<1>4. Recovery!CapturedIsPast' /\ Recovery!FactsAreCaptured' /\ Recovery!Covers(image, ops)'
  BY <1>1 DEF Recovery!RecoveryInv, Recovery!CapturedIsPast, Recovery!FactsAreCaptured,
     Recovery!ImagesAreCovered, Recovery!Covers, Recovery!Passed
<1>5. Recovery!JobOK' /\ Recovery!SliceIsNext' /\ Recovery!ImagesAreCovered'
  <2>1. CASE capture' = Recovery!NextSlot(capture.pending)
    BY <1>4, <2>1, SliceEnds
  <2>2. ASSUME NEW t \in Tasks, Recovery!Inventory[t].status = "pending",
               capture' = [capture EXCEPT !.pc = "verify", !.task = {t}]
        PROVE  Recovery!JobOK' /\ Recovery!SliceIsNext' /\ Recovery!ImagesAreCovered'
    <3>1. Recovery!JobOK
      BY DEF Recovery!RecoveryInv, Recovery!TypeOK
    <3>2. /\ DOMAIN capture' = DOMAIN Recovery!Idle /\ capture'.pc = "verify" /\ capture'.task = {t}
          /\ capture'.parsed = capture.parsed /\ capture'.reason = capture.reason
      BY <2>2, <3>1 DEF Recovery!JobOK, Recovery!Idle
    <3>3. Recovery!JobOK'
      BY <3>1, <3>2 DEF Recovery!JobOK, Recovery!ImageSteps, Recovery!SpeedSteps
    <3>4. Recovery!SliceIsNext'
      BY <1>2, <2>2, <3>2 DEF Recovery!SliceIsNext
    <3>5. Recovery!ImagesAreCovered'
      BY <1>4, <3>2 DEF Recovery!ImagesAreCovered, Recovery!ImageSteps
    <3> QED
      BY <3>3, <3>4, <3>5
  <2> QED
    BY <2>1, <2>2 DEF Recovery!SpeedTake
<1>6. Recovery!TypeOK'
  BY <1>1, <1>2, <1>5 DEF Recovery!RecoveryInv, Recovery!TypeOK
<1> QED
  BY <1>3, <1>4, <1>5, <1>6 DEF Recovery!RecoveryInv

(* A step of a speed slice before its commit. *)
LEMMA SpeedGoesOn ==
  ASSUME Recovery!RecoveryInv, UNCHANGED <<rollout, captured, ops, facts, image, speed>>,
         capture.pc \in {"verify", "parse", "recheck"}, capture'.pc \in {"parse", "recheck", "speedCommit"},
         DOMAIN capture' = DOMAIN Recovery!Idle, capture'.task = capture.task,
         capture'.parsed \in Recovery!Parses, capture'.reason \in Recovery!Reasons,
         \A t \in capture.task :
           /\ t \in Tasks /\ capture.task = {t}
           /\ capture'.pc = "recheck" \/ (capture'.pc = "speedCommit" /\ capture'.reason = "none")
           => /\ capture'.parsed.line = speed[t].offset + 1
              /\ captured[t].gen <= capture'.parsed.gen /\ capture'.parsed.gen <= rollout[t].gen
  PROVE  Recovery!RecoveryInv'
<1>1. Recovery!JobOK /\ Recovery!SliceIsNext
  BY DEF Recovery!RecoveryInv, Recovery!TypeOK
<1>2. Recovery!JobOK'
  BY <1>1 DEF Recovery!JobOK, Recovery!ImageSteps, Recovery!SpeedSteps
<1>3. Recovery!SliceIsNext'
  BY <1>1 DEF Recovery!SliceIsNext, Recovery!SpeedSteps, Recovery!JobOK
<1> QED
  BY <1>2, <1>3, SliceGoesOn DEF Recovery!ImageSteps

LEMMA SpeedRefuses ==
  ASSUME Recovery!RecoveryInv, UNCHANGED <<rollout, captured, ops, facts, image, speed>>,
         capture.pc \in {"verify", "parse", "recheck"},
         NEW reason \in {"missing_source", "unverifiable"}, Recovery!Refuse(reason)
  PROVE  Recovery!RecoveryInv'
<1>1. Recovery!JobOK
  BY DEF Recovery!RecoveryInv, Recovery!TypeOK
<1>2. /\ DOMAIN capture' = DOMAIN Recovery!Idle /\ capture'.pc = "speedCommit"
      /\ capture'.task = capture.task /\ capture'.parsed = Recovery!NoParse
      /\ capture'.reason = reason
  BY <1>1 DEF Recovery!Refuse, Recovery!JobOK, Recovery!Idle
<1>3. capture'.parsed \in Recovery!Parses /\ capture'.reason \in Recovery!Reasons
  BY <1>2 DEF Recovery!Parses, Recovery!NoParse, Recovery!Reasons
<1> QED
  BY <1>2, <1>3, SpeedGoesOn

LEMMA RecoverySpeedVerify == Recovery!RecoveryInv /\ Recovery!SpeedVerify => Recovery!RecoveryInv'
<1> SUFFICES ASSUME Recovery!RecoveryInv, Recovery!SpeedVerify PROVE Recovery!RecoveryInv'
  OBVIOUS
<1>1. UNCHANGED <<rollout, captured, ops, facts, image, speed>> /\ capture.pc = "verify"
  BY DEF Recovery!SpeedVerify, Recovery!files, Recovery!ledger
<1>2. CASE \E reason \in {"missing_source", "unverifiable"} : Recovery!Refuse(reason)
  BY <1>1, <1>2, SpeedRefuses
<1>3. CASE capture' = [capture EXCEPT !.pc = "parse"]
  <2>1. Recovery!JobOK
    BY DEF Recovery!RecoveryInv, Recovery!TypeOK
  <2>2. /\ DOMAIN capture' = DOMAIN Recovery!Idle /\ capture'.pc = "parse"
        /\ capture'.task = capture.task /\ capture'.parsed = capture.parsed
        /\ capture'.reason = capture.reason
    BY <1>3, <2>1 DEF Recovery!JobOK, Recovery!Idle
  <2> QED
    BY <1>1, <2>1, <2>2, SpeedGoesOn DEF Recovery!JobOK
<1> QED
  BY <1>2, <1>3 DEF Recovery!SpeedVerify, Recovery!Guarded

LEMMA RecoverySpeedParse == Recovery!RecoveryInv /\ Recovery!SpeedParse => Recovery!RecoveryInv'
<1> SUFFICES ASSUME Recovery!RecoveryInv, Recovery!SpeedParse PROVE Recovery!RecoveryInv'
  OBVIOUS
<1>1. UNCHANGED <<rollout, captured, ops, facts, image, speed>> /\ capture.pc = "parse"
  BY DEF Recovery!SpeedParse, Recovery!files, Recovery!ledger
<1>2. CASE \E reason \in {"missing_source", "unverifiable"} : Recovery!Refuse(reason)
  BY <1>1, <1>2, SpeedRefuses
<1>3. ASSUME NEW t \in capture.task,
             capture' = [capture EXCEPT !.pc = "recheck", !.parsed =
                          [task |-> {t}, gen |-> rollout[t].gen, line |-> speed[t].offset + 1]]
      PROVE  Recovery!RecoveryInv'
  <2>1. Recovery!JobOK /\ t \in Tasks
    BY DEF Recovery!RecoveryInv, Recovery!TypeOK, Recovery!JobOK
  <2>2. /\ DOMAIN capture' = DOMAIN Recovery!Idle /\ capture'.pc = "recheck"
        /\ capture'.task = capture.task /\ capture'.reason = capture.reason
        /\ capture'.parsed = [task |-> {t}, gen |-> rollout[t].gen, line |-> speed[t].offset + 1]
    BY <1>3, <2>1 DEF Recovery!JobOK, Recovery!Idle
  <2>3. /\ rollout[t] \in Recovery!Files /\ speed[t] \in Recovery!Rows
        /\ captured[t].gen <= rollout[t].gen
    BY <2>1 DEF Recovery!RecoveryInv, Recovery!TypeOK, Recovery!CapturedIsPast
  <2>4. capture'.parsed \in Recovery!Parses /\ rollout[t].gen <= rollout[t].gen
    BY <2>1, <2>2, <2>3 DEF Recovery!Parses, Recovery!Files, Recovery!Rows
  <2>5. capture'.reason \in Recovery!Reasons
    BY <2>1, <2>2 DEF Recovery!JobOK
  <2>6. \A u \in capture.task : capture.task = {u} => u = t
    OBVIOUS
  <2> QED
    BY <1>1, <2>2, <2>3, <2>4, <2>5, <2>6, SpeedGoesOn
<1> QED
  BY <1>2, <1>3 DEF Recovery!SpeedParse

LEMMA RecoverySpeedRecheck == Recovery!RecoveryInv /\ Recovery!SpeedRecheck => Recovery!RecoveryInv'
<1> SUFFICES ASSUME Recovery!RecoveryInv, Recovery!SpeedRecheck PROVE Recovery!RecoveryInv'
  OBVIOUS
<1>1. UNCHANGED <<rollout, captured, ops, facts, image, speed>> /\ capture.pc = "recheck"
  BY DEF Recovery!SpeedRecheck, Recovery!files, Recovery!ledger
<1>2. CASE \E reason \in {"missing_source", "unverifiable"} : Recovery!Refuse(reason)
  BY <1>1, <1>2, SpeedRefuses
<1>3. CASE capture' = [capture EXCEPT !.pc = "speedCommit"]
  <2>1. Recovery!JobOK /\ Recovery!SliceIsNext
    BY DEF Recovery!RecoveryInv, Recovery!TypeOK
  <2>2. /\ DOMAIN capture' = DOMAIN Recovery!Idle /\ capture'.pc = "speedCommit"
        /\ capture'.task = capture.task /\ capture'.parsed = capture.parsed
        /\ capture'.reason = capture.reason
    BY <1>3, <2>1 DEF Recovery!JobOK, Recovery!Idle
  <2>3. capture'.parsed \in Recovery!Parses /\ capture'.reason \in Recovery!Reasons
    BY <2>1, <2>2 DEF Recovery!JobOK
  <2>4. \A t \in capture.task :
          /\ capture'.parsed.line = speed[t].offset + 1
          /\ captured[t].gen <= capture'.parsed.gen /\ capture'.parsed.gen <= rollout[t].gen
    BY <1>1, <2>1, <2>2 DEF Recovery!SliceIsNext
  <2> QED
    BY <1>1, <2>2, <2>3, <2>4, SpeedGoesOn
<1> QED
  BY <1>2, <1>3 DEF Recovery!SpeedRecheck, Recovery!Guarded

LEMMA RowUpdates ==
  ASSUME NEW row \in Recovery!Rows, NEW status, NEW offset, NEW rank
  PROVE  [[[row EXCEPT !.status = status] EXCEPT !.offset = offset] EXCEPT !.rank = rank] =
           [status |-> status, target |-> row.target, offset |-> offset, rank |-> rank]
<1> DEFINE first == [status |-> status, target |-> row.target, offset |-> row.offset, rank |-> row.rank]
           next == [status |-> status, target |-> row.target, offset |-> offset, rank |-> row.rank]
<1>1. [row EXCEPT !.status = status] = first
  BY DEF Recovery!Rows
<1>2. [first EXCEPT !.offset = offset] = next
  OBVIOUS
<1>3. [next EXCEPT !.rank = rank] =
        [status |-> status, target |-> row.target, offset |-> offset, rank |-> rank]
  OBVIOUS
<1> HIDE DEF first, next
<1> QED
  BY <1>1, <1>2, <1>3

(* The row of one generation is written, and the ranks with it. *)
LEMMA RowIsWritten ==
  ASSUME speed \in [Tasks -> Recovery!Rows], NEW t \in Tasks, NEW n \in Nat,
         NEW status \in Recovery!Statuses,
         speed' = Recovery!Compress([speed EXCEPT ![t].status = status, ![t].offset = n,
                                                  ![t].rank = Recovery!LastRank + 1])
  PROVE  /\ speed' \in [Tasks -> Recovery!Rows]
         /\ speed'[t].status = status /\ speed'[t].offset = n /\ speed'[t].target = speed[t].target
         /\ \A u \in Tasks \ {t} : /\ speed'[u].status = speed[u].status
                                   /\ speed'[u].offset = speed[u].offset
                                   /\ speed'[u].target = speed[u].target
<1> DEFINE r == Recovery!LastRank + 1
           row == [status |-> status, target |-> speed[t].target, offset |-> n, rank |-> r]
           long == [[[speed[t] EXCEPT !.status = status] EXCEPT !.offset = n] EXCEPT !.rank = r]
           rows == [speed EXCEPT ![t] = row]
<1>1. speed[t] \in Recovery!Rows
  OBVIOUS
<1>2. long = row
  <2> HIDE DEF r
  <2> QED
    BY <1>1, RowUpdates
<1>3. speed' = Recovery!Compress([speed EXCEPT ![t] = long])
  <2> HIDE DEF r
  <2>1. [speed EXCEPT ![t].status = status, ![t].offset = n, ![t].rank = r] = [speed EXCEPT ![t] = long]
    OBVIOUS
  <2> QED
    BY <2>1 DEF r
<1>4. speed' = Recovery!Compress(rows)
  <2> HIDE DEF long, row
  <2> QED
    BY <1>2, <1>3
<1>5. \A u \in Tasks : rows[u] = IF u = t THEN row ELSE speed[u]
  OBVIOUS
<1>6. \A u \in Tasks : rows[u] \in [status : Recovery!Statuses, target : Nat, offset : Nat,
                                    rank : {rows[u].rank}]
  <2> HIDE DEF r, rows
  <2>1. rows[t] \in [status : Recovery!Statuses, target : Nat, offset : Nat, rank : {rows[t].rank}]
    BY <1>1, <1>5 DEF Recovery!Rows
  <2>2. ASSUME NEW u \in Tasks, u # t
        PROVE  rows[u] \in [status : Recovery!Statuses, target : Nat, offset : Nat, rank : {rows[u].rank}]
    BY <1>5, <2>2 DEF Recovery!Rows
  <2> QED
    BY <2>1, <2>2
<1>7. row.status = status /\ row.offset = n /\ row.target = speed[t].target
  OBVIOUS
<1> HIDE DEF rows, row
<1>8. /\ Recovery!Compress(rows) \in [Tasks -> Recovery!Rows]
      /\ \A u \in Tasks : LET rank == Recovery!Compress(rows)[u] IN
           rank.status = rows[u].status /\ rank.target = rows[u].target /\ rank.offset = rows[u].offset
  BY <1>6, RowsAreRanked
<1>9. /\ speed' \in [Tasks -> Recovery!Rows]
      /\ \A u \in Tasks : speed'[u].status = rows[u].status /\ speed'[u].target = rows[u].target
                          /\ speed'[u].offset = rows[u].offset
  <2>1. speed' = Recovery!Compress(rows)
    BY <1>4
  <2> QED
    BY <1>8, <2>1
<1>10. rows[t] = row /\ \A u \in Tasks \ {t} : rows[u] = speed[u]
  BY <1>5
<1>11. speed'[t].status = status /\ speed'[t].offset = n /\ speed'[t].target = speed[t].target
  <2>1. rows[t] = row
    BY <1>10
  <2> QED
    BY <1>7, <1>9, <2>1
<1>12. ASSUME NEW u \in Tasks \ {t}
       PROVE  /\ speed'[u].status = speed[u].status /\ speed'[u].offset = speed[u].offset
              /\ speed'[u].target = speed[u].target
  <2>1. rows[u] = speed[u]
    BY <1>10
  <2> QED
    BY <1>9, <2>1
<1> QED
  BY <1>9, <1>11, <1>12

LEMMA RecoverySpeedCommit == Recovery!RecoveryInv /\ Recovery!SpeedCommit => Recovery!RecoveryInv'
<1> SUFFICES ASSUME Recovery!RecoveryInv, Recovery!SpeedCommit PROVE Recovery!RecoveryInv'
  OBVIOUS
<1>1. /\ UNCHANGED <<rollout, captured, ops, image>> /\ capture.pc = "speedCommit"
      /\ capture' = Recovery!NextSlot(capture.pending)
  BY DEF Recovery!SpeedCommit, Recovery!files
<1>2. Recovery!CapturedIsPast' /\ Recovery!Covers(image, ops)'
  BY <1>1 DEF Recovery!RecoveryInv, Recovery!CapturedIsPast, Recovery!ImagesAreCovered,
     Recovery!Covers, Recovery!Passed
<1>3. Recovery!JobOK' /\ Recovery!SliceIsNext' /\ Recovery!ImagesAreCovered'
  BY <1>1, <1>2, SliceEnds
<1>4. /\ speed \in [Tasks -> Recovery!Rows] /\ Recovery!JobOK
  BY DEF Recovery!RecoveryInv, Recovery!TypeOK
<1>5. SUFFICES /\ speed' \in [Tasks -> Recovery!Rows]
               /\ Recovery!FactsAreCaptured' /\ Recovery!RowsAreMeasured'
  BY <1>1, <1>2, <1>3 DEF Recovery!RecoveryInv, Recovery!TypeOK
<1>6. CASE UNCHANGED <<facts, speed>>
  BY <1>1, <1>4, <1>6 DEF Recovery!RecoveryInv, Recovery!FactsAreCaptured, Recovery!RowsAreMeasured,
     Recovery!Measured
<1>7. ASSUME NEW t \in capture.task, capture.reason = "none", Recovery!Opens(t), Recovery!Verified(t),
             facts' = facts \cup {<<t, captured[t].gen, capture.parsed.gen, capture.parsed.line>>},
             speed' = Recovery!Compress([speed EXCEPT
               ![t].status = IF capture.parsed.line >= speed[t].target
                               THEN Recovery!Complete(t) ELSE "pending",
               ![t].offset = IF capture.parsed.line >= speed[t].target THEN 0 ELSE capture.parsed.line,
               ![t].rank = Recovery!LastRank + 1])
      PROVE  /\ speed' \in [Tasks -> Recovery!Rows]
             /\ Recovery!FactsAreCaptured' /\ Recovery!RowsAreMeasured'
  <2>0. PICK line : line = capture.parsed.line
    OBVIOUS
  <2> DEFINE status == IF line >= speed[t].target THEN Recovery!Complete(t) ELSE "pending"
             offset == IF line >= speed[t].target THEN 0 ELSE line
  <2>1. t \in Tasks /\ capture.parsed.gen \in Nat /\ line \in Nat
    BY <1>4, <2>0 DEF Recovery!JobOK, Recovery!Parses
  <2>2. /\ speed[t].status = "pending" /\ line = speed[t].offset + 1
        /\ captured[t].gen <= capture.parsed.gen /\ capture.parsed.gen <= rollout[t].gen
    BY <1>1, <1>7, <2>0 DEF Recovery!RecoveryInv, Recovery!SliceIsNext, Recovery!SpeedSteps
  <2>3. /\ speed[t] \in Recovery!Rows /\ captured[t] \in Recovery!Captures
        /\ speed[t].target <= captured[t].size /\ Recovery!Measured(t, speed[t].offset)
        /\ speed[t].offset < speed[t].target
    BY <2>1, <2>2 DEF Recovery!RecoveryInv, Recovery!TypeOK, Recovery!RowsAreMeasured
  <2>4. capture.parsed.gen = captured[t].gen
    BY <1>7, <2>1, <2>2, <2>3 DEF Recovery!Verified, Recovery!Captures
  <2>5. line \in 1 .. captured[t].size /\ line <= speed[t].target
    BY <2>1, <2>2, <2>3 DEF Recovery!Rows, Recovery!Captures
  <2>6. facts' = facts \cup {<<t, captured[t].gen, captured[t].gen, line>>}
    BY <1>7, <2>0, <2>4
  <2>7. status \in {"pending", "complete", "no_usable_timing"} /\ offset \in Nat
    BY <2>1 DEF Recovery!Complete
  <2>8. /\ speed' \in [Tasks -> Recovery!Rows]
        /\ speed'[t].status = status /\ speed'[t].offset = offset /\ speed'[t].target = speed[t].target
        /\ \A u \in Tasks \ {t} : /\ speed'[u].status = speed[u].status
                                  /\ speed'[u].offset = speed[u].offset
                                  /\ speed'[u].target = speed[u].target
    <3>1. status \in Recovery!Statuses
      BY <2>7 DEF Recovery!Statuses
    <3>2. speed' = Recovery!Compress([speed EXCEPT ![t].status = status, ![t].offset = offset,
                                                   ![t].rank = Recovery!LastRank + 1])
      BY <1>7, <2>0
    <3> HIDE DEF status, offset
    <3> QED
      BY <1>4, <2>1, <2>7, <3>1, <3>2, RowIsWritten
  <2>9. Recovery!FactsAreCaptured'
    BY <1>1, <2>1, <2>5, <2>6 DEF Recovery!RecoveryInv, Recovery!FactsAreCaptured
  <2>10. ASSUME NEW u \in Tasks, NEW n, Recovery!Measured(u, n) PROVE Recovery!Measured(u, n)'
    BY <1>1, <2>6, <2>10 DEF Recovery!Measured
  <2>11. Recovery!Measured(t, line)'
    <3>1. ASSUME NEW l \in 1 .. line PROVE <<t, captured[t].gen, captured[t].gen, l>> \in facts'
      <4>1. CASE l = line
        BY <2>6, <4>1
      <4>2. CASE l # line
        <5>1. l \in 1 .. speed[t].offset
          BY <2>1, <2>2, <2>3, <4>2 DEF Recovery!Rows
        <5> QED
          BY <2>3, <2>6, <5>1 DEF Recovery!Measured
      <4> QED
        BY <4>1, <4>2
    <3> QED
      BY <1>1, <3>1 DEF Recovery!Measured
  <2>12. ASSUME NEW u \in Tasks
         PROVE  /\ speed'[u].target <= captured[u].size /\ Recovery!Measured(u, speed[u].offset)'
                /\ speed'[u].status = "pending" => speed'[u].offset < speed'[u].target
                /\ speed'[u].status = "complete" => Recovery!Measured(u, speed[u].target)'
    <3>1. CASE u # t
      <4>1. /\ speed[u].target <= captured[u].size /\ Recovery!Measured(u, speed[u].offset)
            /\ speed[u].status = "pending" => speed[u].offset < speed[u].target
            /\ speed[u].status = "complete" => Recovery!Measured(u, speed[u].target)
        BY DEF Recovery!RecoveryInv, Recovery!RowsAreMeasured
      <4>2. /\ speed'[u].status = speed[u].status
            /\ speed'[u].offset = speed[u].offset
            /\ speed'[u].target = speed[u].target
        BY <2>8, <3>1
      <4> HIDE DEF status, offset
      <4> QED
        BY <2>10, <4>1, <4>2 DEF Recovery!Measured
    <3>2. CASE u = t /\ line >= speed[t].target
      <4>1. line = speed[t].target
        BY <2>1, <2>3, <2>5, <3>2 DEF Recovery!Rows
      <4>2. speed'[t].offset = 0 /\ speed'[t].target = line /\ speed'[t].status # "pending"
        BY <2>8, <3>2, <4>1 DEF Recovery!Complete
      <4> QED
        BY <2>3, <2>11, <3>2, <4>1, <4>2 DEF Recovery!Measured
    <3>3. CASE u = t /\ ~(line >= speed[t].target)
      <4>1. speed'[t].offset = line /\ speed'[t].target = speed[t].target /\ speed'[t].status = "pending"
        BY <2>8, <3>3
      <4>2. line < speed[t].target
        BY <2>1, <2>3, <3>3 DEF Recovery!Rows
      <4> QED
        BY <2>3, <2>11, <3>3, <4>1, <4>2 DEF Recovery!Measured
    <3> QED
      BY <3>1, <3>2, <3>3
  <2>13. Recovery!RowsAreMeasured'
    BY <1>1, <2>12 DEF Recovery!RowsAreMeasured
  <2> QED
    BY <2>8, <2>9, <2>13
<1>8. ASSUME NEW t \in capture.task, capture.reason # "none", facts' = facts,
             speed' = Recovery!Compress([speed EXCEPT ![t].status = capture.reason, ![t].offset = 0,
                                                      ![t].rank = Recovery!LastRank + 1])
      PROVE  /\ speed' \in [Tasks -> Recovery!Rows]
             /\ Recovery!FactsAreCaptured' /\ Recovery!RowsAreMeasured'
  <2>1. t \in Tasks /\ capture.reason \in {"missing_source", "unverifiable"}
    BY <1>4, <1>8 DEF Recovery!JobOK, Recovery!Reasons
  <2>2. capture.reason \in Recovery!Statuses
    BY <2>1 DEF Recovery!Statuses
  <2>3. /\ speed' \in [Tasks -> Recovery!Rows]
        /\ speed'[t].status = capture.reason /\ speed'[t].offset = 0
        /\ speed'[t].target = speed[t].target
        /\ \A u \in Tasks \ {t} : /\ speed'[u].status = speed[u].status
                                  /\ speed'[u].offset = speed[u].offset
                                  /\ speed'[u].target = speed[u].target
    <3>1. PICK why : why = capture.reason
      OBVIOUS
    <3>2. speed' = Recovery!Compress([speed EXCEPT ![t].status = why, ![t].offset = 0,
                                                   ![t].rank = Recovery!LastRank + 1])
      BY <1>8, <3>1
    <3>3. why \in Recovery!Statuses /\ 0 \in Nat
      BY <2>2, <3>1
    <3> QED
      BY <1>4, <2>1, <3>1, <3>2, <3>3, RowIsWritten
  <2>4. Recovery!FactsAreCaptured'
    BY <1>1, <1>8 DEF Recovery!RecoveryInv, Recovery!FactsAreCaptured
  <2>5. ASSUME NEW u \in Tasks
        PROVE  /\ speed'[u].target <= captured[u].size /\ Recovery!Measured(u, speed[u].offset)'
               /\ speed'[u].status = "pending" => speed'[u].offset < speed'[u].target
               /\ speed'[u].status = "complete" => Recovery!Measured(u, speed[u].target)'
    <3>1. /\ speed[u].target <= captured[u].size /\ Recovery!Measured(u, speed[u].offset)
          /\ speed[u].status = "pending" => speed[u].offset < speed[u].target
          /\ speed[u].status = "complete" => Recovery!Measured(u, speed[u].target)
      BY DEF Recovery!RecoveryInv, Recovery!RowsAreMeasured
    <3>2. CASE u = t
      <4>1. speed'[u].target = speed[u].target /\ speed'[u].offset = 0
            /\ speed'[u].status \in {"missing_source", "unverifiable"}
        BY <2>1, <2>3, <3>2
      <4>2. Recovery!Measured(u, speed[u].offset)'
        BY <4>1 DEF Recovery!Measured
      <4> QED
        BY <3>1, <4>1, <4>2
    <3>3. CASE u # t
      BY <1>1, <1>8, <2>3, <3>1, <3>3 DEF Recovery!Measured
    <3> QED
      BY <3>2, <3>3
  <2> QED
    BY <1>1, <2>3, <2>4, <2>5 DEF Recovery!RowsAreMeasured
<1> QED
  BY <1>6, <1>7, <1>8 DEF Recovery!SpeedCommit

LEMMA RecoveryStarts == Recovery!Init => Recovery!RecoveryInv
<1> SUFFICES ASSUME Recovery!Init PROVE Recovery!RecoveryInv
  OBVIOUS
<1>1. /\ rollout \in [Tasks -> [gen : {1}, lines : 1 .. MaxLines, torn : {FALSE}, at : {"sessions"}]]
      /\ captured = [t \in Tasks |-> [gen |-> 1, size |-> rollout[t].lines, at |-> "sessions"]]
      /\ ops = {} /\ facts = {}
      /\ image = [completed |-> {}, unavailable |-> [t \in Tasks |-> "none"],
                  checkpoint |-> [t \in Tasks |-> Recovery!NoCheckpoint], served |-> [t \in Tasks |-> 0]]
      /\ speed = [t \in Tasks |-> Recovery!NoRow]
      /\ capture = Recovery!Idle
  BY DEF Recovery!Init
<1>2. \A t \in Tasks : /\ rollout[t].gen = 1 /\ rollout[t].lines \in Nat \ {0}
                       /\ rollout[t] \in Recovery!Files
  <2> SUFFICES ASSUME NEW t \in Tasks
               PROVE  /\ rollout[t].gen = 1 /\ rollout[t].lines \in Nat \ {0}
                      /\ rollout[t] \in Recovery!Files
    OBVIOUS
  <2>1. rollout[t] \in [gen : {1}, lines : 1 .. MaxLines, torn : {FALSE}, at : {"sessions"}]
    BY <1>1
  <2>2. 1 .. MaxLines \subseteq Nat \ {0}
    BY RecoveryAssumption
  <2>3. PICK n \in 1 .. MaxLines :
          rollout[t] = [gen |-> 1, lines |-> n, torn |-> FALSE, at |-> "sessions"]
    BY <2>1
  <2>4. n \in Nat \ {0} /\ "sessions" \in Recovery!Places \cup {"gone"}
    BY <2>2 DEF Recovery!Places
  <2>5. rollout[t] \in Recovery!Files
    BY <2>3, <2>4 DEF Recovery!Files
  <2> QED
    BY <2>3, <2>4, <2>5
<1>3. rollout \in [Tasks -> Recovery!Files] /\ captured \in [Tasks -> Recovery!Captures]
  BY <1>1, <1>2 DEF Recovery!Files, Recovery!Captures, Recovery!Places
<1>4. image \in Recovery!States
  BY <1>1 DEF Recovery!States, Recovery!Verdicts, Recovery!Checkpoints, Recovery!NoCheckpoint
<1>5. speed \in [Tasks -> Recovery!Rows]
  BY <1>1 DEF Recovery!Rows, Recovery!NoRow, Recovery!Statuses
<1>6. /\ capture.pc = "idle" /\ capture.task = {} /\ capture.parsed = Recovery!NoParse
      /\ capture.reason = "none"
  BY <1>1 DEF Recovery!Idle
<1>7. Recovery!TypeOK
  BY <1>1, <1>3, <1>4, <1>5, <1>6 DEF Recovery!TypeOK, Recovery!JobOK, Recovery!ImageSteps,
     Recovery!Parses, Recovery!NoParse, Recovery!Reasons
<1>8. Recovery!CapturedIsPast
  BY <1>1, <1>2 DEF Recovery!CapturedIsPast
<1>9. Recovery!ImagesAreCovered /\ Recovery!SliceIsNext
  BY <1>1, <1>6 DEF Recovery!ImagesAreCovered, Recovery!SliceIsNext, Recovery!Covers, Recovery!Passed,
     Recovery!NoCheckpoint, Recovery!ImageSteps
<1>10. Recovery!FactsAreCaptured /\ Recovery!RowsAreMeasured
  BY <1>1, <1>2 DEF Recovery!FactsAreCaptured, Recovery!RowsAreMeasured, Recovery!Measured, Recovery!NoRow
<1> QED
  BY <1>7, <1>8, <1>9, <1>10 DEF Recovery!RecoveryInv

LEMMA RecoveryStep ==
  Recovery!RecoveryInv /\ [Recovery!Next]_(Recovery!vars) => Recovery!RecoveryInv'
<1> SUFFICES ASSUME Recovery!RecoveryInv, [Recovery!Next]_(Recovery!vars) PROVE Recovery!RecoveryInv'
  OBVIOUS
<1>1. CASE UNCHANGED Recovery!vars
  <2>1. UNCHANGED <<rollout, captured, ops, facts, image, speed, capture>>
    BY <1>1 DEF Recovery!vars
  <2> QED
    BY <2>1, FilesMoveOn DEF Recovery!RecoveryInv, Recovery!TypeOK, Recovery!Files
<1>2. CASE Recovery!Environment
  BY <1>2, CodexGoesOn, RecoveryCrash DEF Recovery!Environment
<1>3. CASE Recovery!Work
  BY <1>3, RecoveryCaptureOnce, RecoveryImageLoad, RecoveryImagePick, RecoveryImageGlob,
     RecoveryImageRead, RecoveryImageCommit, RecoverySpeedTake, RecoverySpeedVerify,
     RecoverySpeedParse, RecoverySpeedRecheck, RecoverySpeedCommit DEF Recovery!Work
<1> QED
  BY <1>1, <1>2, <1>3 DEF Recovery!Next

LEMMA RecoveryIsHonest ==
  Recovery!RecoveryInv => Recovery!ImageCoverage /\ Recovery!TimingsAreOfTheGeneration
<1> SUFFICES ASSUME Recovery!RecoveryInv
             PROVE  Recovery!ImageCoverage /\ Recovery!TimingsAreOfTheGeneration
  OBVIOUS
<1>1. Recovery!ImageCoverage
  BY DEF Recovery!RecoveryInv, Recovery!TypeOK, Recovery!States, Recovery!ImagesAreCovered,
     Recovery!Covers, Recovery!Passed, Recovery!ImageCoverage
<1>2. \A f \in facts : f[2] = f[3] /\ f[2] = captured[f[1]].gen
  BY DEF Recovery!RecoveryInv, Recovery!FactsAreCaptured
<1>3. Recovery!TimingsAreOfTheGeneration
  BY <1>2 DEF Recovery!RecoveryInv, Recovery!RowsAreMeasured, Recovery!Measured,
     Recovery!TimingsAreOfTheGeneration
<1> QED
  BY <1>1, <1>3

(* For every finite set of tasks and however Codex and crashes come         *)
(* between the slices: a task counts as recovered only when the ledger      *)
(* holds its images, and a generation as measured only when every timing of *)
(* it is there, each of the generation it is stored under.                  *)
THEOREM RecoveryIsComplete == MCSpec => []RecoveredIsThere
<1> DEFINE Inv == machine = "recovery" => Recovery!RecoveryInv
<1>1. MCInit => Inv
  BY RecoveryStarts DEF MCInit
<1>2. Inv /\ [MCNext]_allVars => Inv'
  <2> SUFFICES ASSUME Inv, [MCNext]_allVars, machine' = "recovery" PROVE Recovery!RecoveryInv'
    OBVIOUS
  <2>1. machine = "recovery"
    BY DEF MCNext, allVars
  <2>2. [Recovery!Next]_(Recovery!vars)
    BY <2>1 DEF MCNext, allVars, ofRecovery, Recovery!vars
  <2> QED
    BY <2>1, <2>2, RecoveryStep
<1>3. Inv => RecoveredIsThere
  BY RecoveryIsHonest DEF RecoveredIsThere
<1> QED
  BY <1>1, <1>2, <1>3, PTL DEF MCSpec

(* The same from any history: whatever the rollouts and images are when the *)
(* recovery begins.                                                         *)
THEOREM RecoveryOfAnyHistory ==
  Recovery!Spec => [](Recovery!ImageCoverage /\ Recovery!TimingsAreOfTheGeneration)
  BY RecoveryStarts, RecoveryStep, RecoveryIsHonest, PTL DEF Recovery!Spec
-----------------------------------------------------------------------------
(* Reuse.  What an earlier request left is sound, or the database shows     *)
(* that it may not be: Sound says so of a database, GoesOn of two, and every *)
(* transaction goes on.                                                     *)

Below == {p \in Nat \X Nat : p[1] < p[2]}
LEMMA BelowIsLess ==
  /\ IsWellFoundedOn(Below, Nat)
  /\ \A m \in Nat : \A n \in Nat : <<m, n>> \in Below <=> m < n
<1>1. OpToRel(<, Nat) = Below
  BY DEF OpToRel, Below
<1>2. \A m \in Nat : \A n \in Nat : <<m, n>> \in Below <=> m < n
  BY DEF Below
<1> QED
  BY <1>1, <1>2, NatLessThanWellFounded

LEMMA NaturalsHaveALeast ==
  ASSUME NEW S \in SUBSET Nat, S # {}
  PROVE  \E t \in S : \A u \in S : t <= u
<1>0. S \subseteq Nat /\ IsWellFoundedOn(Below, Nat)
  BY BelowIsLess
<1>1. PICK t \in S : \A u \in S : ~(<<u, t>> \in Below)
  BY <1>0, WFMin, Zenon
<1>2. \A u \in S : ~(u < t)
  BY <1>1, BelowIsLess
<1> QED
  BY <1>2

(* Moments are bounded, so a set of some has an earliest and a latest.     *)
LEMMA Extremes ==
  ASSUME NEW S \in SUBSET (0 .. Horizon), S # {}
  PROVE  /\ Reuse!Earliest(S) \in S /\ \A u \in S : Reuse!Earliest(S) <= u
         /\ Reuse!Latest(S) \in S /\ \A u \in S : u <= Reuse!Latest(S)
<1>1. \E t \in S : \A u \in S : t <= u
  BY NaturalsHaveALeast, ReuseAssumption
<1>2. \E t \in S : \A u \in S : u <= t
  <2> DEFINE Mirror == {Horizon - t : t \in S}
  <2>1. Mirror \subseteq Nat /\ Mirror # {}
    <3>1. \A t \in S : Horizon - t \in Nat
      BY ReuseAssumption
    <3> QED
      BY <3>1
  <2>2. PICK m \in Mirror : \A u \in Mirror : m <= u
    <3> HIDE DEF Mirror
    <3> QED
      BY <2>1, NaturalsHaveALeast
  <2>3. PICK t \in S : m = Horizon - t
    BY <2>2
  <2>4. \A u \in S : m <= Horizon - u
    BY <2>2
  <2>5. \A u \in S : u <= t
    <3> HIDE DEF Mirror
    <3> QED
      BY <2>3, <2>4, ReuseAssumption
  <2> QED
    BY <2>5
<1> QED
  BY <1>1, <1>2 DEF Reuse!Earliest, Reuse!Latest

LEMMA ReuseCardinality == \A S : Reuse!Cardinality(S) = Cardinality(S)
  BY DEF Reuse!Cardinality, Cardinality

(* If the changes since then have as many entries as there were, each has. *)
LEMMA AllAreThere ==
  ASSUME NEW d, NEW g \in Nat, Reuse!IsDatabase(d), Reuse!JournalIsTrue(d),
         d.quotaGeneration - g \in 0 .. JournalLimit,
         Reuse!Cardinality(Reuse!Since(d, g)) = d.quotaGeneration - g
  PROVE  Reuse!Complete(d, g)
<1> DEFINE S == Reuse!Since(d, g)
           T == (g + 1) .. d.quotaGeneration
           f == [e \in S |-> e.at]
<1>1. d.quotaGeneration \in Nat /\ d.quotaGeneration - g \in Nat
  BY ReuseAssumption DEF Reuse!IsDatabase
<1>2. IsFiniteSet(T) /\ Cardinality(T) = d.quotaGeneration - g
  <2> DEFINE a == g + 1
             b == d.quotaGeneration
  <2>1. a \in Int /\ b \in Int /\ (a > b => b - g = 0) /\ b - a + 1 = b - g
    BY <1>1
  <2>2. IsFiniteSet(a .. b) /\ Cardinality(a .. b) = IF a > b THEN 0 ELSE b - a + 1
    <3> HIDE DEF a, b
    <3> QED
      BY <2>1, FS_Interval
  <2> QED
    BY <2>1, <2>2
<1>3. \A e \in S : e.at \in T
  BY <1>1 DEF Reuse!Since, Reuse!IsDatabase
<1>4. \A e1, e2 \in S : e1.at = e2.at => e1 = e2
  BY DEF Reuse!Since, Reuse!JournalIsTrue
<1>5. f \in Injection(S, T)
  <2>1. f \in [S -> T]
    BY <1>3
  <2>2. \A a, b \in S : f[a] = f[b] => a = b
    BY <1>4
  <2> HIDE DEF f, S, T
  <2> QED
    BY <2>1, <2>2 DEF Injection, IsInjective
<1>6. Cardinality(S) = Cardinality(T)
  BY <1>2, ReuseCardinality
<1>7. f \in Surjection(S, T)
  <2> HIDE DEF f, S, T
  <2> QED
    BY <1>2, <1>5, <1>6, FS_Injection
<1>8. ASSUME NEW n \in T
      PROVE  \E e \in d.journal : e.at = n
  <2>1. PICK e \in S : f[e] = n
    <3> HIDE DEF f, S, T
    <3> QED
      BY <1>7, <1>8 DEF Surjection
  <2> QED
    BY <2>1 DEF Reuse!Since
<1> QED
  BY <1>8 DEF Reuse!Complete

-----------------------------------------------------------------------------
LEMMA Moments == UsageTimes \subseteq Int /\ QuotaTimes \subseteq Int
  BY ReuseAssumption

(* What a fit and a piece of the readings depend on. *)
LEMMA FitDepends ==
  ASSUME NEW p, NEW q, NEW w, \A t \in UsageTimes : t <= w.end => p[t] = q[t]
  PROVE  Reuse!FitOf(p, w) = Reuse!FitOf(q, w)
  BY DEF Reuse!FitOf

LEMMA PieceDepends ==
  ASSUME NEW p, NEW q, NEW a, NEW b, \A t \in QuotaTimes : a <= t /\ t <= b => p[t] = q[t]
  PROVE  Reuse!Piece(Reuse!Readings(p), a, b) = Reuse!Piece(Reuse!Readings(q), a, b)
<1> DEFINE P == Reuse!Readings(p)
           Q == Reuse!Readings(q)
           S == {u \in DOMAIN P : a <= u /\ u <= b}
           T == {u \in DOMAIN Q : a <= u /\ u <= b}
<1>1. DOMAIN P = {u \in QuotaTimes : p[u] # None} /\ DOMAIN Q = {u \in QuotaTimes : q[u] # None}
  BY DEF Reuse!Readings
<1>2. S = T
  BY <1>1
<1>3. \A t \in S : P[t] = Q[t]
  BY <1>1 DEF Reuse!Readings
<1>4. [t \in S |-> P[t]] = [t \in T |-> Q[t]]
  <2> HIDE DEF P, Q, S, T
  <2> QED
    BY <1>2, <1>3
<1> QED
  BY <1>4 DEF Reuse!Piece

LEMMA PieceEnds ==
  ASSUME NEW s, NEW a, NEW b
  PROVE  Reuse!Piece(s, a, b).start = a /\ Reuse!Piece(s, a, b).end = b
  BY DEF Reuse!Piece

(* Marks only grow, so what was affected stays affected. *)
LEMMA MarksGrow ==
  ASSUME NEW d, NEW e, Reuse!IsDatabase(d), Reuse!IsDatabase(e), NEW a \in Int, NEW b \in Int,
         e.dirty.usage <= d.dirty.usage, e.dirty.from <= d.dirty.from, d.dirty.to <= e.dirty.to,
         Reuse!Affected(d, a, b)
  PROVE  Reuse!Affected(e, a, b)
  BY DEF Reuse!Affected, Reuse!IsDatabase

(* A change of costs from m on. *)
LEMMA FitsAfterUsage ==
  ASSUME NEW d, NEW e, Reuse!IsDatabase(d), Reuse!IsDatabase(e), Reuse!FitsAreTrue(d), NEW m \in Int,
         e.window = d.window, e.quota = d.quota, e.fits = d.fits,
         d.window = "valid" =>
           /\ e.dirty.usage <= d.dirty.usage /\ e.dirty.usage <= m
           /\ e.dirty.from = d.dirty.from /\ e.dirty.to = d.dirty.to,
         \A t \in UsageTimes : t < m => e.usage[t] = d.usage[t]
  PROVE  Reuse!FitsAreTrue(e)
<1> SUFFICES ASSUME e.window = "valid", NEW row \in e.fits
             PROVE  LET a == row.key.start
                        b == row.key.end
                    IN /\ a \in QuotaTimes /\ b \in QuotaTimes
                       /\ \/ Reuse!Affected(e, a, b)
                          \/ row.fit = Reuse!FitOf(e.usage, Reuse!Piece(Reuse!Readings(e.quota), a, b))
  BY DEF Reuse!FitsAreTrue
<1> DEFINE a == row.key.start
           b == row.key.end
           w == Reuse!Piece(Reuse!Readings(d.quota), a, b)
<1>1. /\ a \in QuotaTimes /\ b \in QuotaTimes
      /\ Reuse!Affected(d, a, b) \/ row.fit = Reuse!FitOf(d.usage, w)
  BY DEF Reuse!FitsAreTrue
<1>2. a \in Int /\ b \in Int
  BY <1>1, Moments
<1>3. CASE Reuse!Affected(d, a, b)
  <2> HIDE DEF a, b
  <2>1. e.dirty.from <= d.dirty.from /\ d.dirty.to <= e.dirty.to /\ e.dirty.usage <= d.dirty.usage
    BY DEF Reuse!IsDatabase
  <2>2. Reuse!Affected(e, a, b)
    BY <1>2, <1>3, <2>1, MarksGrow
  <2> QED
    BY <1>1, <2>2 DEF a, b
<1>4. CASE row.fit = Reuse!FitOf(d.usage, w) /\ b < m
  <2>1. w.end = b
    BY PieceEnds
  <2>2. \A t \in UsageTimes : t <= w.end => d.usage[t] = e.usage[t]
    BY <1>2, <1>4, <2>1, ReuseAssumption
  <2>3. Reuse!FitOf(d.usage, w) = Reuse!FitOf(e.usage, w)
    <3> HIDE DEF w
    <3> QED
      BY <2>2, FitDepends
  <2> QED
    BY <1>1, <1>4, <2>3
<1>5. CASE m <= b
  BY <1>1, <1>2, <1>5 DEF Reuse!Affected, Reuse!IsDatabase
<1> QED
  BY <1>1, <1>2, <1>3, <1>4, <1>5

(* A change of the readings between from and to. *)
LEMMA FitsAfterQuota ==
  ASSUME NEW d, NEW e, Reuse!IsDatabase(d), Reuse!IsDatabase(e), Reuse!FitsAreTrue(d),
         NEW from \in Int, NEW to \in Int,
         e.window = d.window, e.usage = d.usage, e.fits = d.fits,
         d.window = "valid" =>
           /\ e.dirty.usage = d.dirty.usage
           /\ e.dirty.from <= d.dirty.from /\ e.dirty.from <= from
           /\ d.dirty.to <= e.dirty.to /\ to <= e.dirty.to,
         \A t \in QuotaTimes : t < from \/ to < t => e.quota[t] = d.quota[t]
  PROVE  Reuse!FitsAreTrue(e)
<1> SUFFICES ASSUME e.window = "valid", NEW row \in e.fits
             PROVE  LET a == row.key.start
                        b == row.key.end
                    IN /\ a \in QuotaTimes /\ b \in QuotaTimes
                       /\ \/ Reuse!Affected(e, a, b)
                          \/ row.fit = Reuse!FitOf(e.usage, Reuse!Piece(Reuse!Readings(e.quota), a, b))
  BY DEF Reuse!FitsAreTrue
<1> DEFINE a == row.key.start
           b == row.key.end
           w == Reuse!Piece(Reuse!Readings(d.quota), a, b)
           v == Reuse!Piece(Reuse!Readings(e.quota), a, b)
<1>1. /\ a \in QuotaTimes /\ b \in QuotaTimes
      /\ Reuse!Affected(d, a, b) \/ row.fit = Reuse!FitOf(d.usage, w)
  BY DEF Reuse!FitsAreTrue
<1>2. a \in Int /\ b \in Int
  BY <1>1, Moments
<1>3. CASE Reuse!Affected(d, a, b)
  <2> HIDE DEF a, b
  <2>1. e.dirty.from <= d.dirty.from /\ d.dirty.to <= e.dirty.to /\ e.dirty.usage <= d.dirty.usage
    BY DEF Reuse!IsDatabase
  <2>2. Reuse!Affected(e, a, b)
    BY <1>2, <1>3, <2>1, MarksGrow
  <2> QED
    BY <1>1, <2>2 DEF a, b
<1>4. CASE row.fit = Reuse!FitOf(d.usage, w) /\ (b < from \/ to < a)
  <2>1. \A t \in QuotaTimes : a <= t /\ t <= b => d.quota[t] = e.quota[t]
    BY <1>2, <1>4, Moments
  <2>2. w = v
    <3> HIDE DEF a, b
    <3> QED
      BY <2>1, PieceDepends
  <2> QED
    BY <1>1, <1>4, <2>2
<1>5. CASE from <= b /\ a <= to
  BY <1>1, <1>2, <1>5 DEF Reuse!Affected, Reuse!IsDatabase
<1> QED
  BY <1>1, <1>2, <1>3, <1>4, <1>5

(* What does not touch the readings and their journal leaves the state of a *)
(* prefix as true as it was; so does a database that is prepared anew.      *)
LEMMA SlotKept ==
  ASSUME NEW d, NEW e, Reuse!SlotIsTrue(d), Reuse!IsDatabase(d), e.slot = d.slot,
         e.quota = d.quota, e.epoch = d.epoch, e.prepared => d.prepared,
         e.quotaGeneration = d.quotaGeneration, e.journal = d.journal
  PROVE  Reuse!SlotIsTrue(e)
  BY DEF Reuse!SlotIsTrue, Reuse!Complete, Reuse!Since, Reuse!SameAt, Reuse!IsDatabase

LEMMA SlotOfAnEarlierEpoch ==
  ASSUME NEW d, NEW e, Reuse!SlotIsTrue(d), Reuse!IsDatabase(d), e.slot = d.slot,
         e.epoch = d.epoch + 1
  PROVE  Reuse!SlotIsTrue(e)
  BY DEF Reuse!SlotIsTrue, Reuse!IsDatabase

LEMMA SlotUncounted ==
  ASSUME NEW d, NEW e, Reuse!SlotIsTrue(d), e.slot = d.slot, e.epoch = d.epoch, ~e.prepared
  PROVE  Reuse!SlotIsTrue(e)
  BY DEF Reuse!SlotIsTrue

(* A counted change of the readings from a moment on. *)
LEMMA SlotAfterQuota ==
  ASSUME NEW d, NEW e, Reuse!SlotIsTrue(d), Reuse!JournalIsTrue(d),
         Reuse!IsDatabase(d), Reuse!IsDatabase(e), NEW from \in Int, NEW floor \in Int,
         e.slot = d.slot, e.epoch = d.epoch, d.prepared, e.prepared,
         e.quotaGeneration = d.quotaGeneration + 1,
         e.journal = {x \in d.journal : x.at > floor}
                       \cup {[at |-> e.quotaGeneration, start |-> from]},
         \A t \in QuotaTimes : t < from => e.quota[t] = d.quota[t]
  PROVE  Reuse!SlotIsTrue(e) /\ Reuse!JournalIsTrue(e)
<1> DEFINE new == [at |-> e.quotaGeneration, start |-> from]
<1>1. new \in e.journal /\ new.at = e.quotaGeneration /\ new.start = from
  OBVIOUS
<1>2. \A x \in d.journal : x.at \in Nat /\ x.at <= d.quotaGeneration
  BY DEF Reuse!JournalIsTrue, Reuse!IsDatabase
<1>3. d.quotaGeneration \in Nat /\ e.quotaGeneration \in Nat
  BY DEF Reuse!IsDatabase
<1>4. \A x \in e.journal : x = new \/ x \in d.journal
  OBVIOUS
<1>5. Reuse!JournalIsTrue(e)
  <2> HIDE DEF new
  <2> QED
    BY <1>1, <1>2, <1>3, <1>4 DEF Reuse!JournalIsTrue
<1>6. ASSUME e.slot # None, e.slot.dependency[1] = e.epoch, Reuse!Complete(e, e.slot.dependency[3]),
             NEW t \in QuotaTimes, t <= e.slot.end
      PROVE  \/ Reuse!SameAt(t, e.slot.state, e.quota)
             \/ \E x \in Reuse!Since(e, e.slot.dependency[3]) : x.start <= t
  <2> DEFINE g == e.slot.dependency[3]
  <2>1. g \in Nat /\ g <= d.quotaGeneration /\ t \in Int
    BY <1>6, Moments DEF Reuse!SlotIsTrue
  <2>2. new \in Reuse!Since(e, g)
    BY <1>1, <1>3, <2>1 DEF Reuse!Since
  <2>3. CASE from <= t
    BY <1>1, <2>2, <2>3
  <2>4. CASE t < from
    <3>1. ASSUME NEW x \in d.journal, x.at > g
          PROVE  x \in e.journal
      <4>1. PICK y \in e.journal : y.at = x.at
        BY <1>2, <1>3, <1>6, <2>1, <3>1 DEF Reuse!Complete
      <4>2. y \in d.journal
        BY <1>1, <1>2, <1>3, <1>4, <4>1
      <4> QED
        BY <4>1, <4>2 DEF Reuse!JournalIsTrue
    <3>2. Reuse!Complete(d, g)
      <4> SUFFICES ASSUME NEW n \in (g + 1) .. d.quotaGeneration
                   PROVE  \E x \in d.journal : x.at = n
        BY DEF Reuse!Complete
      <4>1. PICK x \in e.journal : x.at = n
        BY <1>3, <1>6, <2>1 DEF Reuse!Complete
      <4> QED
        BY <1>1, <1>3, <1>4, <2>1, <4>1
    <3>3. \A x \in Reuse!Since(d, g) : x \in Reuse!Since(e, g)
      BY <1>2, <1>3, <3>1 DEF Reuse!Since
    <3>4. \/ Reuse!SameAt(t, d.slot.state, d.quota)
          \/ \E x \in Reuse!Since(d, g) : x.start <= t
      BY <1>6, <3>2 DEF Reuse!SlotIsTrue
    <3>5. e.quota[t] = d.quota[t]
      BY <2>4
    <3> QED
      BY <3>3, <3>4, <3>5 DEF Reuse!SameAt
  <2> QED
    BY <2>1, <2>3, <2>4
<1>7. Reuse!SlotIsTrue(e)
  <2> HIDE DEF new
  <2> QED
    BY <1>3, <1>6 DEF Reuse!SlotIsTrue
<1> QED
  BY <1>5, <1>7

-----------------------------------------------------------------------------
(* Which columns a change may touch. *)
Apart(d, e, C) == \A c \in Reuse!Columns \ C : e[c] = d[c]

LEMMA ApartFields ==
  ASSUME NEW d, NEW e, NEW C, Apart(d, e, C)
  PROVE  /\ "revision" \notin C => e.revision = d.revision
         /\ "usage" \notin C => e.usage = d.usage
         /\ "quota" \notin C => e.quota = d.quota
         /\ "prepared" \notin C => e.prepared = d.prepared
         /\ "epoch" \notin C => e.epoch = d.epoch
         /\ "generation" \notin C => e.generation = d.generation
         /\ "quotaGeneration" \notin C => e.quotaGeneration = d.quotaGeneration
         /\ "journal" \notin C => e.journal = d.journal
         /\ "window" \notin C => e.window = d.window
         /\ "dirty" \notin C => e.dirty = d.dirty
         /\ "fits" \notin C => e.fits = d.fits
         /\ "slot" \notin C => e.slot = d.slot
         /\ "report" \notin C => e.report = d.report
  BY DEF Apart, Reuse!Columns

LEMMA MarkedUsage ==
  ASSUME NEW d, Reuse!IsDatabase(d), NEW m \in Int
  PROVE  LET e == Reuse!MarkUsage(d, m)
         IN /\ Reuse!IsDatabase(e) /\ Apart(d, e, {"dirty"})
            /\ d.window = "valid" =>
                 /\ e.dirty.usage <= d.dirty.usage /\ e.dirty.usage <= m
                 /\ e.dirty.from = d.dirty.from /\ e.dirty.to = d.dirty.to
<1> DEFINE new == [usage |-> Reuse!Least(d.dirty.usage, m), from |-> d.dirty.from, to |-> d.dirty.to]
           e == [d EXCEPT !.dirty = new]
<1>1. /\ new \in [usage : Int, from : Int, to : Int]
      /\ new.usage <= d.dirty.usage /\ new.usage <= m
      /\ new.from = d.dirty.from /\ new.to = d.dirty.to
  BY DEF Reuse!IsDatabase, Reuse!Least
<1>2. DOMAIN e = Reuse!Columns /\ e.dirty = new /\ Apart(d, e, {"dirty"})
  <2> HIDE DEF new
  <2> QED
    BY DEF Reuse!IsDatabase, Reuse!Columns, Apart
<1>3. Reuse!IsDatabase(e)
  <2> HIDE DEF new, e
  <2> QED
    BY <1>1, <1>2, ApartFields DEF Reuse!IsDatabase
<1>4. Reuse!MarkUsage(d, m) = IF d.window # "valid" THEN d ELSE e
  BY DEF Reuse!MarkUsage
<1> HIDE DEF new, e
<1> QED
  BY <1>1, <1>2, <1>3, <1>4 DEF Apart

LEMMA MarkedQuota ==
  ASSUME NEW d, Reuse!IsDatabase(d), NEW from \in Int, NEW to \in Int
  PROVE  LET e == Reuse!MarkQuota(d, <<from, to>>)
         IN /\ Reuse!IsDatabase(e) /\ Apart(d, e, {"dirty"})
            /\ d.window = "valid" =>
                 /\ e.dirty.usage = d.dirty.usage
                 /\ e.dirty.from <= d.dirty.from /\ e.dirty.from <= from
                 /\ d.dirty.to <= e.dirty.to /\ to <= e.dirty.to
<1> DEFINE new == [usage |-> d.dirty.usage, from |-> Reuse!Least(d.dirty.from, from),
                   to |-> Reuse!Greatest(d.dirty.to, to)]
           e == [d EXCEPT !.dirty = new]
<1>1. /\ new \in [usage : Int, from : Int, to : Int] /\ new.usage = d.dirty.usage
      /\ new.from <= d.dirty.from /\ new.from <= from
      /\ d.dirty.to <= new.to /\ to <= new.to
  BY DEF Reuse!IsDatabase, Reuse!Least, Reuse!Greatest
<1>2. DOMAIN e = Reuse!Columns /\ e.dirty = new /\ Apart(d, e, {"dirty"})
  <2> HIDE DEF new
  <2> QED
    BY DEF Reuse!IsDatabase, Reuse!Columns, Apart
<1>3. Reuse!IsDatabase(e)
  <2> HIDE DEF new, e
  <2> QED
    BY <1>1, <1>2, ApartFields DEF Reuse!IsDatabase
<1>4. Reuse!MarkQuota(d, <<from, to>>) = IF d.window # "valid" THEN d ELSE e
  BY DEF Reuse!MarkQuota
<1> HIDE DEF new, e
<1> QED
  BY <1>1, <1>2, <1>3, <1>4 DEF Apart

LEMMA CountedChange ==
  ASSUME NEW d, Reuse!IsDatabase(d)
  PROVE  /\ Reuse!IsDatabase(Reuse!CountChange(d))
         /\ Apart(d, Reuse!CountChange(d), {"generation"})
<1> DEFINE e == [d EXCEPT !.generation = d.generation + 1]
<1>1. DOMAIN e = Reuse!Columns /\ e.generation = d.generation + 1 /\ Apart(d, e, {"generation"})
  BY DEF Reuse!IsDatabase, Reuse!Columns, Apart
<1>2. Reuse!IsDatabase(e)
  <2> HIDE DEF e
  <2> QED
    BY <1>1, ApartFields DEF Reuse!IsDatabase
<1>3. Reuse!CountChange(d) = IF d.prepared THEN e ELSE d
  BY DEF Reuse!CountChange
<1> HIDE DEF e
<1> QED
  BY <1>1, <1>2, <1>3 DEF Apart

LEMMA CountedQuotaChange ==
  ASSUME NEW d, Reuse!IsDatabase(d), NEW from \in Int
  PROVE  LET e == Reuse!CountQuotaChange(d, from)
         IN /\ Reuse!IsDatabase(e) /\ Apart(d, e, {"generation", "quotaGeneration", "journal"})
            /\ ~d.prepared => e = d
            /\ d.prepared =>
                 /\ e.quotaGeneration = d.quotaGeneration + 1
                 /\ e.journal = {x \in d.journal : x.at > e.quotaGeneration - JournalLimit}
                                  \cup {[at |-> e.quotaGeneration, start |-> from]}
<1> DEFINE next == d.quotaGeneration + 1
           kept == {x \in d.journal : x.at > next - JournalLimit} \cup {[at |-> next, start |-> from]}
           e1 == [d EXCEPT !.generation = d.generation + 1]
           e2 == [e1 EXCEPT !.quotaGeneration = next]
           e3 == [e2 EXCEPT !.journal = kept]
<1>1. kept \subseteq [at : Nat, start : Int] /\ next \in Nat
  BY DEF Reuse!IsDatabase
<1>2. DOMAIN e1 = Reuse!Columns /\ e1.generation = d.generation + 1 /\ Apart(d, e1, {"generation"})
  BY DEF Reuse!IsDatabase, Reuse!Columns, Apart
<1>3. DOMAIN e2 = Reuse!Columns /\ e2.quotaGeneration = next /\ Apart(e1, e2, {"quotaGeneration"})
  <2> HIDE DEF e1, next
  <2> QED
    BY <1>2 DEF Reuse!Columns, Apart
<1>4. DOMAIN e3 = Reuse!Columns /\ e3.journal = kept /\ Apart(e2, e3, {"journal"})
  <2> HIDE DEF e2, kept
  <2> QED
    BY <1>3 DEF Reuse!Columns, Apart
<1>5. Reuse!CountQuotaChange(d, from) = IF ~d.prepared THEN d ELSE e3
  BY DEF Reuse!CountQuotaChange
<1> HIDE DEF e1, e2, e3
<1>6. /\ Apart(d, e3, {"generation", "quotaGeneration", "journal"})
      /\ e3.generation = d.generation + 1 /\ e3.quotaGeneration = next
  <2> HIDE DEF kept, next
  <2> QED
    BY <1>2, <1>3, <1>4 DEF Reuse!Columns, Apart
<1>7. Reuse!IsDatabase(e3)
  <2> HIDE DEF kept, next
  <2> QED
    BY <1>1, <1>4, <1>6, ApartFields DEF Reuse!IsDatabase
<1> QED
  BY <1>4, <1>5, <1>6, <1>7 DEF Apart

LEMMA TrackingEnsured ==
  ASSUME NEW d, Reuse!IsDatabase(d)
  PROVE  LET e == Reuse!EnsureTracking(d)
         IN /\ Reuse!IsDatabase(e) /\ Apart(d, e, {"window", "fits", "dirty", "report"})
            /\ e.window = "valid"
            /\ d.window = "valid" => e = d
            /\ d.window # "valid" => e.fits = {} /\ e.report = None
<1> DEFINE e1 == [d EXCEPT !.window = "valid"]
           e2 == [e1 EXCEPT !.fits = {}]
           e3 == [e2 EXCEPT !.dirty = Reuse!NoDirt]
           e4 == [e3 EXCEPT !.report = None]
<1>1. DOMAIN e1 = Reuse!Columns /\ e1.window = "valid" /\ Apart(d, e1, {"window"})
  BY DEF Reuse!IsDatabase, Reuse!Columns, Apart
<1>2. DOMAIN e2 = Reuse!Columns /\ e2.fits = {} /\ Apart(e1, e2, {"fits"})
  <2> HIDE DEF e1
  <2> QED
    BY <1>1 DEF Reuse!Columns, Apart
<1>3. DOMAIN e3 = Reuse!Columns /\ e3.dirty = Reuse!NoDirt /\ Apart(e2, e3, {"dirty"})
  <2> HIDE DEF e2
  <2> QED
    BY <1>2 DEF Reuse!Columns, Apart
<1>4. DOMAIN e4 = Reuse!Columns /\ e4.report = None /\ Apart(e3, e4, {"report"})
  <2> HIDE DEF e3
  <2> QED
    BY <1>3 DEF Reuse!Columns, Apart
<1>5. Reuse!EnsureTracking(d) = IF d.window = "valid" THEN d ELSE e4
  BY DEF Reuse!EnsureTracking
<1> HIDE DEF e1, e2, e3, e4
<1>6. /\ Apart(d, e4, {"window", "fits", "dirty", "report"})
      /\ e4.window = "valid" /\ e4.fits = {} /\ e4.dirty = Reuse!NoDirt
  BY <1>1, <1>2, <1>3, <1>4 DEF Reuse!Columns, Apart
<1>7. Reuse!NoDirt \in [usage : Int, from : Int, to : Int]
  BY ReuseAssumption DEF Reuse!NoDirt, Reuse!Unbounded
<1>8. Reuse!IsDatabase(e4)
  BY <1>4, <1>6, <1>7, ApartFields DEF Reuse!IsDatabase
<1> QED
  BY <1>4, <1>5, <1>6, <1>8 DEF Apart

LEMMA WriterPrepared ==
  ASSUME NEW d, Reuse!IsDatabase(d)
  PROVE  LET e == Reuse!PrepareWriter(d)
         IN /\ Reuse!IsDatabase(e) /\ e.prepared
            /\ Apart(d, e, {"prepared", "epoch", "generation", "quotaGeneration", "journal"})
            /\ d.prepared => e = d
            /\ ~d.prepared => e.epoch = d.epoch + 1 /\ e.journal = {}
<1> DEFINE e1 == [d EXCEPT !.prepared = TRUE]
           e2 == [e1 EXCEPT !.epoch = d.epoch + 1]
           e3 == [e2 EXCEPT !.generation = 0]
           e4 == [e3 EXCEPT !.quotaGeneration = 0]
           e5 == [e4 EXCEPT !.journal = {}]
<1>1. DOMAIN e1 = Reuse!Columns /\ e1.prepared = TRUE /\ Apart(d, e1, {"prepared"})
  BY DEF Reuse!IsDatabase, Reuse!Columns, Apart
<1>2. DOMAIN e2 = Reuse!Columns /\ e2.epoch = d.epoch + 1 /\ Apart(e1, e2, {"epoch"})
  <2> HIDE DEF e1
  <2> QED
    BY <1>1 DEF Reuse!Columns, Apart
<1>3. DOMAIN e3 = Reuse!Columns /\ e3.generation = 0 /\ Apart(e2, e3, {"generation"})
  <2> HIDE DEF e2
  <2> QED
    BY <1>2 DEF Reuse!Columns, Apart
<1>4. DOMAIN e4 = Reuse!Columns /\ e4.quotaGeneration = 0 /\ Apart(e3, e4, {"quotaGeneration"})
  <2> HIDE DEF e3
  <2> QED
    BY <1>3 DEF Reuse!Columns, Apart
<1>5. DOMAIN e5 = Reuse!Columns /\ e5.journal = {} /\ Apart(e4, e5, {"journal"})
  <2> HIDE DEF e4
  <2> QED
    BY <1>4 DEF Reuse!Columns, Apart
<1>6. Reuse!PrepareWriter(d) = IF d.prepared THEN d ELSE e5
  <2>1. e1.epoch = d.epoch
    BY <1>1, ApartFields
  <2> QED
    BY DEF Reuse!PrepareWriter
<1> HIDE DEF e1, e2, e3, e4, e5
<1>7. /\ Apart(d, e5, {"prepared", "epoch", "generation", "quotaGeneration", "journal"})
      /\ e5.prepared = TRUE /\ e5.epoch = d.epoch + 1 /\ e5.generation = 0 /\ e5.quotaGeneration = 0
  BY <1>1, <1>2, <1>3, <1>4, <1>5 DEF Reuse!Columns, Apart
<1>8. Reuse!IsDatabase(e5)
  <2>1. e5.prepared \in BOOLEAN
    BY <1>7, Zenon
  <2>2. e5.revision = d.revision /\ e5.usage = d.usage /\ e5.quota = d.quota
        /\ e5.window = d.window /\ e5.dirty = d.dirty
    BY <1>7, ApartFields
  <2> QED
    BY <1>5, <1>7, <2>1, <2>2 DEF Reuse!IsDatabase
<1> QED
  BY <1>5, <1>6, <1>7, <1>8 DEF Apart, Reuse!IsDatabase

-----------------------------------------------------------------------------
(* A database goes on: what is kept stays sound, and what was read from it *)
(* under its identity is still what is there, or has another identity.     *)
GoesOn(d, e) ==
  /\ Reuse!Sound(e) /\ d.revision <= e.revision
  /\ e.revision = d.revision => e.usage = d.usage /\ e.quota = d.quota
  /\ \A id, raw : Reuse!Dated(d, id, raw) => Reuse!Dated(e, id, raw)

LEMMA GoingOnIsTransitive ==
  ASSUME NEW d, NEW e, NEW f, Reuse!IsDatabase(d), GoesOn(d, e), GoesOn(e, f)
  PROVE  GoesOn(d, f)
  BY DEF GoesOn, Reuse!Sound, Reuse!IsDatabase

LEMMA DatedKept ==
  ASSUME NEW d, NEW e, Reuse!IsDatabase(d), Reuse!IsDatabase(e), NEW id, NEW raw,
         Reuse!Dated(d, id, raw),
         \/ e.epoch = d.epoch + 1
         \/ e.epoch = d.epoch /\ ~e.prepared
         \/ e.epoch = d.epoch /\ d.prepared /\ e.quotaGeneration = d.quotaGeneration + 1
         \/ /\ e.epoch = d.epoch
            /\ e.prepared => d.prepared
            /\ e.quotaGeneration = d.quotaGeneration /\ e.quota = d.quota
  PROVE  Reuse!Dated(e, id, raw)
  BY DEF Reuse!Dated, Reuse!IsDatabase

LEMMA FitsKept ==
  ASSUME NEW d, NEW e, Reuse!FitsAreTrue(d), e.window = d.window, e.fits = d.fits,
         e.dirty = d.dirty, e.usage = d.usage, e.quota = d.quota
  PROVE  Reuse!FitsAreTrue(e)
  BY DEF Reuse!FitsAreTrue, Reuse!Affected

LEMMA ReportKept ==
  ASSUME NEW d, NEW e, Reuse!ReportIsTrue(d), e.report = d.report, e.revision = d.revision,
         e.usage = d.usage, e.quota = d.quota
  PROVE  Reuse!ReportIsTrue(e)
  BY DEF Reuse!ReportIsTrue, Reuse!Exact

LEMMA ReportSuperseded ==
  ASSUME NEW d, NEW e, Reuse!IsDatabase(d), Reuse!ReportIsTrue(d), e.report = d.report,
         e.revision = d.revision + 1
  PROVE  Reuse!ReportIsTrue(e)
  BY DEF Reuse!ReportIsTrue, Reuse!IsDatabase

LEMMA JournalKept ==
  ASSUME NEW d, NEW e, Reuse!JournalIsTrue(d), e.journal = d.journal,
         e.quotaGeneration = d.quotaGeneration
  PROVE  Reuse!JournalIsTrue(e)
  BY DEF Reuse!JournalIsTrue

LEMMA EnsuringGoesOn ==
  ASSUME NEW d, Reuse!Sound(d)
  PROVE  GoesOn(d, Reuse!EnsureTracking(d))
<1> DEFINE e == Reuse!EnsureTracking(d)
<1>1. /\ Reuse!IsDatabase(d) /\ Reuse!IsDatabase(e)
      /\ Apart(d, e, {"window", "fits", "dirty", "report"}) /\ e.window = "valid"
      /\ d.window = "valid" => e = d
      /\ d.window # "valid" => e.fits = {} /\ e.report = None
  BY TrackingEnsured DEF Reuse!Sound
<1> HIDE DEF e
<1>2. /\ e.revision = d.revision /\ e.usage = d.usage /\ e.quota = d.quota /\ e.prepared = d.prepared
      /\ e.epoch = d.epoch /\ e.quotaGeneration = d.quotaGeneration /\ e.journal = d.journal
      /\ e.slot = d.slot
  BY <1>1, ApartFields
<1>3. Reuse!FitsAreTrue(e) /\ Reuse!ReportIsTrue(e)
  BY <1>1 DEF Reuse!Sound, Reuse!FitsAreTrue, Reuse!ReportIsTrue
<1>4. Reuse!JournalIsTrue(e) /\ Reuse!SlotIsTrue(e)
  BY <1>1, <1>2, JournalKept, SlotKept DEF Reuse!Sound
<1>5. \A id, raw : Reuse!Dated(d, id, raw) => Reuse!Dated(e, id, raw)
  BY <1>1, <1>2, DatedKept
<1> QED
  BY <1>1, <1>2, <1>3, <1>4, <1>5 DEF GoesOn, Reuse!Sound, Reuse!IsDatabase, e

LEMMA PreparingGoesOn ==
  ASSUME NEW d, Reuse!Sound(d)
  PROVE  GoesOn(d, Reuse!PrepareWriter(d))
<1> DEFINE e == Reuse!PrepareWriter(d)
<1>1. /\ Reuse!IsDatabase(d) /\ Reuse!IsDatabase(e) /\ e.prepared
      /\ Apart(d, e, {"prepared", "epoch", "generation", "quotaGeneration", "journal"})
      /\ d.prepared => e = d
      /\ ~d.prepared => e.epoch = d.epoch + 1 /\ e.journal = {}
  BY WriterPrepared DEF Reuse!Sound
<1> HIDE DEF e
<1>2. /\ e.revision = d.revision /\ e.usage = d.usage /\ e.quota = d.quota /\ e.window = d.window
      /\ e.dirty = d.dirty /\ e.fits = d.fits /\ e.slot = d.slot /\ e.report = d.report
  BY <1>1, ApartFields
<1>3. Reuse!FitsAreTrue(e) /\ Reuse!ReportIsTrue(e)
  BY <1>2, FitsKept, ReportKept DEF Reuse!Sound
<1>4. CASE d.prepared
  BY <1>1, <1>4 DEF Reuse!Sound, GoesOn, Reuse!IsDatabase, e
<1>5. CASE ~d.prepared
  <2>1. Reuse!JournalIsTrue(e)
    BY <1>1, <1>5 DEF Reuse!JournalIsTrue
  <2>2. Reuse!SlotIsTrue(e)
    BY <1>1, <1>2, <1>5, SlotOfAnEarlierEpoch DEF Reuse!Sound
  <2>3. \A id, raw : Reuse!Dated(d, id, raw) => Reuse!Dated(e, id, raw)
    BY <1>1, <1>5, DatedKept
  <2> QED
    BY <1>1, <1>2, <1>3, <2>1, <2>2, <2>3 DEF GoesOn, Reuse!Sound, Reuse!IsDatabase, e
<1> QED
  BY <1>4, <1>5

LEMMA OpeningGoesOn ==
  ASSUME NEW d, Reuse!Sound(d)
  PROVE  LET e == Reuse!Opened(d)
         IN /\ GoesOn(d, e) /\ e.prepared
            /\ e.revision = d.revision /\ e.usage = d.usage /\ e.quota = d.quota
<1> DEFINE m == Reuse!RepairExisting(d)
           e == Reuse!PrepareWriter(m)
<1>1. GoesOn(d, d)
  BY DEF GoesOn, Reuse!Sound, Reuse!IsDatabase
<1>2. GoesOn(d, m)
  BY <1>1, EnsuringGoesOn DEF Reuse!RepairExisting
<1>3. m.revision = d.revision /\ m.usage = d.usage /\ m.quota = d.quota
  <2>1. LET n == Reuse!EnsureTracking(d)
        IN n.revision = d.revision /\ n.usage = d.usage /\ n.quota = d.quota
    BY TrackingEnsured, ApartFields DEF Reuse!Sound
  <2> QED
    BY <2>1 DEF Reuse!RepairExisting
<1> HIDE DEF m
<1>4. GoesOn(m, e)
  BY <1>2, PreparingGoesOn DEF GoesOn
<1>5. /\ e.prepared
      /\ Apart(m, e, {"prepared", "epoch", "generation", "quotaGeneration", "journal"})
  BY <1>2, WriterPrepared DEF GoesOn, Reuse!Sound
<1>6. e = Reuse!Opened(d)
  BY DEF Reuse!Opened, m
<1> HIDE DEF e
<1>7. e.revision = d.revision /\ e.usage = d.usage /\ e.quota = d.quota
  BY <1>3, <1>5, ApartFields
<1>8. GoesOn(d, e)
  BY <1>2, <1>4, GoingOnIsTransitive DEF Reuse!Sound
<1> QED
  BY <1>5, <1>6, <1>7, <1>8

-----------------------------------------------------------------------------
(* A transaction that changes costs from m on, and one that changes         *)
(* readings between from and to.                                            *)
LEMMA UsageGoesOn ==
  ASSUME NEW d, NEW f, Reuse!Sound(d), Reuse!IsDatabase(f), NEW m \in Int,
         f.revision = d.revision + 1,
         f.quota = d.quota, f.window = d.window, f.fits = d.fits, f.slot = d.slot,
         f.report = d.report, f.epoch = d.epoch, f.prepared = d.prepared,
         f.quotaGeneration = d.quotaGeneration, f.journal = d.journal,
         d.window = "valid" =>
           /\ f.dirty.usage <= d.dirty.usage /\ f.dirty.usage <= m
           /\ f.dirty.from = d.dirty.from /\ f.dirty.to = d.dirty.to,
         \A t \in UsageTimes : t < m => f.usage[t] = d.usage[t]
  PROVE  GoesOn(d, f)
<1>1. Reuse!IsDatabase(d) /\ Reuse!FitsAreTrue(d) /\ Reuse!JournalIsTrue(d)
      /\ Reuse!SlotIsTrue(d) /\ Reuse!ReportIsTrue(d)
  BY DEF Reuse!Sound
<1>2. Reuse!FitsAreTrue(f)
  BY <1>1, FitsAfterUsage
<1>3. Reuse!JournalIsTrue(f) /\ Reuse!SlotIsTrue(f)
  BY <1>1, JournalKept, SlotKept
<1>4. Reuse!ReportIsTrue(f)
  BY <1>1, ReportSuperseded
<1>5. \A id, raw : Reuse!Dated(d, id, raw) => Reuse!Dated(f, id, raw)
  BY <1>1, DatedKept
<1> QED
  BY <1>1, <1>2, <1>3, <1>4, <1>5 DEF GoesOn, Reuse!Sound, Reuse!IsDatabase

LEMMA QuotaGoesOn ==
  ASSUME NEW d, NEW f, Reuse!Sound(d), Reuse!IsDatabase(f), NEW from \in Int, NEW to \in Int,
         f.revision = d.revision + 1,
         f.usage = d.usage, f.window = d.window, f.fits = d.fits, f.slot = d.slot,
         f.report = d.report, f.epoch = d.epoch, f.prepared = d.prepared,
         d.window = "valid" =>
           /\ f.dirty.usage = d.dirty.usage
           /\ f.dirty.from <= d.dirty.from /\ f.dirty.from <= from
           /\ d.dirty.to <= f.dirty.to /\ to <= f.dirty.to,
         \A t \in QuotaTimes : t < from \/ to < t => f.quota[t] = d.quota[t],
         ~d.prepared => f.quotaGeneration = d.quotaGeneration /\ f.journal = d.journal,
         d.prepared =>
           /\ f.quotaGeneration = d.quotaGeneration + 1
           /\ f.journal = {x \in d.journal : x.at > f.quotaGeneration - JournalLimit}
                            \cup {[at |-> f.quotaGeneration, start |-> from]}
  PROVE  GoesOn(d, f)
<1>1. Reuse!IsDatabase(d) /\ Reuse!FitsAreTrue(d) /\ Reuse!JournalIsTrue(d)
      /\ Reuse!SlotIsTrue(d) /\ Reuse!ReportIsTrue(d)
  BY DEF Reuse!Sound
<1>2. Reuse!FitsAreTrue(f)
  BY <1>1, FitsAfterQuota
<1>3. Reuse!ReportIsTrue(f)
  BY <1>1, ReportSuperseded
<1>4. Reuse!JournalIsTrue(f) /\ Reuse!SlotIsTrue(f)
  <2>1. CASE d.prepared
    <3> DEFINE floor == f.quotaGeneration - JournalLimit
    <3>1. floor \in Int
      BY ReuseAssumption DEF Reuse!IsDatabase
    <3>2. f.journal = {x \in d.journal : x.at > floor} \cup {[at |-> f.quotaGeneration, start |-> from]}
      BY <2>1
    <3>3. \A t \in QuotaTimes : t < from => f.quota[t] = d.quota[t]
      OBVIOUS
    <3> HIDE DEF floor
    <3> QED
      BY <1>1, <2>1, <3>1, <3>2, <3>3, SlotAfterQuota
  <2>2. CASE ~d.prepared
    BY <1>1, <2>2, JournalKept, SlotUncounted
  <2> QED
    BY <2>1, <2>2
<1>5. \A id, raw : Reuse!Dated(d, id, raw) => Reuse!Dated(f, id, raw)
  BY <1>1, DatedKept
<1> QED
  BY <1>1, <1>2, <1>3, <1>4, <1>5 DEF GoesOn, Reuse!Sound, Reuse!IsDatabase

(* The transaction that writes costs: its triggers, and its revision. *)
Revised(e) == [e EXCEPT !.revision = e.revision + 1]
LEMMA Revising ==
  ASSUME NEW e, Reuse!IsDatabase(e)
  PROVE  /\ Reuse!IsDatabase(Revised(e)) /\ Apart(e, Revised(e), {"revision"})
         /\ Revised(e).revision = e.revision + 1
<1> DEFINE f == Revised(e)
<1>1. DOMAIN f = Reuse!Columns /\ f.revision = e.revision + 1 /\ Apart(e, f, {"revision"})
  BY DEF Reuse!IsDatabase, Reuse!Columns, Apart, Revised
<1> HIDE DEF f
<1>2. Reuse!IsDatabase(f)
  BY <1>1, ApartFields DEF Reuse!IsDatabase
<1> QED
  BY <1>1, <1>2 DEF f

LEMMA UsageWritten ==
  ASSUME NEW d, Reuse!Sound(d), NEW usage \in [UsageTimes -> {0, 1}], NEW m \in Int,
         \A t \in UsageTimes : t < m => usage[t] = d.usage[t]
  PROVE  GoesOn(d, Revised(Reuse!CountChange(Reuse!MarkUsage([d EXCEPT !.usage = usage], m))))
<1> DEFINE a == [d EXCEPT !.usage = usage]
           b == Reuse!MarkUsage(a, m)
           c == Reuse!CountChange(b)
           f == Revised(c)
<1>0. Reuse!IsDatabase(d)
  BY DEF Reuse!Sound
<1>1. DOMAIN a = Reuse!Columns /\ a.usage = usage /\ Apart(d, a, {"usage"})
  BY <1>0 DEF Reuse!IsDatabase, Reuse!Columns, Apart
<1> HIDE DEF a
<1>2. Reuse!IsDatabase(a)
  BY <1>0, <1>1, ApartFields DEF Reuse!IsDatabase
<1>3. /\ Reuse!IsDatabase(b) /\ Apart(a, b, {"dirty"})
      /\ a.window = "valid" =>
           /\ b.dirty.usage <= a.dirty.usage /\ b.dirty.usage <= m
           /\ b.dirty.from = a.dirty.from /\ b.dirty.to = a.dirty.to
  BY <1>2, MarkedUsage
<1> HIDE DEF b
<1>4. Reuse!IsDatabase(c) /\ Apart(b, c, {"generation"})
  BY <1>3, CountedChange
<1> HIDE DEF c
<1>5. Reuse!IsDatabase(f) /\ Apart(c, f, {"revision"}) /\ f.revision = c.revision + 1
  BY <1>4, Revising
<1> HIDE DEF f
<1>6. /\ f.quota = d.quota /\ f.window = d.window /\ f.fits = d.fits /\ f.slot = d.slot
      /\ f.report = d.report /\ f.epoch = d.epoch /\ f.prepared = d.prepared
      /\ f.quotaGeneration = d.quotaGeneration /\ f.journal = d.journal
      /\ f.revision = d.revision + 1 /\ f.usage = usage /\ f.dirty = b.dirty
      /\ a.window = d.window /\ a.dirty = d.dirty
  BY <1>1, <1>3, <1>4, <1>5 DEF Reuse!Columns, Apart
<1>7. d.window = "valid" =>
        /\ f.dirty.usage <= d.dirty.usage /\ f.dirty.usage <= m
        /\ f.dirty.from = d.dirty.from /\ f.dirty.to = d.dirty.to
  BY <1>3, <1>6
<1>8. \A t \in UsageTimes : t < m => f.usage[t] = d.usage[t]
  BY <1>6
<1>9. GoesOn(d, f)
  BY <1>5, <1>6, <1>7, <1>8, UsageGoesOn
<1> QED
  BY <1>9 DEF a, b, c, f

LEMMA QuotaWritten ==
  ASSUME NEW d, Reuse!Sound(d), NEW quota \in [QuotaTimes -> Percents \cup {None}],
         NEW from \in Int, NEW to \in Int,
         \A t \in QuotaTimes : t < from \/ to < t => quota[t] = d.quota[t]
  PROVE  GoesOn(d, Revised(Reuse!CountQuotaChange(
                     Reuse!MarkQuota([d EXCEPT !.quota = quota], <<from, to>>), from)))
<1> DEFINE a == [d EXCEPT !.quota = quota]
           b == Reuse!MarkQuota(a, <<from, to>>)
           c == Reuse!CountQuotaChange(b, from)
           f == Revised(c)
<1>0. Reuse!IsDatabase(d)
  BY DEF Reuse!Sound
<1>1. DOMAIN a = Reuse!Columns /\ a.quota = quota /\ Apart(d, a, {"quota"})
  BY <1>0 DEF Reuse!IsDatabase, Reuse!Columns, Apart
<1> HIDE DEF a
<1>2. Reuse!IsDatabase(a)
  BY <1>0, <1>1, ApartFields DEF Reuse!IsDatabase
<1>3. /\ Reuse!IsDatabase(b) /\ Apart(a, b, {"dirty"})
      /\ a.window = "valid" =>
           /\ b.dirty.usage = a.dirty.usage
           /\ b.dirty.from <= a.dirty.from /\ b.dirty.from <= from
           /\ a.dirty.to <= b.dirty.to /\ to <= b.dirty.to
  BY <1>2, MarkedQuota
<1> HIDE DEF b
<1>4. /\ Reuse!IsDatabase(c) /\ Apart(b, c, {"generation", "quotaGeneration", "journal"})
      /\ ~b.prepared => c = b
      /\ b.prepared =>
           /\ c.quotaGeneration = b.quotaGeneration + 1
           /\ c.journal = {x \in b.journal : x.at > c.quotaGeneration - JournalLimit}
                            \cup {[at |-> c.quotaGeneration, start |-> from]}
  BY <1>3, CountedQuotaChange
<1> HIDE DEF c
<1>5. Reuse!IsDatabase(f) /\ Apart(c, f, {"revision"}) /\ f.revision = c.revision + 1
  BY <1>4, Revising
<1> HIDE DEF f
<1>6. /\ f.usage = d.usage /\ f.window = d.window /\ f.fits = d.fits /\ f.slot = d.slot
      /\ f.report = d.report /\ f.epoch = d.epoch /\ f.prepared = d.prepared
      /\ f.revision = d.revision + 1 /\ f.quota = quota /\ f.dirty = b.dirty
      /\ a.window = d.window /\ a.dirty = d.dirty
      /\ f.journal = c.journal /\ f.quotaGeneration = c.quotaGeneration
      /\ b.prepared = d.prepared /\ b.journal = d.journal /\ b.quotaGeneration = d.quotaGeneration
  <2>1. Apart(b, c, {"generation", "quotaGeneration", "journal"})
    BY <1>4
  <2> QED
    BY <1>1, <1>3, <1>5, <2>1 DEF Reuse!Columns, Apart
<1>7. d.window = "valid" =>
        /\ f.dirty.usage = d.dirty.usage
        /\ f.dirty.from <= d.dirty.from /\ f.dirty.from <= from
        /\ d.dirty.to <= f.dirty.to /\ to <= f.dirty.to
  BY <1>3, <1>6
<1>8. \A t \in QuotaTimes : t < from \/ to < t => f.quota[t] = d.quota[t]
  BY <1>6
<1>9. /\ ~d.prepared => f.quotaGeneration = d.quotaGeneration /\ f.journal = d.journal
      /\ d.prepared =>
           /\ f.quotaGeneration = d.quotaGeneration + 1
           /\ f.journal = {x \in d.journal : x.at > f.quotaGeneration - JournalLimit}
                            \cup {[at |-> f.quotaGeneration, start |-> from]}
  BY <1>4, <1>6
<1>10. GoesOn(d, f)
  BY <1>5, <1>6, <1>7, <1>8, <1>9, QuotaGoesOn
<1> QED
  BY <1>10 DEF a, b, c, f

LEMMA SpanEncloses ==
  ASSUME NEW t \in QuotaTimes, NEW packed \in BOOLEAN
  PROVE  \E from, to \in Int :
           Reuse!Span(t, packed) = <<from, to>> /\ from <= t /\ t <= to
<1>0. t \in 0 .. Horizon /\ Horizon \in Nat
  BY ReuseAssumption
<1>1. CASE packed
  <2>1. /\ -(Horizon + 3) \in Int /\ Horizon + 3 \in Int
        /\ -(Horizon + 3) <= t /\ t <= Horizon + 3
    BY <1>0
  <2>2. Reuse!Span(t, packed) = <<-(Horizon + 3), Horizon + 3>>
    BY <1>1 DEF Reuse!Span, Reuse!Unbounded
  <2> QED
    BY <2>1, <2>2
<1>2. CASE ~packed
  <2>1. /\ 2 * (t \div 2) - 2 \in Int /\ 2 * (t \div 2) + 2 \in Int
        /\ 2 * (t \div 2) - 2 <= t /\ t <= 2 * (t \div 2) + 2
    BY <1>0
  <2>2. Reuse!Span(t, packed) = <<2 * (t \div 2) - 2, 2 * (t \div 2) + 2>>
    BY <1>2 DEF Reuse!Span
  <2> QED
    BY <2>1, <2>2
<1> QED
  BY <1>1, <1>2

LEMMA ChangesGoOn ==
  ASSUME NEW d, Reuse!Sound(d), NEW e \in Reuse!Changes(d)
  PROVE  GoesOn(d, Revised(e))
<1>0. Reuse!IsDatabase(d)
  BY DEF Reuse!Sound
<1>1. ASSUME NEW t \in UsageTimes, NEW v \in {0, 1}, e = Reuse!UsageChange(d, t, v)
      PROVE  GoesOn(d, Revised(e))
  <2> DEFINE usage == [d.usage EXCEPT ![t] = v]
  <2>1. usage \in [UsageTimes -> {0, 1}] /\ t \in Int /\ \A u \in UsageTimes : u < t => usage[u] = d.usage[u]
    BY <1>0, Moments DEF Reuse!IsDatabase
  <2>2. e = Reuse!CountChange(Reuse!MarkUsage([d EXCEPT !.usage = usage], t))
    BY <1>1 DEF Reuse!UsageChange
  <2> HIDE DEF usage
  <2> QED
    BY <2>1, <2>2, UsageWritten
<1>2. ASSUME e = Reuse!Withdrawal(d)
      PROVE  GoesOn(d, Revised(e))
  <2> DEFINE usage == [t \in UsageTimes |-> 0]
             recorded == {t \in UsageTimes : d.usage[t] # 0}
             start == IF recorded = {} THEN Reuse!Unbounded ELSE Reuse!Earliest(recorded)
  <2>1. usage \in [UsageTimes -> {0, 1}]
    OBVIOUS
  <2>2. recorded \in SUBSET (0 .. Horizon) /\ recorded \subseteq UsageTimes
    BY ReuseAssumption
  <2>3. start \in Int /\ \A t \in recorded : start <= t
    <3>1. CASE recorded = {}
      BY <3>1, ReuseAssumption DEF Reuse!Unbounded
    <3>2. CASE recorded # {}
      <4>1. Reuse!Earliest(recorded) \in recorded /\ \A t \in recorded : Reuse!Earliest(recorded) <= t
        <5> HIDE DEF recorded
        <5> QED
          BY <2>2, <3>2, Extremes
      <4> QED
        BY <2>2, <3>2, <4>1, Moments
    <3> QED
      BY <3>1, <3>2
  <2>4. \A t \in UsageTimes : t < start => usage[t] = d.usage[t]
    <3> SUFFICES ASSUME NEW t \in UsageTimes, t < start
                 PROVE  usage[t] = d.usage[t]
      OBVIOUS
    <3>1. t \notin recorded
      <4> HIDE DEF start, recorded
      <4> QED
        BY <2>3, Moments
    <3> QED
      BY <3>1
  <2>5. e = Reuse!CountChange(Reuse!MarkUsage([d EXCEPT !.usage = usage], start))
    BY <1>2 DEF Reuse!Withdrawal
  <2> HIDE DEF usage, start
  <2> QED
    BY <2>1, <2>3, <2>4, <2>5, UsageWritten
<1>3. ASSUME NEW t \in QuotaTimes, NEW p \in Percents \cup {None}, NEW packed \in BOOLEAN,
             e = Reuse!QuotaChange(d, t, p, packed)
      PROVE  GoesOn(d, Revised(e))
  <2> DEFINE quota == [d.quota EXCEPT ![t] = p]
  <2>1. PICK from, to \in Int : Reuse!Span(t, packed) = <<from, to>> /\ from <= t /\ t <= to
    BY SpanEncloses
  <2>2. quota \in [QuotaTimes -> Percents \cup {None}]
    BY <1>0 DEF Reuse!IsDatabase
  <2>3. \A u \in QuotaTimes : u < from \/ to < u => quota[u] = d.quota[u]
    BY <1>0, <2>1, Moments DEF Reuse!IsDatabase
  <2>4. Reuse!Span(t, packed)[1] = from
    BY <2>1
  <2>5. e = Reuse!CountQuotaChange(Reuse!MarkQuota([d EXCEPT !.quota = quota], <<from, to>>), from)
    BY <1>3, <2>1, <2>4 DEF Reuse!QuotaChange
  <2> HIDE DEF quota
  <2> QED
    BY <2>2, <2>3, <2>5, QuotaWritten
<1> QED
  BY <1>1, <1>2, <1>3 DEF Reuse!Changes

-----------------------------------------------------------------------------
(* The results of a report are kept. *)
LEMMA PublishingGoesOn ==
  ASSUME NEW d, NEW mine, Reuse!Sound(d), d.prepared, mine.revision = d.revision,
         mine.answer = Reuse!Exact(d), mine.dependency = Reuse!Token(d)
  PROVE  GoesOn(d, Reuse!Published(d, mine))
<1> DEFINE b == Reuse!EnsureTracking(d)
           pace == mine.answer.pace
           rows == {[key |-> Reuse!Key(fit[1]), fit |-> fit] : fit \in mine.answer.fits}
           slot == IF DOMAIN pace = {} THEN b.slot
                   ELSE [dependency |-> mine.dependency, count |-> Reuse!Cardinality(DOMAIN pace),
                         end |-> Reuse!Latest(DOMAIN pace), state |-> pace]
           report == IF DOMAIN pace = {} THEN b.report
                     ELSE [revision |-> mine.revision, value |-> mine.answer]
           e1 == [b EXCEPT !.fits = rows]
           e2 == [e1 EXCEPT !.dirty = Reuse!NoDirt]
           e3 == [e2 EXCEPT !.slot = slot]
           e4 == [e3 EXCEPT !.report = report]
<1>0. /\ GoesOn(d, b) /\ Reuse!IsDatabase(b) /\ Apart(d, b, {"window", "fits", "dirty", "report"})
      /\ b.window = "valid"
  BY EnsuringGoesOn, TrackingEnsured DEF Reuse!Sound
<1>1. Reuse!Published(d, mine) = e4
  BY DEF Reuse!Published
<1> HIDE DEF b
<1>2. DOMAIN e1 = Reuse!Columns /\ e1.fits = rows /\ Apart(b, e1, {"fits"})
  <2> HIDE DEF rows
  <2> QED
    BY <1>0 DEF Reuse!IsDatabase, Reuse!Columns, Apart
<1>3. DOMAIN e2 = Reuse!Columns /\ e2.dirty = Reuse!NoDirt /\ Apart(e1, e2, {"dirty"})
  <2> HIDE DEF e1
  <2> QED
    BY <1>2 DEF Reuse!Columns, Apart
<1>4. DOMAIN e3 = Reuse!Columns /\ e3.slot = slot /\ Apart(e2, e3, {"slot"})
  <2> HIDE DEF e2, slot
  <2> QED
    BY <1>3 DEF Reuse!Columns, Apart
<1>5. DOMAIN e4 = Reuse!Columns /\ e4.report = report /\ Apart(e3, e4, {"report"})
  <2> HIDE DEF e3, report
  <2> QED
    BY <1>4 DEF Reuse!Columns, Apart
<1> HIDE DEF e1, e2, e3, e4
<1>6. /\ Apart(b, e4, {"fits", "dirty", "slot", "report"})
      /\ e4.fits = rows /\ e4.dirty = Reuse!NoDirt /\ e4.slot = slot
  <2> HIDE DEF rows, slot
  <2> QED
    BY <1>2, <1>3, <1>4, <1>5 DEF Reuse!Columns, Apart
<1>7. /\ b.revision = d.revision /\ b.usage = d.usage /\ b.quota = d.quota /\ b.prepared = d.prepared
      /\ b.epoch = d.epoch /\ b.generation = d.generation
      /\ b.quotaGeneration = d.quotaGeneration /\ b.journal = d.journal
  <2> HIDE DEF rows, slot, report, pace
  <2>1. Apart(d, b, {"window", "fits", "dirty", "report"})
    BY <1>0
  <2> QED
    BY <2>1 DEF Apart, Reuse!Columns
<1>8. /\ e4.revision = d.revision /\ e4.usage = d.usage /\ e4.quota = d.quota /\ e4.prepared = d.prepared
      /\ e4.epoch = d.epoch /\ e4.quotaGeneration = d.quotaGeneration /\ e4.journal = d.journal
      /\ e4.window = b.window
  <2>1. /\ e4.revision = b.revision /\ e4.usage = b.usage /\ e4.quota = b.quota
        /\ e4.prepared = b.prepared /\ e4.epoch = b.epoch
        /\ e4.quotaGeneration = b.quotaGeneration /\ e4.journal = b.journal
        /\ e4.window = b.window
    BY <1>6, ApartFields
  <2> QED
    BY <1>7, <2>1
<1>9. Reuse!IsDatabase(e4)
  <2>1. Reuse!NoDirt \in [usage : Int, from : Int, to : Int]
    BY ReuseAssumption DEF Reuse!NoDirt, Reuse!Unbounded
  <2>2. e4.generation = b.generation
    BY <1>6, ApartFields
  <2> HIDE DEF rows, slot
  <2> QED
    BY <1>0, <1>5, <1>6, <1>7, <1>8, <2>1, <2>2 DEF Reuse!IsDatabase
<1>10. pace = Reuse!Readings(d.quota) /\ DOMAIN pace = {u \in QuotaTimes : d.quota[u] # None}
  BY DEF Reuse!Exact, Reuse!Readings
<1>11. Reuse!FitsAreTrue(e4)
  <2> SUFFICES ASSUME NEW row \in rows
               PROVE  /\ row.key.start \in QuotaTimes /\ row.key.end \in QuotaTimes
                      /\ row.fit = Reuse!FitOf(e4.usage, Reuse!Piece(Reuse!Readings(e4.quota),
                                                                     row.key.start, row.key.end))
    BY <1>6 DEF Reuse!FitsAreTrue
  <2>1. PICK fit \in mine.answer.fits : row = [key |-> Reuse!Key(fit[1]), fit |-> fit]
    OBVIOUS
  <2>2. PICK w \in Reuse!WindowsOf(Reuse!Readings(d.quota)) : fit = Reuse!FitOf(d.usage, w)
    BY DEF Reuse!Exact
  <2>3. PICK a \in DOMAIN Reuse!Readings(d.quota), c \in DOMAIN Reuse!Readings(d.quota) :
          w = Reuse!Piece(Reuse!Readings(d.quota), a, c)
    BY <2>2 DEF Reuse!WindowsOf
  <2>4. a \in QuotaTimes /\ c \in QuotaTimes
    BY DEF Reuse!Readings
  <2>5. w.start = a /\ w.end = c /\ fit[1] = w
    BY <2>2, <2>3, PieceEnds DEF Reuse!FitOf
  <2>6. Reuse!Key(w).start = a /\ Reuse!Key(w).end = c
    BY <2>5 DEF Reuse!Key
  <2> QED
    BY <1>8, <2>1, <2>2, <2>3, <2>4, <2>5, <2>6
<1>12. Reuse!ReportIsTrue(e4)
  <2>1. CASE DOMAIN pace = {}
    <3>1. Reuse!ReportIsTrue(b)
      BY <1>0 DEF GoesOn, Reuse!Sound
    <3> QED
      BY <1>5, <1>7, <1>8, <2>1, <3>1, ReportKept
  <2>2. CASE DOMAIN pace # {}
    <3>1. e4.report.revision = d.revision /\ e4.report.value = Reuse!Exact(d)
      BY <1>5, <2>2
    <3>2. Reuse!Exact(e4) = Reuse!Exact(d)
      BY <1>8 DEF Reuse!Exact
    <3> QED
      BY <1>8, <1>9, <3>1, <3>2 DEF Reuse!ReportIsTrue, Reuse!IsDatabase
  <2> QED
    BY <2>1, <2>2
<1>13. Reuse!SlotIsTrue(e4)
  <2>1. CASE DOMAIN pace = {}
    <3>1. Reuse!SlotIsTrue(b)
      BY <1>0 DEF GoesOn, Reuse!Sound
    <3> QED
      BY <1>0, <1>6, <1>7, <1>8, <2>1, <3>1, SlotKept
  <2>2. CASE DOMAIN pace # {}
    <3>1. /\ e4.slot.dependency = <<d.epoch, d.generation, d.quotaGeneration>>
          /\ e4.slot.end = Reuse!Latest(DOMAIN pace) /\ e4.slot.state = pace
      BY <1>6, <2>2 DEF Reuse!Token
    <3>2. DOMAIN pace \in SUBSET (0 .. Horizon)
      BY <1>10, ReuseAssumption
    <3>3. e4.slot.end \in DOMAIN pace /\ \A t \in DOMAIN pace : t <= e4.slot.end
      <4> HIDE DEF pace
      <4> QED
        BY <2>2, <3>1, <3>2, Extremes
    <3>4. \A t \in QuotaTimes : Reuse!SameAt(t, e4.slot.state, e4.quota)
      BY <1>8, <1>10, <3>1 DEF Reuse!SameAt, Reuse!Readings
    <3>5. /\ e4.slot.dependency[1] = e4.epoch /\ e4.slot.dependency[3] = e4.quotaGeneration
          /\ e4.epoch \in Nat /\ e4.quotaGeneration \in Nat
      BY <1>8, <1>9, <3>1 DEF Reuse!IsDatabase
    <3> HIDE DEF slot
    <3> QED
      BY <1>10, <3>1, <3>3, <3>4, <3>5 DEF Reuse!SlotIsTrue
  <2> QED
    BY <2>1, <2>2
<1>14. Reuse!JournalIsTrue(e4)
  BY <1>8, JournalKept DEF Reuse!Sound
<1>15. \A id, raw : Reuse!Dated(d, id, raw) => Reuse!Dated(e4, id, raw)
  BY <1>8, <1>9, DatedKept DEF Reuse!Sound
<1> QED
  BY <1>1, <1>8, <1>9, <1>11, <1>12, <1>13, <1>14, <1>15 DEF GoesOn, Reuse!Sound, Reuse!IsDatabase

-----------------------------------------------------------------------------
(* What a report takes from earlier work is what it would compute. *)
LEMMA FitsAreExact ==
  ASSUME NEW d, Reuse!Sound(d), NEW w \in Reuse!WindowsOf(Reuse!Readings(d.quota))
  PROVE  Reuse!Fit(d, w) = Reuse!FitOf(d.usage, w)
<1> SUFFICES ASSUME Reuse!Reusable(d, w) # {}
             PROVE  Reuse!Fit(d, w) = Reuse!FitOf(d.usage, w)
  BY DEF Reuse!Fit
<1>1. PICK row \in Reuse!Reusable(d, w) : Reuse!Fit(d, w) = row.fit
  BY DEF Reuse!Fit
<1>2. /\ row \in d.fits /\ d.window = "valid" /\ row.key = Reuse!Key(w)
      /\ ~Reuse!Affected(d, w.start, w.end)
  BY DEF Reuse!Reusable
<1>3. PICK a \in DOMAIN Reuse!Readings(d.quota), b \in DOMAIN Reuse!Readings(d.quota) :
        w = Reuse!Piece(Reuse!Readings(d.quota), a, b)
  BY DEF Reuse!WindowsOf
<1>4. w.start = a /\ w.end = b
  BY <1>3, PieceEnds
<1>5. row.key.start = a /\ row.key.end = b
  BY <1>2, <1>4 DEF Reuse!Key
<1>6. row.fit = Reuse!FitOf(d.usage, Reuse!Piece(Reuse!Readings(d.quota), a, b))
  BY <1>2, <1>4, <1>5 DEF Reuse!Sound, Reuse!FitsAreTrue
<1> QED
  BY <1>1, <1>3, <1>6

LEMMA PaceIsExact ==
  ASSUME NEW d, Reuse!Sound(d)
  PROVE  Reuse!Pace(d, Reuse!Readings(d.quota)) = Reuse!Readings(d.quota)
<1> DEFINE s == Reuse!Readings(d.quota)
           state == d.slot.state
           end == d.slot.end
           g == d.slot.dependency[3]
           S == DOMAIN state \cup {u \in DOMAIN s : u > end}
<1> SUFFICES ASSUME Reuse!Restores(d, s)
             PROVE  [t \in S |-> IF t \in DOMAIN state THEN state[t] ELSE s[t]] = s
  BY DEF Reuse!Pace
<1>1. /\ d.slot # None /\ d.prepared /\ d.slot.dependency[1] = d.epoch
      /\ d.quotaGeneration - g \in 0 .. JournalLimit
      /\ Reuse!Cardinality(Reuse!Since(d, g)) = d.quotaGeneration - g
      /\ \A e \in Reuse!Since(d, g) : e.start > end
  BY DEF Reuse!Restores, Reuse!PrefixUnchanged
<1>2. /\ g \in Nat /\ end \in QuotaTimes
      /\ \A t \in DOMAIN state : t \in QuotaTimes /\ t <= end
  BY <1>1 DEF Reuse!Sound, Reuse!SlotIsTrue
<1>3. Reuse!Complete(d, g)
  <2> HIDE DEF g
  <2> QED
    BY <1>1, <1>2, AllAreThere DEF Reuse!Sound
<1>4. ASSUME NEW t \in QuotaTimes, t <= end
      PROVE  Reuse!SameAt(t, state, d.quota)
  <2>1. \/ Reuse!SameAt(t, state, d.quota)
        \/ \E e \in Reuse!Since(d, g) : e.start <= t
    BY <1>1, <1>3, <1>4 DEF Reuse!Sound, Reuse!SlotIsTrue
  <2>2. ASSUME NEW e \in Reuse!Since(d, g)
        PROVE  ~(e.start <= t)
    <3>1. e.start \in Int
      BY DEF Reuse!Since, Reuse!Sound, Reuse!IsDatabase
    <3>2. t \in Int /\ end \in Int
      BY <1>2, Moments
    <3>3. e.start > end
      BY <1>1
    <3> HIDE DEF end
    <3> QED
      BY <1>4, <3>1, <3>2, <3>3
  <2> QED
    BY <2>1, <2>2
<1>5. DOMAIN s = {u \in QuotaTimes : d.quota[u] # None} /\ \A t \in DOMAIN s : s[t] = d.quota[t]
  BY DEF Reuse!Readings
<1>6. \A t \in QuotaTimes : t <= end \/ t > end
  <2> HIDE DEF end
  <2> QED
    BY <1>2, Moments
<1>7. S = DOMAIN s
  <2> HIDE DEF s, state, end
  <2> QED
    BY <1>2, <1>4, <1>5, <1>6 DEF Reuse!SameAt
<1>8. \A t \in S : (IF t \in DOMAIN state THEN state[t] ELSE s[t]) = s[t]
  <2> HIDE DEF s, state, end
  <2> QED
    BY <1>2, <1>4, <1>5 DEF Reuse!SameAt
<1>9. s = [t \in DOMAIN s |-> s[t]]
  BY DEF Reuse!Readings
<1> HIDE DEF S, s, state, end
<1> QED
  BY <1>7, <1>8, <1>9

LEMMA AnswersAreExact ==
  ASSUME NEW d, Reuse!Sound(d), NEW s, s = Reuse!Readings(d.quota)
  PROVE  [fits |-> {Reuse!Fit(d, w) : w \in Reuse!WindowsOf(s)}, pace |-> Reuse!Pace(d, s)]
           = Reuse!Exact(d)
<1>1. {Reuse!Fit(d, w) : w \in Reuse!WindowsOf(s)} = {Reuse!FitOf(d.usage, w) : w \in Reuse!WindowsOf(s)}
  BY FitsAreExact
<1>2. Reuse!Pace(d, s) = s
  BY PaceIsExact
<1> QED
  BY <1>1, <1>2 DEF Reuse!Exact

-----------------------------------------------------------------------------
(* The steps. *)
LEMMA CountingGoesOn ==
  ASSUME NEW d, Reuse!Sound(d)
  PROVE  GoesOn(d, Reuse!CountChange(d))
<1> DEFINE e == Reuse!CountChange(d)
<1>1. Reuse!IsDatabase(d) /\ Reuse!IsDatabase(e) /\ Apart(d, e, {"generation"})
  BY CountedChange DEF Reuse!Sound
<1> HIDE DEF e
<1>2. /\ e.revision = d.revision /\ e.usage = d.usage /\ e.quota = d.quota /\ e.prepared = d.prepared
      /\ e.epoch = d.epoch /\ e.quotaGeneration = d.quotaGeneration /\ e.journal = d.journal
      /\ e.window = d.window /\ e.dirty = d.dirty /\ e.fits = d.fits /\ e.slot = d.slot
      /\ e.report = d.report
  BY <1>1 DEF Apart, Reuse!Columns
<1>3. /\ Reuse!FitsAreTrue(e) /\ Reuse!ReportIsTrue(e) /\ Reuse!JournalIsTrue(e)
      /\ Reuse!SlotIsTrue(e)
  BY <1>1, <1>2, FitsKept, ReportKept, JournalKept, SlotKept DEF Reuse!Sound
<1>4. \A id, raw : Reuse!Dated(d, id, raw) => Reuse!Dated(e, id, raw)
  BY <1>1, <1>2, DatedKept
<1> QED
  BY <1>1, <1>2, <1>3, <1>4 DEF GoesOn, Reuse!Sound, Reuse!IsDatabase, e

LEMMA LosingGoesOn ==
  ASSUME NEW d, Reuse!Sound(d), NEW e,
         e = [d EXCEPT !.window = "broken"] \/ e = [d EXCEPT !.prepared = FALSE]
  PROVE  GoesOn(d, e)
<1>0. Reuse!IsDatabase(d)
  BY DEF Reuse!Sound
<1>1. CASE e = [d EXCEPT !.window = "broken"]
  <2>1. DOMAIN e = Reuse!Columns /\ e.window = "broken" /\ Apart(d, e, {"window"})
    BY <1>0, <1>1 DEF Reuse!IsDatabase, Reuse!Columns, Apart
  <2> HIDE <1>1
  <2>2. /\ e.revision = d.revision /\ e.usage = d.usage /\ e.quota = d.quota
        /\ e.prepared = d.prepared /\ e.epoch = d.epoch /\ e.generation = d.generation
        /\ e.quotaGeneration = d.quotaGeneration /\ e.journal = d.journal
        /\ e.dirty = d.dirty /\ e.fits = d.fits /\ e.slot = d.slot /\ e.report = d.report
    BY <2>1 DEF Apart, Reuse!Columns
  <2>3. Reuse!IsDatabase(e)
    BY <1>0, <2>1, <2>2 DEF Reuse!IsDatabase
  <2>4. Reuse!FitsAreTrue(e)
    BY <2>1 DEF Reuse!FitsAreTrue
  <2>5. Reuse!ReportIsTrue(e) /\ Reuse!JournalIsTrue(e) /\ Reuse!SlotIsTrue(e)
    BY <1>0, <2>2, ReportKept, JournalKept, SlotKept DEF Reuse!Sound
  <2>6. \A id, raw : Reuse!Dated(d, id, raw) => Reuse!Dated(e, id, raw)
    BY <1>0, <2>2, <2>3, DatedKept
  <2> QED
    BY <1>0, <2>2, <2>3, <2>4, <2>5, <2>6 DEF GoesOn, Reuse!Sound, Reuse!IsDatabase
<1>2. CASE e = [d EXCEPT !.prepared = FALSE]
  <2>1. DOMAIN e = Reuse!Columns /\ e.prepared = FALSE /\ Apart(d, e, {"prepared"})
    BY <1>0, <1>2 DEF Reuse!IsDatabase, Reuse!Columns, Apart
  <2> HIDE <1>2
  <2>2. /\ e.revision = d.revision /\ e.usage = d.usage /\ e.quota = d.quota
        /\ e.window = d.window /\ e.epoch = d.epoch /\ e.generation = d.generation
        /\ e.quotaGeneration = d.quotaGeneration /\ e.journal = d.journal
        /\ e.dirty = d.dirty /\ e.fits = d.fits /\ e.slot = d.slot /\ e.report = d.report
    BY <2>1 DEF Apart, Reuse!Columns
  <2>3. e.prepared \in BOOLEAN /\ ~e.prepared
    BY <2>1, Zenon
  <2>4. Reuse!IsDatabase(e)
    BY <1>0, <2>1, <2>2, <2>3 DEF Reuse!IsDatabase
  <2>5. Reuse!FitsAreTrue(e) /\ Reuse!ReportIsTrue(e) /\ Reuse!JournalIsTrue(e)
    BY <2>2, FitsKept, ReportKept, JournalKept DEF Reuse!Sound
  <2>6. Reuse!SlotIsTrue(e)
    BY <2>2, <2>3, SlotUncounted DEF Reuse!Sound
  <2>7. \A id, raw : Reuse!Dated(d, id, raw) => Reuse!Dated(e, id, raw)
    BY <1>0, <2>2, <2>3, <2>4, DatedKept
  <2> QED
    BY <1>0, <2>2, <2>4, <2>5, <2>6, <2>7 DEF GoesOn, Reuse!Sound, Reuse!IsDatabase
<1> QED
  BY <1>1, <1>2

(* What was pinned or worked out stays past while the database goes on. *)
LEMMA PastStays ==
  ASSUME NEW d, NEW e, NEW s, Reuse!IsDatabase(d), GoesOn(d, e)
  PROVE  /\ Reuse!SnapshotIsPast(s, d) => Reuse!SnapshotIsPast(s, e)
         /\ Reuse!AnswerIsPast(s, d) => Reuse!AnswerIsPast(s, e)
<1>1. d.revision \in Nat /\ e.revision \in Nat /\ d.revision <= e.revision
  BY DEF GoesOn, Reuse!Sound, Reuse!IsDatabase
<1>2. e.revision = d.revision => e.usage = d.usage /\ e.quota = d.quota /\ Reuse!Exact(e) = Reuse!Exact(d)
  BY DEF GoesOn, Reuse!Exact
<1>3. ASSUME Reuse!SnapshotIsPast(s, d)
      PROVE  Reuse!SnapshotIsPast(s, e)
  <2>1. s.revision \in Nat
    BY <1>3 DEF Reuse!SnapshotIsPast, Reuse!Sound, Reuse!IsDatabase
  <2>2. Reuse!Dated(e, Reuse!Identity(s), Reuse!Readings(s.quota))
    BY <1>3 DEF Reuse!SnapshotIsPast, GoesOn
  <2> QED
    BY <1>1, <1>2, <1>3, <2>1, <2>2 DEF Reuse!SnapshotIsPast
<1>4. ASSUME Reuse!AnswerIsPast(s, d)
      PROVE  Reuse!AnswerIsPast(s, e)
  BY <1>1, <1>2, <1>4 DEF Reuse!AnswerIsPast
<1> QED
  BY <1>3, <1>4

LEMMA DatabaseMoves ==
  ASSUME Reuse!ReuseInv, GoesOn(db, db'), reader' = reader, memo' = memo
  PROVE  Reuse!ReuseInv'
<1>1. Reuse!IsDatabase(db) /\ Reuse!Sound(db')
  BY DEF Reuse!ReuseInv, Reuse!Sound, GoesOn
<1>2. Reuse!ReadersArePast'
  <2> SUFFICES ASSUME NEW r \in Readers
               PROVE  /\ reader[r].phase \in {"idle", "pinned", "prepared"}
                      /\ reader[r].phase = "pinned" => Reuse!SnapshotIsPast(reader[r].snapshot, db')
                      /\ reader[r].phase = "prepared" => Reuse!AnswerIsPast(reader[r], db')
    BY DEF Reuse!ReadersArePast, Reuse!Pins
  <2> QED
    BY <1>1, PastStays DEF Reuse!ReuseInv, Reuse!ReadersArePast, Reuse!Pins
<1>3. Reuse!MemoIsPast'
  BY DEF Reuse!ReuseInv, Reuse!MemoIsPast, GoesOn
<1>4. Reuse!IdentityDecides'
  BY DEF Reuse!ReuseInv, Reuse!IdentityDecides, Reuse!Pins
<1> QED
  BY <1>1, <1>2, <1>3, <1>4 DEF Reuse!ReuseInv

LEMMA CollectorsMove ==
  ASSUME Reuse!ReuseInv, Reuse!Collect \/ Reuse!Touch \/ Reuse!LoseTracking
  PROVE  GoesOn(db, db') /\ reader' = reader /\ memo' = memo
<1>0. Reuse!Sound(db) /\ Reuse!IsDatabase(db)
  BY DEF Reuse!ReuseInv, Reuse!Sound
<1>1. CASE Reuse!Collect
  <2>1. PICK from \in {db, Reuse!Opened(db)} : \E to \in Reuse!Changes(from) : db' = Revised(to)
    BY <1>1 DEF Reuse!Collect, Revised
  <2>2. PICK to \in Reuse!Changes(from) : db' = Revised(to)
    BY <2>1
  <2>3. Reuse!Sound(from) /\ (from = db \/ GoesOn(db, from))
    BY <1>0, <2>1, OpeningGoesOn DEF GoesOn
  <2>4. GoesOn(from, db')
    BY <2>2, <2>3, ChangesGoOn
  <2>5. GoesOn(db, db')
    BY <1>0, <2>3, <2>4, GoingOnIsTransitive
  <2> QED
    BY <1>1, <2>5 DEF Reuse!Collect
<1>2. CASE Reuse!Touch
  <2>1. GoesOn(db, Reuse!Opened(db)) /\ Reuse!Sound(Reuse!Opened(db))
    BY <1>0, OpeningGoesOn DEF GoesOn
  <2>2. GoesOn(Reuse!Opened(db), Reuse!CountChange(Reuse!Opened(db)))
    BY <2>1, CountingGoesOn
  <2> QED
    BY <1>0, <1>2, <2>1, <2>2, GoingOnIsTransitive DEF Reuse!Touch
<1>3. CASE Reuse!LoseTracking
  <2>1. db' = [db EXCEPT !.window = "broken"] \/ db' = [db EXCEPT !.prepared = FALSE]
    BY <1>3 DEF Reuse!LoseTracking
  <2>2. GoesOn(db, db')
    BY <1>0, <2>1, LosingGoesOn
  <2> QED
    BY <1>3, <2>2 DEF Reuse!LoseTracking
<1> QED
  BY <1>1, <1>2, <1>3

LEMMA StartsPin ==
  ASSUME Reuse!ReuseInv, NEW r \in Readers, Reuse!Start(r)
  PROVE  Reuse!ReuseInv'
<1> DEFINE d == IF db.prepared THEN db ELSE Reuse!Opened(db)
<1>0. Reuse!Sound(db) /\ Reuse!IsDatabase(db) /\ GoesOn(db, db)
  BY DEF Reuse!ReuseInv, Reuse!Sound, GoesOn, Reuse!IsDatabase
<1>1. GoesOn(db, d) /\ d.prepared
  BY <1>0, OpeningGoesOn
<1>2. /\ db' = d /\ memo' = memo
      /\ reader' = [reader EXCEPT ![r] = [phase |-> "pinned", snapshot |-> d]]
  BY DEF Reuse!Start
<1>3. PICK s : s = d
  OBVIOUS
<1> HIDE DEF d
<1>4. GoesOn(db, s) /\ s.prepared /\ db' = s /\ Reuse!Sound(s)
  BY <1>1, <1>2, <1>3 DEF GoesOn
<1>5. /\ DOMAIN reader' = Readers
      /\ reader'[r].phase = "pinned" /\ reader'[r].snapshot = s
      /\ \A o \in Readers : o # r => reader'[o] = reader[o]
  BY <1>2, <1>3 DEF Reuse!ReuseInv
<1>6. Reuse!Dated(s, Reuse!Identity(s), Reuse!Readings(s.quota))
  BY <1>4 DEF Reuse!Dated, Reuse!Identity, Reuse!Sound, Reuse!IsDatabase
<1>7. Reuse!SnapshotIsPast(s, s)
  BY <1>4, <1>6 DEF Reuse!SnapshotIsPast, Reuse!Sound, Reuse!IsDatabase
<1>8. \A o \in Readers : /\ reader[o].phase \in {"idle", "pinned", "prepared"}
                         /\ reader[o].phase = "pinned" => Reuse!SnapshotIsPast(reader[o].snapshot, s)
                         /\ reader[o].phase = "prepared" => Reuse!AnswerIsPast(reader[o], s)
  BY <1>0, <1>4, PastStays DEF Reuse!ReuseInv, Reuse!ReadersArePast, Reuse!Pins
<1>9. Reuse!ReadersArePast'
  BY <1>4, <1>5, <1>7, <1>8 DEF Reuse!ReadersArePast, Reuse!Pins
<1>10. memo # None => Reuse!Dated(s, memo.key, memo.raw)
  BY <1>4 DEF Reuse!ReuseInv, Reuse!MemoIsPast, GoesOn
<1>11. Reuse!MemoIsPast'
  BY <1>2, <1>4, <1>10 DEF Reuse!MemoIsPast
<1>12. Reuse!IdentityDecides'
  <2>1. Reuse!Identity(s) = <<s.epoch, s.quotaGeneration>>
    BY <1>4 DEF Reuse!Identity
  <2>2. \A raw : Reuse!Dated(s, Reuse!Identity(s), raw) => raw = Reuse!Readings(s.quota)
    BY <1>4, <2>1 DEF Reuse!Dated
  <2>3. memo # None /\ memo.key = Reuse!Identity(s) => memo.raw = Reuse!Readings(s.quota)
    BY <1>10, <2>2
  <2>4. ASSUME NEW o \in Readers, reader[o].phase = "pinned",
               Reuse!Identity(reader[o].snapshot) = Reuse!Identity(s)
        PROVE  Reuse!Readings(reader[o].snapshot.quota) = Reuse!Readings(s.quota)
    BY <1>8, <2>2, <2>4 DEF Reuse!SnapshotIsPast
  <2> QED
    BY <1>2, <1>5, <2>3, <2>4 DEF Reuse!ReuseInv, Reuse!IdentityDecides, Reuse!Pins
<1> QED
  BY <1>4, <1>5, <1>9, <1>11, <1>12 DEF Reuse!ReuseInv

(* What a request prepares is what it would compute from nothing.          *)
LEMMA PreparesExactly ==
  ASSUME Reuse!ReuseInv, NEW r \in Readers, Reuse!Prepare(r), NEW d, d = reader[r].snapshot
  PROVE  /\ Reuse!Raw(d) = Reuse!Readings(d.quota)
         /\ Reuse!CachedReport(d) => d.report.value = Reuse!Exact(d)
         /\ ~Reuse!CachedReport(d) => reader'[r].answer = Reuse!Exact(d)
<1>0. Reuse!Pins(r) /\ Reuse!Sound(d)
  BY DEF Reuse!Prepare, Reuse!ReuseInv, Reuse!ReadersArePast, Reuse!Pins, Reuse!SnapshotIsPast
<1>1. Reuse!Raw(d) = Reuse!Readings(d.quota)
  BY <1>0 DEF Reuse!Raw, Reuse!ReuseInv, Reuse!IdentityDecides
<1>2. Reuse!CachedReport(d) => d.report.value = Reuse!Exact(d)
  BY <1>0 DEF Reuse!CachedReport, Reuse!Sound, Reuse!ReportIsTrue
<1>3. ASSUME ~Reuse!CachedReport(d)
      PROVE  reader'[r].answer = Reuse!Exact(d)
  <2> DEFINE s == Reuse!Raw(d)
             answer == [fits |-> {Reuse!Fit(d, w) : w \in Reuse!WindowsOf(s)}, pace |-> Reuse!Pace(d, s)]
  <2>1. reader' = [reader EXCEPT ![r] = [phase |-> "prepared", revision |-> d.revision,
                                         dependency |-> Reuse!Token(d), answer |-> answer]]
    BY <1>3 DEF Reuse!Prepare
  <2>2. answer = Reuse!Exact(d)
    <3>1. PICK raw : raw = s
      OBVIOUS
    <3>2. [fits |-> {Reuse!Fit(d, w) : w \in Reuse!WindowsOf(raw)}, pace |-> Reuse!Pace(d, raw)]
            = Reuse!Exact(d)
      BY <1>0, <1>1, <3>1, AnswersAreExact
    <3> QED
      BY <3>1, <3>2
  <2> HIDE DEF answer
  <2> QED
    BY <2>1, <2>2 DEF Reuse!ReuseInv
<1> QED
  BY <1>1, <1>2, <1>3

LEMMA PreparesKeepThePast ==
  ASSUME Reuse!ReuseInv, NEW r \in Readers, Reuse!Prepare(r)
  PROVE  Reuse!ReuseInv'
<1>1. PICK d : d = reader[r].snapshot
  OBVIOUS
<1>2. /\ Reuse!Raw(d) = Reuse!Readings(d.quota)
      /\ ~Reuse!CachedReport(d) => reader'[r].answer = Reuse!Exact(d)
  BY <1>1, PreparesExactly
<1>3. /\ Reuse!Pins(r) /\ Reuse!SnapshotIsPast(d, db) /\ Reuse!Sound(d) /\ Reuse!Sound(db)
      /\ Reuse!IsDatabase(d) /\ Reuse!IsDatabase(db)
  BY <1>1 DEF Reuse!Prepare, Reuse!ReuseInv, Reuse!ReadersArePast, Reuse!Pins,
              Reuse!SnapshotIsPast, Reuse!Sound
<1>4. db' = db
  BY DEF Reuse!Prepare
<1>5. CASE Reuse!CachedReport(d)
  <2>1. reader' = [reader EXCEPT ![r] = Reuse!NoReader] /\ memo' = memo
    BY <1>1, <1>5 DEF Reuse!Prepare
  <2>2. /\ DOMAIN reader' = Readers /\ reader'[r].phase = "idle"
        /\ \A o \in Readers : o # r => reader'[o] = reader[o]
    BY <2>1 DEF Reuse!ReuseInv, Reuse!NoReader
  <2>3. Reuse!ReadersArePast'
    BY <1>4, <2>2 DEF Reuse!ReuseInv, Reuse!ReadersArePast, Reuse!Pins
  <2>4. Reuse!MemoIsPast'
    BY <1>4, <2>1 DEF Reuse!ReuseInv, Reuse!MemoIsPast
  <2>5. Reuse!IdentityDecides'
    BY <2>1, <2>2 DEF Reuse!ReuseInv, Reuse!IdentityDecides, Reuse!Pins
  <2> QED
    BY <1>3, <1>4, <2>2, <2>3, <2>4, <2>5 DEF Reuse!ReuseInv
<1>6. CASE ~Reuse!CachedReport(d)
  <2>1. /\ DOMAIN reader' = Readers /\ reader'[r].phase = "prepared"
        /\ reader'[r].revision = d.revision
        /\ \A o \in Readers : o # r => reader'[o] = reader[o]
    BY <1>1, <1>6 DEF Reuse!Prepare, Reuse!ReuseInv
  <2>2. \/ memo' = memo
        \/ memo'.key = Reuse!Identity(d) /\ memo'.raw = Reuse!Readings(d.quota)
    BY <1>1, <1>2, <1>6 DEF Reuse!Prepare
  <2>3. Reuse!AnswerIsPast(reader'[r], db)
    <3>1. d.revision \in Nat /\ d.revision <= db.revision
      BY <1>3 DEF Reuse!SnapshotIsPast, Reuse!IsDatabase
    <3>2. d.revision = db.revision => Reuse!Exact(d) = Reuse!Exact(db)
      BY <1>3 DEF Reuse!SnapshotIsPast, Reuse!Exact
    <3> QED
      BY <1>2, <1>6, <2>1, <3>1, <3>2 DEF Reuse!AnswerIsPast
  <2>4. Reuse!ReadersArePast'
    BY <1>4, <2>1, <2>3 DEF Reuse!ReuseInv, Reuse!ReadersArePast, Reuse!Pins
  <2>5. Reuse!MemoIsPast'
    BY <1>3, <1>4, <2>2 DEF Reuse!ReuseInv, Reuse!MemoIsPast, Reuse!SnapshotIsPast
  <2>6. Reuse!IdentityDecides'
    BY <1>1, <1>3, <2>1, <2>2 DEF Reuse!ReuseInv, Reuse!IdentityDecides, Reuse!Pins
  <2> QED
    BY <1>3, <1>4, <2>1, <2>4, <2>5, <2>6 DEF Reuse!ReuseInv
<1> QED
  BY <1>5, <1>6

LEMMA PublishesKeepThePast ==
  ASSUME Reuse!ReuseInv, NEW r \in Readers, Reuse!Publish(r)
  PROVE  Reuse!ReuseInv'
<1>1. PICK d : d = Reuse!Opened(db)
  OBVIOUS
<1>2. PICK mine : mine = reader[r]
  OBVIOUS
<1>3. /\ db' = IF Reuse!Publishable(d, mine) THEN Reuse!Published(d, mine) ELSE d
      /\ reader' = [reader EXCEPT ![r] = Reuse!NoReader] /\ memo' = memo
      /\ mine.phase = "prepared"
  BY <1>1, <1>2 DEF Reuse!Publish
<1>4. Reuse!Sound(db) /\ Reuse!IsDatabase(db) /\ Reuse!AnswerIsPast(mine, db)
  BY <1>2, <1>3 DEF Reuse!ReuseInv, Reuse!ReadersArePast, Reuse!Sound
<1>5. /\ GoesOn(db, d) /\ d.prepared /\ Reuse!Sound(d)
      /\ d.revision = db.revision /\ d.usage = db.usage /\ d.quota = db.quota
  BY <1>1, <1>4, OpeningGoesOn DEF GoesOn
<1>6. GoesOn(db, db')
  <2>1. CASE Reuse!Publishable(d, mine)
    <3>1. mine.revision = d.revision /\ mine.dependency = Reuse!Token(d)
      BY <2>1 DEF Reuse!Publishable
    <3>2. mine.answer = Reuse!Exact(d)
      BY <1>4, <1>5, <3>1 DEF Reuse!AnswerIsPast, Reuse!Exact
    <3>3. GoesOn(d, Reuse!Published(d, mine))
      BY <1>5, <3>1, <3>2, PublishingGoesOn
    <3> QED
      BY <1>3, <1>4, <1>5, <2>1, <3>3, GoingOnIsTransitive
  <2>2. CASE ~Reuse!Publishable(d, mine)
    BY <1>3, <1>5, <2>2
  <2> QED
    BY <2>1, <2>2
<1>7. /\ DOMAIN reader' = Readers /\ reader'[r].phase = "idle"
      /\ \A o \in Readers : o # r => reader'[o] = reader[o]
  BY <1>3 DEF Reuse!ReuseInv, Reuse!NoReader
<1>8. \A o \in Readers : /\ reader[o].phase \in {"idle", "pinned", "prepared"}
                         /\ reader[o].phase = "pinned" => Reuse!SnapshotIsPast(reader[o].snapshot, db')
                         /\ reader[o].phase = "prepared" => Reuse!AnswerIsPast(reader[o], db')
  BY <1>4, <1>6, PastStays DEF Reuse!ReuseInv, Reuse!ReadersArePast, Reuse!Pins
<1>9. Reuse!ReadersArePast'
  BY <1>7, <1>8 DEF Reuse!ReadersArePast, Reuse!Pins
<1>10. Reuse!MemoIsPast'
  BY <1>3, <1>6 DEF Reuse!ReuseInv, Reuse!MemoIsPast, GoesOn
<1>11. Reuse!IdentityDecides'
  BY <1>3, <1>7 DEF Reuse!ReuseInv, Reuse!IdentityDecides, Reuse!Pins
<1> QED
  BY <1>6, <1>7, <1>9, <1>10, <1>11 DEF Reuse!ReuseInv, GoesOn

LEMMA RestartsForget ==
  ASSUME Reuse!ReuseInv, Reuse!Restart
  PROVE  Reuse!ReuseInv'
<1>1. /\ db' = db /\ memo' = None /\ DOMAIN reader' = Readers
      /\ \A o \in Readers : reader'[o].phase = "idle"
  BY DEF Reuse!Restart, Reuse!NoReader
<1> QED
  BY <1>1 DEF Reuse!ReuseInv, Reuse!ReadersArePast, Reuse!MemoIsPast, Reuse!IdentityDecides, Reuse!Pins

LEMMA ReuseStep ==
  ASSUME Reuse!ReuseInv, Reuse!Next
  PROVE  Reuse!ReuseInv'
<1>1. CASE Reuse!Collect \/ Reuse!Touch \/ Reuse!LoseTracking
  BY <1>1, CollectorsMove, DatabaseMoves
<1>2. ASSUME NEW r \in Readers, Reuse!Start(r) \/ Reuse!Prepare(r) \/ Reuse!Publish(r)
      PROVE  Reuse!ReuseInv'
  BY <1>2, StartsPin, PreparesKeepThePast, PublishesKeepThePast
<1>3. CASE Reuse!Restart
  BY <1>3, RestartsForget
<1> QED
  BY <1>1, <1>2, <1>3 DEF Reuse!Next

LEMMA ReuseInit ==
  ASSUME Reuse!Init
  PROVE  Reuse!ReuseInv
<1>1. PICK usage \in [UsageTimes -> {0, 1}], quota \in [QuotaTimes -> Percents \cup {None}] :
        db = [revision |-> 0, usage |-> usage, quota |-> quota,
              prepared |-> TRUE, epoch |-> 0, generation |-> 0, quotaGeneration |-> 0, journal |-> {},
              window |-> "none", dirty |-> Reuse!NoDirt, fits |-> {}, slot |-> None, report |-> None]
  BY DEF Reuse!Init
<1>2. Reuse!NoDirt \in [usage : Int, from : Int, to : Int]
  BY ReuseAssumption DEF Reuse!NoDirt, Reuse!Unbounded
<1>3. DOMAIN db = Reuse!Columns
  <2> HIDE DEF Reuse!NoDirt
  <2> QED
    BY <1>1 DEF Reuse!Columns
<1>4. /\ db.revision = 0 /\ db.usage = usage /\ db.quota = quota /\ db.prepared = TRUE
      /\ db.epoch = 0 /\ db.generation = 0 /\ db.quotaGeneration = 0 /\ db.journal = {}
      /\ db.window = "none" /\ db.dirty = Reuse!NoDirt /\ db.fits = {} /\ db.slot = None
      /\ db.report = None
  BY <1>1
<1>5. db.prepared \in BOOLEAN
  BY <1>4, Zenon
<1>6. Reuse!IsDatabase(db)
  BY <1>2, <1>3, <1>4, <1>5 DEF Reuse!IsDatabase
<1>7. /\ Reuse!JournalIsTrue(db) /\ Reuse!FitsAreTrue(db) /\ Reuse!SlotIsTrue(db)
      /\ Reuse!ReportIsTrue(db)
  BY <1>4 DEF Reuse!JournalIsTrue, Reuse!FitsAreTrue, Reuse!SlotIsTrue, Reuse!ReportIsTrue
<1>8. /\ memo = None /\ DOMAIN reader = Readers /\ \A r \in Readers : reader[r].phase = "idle"
  BY DEF Reuse!Init, Reuse!NoReader
<1>9. Reuse!ReadersArePast /\ Reuse!MemoIsPast /\ Reuse!IdentityDecides
  BY <1>8 DEF Reuse!ReadersArePast, Reuse!MemoIsPast, Reuse!IdentityDecides, Reuse!Pins
<1> QED
  BY <1>6, <1>7, <1>8, <1>9 DEF Reuse!ReuseInv, Reuse!Sound

LEMMA StepsReuseExactly ==
  ASSUME Reuse!ReuseInv
  PROVE  Reuse!ReusesExactly
<1> SUFFICES ASSUME NEW r \in Readers, Reuse!Prepare(r)
             PROVE  LET d == reader[r].snapshot
                    IN IF Reuse!CachedReport(d) THEN d.report.value = Reuse!Exact(d)
                       ELSE reader'[r].answer = Reuse!Exact(d)
  BY DEF Reuse!ReusesExactly
<1> QED
  BY PreparesExactly

LEMMA ReuseStutters ==
  ASSUME Reuse!ReuseInv, UNCHANGED Reuse!vars
  PROVE  Reuse!ReuseInv'
<1>1. db' = db /\ memo' = memo /\ reader' = reader
  BY DEF Reuse!vars
<1>2. GoesOn(db, db)
  BY DEF Reuse!ReuseInv, GoesOn, Reuse!Sound, Reuse!IsDatabase
<1> QED
  BY <1>1, <1>2, DatabaseMoves

(* For any moments, readings, requests and length of the journal, and       *)
(* however collectors of any version, repairs and other requests come       *)
(* between a snapshot and its publication: a report equals the one worked   *)
(* out from nothing.                                                        *)
THEOREM ReportsAreExact == MCSpec => ReuseIsExact
<1> DEFINE Inv == machine = "reuse" => Reuse!ReuseInv
<1>1. MCInit => Inv
  BY ReuseInit DEF MCInit
<1>2. Inv /\ [MCNext]_allVars => Inv'
  <2> SUFFICES ASSUME Inv, [MCNext]_allVars, machine' = "reuse" PROVE Reuse!ReuseInv'
    OBVIOUS
  <2>1. machine = "reuse"
    BY DEF MCNext, allVars
  <2>2. [Reuse!Next]_(Reuse!vars)
    BY <2>1 DEF MCNext, allVars, ofReuse, Reuse!vars
  <2> QED
    BY <2>1, <2>2, ReuseStep, ReuseStutters
<1>3. Inv => (machine = "reuse" => Reuse!ReuseInv /\ Reuse!ReusesExactly)
  BY StepsReuseExactly
<1> QED
  BY <1>1, <1>2, <1>3, PTL DEF MCSpec, ReuseIsExact

(* The same from any ledger, whatever it holds before it is tracked.        *)
THEOREM ReportsOfAnyLedgerAreExact == Reuse!Spec => Reuse!ReuseIsExact
<1>1. Reuse!ReuseInv /\ [Reuse!Next]_(Reuse!vars) => Reuse!ReuseInv'
  BY ReuseStep, ReuseStutters
<1> QED
  BY <1>1, ReuseInit, StepsReuseExactly, PTL DEF Reuse!Spec, Reuse!ReuseIsExact

=============================================================================
