--------------------- MODULE StorageMaintenance_proofs ----------------------
(***************************************************************************)
(* Nothing that was written to the ledger is forgotten by the idle         *)
(* maintenance, whatever the number of handlers, operations and restarts.  *)
(*                                                                         *)
(* MaintenanceInv is inductive.  A clean log has to be explained by the    *)
(* attempt that settled it, so the invariant says what a settling attempt  *)
(* knows: as long as its generation is the current one, nothing was        *)
(* announced since it began, and whatever it did not copy or free belongs  *)
(* to an operation that has not announced itself yet.                      *)
(***************************************************************************)
EXTENDS StorageMaintenance, TLAPS

(* What an announcement does: a release leaves the attempt alone, a write   *)
(* or a request to reclaim outdates it, and nothing happens once closed.   *)
LEMMA EventEffect ==
  ASSUME TypeOK, NEW event \in {"write", "reclaim", "reader_release"},
         Event(event)
  PROVE  \/ UNCHANGED <<pending, reclaim, generation>>
         \/ ~closed /\ pending' /\ generation' = generation + 1
<1>1. CASE closed
  BY <1>1 DEF Event, flags
<1>2. CASE ~closed /\ event = "reader_release"
  <2>1. reclaim' = reclaim /\ pending' = pending
    <3>1. reclaim' = (reclaim \/ FALSE) /\ pending' = (pending \/ FALSE)
      BY <1>2 DEF Event
    <3> QED
      BY <3>1, Zenon DEF TypeOK
  <2>2. generation' = generation
    BY <1>2 DEF Event, TypeOK
  <2> QED
    BY <2>1, <2>2
<1>3. CASE ~closed /\ event # "reader_release"
  <2>1. pending'
    BY <1>3 DEF Event
  <2>2. generation' = generation + 1
    BY <1>3 DEF Event, TypeOK
  <2> QED
    BY <2>1, <2>2, <1>3
<1> QED
  BY <1>1, <1>2, <1>3

(* A connection that closes keeps its operation registered, and what the   *)
(* database does to the log then only copies and frees.                    *)
LEMMA LeaveEffect ==
  ASSUME TypeOK, NEW t \in Threads, Leave(t)
  PROVE  /\ \A u \in Threads :
              /\ ops[u] # None => /\ ops'[u] # None
                                 /\ ops'[u].kind = ops[u].kind
              /\ ops[u] # None /\ ops[u].step # "reclaim" =>
                   ops'[u].step # "reclaim"
         /\ copied => copied'
         /\ owed' => owed
<1>1. \A u \in Threads :
        /\ ops[u] # None => ops'[u] # None /\ ops'[u].kind = ops[u].kind
        /\ ops[u] # None /\ ops[u].step # "reclaim" =>
             ops'[u].step # "reclaim"
  BY NoneAssumption DEF Leave, TypeOK, Operations
<1>2. \/ UNCHANGED log
      \/ copied' = TRUE /\ UNCHANGED <<empty, owed>>
      \/ copied' = TRUE /\ empty' = TRUE /\ owed' = FALSE
  BY DEF Leave
<1>3. copied => copied'
  BY <1>2 DEF log
<1>4. owed' => owed
  BY <1>2 DEF log
<1> QED
  BY <1>1, <1>3, <1>4

-----------------------------------------------------------------------------
LEMMA MaintenanceInvInit == Init => MaintenanceInv
<1> SUFFICES ASSUME Init PROVE MaintenanceInv
  OBVIOUS
<1>1. TypeOK
  <2>1. ops \in [Threads -> Operations \cup {None}]
    BY DEF Init
  <2>2. /\ copied \in BOOLEAN /\ empty \in BOOLEAN /\ owed \in BOOLEAN
        /\ pending \in BOOLEAN /\ reclaim \in BOOLEAN /\ due \in BOOLEAN
        /\ queued \in BOOLEAN /\ closed \in BOOLEAN
        /\ attached \in BOOLEAN /\ laneClosed \in BOOLEAN
    BY DEF Init
  <2> QED
    BY <2>1, <2>2 DEF Init, TypeOK
<1>2. CleanMeansCopied /\ ReclaimKept /\ NotStranded /\ NoCheckpointAfterStop
  BY DEF Init, CleanMeansCopied, ReclaimKept, NotStranded,
         NoCheckpointAfterStop
<1>3. TruncateCopiesNothing /\ AttemptIsOfItsTime /\ EmptyMeansCopied
  BY DEF Init, TruncateCopiesNothing, AttemptIsOfItsTime, EmptyMeansCopied, At
<1>4. CompleteMeansCopied /\ ReclaimedMeansFreed /\ TruncationExcludesWriters
  BY DEF Init, CompleteMeansCopied, ReclaimedMeansFreed,
         TruncationExcludesWriters, At, Current
<1>5. SubmittedJobExists /\ StoppedIsClosed
  BY DEF Init, SubmittedJobExists, StoppedIsClosed
<1> QED
  BY <1>1, <1>2, <1>3, <1>4, <1>5 DEF MaintenanceInv

(* One step per action; under it the conjuncts it can disturb, then the    *)
(* ones whose variables it leaves alone.                                   *)
LEMMA MaintenanceInvStep == MaintenanceInv /\ [Next]_vars => MaintenanceInv'
<1> SUFFICES ASSUME TypeOK, CleanMeansCopied, ReclaimKept,
   TruncateCopiesNothing, NotStranded, NoCheckpointAfterStop,
   AttemptIsOfItsTime, EmptyMeansCopied, CompleteMeansCopied,
   ReclaimedMeansFreed, TruncationExcludesWriters, SubmittedJobExists,
   StoppedIsClosed, [Next]_vars
             PROVE  MaintenanceInv'
  BY DEF MaintenanceInv
<1>1. ASSUME NEW t \in Threads, NEW kind \in {"read", "write", "rebuild"}, Open(t, kind)
      PROVE  MaintenanceInv'
  <2>1. TypeOK'
    <3>1. /\ ops' \in [Threads -> Operations \cup {None}]
          /\ work' \in Nat
      BY <1>1, TypeOK
         DEF Open, AdmissionFree, Writing, flags, lane, log, LaneBusy,
             TypeOK, Operations, Threads
    <3> QED
      BY <1>1, TypeOK, <3>1 DEF Open, TypeOK, flags, lane, log, bounds
  <2>2. CleanMeansCopied'
    BY <1>1, CleanMeansCopied
       DEF Open, Writing, flags, log, CleanMeansCopied, Unannounced
  <2>3. ReclaimKept'
    BY <1>1, ReclaimKept DEF Open, flags, log, ReclaimKept
  <2>4. CompleteMeansCopied'
    BY <1>1, CompleteMeansCopied
       DEF Open, Writing, flags, log, CompleteMeansCopied, Current, At,
           Unannounced
  <2>5. ReclaimedMeansFreed'
    BY <1>1, ReclaimedMeansFreed
       DEF Open, flags, log, ReclaimedMeansFreed, Current, At
  <2>6. TruncationExcludesWriters'
    BY <1>1, TruncationExcludesWriters
       DEF Open, AdmissionFree, Writing, TruncationExcludesWriters, At
  <2>7. TruncateCopiesNothing' /\ NotStranded' /\ NoCheckpointAfterStop' /\
     AttemptIsOfItsTime' /\ EmptyMeansCopied' /\ SubmittedJobExists' /\
     StoppedIsClosed'
    BY <1>1, TruncateCopiesNothing, NotStranded, NoCheckpointAfterStop,
       AttemptIsOfItsTime, EmptyMeansCopied, SubmittedJobExists,
       StoppedIsClosed
       DEF Open, flags, lane, log, TruncateCopiesNothing, At, NotStranded,
           NoCheckpointAfterStop, AttemptIsOfItsTime, EmptyMeansCopied,
           SubmittedJobExists, StoppedIsClosed
  <2> QED
    BY <2>1, <2>2, <2>3, <2>4, <2>5, <2>6, <2>7 DEF MaintenanceInv
<1>2. ASSUME NEW t \in Threads, Commit(t)
      PROVE  MaintenanceInv'
  <2>1. TypeOK'
    <3>1. /\ copied' \in BOOLEAN
          /\ empty' \in BOOLEAN
          /\ owed' \in BOOLEAN
      BY <1>2, TypeOK DEF Commit, Writing, flags, lane, bounds, TypeOK
    <3> QED
      BY <1>2, TypeOK, <3>1 DEF Commit, TypeOK, flags, lane, log, bounds
  <2>2. CleanMeansCopied'
    BY <1>2, CleanMeansCopied
       DEF Commit, Writing, CleanMeansCopied, Unannounced
  <2>3. ReclaimKept'
    BY <1>2, ReclaimKept DEF Commit, Writing, flags, ReclaimKept
  <2>4. TruncateCopiesNothing'
    BY <1>2, TruncateCopiesNothing, TruncationExcludesWriters
       DEF Commit, TruncateCopiesNothing, At, TruncationExcludesWriters
  <2>5. EmptyMeansCopied'
    BY <1>2, EmptyMeansCopied DEF Commit, EmptyMeansCopied
  <2>6. CompleteMeansCopied'
    BY <1>2, CompleteMeansCopied
       DEF Commit, Writing, CompleteMeansCopied, Unannounced
  <2>7. ReclaimedMeansFreed'
    BY <1>2, ReclaimedMeansFreed
       DEF Commit, Writing, flags, ReclaimedMeansFreed, Current, At
  <2>8. NotStranded' /\ NoCheckpointAfterStop' /\ AttemptIsOfItsTime' /\
     TruncationExcludesWriters' /\ SubmittedJobExists' /\ StoppedIsClosed'
    BY <1>2, NotStranded, NoCheckpointAfterStop, AttemptIsOfItsTime,
       TruncationExcludesWriters, SubmittedJobExists, StoppedIsClosed
       DEF Commit, flags, lane, NotStranded, NoCheckpointAfterStop,
           AttemptIsOfItsTime, TruncationExcludesWriters, At,
           SubmittedJobExists, StoppedIsClosed
  <2> QED
    BY <2>1, <2>2, <2>3, <2>4, <2>5, <2>6, <2>7, <2>8 DEF MaintenanceInv
<1>3. ASSUME NEW t \in Threads, Leave(t)
      PROVE  MaintenanceInv'
  <2>1. TypeOK'
    <3>1. /\ copied' \in BOOLEAN
          /\ empty' \in BOOLEAN
          /\ owed' \in BOOLEAN
      BY <1>3, TypeOK
         DEF Leave, Writing, flags, lane, log, bounds, TypeOK, Operations,
             Threads
    <3>2. ops' \in [Threads -> Operations \cup {None}]
      BY <1>3, TypeOK
         DEF Leave, Writing, flags, lane, log, bounds, TypeOK, Operations,
             Threads
    <3> QED
      BY <1>3, TypeOK, <3>1, <3>2 DEF Leave, TypeOK, flags, lane, log, bounds
  <2>2. CleanMeansCopied'
    BY <1>3, TypeOK, LeaveEffect, CleanMeansCopied
       DEF Leave, CleanMeansCopied, flags, Unannounced, Writing
  <2>3. ReclaimKept'
    BY <1>3, TypeOK, LeaveEffect, ReclaimKept
       DEF Leave, ReclaimKept, flags
  <2>4. TruncateCopiesNothing'
    BY <1>3, TypeOK, LeaveEffect, TruncateCopiesNothing
       DEF Leave, TruncateCopiesNothing, At
  <2>5. EmptyMeansCopied'
    <3>1. CASE UNCHANGED log
      BY <3>1, EmptyMeansCopied DEF EmptyMeansCopied, log
    <3>2. CASE copied' = TRUE /\ UNCHANGED <<empty, owed>>
      BY <3>2, EmptyMeansCopied DEF EmptyMeansCopied
    <3>3. CASE copied' = TRUE /\ empty' = TRUE /\ owed' = FALSE
      BY <3>3 DEF EmptyMeansCopied
    <3> QED
      BY <1>3, <3>1, <3>2, <3>3 DEF Leave
  <2>6. CompleteMeansCopied'
    BY <1>3, TypeOK, LeaveEffect, CompleteMeansCopied
       DEF Leave, CompleteMeansCopied, flags, Current, At, Unannounced, Writing
  <2>7. ReclaimedMeansFreed'
    BY <1>3, TypeOK, LeaveEffect, ReclaimedMeansFreed
       DEF Leave, ReclaimedMeansFreed, flags, Current, At
  <2>8. TruncationExcludesWriters'
    BY <1>3, TruncationExcludesWriters
       DEF Leave, Writing, TruncationExcludesWriters, At
  <2>9. NotStranded' /\ NoCheckpointAfterStop' /\ AttemptIsOfItsTime' /\
     SubmittedJobExists' /\ StoppedIsClosed'
    BY <1>3, NotStranded, NoCheckpointAfterStop, AttemptIsOfItsTime,
       SubmittedJobExists, StoppedIsClosed
       DEF Leave, flags, lane, NotStranded, NoCheckpointAfterStop,
           AttemptIsOfItsTime, SubmittedJobExists, StoppedIsClosed
  <2> QED
    BY <2>1, <2>2, <2>3, <2>4, <2>5, <2>6, <2>7, <2>8, <2>9 DEF MaintenanceInv
<1>4. ASSUME NEW t \in Threads, Announce(t)
      PROVE  MaintenanceInv'
  <2>1. TypeOK'
    <3>1. /\ pending' \in BOOLEAN
          /\ reclaim' \in BOOLEAN
          /\ due' \in BOOLEAN
      BY <1>4, TypeOK
         DEF Announce, Event, Writing, flags, lane, log, bounds, TypeOK,
             Operations, Threads
    <3>2. /\ generation' \in Nat
          /\ ops' \in [Threads -> Operations \cup {None}]
      BY <1>4, TypeOK
         DEF Announce, Event, Writing, flags, lane, log, bounds, TypeOK,
             Operations, Threads
    <3> QED
      BY <1>4, TypeOK, <3>1, <3>2
         DEF Announce, TypeOK, flags, lane, log, bounds
  <2>2. CleanMeansCopied'
    BY <1>4, TypeOK, CleanMeansCopied
       DEF Announce, Event, Writing, log, CleanMeansCopied, Unannounced,
           TypeOK
  <2>3. ReclaimKept'
    <3>1. reclaim => reclaim'
      BY <1>4 DEF Announce, Event, flags
    <3>2. \A u \in Threads : ops[u] # None /\ ops[u].kind = "rebuild" =>
                             ops'[u] # None /\ ops'[u].kind = "rebuild"
      BY <1>4, TypeOK, NoneAssumption DEF Announce, TypeOK, Operations
    <3> QED
      BY <1>4, <3>1, <3>2, ReclaimKept DEF ReclaimKept, Announce, log
  <2>4. AttemptIsOfItsTime'
    <3>1. generation \in Nat /\ (worker # None => worker.generation \in Nat)
      BY TypeOK DEF TypeOK, Attempts
    <3>2. UNCHANGED <<reclaim, generation>> \/ generation' = generation + 1
      BY <1>4, TypeOK, EventEffect DEF Announce
    <3> QED
      BY <1>4, <3>1, <3>2, AttemptIsOfItsTime DEF AttemptIsOfItsTime, Announce
  <2>5. CompleteMeansCopied'
    BY <1>4, TypeOK, AttemptIsOfItsTime, CompleteMeansCopied
       DEF Announce, Event, Writing, log, CompleteMeansCopied, Current, At,
           Unannounced, TypeOK, AttemptIsOfItsTime
  <2>6. ReclaimedMeansFreed'
    BY <1>4, TypeOK, AttemptIsOfItsTime, ReclaimedMeansFreed
       DEF Announce, Event, Writing, log, ReclaimedMeansFreed, Current, At,
           TypeOK, AttemptIsOfItsTime
  <2>7. TruncationExcludesWriters'
    BY <1>4, TruncationExcludesWriters
       DEF Announce, Writing, TruncationExcludesWriters, At
  <2>8. TruncateCopiesNothing' /\ NotStranded' /\ NoCheckpointAfterStop' /\
     EmptyMeansCopied' /\ SubmittedJobExists' /\ StoppedIsClosed'
    BY <1>4, TruncateCopiesNothing, NotStranded, NoCheckpointAfterStop,
       EmptyMeansCopied, SubmittedJobExists, StoppedIsClosed
       DEF Announce, lane, log, TruncateCopiesNothing, At, NotStranded,
           NoCheckpointAfterStop, EmptyMeansCopied, SubmittedJobExists,
           StoppedIsClosed
  <2> QED
    BY <2>1, <2>2, <2>3, <2>4, <2>5, <2>6, <2>7, <2>8 DEF MaintenanceInv
<1>5. ASSUME NEW t \in Threads, AnnounceReclaim(t)
      PROVE  MaintenanceInv'
  <2>1. TypeOK'
    <3>1. /\ pending' \in BOOLEAN
          /\ reclaim' \in BOOLEAN
          /\ due' \in BOOLEAN
      BY <1>5, TypeOK
         DEF AnnounceReclaim, Event, flags, lane, log, bounds, TypeOK,
             Operations, Threads
    <3>2. /\ generation' \in Nat
          /\ ops' \in [Threads -> Operations \cup {None}]
      BY <1>5, TypeOK
         DEF AnnounceReclaim, Event, flags, lane, log, bounds, TypeOK,
             Operations, Threads
    <3> QED
      BY <1>5, TypeOK, <3>1, <3>2
         DEF AnnounceReclaim, TypeOK, flags, lane, log, bounds
  <2>2. CleanMeansCopied'
    BY <1>5, CleanMeansCopied DEF AnnounceReclaim, Event, CleanMeansCopied
  <2>3. ReclaimKept'
    BY <1>5, ReclaimKept DEF AnnounceReclaim, Event, ReclaimKept
  <2>4. AttemptIsOfItsTime'
    <3>1. generation \in Nat /\ (worker # None => worker.generation \in Nat)
      BY TypeOK DEF TypeOK, Attempts
    <3>2. UNCHANGED <<reclaim, generation>> \/ generation' = generation + 1
      BY <1>5, TypeOK, EventEffect DEF AnnounceReclaim
    <3> QED
      BY <1>5, <3>1, <3>2, AttemptIsOfItsTime DEF AttemptIsOfItsTime, AnnounceReclaim
  <2>5. CompleteMeansCopied'
    BY <1>5, TypeOK, AttemptIsOfItsTime, CompleteMeansCopied
       DEF AnnounceReclaim, Event, CompleteMeansCopied, Current, TypeOK,
           AttemptIsOfItsTime
  <2>6. ReclaimedMeansFreed'
    BY <1>5, TypeOK, AttemptIsOfItsTime, ReclaimedMeansFreed
       DEF AnnounceReclaim, Event, ReclaimedMeansFreed, Current, TypeOK,
           AttemptIsOfItsTime
  <2>7. TruncationExcludesWriters'
    BY <1>5, TruncationExcludesWriters
       DEF AnnounceReclaim, TruncationExcludesWriters, At, Writing
  <2>8. TruncateCopiesNothing' /\ NotStranded' /\ NoCheckpointAfterStop' /\
     EmptyMeansCopied' /\ SubmittedJobExists' /\ StoppedIsClosed'
    BY <1>5, TruncateCopiesNothing, NotStranded, NoCheckpointAfterStop,
       EmptyMeansCopied, SubmittedJobExists, StoppedIsClosed
       DEF AnnounceReclaim, lane, log, TruncateCopiesNothing, At,
           NotStranded, NoCheckpointAfterStop, EmptyMeansCopied,
           SubmittedJobExists, StoppedIsClosed
  <2> QED
    BY <2>1, <2>2, <2>3, <2>4, <2>5, <2>6, <2>7, <2>8 DEF MaintenanceInv
<1>6. ASSUME SubmitCapture
      PROVE  MaintenanceInv'
  <2>1. TypeOK'
    <3>1. /\ capture' \in {"none", "queued", "running"}
          /\ work' \in Nat
      BY <1>6, TypeOK DEF SubmitCapture, flags, log, TypeOK
    <3> QED
      BY <1>6, TypeOK, <3>1
         DEF SubmitCapture, TypeOK, flags, lane, log, bounds
  <2>2. CleanMeansCopied' /\ ReclaimKept' /\ TruncateCopiesNothing' /\
     NotStranded' /\ NoCheckpointAfterStop' /\ AttemptIsOfItsTime' /\
     EmptyMeansCopied' /\ CompleteMeansCopied' /\ ReclaimedMeansFreed' /\
     TruncationExcludesWriters' /\ SubmittedJobExists' /\ StoppedIsClosed'
    BY <1>6, CleanMeansCopied, ReclaimKept, TruncateCopiesNothing,
       NotStranded, NoCheckpointAfterStop, AttemptIsOfItsTime,
       EmptyMeansCopied, CompleteMeansCopied, ReclaimedMeansFreed,
       TruncationExcludesWriters, SubmittedJobExists, StoppedIsClosed
       DEF SubmitCapture, flags, log, CleanMeansCopied, Unannounced,
           Writing, ReclaimKept, TruncateCopiesNothing, At, NotStranded,
           NoCheckpointAfterStop, AttemptIsOfItsTime, EmptyMeansCopied,
           CompleteMeansCopied, Current, ReclaimedMeansFreed,
           TruncationExcludesWriters, SubmittedJobExists, StoppedIsClosed
  <2> QED
    BY <2>1, <2>2 DEF MaintenanceInv
<1>7. ASSUME RunCapture
      PROVE  MaintenanceInv'
  <2>1. TypeOK'
    <3>1. capture' \in {"none", "queued", "running"}
      BY <1>7, TypeOK DEF RunCapture, flags, log, bounds, TypeOK
    <3> QED
      BY <1>7, TypeOK, <3>1 DEF RunCapture, TypeOK, flags, lane, log, bounds
  <2>2. CleanMeansCopied' /\ ReclaimKept' /\ TruncateCopiesNothing' /\
     NotStranded' /\ NoCheckpointAfterStop' /\ AttemptIsOfItsTime' /\
     EmptyMeansCopied' /\ CompleteMeansCopied' /\ ReclaimedMeansFreed' /\
     TruncationExcludesWriters' /\ SubmittedJobExists' /\ StoppedIsClosed'
    BY <1>7, CleanMeansCopied, ReclaimKept, TruncateCopiesNothing,
       NotStranded, NoCheckpointAfterStop, AttemptIsOfItsTime,
       EmptyMeansCopied, CompleteMeansCopied, ReclaimedMeansFreed,
       TruncationExcludesWriters, SubmittedJobExists, StoppedIsClosed
       DEF RunCapture, flags, log, CleanMeansCopied, Unannounced, Writing,
           ReclaimKept, TruncateCopiesNothing, At, NotStranded,
           NoCheckpointAfterStop, AttemptIsOfItsTime, EmptyMeansCopied,
           CompleteMeansCopied, Current, ReclaimedMeansFreed,
           TruncationExcludesWriters, SubmittedJobExists, StoppedIsClosed
  <2> QED
    BY <2>1, <2>2 DEF MaintenanceInv
<1>8. ASSUME EndCapture
      PROVE  MaintenanceInv'
  <2>1. TypeOK'
    <3>1. capture' \in {"none", "queued", "running"}
      BY <1>8, TypeOK DEF EndCapture, flags, log, bounds, TypeOK
    <3> QED
      BY <1>8, TypeOK, <3>1 DEF EndCapture, TypeOK, flags, lane, log, bounds
  <2>2. CleanMeansCopied' /\ ReclaimKept' /\ TruncateCopiesNothing' /\
     NotStranded' /\ NoCheckpointAfterStop' /\ AttemptIsOfItsTime' /\
     EmptyMeansCopied' /\ CompleteMeansCopied' /\ ReclaimedMeansFreed' /\
     TruncationExcludesWriters' /\ SubmittedJobExists' /\ StoppedIsClosed'
    BY <1>8, CleanMeansCopied, ReclaimKept, TruncateCopiesNothing,
       NotStranded, NoCheckpointAfterStop, AttemptIsOfItsTime,
       EmptyMeansCopied, CompleteMeansCopied, ReclaimedMeansFreed,
       TruncationExcludesWriters, SubmittedJobExists, StoppedIsClosed
       DEF EndCapture, flags, log, CleanMeansCopied, Unannounced, Writing,
           ReclaimKept, TruncateCopiesNothing, At, NotStranded,
           NoCheckpointAfterStop, AttemptIsOfItsTime, EmptyMeansCopied,
           CompleteMeansCopied, Current, ReclaimedMeansFreed,
           TruncationExcludesWriters, SubmittedJobExists, StoppedIsClosed
  <2> QED
    BY <2>1, <2>2 DEF MaintenanceInv
<1>9. ASSUME TickCheck
      PROVE  MaintenanceInv'
  <2>1. TypeOK'
    <3>1. tick' \in {"out", "checked", "quiet", "submit", "attach",
                     "callback"}
      BY <1>9, TypeOK DEF TickCheck, flags, lane, log, bounds, TypeOK
    <3> QED
      BY <1>9, TypeOK, <3>1 DEF TickCheck, TypeOK, flags, lane, log, bounds
  <2>2. NotStranded'
    BY <1>9, NotStranded DEF TickCheck, NotStranded
  <2>3. SubmittedJobExists'
    BY <1>9, SubmittedJobExists DEF TickCheck, SubmittedJobExists
  <2>4. CleanMeansCopied' /\ ReclaimKept' /\ TruncateCopiesNothing' /\
     NoCheckpointAfterStop' /\ AttemptIsOfItsTime' /\ EmptyMeansCopied' /\
     CompleteMeansCopied' /\ ReclaimedMeansFreed' /\
     TruncationExcludesWriters' /\ StoppedIsClosed'
    BY <1>9, CleanMeansCopied, ReclaimKept, TruncateCopiesNothing,
       NoCheckpointAfterStop, AttemptIsOfItsTime, EmptyMeansCopied,
       CompleteMeansCopied, ReclaimedMeansFreed, TruncationExcludesWriters,
       StoppedIsClosed
       DEF TickCheck, flags, log, CleanMeansCopied, ReclaimKept,
           TruncateCopiesNothing, At, NoCheckpointAfterStop,
           AttemptIsOfItsTime, EmptyMeansCopied, CompleteMeansCopied,
           ReclaimedMeansFreed, TruncationExcludesWriters, StoppedIsClosed
  <2> QED
    BY <2>1, <2>2, <2>3, <2>4 DEF MaintenanceInv
<1>10. ASSUME TickQuiet
      PROVE  MaintenanceInv'
  <2>1. TypeOK'
    <3>1. tick' \in {"out", "checked", "quiet", "submit", "attach",
                     "callback"}
      BY <1>10, TypeOK DEF TickQuiet, flags, lane, log, bounds, TypeOK
    <3> QED
      BY <1>10, TypeOK, <3>1 DEF TickQuiet, TypeOK, flags, lane, log, bounds
  <2>2. NotStranded'
    BY <1>10, NotStranded DEF TickQuiet, lane, NotStranded
  <2>3. SubmittedJobExists'
    BY <1>10, SubmittedJobExists DEF TickQuiet, SubmittedJobExists
  <2>4. CleanMeansCopied' /\ ReclaimKept' /\ TruncateCopiesNothing' /\
     NoCheckpointAfterStop' /\ AttemptIsOfItsTime' /\ EmptyMeansCopied' /\
     CompleteMeansCopied' /\ ReclaimedMeansFreed' /\
     TruncationExcludesWriters' /\ StoppedIsClosed'
    BY <1>10, CleanMeansCopied, ReclaimKept, TruncateCopiesNothing,
       NoCheckpointAfterStop, AttemptIsOfItsTime, EmptyMeansCopied,
       CompleteMeansCopied, ReclaimedMeansFreed, TruncationExcludesWriters,
       StoppedIsClosed
       DEF TickQuiet, flags, log, CleanMeansCopied, Unannounced, Writing,
           ReclaimKept, TruncateCopiesNothing, At, NoCheckpointAfterStop,
           AttemptIsOfItsTime, EmptyMeansCopied, CompleteMeansCopied,
           Current, ReclaimedMeansFreed, TruncationExcludesWriters,
           StoppedIsClosed
  <2> QED
    BY <2>1, <2>2, <2>3, <2>4 DEF MaintenanceInv
<1>11. ASSUME TickClaim
      PROVE  MaintenanceInv'
  <2>1. TypeOK'
    <3>1. queued' \in BOOLEAN
      BY <1>11, TypeOK DEF TickClaim, flags, lane, log, bounds, TypeOK
    <3>2. tick' \in {"out", "checked", "quiet", "submit", "attach",
                     "callback"}
      BY <1>11, TypeOK DEF TickClaim, flags, lane, log, bounds, TypeOK
    <3> QED
      BY <1>11, TypeOK, <3>1, <3>2
         DEF TickClaim, TypeOK, flags, lane, log, bounds
  <2>2. NotStranded'
    BY <1>11, NotStranded DEF TickClaim, lane, NotStranded
  <2>3. SubmittedJobExists'
    BY <1>11, SubmittedJobExists DEF TickClaim, SubmittedJobExists
  <2>4. CleanMeansCopied' /\ ReclaimKept' /\ TruncateCopiesNothing' /\
     NoCheckpointAfterStop' /\ AttemptIsOfItsTime' /\ EmptyMeansCopied' /\
     CompleteMeansCopied' /\ ReclaimedMeansFreed' /\
     TruncationExcludesWriters' /\ StoppedIsClosed'
    BY <1>11, CleanMeansCopied, ReclaimKept, TruncateCopiesNothing,
       NoCheckpointAfterStop, AttemptIsOfItsTime, EmptyMeansCopied,
       CompleteMeansCopied, ReclaimedMeansFreed, TruncationExcludesWriters,
       StoppedIsClosed
       DEF TickClaim, flags, log, CleanMeansCopied, Unannounced, Writing,
           ReclaimKept, TruncateCopiesNothing, At, NoCheckpointAfterStop,
           AttemptIsOfItsTime, EmptyMeansCopied, CompleteMeansCopied,
           Current, ReclaimedMeansFreed, TruncationExcludesWriters,
           StoppedIsClosed
  <2> QED
    BY <2>1, <2>2, <2>3, <2>4 DEF MaintenanceInv
<1>12. ASSUME TickRefused
      PROVE  MaintenanceInv'
  <2>1. TypeOK'
    <3>1. queued' \in BOOLEAN
      BY <1>12, TypeOK DEF TickRefused, flags, lane, log, bounds, TypeOK
    <3>2. tick' \in {"out", "checked", "quiet", "submit", "attach",
                     "callback"}
      BY <1>12, TypeOK DEF TickRefused, flags, lane, log, bounds, TypeOK
    <3> QED
      BY <1>12, TypeOK, <3>1, <3>2
         DEF TickRefused, TypeOK, flags, lane, log, bounds
  <2>2. NotStranded'
    BY <1>12, NotStranded DEF TickRefused, NotStranded
  <2>3. SubmittedJobExists'
    BY <1>12, SubmittedJobExists DEF TickRefused, SubmittedJobExists
  <2>4. CleanMeansCopied' /\ ReclaimKept' /\ TruncateCopiesNothing' /\
     NoCheckpointAfterStop' /\ AttemptIsOfItsTime' /\ EmptyMeansCopied' /\
     CompleteMeansCopied' /\ ReclaimedMeansFreed' /\
     TruncationExcludesWriters' /\ StoppedIsClosed'
    BY <1>12, CleanMeansCopied, ReclaimKept, TruncateCopiesNothing,
       NoCheckpointAfterStop, AttemptIsOfItsTime, EmptyMeansCopied,
       CompleteMeansCopied, ReclaimedMeansFreed, TruncationExcludesWriters,
       StoppedIsClosed
       DEF TickRefused, flags, log, CleanMeansCopied, Unannounced, Writing,
           ReclaimKept, TruncateCopiesNothing, At, NoCheckpointAfterStop,
           AttemptIsOfItsTime, EmptyMeansCopied, CompleteMeansCopied,
           Current, ReclaimedMeansFreed, TruncationExcludesWriters,
           StoppedIsClosed
  <2> QED
    BY <2>1, <2>2, <2>3, <2>4 DEF MaintenanceInv
<1>13. ASSUME TickSubmit
      PROVE  MaintenanceInv'
  <2>1. TypeOK'
    <3>1. attached' \in BOOLEAN
      BY <1>13, TypeOK DEF TickSubmit, flags, log, bounds, TypeOK
    <3>2. /\ tick' \in {"out", "checked", "quiet", "submit", "attach",
                     "callback"}
          /\ wal' \in {"none", "queued", "running", "callback", "settled"}
      BY <1>13, TypeOK DEF TickSubmit, flags, log, bounds, TypeOK
    <3> QED
      BY <1>13, TypeOK, <3>1, <3>2
         DEF TickSubmit, TypeOK, flags, lane, log, bounds
  <2>2. NotStranded'
    BY <1>13, NotStranded DEF TickSubmit, NotStranded
  <2>3. SubmittedJobExists'
    BY <1>13, SubmittedJobExists DEF TickSubmit, SubmittedJobExists
  <2>4. CleanMeansCopied' /\ ReclaimKept' /\ TruncateCopiesNothing' /\
     NoCheckpointAfterStop' /\ AttemptIsOfItsTime' /\ EmptyMeansCopied' /\
     CompleteMeansCopied' /\ ReclaimedMeansFreed' /\
     TruncationExcludesWriters' /\ StoppedIsClosed'
    BY <1>13, CleanMeansCopied, ReclaimKept, TruncateCopiesNothing,
       NoCheckpointAfterStop, AttemptIsOfItsTime, EmptyMeansCopied,
       CompleteMeansCopied, ReclaimedMeansFreed, TruncationExcludesWriters,
       StoppedIsClosed
       DEF TickSubmit, flags, log, CleanMeansCopied, Unannounced, Writing,
           ReclaimKept, TruncateCopiesNothing, At, NoCheckpointAfterStop,
           AttemptIsOfItsTime, EmptyMeansCopied, CompleteMeansCopied,
           Current, ReclaimedMeansFreed, TruncationExcludesWriters,
           StoppedIsClosed
  <2> QED
    BY <2>1, <2>2, <2>3, <2>4 DEF MaintenanceInv
<1>14. ASSUME TickAttach
      PROVE  MaintenanceInv'
  <2>1. TypeOK'
    <3>1. attached' \in BOOLEAN
      BY <1>14, TypeOK DEF TickAttach, flags, log, bounds, TypeOK
    <3>2. tick' \in {"out", "checked", "quiet", "submit", "attach",
                     "callback"}
      BY <1>14, TypeOK DEF TickAttach, flags, log, bounds, TypeOK
    <3> QED
      BY <1>14, TypeOK, <3>1, <3>2
         DEF TickAttach, TypeOK, flags, lane, log, bounds
  <2>2. NotStranded'
    BY <1>14, TypeOK, NotStranded, SubmittedJobExists
       DEF TickAttach, NotStranded, TypeOK, SubmittedJobExists
  <2>3. SubmittedJobExists'
    BY <1>14, SubmittedJobExists DEF TickAttach, SubmittedJobExists
  <2>4. CleanMeansCopied' /\ ReclaimKept' /\ TruncateCopiesNothing' /\
     NoCheckpointAfterStop' /\ AttemptIsOfItsTime' /\ EmptyMeansCopied' /\
     CompleteMeansCopied' /\ ReclaimedMeansFreed' /\
     TruncationExcludesWriters' /\ StoppedIsClosed'
    BY <1>14, CleanMeansCopied, ReclaimKept, TruncateCopiesNothing,
       NoCheckpointAfterStop, AttemptIsOfItsTime, EmptyMeansCopied,
       CompleteMeansCopied, ReclaimedMeansFreed, TruncationExcludesWriters,
       StoppedIsClosed
       DEF TickAttach, flags, log, CleanMeansCopied, Unannounced, Writing,
           ReclaimKept, TruncateCopiesNothing, At, NoCheckpointAfterStop,
           AttemptIsOfItsTime, EmptyMeansCopied, CompleteMeansCopied,
           Current, ReclaimedMeansFreed, TruncationExcludesWriters,
           StoppedIsClosed
  <2> QED
    BY <2>1, <2>2, <2>3, <2>4 DEF MaintenanceInv
<1>15. ASSUME TickCallback
      PROVE  MaintenanceInv'
  <2>1. TypeOK'
    <3>1. queued' \in BOOLEAN
      BY <1>15, TypeOK DEF TickCallback, flags, lane, log, bounds, TypeOK
    <3>2. tick' \in {"out", "checked", "quiet", "submit", "attach",
                     "callback"}
      BY <1>15, TypeOK DEF TickCallback, flags, lane, log, bounds, TypeOK
    <3> QED
      BY <1>15, TypeOK, <3>1, <3>2
         DEF TickCallback, TypeOK, flags, lane, log, bounds
  <2>2. NotStranded'
    BY <1>15, NotStranded DEF TickCallback, NotStranded
  <2>3. SubmittedJobExists'
    BY <1>15, SubmittedJobExists DEF TickCallback, SubmittedJobExists
  <2>4. CleanMeansCopied' /\ ReclaimKept' /\ TruncateCopiesNothing' /\
     NoCheckpointAfterStop' /\ AttemptIsOfItsTime' /\ EmptyMeansCopied' /\
     CompleteMeansCopied' /\ ReclaimedMeansFreed' /\
     TruncationExcludesWriters' /\ StoppedIsClosed'
    BY <1>15, CleanMeansCopied, ReclaimKept, TruncateCopiesNothing,
       NoCheckpointAfterStop, AttemptIsOfItsTime, EmptyMeansCopied,
       CompleteMeansCopied, ReclaimedMeansFreed, TruncationExcludesWriters,
       StoppedIsClosed
       DEF TickCallback, flags, log, CleanMeansCopied, Unannounced, Writing,
           ReclaimKept, TruncateCopiesNothing, At, NoCheckpointAfterStop,
           AttemptIsOfItsTime, EmptyMeansCopied, CompleteMeansCopied,
           Current, ReclaimedMeansFreed, TruncationExcludesWriters,
           StoppedIsClosed
  <2> QED
    BY <2>1, <2>2, <2>3, <2>4 DEF MaintenanceInv
<1>16. ASSUME RunWal
      PROVE  MaintenanceInv'
  <2>1. TypeOK'
    <3>1. wal' \in {"none", "queued", "running", "callback", "settled"}
      BY <1>16, TypeOK DEF RunWal, flags, log, bounds, TypeOK
    <3> QED
      BY <1>16, TypeOK, <3>1 DEF RunWal, TypeOK, flags, lane, log, bounds
  <2>2. NotStranded'
    BY <1>16, NotStranded DEF RunWal, NotStranded
  <2>3. SubmittedJobExists'
    BY <1>16, SubmittedJobExists DEF RunWal, SubmittedJobExists
  <2>4. CleanMeansCopied' /\ ReclaimKept' /\ TruncateCopiesNothing' /\
     NoCheckpointAfterStop' /\ AttemptIsOfItsTime' /\ EmptyMeansCopied' /\
     CompleteMeansCopied' /\ ReclaimedMeansFreed' /\
     TruncationExcludesWriters' /\ StoppedIsClosed'
    BY <1>16, CleanMeansCopied, ReclaimKept, TruncateCopiesNothing,
       NoCheckpointAfterStop, AttemptIsOfItsTime, EmptyMeansCopied,
       CompleteMeansCopied, ReclaimedMeansFreed, TruncationExcludesWriters,
       StoppedIsClosed
       DEF RunWal, flags, log, CleanMeansCopied, Unannounced, Writing,
           ReclaimKept, TruncateCopiesNothing, At, NoCheckpointAfterStop,
           AttemptIsOfItsTime, EmptyMeansCopied, CompleteMeansCopied,
           Current, ReclaimedMeansFreed, TruncationExcludesWriters,
           StoppedIsClosed
  <2> QED
    BY <2>1, <2>2, <2>3, <2>4 DEF MaintenanceInv
<1>17. ASSUME Dispatch
      PROVE  MaintenanceInv'
  <2>1. TypeOK'
    <3>1. /\ worker' \in Attempts \cup {None}
          /\ wal' \in {"none", "queued", "running", "callback", "settled"}
      BY <1>17, TypeOK
         DEF Dispatch, flags, log, bounds, TypeOK, Attempts, Outcomes
    <3> QED
      BY <1>17, TypeOK, <3>1 DEF Dispatch, TypeOK, flags, lane, log, bounds
  <2>2. TruncateCopiesNothing'
    BY <1>17, TruncateCopiesNothing
       DEF Dispatch, log, TruncateCopiesNothing, At
  <2>3. NotStranded'
    BY <1>17, NotStranded DEF Dispatch, NotStranded
  <2>4. NoCheckpointAfterStop'
    BY <1>17, NoCheckpointAfterStop, StoppedIsClosed
       DEF Dispatch, NoCheckpointAfterStop, StoppedIsClosed
  <2>5. AttemptIsOfItsTime'
    BY <1>17, TypeOK, AttemptIsOfItsTime
       DEF Dispatch, flags, AttemptIsOfItsTime, TypeOK
  <2>6. CompleteMeansCopied'
    BY <1>17, CompleteMeansCopied
       DEF Dispatch, flags, log, CompleteMeansCopied, Current, At,
           Unannounced, Writing
  <2>7. ReclaimedMeansFreed'
    BY <1>17, ReclaimedMeansFreed
       DEF Dispatch, flags, log, ReclaimedMeansFreed, Current, At
  <2>8. TruncationExcludesWriters'
    BY <1>17, TruncationExcludesWriters
       DEF Dispatch, TruncationExcludesWriters, At, Writing
  <2>9. SubmittedJobExists'
    BY <1>17, SubmittedJobExists DEF Dispatch, SubmittedJobExists
  <2>10. CleanMeansCopied' /\ ReclaimKept' /\ EmptyMeansCopied' /\
     StoppedIsClosed'
    BY <1>17, CleanMeansCopied, ReclaimKept, EmptyMeansCopied,
       StoppedIsClosed
       DEF Dispatch, flags, log, CleanMeansCopied, Unannounced, Writing,
           ReclaimKept, EmptyMeansCopied, StoppedIsClosed, lane
  <2> QED
    BY <2>1, <2>2, <2>3, <2>4, <2>5, <2>6, <2>7, <2>8, <2>9, <2>10
       DEF MaintenanceInv
<1>18. ASSUME Dispatched
      PROVE  MaintenanceInv'
  <2>1. TypeOK'
    <3>1. queued' \in BOOLEAN
      BY <1>18, TypeOK DEF Dispatched, flags, log, bounds, TypeOK
    <3>2. wal' \in {"none", "queued", "running", "callback", "settled"}
      BY <1>18, TypeOK DEF Dispatched, flags, log, bounds, TypeOK
    <3> QED
      BY <1>18, TypeOK, <3>1, <3>2
         DEF Dispatched, TypeOK, flags, lane, log, bounds
  <2>2. NotStranded'
    BY <1>18, NotStranded DEF Dispatched, NotStranded
  <2>3. SubmittedJobExists'
    BY <1>18, SubmittedJobExists DEF Dispatched, SubmittedJobExists
  <2>4. CleanMeansCopied' /\ ReclaimKept' /\ TruncateCopiesNothing' /\
     NoCheckpointAfterStop' /\ AttemptIsOfItsTime' /\ EmptyMeansCopied' /\
     CompleteMeansCopied' /\ ReclaimedMeansFreed' /\
     TruncationExcludesWriters' /\ StoppedIsClosed'
    BY <1>18, CleanMeansCopied, ReclaimKept, TruncateCopiesNothing,
       NoCheckpointAfterStop, AttemptIsOfItsTime, EmptyMeansCopied,
       CompleteMeansCopied, ReclaimedMeansFreed, TruncationExcludesWriters,
       StoppedIsClosed
       DEF Dispatched, flags, log, CleanMeansCopied, Unannounced, Writing,
           ReclaimKept, TruncateCopiesNothing, At, NoCheckpointAfterStop,
           AttemptIsOfItsTime, EmptyMeansCopied, CompleteMeansCopied,
           Current, ReclaimedMeansFreed, TruncationExcludesWriters,
           StoppedIsClosed
  <2> QED
    BY <2>1, <2>2, <2>3, <2>4 DEF MaintenanceInv
<1>19. ASSUME Look
      PROVE  MaintenanceInv'
  <2>1. TypeOK'
    <3>1. worker' \in Attempts \cup {None}
      BY <1>19, TypeOK
         DEF Look, At, Goto, End, flags, lane, log, bounds, TypeOK,
             Attempts, Outcomes
    <3> QED
      BY <1>19, TypeOK, <3>1 DEF Look, TypeOK, flags, lane, log, bounds
  <2>2. TruncateCopiesNothing'
    BY <1>19, TypeOK, TruncateCopiesNothing
       DEF Look, At, Goto, End, TruncateCopiesNothing, TypeOK, Attempts
  <2>3. NoCheckpointAfterStop'
    BY <1>19, NoCheckpointAfterStop DEF Look, At, NoCheckpointAfterStop
  <2>4. AttemptIsOfItsTime'
    BY <1>19, TypeOK, AttemptIsOfItsTime
       DEF Look, At, Goto, End, flags, AttemptIsOfItsTime, TypeOK, Attempts
  <2>5. CompleteMeansCopied'
    BY <1>19, TypeOK, EmptyMeansCopied, CompleteMeansCopied
       DEF Look, At, Goto, End, log, CompleteMeansCopied, Complete, TypeOK,
           EmptyMeansCopied, Attempts
  <2>6. ReclaimedMeansFreed'
    BY <1>19, TypeOK, EmptyMeansCopied, ReclaimedMeansFreed
       DEF Look, At, Goto, End, log, ReclaimedMeansFreed, TypeOK,
           EmptyMeansCopied, Attempts
  <2>7. TruncationExcludesWriters'
    BY <1>19, TypeOK, TruncationExcludesWriters
       DEF Look, At, Goto, End, TruncationExcludesWriters, TypeOK, Attempts
  <2>8. CleanMeansCopied' /\ ReclaimKept' /\ NotStranded' /\
     EmptyMeansCopied' /\ SubmittedJobExists' /\ StoppedIsClosed'
    BY <1>19, CleanMeansCopied, ReclaimKept, NotStranded, EmptyMeansCopied,
       SubmittedJobExists, StoppedIsClosed
       DEF Look, flags, lane, log, CleanMeansCopied, Unannounced, Writing,
           ReclaimKept, NotStranded, EmptyMeansCopied, SubmittedJobExists,
           StoppedIsClosed
  <2> QED
    BY <2>1, <2>2, <2>3, <2>4, <2>5, <2>6, <2>7, <2>8 DEF MaintenanceInv
<1>20. ASSUME Admit
      PROVE  MaintenanceInv'
  <2>1. TypeOK'
    <3>1. worker' \in Attempts \cup {None}
      BY <1>20, TypeOK
         DEF Admit, At, Goto, End, AdmissionFree, flags, lane, log, bounds,
             TypeOK, Attempts, Outcomes
    <3> QED
      BY <1>20, TypeOK, <3>1 DEF Admit, TypeOK, flags, lane, log, bounds
  <2>2. TruncateCopiesNothing'
    BY <1>20, TypeOK, TruncateCopiesNothing
       DEF Admit, At, Goto, End, TruncateCopiesNothing, TypeOK, Attempts
  <2>3. NoCheckpointAfterStop'
    BY <1>20, NoCheckpointAfterStop DEF Admit, At, NoCheckpointAfterStop
  <2>4. AttemptIsOfItsTime'
    BY <1>20, TypeOK, AttemptIsOfItsTime
       DEF Admit, At, Goto, End, flags, AttemptIsOfItsTime, TypeOK, Attempts
  <2>5. CompleteMeansCopied'
    BY <1>20, TypeOK, CompleteMeansCopied
       DEF Admit, At, Goto, End, CompleteMeansCopied, Complete, TypeOK,
           Attempts
  <2>6. ReclaimedMeansFreed'
    BY <1>20, TypeOK, ReclaimedMeansFreed
       DEF Admit, At, Goto, End, ReclaimedMeansFreed, TypeOK, Attempts
  <2>7. TruncationExcludesWriters'
    BY <1>20, TypeOK, TruncationExcludesWriters
       DEF Admit, At, Goto, End, TruncationExcludesWriters, TypeOK, Attempts
  <2>8. CleanMeansCopied' /\ ReclaimKept' /\ NotStranded' /\
     EmptyMeansCopied' /\ SubmittedJobExists' /\ StoppedIsClosed'
    BY <1>20, CleanMeansCopied, ReclaimKept, NotStranded, EmptyMeansCopied,
       SubmittedJobExists, StoppedIsClosed
       DEF Admit, flags, lane, log, CleanMeansCopied, Unannounced, Writing,
           ReclaimKept, NotStranded, EmptyMeansCopied, SubmittedJobExists,
           StoppedIsClosed
  <2> QED
    BY <2>1, <2>2, <2>3, <2>4, <2>5, <2>6, <2>7, <2>8 DEF MaintenanceInv
<1>21. ASSUME PassiveCompletes
      PROVE  MaintenanceInv'
  <2>1. TypeOK'
    <3>1. copied' \in BOOLEAN
      BY <1>21, TypeOK
         DEF PassiveCompletes, At, Goto, End, flags, lane, bounds, TypeOK,
             Attempts, Outcomes
    <3>2. worker' \in Attempts \cup {None}
      BY <1>21, TypeOK
         DEF PassiveCompletes, At, Goto, End, flags, lane, bounds, TypeOK,
             Attempts, Outcomes
    <3> QED
      BY <1>21, TypeOK, <3>1, <3>2
         DEF PassiveCompletes, TypeOK, flags, lane, log, bounds
  <2>2. CleanMeansCopied'
    BY <1>21, CleanMeansCopied DEF PassiveCompletes, CleanMeansCopied
  <2>3. TruncateCopiesNothing'
    BY <1>21, TruncateCopiesNothing
       DEF PassiveCompletes, TruncateCopiesNothing
  <2>4. NoCheckpointAfterStop'
    BY <1>21, NoCheckpointAfterStop
       DEF PassiveCompletes, At, NoCheckpointAfterStop
  <2>5. AttemptIsOfItsTime'
    BY <1>21, TypeOK, AttemptIsOfItsTime
       DEF PassiveCompletes, At, Goto, End, flags, AttemptIsOfItsTime,
           TypeOK, Attempts
  <2>6. EmptyMeansCopied'
    BY <1>21, EmptyMeansCopied DEF PassiveCompletes, EmptyMeansCopied
  <2>7. CompleteMeansCopied'
    BY <1>21, CompleteMeansCopied DEF PassiveCompletes, CompleteMeansCopied
  <2>8. ReclaimedMeansFreed'
    BY <1>21, TypeOK, ReclaimedMeansFreed
       DEF PassiveCompletes, At, Goto, End, ReclaimedMeansFreed, TypeOK,
           Attempts
  <2>9. TruncationExcludesWriters'
    BY <1>21, TypeOK, TruncationExcludesWriters
       DEF PassiveCompletes, At, Goto, End, TruncationExcludesWriters,
           TypeOK, Attempts
  <2>10. ReclaimKept' /\ NotStranded' /\ SubmittedJobExists' /\
     StoppedIsClosed'
    BY <1>21, ReclaimKept, NotStranded, SubmittedJobExists, StoppedIsClosed
       DEF PassiveCompletes, flags, lane, ReclaimKept, NotStranded,
           SubmittedJobExists, StoppedIsClosed
  <2> QED
    BY <2>1, <2>2, <2>3, <2>4, <2>5, <2>6, <2>7, <2>8, <2>9, <2>10
       DEF MaintenanceInv
<1>22. ASSUME PassiveFails
      PROVE  MaintenanceInv'
  <2>1. TypeOK'
    <3>1. worker' \in Attempts \cup {None}
      BY <1>22, TypeOK
         DEF PassiveFails, At, End, flags, lane, log, bounds, TypeOK,
             Attempts, Outcomes
    <3> QED
      BY <1>22, TypeOK, <3>1
         DEF PassiveFails, TypeOK, flags, lane, log, bounds
  <2>2. TruncateCopiesNothing'
    BY <1>22, TruncateCopiesNothing
       DEF PassiveFails, At, End, TruncateCopiesNothing
  <2>3. NoCheckpointAfterStop'
    BY <1>22, NoCheckpointAfterStop
       DEF PassiveFails, At, NoCheckpointAfterStop
  <2>4. AttemptIsOfItsTime'
    BY <1>22, AttemptIsOfItsTime
       DEF PassiveFails, At, End, flags, AttemptIsOfItsTime
  <2>5. CompleteMeansCopied'
    BY <1>22, CompleteMeansCopied
       DEF PassiveFails, End, CompleteMeansCopied, Complete
  <2>6. ReclaimedMeansFreed'
    BY <1>22, ReclaimedMeansFreed DEF PassiveFails, End, ReclaimedMeansFreed
  <2>7. TruncationExcludesWriters'
    BY <1>22, TruncationExcludesWriters
       DEF PassiveFails, At, End, TruncationExcludesWriters
  <2>8. CleanMeansCopied' /\ ReclaimKept' /\ NotStranded' /\
     EmptyMeansCopied' /\ SubmittedJobExists' /\ StoppedIsClosed'
    BY <1>22, CleanMeansCopied, ReclaimKept, NotStranded, EmptyMeansCopied,
       SubmittedJobExists, StoppedIsClosed
       DEF PassiveFails, flags, lane, log, CleanMeansCopied, Unannounced,
           Writing, ReclaimKept, NotStranded, EmptyMeansCopied,
           SubmittedJobExists, StoppedIsClosed
  <2> QED
    BY <2>1, <2>2, <2>3, <2>4, <2>5, <2>6, <2>7, <2>8 DEF MaintenanceInv
<1>23. ASSUME Claim
      PROVE  MaintenanceInv'
  <2>1. TypeOK'
    <3>1. worker' \in Attempts \cup {None}
      BY <1>23, TypeOK
         DEF Claim, At, Goto, AdmissionFree, Writing, flags, lane, log,
             bounds, TypeOK, Attempts, Outcomes
    <3> QED
      BY <1>23, TypeOK, <3>1 DEF Claim, TypeOK, flags, lane, log, bounds
  <2>2. TruncateCopiesNothing'
    BY <1>23, TruncateCopiesNothing DEF Claim, log, TruncateCopiesNothing
  <2>3. NoCheckpointAfterStop'
    BY <1>23, NoCheckpointAfterStop DEF Claim, At, NoCheckpointAfterStop
  <2>4. AttemptIsOfItsTime'
    BY <1>23, AttemptIsOfItsTime
       DEF Claim, At, Goto, flags, AttemptIsOfItsTime
  <2>5. CompleteMeansCopied'
    BY <1>23, CompleteMeansCopied DEF Claim, log, CompleteMeansCopied
  <2>6. ReclaimedMeansFreed'
    BY <1>23, ReclaimedMeansFreed DEF Claim, At, Goto, ReclaimedMeansFreed
  <2>7. TruncationExcludesWriters'
    BY <1>23, TruncationExcludesWriters
       DEF Claim, AdmissionFree, Writing, TruncationExcludesWriters
  <2>8. CleanMeansCopied' /\ ReclaimKept' /\ NotStranded' /\
     EmptyMeansCopied' /\ SubmittedJobExists' /\ StoppedIsClosed'
    BY <1>23, CleanMeansCopied, ReclaimKept, NotStranded, EmptyMeansCopied,
       SubmittedJobExists, StoppedIsClosed
       DEF Claim, flags, lane, log, CleanMeansCopied, ReclaimKept,
           NotStranded, EmptyMeansCopied, SubmittedJobExists,
           StoppedIsClosed
  <2> QED
    BY <2>1, <2>2, <2>3, <2>4, <2>5, <2>6, <2>7, <2>8 DEF MaintenanceInv
<1>24. ASSUME ClaimFails
      PROVE  MaintenanceInv'
  <2>1. TypeOK'
    <3>1. worker' \in Attempts \cup {None}
      BY <1>24, TypeOK
         DEF ClaimFails, At, End, flags, lane, log, bounds, TypeOK,
             Attempts, Outcomes
    <3> QED
      BY <1>24, TypeOK, <3>1 DEF ClaimFails, TypeOK, flags, lane, log, bounds
  <2>2. TruncateCopiesNothing'
    BY <1>24, TruncateCopiesNothing
       DEF ClaimFails, At, End, TruncateCopiesNothing
  <2>3. NoCheckpointAfterStop'
    BY <1>24, NoCheckpointAfterStop DEF ClaimFails, At, NoCheckpointAfterStop
  <2>4. AttemptIsOfItsTime'
    BY <1>24, AttemptIsOfItsTime
       DEF ClaimFails, At, End, flags, AttemptIsOfItsTime
  <2>5. CompleteMeansCopied'
    BY <1>24, CompleteMeansCopied
       DEF ClaimFails, End, CompleteMeansCopied, Complete
  <2>6. ReclaimedMeansFreed'
    BY <1>24, ReclaimedMeansFreed DEF ClaimFails, End, ReclaimedMeansFreed
  <2>7. TruncationExcludesWriters'
    BY <1>24, TruncationExcludesWriters
       DEF ClaimFails, At, End, TruncationExcludesWriters
  <2>8. CleanMeansCopied' /\ ReclaimKept' /\ NotStranded' /\
     EmptyMeansCopied' /\ SubmittedJobExists' /\ StoppedIsClosed'
    BY <1>24, CleanMeansCopied, ReclaimKept, NotStranded, EmptyMeansCopied,
       SubmittedJobExists, StoppedIsClosed
       DEF ClaimFails, flags, lane, log, CleanMeansCopied, Unannounced,
           Writing, ReclaimKept, NotStranded, EmptyMeansCopied,
           SubmittedJobExists, StoppedIsClosed
  <2> QED
    BY <2>1, <2>2, <2>3, <2>4, <2>5, <2>6, <2>7, <2>8 DEF MaintenanceInv
<1>25. ASSUME Truncate
      PROVE  MaintenanceInv'
  <2>1. TypeOK'
    <3>1. /\ copied' \in BOOLEAN
          /\ empty' \in BOOLEAN
          /\ owed' \in BOOLEAN
      BY <1>25, TypeOK
         DEF Truncate, At, End, flags, lane, bounds, TypeOK, Attempts,
             Outcomes
    <3>2. worker' \in Attempts \cup {None}
      BY <1>25, TypeOK
         DEF Truncate, At, End, flags, lane, bounds, TypeOK, Attempts,
             Outcomes
    <3> QED
      BY <1>25, TypeOK, <3>1, <3>2
         DEF Truncate, TypeOK, flags, lane, log, bounds
  <2>2. CleanMeansCopied'
    BY <1>25, CleanMeansCopied DEF Truncate, CleanMeansCopied
  <2>3. ReclaimKept'
    BY <1>25, ReclaimKept DEF Truncate, ReclaimKept
  <2>4. TruncateCopiesNothing'
    BY <1>25, TruncateCopiesNothing DEF Truncate, TruncateCopiesNothing
  <2>5. NoCheckpointAfterStop'
    BY <1>25, NoCheckpointAfterStop DEF Truncate, At, NoCheckpointAfterStop
  <2>6. AttemptIsOfItsTime'
    BY <1>25, AttemptIsOfItsTime
       DEF Truncate, At, End, flags, AttemptIsOfItsTime
  <2>7. EmptyMeansCopied'
    BY <1>25, EmptyMeansCopied DEF Truncate, EmptyMeansCopied
  <2>8. CompleteMeansCopied'
    BY <1>25, CompleteMeansCopied DEF Truncate, CompleteMeansCopied
  <2>9. ReclaimedMeansFreed'
    BY <1>25, ReclaimedMeansFreed DEF Truncate, ReclaimedMeansFreed
  <2>10. TruncationExcludesWriters'
    BY <1>25, TruncationExcludesWriters
       DEF Truncate, At, End, TruncationExcludesWriters
  <2>11. NotStranded' /\ SubmittedJobExists' /\ StoppedIsClosed'
    BY <1>25, NotStranded, SubmittedJobExists, StoppedIsClosed
       DEF Truncate, lane, NotStranded, SubmittedJobExists, StoppedIsClosed
  <2> QED
    BY <2>1, <2>2, <2>3, <2>4, <2>5, <2>6, <2>7, <2>8, <2>9, <2>10, <2>11
       DEF MaintenanceInv
<1>26. ASSUME TruncateFails
      PROVE  MaintenanceInv'
  <2>1. TypeOK'
    <3>1. worker' \in Attempts \cup {None}
      BY <1>26, TypeOK
         DEF TruncateFails, At, End, flags, lane, log, bounds, TypeOK,
             Attempts, Outcomes
    <3> QED
      BY <1>26, TypeOK, <3>1
         DEF TruncateFails, TypeOK, flags, lane, log, bounds
  <2>2. TruncateCopiesNothing'
    BY <1>26, TruncateCopiesNothing
       DEF TruncateFails, log, TruncateCopiesNothing
  <2>3. NoCheckpointAfterStop'
    BY <1>26, NoCheckpointAfterStop
       DEF TruncateFails, At, NoCheckpointAfterStop
  <2>4. AttemptIsOfItsTime'
    BY <1>26, AttemptIsOfItsTime
       DEF TruncateFails, At, End, flags, AttemptIsOfItsTime
  <2>5. CompleteMeansCopied'
    BY <1>26, CompleteMeansCopied
       DEF TruncateFails, End, CompleteMeansCopied, Complete
  <2>6. ReclaimedMeansFreed'
    BY <1>26, ReclaimedMeansFreed DEF TruncateFails, End, ReclaimedMeansFreed
  <2>7. TruncationExcludesWriters'
    BY <1>26, TruncationExcludesWriters
       DEF TruncateFails, At, End, TruncationExcludesWriters
  <2>8. CleanMeansCopied' /\ ReclaimKept' /\ NotStranded' /\
     EmptyMeansCopied' /\ SubmittedJobExists' /\ StoppedIsClosed'
    BY <1>26, CleanMeansCopied, ReclaimKept, NotStranded, EmptyMeansCopied,
       SubmittedJobExists, StoppedIsClosed
       DEF TruncateFails, flags, lane, log, CleanMeansCopied, Unannounced,
           Writing, ReclaimKept, NotStranded, EmptyMeansCopied,
           SubmittedJobExists, StoppedIsClosed
  <2> QED
    BY <2>1, <2>2, <2>3, <2>4, <2>5, <2>6, <2>7, <2>8 DEF MaintenanceInv
<1>27. ASSUME Finish
      PROVE  MaintenanceInv'
  <2>1. TypeOK'
    <3>1. /\ pending' \in BOOLEAN
          /\ reclaim' \in BOOLEAN
          /\ due' \in BOOLEAN
      BY <1>27, TypeOK
         DEF Finish, At, Settles, Complete, lane, log, bounds, TypeOK,
             Attempts, Outcomes
    <3>2. worker' \in Attempts \cup {None}
      BY <1>27, TypeOK
         DEF Finish, At, Settles, Complete, lane, log, bounds, TypeOK,
             Attempts, Outcomes
    <3> QED
      BY <1>27, TypeOK, <3>1, <3>2
         DEF Finish, TypeOK, flags, lane, log, bounds
  <2>2. CleanMeansCopied'
    BY <1>27, CleanMeansCopied, CompleteMeansCopied
       DEF Finish, At, Settles, log, CleanMeansCopied, Unannounced, Writing,
           CompleteMeansCopied, Current
  <2>3. ReclaimKept'
    BY <1>27, ReclaimKept, AttemptIsOfItsTime, ReclaimedMeansFreed
       DEF Finish, At, Settles, Complete, log, ReclaimKept,
           AttemptIsOfItsTime, ReclaimedMeansFreed, Current
  <2>4. TruncateCopiesNothing'
    BY <1>27, TruncateCopiesNothing DEF Finish, At, TruncateCopiesNothing
  <2>5. NoCheckpointAfterStop'
    BY <1>27, NoCheckpointAfterStop DEF Finish, NoCheckpointAfterStop
  <2>6. AttemptIsOfItsTime'
    BY <1>27, AttemptIsOfItsTime DEF Finish, AttemptIsOfItsTime
  <2>7. CompleteMeansCopied'
    BY <1>27, CompleteMeansCopied DEF Finish, CompleteMeansCopied, Current
  <2>8. ReclaimedMeansFreed'
    BY <1>27, ReclaimedMeansFreed DEF Finish, ReclaimedMeansFreed, Current
  <2>9. TruncationExcludesWriters'
    BY <1>27, TruncationExcludesWriters
       DEF Finish, At, TruncationExcludesWriters
  <2>10. NotStranded' /\ EmptyMeansCopied' /\ SubmittedJobExists' /\
     StoppedIsClosed'
    BY <1>27, NotStranded, EmptyMeansCopied, SubmittedJobExists,
       StoppedIsClosed
       DEF Finish, lane, log, NotStranded, EmptyMeansCopied,
           SubmittedJobExists, StoppedIsClosed
  <2> QED
    BY <2>1, <2>2, <2>3, <2>4, <2>5, <2>6, <2>7, <2>8, <2>9, <2>10
       DEF MaintenanceInv
<1>28. ASSUME ClockAdvances
      PROVE  MaintenanceInv'
  <2>1. TypeOK'
    <3>1. due' \in BOOLEAN
      BY <1>28, TypeOK DEF ClockAdvances, lane, log, bounds, TypeOK
    <3> QED
      BY <1>28, TypeOK, <3>1
         DEF ClockAdvances, TypeOK, flags, lane, log, bounds
  <2>2. CleanMeansCopied' /\ ReclaimKept' /\ TruncateCopiesNothing' /\
     NotStranded' /\ NoCheckpointAfterStop' /\ AttemptIsOfItsTime' /\
     EmptyMeansCopied' /\ CompleteMeansCopied' /\ ReclaimedMeansFreed' /\
     TruncationExcludesWriters' /\ SubmittedJobExists' /\ StoppedIsClosed'
    BY <1>28, CleanMeansCopied, ReclaimKept, TruncateCopiesNothing,
       NotStranded, NoCheckpointAfterStop, AttemptIsOfItsTime,
       EmptyMeansCopied, CompleteMeansCopied, ReclaimedMeansFreed,
       TruncationExcludesWriters, SubmittedJobExists, StoppedIsClosed
       DEF ClockAdvances, lane, log, CleanMeansCopied, Unannounced, Writing,
           ReclaimKept, TruncateCopiesNothing, At, NotStranded,
           NoCheckpointAfterStop, AttemptIsOfItsTime, EmptyMeansCopied,
           CompleteMeansCopied, Current, ReclaimedMeansFreed,
           TruncationExcludesWriters, SubmittedJobExists, StoppedIsClosed
  <2> QED
    BY <2>1, <2>2 DEF MaintenanceInv
<1>29. ASSUME StopLane
      PROVE  MaintenanceInv'
  <2>1. TypeOK'
    <3>1. laneClosed' \in BOOLEAN
      BY <1>29, TypeOK DEF StopLane, flags, log, bounds, TypeOK
    <3>2. stopper' \in {"none", "draining", "joining", "done"}
      BY <1>29, TypeOK DEF StopLane, flags, log, bounds, TypeOK
    <3> QED
      BY <1>29, TypeOK, <3>1, <3>2
         DEF StopLane, TypeOK, flags, lane, log, bounds
  <2>2. NoCheckpointAfterStop'
    BY <1>29, NoCheckpointAfterStop DEF StopLane, NoCheckpointAfterStop
  <2>3. StoppedIsClosed'
    BY <1>29, StoppedIsClosed DEF StopLane, StoppedIsClosed
  <2>4. CleanMeansCopied' /\ ReclaimKept' /\ TruncateCopiesNothing' /\
     NotStranded' /\ AttemptIsOfItsTime' /\ EmptyMeansCopied' /\
     CompleteMeansCopied' /\ ReclaimedMeansFreed' /\
     TruncationExcludesWriters' /\ SubmittedJobExists'
    BY <1>29, CleanMeansCopied, ReclaimKept, TruncateCopiesNothing,
       NotStranded, AttemptIsOfItsTime, EmptyMeansCopied,
       CompleteMeansCopied, ReclaimedMeansFreed, TruncationExcludesWriters,
       SubmittedJobExists
       DEF StopLane, flags, log, CleanMeansCopied, Unannounced, Writing,
           ReclaimKept, TruncateCopiesNothing, At, NotStranded,
           AttemptIsOfItsTime, EmptyMeansCopied, CompleteMeansCopied,
           Current, ReclaimedMeansFreed, TruncationExcludesWriters,
           SubmittedJobExists
  <2> QED
    BY <2>1, <2>2, <2>3, <2>4 DEF MaintenanceInv
<1>30. ASSUME Close
      PROVE  MaintenanceInv'
  <2>1. TypeOK'
    <3>1. closed' \in BOOLEAN
      BY <1>30, TypeOK DEF Close, flags, lane, log, bounds, TypeOK
    <3>2. stopper' \in {"none", "draining", "joining", "done"}
      BY <1>30, TypeOK DEF Close, flags, lane, log, bounds, TypeOK
    <3> QED
      BY <1>30, TypeOK, <3>1, <3>2 DEF Close, TypeOK, flags, lane, log, bounds
  <2>2. CleanMeansCopied'
    BY <1>30, CleanMeansCopied DEF Close, CleanMeansCopied
  <2>3. ReclaimKept'
    BY <1>30, ReclaimKept DEF Close, ReclaimKept
  <2>4. NoCheckpointAfterStop'
    BY <1>30, NoCheckpointAfterStop DEF Close, NoCheckpointAfterStop
  <2>5. CompleteMeansCopied'
    BY <1>30, CompleteMeansCopied DEF Close, CompleteMeansCopied, Current
  <2>6. ReclaimedMeansFreed'
    BY <1>30, ReclaimedMeansFreed DEF Close, ReclaimedMeansFreed, Current
  <2>7. StoppedIsClosed'
    BY <1>30, StoppedIsClosed DEF Close, StoppedIsClosed
  <2>8. TruncateCopiesNothing' /\ NotStranded' /\ AttemptIsOfItsTime' /\
     EmptyMeansCopied' /\ TruncationExcludesWriters' /\ SubmittedJobExists'
    BY <1>30, TruncateCopiesNothing, NotStranded, AttemptIsOfItsTime,
       EmptyMeansCopied, TruncationExcludesWriters, SubmittedJobExists
       DEF Close, flags, lane, log, TruncateCopiesNothing, At, NotStranded,
           AttemptIsOfItsTime, EmptyMeansCopied, TruncationExcludesWriters,
           Writing, SubmittedJobExists
  <2> QED
    BY <2>1, <2>2, <2>3, <2>4, <2>5, <2>6, <2>7, <2>8 DEF MaintenanceInv
<1>31. ASSUME Join
      PROVE  MaintenanceInv'
  <2>1. TypeOK'
    <3>1. stopper' \in {"none", "draining", "joining", "done"}
      BY <1>31, TypeOK DEF Join, flags, lane, log, bounds, TypeOK
    <3> QED
      BY <1>31, TypeOK, <3>1 DEF Join, TypeOK, flags, lane, log, bounds
  <2>2. NoCheckpointAfterStop'
    BY <1>31, NoCheckpointAfterStop DEF Join, NoCheckpointAfterStop
  <2>3. StoppedIsClosed'
    BY <1>31, StoppedIsClosed DEF Join, StoppedIsClosed
  <2>4. CleanMeansCopied' /\ ReclaimKept' /\ TruncateCopiesNothing' /\
     NotStranded' /\ AttemptIsOfItsTime' /\ EmptyMeansCopied' /\
     CompleteMeansCopied' /\ ReclaimedMeansFreed' /\
     TruncationExcludesWriters' /\ SubmittedJobExists'
    BY <1>31, CleanMeansCopied, ReclaimKept, TruncateCopiesNothing,
       NotStranded, AttemptIsOfItsTime, EmptyMeansCopied,
       CompleteMeansCopied, ReclaimedMeansFreed, TruncationExcludesWriters,
       SubmittedJobExists
       DEF Join, flags, lane, log, CleanMeansCopied, Unannounced, Writing,
           ReclaimKept, TruncateCopiesNothing, At, NotStranded,
           AttemptIsOfItsTime, EmptyMeansCopied, CompleteMeansCopied,
           ReclaimedMeansFreed, TruncationExcludesWriters,
           SubmittedJobExists
  <2> QED
    BY <2>1, <2>2, <2>3, <2>4 DEF MaintenanceInv
<1>32. ASSUME Restart
      PROVE  MaintenanceInv'
  <2>1. TypeOK'
    <3>1. /\ pending' \in BOOLEAN
          /\ reclaim' \in BOOLEAN
          /\ due' \in BOOLEAN
          /\ queued' \in BOOLEAN
          /\ closed' \in BOOLEAN
          /\ attached' \in BOOLEAN
          /\ laneClosed' \in BOOLEAN
      BY <1>32, TypeOK
         DEF Restart, log, TypeOK, Attempts, Outcomes, Operations, Threads
    <3>2. /\ generation' \in Nat
          /\ worker' \in Attempts \cup {None}
          /\ tick' \in {"out", "checked", "quiet", "submit", "attach",
                     "callback"}
          /\ wal' \in {"none", "queued", "running", "callback", "settled"}
          /\ capture' \in {"none", "queued", "running"}
          /\ stopper' \in {"none", "draining", "joining", "done"}
          /\ ops' \in [Threads -> Operations \cup {None}]
          /\ restarts' \in Nat
      BY <1>32, TypeOK
         DEF Restart, log, TypeOK, Attempts, Outcomes, Operations, Threads
    <3> QED
      BY <1>32, TypeOK, <3>1, <3>2
         DEF Restart, TypeOK, flags, lane, log, bounds
  <2>2. CleanMeansCopied'
    BY <1>32, CleanMeansCopied DEF Restart, CleanMeansCopied
  <2>3. ReclaimKept'
    BY <1>32, ReclaimKept DEF Restart, ReclaimKept
  <2>4. TruncateCopiesNothing'
    BY <1>32, TruncateCopiesNothing DEF Restart, TruncateCopiesNothing, At
  <2>5. NotStranded'
    BY <1>32, NotStranded DEF Restart, NotStranded
  <2>6. NoCheckpointAfterStop'
    BY <1>32, NoCheckpointAfterStop DEF Restart, NoCheckpointAfterStop
  <2>7. AttemptIsOfItsTime'
    BY <1>32, AttemptIsOfItsTime DEF Restart, AttemptIsOfItsTime
  <2>8. CompleteMeansCopied'
    BY <1>32, CompleteMeansCopied DEF Restart, CompleteMeansCopied, Current
  <2>9. ReclaimedMeansFreed'
    BY <1>32, ReclaimedMeansFreed DEF Restart, ReclaimedMeansFreed, Current
  <2>10. TruncationExcludesWriters'
    BY <1>32, TruncationExcludesWriters
       DEF Restart, TruncationExcludesWriters, At
  <2>11. SubmittedJobExists'
    BY <1>32, SubmittedJobExists DEF Restart, SubmittedJobExists
  <2>12. StoppedIsClosed'
    BY <1>32, StoppedIsClosed DEF Restart, StoppedIsClosed
  <2>13. EmptyMeansCopied'
    BY <1>32, EmptyMeansCopied
       DEF Restart, log, EmptyMeansCopied, flags, lane, bounds
  <2> QED
    BY <2>1, <2>2, <2>3, <2>4, <2>5, <2>6, <2>7, <2>8, <2>9, <2>10, <2>11,
       <2>12, <2>13
       DEF MaintenanceInv
<1>33. CASE UNCHANGED vars
  BY <1>33
     DEF MaintenanceInv, TypeOK, CleanMeansCopied, Unannounced, Writing,
         ReclaimKept, TruncateCopiesNothing, At, NotStranded,
         NoCheckpointAfterStop, AttemptIsOfItsTime, EmptyMeansCopied,
         CompleteMeansCopied, Current, Complete, ReclaimedMeansFreed,
         TruncationExcludesWriters, SubmittedJobExists, StoppedIsClosed,
         vars, flags, lane, log, bounds
<1> QED
  BY <1>1, <1>2, <1>3, <1>4, <1>5, <1>6, <1>7, <1>8, <1>9, <1>10, <1>11,
     <1>12, <1>13, <1>14, <1>15, <1>16, <1>17, <1>18, <1>19, <1>20, <1>21,
     <1>22, <1>23, <1>24, <1>25, <1>26, <1>27, <1>28, <1>29, <1>30, <1>31,
     <1>32, <1>33
     DEF Next, Ledger, Operate, Captures, Tick, LaneJob, Succeed, Attempt,
         Shutdown

-----------------------------------------------------------------------------
(* The invariant of the maintenance, for every set of handler threads and  *)
(* any number of operations and restarts (agent_storage_maintenance.py).   *)
THEOREM MaintenanceInvariant == Spec => []MaintenanceInv
<1>1. Init => MaintenanceInv
  BY MaintenanceInvInit
<1>2. MaintenanceInv /\ [Next]_vars => MaintenanceInv'
  BY MaintenanceInvStep
<1> QED
  BY <1>1, <1>2, PTL DEF Spec

(* The variables keep their types.                                         *)
THEOREM TypeCorrect == Spec => []TypeOK
<1>1. MaintenanceInv => TypeOK
  BY DEF MaintenanceInv
<1> QED
  BY <1>1, MaintenanceInvariant, PTL

(* A write that arrives while a checkpoint runs is not lost, and space a   *)
(* rebuild left is asked back until it is given.                           *)
THEOREM NothingIsForgotten == Spec => [](CleanMeansCopied /\ ReclaimKept)
<1>1. MaintenanceInv => CleanMeansCopied /\ ReclaimKept
  BY DEF MaintenanceInv
<1> QED
  BY <1>1, MaintenanceInvariant, PTL

(* A truncation never copies frames while it excludes writers, and none is *)
(* under way once stop() has returned.                                     *)
THEOREM CheckpointsAreContained ==
  Spec => [](TruncateCopiesNothing /\ NoCheckpointAfterStop)
<1>1. MaintenanceInv => TruncateCopiesNothing /\ NoCheckpointAfterStop
  BY DEF MaintenanceInv
<1> QED
  BY <1>1, MaintenanceInvariant, PTL
=============================================================================
