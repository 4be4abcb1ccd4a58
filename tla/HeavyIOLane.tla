---------------------------- MODULE HeavyIOLane ----------------------------
(***************************************************************************)
(* agent_jobs.py: one worker thread, a PriorityQueue of entries, and two   *)
(* dictionaries by key.  _futures names the job a key is coalesced into;   *)
(* _queued_jobs names the one entry of the queue that still speaks for the *)
(* key.  A promotion leaves the old entry in the queue, so the worker must *)
(* recognise and drop it.                                                  *)
(*                                                                         *)
(* Steps are what the code does under one acquisition of _lock, or one     *)
(* atomic operation of the queue or of a Future.  Clients have no identity *)
(* here: any thread may submit, promote, cancel or close at any step, the  *)
(* worker's own done-callbacks included.                                   *)
(***************************************************************************)
EXTENDS Naturals, FiniteSets

CONSTANTS Keys,          \* coalescing keys
          Jobs,          \* identities of the Future objects
          Priorities,    \* the values of JobPriority; lower runs first
          StopPriority,  \* _STOP_PRIORITY, behind every job
          MaxSequence,   \* bound of the runs on the entries ever queued
          None

ASSUME PriorityAssumption ==
  /\ Priorities \subseteq Nat
  /\ StopPriority \in Nat
  /\ \A p \in Priorities : p < StopPriority

(* The entry close() queues has neither operation nor future.              *)
Entries == [priority : Priorities, sequence : Nat, key : Keys, job : Jobs]
StopEntries == [priority : {StopPriority}, sequence : Nat, key : {None},
                job : {None}]

ASSUME NoneAssumption ==
  None \notin Jobs /\ None \notin Keys /\ None \notin Entries

(* Mutant: the worker takes the stop entry for a job.                      *)
NeverStop(e) == FALSE

IsStop(e) == e.job = None

VARIABLES
  queue,       \* contents of the PriorityQueue
  futures,     \* _futures
  queuedJobs,  \* _queued_jobs
  sequence,    \* _sequence
  closed,      \* _closed
  stopQueued,  \* close() has put its stop entry
  future,      \* [Jobs -> state of the Future]
  keyOf,       \* the key each job was accepted under
  pc,          \* where the worker is in _run
  held         \* the entry the worker took from the queue

vars == <<queue, futures, queuedJobs, sequence, closed, stopQueued, future,
          keyOf, pc, held>>

FutureStates == {"unused", "pending", "running", "cancelled", "notified",
                 "finished"}
WorkerStates == {"get", "claim", "start", "running", "release", "exited",
                 "dead"}

TypeOK ==
  /\ queue \subseteq (Entries \cup StopEntries)
  /\ futures \in [Keys -> Jobs \cup {None}]
  /\ queuedJobs \in [Keys -> Entries \cup {None}]
  /\ sequence \in Nat
  /\ closed \in BOOLEAN
  /\ stopQueued \in BOOLEAN
  /\ future \in [Jobs -> FutureStates]
  /\ keyOf \in [Jobs -> Keys \cup {None}]
  /\ pc \in WorkerStates
  /\ held \in Entries \cup {None}

Init ==
  /\ queue = {}
  /\ futures = [k \in Keys |-> None]
  /\ queuedJobs = [k \in Keys |-> None]
  /\ sequence = 0
  /\ closed = FALSE
  /\ stopQueued = FALSE
  /\ future = [j \in Jobs |-> "unused"]
  /\ keyOf = [j \in Jobs |-> None]
  /\ pc = "get"
  /\ held = None

(* Future.done() of an accepted job is the negation of Live.               *)
Live(j) == future[j] \in {"pending", "running"}

HasLiveOwner(k) == futures[k] # None /\ Live(futures[k])

(* Mutant: a plain FIFO queue.                                             *)
BeforeBySequence(e1, e2) == e1.sequence < e2.sequence

Before(e1, e2) ==
  \/ e1.priority < e2.priority
  \/ e1.priority = e2.priority /\ e1.sequence < e2.sequence

-----------------------------------------------------------------------------
(* Mutant: submissions are still accepted after close().                   *)
MayAcceptWhenClosed(k) == ~HasLiveOwner(k)

MayAccept(k) == ~closed /\ ~HasLiveOwner(k)

(* submit() when a new job is created.  When the key's job is live the     *)
(* call returns it, and when the lane is closed it raises: neither changes *)
(* any state.                                                              *)
Submit(k, p, j) ==
  LET entry == [priority |-> p, sequence |-> sequence, key |-> k, job |-> j]
  IN /\ MayAccept(k)
     /\ future[j] = "unused"
     /\ sequence < MaxSequence
     /\ future' = [future EXCEPT ![j] = "pending"]
     /\ keyOf' = [keyOf EXCEPT ![j] = k]
     /\ futures' = [futures EXCEPT ![k] = j]
     /\ queuedJobs' = [queuedJobs EXCEPT ![k] = entry]
     /\ queue' = queue \cup {entry}
     /\ sequence' = sequence + 1
     /\ UNCHANGED <<closed, stopQueued, pc, held>>

(* Mutant: the promoted entry is registered but never put in the queue.    *)
PromoteWithoutPut(k, p) ==
  /\ queuedJobs[k] # None
  /\ p < queuedJobs[k].priority
  /\ queuedJobs' = [queuedJobs EXCEPT ![k].priority = p]
  /\ UNCHANGED <<queue, futures, sequence, closed, stopQueued, future, keyOf,
                 pc, held>>

(* promote(): a second entry for the same job, with a better priority.     *)
Promote(k, p) ==
  LET current == queuedJobs[k]
      entry == [priority |-> p, sequence |-> sequence, key |-> k,
                job |-> current.job]
  IN /\ current # None
     /\ p < current.priority
     /\ sequence < MaxSequence
     /\ queuedJobs' = [queuedJobs EXCEPT ![k] = entry]
     /\ queue' = queue \cup {entry}
     /\ sequence' = sequence + 1
     /\ UNCHANGED <<futures, closed, stopQueued, future, keyOf, pc, held>>

(* close(), first half: the flag, under the lock.                          *)
Close ==
  /\ ~closed
  /\ closed' = TRUE
  /\ UNCHANGED <<queue, futures, queuedJobs, sequence, stopQueued, future,
                 keyOf, pc, held>>

(* Mutant: the stop entry overtakes the jobs that are waiting.             *)
StopEntryFirst == [priority |-> 0, sequence |-> sequence, key |-> None,
                   job |-> None]

StopEntry == [priority |-> StopPriority, sequence |-> sequence, key |-> None,
              job |-> None]

(* close(), second half: the stop entry, after the lock was released.      *)
PutStop ==
  /\ closed /\ ~stopQueued
  /\ stopQueued' = TRUE
  /\ queue' = queue \cup {StopEntry}
  /\ sequence' = sequence + 1
  /\ UNCHANGED <<futures, queuedJobs, closed, future, keyOf, pc, held>>

(* Future.cancel(), which only succeeds before the job started.            *)
Cancel(j) ==
  /\ future[j] = "pending"
  /\ future' = [future EXCEPT ![j] = "cancelled"]
  /\ UNCHANGED <<queue, futures, queuedJobs, sequence, closed, stopQueued,
                 keyOf, pc, held>>

-----------------------------------------------------------------------------
(* The worker                                                              *)

Get ==
  /\ pc = "get"
  /\ \E e \in queue :
       /\ \A other \in queue \ {e} : Before(e, other)
       /\ queue' = queue \ {e}
       /\ IF IsStop(e) THEN pc' = "exited" /\ UNCHANGED held
                       ELSE pc' = "claim" /\ held' = e
  /\ UNCHANGED <<futures, queuedJobs, sequence, closed, stopQueued, future,
                 keyOf>>

(* Mutant: the worker believes every entry it takes.                       *)
AlwaysCurrent(e) == TRUE

IsCurrent(e) == queuedJobs[e.key] = e

(* An entry that no longer speaks for its key was promoted or replaced.    *)
Claim ==
  /\ pc = "claim"
  /\ IF IsCurrent(held)
     THEN /\ queuedJobs' = [queuedJobs EXCEPT ![held.key] = None]
          /\ pc' = "start"
          /\ UNCHANGED held
     ELSE /\ pc' = "get"
          /\ held' = None
          /\ UNCHANGED queuedJobs
  /\ UNCHANGED <<queue, futures, sequence, closed, stopQueued, future, keyOf>>

(* Mutant: a cancelled job is run all the same.                            *)
RunnableUnlessDone(j) == future[j] \in {"pending", "cancelled"}

Runnable(j) == future[j] = "pending"

(* set_running_or_notify_cancel(), which raises on a future in any other   *)
(* state; no handler catches that, so the only worker would die.           *)
StartJob ==
  /\ pc = "start"
  /\ \/ /\ Runnable(held.job)
        /\ future' = [future EXCEPT ![held.job] = "running"]
        /\ pc' = "running"
     \/ /\ future[held.job] = "cancelled"
        /\ future' = [future EXCEPT ![held.job] = "notified"]
        /\ pc' = "release"
     \/ /\ future[held.job] \notin {"pending", "cancelled"}
        /\ pc' = "dead"
        /\ UNCHANGED future
  /\ UNCHANGED <<queue, futures, queuedJobs, sequence, closed, stopQueued,
                 keyOf, held>>

(* set_result() or set_exception(); the done-callbacks run from here, and  *)
(* whatever they do to the lane happens before Release.                    *)
FinishJob ==
  /\ pc = "running"
  /\ future' = [future EXCEPT ![held.job] = "finished"]
  /\ pc' = "release"
  /\ UNCHANGED <<queue, futures, queuedJobs, sequence, closed, stopQueued,
                 keyOf, held>>

(* Mutant: the key is forgotten even when a callback has resubmitted it.   *)
ForgetBlindly(e) == [futures EXCEPT ![e.key] = None]

Forget(e) == IF futures[e.key] = e.job
             THEN [futures EXCEPT ![e.key] = None]
             ELSE futures

(* The finally block: forget the job unless its key was already taken over *)
Release ==
  /\ pc = "release"
  /\ futures' = Forget(held)
  /\ pc' = "get"
  /\ held' = None
  /\ UNCHANGED <<queue, queuedJobs, sequence, closed, stopQueued, future,
                 keyOf>>

Worker == Get \/ Claim \/ StartJob \/ FinishJob \/ Release

Next ==
  \/ \E k \in Keys, p \in Priorities, j \in Jobs : Submit(k, p, j)
  \/ \E k \in Keys, p \in Priorities : Promote(k, p)
  \/ \E j \in Jobs : Cancel(j)
  \/ Close
  \/ PutStop
  \/ Worker

Spec == Init /\ [][Next]_vars

(* The worker is a running thread, its operations terminate, and the       *)
(* thread that closed the lane goes on to put the stop entry.              *)
FairSpec == Spec /\ WF_vars(Worker) /\ WF_vars(PutStop)

-----------------------------------------------------------------------------
(* Properties                                                              *)

(* No accepted job is ever lost: one that was not started or cancelled is  *)
(* always reachable through the entry the worker will accept as current,   *)
(* however often its key was promoted and whoever raced the worker between *)
(* its get() and its claim.                                                *)
LiveJobReachable ==
  \A j \in Jobs : future[j] = "pending" =>
    \/ \E e \in queue : e.job = j /\ queuedJobs[e.key] = e
    \/ /\ held # None /\ held.job = j
       /\ pc = "start" \/ (pc = "claim" /\ queuedJobs[held.key] = held)

(* Coalescing: the registry names every live job under its own key, so two *)
(* jobs of one key (two captures) are never live together.                 *)
RegistryNamesLiveJob ==
  \A j \in Jobs : Live(j) => futures[keyOf[j]] = j

(* The worker never takes a stale entry for a job it already settled: that *)
(* would raise out of _run and end the only I/O thread of the agent.       *)
WorkerSurvives == pc # "dead"

(* close() drains: when the worker has returned nothing is left waiting    *)
(* and no caller is left holding a future that nobody will settle.         *)
DrainedOnExit ==
  pc = "exited" => queue = {} /\ \A j \in Jobs : ~Live(j)

(* No inversion: when the worker takes an entry, no key has a current      *)
(* entry that should have run before it, promotions included.              *)
TakesMostUrgent ==
  [][pc = "get" /\ pc' = "claim" =>
       \A k \in Keys : queuedJobs[k] # None =>
                           queuedJobs[k].priority >= held'.priority]_vars

(* Together with TypeOK these are inductive; HeavyIOLane_proofs uses them. *)

EntriesNameTheirJob ==
  /\ \A e \in queue : ~IsStop(e) => keyOf[e.job] = e.key
  /\ held # None => keyOf[held.job] = held.key
  /\ \A k \in Keys : queuedJobs[k] # None =>
       queuedJobs[k].key = k /\ keyOf[queuedJobs[k].job] = k
  /\ \A j \in Jobs : keyOf[j] = None <=> future[j] = "unused"

SequencesDistinct ==
  /\ \A e \in queue : e.sequence < sequence
  /\ held # None => held.sequence < sequence
  /\ \A e1, e2 \in queue : e1.sequence = e2.sequence => e1 = e2

(* The current entry of a key is in the queue or in the worker's hands.    *)
CurrentEntryWaits ==
  \A k \in Keys : queuedJobs[k] # None =>
    /\ queuedJobs[k] \in queue \/ (pc = "claim" /\ queuedJobs[k] = held)
    /\ future[queuedJobs[k].job] \in {"pending", "cancelled"}

PendingIsCurrent ==
  \A j \in Jobs : future[j] = "pending" =>
    \/ queuedJobs[keyOf[j]] # None /\ queuedJobs[keyOf[j]].job = j
    \/ pc = "start" /\ held.job = j

WorkerHolds ==
  /\ held # None <=> pc \in {"claim", "start", "running", "release", "dead"}
  /\ pc = "start" =>
       /\ future[held.job] \in {"pending", "cancelled"}
       /\ \A k \in Keys : queuedJobs[k] # None => queuedJobs[k].job # held.job
  /\ \A j \in Jobs : future[j] = "running" <=> pc = "running" /\ held.job = j
  /\ pc = "release" => future[held.job] \in {"finished", "notified"}

StopIsLast ==
  /\ stopQueued => closed
  /\ \A e \in queue : IsStop(e) => stopQueued
  /\ \A e1, e2 \in queue : IsStop(e1) /\ IsStop(e2) => e1 = e2
  /\ pc = "exited" => closed /\ stopQueued /\ queue = {}

LaneInv ==
  /\ TypeOK
  /\ EntriesNameTheirJob
  /\ SequencesDistinct
  /\ CurrentEntryWaits
  /\ PendingIsCurrent
  /\ WorkerHolds
  /\ StopIsLast
  /\ RegistryNamesLiveJob
  /\ WorkerSurvives

(* Closing the lane ends in a returned worker with every job settled.      *)
CloseDrains == closed ~> (pc = "exited" /\ \A j \in Jobs : ~Live(j))

(* The lane keeps the promise its clients are modelled against.            *)
Promise == INSTANCE JobLane
  WITH state <- [j \in Jobs |->
                   IF future[j] = "notified" THEN "cancelled" ELSE future[j]],
       owner <- futures

ImplementsJobLane == Promise!LaneSpec
=============================================================================
