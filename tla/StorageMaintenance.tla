------------------------- MODULE StorageMaintenance -------------------------
(***************************************************************************)
(* agent_storage_maintenance.py, sqlite_activity.py and the checkpoint of  *)
(* sqlite_wal.py: what is written to the ledger first lies in SQLite's     *)
(* write-ahead log.  When the ledger is idle a thread of its own copies    *)
(* the log into the main file and, after a large rebuild, truncates it.    *)
(* Four kinds of thread meet here: the scheduler asks (tick), the heavy-   *)
(* I/O lane dispatches, the maintenance thread checkpoints, and whoever    *)
(* has the ledger open announces at the end that it wrote.                 *)
(*                                                                         *)
(* The bytes of the log are abstracted to three facts that survive the     *)
(* process: whether all of it is copied, whether it is empty, and whether  *)
(* it still holds what a staged rebuild put there.                         *)
(***************************************************************************)
EXTENDS Naturals

CONSTANTS LaneThread,  \* the worker of the heavy-I/O lane
          Handlers,    \* HTTP handler threads, which open the ledger too
          None,
          MaxWork,     \* bound: ledger operations and captures
          MaxRestarts  \* bound: lives of the agent after the first one

ASSUME NamesAssumption == LaneThread \notin Handlers

Threads == {LaneThread} \cup Handlers

VARIABLES
  \* of StorageMaintenance
  pending, reclaim, generation,
  due,         \* the clock has reached _next_attempt
  queued,
  worker,      \* the maintenance thread: its arguments, step and outcome
  closed,
  \* of the agent around it
  tick,        \* where the scheduler is in tick()
  wal,         \* state of the lane's "wal-maintenance" future
  attached,    \* _dispatched is registered on it
  capture,     \* state of the capture future
  laneClosed,
  stopper,     \* where stop() is
  \* of the ledger
  ops,         \* [Threads -> the ledger operation the thread is in, or None]
  copied, empty, owed,
  \* bounds
  work, restarts

flags == <<pending, reclaim, generation, due>>
lane == <<wal, attached, capture, laneClosed>>
log == <<copied, empty, owed>>
bounds == <<work, restarts>>
vars == <<flags, queued, worker, closed, tick, lane, stopper, ops, log,
          bounds>>

Outcomes == {"none", "absent", "complete", "reclaimed", "unfinished"}
Attempts == [generation : Nat, reclaim : BOOLEAN,
             step : {"look", "admit", "passive", "claim", "truncate", "end"},
             outcome : Outcomes]
Operations == [kind : {"read", "write", "rebuild"},
               step : {"open", "left", "reclaim"}]

ASSUME NoneAssumption == None \notin Attempts /\ None \notin Operations

TypeOK ==
  /\ pending \in BOOLEAN /\ reclaim \in BOOLEAN /\ due \in BOOLEAN
  /\ generation \in Nat
  /\ queued \in BOOLEAN /\ closed \in BOOLEAN
  /\ worker \in Attempts \cup {None}
  /\ tick \in {"out", "checked", "quiet", "submit", "attach", "callback"}
  /\ wal \in {"none", "queued", "running", "callback", "settled"}
  /\ attached \in BOOLEAN /\ laneClosed \in BOOLEAN
  /\ capture \in {"none", "queued", "running"}
  /\ stopper \in {"none", "draining", "joining", "done"}
  /\ ops \in [Threads -> Operations \cup {None}]
  /\ copied \in BOOLEAN /\ empty \in BOOLEAN /\ owed \in BOOLEAN
  /\ work \in Nat /\ restarts \in Nat

(* The maintenance starts with a pending attempt that reclaims: whatever   *)
(* was owed when the last process went away is not known any more.         *)
Init ==
  /\ pending = TRUE /\ reclaim = TRUE /\ generation = 0 /\ due = TRUE
  /\ queued = FALSE /\ worker = None /\ closed = FALSE
  /\ tick = "out" /\ wal = "none" /\ attached = FALSE
  /\ capture = "none" /\ laneClosed = FALSE /\ stopper = "none"
  /\ ops = [t \in Threads |-> None]
  /\ copied \in BOOLEAN /\ empty \in BOOLEAN /\ owed \in BOOLEAN
  /\ (empty => copied /\ ~owed)
  /\ work = 0 /\ restarts = 0

-----------------------------------------------------------------------------
(* sqlite_activity.py and the operations of the ledger                     *)

Writing(t) == ops[t] # None /\ ops[t].kind # "read"

(* idle(): no operation is registered.                                     *)
Idle == \A t \in Threads : ops[t] # None => ops[t].step # "open"

(* The writer admission is held around a writing operation, its            *)
(* announcement included, and by a checkpoint that truncates.              *)
AdmissionFree ==
  /\ \A t \in Threads : Writing(t) => ops[t].step = "reclaim"
  /\ worker # None => worker.step # "truncate"

LaneBusy ==
  \/ wal \in {"running", "callback"}
  \/ capture = "running"
  \/ ops[LaneThread] # None

(* Mutant: a release is counted as the end of a write.                     *)
EventCountsBack(event) ==
  IF closed THEN UNCHANGED flags
  ELSE /\ pending' = (pending \/ event # "reader_release")
       /\ reclaim' = (reclaim \/ event = "reclaim")
       /\ generation' = IF event = "reader_release" THEN generation - 1
                         ELSE generation + 1
       /\ due' = (due \/ pending')

(* _event(): under the lock; a write or reclaim outdates a running attempt *)
Event(event) ==
  IF closed THEN UNCHANGED flags
  ELSE /\ pending' = (pending \/ event # "reader_release")
       /\ reclaim' = (reclaim \/ event = "reclaim")
       /\ generation' = generation + IF event = "reader_release" THEN 0 ELSE 1
       /\ due' = (due \/ pending')

(* open_ledger(): a handler reads or writes; the lane's worker writes in a *)
(* capture and rebuilds in a job of its own.                               *)
Open(t, kind) ==
  /\ ops[t] = None /\ work < MaxWork
  /\ t = LaneThread =>
       \/ kind \in {"read", "write"} /\ capture = "running"
       \/ kind = "rebuild" /\ ~LaneBusy
  /\ kind = "rebuild" => t = LaneThread
  /\ kind # "read" => AdmissionFree
  /\ ops' = [ops EXCEPT ![t] = [kind |-> kind, step |-> "open"]]
  /\ work' = work + 1
  /\ UNCHANGED <<flags, queued, worker, closed, tick, lane, stopper, log,
                 restarts>>

(* A transaction commits: its frames lie in the log and are not copied.    *)
Commit(t) ==
  /\ Writing(t) /\ ops[t].step = "open"
  /\ copied' = FALSE /\ empty' = FALSE
  /\ owed' = (owed \/ ops[t].kind = "rebuild")
  /\ UNCHANGED <<flags, queued, worker, closed, tick, lane, stopper, ops,
                 bounds>>

(* The connection closes.  SQLite itself may copy the log before, and drop *)
(* it when this was the last connection and may write.                     *)
Leave(t) ==
  /\ ops[t] # None /\ ops[t].step = "open"
  /\ ops' = [ops EXCEPT ![t] = [kind |-> @.kind, step |-> "left"]]
  /\ \/ UNCHANGED log
     \/ Writing(t) /\ copied' = TRUE /\ UNCHANGED <<empty, owed>>
     \/ /\ Writing(t) /\ worker = None
        /\ \A other \in Threads \ {t} : ops[other] # None =>
                                          ops[other].step # "open"
        /\ copied' = TRUE /\ empty' = TRUE /\ owed' = FALSE
  /\ UNCHANGED <<flags, queued, worker, closed, tick, lane, stopper, bounds>>

Announce(t) ==
  /\ ops[t] # None /\ ops[t].step = "left"
  /\ Event(IF Writing(t) THEN "write" ELSE "reader_release")
  /\ ops' = [ops EXCEPT ![t] = IF @.kind = "rebuild"
                               THEN [kind |-> "rebuild", step |-> "reclaim"]
                               ELSE None]
  /\ UNCHANGED <<queued, worker, closed, tick, lane, stopper, log, bounds>>

(* The staged rebuild asks for its space back after its connection closed. *)
AnnounceReclaim(t) ==
  /\ ops[t] # None /\ ops[t].step = "reclaim"
  /\ Event("reclaim")
  /\ ops' = [ops EXCEPT ![t] = None]
  /\ UNCHANGED <<queued, worker, closed, tick, lane, stopper, log, bounds>>

-----------------------------------------------------------------------------
(* The capture future, as far as maintenance looks at it                   *)

SubmitCapture ==
  /\ capture = "none" /\ ~laneClosed /\ work < MaxWork
  /\ capture' = "queued" /\ work' = work + 1
  /\ UNCHANGED <<flags, queued, worker, closed, tick, wal, attached,
                 laneClosed, stopper, ops, log, restarts>>

RunCapture ==
  /\ capture = "queued" /\ ~LaneBusy
  /\ capture' = "running"
  /\ UNCHANGED <<flags, queued, worker, closed, tick, wal, attached,
                 laneClosed, stopper, ops, log, bounds>>

EndCapture ==
  /\ capture = "running" /\ ops[LaneThread] = None
  /\ capture' = "none"
  /\ UNCHANGED <<flags, queued, worker, closed, tick, wal, attached,
                 laneClosed, stopper, ops, log, bounds>>

-----------------------------------------------------------------------------
(* tick(), in the scheduler's thread                                       *)

Quiet == capture = "none" /\ Idle

TickCheck ==
  /\ tick = "out"
  /\ ~closed /\ pending /\ worker = None /\ ~queued /\ due
  /\ tick' = "checked"
  /\ UNCHANGED <<flags, queued, worker, closed, lane, stopper, ops, log,
                 bounds>>

(* capture_running() and idle() are asked outside the lock.                *)
TickQuiet ==
  /\ tick = "checked"
  /\ tick' = IF Quiet THEN "quiet" ELSE "out"
  /\ UNCHANGED <<flags, queued, worker, closed, lane, stopper, ops, log,
                 bounds>>

TickClaim ==
  /\ tick = "quiet"
  /\ IF closed \/ worker # None \/ queued
     THEN tick' = "out" /\ UNCHANGED queued
     ELSE tick' = "submit" /\ queued' = TRUE
  /\ UNCHANGED <<flags, worker, closed, lane, stopper, ops, log, bounds>>

(* The lane is closed: submit() raises and the claim is taken back.        *)
TickRefused ==
  /\ tick = "submit" /\ laneClosed
  /\ queued' = FALSE /\ tick' = "out"
  /\ UNCHANGED <<flags, worker, closed, lane, stopper, ops, log, bounds>>

(* A submission under a key whose future is live returns that future.      *)
TickSubmit ==
  /\ tick = "submit" /\ ~laneClosed
  /\ IF wal \in {"queued", "running"} THEN UNCHANGED <<wal, attached>>
     ELSE wal' = "queued" /\ attached' = FALSE
  /\ tick' = "attach"
  /\ UNCHANGED <<flags, queued, worker, closed, capture, laneClosed, stopper,
                 ops, log, bounds>>

(* Mutant: registering the callback on a settled future does nothing.      *)
TickAttachTooLate ==
  /\ tick = "attach"
  /\ tick' = "out" /\ attached' = TRUE
  /\ UNCHANGED <<flags, queued, worker, closed, wal, capture, laneClosed,
                 stopper, ops, log, bounds>>

TickAttach ==
  /\ tick = "attach"
  /\ IF wal = "settled" THEN tick' = "callback" /\ UNCHANGED attached
     ELSE tick' = "out" /\ attached' = TRUE
  /\ UNCHANGED <<flags, queued, worker, closed, wal, capture, laneClosed,
                 stopper, ops, log, bounds>>

TickCallback ==
  /\ tick = "callback"
  /\ queued' = FALSE /\ tick' = "out"
  /\ UNCHANGED <<flags, worker, closed, lane, stopper, ops, log, bounds>>

-----------------------------------------------------------------------------
(* The job in the lane                                                     *)

RunWal ==
  /\ wal = "queued" /\ ~LaneBusy
  /\ wal' = "running"
  /\ UNCHANGED <<flags, queued, worker, closed, tick, attached, capture,
                 laneClosed, stopper, ops, log, bounds>>

(* _dispatch() decides again, now under the lock, and starts the thread;   *)
(* the job ends, and with it its future.                                   *)
Dispatch ==
  /\ wal = "running"
  /\ worker' = IF ~closed /\ pending /\ worker = None /\ due /\ Quiet
               THEN [generation |-> generation, reclaim |-> reclaim,
                     step |-> "look", outcome |-> "none"]
               ELSE worker
  /\ wal' = IF attached THEN "callback" ELSE "settled"
  /\ UNCHANGED <<flags, queued, closed, tick, attached, capture, laneClosed,
                 stopper, ops, log, bounds>>

(* _dispatched() in the lane's thread.                                     *)
Dispatched ==
  /\ wal = "callback"
  /\ queued' = FALSE /\ wal' = "settled"
  /\ UNCHANGED <<flags, worker, closed, tick, attached, capture, laneClosed,
                 stopper, ops, log, bounds>>

-----------------------------------------------------------------------------
(* checkpoint(), in the maintenance thread                                 *)

Goto(step) == worker' = [worker EXCEPT !.step = step]
End(outcome) == worker' = [worker EXCEPT !.step = "end", !.outcome = outcome]

At(step) == worker # None /\ worker.step = step

Look ==
  /\ At("look")
  /\ IF empty THEN End("absent")
     ELSE IF Idle THEN Goto("admit") ELSE End("unfinished")
  /\ UNCHANGED <<flags, queued, closed, tick, lane, stopper, ops, log, bounds>>

(* The physical-maintenance lock and the writer admission are tried, never *)
(* awaited; the admission is given back before anything is copied.         *)
Admit ==
  /\ At("admit")
  /\ \/ AdmissionFree /\ Idle /\ Goto("passive")
     \/ End("unfinished")
  /\ UNCHANGED <<flags, queued, closed, tick, lane, stopper, ops, log, bounds>>

(* PASSIVE copies what it can; readers elsewhere or a writer may stop it   *)
(* short, and so may the reservation of space for the main file.           *)
PassiveCompletes ==
  /\ At("passive")
  /\ copied' = TRUE
  /\ \/ worker.reclaim /\ Goto("claim")
     \/ ~worker.reclaim /\ (End("complete") \/ Goto("claim"))
  /\ UNCHANGED <<flags, queued, closed, tick, lane, stopper, ops, empty, owed,
                 bounds>>

PassiveFails ==
  /\ At("passive")
  /\ End("unfinished")
  /\ UNCHANGED <<flags, queued, closed, tick, lane, stopper, ops, log, bounds>>

(* Mutant: nobody looks whether frames were appended after the PASSIVE one *)
ClaimUnchecked ==
  /\ At("claim")
  /\ AdmissionFree /\ Idle /\ Goto("truncate")
  /\ UNCHANGED <<flags, queued, closed, tick, lane, stopper, ops, log, bounds>>

(* The admission is held from here on; frames appended since the PASSIVE   *)
(* checkpoint put the truncation off.                                      *)
Claim ==
  /\ At("claim")
  /\ AdmissionFree /\ Idle /\ copied /\ Goto("truncate")
  /\ UNCHANGED <<flags, queued, closed, tick, lane, stopper, ops, log, bounds>>

ClaimFails ==
  /\ At("claim")
  /\ End("unfinished")
  /\ UNCHANGED <<flags, queued, closed, tick, lane, stopper, ops, log, bounds>>

Truncate ==
  /\ At("truncate")
  /\ copied' = TRUE /\ empty' = TRUE /\ owed' = FALSE
  /\ End("reclaimed")
  /\ UNCHANGED <<flags, queued, closed, tick, lane, stopper, ops, bounds>>

TruncateFails ==
  /\ At("truncate")
  /\ End("unfinished")
  /\ UNCHANGED <<flags, queued, closed, tick, lane, stopper, ops, log, bounds>>

Complete(attempt) ==
  \/ attempt.outcome \in {"absent", "reclaimed"}
  \/ attempt.outcome = "complete" /\ ~attempt.reclaim

(* Mutant: what was announced during the attempt is forgotten.             *)
SettlesAnyway(attempt) == Complete(attempt)

Settles(attempt) == attempt.generation = generation /\ Complete(attempt)

(* The end of _run(): settled, or another attempt after a pause.           *)
Finish ==
  /\ At("end")
  /\ IF Settles(worker)
     THEN pending' = FALSE /\ reclaim' = FALSE /\ UNCHANGED due
     ELSE due' = FALSE /\ UNCHANGED <<pending, reclaim>>
  /\ worker' = None
  /\ UNCHANGED <<generation, queued, closed, tick, lane, stopper, ops, log,
                 bounds>>

(* The pause is at most a minute.                                          *)
ClockAdvances ==
  /\ ~due /\ due' = TRUE
  /\ UNCHANGED <<pending, reclaim, generation, queued, worker, closed, tick,
                 lane, stopper, ops, log, bounds>>

-----------------------------------------------------------------------------
(* CodexUsageAgent.stop(), and the process going away                      *)

StopLane ==
  /\ stopper = "none"
  /\ laneClosed' = TRUE /\ stopper' = "draining"
  /\ UNCHANGED <<flags, queued, worker, closed, tick, wal, attached, capture,
                 ops, log, bounds>>

(* Mutant: close() does not wait for the maintenance thread.               *)
CloseAtOnce ==
  /\ stopper = "draining"
  /\ wal \notin {"queued", "running", "callback"} /\ capture = "none"
  /\ ops[LaneThread] = None
  /\ closed' = TRUE /\ stopper' = "done"
  /\ UNCHANGED <<flags, queued, worker, tick, lane, ops, log, bounds>>

(* The lane drained; _closed is set and the thread, if any, read under the *)
(* lock.                                                                   *)
Close ==
  /\ stopper = "draining"
  /\ wal \notin {"queued", "running", "callback"} /\ capture = "none"
  /\ ops[LaneThread] = None
  /\ closed' = TRUE
  /\ stopper' = IF worker = None THEN "done" ELSE "joining"
  /\ UNCHANGED <<flags, queued, worker, tick, lane, ops, log, bounds>>

Join ==
  /\ stopper = "joining" /\ worker = None
  /\ stopper' = "done"
  /\ UNCHANGED <<flags, queued, worker, closed, tick, lane, ops, log, bounds>>

(* Mutant: the first attempt of a new process does not reclaim.            *)
RestartWithoutReclaim ==
  /\ restarts < MaxRestarts
  /\ restarts' = restarts + 1
  /\ pending' = TRUE /\ reclaim' = FALSE /\ generation' = 0 /\ due' = TRUE
  /\ queued' = FALSE /\ worker' = None /\ closed' = FALSE
  /\ tick' = "out" /\ wal' = "none" /\ attached' = FALSE
  /\ capture' = "none" /\ laneClosed' = FALSE /\ stopper' = "none"
  /\ ops' = [t \in Threads |-> None]
  /\ UNCHANGED <<log, work>>

(* The process dies at any point, or has stopped, and a new one starts.    *)
Restart ==
  /\ restarts < MaxRestarts
  /\ restarts' = restarts + 1
  /\ pending' = TRUE /\ reclaim' = TRUE /\ generation' = 0 /\ due' = TRUE
  /\ queued' = FALSE /\ worker' = None /\ closed' = FALSE
  /\ tick' = "out" /\ wal' = "none" /\ attached' = FALSE
  /\ capture' = "none" /\ laneClosed' = FALSE /\ stopper' = "none"
  /\ ops' = [t \in Threads |-> None]
  /\ UNCHANGED <<log, work>>

-----------------------------------------------------------------------------
Operate(t) == Leave(t) \/ Announce(t) \/ AnnounceReclaim(t)

Ledger ==
  \E t \in Threads :
    \/ \E kind \in {"read", "write", "rebuild"} : Open(t, kind)
    \/ Commit(t)
    \/ Operate(t)

Captures == SubmitCapture \/ RunCapture \/ EndCapture

Tick == TickCheck \/ TickQuiet \/ TickClaim \/ TickRefused \/ TickSubmit
          \/ TickAttach \/ TickCallback

LaneJob == RunWal \/ Dispatch \/ Dispatched

Succeed == PassiveCompletes \/ Claim \/ Truncate
Attempt == Look \/ Admit \/ Succeed \/ PassiveFails \/ ClaimFails
             \/ TruncateFails \/ Finish

Shutdown == StopLane \/ Close \/ Join

Next == Ledger \/ Captures \/ Tick \/ LaneJob \/ Attempt \/ ClockAdvances
          \/ Shutdown \/ Restart

Spec == Init /\ [][Next]_vars

(* Every thread goes on with the call it is in, time passes, and no step   *)
(* of a checkpoint fails for ever: locks are held, and readers elsewhere   *)
(* read, for a while.                                                      *)
FairSpec ==
  /\ Spec
  /\ \A t \in Threads : WF_vars(Operate(t))
  /\ WF_vars(RunCapture \/ EndCapture)
  /\ WF_vars(Tick) /\ WF_vars(LaneJob) /\ WF_vars(ClockAdvances)
  /\ WF_vars(Attempt)
  /\ SF_vars(Admit /\ worker'.step = "passive")
  /\ SF_vars(PassiveCompletes) /\ SF_vars(Claim) /\ SF_vars(Truncate)
  /\ WF_vars(Close \/ Join)

-----------------------------------------------------------------------------
(* Properties                                                              *)

(* An operation that may have written and has not announced it yet.        *)
Unannounced == \E t \in Threads : Writing(t) /\ ops[t].step # "reclaim"

(* test_write_arriving_during_checkpoint_is_not_lost: frames that are not  *)
(* copied have a pending attempt, or a writer that will ask for one.       *)
CleanMeansCopied == ~copied => pending \/ Unannounced \/ closed

(* Space a staged rebuild left in the log is asked back until it is given, *)
(* also across a death of the process.                                     *)
ReclaimKept ==
  owed => reclaim \/ closed \/ \E t \in Threads : /\ ops[t] # None
                                                  /\ ops[t].kind = "rebuild"

(* "a raced append is deferred rather than copied through a long exclusive *)
(* writer hold": a truncation that holds the admission finds nothing to    *)
(* copy, whatever was written since the passive checkpoint.                *)
TruncateCopiesNothing == At("truncate") => copied

(* The dispatch that marked the maintenance as queued is still under way:  *)
(* otherwise no tick would ever dispatch again.                            *)
NotStranded ==
  queued => \/ tick \in {"submit", "attach", "callback"}
            \/ attached /\ wal \in {"queued", "running", "callback"}

(* When stop() has returned no thread touches the ledger, whose lock the   *)
(* agent is about to give up.                                              *)
NoCheckpointAfterStop == stopper = "done" => worker = None

(* An attempt is dispatched at a generation that has been reached, and      *)
(* learns there whether it reclaims.                                       *)
Current == worker # None /\ worker.generation = generation /\ ~closed

AttemptIsOfItsTime ==
  worker # None => /\ worker.generation <= generation
                   /\ worker.generation = generation =>
                        worker.reclaim = reclaim

EmptyMeansCopied == empty => copied /\ ~owed

(* What a settling attempt relies on: nothing was announced since it began,*)
(* so whatever is not copied or still owed is yet to be announced.         *)
CompleteMeansCopied ==
  Current /\ At("end") /\ Complete(worker) => copied \/ Unannounced

ReclaimedMeansFreed ==
  Current /\ At("end") /\ worker.outcome \in {"absent", "reclaimed"} =>
    ~owed \/ \E t \in Threads : ops[t] # None /\ ops[t].kind = "rebuild"

(* The truncation holds the writer admission.                              *)
TruncationExcludesWriters ==
  At("truncate") => \A t \in Threads : Writing(t) => ops[t].step = "reclaim"

SubmittedJobExists == tick = "attach" => wal # "none"

StoppedIsClosed == stopper \in {"joining", "done"} => closed

(* No write and no request to reclaim is forgotten, a truncation has       *)
(* nothing to copy, and the maintenance neither strands nor outlives the   *)
(* agent; the conjuncts after them are what these follow from, step by     *)
(* step.                                                                   *)
MaintenanceInv ==
  /\ TypeOK /\ CleanMeansCopied /\ ReclaimKept /\ TruncateCopiesNothing
  /\ NotStranded /\ NoCheckpointAfterStop
  /\ AttemptIsOfItsTime /\ EmptyMeansCopied /\ CompleteMeansCopied
  /\ ReclaimedMeansFreed /\ TruncationExcludesWriters /\ SubmittedJobExists
  /\ StoppedIsClosed

(* Once nothing is written any more the log gets copied and, where it is   *)
(* owed, emptied.                                                          *)
EventuallyClean == <>[](closed \/ (~pending /\ copied /\ ~owed))
=============================================================================
