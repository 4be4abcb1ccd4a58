---------------------------- MODULE RebuildQueue ----------------------------
(***************************************************************************)
(* agent_rebuild_queue.py: which stale source the agent rebuilds next, one *)
(* bounded slice at a time, on the heavy-I/O lane that captures use too.   *)
(*                                                                         *)
(* reconcile() runs inside done-callbacks: in the lane's worker, or, when  *)
(* the future was settled before add_done_callback, in the thread that     *)
(* submitted it.  It reads the candidates from the ledger before it takes  *)
(* the lock, so the list it applies can be older than the queue it meets.  *)
(*                                                                         *)
(* The lane is the one JobLane specifies: the key "baseline-rebuild" has   *)
(* one live job at most (future), and it never runs beside a capture.      *)
(***************************************************************************)
EXTENDS Naturals, FiniteSets, Sequences, SequencesExt

CONSTANTS Keys,         \* source keys
          Threads,      \* threads in which done-callbacks run
          Worker,       \* the lane's worker, one of them
          MaxCapture,   \* bound of the runs on completed captures
          MaxEvidence,  \* bound of the runs on changes of a fingerprint
          None

ASSUME WorkerAssumption == Worker \in Threads
ASSUME KeysAssumption == IsFiniteSet(Keys)
ASSUME BoundsAssumption == MaxCapture \in Nat /\ MaxEvidence \in Nat

Outcomes == {"complete", "progress", "blocked", "failed", "failed_retryable"}

VARIABLES
  stale,       \* sources stale_source_keys() would return
  evidence,    \* version of what rebuild_source_fingerprint() hashes
  capture,     \* _capture
  queue,       \* _queue
  active,      \* _active
  future,      \* _future: "none", "queued", "running", "done"
  attached,    \* _completed is registered on it
  attempt,     \* the _Attempt of the active key
  outcome,     \* what the settled future holds
  suppressed,  \* _suppressed
  pc,          \* what each thread executes
  candidates,  \* the list a thread read before it took the lock
  stopped,     \* the agent's stop event
  lastFailure  \* history: the last unsuccessful attempt of a key since it
               \* is stale.  No guard reads it

ledger == <<stale, evidence>>
job == <<active, future, attached, attempt, outcome>>
vars == <<ledger, capture, queue, job, suppressed, pc, candidates, stopped,
          lastFailure>>

Versions == 0..MaxEvidence
(* began is history as well: the capture in which the attempt started, for *)
(* what _run() notes of it.  dropped: a thread other than the worker let   *)
(* the suppression go with a list that does not have the source.           *)
Attempts == [capture : 0..MaxCapture, evidence : Versions \cup {None},
             known : BOOLEAN, began : 0..MaxCapture]
Failures == [capture : 0..MaxCapture, evidence : Versions \cup {None},
             known : BOOLEAN, dropped : BOOLEAN]
Suppressions == [capture : 0..MaxCapture, evidence : Versions \cup {None},
                 retryable : BOOLEAN, probeFailed : BOOLEAN]

ASSUME NoneAssumption ==
  /\ None \notin Keys /\ None \notin Attempts
  /\ None \notin Failures /\ None \notin Suppressions
  /\ None \notin Versions

TypeOK ==
  /\ stale \subseteq Keys
  /\ evidence \in [Keys -> Versions]
  /\ capture \in 0..MaxCapture
  /\ queue \in Seq(Keys)
  /\ active \in Keys \cup {None}
  /\ future \in {"none", "queued", "running", "done"}
  /\ attached \in BOOLEAN
  /\ attempt \in Attempts \cup {None}
  /\ outcome \in Outcomes \cup {None}
  /\ suppressed \in [Keys -> Suppressions \cup {None}]
  /\ pc \in [Threads -> {"idle", "captured", "read", "apply", "submit",
                         "attach", "probe", "rebuild", "completed"}]
  /\ candidates \in [Threads -> Seq(Keys)]
  /\ stopped \in BOOLEAN
  /\ lastFailure \in [Keys -> Failures \cup {None}]

Init ==
  /\ stale = {}
  /\ evidence = [k \in Keys |-> 0]
  /\ capture = 0
  /\ queue = <<>>
  /\ active = None
  /\ future = "none"
  /\ attached = FALSE
  /\ attempt = None
  /\ outcome = None
  /\ suppressed = [k \in Keys |-> None]
  /\ pc = [t \in Threads |-> "idle"]
  /\ candidates = [t \in Threads |-> <<>>]
  /\ stopped = FALSE
  /\ lastFailure = [k \in Keys |-> None]

Goto(t, label) == pc' = [pc EXCEPT ![t] = label]

(* A key that stopped being stale starts afresh.                           *)
Remember(failures, among) ==
  lastFailure' = [k \in Keys |-> IF k \in among THEN failures[k] ELSE None]

(* What a source fingerprint reads now: nothing when it is not stale.      *)
Fingerprint(k) == IF k \in stale THEN evidence[k] ELSE None

-----------------------------------------------------------------------------
(* Captures                                                                *)

(* A capture job commits: it may find sources stale, current or changed.   *)
(* Its done-callback will run in thread t.  A baseline capture does not    *)
(* count, and with parts still pending it is followed by another one       *)
(* instead of a reconcile.                                                 *)
Capture(t) ==
  /\ ~stopped
  /\ pc[t] = "idle" /\ pc[Worker] = "idle"
  /\ stale' \in SUBSET Keys
  /\ evidence' \in [Keys -> Versions]
  /\ \A k \in Keys : evidence'[k] >= evidence[k]
  /\ \/ capture < MaxCapture /\ Goto(t, "captured")
     \/ Goto(t, "read")
     \/ UNCHANGED pc
  /\ Remember(lastFailure, stale')
  /\ UNCHANGED <<capture, queue, job, suppressed, candidates, stopped>>

(* capture_completed(), and the choice that _capture_completed makes.      *)
CaptureCompleted(t) ==
  /\ pc[t] = "captured"
  /\ IF stopped \/ capture = MaxCapture
     THEN Goto(t, "idle") /\ UNCHANGED capture
     ELSE /\ capture' = capture + 1
          /\ Goto(t, "read") \/ Goto(t, "idle")
  /\ UNCHANGED <<ledger, queue, job, suppressed, candidates, stopped,
                 lastFailure>>

-----------------------------------------------------------------------------
(* reconcile()                                                             *)

(* The ledger orders the candidates by a size that changes: any order.     *)
ReadCandidates(t) ==
  /\ pc[t] = "read" /\ ~stopped
  /\ \E order \in SetToSeqs(stale) :
       candidates' = [candidates EXCEPT ![t] = order]
  /\ Goto(t, "apply")
  /\ UNCHANGED <<ledger, capture, queue, job, suppressed, stopped,
                 lastFailure>>

(* The agent stops, or reading the ledger raises out of the callback.      *)
AbandonReconcile(t) ==
  /\ pc[t] = "read"
  /\ Goto(t, "idle")
  /\ UNCHANGED <<ledger, capture, queue, job, suppressed, candidates, stopped,
                 lastFailure>>

NewCapture(s) == s.retryable /\ s.capture # capture

ProbeFailedNow(s) == s.probeFailed /\ s.capture = capture

(* _eligible() lets the key go.  failing are the keys whose probe raises.  *)
Released(k, failing) ==
  \/ suppressed[k] = None
  \/ NewCapture(suppressed[k])
  \/ /\ ~ProbeFailedNow(suppressed[k])
     /\ k \notin failing
     /\ suppressed[k].evidence # Fingerprint(k)

(* What is left of the suppression of a candidate that is not let go.      *)
Held(k, failing) ==
  IF ProbeFailedNow(suppressed[k]) \/ k \notin failing
  THEN suppressed[k]
  ELSE [capture |-> capture, evidence |-> suppressed[k].evidence,
        retryable |-> suppressed[k].retryable, probeFailed |-> TRUE]

(* Mutant: the source being rebuilt is queued behind itself.               *)
MayQueueActive(k) == TRUE

MayQueue(k) == k # active

(* The elements of s that are in S, in their order: a set of one sequence. *)
Selected(s, S) ==
  LET I == {i \in DOMAIN s : s[i] \in S}
  IN {[n \in DOMAIN at |-> s[at[n]]] :
        at \in {f \in [1..Cardinality(I) -> I] :
                 \A m, n \in DOMAIN f : m < n => f[m] < f[n]}}

(* A list older than the failure: the source was not stale when it was     *)
(* read, or it would be on it.                                             *)
DroppedBy(t, listed) ==
  {k \in Keys \ listed : t # Worker /\ suppressed[k] # None /\ lastFailure[k] # None}

Apply(t) ==
  /\ pc[t] = "apply"
  /\ \E failing \in SUBSET {k \in Keys : suppressed[k] # None} :
       LET listed == ToSet(candidates[t])
           eligible == {k \in listed : Released(k, failing) /\ MayQueue(k)}
       IN /\ suppressed' = [k \in Keys |->
                              IF k \notin listed \/ Released(k, failing)
                              THEN None ELSE Held(k, failing)]
          /\ \E retained \in Selected(queue, eligible) :
             \E added \in Selected(candidates[t],
                                   eligible \ ToSet(retained)) :
               queue' = retained \o added
          /\ lastFailure' = [k \in Keys |->
                               IF k \in DroppedBy(t, listed)
                               THEN [lastFailure[k] EXCEPT !.dropped = TRUE]
                               ELSE lastFailure[k]]
  /\ Goto(t, "submit")
  /\ UNCHANGED <<ledger, capture, job, candidates, stopped>>

-----------------------------------------------------------------------------
(* _submit_next()                                                          *)

SubmitNext(t) ==
  /\ pc[t] = "submit"
  /\ IF active # None \/ queue = <<>> \/ stopped
     THEN Goto(t, "idle") /\ UNCHANGED <<queue, job>>
     ELSE /\ active' = Head(queue)
          /\ queue' = Tail(queue)
          /\ future' = "queued"
          /\ attached' = FALSE
          /\ attempt' = [capture |-> capture, evidence |-> None,
                         known |-> FALSE, began |-> capture]
          /\ outcome' = None
          /\ Goto(t, "attach")
  /\ candidates' = [candidates EXCEPT ![t] = <<>>]
  /\ UNCHANGED <<ledger, capture, suppressed, stopped, lastFailure>>

(* The agent stops after the check, and the lane refuses the job: the key  *)
(* is no longer queued, and the error ends the callback.                   *)
SubmitRefused(t) ==
  /\ pc[t] = "submit"
  /\ active = None /\ queue # <<>> /\ ~stopped
  /\ stopped' = TRUE
  /\ queue' = Tail(queue)
  /\ candidates' = [candidates EXCEPT ![t] = <<>>]
  /\ Goto(t, "idle")
  /\ UNCHANGED <<ledger, capture, job, suppressed, lastFailure>>

(* add_done_callback(): a future that is done calls back in this thread.   *)
Attach(t) ==
  /\ pc[t] = "attach"
  /\ IF future = "done"
     THEN Goto(t, "completed") /\ UNCHANGED attached
     ELSE attached' = TRUE /\ Goto(t, "idle")
  /\ UNCHANGED <<ledger, capture, queue, active, future, attempt, outcome,
                 suppressed, candidates, stopped, lastFailure>>

-----------------------------------------------------------------------------
(* The job, in the lane's worker                                           *)

(* Mutant: an attempt counts for the capture during which it was submitted *)
RunStartAsSubmitted ==
  /\ pc[Worker] = "idle" /\ future = "queued"
  /\ future' = "running"
  /\ attempt' = [attempt EXCEPT !.began = capture]
  /\ Goto(Worker, "probe")
  /\ UNCHANGED <<ledger, capture, queue, active, attached, outcome,
                 suppressed, candidates, stopped, lastFailure>>

(* _run() notes the capture that precedes the execution, not the submit.   *)
RunStart ==
  /\ pc[Worker] = "idle" /\ future = "queued"
  /\ future' = "running"
  /\ attempt' = [capture |-> capture, evidence |-> attempt.evidence,
                 known |-> attempt.known, began |-> capture]
  /\ Goto(Worker, "probe")
  /\ UNCHANGED <<ledger, capture, queue, active, attached, outcome,
                 suppressed, candidates, stopped, lastFailure>>

(* The future settles and calls back if the callback is registered.        *)
Settle(result) ==
  /\ outcome' = result
  /\ future' = "done"
  /\ Goto(Worker, IF attached THEN "completed" ELSE "idle")

RunProbe ==
  /\ pc[Worker] = "probe"
  /\ \/ /\ attempt' = [capture |-> attempt.capture,
                        evidence |-> Fingerprint(active), known |-> TRUE,
                        began |-> attempt.began]
        /\ Goto(Worker, "rebuild")
        /\ UNCHANGED <<future, outcome>>
     \/ \E result \in {"failed", "failed_retryable"} :
          Settle(result) /\ UNCHANGED attempt
  /\ UNCHANGED <<ledger, capture, queue, active, attached, suppressed,
                 candidates, stopped, lastFailure>>

(* rebuild_stale_source_slice().  Installing a finished rebuild also makes *)
(* the sources that inherit its history stale.                             *)
RunSlice ==
  /\ pc[Worker] = "rebuild"
  /\ \/ /\ active \in stale
        /\ \E dependents \in SUBSET (Keys \ {active}) :
             stale' = (stale \ {active}) \cup dependents
        /\ Settle("complete")
     \/ /\ active \in stale
        /\ \E result \in Outcomes \ {"complete"} : Settle(result)
        /\ UNCHANGED stale
     \/ /\ active \notin stale
        /\ Settle("failed")
        /\ UNCHANGED stale
  /\ Remember(lastFailure, stale')
  /\ UNCHANGED <<evidence, capture, queue, active, attached, attempt,
                 suppressed, candidates, stopped>>

(* Mutant: a source that progresses keeps the lane for its next slice.     *)
RequeueFirst(k) == <<k>> \o queue

Requeue(k) == Append(queue, k)

(* _completed()                                                            *)
Completed(t) ==
  /\ pc[t] = "completed"
  /\ active' = None /\ future' = "none" /\ attached' = FALSE
  /\ attempt' = None /\ outcome' = None
  /\ IF outcome \in {"blocked", "failed", "failed_retryable"}
     THEN /\ suppressed' = [suppressed EXCEPT ![active] =
               [capture |-> attempt.capture, evidence |-> attempt.evidence,
                retryable |-> outcome # "failed",
                probeFailed |-> ~attempt.known]]
          /\ Remember([lastFailure EXCEPT ![active] =
               [capture |-> attempt.began, evidence |-> attempt.evidence,
                known |-> attempt.known, dropped |-> FALSE]], stale)
     ELSE UNCHANGED <<suppressed, lastFailure>>
  /\ queue' = IF outcome = "progress" THEN Requeue(active) ELSE queue
  /\ Goto(t, "read")
  /\ UNCHANGED <<ledger, capture, candidates, stopped>>

Stop ==
  /\ ~stopped
  /\ stopped' = TRUE
  /\ UNCHANGED <<ledger, capture, queue, job, suppressed, pc, candidates,
                 lastFailure>>

Reconcile(t) ==
  ReadCandidates(t) \/ Apply(t) \/ SubmitNext(t) \/ Attach(t) \/ Completed(t)

Next ==
  \/ \E t \in Threads : Capture(t) \/ CaptureCompleted(t)
  \/ \E t \in Threads : Reconcile(t) \/ AbandonReconcile(t) \/ SubmitRefused(t)
  \/ RunStart
  \/ RunProbe
  \/ RunSlice
  \/ Stop

Spec == Init /\ [][Next]_vars

(* Captures recur at the configured interval and leave the lane free in    *)
(* between; equal priorities are served in the order of submission; a read *)
(* of the ledger does not fail for ever.                                   *)
Fairness ==
  /\ \A t \in Threads : WF_vars(CaptureCompleted(t) \/ Reconcile(t))
  /\ \A t \in Threads : SF_vars(ReadCandidates(t))
  /\ WF_vars(RunProbe) /\ WF_vars(RunSlice) /\ SF_vars(RunStart)
  /\ SF_vars(Capture(Worker) /\ pc'[Worker] = "read")

FairSpec == Spec /\ Fairness

-----------------------------------------------------------------------------
(* Properties                                                              *)

(* No source is worked on twice at once: the queue has no duplicate and    *)
(* never holds the source the active job is rebuilding.                    *)
NoDuplicateWork ==
  /\ IsInjective(queue)
  /\ active \notin ToSet(queue)

(* _submit_next() refuses while a key is active, so a key that stays       *)
(* active with nobody left to complete it would end all rebuilding.        *)
ActiveWillComplete ==
  active # None =>
    \/ future \in {"queued", "running"} /\ attached
    \/ \E t \in Threads : pc[t] \in {"attach", "completed"}

(* What these follow from: one callback at most is on its way to complete  *)
(* the active key, and it will find the future it waits for.               *)
CandidatesAreDistinct == \A t \in Threads : IsInjective(candidates[t])

ActiveIsSubmitted ==
  /\ active = None <=> future = "none"
  /\ active = None <=> attempt = None
  /\ attached => active # None
  /\ future = "done" => outcome \in Outcomes

OneCompletion ==
  /\ \A t \in Threads :
       /\ pc[t] = "attach" => active # None /\ ~attached
       /\ pc[t] = "completed" => active # None /\ future = "done"
  /\ \A t, u \in Threads :
       {pc[t], pc[u]} \subseteq {"attach", "completed"} => t = u

CompletionIsAhead ==
  /\ future = "done" => \E t \in Threads : pc[t] \in {"attach", "completed"}
  /\ future \in {"queued", "running"} /\ ~attached =>
       \E t \in Threads : pc[t] = "attach"

WorkerRuns ==
  /\ future = "running" <=> pc[Worker] \in {"probe", "rebuild"}
  /\ \A t \in Threads : pc[t] \in {"probe", "rebuild"} => t = Worker

QueueInv ==
  /\ TypeOK /\ NoDuplicateWork /\ CandidatesAreDistinct /\ ActiveIsSubmitted
  /\ OneCompletion /\ CompletionIsAhead /\ WorkerRuns

(* "Capture-scoped retries", whatever threads reconcile: while a source    *)
(* stays stale, an unsuccessful attempt is not repeated in the capture in  *)
(* which it ran unless what is known of the source changed; a failed probe *)
(* always waits for a new capture.  The exception is a source dropped by a *)
(* second thread that applied a list from before the failure: by nothing   *)
(* else, and never by the worker.                                          *)
CaptureScopedRetries ==
  [][pc[Worker] = "probe" /\ pc'[Worker] # "probe" =>
       LET last == lastFailure[active] IN
       last # None /\ last.capture = attempt.began /\ ~last.dropped =>
         last.known /\ last.evidence # Fingerprint(active)]_vars

(* What it follows from: a suppression remembers what the last failure     *)
(* knew, the worker's list is as the ledger is, and whoever is let go      *)
(* without a new capture has other evidence.                               *)
ListIsCurrent == pc[Worker] = "apply" => ToSet(candidates[Worker]) = stale

AttemptIsCurrent ==
  /\ attempt # None => attempt.capture \in 0..capture
  /\ future = "queued" \/ pc[Worker] = "probe" => ~attempt.known
  /\ future \in {"running", "done"} =>
       /\ attempt.began = attempt.capture
       /\ attempt.known => attempt.evidence \in (0..evidence[active]) \cup {None}

FailuresAreOfThePast ==
  \A k \in Keys : lastFailure[k] # None =>
    /\ k \in stale
    /\ lastFailure[k].capture \in 0..capture
    /\ k = active /\ pc[Worker] = "probe" => lastFailure[k].capture <= attempt.began
    /\ lastFailure[k].known => lastFailure[k].evidence \in (0..evidence[k]) \cup {None}

WorkIsReleased ==
  \A k \in Keys : k = active \/ k \in ToSet(queue) => suppressed[k] = None

SuppressionRemembers ==
  \A k \in Keys : suppressed[k] # None /\ lastFailure[k] # None =>
    /\ suppressed[k].capture \in lastFailure[k].capture..capture
    /\ suppressed[k].evidence = lastFailure[k].evidence
    /\ suppressed[k].probeFailed \/ lastFailure[k].known

(* The capture that an attempt at k which starts or is under way is of.    *)
CaptureOf(k) ==
  IF k = active /\ pc[Worker] = "probe" THEN attempt.began ELSE capture

ReleaseHasAReason ==
  \A k \in Keys :
    /\ suppressed[k] = None /\ lastFailure[k] # None
    /\ lastFailure[k].capture = CaptureOf(k) /\ ~lastFailure[k].dropped
    => lastFailure[k].known /\ lastFailure[k].evidence # evidence[k]

RetryFacts ==
  /\ ListIsCurrent /\ AttemptIsCurrent /\ FailuresAreOfThePast
  /\ WorkIsReleased /\ SuppressionRemembers /\ ReleaseHasAReason

RetryInv == QueueInv /\ RetryFacts

(* "Fair rebuild scheduling": a stale source that is not suppressed gets   *)
(* its turn, whatever the other sources do.                                *)
EveryStaleSourceIsTried ==
  \A k \in Keys : (k \in stale /\ suppressed[k] = None) ~>
    (active = k \/ k \notin stale \/ suppressed[k] # None \/ stopped)
=============================================================================
