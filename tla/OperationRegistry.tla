------------------------- MODULE OperationRegistry -------------------------
(***************************************************************************)
(* agent_operations.py: long operations a client starts, polls and cancels *)
(* over HTTP, run by the heavy-I/O lane.  Three kinds of thread meet in    *)
(* one operation: the handler that starts it, handlers (and the agent's    *)
(* shutdown) that cancel it, and the lane's worker.  The registry's lock   *)
(* covers single assignments; between them every interleaving is possible. *)
(*                                                                         *)
(* The lane is JobLane: every operation has a key of its own, so the job   *)
(* and its key are named by the operation.                                 *)
(***************************************************************************)
CONSTANTS Operations,
          Clients,   \* handler threads that cancel
          Shutdown,  \* the thread that stops the agent
          None

Cancellers == Clients \cup {Shutdown}

VARIABLES
  job,       \* state of the Future of the operation
  owner,     \* the lane's registry
  closed,    \* the lane is closed
  state,     \* ManagedOperation.state
  flag,      \* ManagedOperation.cancellation
  known,     \* ManagedOperation.future is set
  attached,  \* _complete is registered on the Future
  outcome,   \* what the body left in the Future
  starter,   \* where start() is
  worker,    \* where the worker is: <<operation, step>> or None
  canceller, \* where each cancel() is: [op, future, step] or None
  todo       \* what cancel_all() has left to cancel; None before shutdown

Lane == INSTANCE JobLane WITH Keys <- Operations, Jobs <- Operations,
                              state <- job

lane == <<job, owner, closed>>
operation == <<state, flag, known, attached, outcome>>
vars == <<lane, operation, starter, worker, canceller, todo>>

Terminal == {"completed", "failed", "cancelled"}
States == {"none", "queued", "running"} \cup Terminal
WorkerSteps == {"begin", "check", "body", "callback"}
StartSteps == {"none", "registered", "submitted", "known", "callback",
               "done", "refused"}
Calls == [op : Operations, future : BOOLEAN,
          step : {"future", "callback", "publish"}]

(* None is neither an operation nor a place of the worker or of a call.    *)
ASSUME NamesAssumption ==
  /\ Shutdown \notin Clients
  /\ None \notin Operations
  /\ None \notin Operations \X WorkerSteps
  /\ None \notin Calls

TypeOK ==
  /\ Lane!LaneTypeOK
  /\ state \in [Operations -> States]
  /\ flag \in [Operations -> BOOLEAN]
  /\ known \in [Operations -> BOOLEAN]
  /\ attached \in [Operations -> BOOLEAN]
  /\ outcome \in [Operations -> {"none", "value", "error", "stopped"}]
  /\ starter \in [Operations -> StartSteps]
  /\ worker \in (Operations \X WorkerSteps) \cup {None}
  /\ canceller \in [Cancellers -> Calls \cup {None}]
  /\ todo \in (SUBSET Operations) \cup {None}

Init ==
  /\ Lane!LaneInit
  /\ state = [o \in Operations |-> "none"]
  /\ flag = [o \in Operations |-> FALSE]
  /\ known = [o \in Operations |-> FALSE]
  /\ attached = [o \in Operations |-> FALSE]
  /\ outcome = [o \in Operations |-> "none"]
  /\ starter = [o \in Operations |-> "none"]
  /\ worker = None
  /\ canceller = [c \in Cancellers |-> None]
  /\ todo = None

JobDone(o) == job[o] \in {"cancelled", "finished"}

-----------------------------------------------------------------------------
(* _complete(), under the lock; it may run in any of the three threads.    *)

(* Mutant: a result that is ready is published although it was cancelled.  *)
VerdictOfFuture(o) ==
  IF job[o] = "cancelled" \/ outcome[o] = "stopped" THEN "cancelled"
  ELSE IF outcome[o] = "value" THEN "completed" ELSE "failed"

(* Mutant: the state is taken over from the future as it is.               *)
VerdictUntranslated(o) == outcome[o]

Verdict(o) ==
  IF job[o] = "cancelled" \/ flag[o] \/ outcome[o] = "stopped"
  THEN "cancelled"
  ELSE IF outcome[o] = "value" THEN "completed" ELSE "failed"

Complete(o) == state' = [state EXCEPT ![o] = Verdict(o)]

-----------------------------------------------------------------------------
(* start()                                                                 *)

Register(o) ==
  /\ starter[o] = "none"
  /\ state' = [state EXCEPT ![o] = "queued"]
  /\ starter' = [starter EXCEPT ![o] = "registered"]
  /\ UNCHANGED <<lane, flag, known, attached, outcome, worker, canceller,
                 todo>>

Submit(o) ==
  /\ starter[o] = "registered"
  /\ Lane!Accept(o, o)
  /\ starter' = [starter EXCEPT ![o] = "submitted"]
  /\ UNCHANGED <<operation, worker, canceller, todo>>

(* The lane is closed: submit() raises, and the operation stays registered *)
Refused(o) ==
  /\ starter[o] = "registered" /\ closed
  /\ starter' = [starter EXCEPT ![o] = "refused"]
  /\ UNCHANGED <<lane, operation, worker, canceller, todo>>

SetFuture(o) ==
  /\ starter[o] = "submitted"
  /\ known' = [known EXCEPT ![o] = TRUE]
  /\ starter' = [starter EXCEPT ![o] = "known"]
  /\ UNCHANGED <<lane, state, flag, attached, outcome, worker, canceller,
                 todo>>

(* Mutant: registering the callback on a settled future does nothing.      *)
AttachTooLate(o) ==
  /\ starter[o] = "known"
  /\ attached' = [attached EXCEPT ![o] = TRUE]
  /\ starter' = [starter EXCEPT ![o] = "done"]
  /\ UNCHANGED <<lane, state, flag, known, outcome, worker, canceller, todo>>

(* add_done_callback() calls back at once when the future is done.         *)
Attach(o) ==
  /\ starter[o] = "known"
  /\ IF JobDone(o)
     THEN /\ starter' = [starter EXCEPT ![o] = "callback"]
          /\ UNCHANGED attached
     ELSE /\ attached' = [attached EXCEPT ![o] = TRUE]
          /\ starter' = [starter EXCEPT ![o] = "done"]
  /\ UNCHANGED <<lane, state, flag, known, outcome, worker, canceller, todo>>

StarterCallback(o) ==
  /\ starter[o] = "callback"
  /\ Complete(o)
  /\ starter' = [starter EXCEPT ![o] = "done"]
  /\ UNCHANGED <<lane, flag, known, attached, outcome, worker, canceller,
                 todo>>

-----------------------------------------------------------------------------
(* The worker                                                              *)

WorkerStart(o) ==
  /\ worker = None
  /\ Lane!Start(o)
  /\ worker' = <<o, "begin">>
  /\ UNCHANGED <<operation, starter, canceller, todo>>

SetRunning(o) ==
  /\ worker = <<o, "begin">>
  /\ state' = [state EXCEPT ![o] = "running"]
  /\ worker' = <<o, "check">>
  /\ UNCHANGED <<lane, flag, known, attached, outcome, starter, canceller,
                 todo>>

(* The future settles; its callbacks run here if any is registered.        *)
Settle(o, result) ==
  /\ Lane!Finish(o)
  /\ outcome' = [outcome EXCEPT ![o] = result]
  /\ worker' = IF attached[o] THEN <<o, "callback">> ELSE None
  /\ UNCHANGED <<state, flag, known, attached, starter, canceller, todo>>

(* run() looks at the flag once before it calls the operation.             *)
BeginBody(o) ==
  /\ worker = <<o, "check">> /\ ~flag[o]
  /\ worker' = <<o, "body">>
  /\ UNCHANGED <<lane, operation, starter, canceller, todo>>

StopBeforeBody(o) ==
  /\ worker = <<o, "check">> /\ flag[o]
  /\ Settle(o, "stopped")

(* The operation itself polls the flag, and need not see it in time.       *)
Body(o) ==
  /\ worker = <<o, "body">>
  /\ \/ Settle(o, "value")
     \/ Settle(o, "error")
     \/ flag[o] /\ Settle(o, "stopped")

WorkerCallback(o) ==
  /\ worker = <<o, "callback">>
  /\ Complete(o)
  /\ worker' = None
  /\ UNCHANGED <<lane, flag, known, attached, outcome, starter, canceller,
                 todo>>

(* The lane forgets a settled job.                                         *)
Retire(o) ==
  /\ Lane!Retire(o)
  /\ UNCHANGED <<operation, starter, worker, canceller, todo>>

-----------------------------------------------------------------------------
(* cancel()                                                                *)

(* Mutant: a settled operation is cancelled all the same.                  *)
RegisteredAtAll(o) == state[o] # "none"

MayCancel(o) == state[o] \in {"queued", "running"}

(* First half, under the lock: the flag, and whether there is a future.    *)
Flag(c, o) ==
  /\ canceller[c] = None /\ MayCancel(o)
  /\ flag' = [flag EXCEPT ![o] = TRUE]
  /\ canceller' = [canceller EXCEPT ![c] =
                     [op |-> o, future |-> known[o], step |-> "future"]]

ClientCancels(c, o) ==
  /\ Flag(c, o)
  /\ UNCHANGED <<lane, state, known, attached, outcome, starter, worker, todo>>

(* Mutant: the answer of Future.cancel() is not looked at.                 *)
CancelFutureBlindly(c) ==
  /\ canceller[c] # None /\ canceller[c].step = "future"
  /\ \/ Lane!Cancel(canceller[c].op)
     \/ job[canceller[c].op] # "pending" /\ UNCHANGED lane
  /\ canceller' = [canceller EXCEPT ![c].step = "publish"]
  /\ UNCHANGED <<operation, starter, worker, todo>>

(* Future.cancel(), outside the lock: true also for a cancelled future.    *)
CancelFuture(c) ==
  LET call == canceller[c]
      Goto(s) == canceller' = [canceller EXCEPT ![c].step = s]
  IN /\ call # None /\ call.step = "future"
     /\ \/ /\ call.future /\ Lane!Cancel(call.op)
           /\ Goto(IF attached[call.op] THEN "callback" ELSE "publish")
        \/ /\ call.future /\ job[call.op] = "cancelled"
           /\ Goto("publish")
           /\ UNCHANGED lane
        \/ /\ call.future => job[call.op] \in {"running", "finished"}
           /\ canceller' = [canceller EXCEPT ![c] = None]
           /\ UNCHANGED lane
     /\ UNCHANGED <<operation, starter, worker, todo>>

CancelCallback(c) ==
  /\ canceller[c] # None /\ canceller[c].step = "callback"
  /\ Complete(canceller[c].op)
  /\ canceller' = [canceller EXCEPT ![c].step = "publish"]
  /\ UNCHANGED <<lane, flag, known, attached, outcome, starter, worker, todo>>

(* Second half, under the lock again.                                      *)
Publish(c) ==
  /\ canceller[c] # None /\ canceller[c].step = "publish"
  /\ state' = [state EXCEPT ![canceller[c].op] = "cancelled"]
  /\ canceller' = [canceller EXCEPT ![c] = None]
  /\ UNCHANGED <<lane, flag, known, attached, outcome, starter, worker, todo>>

-----------------------------------------------------------------------------
(* The agent stops: cancel_all(), then the lane is closed.                 *)

CancelAll ==
  /\ todo = None
  /\ todo' = {o \in Operations : state[o] \in {"queued", "running"}}
  /\ UNCHANGED <<lane, operation, starter, worker, canceller>>

CancelNext(o) ==
  /\ todo # None /\ o \in todo /\ canceller[Shutdown] = None
  /\ todo' = todo \ {o}
  /\ Flag(Shutdown, o) \/ (~MayCancel(o) /\ UNCHANGED <<flag, canceller>>)
  /\ UNCHANGED <<lane, state, known, attached, outcome, starter, worker>>

CloseLane ==
  /\ todo = {} /\ canceller[Shutdown] = None
  /\ Lane!Close
  /\ UNCHANGED <<operation, starter, worker, canceller, todo>>

-----------------------------------------------------------------------------
Start(o) == Submit(o) \/ Refused(o) \/ SetFuture(o) \/ Attach(o)
              \/ StarterCallback(o)

Work(o) == WorkerStart(o) \/ SetRunning(o) \/ BeginBody(o)
             \/ StopBeforeBody(o) \/ Body(o) \/ WorkerCallback(o)

Cancel(c) == CancelFuture(c) \/ CancelCallback(c) \/ Publish(c)

Next ==
  \/ \E o \in Operations : Register(o) \/ Start(o) \/ Work(o) \/ Retire(o)
  \/ \E c \in Clients, o \in Operations : ClientCancels(c, o)
  \/ \E c \in Cancellers : Cancel(c)
  \/ CancelAll
  \/ \E o \in Operations : CancelNext(o)
  \/ CloseLane

Spec == Init /\ [][Next]_vars

(* Every thread goes on with the call it is in, the lane serves the jobs   *)
(* it accepted, and the bodies return.                                     *)
FairSpec ==
  /\ Spec
  /\ \A o \in Operations : WF_vars(Start(o)) /\ WF_vars(Work(o))
  /\ \A c \in Cancellers : WF_vars(Cancel(c))

-----------------------------------------------------------------------------
(* Properties                                                              *)

(* test_agent_operations.py: a cancelled operation never publishes what it *)
(* computed, at whatever point of the run the cancellation was accepted.   *)
CancelledNeverPublishes ==
  \A o \in Operations : flag[o] => state[o] \notin {"completed", "failed"}

(* A client that was told "cancelled" may act on it: the operation's body  *)
(* is not running in the worker and will not run any more.                 *)
CancelledIsOver ==
  \A o \in Operations : state[o] = "cancelled" => JobDone(o)

(* Nobody polls for ever: once the future of an operation is settled and   *)
(* every call on it has returned, its state is terminal.                   *)
NoOperationStuck ==
  \A o \in Operations :
    /\ JobDone(o) /\ starter[o] = "done"
    /\ worker # <<o, "callback">>
    /\ \A c \in Cancellers : canceller[c] # None => canceller[c].op # o
    => state[o] \in Terminal

(* Every operation the lane accepted settles, also through a shutdown that *)
(* races its start.                                                        *)
AcceptedSettles ==
  \A o \in Operations : job[o] # "unused" ~> state[o] \in Terminal

(* Inductive together with TypeOK; OperationRegistry_proofs uses them.     *)

StartProgress ==
  \A o \in Operations :
    /\ state[o] = "none" <=> starter[o] = "none"
    /\ job[o] = "unused" <=> starter[o] \in {"none", "registered", "refused"}
    /\ known[o] <=> starter[o] \in {"known", "callback", "done"}
    /\ attached[o] => starter[o] = "done"
    /\ starter[o] = "callback" => JobDone(o)
    /\ starter[o] = "done" => attached[o] \/ JobDone(o)
    /\ flag[o] => state[o] # "none"

WorkerOwnsRunning ==
  \A o \in Operations :
    /\ job[o] = "running" <=>
         worker \in {<<o, "begin">>, <<o, "check">>, <<o, "body">>}
    /\ worker = <<o, "begin">> => state[o] = "queued"
    /\ worker \in {<<o, "check">>, <<o, "body">>} => state[o] = "running"
    /\ worker = <<o, "callback">> =>
         job[o] = "finished" /\ attached[o] /\ state[o] = "running"
    /\ outcome[o] # "none" <=> job[o] = "finished"
    /\ outcome[o] = "stopped" => flag[o]

StateFollowsJob ==
  \A o \in Operations :
    /\ job[o] \in {"unused", "pending"} => state[o] \in {"none", "queued"}
    /\ job[o] = "cancelled" => state[o] \in {"queued", "cancelled"} /\ flag[o]
    /\ job[o] = "finished" => state[o] \in {"running"} \cup Terminal
    /\ state[o] = "cancelled" => flag[o]
    /\ state[o] \in {"completed", "failed"} => starter[o] = "done"

CancelProgress ==
  \A c \in Cancellers : canceller[c] # None =>
    LET call == canceller[c]
    IN /\ flag[call.op]
       /\ call.future => known[call.op]
       /\ call.step # "future" => job[call.op] = "cancelled"

SettlerRemains ==
  \A o \in Operations :
    JobDone(o) /\ starter[o] = "done" /\ state[o] \notin Terminal =>
      \/ worker = <<o, "callback">>
      \/ \E c \in Cancellers : /\ canceller[c] # None
                               /\ canceller[c].op = o
                               /\ canceller[c].step # "future"

RegistryInv ==
  /\ TypeOK
  /\ StartProgress
  /\ WorkerOwnsRunning
  /\ StateFollowsJob
  /\ CancelProgress
  /\ SettlerRemains
  /\ CancelledNeverPublishes
  /\ CancelledIsOver

(* What a polling client relies on.                                        *)
Lifecycle == INSTANCE ManagedOperation WITH requested <- flag

ImplementsLifecycle == Lifecycle!OperationSpec
=============================================================================
