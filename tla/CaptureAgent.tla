---------------------------- MODULE CaptureAgent ----------------------------
(***************************************************************************)
(* agent_runtime.py and agent_schedule.py: when the agent captures.  A     *)
(* capture reads what changed in the session directories, at most a slice  *)
(* of it at a time, in a job of the heavy-I/O lane.  Captures are asked    *)
(* for at the start, at the configured interval, after a sleep, when the   *)
(* file watcher failed or overflowed, by hand, and by a capture that left  *)
(* parts behind (a baseline capture); requests coalesce into the capture   *)
(* that is queued or running.                                              *)
(*                                                                         *)
(* The done-callbacks run in the lane's worker, or in the thread that      *)
(* asked when the capture is done before they are registered.  The         *)
(* schedule has no lock of its own: its reads and writes are single steps. *)
(* Paths marked dirty only order a capture's work and are left out.        *)
(***************************************************************************)
EXTENDS Naturals

CONSTANTS Scheduler, Worker,  \* threads of the agent
          Callers,            \* HTTP handlers and the file watcher's thread
          Jobs,               \* Future objects; reused when nobody refers to
                              \* them any more
          None,
          MaxParts,           \* bound: slices one change may need
          MaxChanges, MaxRequests, MaxFailures, MaxSettings \* bounds: how often

ASSUME ThreadsAssumption ==
  /\ Scheduler # Worker
  /\ Scheduler \notin Callers /\ Worker \notin Callers

ASSUME NoneAssumption == None \notin Jobs
ASSUME BoundsAssumption ==
  /\ MaxParts \in Nat /\ MaxChanges \in Nat /\ MaxRequests \in Nat
  /\ MaxFailures \in Nat /\ MaxSettings \in Nat

Threads == {Scheduler, Worker} \cup Callers

VARIABLES
  job,        \* [Jobs -> the future and what is known of the capture]
  current,    \* _capture_future
  laneClosed,
  interval,   \* interval_minutes is not None
  due,        \* next_due_monotonic: "never", "later" or "now" (reached)
  stop,       \* the _stop event
  stopper,    \* where stop() is
  observer,   \* the watchdog thread is alive
  loop,       \* where the scheduler is in its loop
  call,       \* [Threads -> the call the thread is in]
  changed,    \* a source changed after the last inventory
  parts,      \* slices the ledger knows to be missing
  count       \* what was spent of the bounds

schedule == <<interval, due>>
shutdown == <<laneClosed, stop, stopper>>
world == <<changed, parts>>
vars == <<job, current, schedule, shutdown, observer, loop, call, world, count>>

Kinds == {"scheduled", "request", "baseline"}
Results == {"none", "success", "failed", "raised"}
Captures == [state : {"unused", "queued", "running", "done"}, kind : Kinds,
             result : Results,
             sees : BOOLEAN,   \* its inventory found a change
             calls : SUBSET {"capture", "manual"}]  \* registered callbacks

Steps == {"idle", "attach", "completed", "mark", "write", "pending",
          "next", "attach_manual", "manual", "manual_write", "settings"}

(* A thread's call: its step, the capture the step is about, the capture   *)
(* whose manual callback comes afterwards, and the value that mark_success *)
(* has computed and not stored yet.                                        *)
Calls == [step : Steps, job : Jobs \cup {None}, manual : Jobs \cup {None},
          value : {"never", "later"}]

Counts == [changes : 0..MaxChanges, requests : 0..MaxRequests,
           failures : 0..MaxFailures, settings : 0..MaxSettings]

Idle == [step |-> "idle", job |-> None, manual |-> None, value |-> "never"]

TypeOK ==
  /\ job \in [Jobs -> Captures]
  /\ current \in Jobs \cup {None}
  /\ laneClosed \in BOOLEAN /\ stop \in BOOLEAN
  /\ interval \in BOOLEAN /\ due \in {"never", "later", "now"}
  /\ stopper \in {"none", "watcher", "join", "lane", "drain", "done"}
  /\ observer \in BOOLEAN
  /\ loop \in {"top", "watch", "due", "check", "dead"}
  /\ call \in [Threads -> Calls]
  /\ changed \in BOOLEAN
  /\ parts \in 0..MaxParts
  /\ count \in Counts

Live(j) == job[j].state \in {"queued", "running"}

Unused == [state |-> "unused", kind |-> "request", result |-> "none",
           sees |-> FALSE, calls |-> {}]

(* start() has armed the schedule and goes on to submit the first capture. *)
Start ==
  /\ job = [j \in Jobs |-> Unused]
  /\ current = None
  /\ laneClosed = FALSE /\ stop = FALSE /\ stopper = "none"
  /\ interval \in BOOLEAN /\ due = "now"
  /\ observer = TRUE /\ loop = "top"
  /\ call = [t \in Threads |-> Idle]
  /\ changed = TRUE /\ parts = 0
  /\ count \in Counts

Init == Start /\ count = [changes |-> 0, requests |-> 0, failures |-> 0, settings |-> 0]

Spend(what, bound) ==
  count[what] < bound /\ count' = [count EXCEPT ![what] = @ + 1]

Goto(t, step) == call' = [call EXCEPT ![t].step = step]

-----------------------------------------------------------------------------
(* _submit_capture()                                                       *)

Fresh(j) ==
  /\ ~Live(j) /\ j # current
  /\ \A t \in Threads : call[t].job # j /\ call[t].manual # j
Allocated == CHOOSE j \in Jobs : Fresh(j)

(* Mutant: a baseline capture is not remembered as the running one.        *)
RememberForeground(j, kind) ==
  current' = IF kind = "baseline" THEN current ELSE j

Remember(j, kind) == current' = j

(* Under the capture lock: coalesce, or submit a job and remember it.      *)
(* manual says that the caller registers _manual_capture_completed on what *)
(* it gets back; keep is a callback that is owed from before.              *)
SubmitCapture(t, kind, manual, keep) ==
  \/ /\ current # None /\ Live(current)
     /\ call' = [call EXCEPT ![t] =
          [Idle EXCEPT !.step = "next",
                       !.manual = IF manual THEN current ELSE keep]]
     /\ UNCHANGED <<job, current>>
  \/ /\ ~(current # None /\ Live(current)) /\ laneClosed
     /\ call' = [call EXCEPT ![t] = [Idle EXCEPT !.step = "next",
                                                 !.manual = keep]]
     /\ UNCHANGED <<job, current>>
  \/ /\ ~(current # None /\ Live(current)) /\ ~laneClosed
     /\ \E j \in Jobs :
          /\ Fresh(j) /\ j = Allocated
          /\ job' = [other \in Jobs |->
               IF other = j THEN [Unused EXCEPT !.state = "queued", !.kind = kind]
               ELSE IF Fresh(other) THEN Unused ELSE job[other]]
          /\ Remember(j, kind)
          /\ call' = [call EXCEPT ![t] =
               [Idle EXCEPT !.step = "attach", !.job = j,
                            !.manual = IF manual THEN j ELSE keep]]

(* add_done_callback(): a capture that is done is called back at once.     *)
Attach(t) ==
  /\ call[t].step = "attach"
  /\ LET j == call[t].job
     IN IF job[j].state = "done"
        THEN Goto(t, "completed") /\ UNCHANGED job
        ELSE /\ job' = [job EXCEPT ![j].calls = @ \cup {"capture"}]
             /\ call' = [call EXCEPT ![t].step = "next", ![t].job = None]
  /\ UNCHANGED <<current, schedule, shutdown, observer, loop, world, count>>

(* What follows the submission or the callback: the manual callback of a   *)
(* capture_now(), or the second callback of a capture in the worker.       *)
Proceed(t) ==
  /\ call[t].step = "next"
  /\ IF call[t].manual = None THEN call' = [call EXCEPT ![t] = Idle]
     ELSE Goto(t, IF t = Worker THEN "manual" ELSE "attach_manual")
  /\ UNCHANGED <<job, current, schedule, shutdown, observer, loop, world,
                 count>>

AttachManual(t) ==
  /\ call[t].step = "attach_manual"
  /\ LET j == call[t].manual
     IN IF job[j].state = "done"
        THEN Goto(t, "manual") /\ UNCHANGED job
        ELSE /\ job' = [job EXCEPT ![j].calls = @ \cup {"manual"}]
             /\ call' = [call EXCEPT ![t] = Idle]
  /\ UNCHANGED <<current, schedule, shutdown, observer, loop, world, count>>

-----------------------------------------------------------------------------
(* The schedule.  mark_success() computes the next time and then stores it *)

NextDue == IF interval THEN "later" ELSE "never"

(* _capture_completed()                                                    *)
Completed(t) ==
  /\ call[t].step = "completed"
  /\ LET result == job[call[t].job].result
     IN \/ /\ stop \/ result = "raised"
           /\ Goto(t, "next") /\ UNCHANGED due
        \/ /\ ~stop /\ result = "success"
           /\ Goto(t, IF job[call[t].job].kind = "baseline" THEN "pending"
                      ELSE "mark")
           /\ UNCHANGED due
        \/ /\ ~stop /\ result = "failed"
           /\ due' = IF interval THEN "later" ELSE due
           /\ Goto(t, "next")
  /\ UNCHANGED <<job, current, interval, shutdown, observer, loop, world,
                 count>>


Mark(t) ==
  /\ call[t].step \in {"mark", "manual"}
  /\ IF call[t].step = "manual" /\ job[call[t].manual].result # "success"
     THEN call' = [call EXCEPT ![t] = Idle]
     ELSE call' = [call EXCEPT
                     ![t].step = IF @ = "mark" THEN "write" ELSE "manual_write",
                     ![t].value = NextDue]
  /\ UNCHANGED <<job, current, schedule, shutdown, observer, loop, world,
                 count>>

Write(t) ==
  /\ call[t].step \in {"write", "manual_write"}
  /\ due' = call[t].value
  /\ call' = [call EXCEPT ![t] = IF @.step = "write"
                                 THEN [@ EXCEPT !.step = "pending"] ELSE Idle]
  /\ UNCHANGED <<job, current, interval, shutdown, observer, loop, world,
                 count>>

(* Mutant: only a foreground capture is continued.                         *)
ContinuesOnce(j) == parts > 0 /\ job[j].kind # "baseline"

Continues(j) == parts > 0

(* The rest of _capture_completed(): parts that are left are captured      *)
(* next; without any the stale sources are reconciled (RebuildQueue).      *)
Continue(t) ==
  /\ call[t].step = "pending"
  /\ IF Continues(call[t].job)
     THEN SubmitCapture(t, "baseline", FALSE, call[t].manual)
     ELSE Goto(t, "next") /\ UNCHANGED <<job, current>>
  /\ UNCHANGED <<schedule, shutdown, observer, loop, world, count>>

(* Reading the ledger raises out of the callback.                          *)
CallbackFails(t) ==
  /\ call[t].step = "pending"
  /\ Spend("failures", MaxFailures)
  /\ Goto(t, "next")
  /\ UNCHANGED <<job, current, schedule, shutdown, observer, loop, world>>

-----------------------------------------------------------------------------
(* The capture in the lane                                                 *)

Begin(j) ==
  /\ call[Worker].step = "idle"
  /\ job[j].state = "queued"
  /\ \A other \in Jobs : job[other].state # "running"
  /\ job' = [job EXCEPT ![j].state = "running", ![j].sees = changed]
  /\ changed' = FALSE
  /\ UNCHANGED <<current, schedule, shutdown, observer, loop, call, parts,
                 count>>

(* The future is settled; the worker runs the callbacks registered on it.  *)
Settle(j, result) ==
  /\ job[j].state = "running"
  /\ job' = [job EXCEPT ![j] = [Unused EXCEPT !.state = "done",
                                 !.kind = job[j].kind, !.result = result]]
  /\ LET calls == job[j].calls
         first == IF "capture" \in calls THEN "completed" ELSE "next"
     IN call' = [call EXCEPT ![Worker] =
          IF calls = {} THEN Idle
          ELSE [Idle EXCEPT !.step = first,
                 !.job = IF "capture" \in calls THEN j ELSE None,
                 !.manual = IF "manual" \in calls THEN j ELSE None]]

(* Mutant: a slice is counted off although nothing was missing.            *)
PartsLeftAlwaysLess(j) ==
  IF job[j].sees THEN 0..MaxParts ELSE {parts - 1}

(* A slice that finds no change captures a part that was missing.          *)
PartsLeft(j) ==
  IF job[j].sees THEN 0..MaxParts
  ELSE {IF parts = 0 THEN 0 ELSE parts - 1}

Succeed(j) ==
  /\ Settle(j, "success")
  /\ parts' \in PartsLeft(j)
  /\ UNCHANGED <<current, schedule, shutdown, observer, loop, changed, count>>

(* capture_once() fails with a result, or raises where it records the run. *)
Fail(j) ==
  /\ \E result \in {"failed", "raised"} : Settle(j, result)
  /\ Spend("failures", MaxFailures)
  /\ changed' = (changed \/ job[j].sees)
  /\ UNCHANGED <<current, schedule, shutdown, observer, loop, parts>>

-----------------------------------------------------------------------------
(* Requests from outside                                                   *)

(* capture_now() of a handler, or request_catch_up() of the watcher.       *)
Request(t) ==
  /\ call[t].step = "idle" /\ stopper # "done"
  /\ Spend("requests", MaxRequests)
  /\ \E manual \in BOOLEAN : SubmitCapture(t, "request", manual, None)
  /\ UNCHANGED <<schedule, shutdown, observer, loop, world>>

(* update_settings(): update_interval() stores the interval first ...      *)
UpdateInterval(t) ==
  /\ call[t].step = "idle" /\ stopper # "done"
  /\ Spend("settings", MaxSettings)
  /\ interval' \in BOOLEAN
  /\ Goto(t, "settings")
  /\ UNCHANGED <<job, current, due, shutdown, observer, loop, world>>

(* ... and then the time that goes with it.                                *)
UpdateDue(t) ==
  /\ call[t].step = "settings"
  /\ due' = NextDue
  /\ Goto(t, "idle")
  /\ UNCHANGED <<job, current, interval, shutdown, observer, loop, world,
                 count>>

Change ==
  /\ Spend("changes", MaxChanges)
  /\ changed' = TRUE
  /\ UNCHANGED <<job, current, schedule, shutdown, observer, loop, call, parts>>

ObserverDies ==
  /\ observer /\ stopper = "none"
  /\ Spend("requests", MaxRequests)
  /\ observer' = FALSE
  /\ UNCHANGED <<job, current, schedule, shutdown, loop, call, world>>

TimePasses ==
  /\ due = "later"
  /\ due' = "now"
  /\ UNCHANGED <<job, current, interval, shutdown, observer, loop, call, world,
                 count>>

-----------------------------------------------------------------------------
(* _scheduler_loop() and _scheduler_step()                                 *)

At(place) == loop = place /\ call[Scheduler].step = "idle"

(* A gap of the wall clock above a minute asks for one capture.  The first *)
(* one stands for the capture that start() submits.                        *)
LoopTop ==
  /\ At("top") /\ ~stop
  /\ loop' = "watch"
  /\ \/ UNCHANGED <<job, current, call, count>>
     \/ /\ current = None
        /\ SubmitCapture(Scheduler, "request", FALSE, None) /\ UNCHANGED count
     \/ /\ current # None /\ Spend("requests", MaxRequests)
        /\ SubmitCapture(Scheduler, "request", FALSE, None)
  /\ UNCHANGED <<schedule, shutdown, observer, world>>

LoopWatch ==
  /\ At("watch")
  /\ loop' = "due"
  /\ IF observer THEN UNCHANGED <<job, current, call, observer>>
     ELSE /\ observer' = TRUE
          /\ SubmitCapture(Scheduler, "request", FALSE, None)
  /\ UNCHANGED <<schedule, shutdown, world, count>>

(* is_due() first, _capture_is_running() after it.                         *)
LoopDue ==
  /\ At("due")
  /\ loop' = IF interval /\ due = "now" THEN "check" ELSE "top"
  /\ UNCHANGED <<job, current, schedule, shutdown, observer, call, world,
                 count>>

LoopCheck ==
  /\ At("check")
  /\ loop' = "top"
  /\ IF current # None /\ Live(current) THEN UNCHANGED <<job, current, call>>
     ELSE SubmitCapture(Scheduler, "scheduled", FALSE, None)
  /\ UNCHANGED <<schedule, shutdown, observer, world, count>>

(* _stop ends the loop.                                                    *)
LoopEnds ==
  /\ At("top") /\ stop
  /\ loop' = "dead"
  /\ UNCHANGED <<job, current, schedule, shutdown, observer, call, world,
                 count>>

-----------------------------------------------------------------------------
(* stop()                                                                  *)

Stop ==
  /\ stopper = "none"
  /\ stop' = TRUE /\ stopper' = "watcher"
  /\ UNCHANGED <<job, current, schedule, laneClosed, observer, loop, call,
                 world, count>>

StopWatcher ==
  /\ stopper = "watcher"
  /\ observer' = FALSE /\ stopper' = "join"
  /\ UNCHANGED <<job, current, schedule, laneClosed, stop, loop, call, world,
                 count>>

(* The scheduler is waited for, but not for longer than five seconds.      *)
JoinScheduler ==
  /\ stopper = "join"
  /\ stopper' = "lane"
  /\ UNCHANGED <<job, current, schedule, laneClosed, stop, observer, loop,
                 call, world, count>>

CloseLane ==
  /\ stopper = "lane"
  /\ laneClosed' = TRUE /\ stopper' = "drain"
  /\ UNCHANGED <<job, current, schedule, stop, observer, loop, call, world,
                 count>>

(* Mutant: the lane's worker is not waited for.                            *)
LeaveAtOnce ==
  /\ stopper = "drain"
  /\ stopper' = "done"
  /\ UNCHANGED <<job, current, schedule, laneClosed, stop, observer, loop,
                 call, world, count>>

(* The lane's worker ends when everything it accepted is settled.          *)
Drained ==
  /\ stopper = "drain"
  /\ call[Worker].step = "idle"
  /\ \A j \in Jobs : ~Live(j)
  /\ stopper' = "done"
  /\ UNCHANGED <<job, current, schedule, laneClosed, stop, observer, loop,
                 call, world, count>>

-----------------------------------------------------------------------------
Callback(t) ==
  \/ Attach(t) \/ Proceed(t) \/ AttachManual(t)
  \/ Completed(t) \/ Mark(t) \/ Write(t) \/ Continue(t)

Loop == LoopTop \/ LoopWatch \/ LoopDue \/ LoopCheck \/ LoopEnds

Lane == \E j \in Jobs : Begin(j) \/ Succeed(j) \/ Fail(j)

Outside ==
  \/ \E t \in Callers : Request(t) \/ UpdateInterval(t) \/ UpdateDue(t)
  \/ Change \/ ObserverDies \/ TimePasses

Shutdown == Stop \/ StopWatcher \/ JoinScheduler \/ CloseLane \/ Drained

Next ==
  \/ \E t \in Threads : Callback(t) \/ CallbackFails(t)
  \/ Loop \/ Lane \/ Outside \/ Shutdown

Spec == Init /\ [][Next]_vars

(* Threads go on with their calls, the lane serves its jobs and time       *)
(* passes.  Failures are bounded by MaxFailures and need no fairness.      *)
Fairness ==
  /\ \A t \in Threads : WF_vars(Callback(t))
  /\ \A t \in Callers : WF_vars(UpdateDue(t))
  /\ WF_vars(Loop) /\ WF_vars(Lane) /\ WF_vars(TimePasses)

FairSpec == Spec /\ Fairness

-----------------------------------------------------------------------------
(* Properties                                                              *)

(* A capture that is queued or running is the one everybody sees: requests *)
(* coalesce into it, and the maintenance keeps quiet.                      *)
LiveCaptureIsCurrent == \A j \in Jobs : Live(j) => j = current

(* When stop() has returned and the home lock is free no capture runs and  *)
(* no callback of one touches the ledger in the lane's worker.             *)
NoCaptureAfterStop ==
  stopper = "done" => /\ \A j \in Jobs : ~Live(j)
                      /\ call[Worker].step = "idle"

LaneStaysClosed == stopper \in {"drain", "done"} => laneClosed

(* The lane has one worker: it runs captures between callbacks.            *)
WorkerIsFree ==
  (\E j \in Jobs : job[j].state = "running") => call[Worker].step = "idle"

(* The steps of _capture_completed() and of its registration.              *)
InHand == {"attach", "completed", "mark", "write", "pending"}

(* The end of a capture reaches _capture_completed() once, in whatever     *)
(* order it ends and its callback is registered: the callback is on the    *)
(* future, or one thread has it in hand.                                   *)
CalledBackOnce ==
  /\ \A j \in Jobs : Live(j) =>
       "capture" \in job[j].calls \/ \E t \in Threads : call[t].job = j
  /\ \A t \in Threads :
       /\ call[t].step \in InHand => call[t].job \in Jobs
       /\ call[t].job \in Jobs =>
            /\ "capture" \notin job[call[t].job].calls
            /\ job[call[t].job].state # "unused"
            /\ Live(call[t].job) => call[t].step = "attach"
       /\ \A u \in Threads :
            call[u].job = call[t].job /\ call[t].job \in Jobs => u = t

(* At most one capture is under way, everybody asks for that one, its end  *)
(* is called back once, and the end of the agent waits for all of it.      *)
CapturesAreSerial ==
  /\ TypeOK /\ LiveCaptureIsCurrent /\ NoCaptureAfterStop
  /\ LaneStaysClosed /\ WorkerIsFree /\ CalledBackOnce

(* A change that no capture has seen, or that one is still reading.        *)
Uncaptured == changed \/ \E j \in Jobs : job[j].state = "running" /\ job[j].sees

(* "The collector reconciles ... at the configured interval": with an      *)
(* interval everything gets captured, through changes during a capture,    *)
(* failures and callbacks that raise.                                      *)
Captured == stop \/ ~interval \/ (~Uncaptured /\ parts = 0)
EverythingCaptured == <>[]Captured

(* The capture of a large home goes on by itself until no part is missing, *)
(* with Manual Only as well unless a capture or its callback fails.        *)
BaselineEnded == stop \/ parts = 0 \/ (~interval /\ count.failures > 0)
BaselineFinishes == parts > 0 ~> BaselineEnded

(* A configured interval has a time: nobody is storing one, yet there is   *)
(* an interval and no capture will ever be due.                            *)
IntervalIsArmed ==
  interval /\ due = "never" =>
    \E t \in Threads : call[t].step \in {"settings", "write", "manual_write"}

(* The success of a capture that its callback has still to enter into the  *)
(* schedule.                                                               *)
UnmarkedSuccess ==
  \E t \in Threads :
    /\ call[t].step \in {"attach", "completed", "mark", "write"}
    /\ job[call[t].job].result = "success"
    /\ job[call[t].job].kind # "baseline"

(* "Overdue work ... produces one catch-up": the scheduler submits no      *)
(* capture for a due time that a capture which succeeded is about to move. *)
OneCatchUp ==
  [][\A j \in Jobs :
       job'[j].state = "queued" /\ job[j].state # "queued"
       /\ job'[j].kind = "scheduled" => ~UnmarkedSuccess]_vars
=============================================================================
