------------------------ MODULE CaptureAgent_proofs -------------------------
(***************************************************************************)
(* Proofs about the captures of the agent (CaptureAgent), for any callers, *)
(* any number of requests, changes, failures and new settings: captures    *)
(* are serial, their ends are called back once, and stop() leaves nothing  *)
(* behind.                                                                 *)
(***************************************************************************)
EXTENDS CaptureAgent, TLAPS

(***************************************************************************)
(* What the actions do.                                                    *)
(***************************************************************************)

(* Only the call of t changes.                                             *)
OnlyCallOf(t) ==
  /\ call' \in [Threads -> Calls]
  /\ \A u \in Threads \ {t} : call'[u] = call[u]

(* The calls may change, nothing else about the captures does.             *)
SameCaptures ==
  /\ job' \in [Jobs -> Captures]
  /\ \A j \in Jobs :
       /\ job'[j].state = job[j].state
       /\ "capture" \in job'[j].calls <=> "capture" \in job[j].calls

(* t coalesced or was refused, or it submitted a capture while there was   *)
(* none.                                                                   *)
Submitted(t) ==
  /\ OnlyCallOf(t)
  /\ job' \in [Jobs -> Captures] /\ current' \in Jobs \cup {None}
  /\ \/ /\ job' = job /\ current' = current
        /\ call'[t].step = "next" /\ call'[t].job = None
     \/ /\ ~laneClosed
        /\ \A k \in Jobs : ~Live(k)
        /\ current' \in Jobs /\ Fresh(current')
        /\ job'[current'].state = "queued" /\ job'[current'].calls = {}
        /\ call'[t].step = "attach" /\ call'[t].job = current'
        /\ \A k \in Jobs \ {current'} :
             job'[k] = job[k] \/ (Fresh(k) /\ job'[k] = Unused)

LEMMA GotoEffect ==
  ASSUME TypeOK, NEW t \in Threads, NEW s \in Steps, Goto(t, s)
  PROVE  /\ OnlyCallOf(t)
         /\ call'[t].step = s /\ call'[t].job = call[t].job
BY DEF TypeOK, Goto, Calls, OnlyCallOf

LEMMA SpendEffect ==
  ASSUME TypeOK
  PROVE  /\ Spend("changes", MaxChanges) => count' \in Counts
         /\ Spend("requests", MaxRequests) => count' \in Counts
         /\ Spend("failures", MaxFailures) => count' \in Counts
         /\ Spend("settings", MaxSettings) => count' \in Counts
BY BoundsAssumption DEF TypeOK, Spend, Counts

LEMMA SubmitEffect ==
  ASSUME TypeOK, LiveCaptureIsCurrent, NEW t \in Threads, NEW kind \in Kinds,
         NEW manual \in BOOLEAN, NEW keep \in Jobs \cup {None},
         SubmitCapture(t, kind, manual, keep)
  PROVE  Submitted(t)
<1>1. ASSUME current # None /\ Live(current),
             call' = [call EXCEPT ![t] =
               [Idle EXCEPT !.step = "next",
                            !.manual = IF manual THEN current ELSE keep]],
             UNCHANGED <<job, current>>
      PROVE  Submitted(t)
  BY <1>1 DEF Submitted, OnlyCallOf, TypeOK, Calls, Idle, Steps
<1>2. ASSUME call' = [call EXCEPT ![t] = [Idle EXCEPT !.step = "next",
                                                      !.manual = keep]],
             UNCHANGED <<job, current>>
      PROVE  Submitted(t)
  BY <1>2 DEF Submitted, OnlyCallOf, TypeOK, Calls, Idle, Steps
<1>3. ASSUME ~(current # None /\ Live(current)), ~laneClosed,
             NEW j \in Jobs, Fresh(j),
             job' = [other \in Jobs |->
               IF other = j THEN [Unused EXCEPT !.state = "queued", !.kind = kind]
               ELSE IF Fresh(other) THEN Unused ELSE job[other]],
             current' = j,
             call' = [call EXCEPT ![t] =
               [Idle EXCEPT !.step = "attach", !.job = j,
                            !.manual = IF manual THEN j ELSE keep]]
      PROVE  Submitted(t)
  <2>1. OnlyCallOf(t) /\ call'[t].step = "attach" /\ call'[t].job = j
    BY <1>3 DEF OnlyCallOf, TypeOK, Calls, Idle, Steps
  <2>2. Unused \in Captures
    BY DEF Unused, Captures, Kinds, Results
  <2>3. PICK q : q = [Unused EXCEPT !.state = "queued", !.kind = kind]
    OBVIOUS
  <2>4. q \in Captures /\ q.state = "queued" /\ q.calls = {}
    BY <2>3 DEF Unused, Captures, Kinds, Results
  <2>5. job' = [other \in Jobs |-> IF other = j THEN q
                 ELSE IF Fresh(other) THEN Unused ELSE job[other]]
    BY <1>3, <2>3
  <2>6. job' \in [Jobs -> Captures]
    BY <2>2, <2>4, <2>5 DEF TypeOK
  <2>7. \A k \in Jobs : ~Live(k)
    BY <1>3, NoneAssumption DEF LiveCaptureIsCurrent
  <2>8. \A k \in Jobs \ {j} : job'[k] = job[k] \/ (Fresh(k) /\ job'[k] = Unused)
    BY <2>5
  <2> QED
    BY <1>3, <2>1, <2>4, <2>5, <2>6, <2>7, <2>8 DEF Submitted
<1> QED
  BY <1>1, <1>2, <1>3 DEF SubmitCapture, Remember

-----------------------------------------------------------------------------
(***************************************************************************)
(* What keeps the invariant.                                               *)
(***************************************************************************)

(* A step about something else than calls and captures.                    *)
LEMMA QuietKeeps ==
  ASSUME CapturesAreSerial, TypeOK', UNCHANGED <<job, current, call>>,
         stopper' = "done" =>
           (\A j \in Jobs : ~Live(j)) /\ call[Worker].step = "idle",
         stopper' \in {"drain", "done"} => laneClosed'
  PROVE  CapturesAreSerial'
<1>1. LiveCaptureIsCurrent' /\ NoCaptureAfterStop' /\ LaneStaysClosed'
  BY DEF CapturesAreSerial, LiveCaptureIsCurrent, NoCaptureAfterStop,
         LaneStaysClosed, Live
<1>2. WorkerIsFree' /\ CalledBackOnce'
  BY DEF CapturesAreSerial, WorkerIsFree, CalledBackOnce, Live
<1> QED
  BY <1>1, <1>2 DEF CapturesAreSerial

(* A thread that is in a call, or a caller that begins one, goes on, with  *)
(* the capture it has in hand or after the end of it.                      *)
LEMMA CallKeeps ==
  ASSUME CapturesAreSerial, TypeOK', NEW t \in Threads, OnlyCallOf(t),
         SameCaptures, UNCHANGED <<current, laneClosed, stopper>>,
         t = Worker => call[t].step # "idle",
         call[t].step = "attach" => ~Live(call[t].job),
         call'[t].step # "attach",
         call'[t].step \in InHand => call[t].step \in InHand,
         \/ call'[t].job = call[t].job
         \/ call'[t].job = None /\ call'[t].step \notin InHand
  PROVE  CapturesAreSerial'
<1>1. Worker \in Threads
  BY DEF Threads
<1>2. \A j \in Jobs : (Live(j))' <=> Live(j)
  BY DEF SameCaptures, Live
<1>3. LiveCaptureIsCurrent' /\ LaneStaysClosed'
  BY <1>2 DEF CapturesAreSerial, LiveCaptureIsCurrent, LaneStaysClosed
<1>4. NoCaptureAfterStop' /\ WorkerIsFree'
  BY <1>1, <1>2 DEF CapturesAreSerial, NoCaptureAfterStop, WorkerIsFree,
                    OnlyCallOf, SameCaptures
<1>5. CalledBackOnce'
  <2>1. \A j \in Jobs : (Live(j))' =>
          "capture" \in job'[j].calls \/ \E u \in Threads : call'[u].job = j
    <3> SUFFICES ASSUME NEW j \in Jobs, Live(j), "capture" \notin job[j].calls
                 PROVE  \E u \in Threads : call'[u].job = j
      BY <1>2 DEF SameCaptures
    <3>1. PICK u \in Threads : call[u].job = j
      BY DEF CapturesAreSerial, CalledBackOnce
    <3>2. u # t
      BY <3>1 DEF CapturesAreSerial, CalledBackOnce
    <3> QED
      BY <3>1, <3>2 DEF OnlyCallOf
  <2>2. \A u \in Threads : call'[u].step \in InHand => call'[u].job \in Jobs
    BY DEF CapturesAreSerial, CalledBackOnce, OnlyCallOf
  <2>3. \A u \in Threads : call'[u].job \in Jobs => call'[u].job = call[u].job
    BY NoneAssumption DEF OnlyCallOf
  <2>4. \A u \in Threads : call'[u].job \in Jobs =>
          /\ "capture" \notin job'[call'[u].job].calls
          /\ job'[call'[u].job].state # "unused"
    BY <2>3 DEF CapturesAreSerial, CalledBackOnce, SameCaptures
  <2>5. \A u \in Threads : call'[u].job \in Jobs /\ (Live(call[u].job))' =>
          call'[u].step = "attach"
    <3> SUFFICES ASSUME NEW u \in Threads, call'[u].job \in Jobs,
                        (Live(call[u].job))'
                 PROVE  call'[u].step = "attach"
      OBVIOUS
    <3>1. Live(call[u].job) /\ call[u].step = "attach"
      BY <1>2, <2>3 DEF CapturesAreSerial, CalledBackOnce
    <3> QED
      BY <3>1 DEF OnlyCallOf
  <2>6. \A u, v \in Threads :
          call'[v].job = call'[u].job /\ call'[u].job \in Jobs => v = u
    BY <2>3 DEF CapturesAreSerial, CalledBackOnce
  <2> QED
    BY <2>1, <2>2, <2>3, <2>4, <2>5, <2>6 DEF CalledBackOnce
<1> QED
  BY <1>3, <1>4, <1>5 DEF CapturesAreSerial

(* A thread without a capture in hand asks for one.                        *)
LEMMA SubmitKeeps ==
  ASSUME CapturesAreSerial, TypeOK', NEW t \in Threads, Submitted(t),
         UNCHANGED <<laneClosed, stopper>>,
         t = Worker => call[t].step # "idle",
         call[t].step # "attach"
  PROVE  CapturesAreSerial'
<1>1. CASE job' = job /\ current' = current
           /\ call'[t].step = "next" /\ call'[t].job = None
  <2>1. OnlyCallOf(t) /\ SameCaptures /\ "next" \notin InHand
    BY <1>1 DEF Submitted, SameCaptures, InHand, CapturesAreSerial, TypeOK
  <2> QED
    BY <1>1, <2>1, CallKeeps
<1>2. CASE ~(job' = job /\ current' = current
             /\ call'[t].step = "next" /\ call'[t].job = None)
  <2>1. /\ ~laneClosed
        /\ \A k \in Jobs : ~Live(k)
        /\ current' \in Jobs /\ Fresh(current')
        /\ job'[current'].state = "queued" /\ job'[current'].calls = {}
        /\ call'[t].step = "attach" /\ call'[t].job = current'
        /\ \A k \in Jobs \ {current'} :
             job'[k] = job[k] \/ (Fresh(k) /\ job'[k] = Unused)
    BY <1>2 DEF Submitted
  <2>2. \A k \in Jobs : (Live(k))' <=> k = current'
    BY <2>1 DEF Live, Unused
  <2>3. Worker \in Threads
    BY DEF Threads
  <2>4. LiveCaptureIsCurrent' /\ LaneStaysClosed' /\ NoCaptureAfterStop'
    BY <2>1, <2>2 DEF CapturesAreSerial, LiveCaptureIsCurrent,
                      LaneStaysClosed, NoCaptureAfterStop
  <2>5. WorkerIsFree'
    BY <2>1, <2>2 DEF WorkerIsFree, Live
  <2>6. CalledBackOnce'
    <3>1. \A u \in Threads \ {t} : call'[u] = call[u] /\ call[u].job # current'
      BY <2>1 DEF Submitted, OnlyCallOf, Fresh
    <3>2. \A u \in Threads \ {t} : call[u].job \in Jobs =>
            job'[call[u].job] = job[call[u].job]
      BY <2>1, <3>1 DEF Fresh
    <3>3. \A j \in Jobs : (Live(j))' => \E u \in Threads : call'[u].job = j
      BY <2>1, <2>2
    <3>4. \A u \in Threads : call'[u].step \in InHand => call'[u].job \in Jobs
      BY <2>1, <3>1 DEF CapturesAreSerial, CalledBackOnce
    <3>5. \A u \in Threads : call'[u].job \in Jobs =>
            /\ "capture" \notin job'[call'[u].job].calls
            /\ job'[call'[u].job].state # "unused"
            /\ (Live(call[u].job))' => call'[u].step = "attach"
      <4> SUFFICES ASSUME NEW u \in Threads, call'[u].job \in Jobs
                   PROVE  /\ "capture" \notin job'[call'[u].job].calls
                          /\ job'[call'[u].job].state # "unused"
                          /\ (Live(call[u].job))' => call'[u].step = "attach"
        OBVIOUS
      <4>1. CASE u = t
        BY <2>1, <4>1
      <4>2. CASE u # t
        BY <2>2, <3>1, <3>2, <4>2 DEF CapturesAreSerial, CalledBackOnce
      <4> QED
        BY <4>1, <4>2
    <3>6. \A u, v \in Threads :
            call'[v].job = call'[u].job /\ call'[u].job \in Jobs => v = u
      BY <2>1, <3>1 DEF CapturesAreSerial, CalledBackOnce
    <3> QED
      BY <3>3, <3>4, <3>5, <3>6 DEF CalledBackOnce
  <2> QED
    BY <2>4, <2>5, <2>6 DEF CapturesAreSerial
<1> QED
  BY <1>1, <1>2

-----------------------------------------------------------------------------
LEMMA SettleEffect ==
  ASSUME TypeOK, WorkerIsFree, NEW j \in Jobs, NEW result \in Results, Settle(j, result)
  PROVE  /\ OnlyCallOf(Worker) /\ job' \in [Jobs -> Captures]
         /\ job[j].state = "running" /\ call[Worker].step = "idle"
         /\ job'[j].state = "done" /\ job'[j].calls = {}
         /\ \A k \in Jobs \ {j} : job'[k] = job[k]
         /\ \/ /\ "capture" \in job[j].calls
               /\ call'[Worker].step = "completed" /\ call'[Worker].job = j
            \/ /\ "capture" \notin job[j].calls
               /\ call'[Worker].step \notin InHand /\ call'[Worker].job = None
<1>1. Worker \in Threads /\ job[j] \in Captures
  BY DEF Threads, TypeOK
<1>2. PICK q : q = [Unused EXCEPT !.state = "done", !.kind = job[j].kind,
                                  !.result = result]
  OBVIOUS
<1>3. q \in Captures /\ q.state = "done" /\ q.calls = {}
  BY <1>1, <1>2 DEF Unused, Captures, Kinds
<1>4. job' = [job EXCEPT ![j] = q] /\ job[j].state = "running"
  BY <1>2 DEF Settle
<1>5. /\ job' \in [Jobs -> Captures] /\ job'[j] = q
      /\ \A k \in Jobs \ {j} : job'[k] = job[k]
  BY <1>3, <1>4 DEF TypeOK
<1>6. call[Worker].step = "idle"
  BY <1>4 DEF WorkerIsFree
<1>7. CASE job[j].calls = {}
  <2>1. call' = [call EXCEPT ![Worker] = Idle]
    BY <1>7 DEF Settle
  <2>2. Idle \in Calls /\ Idle.step \notin InHand /\ Idle.job = None
    BY DEF Idle, Calls, Steps, InHand
  <2>3. call'[Worker] = Idle /\ OnlyCallOf(Worker)
    BY <1>1, <2>1, <2>2 DEF OnlyCallOf, TypeOK
  <2> QED
    BY <1>3, <1>4, <1>5, <1>6, <1>7, <2>2, <2>3
<1>8. CASE job[j].calls # {}
  <2>1. PICK s \in {"completed", "next"} :
          s = IF "capture" \in job[j].calls THEN "completed" ELSE "next"
    OBVIOUS
  <2>2. PICK h \in {j, None} : h = IF "capture" \in job[j].calls THEN j ELSE None
    OBVIOUS
  <2>3. PICK m \in {j, None} : m = IF "manual" \in job[j].calls THEN j ELSE None
    OBVIOUS
  <2>4. PICK c : c = [Idle EXCEPT !.step = s, !.job = h, !.manual = m]
    OBVIOUS
  <2>5. c \in Calls /\ c.step = s /\ c.job = h
    BY <2>4 DEF Calls, Steps, Idle
  <2>6. call' = [call EXCEPT ![Worker] = c]
    BY <1>8, <2>1, <2>2, <2>3, <2>4 DEF Settle
  <2>7. call'[Worker] = c /\ OnlyCallOf(Worker)
    BY <1>1, <2>5, <2>6 DEF OnlyCallOf, TypeOK
  <2> QED
    BY <1>3, <1>4, <1>5, <1>6, <2>1, <2>2, <2>5, <2>7 DEF InHand
<1> QED
  BY <1>7, <1>8

LEMMA SettleKeeps ==
  ASSUME CapturesAreSerial, TypeOK', NEW j \in Jobs, NEW result \in Results,
         Settle(j, result), UNCHANGED <<current, laneClosed, stopper>>
  PROVE  CapturesAreSerial'
<1>1. /\ OnlyCallOf(Worker)
      /\ job[j].state = "running" /\ call[Worker].step = "idle"
      /\ job'[j].state = "done" /\ job'[j].calls = {}
      /\ \A k \in Jobs \ {j} : job'[k] = job[k]
      /\ \/ /\ "capture" \in job[j].calls
            /\ call'[Worker].step = "completed" /\ call'[Worker].job = j
         \/ /\ "capture" \notin job[j].calls
            /\ call'[Worker].step \notin InHand /\ call'[Worker].job = None
  BY SettleEffect DEF CapturesAreSerial
<1>2. \A k \in Jobs : (Live(k))' <=> Live(k) /\ k # j
  BY <1>1 DEF Live
<1>3. \A k \in Jobs : ~(Live(k))'
  BY <1>1, <1>2 DEF CapturesAreSerial, LiveCaptureIsCurrent, Live
<1>4. LiveCaptureIsCurrent' /\ NoCaptureAfterStop' /\ LaneStaysClosed'
  BY <1>1, <1>3 DEF CapturesAreSerial, LiveCaptureIsCurrent,
                    NoCaptureAfterStop, LaneStaysClosed, Live
<1>5. WorkerIsFree'
  BY <1>3 DEF WorkerIsFree, Live
<1>6. CalledBackOnce'
  <2>1. Worker \in Threads
    BY DEF Threads
  <2>2. \A u \in Threads \ {Worker} : call'[u] = call[u]
    BY <1>1 DEF OnlyCallOf
  <2>3. \A u \in Threads : call'[u].step \in InHand => call'[u].job \in Jobs
    BY <1>1, <2>2 DEF CapturesAreSerial, CalledBackOnce
  <2>4. \A k \in Jobs : /\ "capture" \in job'[k].calls => "capture" \in job[k].calls
                        /\ job[k].state # "unused" => job'[k].state # "unused"
    BY <1>1
  <2>5. \A u \in Threads : call'[u].job \in Jobs =>
          "capture" \notin job'[call'[u].job].calls /\ job'[call'[u].job].state # "unused"
    BY <1>1, <2>2, <2>4, NoneAssumption DEF CapturesAreSerial, CalledBackOnce
  <2>6. \A u \in Threads \ {Worker} : "capture" \in job[j].calls => call[u].job # j
    BY DEF CapturesAreSerial, CalledBackOnce
  <2>7. \A u, v \in Threads :
          call'[v].job = call'[u].job /\ call'[u].job \in Jobs => v = u
    BY <1>1, <2>2, <2>6, NoneAssumption DEF CapturesAreSerial, CalledBackOnce
  <2> QED
    BY <1>3, <2>3, <2>5, <2>7 DEF CalledBackOnce
<1> QED
  BY <1>4, <1>5, <1>6 DEF CapturesAreSerial

(* One step per action.                                                    *)
LEMMA CapturesStep == CapturesAreSerial /\ [Next]_vars => CapturesAreSerial'
<1> SUFFICES ASSUME CapturesAreSerial, [Next]_vars
             PROVE  CapturesAreSerial'
  OBVIOUS
<1>1. ASSUME NEW t \in Threads, Attach(t)
      PROVE  CapturesAreSerial'
  <2>1. call[t].job \in Jobs /\ call[t].step = "attach"
    BY <1>1 DEF Attach, CapturesAreSerial, CalledBackOnce, InHand
  <2>2. CASE job[call[t].job].state = "done"
    <3>1. /\ OnlyCallOf(t) /\ call'[t].step = "completed"
          /\ call'[t].job = call[t].job /\ job' = job
      BY <1>1, <2>2, GotoEffect DEF Attach, CapturesAreSerial, Steps
    <3>2. TypeOK' /\ SameCaptures
      BY <1>1, <3>1 DEF Attach, CapturesAreSerial, TypeOK, OnlyCallOf,
                       SameCaptures, schedule, shutdown, world
    <3>3. ~Live(call[t].job)
      BY <2>2 DEF Live
    <3> QED
      BY <1>1, <2>1, <3>1, <3>2, <3>3, CallKeeps DEF Attach, InHand, shutdown
  <2>3. CASE job[call[t].job].state # "done"
    <3> DEFINE j == call[t].job
    <3>1. /\ OnlyCallOf(t) /\ call'[t].step = "next" /\ call'[t].job = None
      BY <1>1, <2>3 DEF Attach, CapturesAreSerial, TypeOK, Calls, Steps, OnlyCallOf
    <3>2. job' = [job EXCEPT ![j].calls = @ \cup {"capture"}]
      BY <1>1, <2>3 DEF Attach
    <3>3. /\ job' \in [Jobs -> Captures]
          /\ \A k \in Jobs : job'[k].state = job[k].state
          /\ "capture" \in job'[j].calls
          /\ \A k \in Jobs \ {j} : job'[k] = job[k]
      BY <2>1, <3>2 DEF CapturesAreSerial, TypeOK, Captures
    <3>4. UNCHANGED <<current, stopper, laneClosed>>
      BY <1>1 DEF Attach, shutdown
    <3>5. TypeOK'
      BY <1>1, <3>1, <3>3 DEF Attach, CapturesAreSerial, TypeOK, OnlyCallOf,
                             schedule, shutdown, world
    <3>6. \A k \in Jobs : (Live(k))' <=> Live(k)
      BY <3>3 DEF Live
    <3>7. LiveCaptureIsCurrent' /\ LaneStaysClosed'
      BY <3>4, <3>6 DEF CapturesAreSerial, LiveCaptureIsCurrent, LaneStaysClosed
    <3>8. NoCaptureAfterStop' /\ WorkerIsFree'
      BY <2>1, <3>1, <3>3, <3>4, <3>6
         DEF CapturesAreSerial, NoCaptureAfterStop, WorkerIsFree, OnlyCallOf, Threads
    <3>9. CalledBackOnce'
      <4>1. \A u \in Threads \ {t} : call'[u] = call[u] /\ call[u].job # j
        BY <2>1, <3>1 DEF OnlyCallOf, CapturesAreSerial, CalledBackOnce
      <4>2. \A u \in Threads \ {t} : call[u].job \in Jobs =>
              job'[call[u].job] = job[call[u].job]
        BY <3>3, <4>1
      <4>3. \A k \in Jobs : (Live(k))' =>
              "capture" \in job'[k].calls \/ \E u \in Threads : call'[u].job = k
        <5> SUFFICES ASSUME NEW k \in Jobs, (Live(k))', k # j
                     PROVE  "capture" \in job'[k].calls \/
                            \E u \in Threads : call'[u].job = k
          BY <3>3
        <5>1. "capture" \in job[k].calls \/ \E u \in Threads : call[u].job = k
          BY <3>6 DEF CapturesAreSerial, CalledBackOnce
        <5> QED
          BY <3>3, <4>1, <5>1
      <4>4. \A u \in Threads :
              /\ call'[u].step \in InHand => call'[u].job \in Jobs
              /\ call'[u].job \in Jobs =>
                   /\ "capture" \notin job'[call'[u].job].calls
                   /\ job'[call'[u].job].state # "unused"
                   /\ (Live(call[u].job))' => call'[u].step = "attach"
        <5> SUFFICES ASSUME NEW u \in Threads
                     PROVE  /\ call'[u].step \in InHand => call'[u].job \in Jobs
                            /\ call'[u].job \in Jobs =>
                              /\ "capture" \notin job'[call'[u].job].calls
                              /\ job'[call'[u].job].state # "unused"
                              /\ (Live(call[u].job))' => call'[u].step = "attach"
          OBVIOUS
        <5>1. CASE u = t
          BY <3>1, <5>1, NoneAssumption DEF InHand
        <5>2. CASE u # t
          BY <3>6, <4>1, <4>2, <5>2 DEF CapturesAreSerial, CalledBackOnce
        <5> QED
          BY <5>1, <5>2
      <4>5. \A u, v \in Threads :
              call'[v].job = call'[u].job /\ call'[u].job \in Jobs => v = u
        BY <3>1, <4>1, NoneAssumption DEF CapturesAreSerial, CalledBackOnce
      <4> QED
        BY <4>3, <4>4, <4>5 DEF CalledBackOnce
    <3> QED
      BY <3>5, <3>7, <3>8, <3>9 DEF CapturesAreSerial
  <2> QED
    BY <2>2, <2>3
<1>2. ASSUME NEW t \in Threads, Proceed(t)
      PROVE  CapturesAreSerial'
  <2>1. /\ OnlyCallOf(t) /\ call'[t].step \in {"idle", "manual", "attach_manual"}
        /\ call'[t].job \in {call[t].job, None}
    BY <1>2 DEF Proceed, Goto, CapturesAreSerial, TypeOK, Calls, Steps,
                OnlyCallOf, Idle
  <2>2. SameCaptures /\ UNCHANGED <<job, current, laneClosed, stopper>>
    BY <1>2 DEF Proceed, SameCaptures, CapturesAreSerial, TypeOK, shutdown
  <2>3. TypeOK'
    BY <1>2, <2>1 DEF Proceed, CapturesAreSerial, TypeOK, OnlyCallOf,
                      schedule, shutdown, world
  <2> QED
    BY <1>2, <2>1, <2>2, <2>3, CallKeeps DEF Proceed, InHand
<1>3. ASSUME NEW t \in Threads, AttachManual(t)
      PROVE  CapturesAreSerial'
  <2>1. /\ OnlyCallOf(t) /\ call'[t].step \in {"idle", "manual"}
        /\ call'[t].job \in {call[t].job, None}
    BY <1>3 DEF AttachManual, Goto, CapturesAreSerial, TypeOK, Calls, Steps,
                OnlyCallOf, Idle
  <2>2. SameCaptures
    <3>1. CASE job' = job
      BY <3>1 DEF SameCaptures, CapturesAreSerial, TypeOK
    <3>2. CASE job' = [job EXCEPT ![call[t].manual].calls = @ \cup {"manual"}]
      <4>1. PICK m : m = call[t].manual
        OBVIOUS
      <4>2. job' = [job EXCEPT ![m].calls = @ \cup {"manual"}]
        BY <3>2, <4>1
      <4> QED
        BY <4>2 DEF SameCaptures, CapturesAreSerial, TypeOK, Captures
    <3> QED
      BY <1>3, <3>1, <3>2 DEF AttachManual
  <2>3. UNCHANGED <<current, laneClosed, stopper>>
    BY <1>3 DEF AttachManual, shutdown
  <2>4. TypeOK'
    BY <1>3, <2>1, <2>2 DEF AttachManual, CapturesAreSerial, TypeOK,
       OnlyCallOf, SameCaptures, schedule, shutdown, world
  <2> QED
    BY <1>3, <2>1, <2>2, <2>3, <2>4, CallKeeps DEF AttachManual, InHand
<1>4. ASSUME NEW t \in Threads, Completed(t)
      PROVE  CapturesAreSerial'
  <2>1. /\ OnlyCallOf(t) /\ call'[t].step \in {"next", "pending", "mark"}
        /\ call'[t].job = call[t].job
    BY <1>4, GotoEffect DEF Completed, CapturesAreSerial, Steps
  <2>2. ~Live(call[t].job) \/ call[t].step # "attach"
    BY <1>4 DEF Completed
  <2>3. SameCaptures /\ UNCHANGED <<job, current, laneClosed, stopper>>
    BY <1>4 DEF Completed, SameCaptures, CapturesAreSerial, TypeOK, shutdown
  <2>4. TypeOK'
    BY <1>4, <2>1 DEF Completed, CapturesAreSerial, TypeOK, OnlyCallOf,
                      shutdown, world
  <2> QED
    BY <1>4, <2>1, <2>2, <2>3, <2>4, CallKeeps DEF Completed, InHand
<1>5. ASSUME NEW t \in Threads, Mark(t)
      PROVE  CapturesAreSerial'
  <2>1. /\ OnlyCallOf(t)
        /\ \/ call'[t].step \in {"idle", "manual_write"}
              /\ call'[t].job \in {call[t].job, None}
           \/ /\ call[t].step = "mark" /\ call'[t].step = "write"
              /\ call'[t].job = call[t].job
    <3>1. CASE call' = [call EXCEPT ![t] = Idle]
      BY <3>1 DEF CapturesAreSerial, TypeOK, Calls, Steps, OnlyCallOf, Idle
    <3>2. CASE call' = [call EXCEPT
                 ![t].step = IF @ = "mark" THEN "write" ELSE "manual_write",
                 ![t].value = NextDue]
      <4>1. PICK s \in {"write", "manual_write"} :
              s = IF call[t].step = "mark" THEN "write" ELSE "manual_write"
        OBVIOUS
      <4>2. PICK v \in {"never", "later"} : v = NextDue
        BY DEF NextDue
      <4>3. call' = [call EXCEPT ![t] = [[call[t] EXCEPT !.step = s]
                                                  EXCEPT !.value = v]]
        BY <3>2, <4>1, <4>2 DEF CapturesAreSerial, TypeOK, Calls
      <4>4. call[t] \in Calls
        BY DEF CapturesAreSerial, TypeOK
      <4> QED
        BY <1>5, <4>1, <4>3, <4>4 DEF Mark, CapturesAreSerial, TypeOK, Calls,
                                      Steps, OnlyCallOf
    <3> QED
      BY <1>5, <3>1, <3>2 DEF Mark
  <2>2. SameCaptures /\ UNCHANGED <<job, current, laneClosed, stopper>>
    BY <1>5 DEF Mark, SameCaptures, CapturesAreSerial, TypeOK, shutdown
  <2>3. TypeOK'
    BY <1>5, <2>1 DEF Mark, CapturesAreSerial, TypeOK, OnlyCallOf,
                      schedule, shutdown, world
  <2> QED
    BY <1>5, <2>1, <2>2, <2>3, CallKeeps DEF Mark, InHand
<1>6. ASSUME NEW t \in Threads, Write(t)
      PROVE  CapturesAreSerial'
  <2>1. /\ OnlyCallOf(t)
        /\ \/ call'[t].step = "idle" /\ call'[t].job = None
           \/ /\ call[t].step = "write" /\ call'[t].step = "pending"
              /\ call'[t].job = call[t].job
    BY <1>6 DEF Write, CapturesAreSerial, TypeOK, Calls, Steps, OnlyCallOf, Idle
  <2>2. SameCaptures /\ UNCHANGED <<job, current, laneClosed, stopper>>
    BY <1>6 DEF Write, SameCaptures, CapturesAreSerial, TypeOK, shutdown
  <2>3. TypeOK'
    BY <1>6, <2>1 DEF Write, CapturesAreSerial, TypeOK, OnlyCallOf, Calls,
                      shutdown, world
  <2> QED
    BY <1>6, <2>1, <2>2, <2>3, CallKeeps DEF Write, InHand
<1>7. ASSUME NEW t \in Threads, Continue(t)
      PROVE  CapturesAreSerial'
  <2>1. UNCHANGED <<schedule, laneClosed, stop, stopper, observer, loop, world, count>>
        /\ call[t].step = "pending"
    BY <1>7 DEF Continue, shutdown
  <2>2. CASE SubmitCapture(t, "baseline", FALSE, call[t].manual)
    <3>1. "baseline" \in Kinds /\ call[t].manual \in Jobs \cup {None}
      BY DEF Kinds, CapturesAreSerial, TypeOK, Calls
    <3>2. Submitted(t)
      BY <2>2, <3>1, SubmitEffect DEF CapturesAreSerial
    <3>3. TypeOK'
      BY <2>1, <3>2 DEF CapturesAreSerial, TypeOK, Submitted, OnlyCallOf,
                        schedule, world
    <3> QED
      BY <2>1, <3>2, <3>3, SubmitKeeps
  <2>3. CASE Goto(t, "next") /\ UNCHANGED <<job, current>>
    <3>1. OnlyCallOf(t) /\ call'[t].step = "next" /\ call'[t].job = call[t].job
      BY <2>3, GotoEffect DEF CapturesAreSerial, Steps
    <3>2. TypeOK' /\ SameCaptures
      BY <2>1, <2>3, <3>1 DEF CapturesAreSerial, TypeOK, SameCaptures,
                              OnlyCallOf, schedule, world
    <3> QED
      BY <2>1, <2>3, <3>1, <3>2, CallKeeps DEF InHand
  <2> QED
    BY <1>7, <2>2, <2>3 DEF Continue
<1>8. ASSUME NEW t \in Threads, CallbackFails(t)
      PROVE  CapturesAreSerial'
  <2>1. OnlyCallOf(t) /\ call'[t].step = "next" /\ call'[t].job = call[t].job
    BY <1>8, GotoEffect DEF CallbackFails, CapturesAreSerial, Steps
  <2>2. SameCaptures /\ UNCHANGED <<job, current, laneClosed, stopper>>
    BY <1>8 DEF CallbackFails, SameCaptures, CapturesAreSerial, TypeOK, shutdown
  <2>3. TypeOK'
    <3>1. count' \in Counts
      BY <1>8, SpendEffect DEF CallbackFails, CapturesAreSerial
    <3> QED
      BY <1>8, <2>1, <3>1 DEF CallbackFails, CapturesAreSerial, TypeOK,
                              OnlyCallOf, Counts, schedule, shutdown, world
  <2> QED
    BY <1>8, <2>1, <2>2, <2>3, CallKeeps DEF CallbackFails, InHand
<1>9. ASSUME LoopTop
      PROVE  CapturesAreSerial'
  <2>1. /\ UNCHANGED <<schedule, laneClosed, stop, stopper, observer, world>>
        /\ call[Scheduler].step = "idle" /\ loop' = "watch"
        /\ Scheduler \in Threads /\ Scheduler # Worker
    BY <1>9, ThreadsAssumption DEF LoopTop, At, shutdown, Threads
  <2>2. CASE UNCHANGED <<job, current, call, count>>
    <3>1. TypeOK'
      BY <2>1, <2>2 DEF CapturesAreSerial, TypeOK, schedule, world
    <3> QED
      BY <2>1, <2>2, <3>1, QuietKeeps
         DEF CapturesAreSerial, NoCaptureAfterStop, LaneStaysClosed
  <2>3. CASE SubmitCapture(Scheduler, "request", FALSE, None) /\ count' \in Counts
    <3>1. Submitted(Scheduler)
      BY <2>1, <2>3, SubmitEffect DEF Kinds, CapturesAreSerial
    <3>2. TypeOK'
      BY <2>1, <2>3, <3>1 DEF CapturesAreSerial, TypeOK, Submitted, OnlyCallOf,
                              Counts, schedule, world
    <3> QED
      BY <2>1, <3>1, <3>2, SubmitKeeps
  <2>4. UNCHANGED count => count' \in Counts
    BY DEF CapturesAreSerial, TypeOK, Counts
  <2>5. Spend("requests", MaxRequests) => count' \in Counts
    BY SpendEffect DEF CapturesAreSerial
  <2> QED
    BY <1>9, <2>2, <2>3, <2>4, <2>5 DEF LoopTop
<1>10. ASSUME LoopWatch
      PROVE  CapturesAreSerial'
  <2>1. /\ UNCHANGED <<schedule, laneClosed, stop, stopper, world, count>>
        /\ call[Scheduler].step = "idle" /\ loop' = "due"
        /\ Scheduler \in Threads /\ Scheduler # Worker
    BY <1>10, ThreadsAssumption DEF LoopWatch, At, shutdown, Threads
  <2>2. CASE UNCHANGED <<job, current, call, observer>>
    <3>1. TypeOK'
      BY <2>1, <2>2 DEF CapturesAreSerial, TypeOK, schedule, world
    <3> QED
      BY <2>1, <2>2, <3>1, QuietKeeps
         DEF CapturesAreSerial, NoCaptureAfterStop, LaneStaysClosed
  <2>3. CASE SubmitCapture(Scheduler, "request", FALSE, None) /\ observer' = TRUE
    <3>1. Submitted(Scheduler)
      BY <2>1, <2>3, SubmitEffect DEF Kinds, CapturesAreSerial
    <3>2. TypeOK'
      BY <2>1, <2>3, <3>1 DEF CapturesAreSerial, TypeOK, Submitted, OnlyCallOf,
                              schedule, world
    <3> QED
      BY <2>1, <3>1, <3>2, SubmitKeeps
  <2> QED
    BY <1>10, <2>2, <2>3 DEF LoopWatch
<1>11. ASSUME LoopCheck
      PROVE  CapturesAreSerial'
  <2>1. /\ UNCHANGED <<schedule, laneClosed, stop, stopper, observer, world, count>>
        /\ call[Scheduler].step = "idle" /\ loop' = "top"
        /\ Scheduler \in Threads /\ Scheduler # Worker
    BY <1>11, ThreadsAssumption DEF LoopCheck, At, shutdown, Threads
  <2>2. CASE UNCHANGED <<job, current, call>>
    <3>1. TypeOK'
      BY <2>1, <2>2 DEF CapturesAreSerial, TypeOK, schedule, world
    <3> QED
      BY <2>1, <2>2, <3>1, QuietKeeps
         DEF CapturesAreSerial, NoCaptureAfterStop, LaneStaysClosed
  <2>3. CASE SubmitCapture(Scheduler, "scheduled", FALSE, None)
    <3>1. Submitted(Scheduler)
      BY <2>1, <2>3, SubmitEffect DEF Kinds, CapturesAreSerial
    <3>2. TypeOK'
      BY <2>1, <3>1 DEF CapturesAreSerial, TypeOK, Submitted, OnlyCallOf,
                        schedule, world
    <3> QED
      BY <2>1, <3>1, <3>2, SubmitKeeps
  <2> QED
    BY <1>11, <2>2, <2>3 DEF LoopCheck
<1>12. ASSUME LoopDue
      PROVE  CapturesAreSerial'
  <2>1. TypeOK' /\ UNCHANGED <<job, current, call>>
    BY <1>12 DEF LoopDue, At, CapturesAreSerial, TypeOK, Counts,
       schedule, shutdown, world
  <2> QED
    BY <1>12, <2>1, QuietKeeps
       DEF LoopDue, CapturesAreSerial, NoCaptureAfterStop, LaneStaysClosed,
           shutdown
<1>13. ASSUME LoopEnds
      PROVE  CapturesAreSerial'
  <2>1. TypeOK' /\ UNCHANGED <<job, current, call>>
    BY <1>13 DEF LoopEnds, At, CapturesAreSerial, TypeOK, Counts,
       schedule, shutdown, world
  <2> QED
    BY <1>13, <2>1, QuietKeeps
       DEF LoopEnds, CapturesAreSerial, NoCaptureAfterStop, LaneStaysClosed,
           shutdown
<1>14. ASSUME TimePasses
      PROVE  CapturesAreSerial'
  <2>1. TypeOK' /\ UNCHANGED <<job, current, call>>
    BY <1>14 DEF TimePasses, At, CapturesAreSerial, TypeOK, Counts,
       schedule, shutdown, world
  <2> QED
    BY <1>14, <2>1, QuietKeeps
       DEF TimePasses, CapturesAreSerial, NoCaptureAfterStop, LaneStaysClosed,
           shutdown
<1>15. ASSUME Stop
      PROVE  CapturesAreSerial'
  <2>1. TypeOK' /\ UNCHANGED <<job, current, call>>
    BY <1>15 DEF Stop, At, CapturesAreSerial, TypeOK, Counts,
       schedule, shutdown, world
  <2> QED
    BY <1>15, <2>1, QuietKeeps
       DEF Stop, CapturesAreSerial, NoCaptureAfterStop, LaneStaysClosed,
           shutdown
<1>16. ASSUME StopWatcher
      PROVE  CapturesAreSerial'
  <2>1. TypeOK' /\ UNCHANGED <<job, current, call>>
    BY <1>16 DEF StopWatcher, At, CapturesAreSerial, TypeOK, Counts,
       schedule, shutdown, world
  <2> QED
    BY <1>16, <2>1, QuietKeeps
       DEF StopWatcher, CapturesAreSerial, NoCaptureAfterStop, LaneStaysClosed,
           shutdown
<1>17. ASSUME JoinScheduler
      PROVE  CapturesAreSerial'
  <2>1. TypeOK' /\ UNCHANGED <<job, current, call>>
    BY <1>17 DEF JoinScheduler, At, CapturesAreSerial, TypeOK, Counts,
       schedule, shutdown, world
  <2> QED
    BY <1>17, <2>1, QuietKeeps
       DEF JoinScheduler, CapturesAreSerial, NoCaptureAfterStop, LaneStaysClosed,
           shutdown
<1>18. ASSUME CloseLane
      PROVE  CapturesAreSerial'
  <2>1. TypeOK' /\ UNCHANGED <<job, current, call>>
    BY <1>18 DEF CloseLane, At, CapturesAreSerial, TypeOK, Counts,
       schedule, shutdown, world
  <2> QED
    BY <1>18, <2>1, QuietKeeps
       DEF CloseLane, CapturesAreSerial, NoCaptureAfterStop, LaneStaysClosed,
           shutdown
<1>19. ASSUME Drained
      PROVE  CapturesAreSerial'
  <2>1. TypeOK' /\ UNCHANGED <<job, current, call>>
    BY <1>19 DEF Drained, At, CapturesAreSerial, TypeOK, Counts,
       schedule, shutdown, world
  <2> QED
    BY <1>19, <2>1, QuietKeeps
       DEF Drained, CapturesAreSerial, NoCaptureAfterStop, LaneStaysClosed,
           shutdown
<1>20. ASSUME Change
      PROVE  CapturesAreSerial'
  <2>0. count' \in Counts
    BY <1>20, SpendEffect DEF Change, CapturesAreSerial
  <2>1. TypeOK' /\ UNCHANGED <<job, current, call>>
    BY <1>20, <2>0 DEF Change, At, CapturesAreSerial, TypeOK, Counts,
       schedule, shutdown, world
  <2> QED
    BY <1>20, <2>1, QuietKeeps
       DEF Change, CapturesAreSerial, NoCaptureAfterStop, LaneStaysClosed,
           shutdown
<1>21. ASSUME ObserverDies
      PROVE  CapturesAreSerial'
  <2>0. count' \in Counts
    BY <1>21, SpendEffect DEF ObserverDies, CapturesAreSerial
  <2>1. TypeOK' /\ UNCHANGED <<job, current, call>>
    BY <1>21, <2>0 DEF ObserverDies, At, CapturesAreSerial, TypeOK, Counts,
       schedule, shutdown, world
  <2> QED
    BY <1>21, <2>1, QuietKeeps
       DEF ObserverDies, CapturesAreSerial, NoCaptureAfterStop, LaneStaysClosed,
           shutdown
<1>22. ASSUME NEW j \in Jobs, Begin(j)
      PROVE  CapturesAreSerial'
  <2>1. /\ job' \in [Jobs -> Captures]
        /\ job'[j].state = "running" /\ job'[j].calls = job[j].calls
        /\ \A k \in Jobs \ {j} : job'[k] = job[k]
    BY <1>22 DEF Begin, CapturesAreSerial, TypeOK, Captures
  <2>2. /\ job[j].state = "queued" /\ call[Worker].step = "idle"
        /\ UNCHANGED <<current, laneClosed, stopper, call>>
    BY <1>22 DEF Begin, shutdown
  <2>3. TypeOK'
    BY <1>22, <2>1 DEF Begin, CapturesAreSerial, TypeOK, schedule, shutdown, world
  <2>4. \A k \in Jobs : (Live(k))' <=> Live(k)
    BY <2>1, <2>2 DEF Live
  <2>5. LiveCaptureIsCurrent' /\ NoCaptureAfterStop' /\ LaneStaysClosed'
    BY <2>2, <2>4 DEF CapturesAreSerial, LiveCaptureIsCurrent,
                      NoCaptureAfterStop, LaneStaysClosed
  <2>6. WorkerIsFree'
    BY <2>2 DEF WorkerIsFree
  <2>7. \A k \in Jobs : /\ job'[k].calls = job[k].calls
                        /\ job[k].state # "unused" => job'[k].state # "unused"
    BY <2>1, <2>2
  <2>8. CalledBackOnce'
    <3>1. CalledBackOnce
      BY DEF CapturesAreSerial
    <3>2. \A k \in Jobs : (Live(k))' =>
            "capture" \in job'[k].calls \/ \E t \in Threads : call'[t].job = k
      BY <2>2, <2>4, <2>7, <3>1 DEF CalledBackOnce, Live
    <3>3. \A t \in Threads : call[t].job \in Jobs =>
            /\ "capture" \notin job'[call[t].job].calls
            /\ job'[call[t].job].state # "unused"
            /\ (Live(call[t].job))' => call[t].step = "attach"
      BY <2>2, <2>4, <2>7, <3>1 DEF CalledBackOnce, Live
    <3> QED
      BY <2>2, <3>1, <3>2, <3>3 DEF CalledBackOnce, Live
  <2> QED
    BY <2>3, <2>5, <2>6, <2>8 DEF CapturesAreSerial
<1>23. ASSUME NEW j \in Jobs, Succeed(j) \/ Fail(j)
      PROVE  CapturesAreSerial'
  <2>1. /\ UNCHANGED <<current, schedule, shutdown, observer, loop>>
        /\ parts' \in 0..MaxParts /\ changed' \in BOOLEAN /\ count' \in Counts
    <3>1. CASE Succeed(j)
      <4>1. PartsLeft(j) \subseteq 0..MaxParts
        BY BoundsAssumption DEF PartsLeft, CapturesAreSerial, TypeOK
      <4> QED
        BY <3>1, <4>1 DEF Succeed, CapturesAreSerial, TypeOK, Counts
    <3>2. CASE Fail(j)
      <4>1. count' \in Counts
        BY <3>2, SpendEffect DEF Fail, CapturesAreSerial
      <4>2. changed' \in BOOLEAN
        BY <3>2 DEF Fail, CapturesAreSerial, TypeOK, Captures
      <4> QED
        BY <3>2, <4>1, <4>2 DEF Fail, CapturesAreSerial, TypeOK
    <3> QED
      BY <1>23, <3>1, <3>2
  <2>2. PICK result \in Results : Settle(j, result)
    BY <1>23 DEF Succeed, Fail, Results
  <2>3. TypeOK'
    BY <2>1, <2>2, SettleEffect DEF CapturesAreSerial, TypeOK, OnlyCallOf,
                                    Counts, schedule, shutdown
  <2> QED
    BY <2>1, <2>2, <2>3, SettleKeeps DEF shutdown
<1>24. ASSUME NEW t \in Callers, Request(t)
      PROVE  CapturesAreSerial'
  <2>1. /\ UNCHANGED <<schedule, laneClosed, stop, stopper, observer, loop, world>>
        /\ call[t].step = "idle" /\ t \in Threads /\ t # Worker
    BY <1>24, ThreadsAssumption DEF Request, shutdown, Threads
  <2>2. count' \in Counts
    BY <1>24, SpendEffect DEF Request, CapturesAreSerial
  <2>3. PICK manual \in BOOLEAN : SubmitCapture(t, "request", manual, None)
    BY <1>24 DEF Request
  <2>4. Submitted(t)
    BY <2>1, <2>3, SubmitEffect DEF Kinds, CapturesAreSerial
  <2>5. TypeOK'
    BY <2>1, <2>2, <2>4 DEF CapturesAreSerial, TypeOK, Submitted, OnlyCallOf,
                            Counts, schedule, world
  <2> QED
    BY <2>1, <2>4, <2>5, SubmitKeeps
<1>25. ASSUME NEW t \in Callers, UpdateInterval(t)
      PROVE  CapturesAreSerial'
  <2>1. /\ OnlyCallOf(t) /\ call'[t].step = "settings" /\ call'[t].job = call[t].job
        /\ t \in Threads /\ t # Worker
    BY <1>25, GotoEffect, ThreadsAssumption
       DEF UpdateInterval, CapturesAreSerial, Steps, Threads
  <2>2. SameCaptures /\ UNCHANGED <<job, current, laneClosed, stopper>>
    BY <1>25 DEF UpdateInterval, SameCaptures, CapturesAreSerial, TypeOK, shutdown
  <2>3. TypeOK'
    <3>1. count' \in Counts
      BY <1>25, SpendEffect DEF UpdateInterval, CapturesAreSerial
    <3> QED
      BY <1>25, <2>1, <3>1 DEF UpdateInterval, CapturesAreSerial, TypeOK,
                              OnlyCallOf, Counts, shutdown, world
  <2> QED
    BY <1>25, <2>1, <2>2, <2>3, CallKeeps DEF UpdateInterval, InHand
<1>26. ASSUME NEW t \in Callers, UpdateDue(t)
      PROVE  CapturesAreSerial'
  <2>1. /\ OnlyCallOf(t) /\ call'[t].step = "idle" /\ call'[t].job = call[t].job
        /\ t \in Threads /\ t # Worker
    BY <1>26, GotoEffect, ThreadsAssumption
       DEF UpdateDue, CapturesAreSerial, Steps, Threads
  <2>2. SameCaptures /\ UNCHANGED <<job, current, laneClosed, stopper>>
    BY <1>26 DEF UpdateDue, SameCaptures, CapturesAreSerial, TypeOK, shutdown
  <2>3. TypeOK'
    BY <1>26, <2>1 DEF UpdateDue, NextDue, CapturesAreSerial, TypeOK,
                      OnlyCallOf, shutdown, world
  <2> QED
    BY <1>26, <2>1, <2>2, <2>3, CallKeeps DEF UpdateDue, InHand
<1>27. CASE UNCHANGED vars
  <2>1. TypeOK' /\ UNCHANGED <<job, current, call, laneClosed, stopper>>
    BY <1>27 DEF CapturesAreSerial, TypeOK, vars, schedule, shutdown, world
  <2> QED
    BY <2>1, QuietKeeps DEF CapturesAreSerial, NoCaptureAfterStop, LaneStaysClosed
<1> QED
  BY <1>1, <1>2, <1>3, <1>4, <1>5, <1>6, <1>7, <1>8, <1>9, <1>10, <1>11,
     <1>12, <1>13, <1>14, <1>15, <1>16, <1>17, <1>18, <1>19, <1>20, <1>21,
     <1>22, <1>23, <1>24, <1>25, <1>26, <1>27
     DEF Next, Callback, Loop, Lane, Outside, Shutdown

-----------------------------------------------------------------------------
LEMMA CapturesInit == Init => CapturesAreSerial
<1> SUFFICES ASSUME Init PROVE CapturesAreSerial
  OBVIOUS
<1>1. TypeOK
  <2>1. job \in [Jobs -> Captures] /\ call \in [Threads -> Calls]
    BY DEF Init, Start, Unused, Captures, Kinds, Results, Idle, Calls, Steps
  <2>2. interval \in BOOLEAN /\ laneClosed \in BOOLEAN /\ stop \in BOOLEAN
    BY DEF Init, Start
  <2>3. observer \in BOOLEAN /\ changed \in BOOLEAN
    BY DEF Init, Start
  <2>4. parts \in 0..MaxParts /\ count \in Counts
    BY BoundsAssumption DEF Init, Start, Counts
  <2> QED
    BY <2>1, <2>2, <2>3, <2>4 DEF Init, Start, TypeOK
<1>2. \A j \in Jobs : ~Live(j) /\ job[j].state = "unused"
  BY DEF Init, Start, Unused, Live
<1>3. stopper = "none" /\ \A t \in Threads : call[t].step = "idle" /\ call[t].job = None
  BY DEF Init, Start, Idle
<1>4. LiveCaptureIsCurrent /\ NoCaptureAfterStop /\ LaneStaysClosed
  BY <1>2, <1>3 DEF LiveCaptureIsCurrent, NoCaptureAfterStop, LaneStaysClosed
<1>5. WorkerIsFree /\ CalledBackOnce
  BY <1>2, <1>3, NoneAssumption DEF WorkerIsFree, CalledBackOnce, InHand
<1> QED
  BY <1>1, <1>4, <1>5 DEF CapturesAreSerial

(* At most one capture is under way, everybody asks for that one, its end  *)
(* is called back once, and the end of the agent waits for all of it: for  *)
(* any callers, jobs, failures and requests (agent_runtime.py).            *)
THEOREM SerialCaptures == Spec => []CapturesAreSerial
<1>1. Init => CapturesAreSerial
  BY CapturesInit
<1>2. CapturesAreSerial /\ [Next]_vars => CapturesAreSerial'
  BY CapturesStep
<1> QED
  BY <1>1, <1>2, PTL DEF Spec

(* The variables keep their types.                                         *)
THEOREM TypeCorrect == Spec => []TypeOK
<1>1. CapturesAreSerial => TypeOK
  BY DEF CapturesAreSerial
<1> QED
  BY <1>1, SerialCaptures, PTL

(* No end of a capture is lost or reported twice: a capture under way has  *)
(* its callback registered or a thread about to do so, and no two threads  *)
(* have the same one in hand.                                              *)
THEOREM EndsAreCalledBack == Spec => []CalledBackOnce
<1>1. CapturesAreSerial => CalledBackOnce
  BY DEF CapturesAreSerial
<1> QED
  BY <1>1, SerialCaptures, PTL
=============================================================================
