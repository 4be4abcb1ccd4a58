------------------------------ MODULE MCAgent -------------------------------
(* The heavy-I/O lane with two jobs under a capture and a rebuild key, and *)
(* instances of what the agent serves and does beside it: reports and the  *)
(* dashboard, the recovery of history; and of the processes a release      *)
(* starts.  A behaviour is one of what machine names; the lane otherwise   *)
(* stays as it starts, and the others have no state.                       *)
EXTENDS HeavyIOLane, Valuation, TLC

CONSTANTS Machines,
          Selections, Charts, Pages, Slots,               \* the dashboard
          MaxRevision, MaxMoves, MaxForgets, MaxClicks,   \* its bounds
          UsageTimes, QuotaTimes, Percents, Readers,      \* reuse
          JournalLimit, Horizon, MaxWrites, MaxReads,     \* its bounds
          Tasks, Untimed, CandidateLimit,                 \* historical recovery
          MaxLines, MaxGens, MaxChanges                   \* its bounds

ASSUME DashboardAssumption ==
  Selections # {} /\ Charts # {} /\ Pages # {} /\ MaxRevision \in Nat

ASSUME ReuseAssumption ==
  /\ Horizon \in Nat /\ JournalLimit \in Nat
  /\ UsageTimes \subseteq 0 .. Horizon /\ QuotaTimes \subseteq 0 .. Horizon

ASSUME RecoveryAssumption == IsFiniteSet(Tasks) /\ MaxLines \in Nat

VARIABLES machine,
  ledger, reports, host, refresh,
  db, memo, reader, writes, reads,
  rollout, artifact, changes, captured, ops, facts, image, speed, capture,
  platform, proc, gate, job, step, inJob, failed, cause

ofLane == <<queue, futures, queuedJobs, sequence, closed, stopQueued, future, keyOf, pc, held>>
ofDashboard == <<ledger, reports, host, refresh>>
ofReuse == <<db, memo, reader, writes, reads>>
ofRecovery == <<rollout, artifact, changes, captured, ops, facts, image, speed, capture>>
ofProcess == <<platform, proc, gate, job, step, inJob, failed, cause>>
allVars == <<machine, ofLane, ofDashboard, ofReuse, records, ofRecovery, ofProcess>>

NoDashboard == ledger = 0 /\ reports = 0 /\ host = 0 /\ refresh = 0
NoReuse == db = 0 /\ memo = 0 /\ reader = 0 /\ writes = 0 /\ reads = 0
NoValuation == records = 0
NoRecovery ==
  /\ rollout = 0 /\ artifact = 0 /\ changes = 0 /\ captured = 0 /\ ops = 0 /\ facts = 0
  /\ image = 0 /\ speed = 0 /\ capture = 0
NoProcess ==
  /\ platform = 0 /\ proc = 0 /\ gate = 0 /\ job = 0 /\ step = 0 /\ inJob = 0 /\ failed = 0
  /\ cause = 0

-----------------------------------------------------------------------------
(* A dashboard that shows the first page of the first revision.            *)
Dash == INSTANCE Dashboard WITH
  rows <- reports, Histories <- Pages

Home == CHOOSE x \in Selections : TRUE
Query == [selection |-> Home, chart |-> None, allowance |-> None, history |-> "deferred"]
Answer == Dash!Answer([ledger |-> ledger, rows |-> {}], Query)
Blank ==
  [open |-> TRUE, page |-> Dash!Failure("closed"), fingerprint |-> None,
   status |-> Dash!Status, selection |-> Home, identity |-> Home, revision |-> None,
   issued |-> None, charts |-> Dash!NoCharts, history |-> Dash!NoHistory, latest |-> None,
   clicks |-> 0]
Shown ==
  /\ ledger = Dash!FirstLedger
  /\ reports = {Dash!AllowanceRow(Answer.view, "deferred"), Dash!PaceRow(Answer.view),
             Dash!BaseRow(Answer.view, "deferred"), Dash!FragmentRow(Answer.view, "deferred"),
             Dash!MetadataRow(Answer.view), Dash!AccountRow(Answer.view),
             Dash!NavRow(Answer.view, Answer.chart), Dash!IssuedRow(Answer.chart),
             Dash!IssuedHistoryRow(Answer.history)}
  /\ host = Dash!Accept(Blank, Answer)
  /\ refresh = [s \in Slots |-> Dash!Idle]

(* The dashboard never goes back to an older revision; what a link asked   *)
(* for is what is shown, in the scope it was shown in, and the page of the *)
(* history survives a new revision.                                        *)
ShowsWhatWasAsked ==
  [][machine = "dashboard" =>
       Dash!DashboardInv /\ Dash!MovesForward /\ Dash!KeepsScope /\ Dash!KeepsHistory]_allVars

(* A dashboard whose user lets go shows the ledger as it is.               *)
DashboardCatchesUp ==
  <>[](machine = "dashboard" =>
         (host.open /\ host.fingerprint # None =>
            host.revision = ledger.revision /\ host.issued = Dash!Evidence(ledger)))

(* "explicit Reload clears chart commands and works without any receipt":  *)
(* a refresh that carries no command is answered.                          *)
ReloadWorks == [][machine = "dashboard" => Dash!Reloads]_allVars

-----------------------------------------------------------------------------
Reuse == INSTANCE HistoryReuse WITH Limit <- JournalLimit

(* A response and a reading lie in the ledger.                             *)
Recorded ==
  LET First(S) == Reuse!Earliest(S)
  IN /\ db.usage = [t \in UsageTimes |-> IF t = First(UsageTimes) THEN 1 ELSE 0]
     /\ db.quota = [t \in QuotaTimes |-> IF t = First(QuotaTimes) THEN First(Percents) ELSE None]

(* A history report that reuses earlier work is the one worked out anew.   *)
ReuseIsExact == [][machine = "reuse" => Reuse!ReuseInv /\ Reuse!ReusesExactly]_allVars

-----------------------------------------------------------------------------
R(model, at, tokens, project) ==
  [model |-> model, at |-> at, project |-> project, session |-> model, input |-> tokens[1],
   cached |-> tokens[2], write |-> tokens[3], output |-> tokens[4], total |-> tokens[1] + tokens[4]]
Models == {"gpt-5.6", "gpt-5.6-terra", "us.openai.gpt-5.6-luna", "gpt-5.3", AutoReview, "unknown"}
Times == {Date(6, 25) + 1439, Date(7, 13), Date(7, 30), Date(7, 31), Date(8, 22), Date(9, 4),
          AutoReviewFreeFrom - 1, AutoReviewFreeFrom}
Counts == {<<272, 200, 0, 10>>, <<273, 100, 100, 10>>, <<20, 0, 0, 4>>}
SomeResponses == {R(m, at, tokens, "a") : m \in Models, at \in Times, tokens \in Counts}

(* Every token is priced once or counted as unpriced, in every table, and  *)
(* a response costs what its model cost on its day.                        *)
ValuedOnce == machine = "value" => EveryTokenIsValuedOnce /\ PriceOfItsDay

-----------------------------------------------------------------------------
(* A short task with an image, a longer one whose responses have no timing *)
(* and whose image may be newer.                                           *)
Recovery == INSTANCE HistoricalRecovery WITH
  job <- capture

Histories ==
  \A t \in Tasks :
    /\ rollout[t].lines = IF t \in Untimed THEN 2 ELSE 1
    /\ artifact[t].time \in IF t \in Untimed THEN {0, 2} ELSE {1}

(* What recovery calls covered is in the ledger, and of the generation     *)
(* that is trusted.                                                        *)
RecoveredIsThere ==
  machine = "recovery" =>
    Recovery!RecoveryInv /\ Recovery!ImageCoverage /\ Recovery!TimingsAreOfTheGeneration

(* Every task whose rollout is complete is recovered or given up.          *)
RecoveryEnds ==
  \A t \in Tasks :
    /\ artifact[t].time = 0 \/ rollout[t].torn \/ t \in Recovery!Settled(image)
    /\ speed[t].status \notin {"none", "pending"}

-----------------------------------------------------------------------------
Process == INSTANCE OwnedProcess WITH pc <- step

(* A bounded call leaves no process behind, and on Windows no command ever *)
(* runs outside the job.                                                   *)
NothingSurvives == machine = "process" => Process!OwnedInv

(* Recovery comes to its end, and so does a bounded call.                  *)
BoundedWorkEnds ==
  <>[](/\ machine = "recovery" => RecoveryEnds
       /\ machine = "process" => step = "done")

-----------------------------------------------------------------------------
MCInit ==
  /\ machine \in Machines /\ Init
  /\ IF machine = "dashboard" THEN Shown ELSE NoDashboard
  /\ IF machine = "reuse" THEN Reuse!Init /\ Recorded ELSE NoReuse
  /\ IF machine = "value" THEN InitValuation ELSE NoValuation
  /\ IF machine = "recovery" THEN Recovery!Init /\ Histories ELSE NoRecovery
  /\ IF machine = "process" THEN Process!Init ELSE NoProcess

MCNext ==
  \/ /\ machine = "lane" /\ Next
     /\ UNCHANGED <<machine, ofDashboard, ofReuse, records, ofRecovery, ofProcess>>
  \/ /\ machine = "dashboard" /\ Dash!Next
     /\ UNCHANGED <<machine, ofLane, ofReuse, records, ofRecovery, ofProcess>>
  \/ /\ machine = "reuse" /\ Reuse!Next
     /\ UNCHANGED <<machine, ofLane, ofDashboard, records, ofRecovery, ofProcess>>
  \/ /\ machine = "value" /\ NextValuation
     /\ UNCHANGED <<machine, ofLane, ofDashboard, ofReuse, ofRecovery, ofProcess>>
  \/ /\ machine = "recovery" /\ Recovery!Next
     /\ UNCHANGED <<machine, ofLane, ofDashboard, ofReuse, records, ofProcess>>
  \/ /\ machine = "process" /\ Process!Next
     /\ UNCHANGED <<machine, ofLane, ofDashboard, ofReuse, records, ofRecovery>>

MCSpec ==
  /\ MCInit /\ [][MCNext]_allVars
  /\ WF_vars(machine = "lane" /\ Worker) /\ WF_vars(machine = "lane" /\ PutStop)
  /\ WF_ofDashboard(machine = "dashboard" /\ Dash!Poll)
  /\ \A s \in Slots : WF_ofDashboard(machine = "dashboard" /\ Dash!Step(s))
  /\ WF_ofRecovery(machine = "recovery" /\ Recovery!Work)
  /\ WF_ofProcess(machine = "process" /\ Process!Caller)
=============================================================================
