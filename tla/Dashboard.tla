----------------------------- MODULE Dashboard -----------------------------
(***************************************************************************)
(* The dashboard of the VS Code extension against the agent's report       *)
(* server.  Refreshes overlap: each asks for the report of what the user   *)
(* selected, carries the chart and history commands that still apply, and  *)
(* is shown only when no later refresh has started.  The host keeps the    *)
(* navigation of the page it shows and drops it when the status it polls   *)
(* is newer, or when the server says that its scope has expired.           *)
(***************************************************************************)
EXTENDS ReportServer

CONSTANTS Slots,      \* refreshes that may be under way together
          MaxClicks   \* bound on what the user does

VARIABLES host,     \* DashboardNavigation, its panel and the last status
          refresh   \* the refreshes under way

vars == <<ledger, rows, host, refresh>>

Idle == [phase |-> "idle"]
Status == [revision |-> ledger.revision, evidence |-> Evidence(ledger)]

NoCharts == [nav |-> None, action |-> None]
NoHistory == [nav |-> None, action |-> None, requested |-> FALSE]

-----------------------------------------------------------------------------
(* DashboardNavigation. *)
ResetHistory(h) == [h EXCEPT !.history.nav = None, !.history.action = None]
ResetCharts(h) == [h EXCEPT !.charts = NoCharts]
Reset(h) == ResetCharts(ResetHistory(h))
Forgotten(h) == [Reset(h) EXCEPT !.history.requested = FALSE]

Select(h, selection) ==
  IF selection = h.identity THEN h
  ELSE [ResetCharts(IF h.history.requested THEN h ELSE ResetHistory(h))
          EXCEPT !.identity = selection]

(* An older status says nothing about a newer page.  The host tells by its *)
(* own clock whether the deadline of the status has passed.                *)
QueryEvidence(h) ==
  IF h.status.revision = ledger.revision
    THEN [h.status.evidence EXCEPT !.elapsed = ledger.elapsed] ELSE h.status.evidence
Outdated(h) ==
  \/ h.revision = None \/ h.status.revision > h.revision
  \/ h.status.revision = h.revision /\ QueryEvidence(h) # h.issued

Queried(h) == LET s == Select(h, h.selection) IN IF Outdated(s) THEN Reset(s) ELSE s
Query(h) ==
  [selection |-> h.selection, chart |-> h.charts.action, allowance |-> h.history.action,
   history |-> IF h.history.requested THEN "requested" ELSE "deferred"]

Accept(h, a) ==
  [h EXCEPT !.page = a, !.fingerprint = [revision |-> a.view.revision, evidence |-> a.view.evidence],
            !.revision = a.view.revision, !.issued = a.view.evidence,
            !.charts = [nav |-> a.chart, action |-> [scope |-> a.chart, state |-> a.chart.state]],
            !.history.nav = a.history,
            !.history.action =
               IF h.history.requested /\ ~a.deferred
                 THEN [scope |-> a.history, state |-> a.history.state] ELSE None]

-----------------------------------------------------------------------------
(* refreshVisibleDashboard *)
Free == {s \in Slots : refresh[s].phase = "idle"}
Current(s) == host.open /\ host.latest = s

(* Starts a refresh once the host has become h. *)
Start(h, loading, loud, polled) ==
  LET s == CHOOSE s \in Free : TRUE
  IN /\ Free # {}
     /\ host' = [h EXCEPT !.latest = s, !.page = IF loading THEN Failure("loading") ELSE @]
     /\ refresh' = [refresh EXCEPT ![s] = [phase |-> "acquiring", loud |-> loud, polled |-> polled]]
     /\ UNCHANGED server

(* After acquire: the query, from the last status. *)
Send(s) ==
  /\ refresh[s].phase = "acquiring"
  /\ IF Current(s)
       THEN LET h == Queried(host)
            IN /\ host' = h
               /\ refresh' = [refresh EXCEPT ![s] =
                    [phase |-> "sent", loud |-> @.loud, polled |-> @.polled,
                     query |-> Query(h), asked |-> h.history.action, recovered |-> {}]]
       ELSE refresh' = [refresh EXCEPT ![s] = Idle] /\ UNCHANGED host
  /\ UNCHANGED server

(* The agent pins its snapshot and judges the commands. *)
Answered(s, answer) ==
  refresh' = [refresh EXCEPT ![s] =
    [phase |-> "answered", loud |-> @.loud, polled |-> @.polled, query |-> @.query,
     asked |-> @.asked, recovered |-> @.recovered, answer |-> answer]]

Pin(s) ==
  /\ refresh[s].phase = "sent"
  /\ LET snapshot == [ledger |-> ledger, rows |-> rows]
         verdict == Verdict(snapshot, refresh[s].query)
     IN IF verdict = "ok"
          THEN refresh' = [refresh EXCEPT ![s] =
                 [phase |-> "preparing", loud |-> @.loud, polled |-> @.polled, query |-> @.query,
                  asked |-> @.asked, recovered |-> @.recovered,
                  plan |-> Plan(snapshot, refresh[s].query)]]
          ELSE Answered(s, Failure(verdict))
  /\ UNCHANGED <<ledger, rows, host>>

Prepare(s) ==
  /\ refresh[s].phase = "preparing" /\ refresh[s].plan.todo # <<>>
  /\ LET plan == refresh[s].plan
     IN rows' = IF Head(plan.todo) = "base" THEN StoreBase(plan) ELSE StoreAllowance(plan)
  /\ refresh' = [refresh EXCEPT ![s].plan.todo = Tail(@)]
  /\ UNCHANGED <<ledger, host>>

Render(s) ==
  /\ refresh[s].phase = "preparing" /\ refresh[s].plan.todo = <<>>
  /\ LET plan == refresh[s].plan
     IN /\ rows' = IF plan.answer.code = "ok" THEN StoreCommands(plan) ELSE rows
        /\ Answered(s, plan.answer)
  /\ UNCHANGED <<ledger, host>>

(* DashboardNavigation.report and what its caller does with the outcome.    *)
(* Mutant: any answer is shown.                                             *)
MutShow(s) ==
  /\ refresh[s].phase = "answered" /\ refresh[s].answer.code = "ok"
  /\ host' = IF host.open THEN Accept(host, refresh[s].answer) ELSE host
  /\ refresh' = [refresh EXCEPT ![s] = Idle]
  /\ UNCHANGED server
Show(s) ==
  /\ refresh[s].phase = "answered" /\ refresh[s].answer.code = "ok"
  /\ host' = IF Current(s) THEN Accept(host, refresh[s].answer) ELSE host
  /\ refresh' = [refresh EXCEPT ![s] = Idle]
  /\ UNCHANGED server

Recoverable(s) ==
  LET code == refresh[s].answer.code
  IN /\ code \notin refresh[s].recovered
     /\ \/ code = "breakdown_scope_expired" /\ refresh[s].query.chart # None
        \/ code = "allowance_scope_expired" /\ refresh[s].query.allowance # None

(* Each domain may expire once.  Mutant: an expired chart takes the history *)
(* along.                                                                   *)
MutBare(q, code) == [q EXCEPT !.chart = None, !.allowance = None]
Bare(q, code) ==
  [q EXCEPT !.chart = None, !.allowance = IF code = "allowance_scope_expired" THEN None ELSE @]

Recover(s) ==
  /\ refresh[s].phase = "answered" /\ refresh[s].answer.code # "ok" /\ Recoverable(s)
  /\ LET code == refresh[s].answer.code
     IN /\ host' = IF code = "allowance_scope_expired" THEN Reset(host) ELSE ResetCharts(host)
        /\ refresh' = [refresh EXCEPT ![s] =
             [phase |-> "sent", loud |-> @.loud, polled |-> @.polled,
              query |-> Bare(@.query, code), asked |-> @.asked, recovered |-> @.recovered \cup {code}]]
  /\ UNCHANGED server

Fail(s) ==
  /\ refresh[s].phase = "answered" /\ refresh[s].answer.code # "ok" /\ ~Recoverable(s)
  /\ host' = IF Current(s) /\ refresh[s].loud THEN [host EXCEPT !.page = refresh[s].answer] ELSE host
  /\ refresh' = [refresh EXCEPT ![s] = Idle]
  /\ UNCHANGED server

-----------------------------------------------------------------------------
(* What starts a refresh. *)
User == host.clicks < MaxClicks
Clicked == [host EXCEPT !.clicks = @ + 1]

Open ==
  /\ User
  /\ Start(IF host.open THEN Clicked ELSE [Forgotten(Clicked) EXCEPT !.open = TRUE], TRUE, TRUE, FALSE)
Close ==
  /\ User /\ host.open
  /\ host' = [Clicked EXCEPT !.open = FALSE, !.page = Failure("closed"), !.fingerprint = None]
  /\ UNCHANGED <<ledger, rows, refresh>>
Reload == User /\ host.open /\ Start(Reset(Clicked), TRUE, TRUE, FALSE)
ChooseSelection ==
  /\ User /\ host.open
  /\ \E selection \in Selections \ {host.selection} :
       Start([Clicked EXCEPT !.selection = selection], TRUE, TRUE, FALSE)

(* A link of the page is a command only while its scope is the host's. *)
PageShown == host.open /\ host.page.code = "ok"
ClickChart ==
  /\ User /\ PageShown /\ host.charts.nav = host.page.chart
  /\ \E chart \in Charts :
       Start([Clicked EXCEPT !.charts.action = [scope |-> host.page.chart, state |-> chart]],
             FALSE, FALSE, FALSE)
ClickHistory ==
  /\ User /\ PageShown /\ host.history.nav = host.page.history
  /\ \E page \in IF host.page.deferred THEN {FirstHistory} ELSE Histories :
       Start([Clicked EXCEPT !.history.requested = TRUE,
                             !.history.action = [scope |-> host.page.history, state |-> page]],
             FALSE, TRUE, FALSE)

(* usageReportNeedsRefresh.  Mutant: only a new revision counts. *)
MutNeedsRefresh(status) ==
  host.fingerprint # None /\ host.fingerprint.revision # status.revision
NeedsRefresh(status) == host.fingerprint # None /\ host.fingerprint # status

(* refreshStatus, every 30 seconds.  The report that a poll has asked for   *)
(* is answered before the next poll.                                        *)
Poll ==
  /\ \A s \in Slots : refresh[s].phase # "idle" => ~refresh[s].polled
  /\ LET h == [host EXCEPT !.status = Status]
     IN IF host.open /\ NeedsRefresh(Status)
          THEN Start(h, FALSE, FALSE, TRUE)
          ELSE host' = h /\ UNCHANGED <<ledger, rows, refresh>>

-----------------------------------------------------------------------------
Init ==
  /\ ServerInit
  /\ host = [open |-> FALSE, page |-> Failure("closed"), fingerprint |-> None, status |-> Status,
             selection |-> CHOOSE x \in Selections : TRUE, identity |-> None, revision |-> None,
             issued |-> None, charts |-> NoCharts, history |-> NoHistory,
             latest |-> None, clicks |-> 0]
  /\ refresh = [s \in Slots |-> Idle]

Step(s) ==
  \/ Send(s) \/ Pin(s) \/ Prepare(s) \/ Render(s)
  \/ Show(s) \/ Recover(s) \/ Fail(s)

(* No refresh lasts as long as a receipt is kept. *)
LedgerMoves ==
  /\ Commit \/ Touch \/ Age \/ (Forget /\ Free = Slots)
  /\ UNCHANGED <<host, refresh>>

Next ==
  \/ \E s \in Slots : Step(s)
  \/ Open \/ Close \/ Reload \/ ChooseSelection \/ ClickChart \/ ClickHistory \/ Poll
  \/ LedgerMoves

Spec == Init /\ [][Next]_vars /\ WF_vars(Poll) /\ \A s \in Slots : WF_vars(Step(s))

-----------------------------------------------------------------------------
(* Properties. *)

(* The dashboard never goes back.  However refreshes overlap and whichever  *)
(* is answered first, a page is never replaced by one of an older revision  *)
(* (the serial number of refreshVisibleDashboard).                          *)
MovesForward ==
  host.revision # None => host'.revision >= host.revision
NeverGoesBack == [][MovesForward]_vars

Shows(s) == Show(s) /\ Current(s)

(* A command applies to what it was issued for.  A page that answers a      *)
(* chart command is of the revision, selection and evidence of the page     *)
(* whose link it was, and shows the state that was clicked                  *)
(* (render_breakdown_report, DashboardNavigation.report).                   *)
KeepsScope ==
  \A s \in Slots :
       Shows(s) /\ refresh[s].query.chart # None =>
         /\ host'.page.view = refresh[s].query.chart.scope.view
         /\ host'.page.chart.state = refresh[s].query.chart.state
CommandsKeepTheirScope == [][KeepsScope]_vars

(* A chart that expires does not take the history along.  The page of the   *)
(* history that a refresh asked for is the one shown, unless the account's  *)
(* evidence has moved (DashboardNavigation.report).                         *)
KeepsHistory ==
  \A s \in Slots :
       Shows(s) /\ refresh[s].asked # None /\
       HistoryContext(refresh[s].asked.scope.view) = HistoryContext(refresh[s].answer.view) =>
         host'.page.history.state = refresh[s].asked.state
HistorySurvives == [][KeepsHistory]_vars

-----------------------------------------------------------------------------
(* The invariant behind the three.  A view is before another one when the  *)
(* history shown with it is no longer that of the other.                    *)
Before(v, w) ==
  \/ v.revision < w.revision
  \/ v.revision = w.revision /\ v.evidence.probe = "fresh" /\ w.evidence.probe = "stale"
NotAfter(v, w) == Before(v, w) \/ HistoryContext(v) = HistoryContext(w)

Hosts ==
  [open : BOOLEAN, page : Answers \cup Failures,
   fingerprint : {None} \cup [revision : 0 .. MaxRevision, evidence : Evidences],
   status : [revision : 0 .. MaxRevision, evidence : Evidences],
   selection : Selections, identity : {None} \cup Selections,
   revision : {None} \cup 0 .. MaxRevision, issued : {None} \cup Evidences,
   charts : [nav : {None} \cup ChartScopes, action : {None} \cup ChartCommands],
   history : [nav : {None} \cup HistoryScopes, action : {None} \cup HistoryCommands,
              requested : BOOLEAN],
   latest : {None} \cup Slots, clicks : Nat]
Acquiring == [phase : {"acquiring"}, loud : BOOLEAN, polled : BOOLEAN]
Sent == [phase : {"sent"}, loud : BOOLEAN, polled : BOOLEAN, query : Queries,
         asked : {None} \cup HistoryCommands, recovered : SUBSET Codes]
Preparing == [phase : {"preparing"}, loud : BOOLEAN, polled : BOOLEAN, query : Queries,
              asked : {None} \cup HistoryCommands, recovered : SUBSET Codes, plan : Plans]
Judged == [phase : {"answered"}, loud : BOOLEAN, polled : BOOLEAN, query : Queries,
           asked : {None} \cup HistoryCommands, recovered : SUBSET Codes,
           answer : Answers \cup Failures]

TypeOK ==
  /\ ledger \in Ledgers
  /\ host \in Hosts
  /\ refresh \in [Slots -> {Idle} \cup Acquiring \cup Sent \cup Preparing \cup Judged]

(* A chart's command is kept for the view in which it was issued.           *)
RowsKeepTheirView == \A row \in rows : row.kind = "nav" => row.scope.view = row.view

(* The host knows nothing that the ledger has not been.                     *)
IsPast(h) ==
  /\ h.revision # None => h.revision <= ledger.revision
  /\ h.page.code = "ok" => NotAfter(h.page.history.view, Status)
  /\ h.history.action # None =>
       h.history.requested /\ NotAfter(h.history.action.scope.view, Status)

(* A refresh still carries the history it was asked for, or that page's     *)
(* account has moved since.                                                 *)
Carries(r) ==
  r.asked # None =>
    /\ r.query.history = "requested" /\ NotAfter(r.asked.scope.view, Status)
    /\ r.query.allowance = r.asked \/ Before(r.asked.scope.view, Status)

(* What answers a refresh is what it asked for, and no older than the page  *)
(* it will replace.                                                         *)
AnswersTo(s, a) ==
  /\ NotAfter(a.view, Status) /\ a.chart.view = a.view /\ a.history.view = a.view
  /\ refresh[s].query.chart # None =>
       a.view = refresh[s].query.chart.scope.view /\ a.chart.state = refresh[s].query.chart.state
  /\ refresh[s].asked # None /\
     HistoryContext(refresh[s].asked.scope.view) = HistoryContext(a.view) =>
       a.history.state = refresh[s].asked.state
  /\ host.latest = s /\ host.revision # None => a.view.revision >= host.revision

KeepsWhatWasAsked(s) ==
  /\ refresh[s].phase \in {"sent", "preparing", "answered"} => Carries(refresh[s])
  /\ refresh[s].phase = "preparing" /\ refresh[s].plan.answer.code = "ok" =>
       AnswersTo(s, refresh[s].plan.answer) /\ refresh[s].plan.answer.view = refresh[s].plan.view
  /\ refresh[s].phase = "answered" /\ refresh[s].answer.code = "ok" =>
       AnswersTo(s, refresh[s].answer)
  /\ refresh[s].phase = "answered" /\ refresh[s].answer.code = "allowance_scope_expired" /\
     refresh[s].asked # None =>
       Before(refresh[s].asked.scope.view, Status)

DashboardInv ==
  TypeOK /\ RowsKeepTheirView /\ IsPast(host) /\ \A s \in Slots : KeepsWhatWasAsked(s)

-----------------------------------------------------------------------------
(* The dashboard catches up.  Once the ledger rests, a page of its last     *)
(* revision and evidence is rendered in every dashboard that has shown one  *)
(* (refreshStatus, usageReportNeedsRefresh).                                *)
DashboardCatchesUp ==
  <>[](host.open /\ host.fingerprint # None =>
         host.revision = ledger.revision /\ host.issued = Evidence(ledger))

(* What the server issued it never refuses (docs/adr/0054, 99-101).         *)
IssuedIsNeverRefused ==
  [][\A s \in Slots : Pin(s) /\ refresh'[s].phase = "answered" => refresh'[s].answer.code # "refused"]_vars

(* Reload needs no receipt (docs/adr/0054, 113-114).                        *)
Reloads ==
  \A s \in Slots : Render(s) /\ refresh[s].query.chart = None /\ refresh[s].query.allowance = None
       => refresh'[s].answer.code = "ok"
ReloadWorks == [][Reloads]_vars

=============================================================================
