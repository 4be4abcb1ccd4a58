--------------------------- MODULE ReportServer ---------------------------
(***************************************************************************)
(* The agent's answers to GET /v1/report.  A report is prepared from a     *)
(* pinned snapshot of the ledger, in several transactions: the allowance   *)
(* report, the base page and, at the end, everything that chart and        *)
(* history commands need later.  A command names the scope in which it was *)
(* issued; the server keeps a receipt of each scope to tell an expired     *)
(* command (409) from one it never issued (400).                           *)
(*                                                                         *)
(* What a report shows is its view: the revision of the ledger, the        *)
(* selection (range, projects) and the evidence, which also ages with the  *)
(* clock.  The fences of the transactions compare the revision, or the     *)
(* token that every write of a collector moves.                            *)
(***************************************************************************)
EXTENDS Integers, FiniteSets, Sequences, TLC

CONSTANTS Selections,   \* ranges and projects the user may choose
          Charts,       \* states of the breakdown chart
          Histories,    \* pages of the allowance history
          MaxRevision, MaxMoves, MaxForgets,  \* bounds on what moves the ledger
          None

VARIABLES ledger,  \* revision, token, and the evidence of the live meter
          rows     \* rows of rendered_reports and allowance_report_cache

server == <<ledger, rows>>

FirstChart == CHOOSE c \in Charts : TRUE
FirstHistory == CHOOSE h \in Histories : TRUE

Evidence(l) == [probe |-> l.probe, elapsed |-> l.elapsed]
View(s, q) == [revision |-> s.ledger.revision, selection |-> q.selection,
               evidence |-> Evidence(s.ledger)]

(* What the account's breakdown rests on, and what a history page does. *)
Account(view) == <<view.revision, view.evidence>>
HistoryContext(view) == <<view.revision, view.evidence.probe>>

-----------------------------------------------------------------------------
(* The ledger moves. *)
Moved(l) == ledger.moves < MaxMoves /\ ledger' = [l EXCEPT !.moves = @ + 1]

Commit ==
  /\ ledger.revision < MaxRevision
  /\ \E probe \in {"fresh", ledger.probe}, elapsed \in {FALSE, ledger.elapsed} :
       Moved([ledger EXCEPT !.revision = @ + 1, !.token = 0, !.probe = probe, !.elapsed = elapsed])
  /\ UNCHANGED rows

(* A synchronisation without news stamps last_seen_at. *)
Touch == Moved([ledger EXCEPT !.token = @ + 1]) /\ UNCHANGED rows

(* The probe ages, or the captured weekly deadline passes. *)
Age ==
  /\ \/ ledger.probe = "fresh" /\ Moved([ledger EXCEPT !.probe = "stale"])
     \/ ~ledger.elapsed /\ Moved([ledger EXCEPT !.elapsed = TRUE])
  /\ UNCHANGED rows

(* Receipts are forgotten after 24 hours (prune_receipts). *)
Forget ==
  /\ ledger.forgets < MaxForgets
  /\ Moved([ledger EXCEPT !.forgets = @ + 1])
  /\ rows' = {row \in rows : row.kind \notin {"issued", "issuedHistory"}}

-----------------------------------------------------------------------------
(* Rows. *)
BaseRow(view, mode) == [kind |-> "base", view |-> view, mode |-> mode]
FragmentRow(view, mode) == [kind |-> "fragment", account |-> Account(view), mode |-> mode]
PaceRow(view) == [kind |-> "pace", revision |-> view.revision]
AllowanceRow(view, mode) == [kind |-> "allowance", revision |-> view.revision, mode |-> mode]
MetadataRow(view) == [kind |-> "metadata", view |-> view]
AccountRow(view) == [kind |-> "account", account |-> Account(view)]
NavRow(view, scope) == [kind |-> "nav", view |-> view, scope |-> scope]
IssuedRow(scope) == [kind |-> "issued", scope |-> scope]
PageRow(scope) == [kind |-> "page", scope |-> scope]
IssuedHistoryRow(scope) == [kind |-> "issuedHistory", scope |-> scope]

ChartScope(view, chart) == [view |-> view, state |-> chart]
HistoryScope(view, page) == [view |-> view, state |-> page]
Invitation(view) == [view |-> view, state |-> "invitation"]

(* A row that does not outlive the revision it was made for. *)
RevisionOf(row) ==
  CASE row.kind \in {"base", "metadata", "nav"} -> row.view.revision
    [] row.kind \in {"fragment", "account"} -> row.account[1]
    [] row.kind \in {"pace", "allowance"} -> row.revision
    [] row.kind \in {"page"} -> row.scope.view.revision
    [] OTHER -> MaxRevision

-----------------------------------------------------------------------------
(* Preparing an answer to query q from the snapshot s. *)
Deferred(q) == q.history = "deferred" /\ q.allowance = None
Mode(q) == IF Deferred(q) THEN "deferred" ELSE "eager"
ModesFor(q) == IF Deferred(q) THEN {"deferred", "eager"} ELSE {"eager"}

BaseHit(s, q) == \E m \in ModesFor(q) : BaseRow(View(s, q), m) \in s.rows
FragmentHit(s, q) == \E m \in ModesFor(q) : FragmentRow(View(s, q), m) \in s.rows

(* _render_base_ledger_report holds the allowance report, read or computed. *)
ReportInHand(s, q) ==
  PaceRow(View(s, q)) \notin s.rows \/ (~BaseHit(s, q) /\ ~FragmentHit(s, q))

(* render_breakdown_report needs it for the account's breakdown. *)
AccountNeedsReport(s, q) ==
  {MetadataRow(View(s, q)), AccountRow(View(s, q))} \cap s.rows = {}

Computes(s, q) ==
  /\ ReportInHand(s, q) \/ AccountNeedsReport(s, q)
  /\ AllowanceRow(View(s, q), Mode(q)) \notin s.rows

(* render_history: the page, the report in hand, or the stored report. *)
ShownHistory(q) == IF q.allowance = None THEN FirstHistory ELSE q.allowance.state
HistoryAvailable(s, q) ==
  \/ Deferred(q)
  \/ PageRow(HistoryScope(View(s, q), ShownHistory(q))) \in s.rows
  \/ ReportInHand(s, q)
  \/ AllowanceRow(View(s, q), "eager") \in s.rows

(* issued_state, issued_action, and the scope a command needs.  Mutant: any *)
(* prepared view will do.                                                   *)
IssuedChart(s, action) == IssuedRow(action.scope) \in s.rows
IssuedHistory(s, action) == IssuedHistoryRow(action.scope) \in s.rows
MutChartInScope(s, q) == MetadataRow(View(s, q)) \in s.rows
ChartInScope(s, q) ==
  /\ MetadataRow(View(s, q)) \in s.rows
  /\ NavRow(View(s, q), q.chart.scope) \in s.rows
HistoryInScope(s, q) ==
  \/ q.allowance.scope.view = View(s, q)
  \/ q.history = "requested" /\ HistoryContext(q.allowance.scope.view) = HistoryContext(View(s, q))

Verdict(s, q) ==
  IF q.allowance # None /\ ~IssuedHistory(s, q.allowance) THEN "refused"
  ELSE IF q.allowance # None /\ ~HistoryInScope(s, q) THEN "allowance_scope_expired"
  ELSE IF q.chart # None /\ ~IssuedChart(s, q.chart) THEN "refused"
  ELSE IF q.chart # None /\ ~ChartInScope(s, q) THEN "breakdown_scope_expired"
  ELSE "ok"

Chart(q) == IF q.chart = None THEN FirstChart ELSE q.chart.state
HistoryNav(s, q) ==
  IF Deferred(q) THEN Invitation(View(s, q)) ELSE HistoryScope(View(s, q), ShownHistory(q))

Answer(s, q) ==
  [code |-> "ok", view |-> View(s, q), chart |-> ChartScope(View(s, q), Chart(q)),
   history |-> HistoryNav(s, q), deferred |-> Deferred(q)]
Failure(code) == [code |-> code]

(* What the snapshot makes necessary: the transactions that have something *)
(* to store, in their order, and the answer.                               *)
Transactions(s, q) ==
  (IF ReportInHand(s, q) /\ Computes(s, q) THEN <<"allowance">> ELSE <<>>)
    \o (IF BaseHit(s, q) THEN <<>> ELSE <<"base">>)
    \o (IF ~ReportInHand(s, q) /\ Computes(s, q) THEN <<"account">> ELSE <<>>)
Plan(s, q) ==
  [view |-> View(s, q), token |-> s.ledger.token, mode |-> Mode(q), todo |-> Transactions(s, q),
   fragment |-> ~FragmentHit(s, q),
   answer |-> IF HistoryAvailable(s, q) THEN Answer(s, q) ELSE Failure("unavailable")]

(* The transactions; each leaves the rows alone when its fence fails. *)
SameRevision(p) == ledger.revision = p.view.revision
SameToken(p) == SameRevision(p) /\ ledger.token = p.token

StoreAllowance(p) ==
  IF SameToken(p)
    THEN {row \in rows : row.kind \in {"pace", "allowance"} => RevisionOf(row) = ledger.revision}
           \cup {AllowanceRow(p.view, p.mode), PaceRow(p.view)}
    ELSE rows

StoreBase(p) ==
  IF SameRevision(p)
    THEN {row \in rows : row.kind \in {"pace", "allowance"} \/ RevisionOf(row) >= ledger.revision}
           \cup {BaseRow(p.view, p.mode)}
           \cup (IF p.fragment THEN {FragmentRow(p.view, p.mode)} ELSE {})
    ELSE rows

(* store, of render_breakdown_report *)
StoreCommands(p) ==
  IF ~SameToken(p) THEN rows
  ELSE rows \cup {MetadataRow(p.view), AccountRow(p.view), NavRow(p.view, p.answer.chart),
                  IssuedRow(p.answer.chart), IssuedHistoryRow(p.answer.history)}
            \cup (IF p.answer.deferred THEN {} ELSE {PageRow(p.answer.history)})

-----------------------------------------------------------------------------
(* What rows and messages are made of. *)
Codes == {"closed", "loading", "refused", "unavailable",
          "allowance_scope_expired", "breakdown_scope_expired"}
Evidences == [probe : {"fresh", "stale"}, elapsed : BOOLEAN]
Views == [revision : 0 .. MaxRevision, selection : Selections, evidence : Evidences]
ChartScopes == [view : Views, state : Charts]
HistoryScopes == [view : Views, state : Histories \cup {"invitation"}]
ChartCommands == [scope : ChartScopes, state : Charts]
HistoryCommands == [scope : HistoryScopes, state : Histories \cup {"invitation"}]
Queries == [selection : Selections, chart : {None} \cup ChartCommands,
            allowance : {None} \cup HistoryCommands, history : {"requested", "deferred"}]
Answers == [code : {"ok"}, view : Views, chart : ChartScopes, history : HistoryScopes,
            deferred : BOOLEAN]
Failures == [code : Codes]
Plans == [view : Views, token : Nat, mode : {"deferred", "eager"},
          todo : Seq({"allowance", "base", "account"}), fragment : BOOLEAN,
          answer : Answers \cup [code : {"unavailable"}]]
Ledgers == [revision : 0 .. MaxRevision, token : Nat, probe : {"fresh", "stale"},
            elapsed : BOOLEAN, moves : Nat, forgets : Nat]

FirstLedger ==
  [revision |-> 0, token |-> 0, probe |-> "fresh", elapsed |-> FALSE, moves |-> 0, forgets |-> 0]
ServerInit == ledger = FirstLedger /\ rows = {}

=============================================================================
