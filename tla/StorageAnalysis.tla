--------------------------- MODULE StorageAnalysis ---------------------------
(***************************************************************************)
(* What the storage view says of a task tree.  A snapshot lists the files,  *)
(* refreshes the cached row of each that changed and joins the findings     *)
(* kept for its path.  An analysis does the same, then scans the tree's     *)
(* files for compacted rows, from where the last findings end when the file *)
(* is guarded to be the same, and keeps all of its findings or none.        *)
(* Snapshots are taken by HTTP threads beside the analysis on the lane.     *)
(*                                                                          *)
(* A row is two units long and a row without its newline one.  A digest     *)
(* names the writing of the file it was taken from: a rewrite changes the   *)
(* first bytes.  Rows do not change in place while an analysis runs; the    *)
(* code compares size and inode after a scan, not the time of the last      *)
(* write.                                                                   *)
(***************************************************************************)
EXTENDS Naturals, Sequences, FiniteSets

CONSTANTS
    Paths,        \* where a file of the tree may lie
    Active,       \* the paths in sessions/, the others are archives
    TaskAt,       \* TaskAt[p]: the task whose rollout p can hold
    Kinds,        \* the rows: "plain", "compacted", and "odd" ones without a type
    NoFile, NoFindings,
    MaxRows,      \* bound: rows of a file
    MaxWrites     \* bound: changes of the directories

VARIABLES
    disk,         \* disk[p]: the file there
    writes,       \* changes so far, the clock of mtime_ns and of inodes
    files,        \* storage_files: files[p], the cached row
    findings,     \* storage_content_diagnostics
    listed,       \* listed[u]: the inventory user u took
    phase,        \* phase[u] of the snapshot or of the analysis
    selected,     \* expected_membership of the analysis
    requests,     \* its requests, by path
    results,      \* findings of the files scanned so far
    cancelled,    \* a cancellation was asked for
    outcome       \* what the operation last told

vars == <<disk, writes, files, findings, listed, phase, selected, requests, results,
          cancelled, outcome>>

Users == {"viewer", "analysis"}
NoRow == [known |-> FALSE]

-----------------------------------------------------------------------------
Size(f) == 2 * Len(f.rows) + (IF f.torn THEN 1 ELSE 0)
Count(rows, kind) == Cardinality({i \in DOMAIN rows : rows[i] = kind})

\* observe_storage_row over the first n rows.
Metrics(rows, n) ==
    [compacted |-> Count(SubSeq(rows, 1, n), "compacted"),
     unclassified |-> Count(SubSeq(rows, 1, n), "odd")]
Plus(a, b) ==
    [compacted |-> a.compacted + b.compacted, unclassified |-> a.unclassified + b.unclassified]

Guard(f, offset) == IF offset = 0 THEN 0 ELSE f.written

\* The inventory: what stat says of every file.
Stat(f) == [size |-> Size(f), at |-> f.at, inode |-> f.inode]
Inventory == [p \in {q \in Paths : disk[q] # NoFile} |-> Stat(disk[p])]

\* _storage_file_is_reusable; the metadata read is of the file that is there now.
Reusable(row, entry) ==
    row.known /\ ~row.missing /\ row.size = entry.size /\ row.at = entry.at

Refreshed(inv) ==
    [p \in Paths |->
        IF p \in DOMAIN inv
        THEN IF Reusable(files[p], inv[p]) THEN files[p]
             ELSE [known |-> TRUE, missing |-> FALSE, size |-> inv[p].size, at |-> inv[p].at]
        ELSE IF files[p].known THEN [files[p] EXCEPT !.missing = TRUE] ELSE files[p]]

\* Findings of a file that is gone are deleted with it.
KeptFindings(inv) ==
    [p \in Paths |->
        IF files[p].known /\ ~files[p].missing /\ p \notin DOMAIN inv
        THEN NoFindings ELSE findings[p]]

Present(rows) == {p \in Paths : rows[p].known /\ ~rows[p].missing}

\* One file of summarize_storage_content's "complete".
Covers(f, size, at) ==
    f # NoFindings /\ f.offset = size /\ f.at = at /\ f.metrics.unclassified = 0

-----------------------------------------------------------------------------
Init ==
    /\ disk \in [Paths -> {NoFile} \cup {[rows |-> <<k>>, torn |-> FALSE, at |-> 0, inode |-> 0,
                                         written |-> 0] : k \in Kinds}]
    /\ \A p, q \in Paths : p # q => disk[p] = NoFile \/ disk[q] = NoFile \/ TaskAt[p] # TaskAt[q]
    /\ writes = 0
    /\ files = [p \in Paths |-> NoRow]
    /\ findings = [p \in Paths |-> NoFindings]
    /\ listed = [u \in Users |-> <<>>]
    /\ phase = [u \in Users |-> "idle"]
    /\ selected = {} /\ requests = <<>> /\ results = <<>>
    /\ cancelled = FALSE /\ outcome = "none"

Written(p, f) ==
    /\ writes < MaxWrites
    /\ writes' = writes + 1
    /\ disk' = [disk EXCEPT ![p] = f]
    /\ UNCHANGED <<files, findings, listed, phase, selected, requests, results,
                   cancelled, outcome>>

\* Codex appends a row, or a part of one that a later append completes.
AppendRow(p, kind, torn) ==
    /\ disk[p] # NoFile
    /\ Len(disk[p].rows) < MaxRows
    /\ Written(p, [disk[p] EXCEPT !.rows = Append(@, kind), !.torn = torn, !.at = writes + 1])

\* A file appears, or another takes its place under the same name.
Replace(p, rows) ==
    Written(p, [rows |-> rows, torn |-> FALSE, at |-> writes + 1, inode |-> writes + 1,
                written |-> writes + 1])

\* The same file is written anew.
Rewrite(p, rows) ==
    /\ disk[p] # NoFile
    /\ phase["analysis"] = "idle"
    /\ Written(p, [disk[p] EXCEPT !.rows = rows, !.torn = FALSE, !.at = writes + 1,
                                  !.written = writes + 1])

Delete(p) == disk[p] # NoFile /\ Written(p, NoFile)

\* Codex archives a task or restores it: the file keeps its inode and its time.
Move(p, q) ==
    /\ disk[p] # NoFile /\ disk[q] = NoFile /\ TaskAt[p] = TaskAt[q] /\ p # q
    /\ writes < MaxWrites
    /\ writes' = writes + 1
    /\ disk' = [disk EXCEPT ![p] = NoFile, ![q] = disk[p]]
    /\ UNCHANGED <<files, findings, listed, phase, selected, requests, results,
                   cancelled, outcome>>

-----------------------------------------------------------------------------
(* load_storage_context: the listing, then the refresh in one transaction.  *)

List(u) ==
    /\ phase[u] = "idle"
    /\ phase' = [phase EXCEPT ![u] = "listed"]
    /\ listed' = [listed EXCEPT ![u] = Inventory]
    /\ IF u = "analysis"
       THEN /\ selected' = Present(files)      \* what the user saw and chose
            /\ cancelled' = FALSE /\ outcome' = "running"
       ELSE UNCHANGED <<selected, cancelled, outcome>>
    /\ UNCHANGED <<disk, writes, files, findings, requests, results>>

RefreshRows(u) ==
    /\ phase[u] = "listed"
    /\ files' = Refreshed(listed[u])
    /\ findings' = KeptFindings(listed[u])
    /\ phase' = [phase EXCEPT ![u] = IF u = "viewer" THEN "idle" ELSE "refreshed"]
    /\ listed' = IF u = "viewer" THEN [listed EXCEPT ![u] = <<>>] ELSE listed
    /\ UNCHANGED <<disk, writes, selected, requests, results, cancelled, outcome>>

\* The rows are loaded after the commit: a snapshot may have come between.
\* Another membership than the selected one, or a row that was not listed,
\* ends the analysis before it reads any content.
Ends(state) ==
    /\ phase' = [phase EXCEPT !["analysis"] = "idle"]
    /\ outcome' = state
    /\ listed' = [listed EXCEPT !["analysis"] = <<>>]
    /\ selected' = {} /\ requests' = <<>> /\ results' = <<>>

Plan ==
    /\ phase["analysis"] = "refreshed"
    /\ LET inv == listed["analysis"]
           tree == Present(files)
       IN IF tree = {} \/ tree # selected \/ ~(tree \subseteq DOMAIN inv)
          THEN Ends("failed")
          ELSE /\ phase' = [phase EXCEPT !["analysis"] = "scan"]
               /\ requests' = [p \in tree |-> [stat |-> inv[p], existing |-> findings[p]]]
               /\ UNCHANGED <<outcome, results, selected, listed>>
    /\ UNCHANGED <<disk, writes, files, findings, cancelled>>

\* The findings are of this very writing of the file.
Unchanged(r) ==
    /\ r.existing # NoFindings
    /\ r.existing.offset = r.stat.size
    /\ r.existing.inode = r.stat.inode
    /\ r.existing.at = r.stat.at

CanAttemptAppend(p, r) ==
    /\ r.existing # NoFindings
    /\ p \in Active
    /\ r.stat.size > r.existing.offset
    /\ r.existing.inode = r.stat.inode

\* Only the size is compared.
MutGuardHolds(f, existing) == TRUE

\* _verify_guard: else the whole file is scanned.
GuardHolds(f, existing) == Guard(f, existing.offset) = existing.guard

Found(p, r) ==
    LET f == disk[p]
        n == (IF r.stat.size < Size(f) THEN r.stat.size ELSE Size(f)) \div 2
        whole == IF 2 * n > 2 * Len(f.rows) THEN Len(f.rows) ELSE n
        metrics == IF CanAttemptAppend(p, r) /\ GuardHolds(f, r.existing)
                   THEN Plus(r.existing.metrics,
                             Metrics(SubSeq(f.rows, r.existing.offset \div 2 + 1, whole),
                                     whole - r.existing.offset \div 2))
                   ELSE Metrics(f.rows, whole)
    IN [offset |-> 2 * whole, inode |-> r.stat.inode, at |-> r.stat.at,
        guard |-> Guard(f, 2 * whole), metrics |-> metrics]

\* The file shrank or is another one: the analysis fails after three attempts.
Scannable(p, r) ==
    /\ disk[p] # NoFile
    /\ disk[p].inode = r.stat.inode
    /\ Size(disk[p]) >= r.stat.size

Scan(p) ==
    /\ phase["analysis"] = "scan"
    /\ p \in DOMAIN requests \ DOMAIN results
    /\ LET r == requests[p]
           keep(f) == /\ results' = [q \in DOMAIN results \cup {p} |->
                                       IF q = p THEN f ELSE results[q]]
                      /\ UNCHANGED <<phase, outcome, requests, listed, selected>>
       IN CASE cancelled -> Ends("cancelled")
            [] ~cancelled /\ Unchanged(r) -> keep(r.existing)
            [] ~cancelled /\ ~Unchanged(r) /\ Scannable(p, r) -> keep(Found(p, r))
            [] OTHER -> Ends("failed")
    /\ UNCHANGED <<disk, writes, files, findings, cancelled>>

\* What was found before the cancellation is kept.
MutPublish ==
    /\ phase["analysis"] = "scan"
    /\ DOMAIN requests = DOMAIN results
    /\ findings' = [p \in Paths |-> IF p \in DOMAIN results THEN results[p] ELSE findings[p]]
    /\ Ends(IF cancelled THEN "cancelled" ELSE "completed")
    /\ UNCHANGED <<disk, writes, files, cancelled>>

\* The findings of the tree are kept together.
Publish ==
    /\ phase["analysis"] = "scan"
    /\ DOMAIN requests = DOMAIN results
    /\ IF cancelled THEN UNCHANGED findings
       ELSE findings' = [p \in Paths |-> IF p \in DOMAIN results THEN results[p] ELSE findings[p]]
    /\ Ends(IF cancelled THEN "cancelled" ELSE "completed")
    /\ UNCHANGED <<disk, writes, files, cancelled>>

Cancel ==
    /\ phase["analysis"] # "idle" /\ ~cancelled
    /\ cancelled' = TRUE
    /\ UNCHANGED <<disk, writes, files, findings, listed, phase, selected, requests,
                   results, outcome>>

Next ==
    \/ \E p \in Paths, k \in Kinds, t \in BOOLEAN : AppendRow(p, k, t)
    \/ \E p \in Paths, k \in Kinds : Replace(p, <<k>>)
    \/ \E p \in Paths, k \in Kinds : Rewrite(p, <<k>>)
    \/ \E p \in Paths : Delete(p)
    \/ \E p, q \in Paths : Move(p, q)
    \/ \E u \in Users : List(u) \/ RefreshRows(u)
    \/ Plan
    \/ \E p \in Paths : Scan(p)
    \/ Publish
    \/ Cancel

Spec == Init /\ [][Next]_vars

-----------------------------------------------------------------------------
\* A file the view shows completely analysed has exactly the compacted rows the
\* view tells, unless it was written since it was listed: whatever snapshots,
\* archiving, replacements, torn rows and failed analyses came before.
CompleteIsExact ==
    \A p \in Present(files) :
        (/\ disk[p] # NoFile /\ disk[p].at = files[p].at
         /\ Covers(findings[p], files[p].size, files[p].at)) =>
            findings[p].metrics = Metrics(disk[p].rows, Len(disk[p].rows))

\* An analysis that is cancelled or fails leaves the findings as they are, and
\* one that completes replaces those of the tree that was selected, all of them.
StoresAllOrNothing ==
  outcome' # outcome =>
        CASE outcome' = "completed" ->
               selected = DOMAIN results /\ \A p \in selected : findings'[p] = results[p]
          [] OTHER -> findings' = findings
AllOrNothing == [][StoresAllOrNothing]_vars

-----------------------------------------------------------------------------
\* What these rest on.  A file may move among the paths of its task; an id or a
\* time that was recorded at one of them is the file's wherever it is now.
Kin(p) == {q \in Paths : disk[q] # NoFile /\ TaskAt[q] = TaskAt[p]}

FilesDiffer ==
    \A p \in Paths : disk[p] # NoFile =>
        /\ disk[p].at <= writes /\ disk[p].inode <= writes /\ disk[p].written <= writes
        /\ \A q \in Kin(p) \ {p} :
             /\ disk[p].at # disk[q].at /\ disk[p].inode # disk[q].inode
             /\ disk[p].written # disk[q].written

\* A size that was recorded with a time is that of the file with this time.
SizeHolds(p, row) ==
    row.at <= writes /\ \A q \in Kin(p) : disk[q].at = row.at => Size(disk[q]) = row.size

StatHolds(p, stat) ==
    SizeHolds(p, stat) /\ \A q \in Kin(p) : disk[q].at = stat.at => disk[q].inode = stat.inode

\* Findings count the first rows of the writing they guard, and their time is
\* not the time of another writing.
FindingsHold(p, f) ==
    /\ f.at <= writes /\ f.guard <= writes
    /\ f.offset = 2 * (f.offset \div 2)
    /\ f.offset = 0 => f.metrics = Metrics(<<>>, 0)
    /\ f.offset # 0 => \A q \in Kin(p) :
         /\ disk[q].written = f.guard =>
              f.offset <= 2 * Len(disk[q].rows) /\ f.metrics = Metrics(disk[q].rows, f.offset \div 2)
         /\ disk[q].at = f.at => disk[q].written = f.guard

KeptRecordsHold ==
    \A p \in Paths :
        /\ files[p].known => SizeHolds(p, files[p])
        /\ findings[p] # NoFindings => FindingsHold(p, findings[p])

AnalysisHolds ==
    /\ \A u \in Users : \A p \in DOMAIN listed[u] : StatHolds(p, listed[u][p])
    /\ \A p \in DOMAIN requests :
         /\ StatHolds(p, requests[p].stat)
         /\ requests[p].existing # NoFindings => FindingsHold(p, requests[p].existing)
    /\ \A p \in DOMAIN results : FindingsHold(p, results[p])

TreeIsSelected ==
    IF phase["analysis"] = "scan"
    THEN DOMAIN requests = selected /\ DOMAIN results \subseteq selected
    ELSE DOMAIN results = {}

Files == [rows : Seq(Kinds \cup {"compacted"}), torn : BOOLEAN, at : Nat, inode : Nat,
          written : Nat]
Rows == [known : {TRUE}, missing : BOOLEAN, size : Nat, at : Nat]
Stats == [size : Nat, at : Nat, inode : Nat]
Findings ==
    [offset : Nat, inode : Nat, at : Nat, guard : Nat,
     metrics : [compacted : Nat, unclassified : Nat]]

TypeOK ==
    /\ writes \in Nat
    /\ disk \in [Paths -> {NoFile} \cup Files]
    /\ files \in [Paths -> {NoRow} \cup Rows]
    /\ findings \in [Paths -> {NoFindings} \cup Findings]
    /\ phase \in [Users -> {"idle", "listed", "refreshed", "scan"}]
    /\ selected \subseteq Paths
    /\ DOMAIN listed = Users
    /\ \A u \in Users : DOMAIN listed[u] \subseteq Paths /\ \A p \in DOMAIN listed[u] : listed[u][p] \in Stats
    /\ DOMAIN requests \subseteq Paths
    /\ \A p \in DOMAIN requests :
         requests[p].stat \in Stats /\ requests[p].existing \in {NoFindings} \cup Findings
    /\ \A p \in DOMAIN results : results[p] \in Findings
    /\ cancelled \in BOOLEAN

StorageInv ==
    TypeOK /\ FilesDiffer /\ KeptRecordsHold /\ AnalysisHolds /\ TreeIsSelected
=============================================================================
