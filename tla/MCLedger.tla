------------------------------ MODULE MCLedger ------------------------------
(* The rebuild queue, with a thread that runs a callback late, and         *)
(* instances of the other modules about the ledger, the parser cache and   *)
(* the work that fills them.  A behaviour is one of the module that part   *)
(* names; the others stand still, with no state.                           *)
EXTENDS RebuildQueue, TLC

CONSTANTS
  Parts,
  Openers, Collectors, ProcessOf, MaxCommits,                     \* of LedgerUpgrade
  TaskKeys, CachePaths, KnownHistories, MaxClientWrites, MaxMigrations,  \* of LegacyMigration
  MaxPath, DirectoryOf, SessionKey, MaxCopySize, MaxCopyChanges, MaxBroken, QuietRefreshes,
                                                                  \* of SourceOwnership
  Captured, Inheriting, FamilyOf, Claiming, NamedClaimants, SlotOf, HeaderWidth, CopiedWidth,
  RefreshBytes, RefreshFiles, MaxFileChanges,                     \* of UpgradeDiscovery
  FilePaths, ActivePaths, TaskAt, RowKinds, AnalysedAt, MaxRows, MaxDiskWrites, \* of StorageAnalysis
  Budgets, Strict                                                 \* of AppendParsing

VARIABLES part,
  version, guarded, committed, tally, backups, homeLock, maintenance, refreshLock, admitted, thread,
  cache, imported, transitions, completed, run, writes, runs,
  copies, filed, deferred, refresh, calm, copyChanges, broken,
  sources, weak, decided, receipt, wait, errors, claim, passed, changes, refreshed,
  disk, diskWrites, files, findings, inventory, phase, selected, requests, scanned, cancelled, verdict,
  origin, rollout, usage, consumed, dirty, stored, events, mirrored, stage, rebased, crashes, early,
  forgotten, moved,
  file, size, reader

ofUpgrade == <<version, guarded, committed, tally, backups, homeLock, maintenance, refreshLock,
               admitted, thread>>
ofMigration == <<cache, imported, transitions, completed, run, writes, runs>>
ofOwnership == <<copies, filed, deferred, refresh, calm, copyChanges, broken>>
ofDiscovery == <<sources, weak, decided, receipt, wait, errors, claim, passed, changes, refreshed>>
ofStorage == <<disk, diskWrites, files, findings, inventory, phase, selected, requests, scanned,
               cancelled, verdict>>
ofAttribution == <<origin, rollout, usage, consumed, dirty, stored, events, mirrored, stage,
                   rebased, crashes, early, forgotten, moved>>
ofParsing == <<file, size, reader>>
ofRebuild == vars
ofTheRest == <<ofStorage, ofAttribution, ofParsing, ofRebuild>>
allVars == <<part, ofUpgrade, ofMigration, ofOwnership, ofDiscovery, ofTheRest>>

NoUpgrade ==
  /\ version = 0 /\ guarded = 0 /\ committed = 0 /\ tally = 0 /\ backups = 0 /\ homeLock = 0
  /\ maintenance = 0 /\ refreshLock = 0 /\ admitted = 0 /\ thread = 0
NoMigration ==
  /\ cache = 0 /\ imported = 0 /\ transitions = 0 /\ completed = 0 /\ run = 0 /\ writes = 0
  /\ runs = 0
NoOwnership ==
  /\ copies = 0 /\ filed = 0 /\ deferred = 0 /\ refresh = 0 /\ calm = 0 /\ copyChanges = 0
  /\ broken = 0
NoDiscovery ==
  /\ sources = 0 /\ weak = 0 /\ decided = 0 /\ receipt = 0 /\ wait = 0 /\ errors = 0 /\ claim = 0
  /\ passed = 0 /\ changes = 0 /\ refreshed = 0
NoStorage ==
  /\ disk = 0 /\ diskWrites = 0 /\ files = 0 /\ findings = 0 /\ inventory = 0 /\ phase = 0
  /\ selected = 0 /\ requests = 0 /\ scanned = 0 /\ cancelled = 0 /\ verdict = 0
NoAttribution ==
  /\ origin = 0 /\ rollout = 0 /\ usage = 0 /\ consumed = 0 /\ dirty = 0 /\ stored = 0
  /\ events = 0 /\ mirrored = 0 /\ stage = 0 /\ rebased = 0 /\ crashes = 0 /\ early = 0
  /\ forgotten = 0 /\ moved = 0
NoParsing == file = 0 /\ size = 0 /\ reader = 0
NoRebuild ==
  /\ stale = 0 /\ evidence = 0 /\ capture = 0 /\ queue = 0 /\ active = 0 /\ future = 0
  /\ attached = 0 /\ attempt = 0 /\ outcome = 0 /\ suppressed = 0 /\ pc = 0
  /\ candidates = 0 /\ stopped = 0 /\ lastFailure = 0

-----------------------------------------------------------------------------
(* Three threads of two processes open an old ledger.                      *)
ThreeThreads == [t \in Openers |-> IF t = "t3" THEN "cli" ELSE "agent"]

Upgrade == INSTANCE LedgerUpgrade WITH
  content <- committed, rows <- tally, refresh <- refreshLock,
  Threads <- Openers, Agents <- Collectors

ASSUME UpgradeAssumption ==
  /\ MaxCommits \in Nat \ {0}
  /\ None \notin Openers /\ None \notin Upgrade!Owners

(* An old ledger is upgraded only behind a verified backup of what it      *)
(* holds, and with the writer guard in the same commit.                    *)
UpgradeIsBackedUp == [][part = "upgrade" => Upgrade!BackedUp]_allVars

-----------------------------------------------------------------------------
(* Two tasks in two caches.                                                *)
H(records, images, offset) ==
  [usage |-> records, images |-> images, metadata |-> "m", offset |-> offset]
TwoTasks == <<"k1", "k2">>
TwoCaches == <<"old", "vsc">>
FourHistories == {H(<<1>>, <<>>, 1), H(<<1, 2>>, <<>>, 2), H(<<1>>, <<1>>, 2), H(<<3>>, <<>>, 1)}

Migration == INSTANCE LegacyMigration WITH
  ledger <- imported,
  Keys <- TaskKeys, Caches <- CachePaths, Ledger <- "ledger", Histories <- KnownHistories,
  MaxWrites <- MaxClientWrites, MaxRuns <- MaxMigrations

ASSUME MigrationAssumption ==
  /\ TaskKeys \in Seq(Migration!Tasks) /\ CachePaths \in Seq(Migration!Legacy)
  /\ \A i, j \in DOMAIN TaskKeys : TaskKeys[i] = TaskKeys[j] => i = j
  /\ \A i, j \in DOMAIN CachePaths : CachePaths[i] = CachePaths[j] => i = j
  /\ "ledger" \notin Migration!Legacy /\ None \notin Migration!Legacy
  /\ None \notin KnownHistories
  /\ \A h \in KnownHistories : h.offset \in Nat
  /\ MaxClientWrites \in Nat /\ MaxMigrations \in Nat

(* The second task is in few caches, and short.                            *)
FewHistories ==
  \A c \in Migration!Legacy : cache[c].rows[TaskKeys[2]] \in {None, H(<<1>>, <<>>, 1)}

(* A migration loses no history, and what it calls completed is imported.  *)
MigrationIsFaithful ==
  [][part = "migration" =>
       /\ Migration!MigrationInv
       /\ Migration!KeepsHistory /\ Migration!CompletesWhatItMigrates]_allVars

-----------------------------------------------------------------------------
(* Two paths in the active directory, one in the archive.                  *)
OneArchived == <<0, 0, 1>>
Directory(p) == DirectoryOf[p]

Ownership == INSTANCE SourceOwnership WITH
  row <- filed, failures <- broken,
  file <- copies, changes <- copyChanges, Paths <- 1..MaxPath,
  StateOf <- Directory,
  Session <- SessionKey, MaxSize <- MaxCopySize, MaxChanges <- MaxCopyChanges,
  MaxFailures <- MaxBroken, Rounds <- QuietRefreshes

ASSUME OwnershipAssumption ==
  /\ MaxPath \in Nat /\ DirectoryOf \in [1..MaxPath -> Nat]
  /\ SessionKey \notin 1..MaxPath
  /\ MaxCopySize \in Nat \ {0}
  /\ None \notin Ownership!Stats \cup Ownership!Gens \cup Ownership!Rows

(* When nothing changed and nothing failed for three refreshes, the best   *)
(* copy owns the session.                                                  *)
BestCopyOwns == part = "ownership" => Ownership!TypeOK /\ Ownership!BestCopyOwns

(* "test_archived_move_does_not_double_count_cached_usage": a report       *)
(* counts a session once.  So it does after a move; a copy under the key   *)
(* of its path that is deleted is counted beside the owner, so this is     *)
(* what the code does not keep, and no part of a passing run.              *)
ReportedOnce == part = "ownership" => Ownership!ReportedOnce

-----------------------------------------------------------------------------
(* A page p that inherits, its root r, another source o; x claims the      *)
(* place of p, y that of o.                                                *)
FamilyOfPage == [p |-> {"r"}, r |-> {}, o |-> {}]
SlotOfClaimant == [x |-> "p", y |-> "o"]
WidthOfHeader == [p |-> 2, r |-> 1, o |-> 1]
WidthOfCopy == [p |-> 3, r |-> 2, o |-> 1]

Discovery == INSTANCE UpgradeDiscovery WITH
  error <- errors, fresh <- refreshed, file <- sources,
  Sources <- Captured, Claimants <- Claiming, Named <- NamedClaimants, Family <- FamilyOf,
  Slot <- SlotOf, Width <- HeaderWidth, CopyWidth <- CopiedWidth,
  MaxBytes <- RefreshBytes, MaxFiles <- RefreshFiles, MaxChanges <- MaxFileChanges

(* A refresh has budget for any one header: DISCOVERY_BYTES is more than   *)
(* HISTORY_PREFIX_LIMIT and DISCOVERY_FILES more than one.                 *)
ASSUME DiscoveryAssumption ==
  /\ IsFiniteSet(Captured) /\ Captured \cap (Claiming \cup {"no", "unnamed"}) = {}
  /\ Inheriting \subseteq Captured /\ NamedClaimants \subseteq Claiming
  /\ FamilyOf \in [Captured -> SUBSET Captured] /\ SlotOf \in [Claiming -> Captured]
  /\ RefreshBytes \in Nat /\ RefreshFiles \in Nat \ {0}
  /\ HeaderWidth \in [Captured -> 1..RefreshBytes]
  /\ \A s \in Captured : CopiedWidth[s] \in Nat \ {0}

(* The budget of a refresh gets to every source, and who waits waits for a *)
(* source that is protected.                                               *)
DiscoveryIsFair ==
  part = "discovery" =>
    Discovery!DiscoveryInv /\ Discovery!NobodyStarves /\ Discovery!WaitsAreJustified

(* A counted session stays counted, and no file takes the place of a       *)
(* capture whose source may need it.                                       *)
NothingCountedIsLost ==
  [][/\ part = "ownership" => Ownership!OwnershipInv /\ Ownership!KeepsCounted
     /\ part = "discovery" => Discovery!ReplacesNothing]_allVars

-----------------------------------------------------------------------------
(* A file and where it may move, and another task's; one is analysed.      *)
OneTask == [p \in FilePaths |-> "root"]

Storage == INSTANCE StorageAnalysis WITH
  listed <- inventory, results <- scanned,
  outcome <- verdict, writes <- diskWrites, Paths <- FilePaths, Active <- ActivePaths,
  Kinds <- RowKinds, NoFile <- None, NoFindings <- None, MaxWrites <- MaxDiskWrites

Compacted == [rows |-> <<"compacted">>, torn |-> FALSE, at |-> 0, inode |-> 0, written |-> 0]
Analysed ==
  /\ disk = [p \in FilePaths |-> IF p = AnalysedAt THEN Compacted ELSE None] /\ diskWrites = 0
  /\ files = [p \in FilePaths |->
                IF p = AnalysedAt THEN [known |-> TRUE, missing |-> FALSE, size |-> 2, at |-> 0]
                ELSE Storage!NoRow]
  /\ findings = [p \in FilePaths |->
                   IF p = AnalysedAt
                   THEN [offset |-> 2, inode |-> 0, at |-> 0, guard |-> 0,
                         metrics |-> Storage!Metrics(Compacted.rows, 1)]
                   ELSE None]
  /\ inventory = [u \in Storage!Users |-> <<>>] /\ phase = [u \in Storage!Users |-> "idle"]
  /\ selected = {} /\ requests = <<>> /\ scanned = <<>>
  /\ cancelled = FALSE /\ verdict = "completed"

(* Findings that count as complete are those of the file as it is, and an  *)
(* analysis stores all it scanned or nothing.                                *)
CompleteIsExact ==
  part = "storage" =>
    /\ Storage!FilesDiffer /\ Storage!KeptRecordsHold /\ Storage!AnalysisHolds
    /\ Storage!TreeIsSelected /\ Storage!CompleteIsExact
AllOrNothing == [][part = "storage" => Storage!StoresAllOrNothing]_allVars

-----------------------------------------------------------------------------
(* A root task in the checkout, a child that recorded the same repository  *)
(* elsewhere, and that child's own child, which has no repository.         *)
Uses == [use |-> TRUE, sees |-> "norepo"]
Attribution == INSTANCE ProjectAttribution WITH
  parsed <- consumed, lost <- forgotten,
  content <- rollout, cache <- usage, phase <- stage,
  Tasks <- {"root", "child", "leaf"}, NoTask <- "nobody", NoRepo <- "norepo",
  Parent <- [root |-> "nobody", child |-> "root", leaf |-> "child"],
  Recorded <- [root |-> "old", child |-> "old", leaf |-> "norepo"],
  InCheckout <- [root |-> TRUE, child |-> FALSE, leaf |-> FALSE],
  Folder <- [root |-> "work", child |-> "copy", leaf |-> "scratch"],
  Repos <- <<"old", "new", "newer">>,
  RowsOf <- [root |-> {Uses, [use |-> FALSE, sees |-> "other"], [use |-> TRUE, sees |-> "old"]},
             child |-> {Uses}, leaf |-> {Uses}],
  MaxRows <- [root |-> 2, child |-> 1, leaf |-> 1], MaxCrashes <- 1

(* After a capture the events have the project the lineage gives them, and *)
(* the transitions are those the task's own rows show.                     *)
AttributionKeepsUp ==
  part = "attribution" => Attribution!EventsKeepUp /\ Attribution!InferenceKeepsUp

(* "A child without its own repository identity continues to inherit its   *)
(* parent": also one that was captured before its parent.                  *)
EventsFollowLineage == part = "attribution" => Attribution!EventsFollowLineage

-----------------------------------------------------------------------------
(* Rollouts of a task with inherited pages, with images, and with timings. *)
Plain == [kind |-> "other", long |-> FALSE]
Meta(id, fork, sub, base) ==
  [kind |-> "meta", long |-> FALSE, id |-> id, fork |-> fork, subagent |-> sub,
   inline |-> base = None, base |-> base]
Response(kind, id, long, escaped) == [kind |-> kind, long |-> long, id |-> id, escaped |-> escaped]
Kind(kind) == [kind |-> kind, long |-> FALSE]
Turn(kind, t) ==
  [kind |-> kind, long |-> FALSE, turn |-> t, model |-> IF t = "t1" THEN "m1" ELSE "m2"]
Tokens(n) == [kind |-> "tokens", long |-> FALSE, total |-> n]
Done(image) == [kind |-> "completed", long |-> FALSE, image |-> image]
Usage == {Turn("context", "t1"), Turn("started", "t2"), Kind("inter"),
          Meta("parent", FALSE, FALSE, None), Tokens(1), Tokens(3)}
Images == {Response(k, "i1", l, FALSE) : k \in {"call", "result"}, l \in BOOLEAN}
          \cup {Response("call", "i2", TRUE, TRUE), Response("direct", "i2", FALSE, FALSE),
                Done(TRUE), Response("workdir", "i1", TRUE, FALSE)}
Noise == {Kind("broken"), [kind |-> "other", long |-> TRUE], Plain,
          Response("message", "i1", TRUE, FALSE), Response("call", "i2", TRUE, TRUE)}
Heads == {Meta("main", f, s, None) : f, s \in BOOLEAN} \cup {Meta("main", TRUE, FALSE, 2)}
First == Meta("main", FALSE, FALSE, None)
Rollouts ==
  {<<h, a, b, Tokens(4), Tokens(2)>> : h \in Heads, a, b \in Usage}
  \cup {<<First, a, b, c>> : a \in Images, b \in Noise, c \in Images}
  \cup {<<First, Turn("context", "t1"), a, Done(FALSE), b, Turn("usage", "t1"), c, Tokens(1), d,
          Tokens(2)>> : a, b, c, d \in {Plain, Kind("broken"), Kind("ended")}}

Parsing == INSTANCE AppendParsing WITH SourceFiles <- Rollouts

(* However a rollout is cut into slices, the result is that of one read.   *)
SlicedAsWhole == part = "parsing" => Parsing!SlicesAgree /\ Parsing!NoSpeedIsInvented

(* "Tool calls and results retain the existing ... extraction route":      *)
(* slices find the image operations that one read finds.                   *)
ImagesAreKept == part = "parsing" => Parsing!SlicesKeepImages

-----------------------------------------------------------------------------
(* One at a time.  One thread upgrades a ledger, with every lock it needs, *)
(* and no wait for a lock is circular; no source is rebuilt twice at once, *)
(* and an active one has somebody who will complete it, also when two      *)
(* threads reconcile.                                                      *)
OneAtATime ==
  /\ part = "upgrade" => Upgrade!UpgradeInv /\ Upgrade!OneUpgrade /\ Upgrade!NoWaitCycle
  /\ part = "rebuild" => QueueInv /\ ActiveWillComplete

-----------------------------------------------------------------------------
MCInit ==
  /\ part \in Parts
  /\ IF part = "upgrade" THEN Upgrade!Init ELSE NoUpgrade
  /\ IF part = "migration" THEN Migration!Init /\ FewHistories ELSE NoMigration
  /\ IF part = "ownership" THEN Ownership!Init ELSE NoOwnership
  /\ IF part = "discovery"
     THEN Discovery!Init /\ \A s \in Captured : sources[s].inherits <=> s \in Inheriting
     ELSE NoDiscovery
  /\ IF part = "storage" THEN Analysed ELSE NoStorage
  /\ IF part = "attribution" THEN Attribution!Init ELSE NoAttribution
  /\ IF part = "parsing" THEN Parsing!Init ELSE NoParsing
  /\ IF part = "rebuild" THEN Init ELSE NoRebuild

MCNext ==
  \/ /\ part = "upgrade" /\ Upgrade!Next
     /\ UNCHANGED <<part, ofMigration, ofOwnership, ofDiscovery, ofStorage, ofAttribution,
                    ofParsing, ofRebuild>>
  \/ /\ part = "migration" /\ Migration!Next
     /\ UNCHANGED <<part, ofUpgrade, ofOwnership, ofDiscovery, ofStorage, ofAttribution,
                    ofParsing, ofRebuild>>
  \/ /\ part = "ownership" /\ Ownership!Next
     /\ UNCHANGED <<part, ofUpgrade, ofMigration, ofDiscovery, ofStorage, ofAttribution,
                    ofParsing, ofRebuild>>
  \/ /\ part = "discovery" /\ Discovery!Next
     /\ UNCHANGED <<part, ofUpgrade, ofMigration, ofOwnership, ofStorage, ofAttribution,
                    ofParsing, ofRebuild>>
  \/ /\ part = "storage" /\ Storage!Next
     /\ UNCHANGED <<part, ofUpgrade, ofMigration, ofOwnership, ofDiscovery, ofAttribution,
                    ofParsing, ofRebuild>>
  \/ /\ part = "attribution" /\ Attribution!Next
     /\ UNCHANGED <<part, ofUpgrade, ofMigration, ofOwnership, ofDiscovery, ofStorage,
                    ofParsing, ofRebuild>>
  \/ /\ part = "parsing" /\ Parsing!Next
     /\ UNCHANGED <<part, ofUpgrade, ofMigration, ofOwnership, ofDiscovery, ofStorage,
                    ofAttribution, ofRebuild>>
  \/ /\ part = "rebuild" /\ Next
     /\ UNCHANGED <<part, ofUpgrade, ofMigration, ofOwnership, ofDiscovery, ofStorage,
                    ofAttribution, ofParsing>>

MCSpec == MCInit /\ [][MCNext]_allVars
=============================================================================
