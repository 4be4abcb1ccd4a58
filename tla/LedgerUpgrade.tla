--------------------------- MODULE LedgerUpgrade ----------------------------
(***************************************************************************)
(* Opening the ledger for writing: admission of one writer per process,    *)
(* creation of a new ledger, and the upgrade of an old one under the       *)
(* maintenance locks, from a verified backup, in one transaction that also *)
(* installs the triggers which fence writers of older releases.  Writers   *)
(* of older releases take none of the locks and write whenever they like.  *)
(*                                                                         *)
(* content numbers the committed states of the database (data_version),    *)
(* rows what its cheap facts count.  MaxCommits bounds the commits.        *)
(***************************************************************************)
EXTENDS Naturals

CONSTANTS Threads,        \* threads of this release that open the ledger
          Agents,         \* the processes that are collectors
          ProcessOf,      \* the process of a thread
          MaxCommits,     \* bound on commits
          None

VARIABLES version,      \* schema of the ledger: none, old, current or newer
          guarded,      \* the writer triggers and the epoch are installed
          content,      \* number of the committed state
          rows,         \* usage events and sources it counts
          backups,      \* the verified snapshots beside the ledger
          homeLock,     \* agent.lock: the process that holds it
          maintenance,  \* the maintenance lock: its thread
          refresh,      \* the cache refresh lock: its thread
          admitted,     \* per process, the thread admitted as SQLite writer
          thread        \* where each thread is and what it has read

vars == <<version, guarded, content, rows, backups, homeLock, maintenance,
          refresh, admitted, thread>>

Owners == {ProcessOf[t] : t \in Threads}
Versions == {"none", "old", "current", "newer"}
Working == {"inspect", "create", "home", "refresh", "baseline", "snapshot", "migrate", "ready"}
Steps == {"idle", "admit", "parse", "admit parse"} \cup Working
Idle == [at |-> "idle", base |-> 0, count |-> 0, borrowed |-> FALSE]

TypeOK ==
  /\ version \in Versions
  /\ guarded \in BOOLEAN
  /\ content \in 0..MaxCommits
  /\ rows \in 0..content
  /\ backups \subseteq (0..MaxCommits)
  /\ homeLock \in Owners \cup {None}
  /\ maintenance \in Threads \cup {None}
  /\ refresh \in Threads \cup {None}
  /\ admitted \in [Owners -> Threads \cup {None}]
  /\ thread \in [Threads -> [at : Steps, base : 0..MaxCommits, count : 0..MaxCommits,
                             borrowed : BOOLEAN]]

Init ==
  /\ version \in Versions
  /\ guarded = (version \in {"current", "newer"})
  /\ content = 0 /\ rows = 0
  /\ backups = {}
  /\ homeLock = None
  /\ maintenance = None
  /\ refresh = None
  /\ admitted = [p \in Owners |-> None]
  /\ thread = [t \in Threads |-> Idle]

-----------------------------------------------------------------------------
Database == <<version, guarded, content, rows, backups>>
Locks == <<homeLock, maintenance, refresh, admitted>>
At(t, step) == thread[t].at = step
GoTo(t, step) == thread' = [thread EXCEPT ![t].at = step]

(* The locks a thread took itself; a borrowed home lock stays.             *)
FreeUpgradeLocks(t) ==
  /\ maintenance' = IF maintenance = t THEN None ELSE maintenance
  /\ refresh' = IF refresh = t THEN None ELSE refresh
  /\ homeLock' = IF maintenance = t /\ ~thread[t].borrowed THEN None ELSE homeLock

(* Closing the connection, whether the open succeeded or raised.           *)
Close(t) ==
  /\ FreeUpgradeLocks(t)
  /\ admitted' = [p \in Owners |-> IF admitted[p] = t THEN None ELSE admitted[p]]
  /\ thread' = [thread EXCEPT ![t] = Idle]

(* The two locks whose holder is waited for.                               *)
Waits(t) ==
  \/ At(t, "parse") /\ refresh # None
  \/ (At(t, "admit") \/ At(t, "admit parse")) /\ admitted[ProcessOf[t]] # None

Commit(inserted) ==
  /\ content < MaxCommits
  /\ content' = content + 1
  /\ rows' = rows + inserted

-----------------------------------------------------------------------------
(* A collector holds the home lock for all its life. *)
StartAgent(p) ==
  /\ p \in Agents
  /\ homeLock = None
  /\ homeLock' = p
  /\ UNCHANGED <<Database, maintenance, refresh, admitted, thread>>

StopAgent(p) ==
  /\ p \in Agents
  /\ homeLock = p
  /\ \A t \in Threads : ProcessOf[t] = p => At(t, "idle")
  /\ homeLock' = None
  /\ UNCHANGED <<Database, maintenance, refresh, admitted, thread>>

(* open_ledger: the thread waits to be the process's only writer. *)
Open(t) ==
  /\ At(t, "idle")
  /\ ProcessOf[t] \in Agents => homeLock = ProcessOf[t]
  /\ GoTo(t, "admit")
  /\ UNCHANGED <<Database, Locks>>

Admit(t) ==
  /\ \/ At(t, "admit") /\ GoTo(t, "inspect")
     \/ At(t, "admit parse") /\ GoTo(t, IF version = "current" THEN "ready" ELSE "inspect")
  /\ admitted' = [admitted EXCEPT ![ProcessOf[t]] = t]
  /\ UNCHANGED <<Database, homeLock, maintenance, refresh>>

(* A refresh of the parser cache takes its lock first, and waits for it.   *)
Parse(t) ==
  /\ At(t, "idle")
  /\ ProcessOf[t] \in Agents => homeLock = ProcessOf[t]
  /\ GoTo(t, "parse")
  /\ UNCHANGED <<Database, Locks>>

TakeRefreshToParse(t) ==
  /\ At(t, "parse")
  /\ refresh' = t
  /\ GoTo(t, "admit parse")
  /\ UNCHANGED <<Database, homeLock, maintenance, admitted>>

(* The schema decides; a parser that finds an old ledger gives up.         *)
Inspect(t) ==
  /\ At(t, "inspect")
  /\ IF version = "newer" \/ (version = "current" /\ ~guarded) \/ (version = "old" /\ refresh = t)
       THEN Close(t)
       ELSE /\ GoTo(t, CASE version = "none" -> "create"
                         [] version = "old" -> "home"
                         [] version = "current" -> "ready")
            /\ UNCHANGED Locks
  /\ UNCHANGED Database

(* A new ledger: its tables cannot be created twice. *)
Create(t) ==
  /\ At(t, "create")
  /\ IF version = "none"
       THEN /\ version' = "current" /\ guarded' = TRUE
            /\ Commit(0)
            /\ GoTo(t, "ready")
            /\ UNCHANGED <<backups, Locks>>
       ELSE Close(t) /\ UNCHANGED Database

(* The maintenance locks, none of which is waited for. *)
TakeHome(t) ==
  LET p == ProcessOf[t] IN
  /\ At(t, "home")
  /\ IF (homeLock = None \/ (homeLock = p /\ p \in Agents)) /\ maintenance = None
       THEN /\ thread' = [thread EXCEPT ![t].at = "refresh", ![t].borrowed = (homeLock = p)]
            /\ homeLock' = p
            /\ maintenance' = t
            /\ UNCHANGED <<refresh, admitted>>
       ELSE Close(t)
  /\ UNCHANGED Database

TakeRefresh(t) ==
  /\ At(t, "refresh")
  /\ IF refresh = None
       THEN refresh' = t /\ GoTo(t, "baseline") /\ UNCHANGED <<homeLock, maintenance, admitted>>
       ELSE Close(t)
  /\ UNCHANGED Database

(* The version again, and the data_version the backup will be held to.     *)
Baseline(t) ==
  /\ At(t, "baseline")
  /\ IF version = "old"
       THEN /\ thread' = [thread EXCEPT ![t].at = "snapshot", ![t].base = content]
            /\ UNCHANGED Locks
       ELSE Close(t)
  /\ UNCHANGED Database

(* One pinned read transaction is copied, hashed and verified. *)
Snapshot(t) ==
  /\ At(t, "snapshot")
  /\ backups' = backups \cup {content}
  /\ thread' = [thread EXCEPT ![t].at = "migrate", ![t].count = rows]
  /\ UNCHANGED <<version, guarded, content, rows, Locks>>

(* Mutant: the backup is held to its counts alone. *)
MutMigrate(t) ==
  /\ At(t, "migrate")
  /\ IF version = "old" /\ rows = thread[t].count
       THEN /\ version' = "current" /\ guarded' = TRUE
            /\ Commit(0)
            /\ GoTo(t, "ready")
            /\ FreeUpgradeLocks(t)
            /\ UNCHANGED <<backups, admitted>>
       ELSE Close(t) /\ UNCHANGED Database

(* The write transaction holds the backup to the facts and to data_version *)
(* before it changes anything; the guards come with the new schema.        *)
Migrate(t) ==
  /\ At(t, "migrate")
  /\ IF version = "old" /\ rows = thread[t].count /\ content = thread[t].base
       THEN /\ version' = "current" /\ guarded' = TRUE
            /\ Commit(0)
            /\ GoTo(t, "ready")
            /\ FreeUpgradeLocks(t)
            /\ UNCHANGED <<backups, admitted>>
       ELSE Close(t) /\ UNCHANGED Database

Write(t) ==
  /\ At(t, "ready")
  /\ content + 1 < MaxCommits      \* leaves room for the upgrade itself
  /\ \E inserted \in {0, 1} : Commit(inserted)
  /\ Close(t)
  /\ UNCHANGED <<version, guarded, backups>>

Finish(t) == At(t, "ready") /\ Close(t) /\ UNCHANGED Database

(* A writer of an older release: only the triggers stop it. *)
OldWrite ==
  /\ version \in {"old", "current"}
  /\ ~guarded
  /\ content + 1 < MaxCommits
  /\ \E inserted \in {0, 1} : Commit(inserted)
  /\ UNCHANGED <<version, guarded, backups, Locks, thread>>

(* A process dies: SQLite rolls back, the file locks are freed. *)
Crash(p) ==
  LET mine == {t \in Threads : ProcessOf[t] = p} IN
  /\ homeLock' = IF homeLock = p THEN None ELSE homeLock
  /\ maintenance' = IF maintenance \in mine THEN None ELSE maintenance
  /\ refresh' = IF refresh \in mine THEN None ELSE refresh
  /\ admitted' = [admitted EXCEPT ![p] = None]
  /\ thread' = [t \in Threads |-> IF t \in mine THEN Idle ELSE thread[t]]
  /\ UNCHANGED Database

Step(t) ==
  /\ ~Waits(t)
  /\ \/ Admit(t) \/ TakeRefreshToParse(t) \/ Inspect(t) \/ Create(t) \/ TakeHome(t) \/ TakeRefresh(t)
     \/ Baseline(t) \/ Snapshot(t) \/ Migrate(t) \/ Write(t) \/ Finish(t)

Next ==
  \/ \E t \in Threads : Open(t) \/ Parse(t) \/ Step(t)
  \/ \E p \in Owners : StartAgent(p) \/ StopAgent(p) \/ Crash(p)
  \/ OldWrite

Spec == Init /\ [][Next]_vars

-----------------------------------------------------------------------------
(* Properties. *)

(* The step that upgrades a ledger leaves a verified copy of exactly the   *)
(* state it replaces, whatever an older writer did meanwhile, and makes    *)
(* the guards hold from then on                                            *)
(* (ledger_migration_backup, ledger_schema._migrate_schema).               *)
BackedUp ==
  version = "old" /\ version' # "old" => content \in backups /\ guarded'
UpgradeIsBackedUp == [][BackedUp]_vars

(* No two threads upgrade at once, of one process or of several: the       *)
(* backup that is held to the facts is the one of the thread that migrates *)
(* (ledger_maintenance).                                                   *)
OneUpgrade ==
  /\ LET upgrading == {t \in Threads : thread[t].at \in {"baseline", "snapshot", "migrate"}}
     IN  \A s, t \in upgrading : s = t
  /\ \A t \in Threads :
       thread[t].at \in {"snapshot", "migrate"} =>
         maintenance = t /\ refresh = t /\ homeLock = ProcessOf[t]

(* The parser holds the refresh lock while it waits to be admitted, and an *)
(* upgrade is admitted while it asks for the refresh lock: among the       *)
(* threads that opened something, one waits for nobody                     *)
(* (cache_refresh_lock, sqlite_writer_admission, ledger_maintenance).      *)
NoWaitCycle ==
  (\E t \in Threads : ~At(t, "idle")) => (\E t \in Threads : ~At(t, "idle") /\ ~Waits(t))

(* What these rest on.  Who holds a lock is where the lock is needed, and  *)
(* a thread that is admitted waits for nobody.                             *)
HoldersWork ==
  \A t \in Threads :
    /\ \A p \in Owners : admitted[p] = t <=> ProcessOf[t] = p /\ thread[t].at \in Working
    /\ refresh = t => thread[t].at \in {"admit parse"} \cup Working
    /\ maintenance = t => thread[t].at \in {"refresh", "baseline", "snapshot", "migrate"}

UpgraderHolds ==
  \A t \in Threads :
    /\ thread[t].at \in {"refresh", "baseline", "snapshot", "migrate"} =>
         maintenance = t /\ homeLock = ProcessOf[t]
    /\ thread[t].at \in {"baseline", "snapshot", "migrate"} => refresh = t

(* A verified copy is no older than the data_version it will be held to.   *)
CopyIsRecent ==
  \A t \in Threads :
    /\ thread[t].at \in {"snapshot", "migrate"} => thread[t].base <= content
    /\ thread[t].at = "migrate" => \E c \in backups : thread[t].base <= c /\ c <= content

UpgradeInv == TypeOK /\ HoldersWork /\ UpgraderHolds /\ CopyIsRecent

=============================================================================
