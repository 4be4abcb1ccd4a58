--------------------------- MODULE LegacyMigration --------------------------
(***************************************************************************)
(* Importing the parser caches that earlier clients left on the machine    *)
(* into the ledger.  A plan compares histories, the user names the source  *)
(* that wins where they disagree, and every cache is merged in one         *)
(* transaction that also records it as migrated, so that a run which fails *)
(* or dies is run again.  Older clients may still write their cache: its   *)
(* digest is compared before and after it is read.                         *)
(*                                                                         *)
(* A history holds the rows of one task: images stands for everything that *)
(* is compared row by row beside usage.  A cache is its rows and its       *)
(* bytes: a database file that was written, or removed and made again, has *)
(* other bytes even if its rows are as before.  The digest tells them.  A  *)
(* transition row is the task it is about and the source it was read in.   *)
(* MaxWrites bounds the writes of clients and captures, MaxRuns the runs   *)
(* of the migration.                                                       *)
(***************************************************************************)
EXTENDS Naturals, Sequences, Functions

CONSTANTS Keys, Caches,  \* sequences: tasks, and caches in the order of their paths
          Histories,     \* the histories that occur
          Ledger, None, MaxWrites, MaxRuns

VARIABLES cache,        \* content of each cache
          ledger,       \* committed histories
          transitions,  \* committed transition rows
          completed,    \* migration_audit: <<cache, digest>> that are completed
          run,          \* the run of the migration in progress
          writes, runs  \* bounded

vars == <<cache, ledger, transitions, completed, run, writes, runs>>

Tasks == Range(Keys)
Legacy == Range(Caches)
Contents == [Tasks -> Histories \cup {None}]
Files == [rows : Contents, bytes : Nat]
Empty == [k \in Tasks |-> None]
NoRun == [at |-> "idle", precedence |-> [k \in Tasks |-> None],
          digest |-> [c \in Legacy |-> [rows |-> Empty, bytes |-> 0]],
          candidate |-> 1, key |-> 1, rows |-> Empty, moves |-> {}]

Runs == [at : {"idle", "asked", "queued", "candidate", "merge", "verify", "done"},
         precedence : [Tasks -> Legacy \cup {Ledger, None}], digest : [Legacy -> Files],
         candidate : 1 .. Len(Caches) + 1, key : 1 .. Len(Keys) + 1, rows : Contents,
         moves : SUBSET (Tasks \X (Legacy \cup {Ledger}))]

TypeOK ==
  /\ cache \in [Legacy -> Files]
  /\ ledger \in Contents
  /\ transitions \subseteq (Tasks \X (Legacy \cup {Ledger}))
  /\ completed \subseteq (Legacy \X Files)
  /\ run \in Runs
  /\ writes \in 0..MaxWrites /\ runs \in 0..MaxRuns

-----------------------------------------------------------------------------
(* How two histories of a task relate. *)
IsEmpty(h) == h.usage = <<>> /\ h.images = <<>> /\ h.metadata = None

StartsWith(longer, shorter) ==
  \A kind \in {"usage", "images"} :
    /\ Len(shorter[kind]) <= Len(longer[kind])
    /\ SubSeq(longer[kind], 1, Len(shorter[kind])) = shorter[kind]

Relation(existing, incoming) ==
  IF [existing EXCEPT !.offset = 0] = [incoming EXCEPT !.offset = 0]
  THEN IF existing.offset < incoming.offset THEN "extends"
       ELSE IF existing.offset > incoming.offset THEN "prefix" ELSE "identical"
  ELSE IF IsEmpty(existing) THEN "extends"
  ELSE IF IsEmpty(incoming) THEN "prefix"
  ELSE IF existing.metadata # incoming.metadata THEN "conflict"
  ELSE IF StartsWith(incoming, existing) THEN "extends"
  ELSE IF StartsWith(existing, incoming) THEN "prefix" ELSE "conflict"

(* The plan goes through the ledger and the caches in order, keeping the   *)
(* longest history met so far; a disagreement with it is a conflict.       *)
Sources == <<Ledger>> \o Caches

Seen(content, k) ==
  LET next(kept, s) ==
        LET h == content[s][k] IN
        CASE h = None -> kept
          [] h # None /\ kept.history = None -> [kept EXCEPT !.history = h]
          [] OTHER ->
               (CASE Relation(kept.history, h) = "extends" -> [kept EXCEPT !.history = h]
                  [] Relation(kept.history, h) = "conflict" -> [kept EXCEPT !.conflict = TRUE]
                  [] OTHER -> kept)
      after[i \in 0 .. Len(Sources)] ==
        IF i = 0 THEN [history |-> None, conflict |-> FALSE]
        ELSE next(after[i - 1], Sources[i])
  IN after[Len(Sources)]

Planned(content) == [s \in Range(Sources) |-> IF s = Ledger THEN ledger ELSE content[s].rows]
Conflicts(content) == {k \in Tasks : Seen(Planned(content), k).conflict}
Named(content, k) == {s \in Range(Sources) : Planned(content)[s][k] # None}

-----------------------------------------------------------------------------
Init ==
  /\ cache \in [Legacy -> [rows : Contents, bytes : {0}]]
  /\ ledger = Empty
  /\ transitions = {}
  /\ completed = {}
  /\ run = NoRun
  /\ writes = 0 /\ runs = 0

(* An older client goes on with a task in its cache. *)
OldClientWrites(c, k) ==
  /\ writes < MaxWrites
  /\ writes' = writes + 1
  /\ \E h \in Histories :
       /\ cache[c].rows[k] # None => Relation(cache[c].rows[k], h) = "extends"
       /\ cache' = [cache EXCEPT ![c] = [rows |-> [@.rows EXCEPT ![k] = h], bytes |-> writes']]
  /\ UNCHANGED <<ledger, transitions, completed, run, runs>>

(* A cache file is deleted with the client that wrote it, or replaced. *)
OldClientRemoved(c) ==
  /\ writes < MaxWrites
  /\ writes' = writes + 1
  /\ cache' = [cache EXCEPT ![c] = [rows |-> Empty, bytes |-> writes']]
  /\ UNCHANGED <<ledger, transitions, completed, run, runs>>

(* Another job of the lane captures the task from its source.              *)
Capture(k) ==
  /\ writes < MaxWrites
  /\ run.at \in {"idle", "asked", "queued"}
  /\ writes' = writes + 1
  /\ \E h \in Histories :
       /\ ledger[k] # None => Relation(ledger[k], h) = "extends"
       /\ ledger' = [ledger EXCEPT ![k] = h]
  /\ transitions' = transitions \cup {<<k, Ledger>>}
  /\ UNCHANGED <<cache, completed, run, runs>>

(* The plan is shown, and the user answers for every conflict in it. *)
Ask ==
  /\ run.at = "idle"
  /\ runs < MaxRuns
  /\ runs' = runs + 1
  /\ \E answer \in [Tasks -> Legacy \cup {Ledger, None}] :
       /\ \A k \in Tasks : IF k \in Conflicts(cache) THEN answer[k] \in Named(cache, k)
                                                     ELSE answer[k] = None
       /\ run' = [NoRun EXCEPT !.at = "asked", !.precedence = answer]
  /\ UNCHANGED <<cache, ledger, transitions, completed, writes>>

(* The request discovers the caches and their digests, then queues a job.  *)
Discover ==
  /\ run.at = "asked"
  /\ run' = [run EXCEPT !.at = "queued", !.digest = cache]
  /\ UNCHANGED <<cache, ledger, transitions, completed, writes, runs>>

Stops == run' = NoRun /\ UNCHANGED <<cache, ledger, transitions, completed, writes, runs>>

Follows(source, k) == run.precedence[k] \in {None, source}

Candidate == Caches[run.candidate]
Exists(c) == run.digest[c].rows # Empty

(* The job plans again, and refuses caches that changed and conflicts that *)
(* nobody resolved; it opens the ledger and drops the transition rows of   *)
(* tasks whose history is to come from elsewhere, without committing.      *)
Begin ==
  /\ run.at = "queued"
  /\ IF \/ \E c \in Legacy : Exists(c) /\ cache[c] # run.digest[c]
        \/ \E k \in Conflicts(run.digest) : run.precedence[k] \notin Named(run.digest, k)
       THEN Stops
       ELSE /\ run' = [run EXCEPT !.at = "candidate", !.rows = ledger,
                                  !.moves = {m \in transitions : Follows(Ledger, m[1])}]
            /\ UNCHANGED <<cache, ledger, transitions, completed, writes, runs>>

(* The next cache: one that is missing or migrated already is passed over. *)
NextCandidate ==
  /\ run.at = "candidate"
  /\ run' = IF run.candidate > Len(Caches) THEN [run EXCEPT !.at = "done"]
            ELSE IF ~Exists(Candidate) \/ <<Candidate, run.digest[Candidate]>> \in completed
              THEN [run EXCEPT !.candidate = run.candidate + 1]
            ELSE IF cache[Candidate] # run.digest[Candidate] THEN NoRun
            ELSE [run EXCEPT !.at = "merge", !.key = 1]
  /\ UNCHANGED <<cache, ledger, transitions, completed, writes, runs>>

(* Mutant: a history is copied whatever its relation to the one there is.  *)
MutMerged(k, incoming) ==
  IF run.precedence[k] \notin {None, Candidate} THEN run.rows[k] ELSE incoming

(* What becomes of the history of k; None where a conflict is unresolved.  *)
Merged(k, incoming) ==
  IF run.precedence[k] \notin {None, Candidate} THEN run.rows[k]
  ELSE IF run.precedence[k] = Candidate \/ run.rows[k] = None THEN incoming
  ELSE IF Relation(run.rows[k], incoming) \in {"identical", "prefix"} THEN run.rows[k]
  ELSE IF Relation(run.rows[k], incoming) = "extends" THEN incoming ELSE None

(* One task of the cache, as it is read now. *)
Merge ==
  LET k == Keys[run.key]
      incoming == cache[Candidate].rows[k]
      merged == IF incoming = None THEN run.rows[k] ELSE Merged(k, incoming)
  IN
  /\ run.at = "merge"
  /\ IF incoming # None /\ merged = None /\ run.precedence[k] \in {None, Candidate}
       THEN run' = NoRun
       ELSE run' = [run EXCEPT !.rows[k] = merged, !.key = run.key + 1,
                               !.at = IF run.key = Len(Keys) THEN "verify" ELSE "merge"]
  /\ UNCHANGED <<cache, ledger, transitions, completed, writes, runs>>

(* Mutant: the cache is not compared with its digest again. *)
MutUnchanged == TRUE
Unchanged == cache[Candidate] = run.digest[Candidate]

(* The transition rows, the digest once more, then the commit with the     *)
(* audit; a failure rolls back what this cache brought.                    *)
CommitCandidate ==
  LET moves == run.moves \cup {<<k, Candidate>> :
                 k \in {x \in Tasks : cache[Candidate].rows[x] # None /\ Follows(Candidate, x)}}
  IN
  /\ run.at = "verify"
  /\ IF Unchanged
       THEN /\ ledger' = run.rows
            /\ transitions' = moves
            /\ completed' = completed \cup {<<Candidate, run.digest[Candidate]>>}
            /\ run' = [run EXCEPT !.at = "candidate", !.moves = moves,
                                  !.candidate = run.candidate + 1]
            /\ UNCHANGED <<cache, writes, runs>>
       ELSE Stops

(* Closing the ledger rolls back what no candidate committed. *)
End == run.at = "done" /\ Stops

(* The agent dies: what is not committed is rolled back. *)
Crash == run.at # "idle" /\ Stops

Next ==
  \/ \E c \in Legacy : OldClientRemoved(c) \/ \E k \in Tasks : OldClientWrites(c, k)
  \/ \E k \in Tasks : Capture(k)
  \/ Ask \/ Discover \/ Begin \/ NextCandidate \/ Merge \/ CommitCandidate \/ End \/ Crash

Spec == Init /\ [][Next]_vars

-----------------------------------------------------------------------------
(* Properties. *)

(* A history in the ledger is replaced only by one that goes on from it,   *)
(* or by the one the user chose: no merge loses usage or images, whatever  *)
(* the order of the caches (compare_generation_history, _merge_cache).     *)
KeepsHistory ==
  \A k \in Tasks :
       ledger[k] # None /\ ledger'[k] # ledger[k] =>
         ledger'[k] # None /\ (Relation(ledger[k], ledger'[k]) = "extends"
                               \/ run.precedence[k] \in Legacy)
HistoryIsKept == [][KeepsHistory]_vars

(* What is recorded as migrated is in the ledger: at least the history of  *)
(* every task of exactly that digest, except where the user chose another  *)
(* source, though the cache was read task by task while its client may     *)
(* have been writing (migrate_legacy_caches, verified_legacy_cache).       *)
CompletesWhatItMigrates ==
  \A c \in Legacy, k \in Tasks :
       LET now == run.digest[c] IN
       /\ <<c, now>> \in completed' \ completed
       /\ now.rows[k] # None
       /\ run.precedence[k] \in {None, c}
       => ledger'[k] # None /\ Relation(ledger'[k], now.rows[k]) \in {"identical", "prefix"}
MigratedIsComplete == [][CompletesWhatItMigrates]_vars

(* What both rest on.  What was written since a digest was taken has other *)
(* bytes.                                                                  *)
BytesAreOfTheirWrite ==
  \A c \in Legacy : cache[c].bytes <= writes /\ run.digest[c].bytes <= writes

(* A task that was merged goes on from the history in the ledger, and has  *)
(* what the cache held, if it was still the cache of the digest.           *)
GoesOn(k) ==
  \/ run.rows[k] = ledger[k]
  \/ /\ run.rows[k] # None
     /\ \/ ledger[k] = None \/ Relation(ledger[k], run.rows[k]) = "extends"
        \/ run.precedence[k] = Candidate
HasWhatItRead(k) ==
  LET now == run.digest[Candidate]
  IN  /\ cache[Candidate] = now /\ now.rows[k] # None
      /\ run.precedence[k] \in {None, Candidate}
      => run.rows[k] # None /\ Relation(run.rows[k], now.rows[k]) \in {"identical", "prefix"}

MergedSoFar ==
  /\ run.at \in {"merge", "verify"} =>
       /\ run.candidate \in DOMAIN Caches
       /\ \A i \in DOMAIN Keys :
            IF run.at = "merge" /\ i >= run.key THEN run.rows[Keys[i]] = ledger[Keys[i]]
            ELSE GoesOn(Keys[i]) /\ HasWhatItRead(Keys[i])
  /\ run.at = "merge" => run.key \in DOMAIN Keys
  /\ run.at = "candidate" => run.rows = ledger

MigrationInv == TypeOK /\ BytesAreOfTheirWrite /\ MergedSoFar

(* The README calls the migration resumable: when a run that was cut short *)
(* is run again with the same choice, the transition rows which it already *)
(* took from the chosen cache stay (_prune_unselected_transitions).        *)
ResumedRunKeepsTransitions ==
  [][\A k \in Tasks, c \in Legacy :
       <<k, c>> \in transitions /\ run.precedence[k] = c => <<k, c>> \in transitions']_vars

=============================================================================
