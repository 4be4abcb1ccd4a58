---------------------------- MODULE SourceLedger ----------------------------
(***************************************************************************)
(* How one session file is accounted: session_cache_refresh.py and the     *)
(* modules it calls, ledger_sync.py, agent_rebuild.py.                     *)
(*                                                                         *)
(* Codex appends to the file and may replace, cut or remove it at any      *)
(* time.  A capture takes a stat of it, parses what was added since the    *)
(* saved checkpoint, commits rows and checkpoint in one transaction        *)
(* (the parser's row) and mirrors them into the ledger's source and its    *)
(* trusted generation in another.  A file that does not continue its       *)
(* checkpoint becomes stale: its generation is kept, and slices of a       *)
(* rebuild parse the file anew into a staging database that replaces row   *)
(* and generation in one transaction when it is complete.  Captures and    *)
(* slices are jobs of the one heavy-I/O lane and never overlap; the agent  *)
(* may be killed between any two steps.                                    *)
(*                                                                         *)
(* A file's content is a sequence of cells; a cell in Halves leaves its    *)
(* row unfinished.  A checkpoint's head and boundary digests are the       *)
(* content they stand for: they cover the whole of a short file.           *)
(***************************************************************************)
EXTENDS Naturals, Sequences, SequencesExt

CONSTANTS Texts,        \* contents a file may have
          Halves,       \* cells that do not end a row
          Inodes,
          None,
          CaptureQuantum, SliceQuantum, \* cells a capture, a slice may parse
          MaxWrites, MaxEpoch, MaxFailures \* bounds: how often the file and
               \* the file it continues change, a read or the agent fails

Cells == UNION {Range(t) : t \in Texts}

ASSUME ParameterAssumption ==
  /\ Texts \subseteq Seq(Cells) /\ Inodes \subseteq Nat
  /\ CaptureQuantum \in Nat \ {0} /\ SliceQuantum \in Nat \ {0}
  /\ MaxWrites \in Nat /\ MaxEpoch \in Nat /\ MaxFailures \in Nat

VARIABLES
  file,    \* the session file
  row,     \* the parser's row of the file, its checkpoint and its records
  source,  \* the row of ledger_sources
  gen,     \* the trusted generation and its events
  past,    \* events of superseded generations
  epoch,   \* history-invalidation epoch
  pending, \* the epoch's repair is pending
  stage,   \* the staging database of this epoch
  queued,  \* the rebuild is queued in the lane
  barred,  \* the last slice failed for good: until the evidence changes
  job,     \* the job in the lane
  count    \* what was spent of the bounds

ledger == <<row, source, gen, past, epoch, pending>>
vars == <<file, ledger, stage, queued, barred, job, count>>

Errors == {"none", "stale", "other"}
Times == 0..MaxWrites
Files == [ino : Inodes, text : Texts, mtime : Times, ctime : Times]
Stats == [ino : Inodes, size : Nat, mtime : Times, ctime : Times]
Seqs == UNION {Prefixes(t) : t \in Texts}
Checkpoints == [ino : Inodes, text : Seqs]
Rows == [size : Nat, mtime : Times, missing : BOOLEAN, error : Errors,
         ck : Checkpoints \cup {None}, records : Seqs]
Sources == [ino : Inodes \cup {None}, size : Nat, mtime : Times,
            missing : BOOLEAN, error : Errors]
Generations == [text : Seqs, mtime : Times, events : Seqs]
Stages == [live : BOOLEAN,   \* its origin is the row's current origin
           header : Cells \cup {None},
           row : Rows \cup {None}]
Contents == [kind : {"full", "append"}, ino : Inodes, text : Seqs]
Results == [kind : {"error", "stale"}] \cup Contents
Jobs == [at : {"idle", "open", "seal", "record", "sync",
               "check", "verify", "install", "clean"},
         who : {"capture", "slice"},
         entry : Stats \cup {None},            \* the inventory's stat
         ck : Checkpoints \cup {None},         \* the request's checkpoint
         result : Results \cup {None},
         before : Nat \cup {None}]             \* staged offset before the slice

ASSUME NoneAssumption ==
  /\ None \notin Files /\ None \notin Stats /\ None \notin Checkpoints
  /\ None \notin Rows /\ None \notin Sources /\ None \notin Generations
  /\ None \notin Stages /\ None \notin Results /\ None \notin Inodes

TypeOK ==
  /\ file \in Files \cup {None}
  /\ row \in Rows \cup {None}
  /\ source \in Sources \cup {None}
  /\ gen \in Generations \cup {None}
  /\ past \subseteq Seqs
  /\ epoch \in 0..MaxEpoch /\ pending \in BOOLEAN
  /\ stage \in Stages \cup {None}
  /\ queued \in BOOLEAN /\ barred \in BOOLEAN
  /\ job \in Jobs
  /\ count \in [writes : Times, failures : 0..MaxFailures]

Idle == [at |-> "idle", who |-> "capture", entry |-> None, ck |-> None,
         result |-> None, before |-> None]

Init ==
  /\ file = None /\ row = None /\ source = None /\ gen = None /\ past = {}
  /\ epoch = 0 /\ pending = FALSE
  /\ stage = None /\ queued = FALSE /\ barred = FALSE
  /\ job = Idle
  /\ count = [writes |-> 0, failures |-> 0]

Spend(what, bound) ==
  count[what] < bound /\ count' = [count EXCEPT ![what] = @ + 1]

Stat == IF file = None THEN None
        ELSE [ino |-> file.ino, size |-> Len(file.text), mtime |-> file.mtime,
              ctime |-> file.ctime]

-----------------------------------------------------------------------------
(* The file.  Nobody writes over bytes that are being read: Codex only     *)
(* appends to a file it keeps open.                                        *)

Write(ino, text, mtime) ==
  /\ Spend("writes", MaxWrites)
  /\ file' = [ino |-> ino, text |-> text, mtime |-> mtime,
              ctime |-> count.writes + 1]
  /\ UNCHANGED <<ledger, stage, queued, barred, job>>

Now == count.writes + 1

Create == file = None /\ \E i \in Inodes, t \in Texts : Write(i, t, Now)

Grow == file # None /\ \E t \in Texts :
  IsStrictPrefix(file.text, t) /\ Write(file.ino, t, Now)

(* Another file is renamed over it.  If it has the same mtime, as a copy   *)
(* may, its inode is one that did not have it before.                      *)
Replace == file # None /\ \E i \in Inodes \ {file.ino}, t \in Texts :
  \/ Write(i, t, Now)
  \/ i > file.ino /\ Write(i, t, file.mtime)

Rewrite == file # None /\ job.at # "seal" /\ \E t \in Texts :
  ~IsPrefix(file.text, t) /\ Write(file.ino, t, Now)

Delete ==
  /\ file # None
  /\ Spend("writes", MaxWrites)
  /\ file' = None
  /\ UNCHANGED <<ledger, stage, queued, barred, job>>

(* invalidate_dependents() in the transaction of the source that the file  *)
(* continues: a new epoch, and a staging database of its own for it.       *)
Invalidate ==
  /\ job.at \in {"idle", "sync"}
  /\ row # None /\ row.ck # None /\ epoch < MaxEpoch
  /\ epoch' = epoch + 1 /\ pending' = TRUE
  /\ LET error == IF row.error = "other" THEN "other" ELSE "stale" IN
       /\ row' = [row EXCEPT !.error = error]
       /\ source' = IF source = None THEN None
                    ELSE [source EXCEPT !.error = error]
  /\ stage' = None /\ barred' = FALSE
  /\ UNCHANGED <<file, gen, past, queued, job, count>>

-----------------------------------------------------------------------------
(* What a refresh decides from the stat and the saved row                  *)

NewRow(e) == [size |-> e.size, mtime |-> e.mtime, missing |-> FALSE,
              error |-> "none", ck |-> None, records |-> <<>>]

(* A row that was never parsed follows the inventory.                      *)
Upserted(r, e) ==
  IF r = None THEN NewRow(e)
  ELSE IF r.ck = None /\ r.error = "none"
       THEN [r EXCEPT !.size = e.size, !.mtime = e.mtime, !.missing = FALSE]
       ELSE r

Reusable(r, e) ==
  /\ r.size = e.size /\ r.mtime = e.mtime /\ ~r.missing
  /\ \/ r.error # "none"
     \/ /\ r.ck # None
        /\ Len(r.ck.text) = e.size /\ r.ck.ino = e.ino

(* The device never changes here.                                          *)
Eligible(r, e) ==
  /\ r.ck # None /\ ~r.missing
  /\ Len(r.ck.text) < e.size /\ r.ck.ino = e.ino

(* _parse_session_chunk(): whole rows up to the first that ends at or      *)
(* behind the quantum, none that the captured size cuts.                   *)
Reaches(text, start, stop, quantum, upto) ==
  LET ends == {start} \cup {n \in start..stop : n > 0 /\ text[n] \notin Halves}
      enough(n) == n >= stop \/ n >= start + quantum
  IN  /\ upto \in ends
      /\ \A n \in ends : IF enough(upto) THEN enough(n) => upto <= n ELSE n <= upto

\* Mutant: the digests are not compared.
MatchesInode(ck) == file.ino = ck.ino /\ Len(ck.text) <= Len(file.text)

Matches(ck) == file.ino = ck.ino /\ IsPrefix(ck.text, file.text)

(* What committing a parse result makes of a row.                          *)
Parsed(r, e, result) ==
  CASE result.kind = "error" -> [r EXCEPT !.missing = FALSE, !.error = "other"]
    [] result.kind = "stale" ->
         [r EXCEPT !.size = e.size, !.mtime = e.mtime, !.missing = FALSE,
                   !.error = "stale"]
    [] OTHER ->
         [size |-> e.size, mtime |-> e.mtime, missing |-> FALSE,
          error |-> "none", ck |-> [ino |-> result.ino, text |-> result.text],
          records |-> IF result.kind = "full" THEN result.text
                      ELSE r.records \o SubSeq(result.text,
                             Len(job.ck.text) + 1, Len(result.text))]

-----------------------------------------------------------------------------
(* A capture: capture_once() and refresh_files()                           *)

(* The inventory and _commit_preflight(); a source that is not parsed now  *)
(* goes straight to the ledger, one that no longer continues its           *)
(* checkpoint is put off without opening it.                               *)
BeginCapture ==
  /\ job.at = "idle"
  /\ LET e == Stat
         r == IF e # None THEN Upserted(row, e)
              ELSE IF row = None THEN None ELSE [row EXCEPT !.missing = TRUE]
         begun(at, ck, result) ==
           job' = [Idle EXCEPT !.at = at, !.entry = e, !.ck = ck,
                               !.result = result]
     IN  /\ row' = r
         /\ IF e = None THEN begun("sync", None, None)
            ELSE IF Reusable(r, e) THEN begun("sync", None, None)
            ELSE IF r.ck = None THEN begun("open", None, None)
            ELSE IF Eligible(r, e) /\ ~pending THEN begun("open", r.ck, None)
            ELSE begun("record", None, [kind |-> "stale"])
  /\ UNCHANGED <<file, source, gen, past, epoch, pending, stage, queued,
                 barred, count>>

(* parse_usage_request(): an attempt that is retried changes nothing, so   *)
(* the failure here is that of the last one.                               *)
OpenFails ==
  /\ job.at = "open"
  /\ IF file # None /\ Len(file.text) >= job.entry.size
     THEN Spend("failures", MaxFailures)
     ELSE UNCHANGED count
  /\ job' = [job EXCEPT !.at = "record", !.result = [kind |-> "error"]]
  /\ UNCHANGED <<file, ledger, stage, queued, barred>>

Quantum == IF job.who = "capture" THEN CaptureQuantum ELSE SliceQuantum

Open ==
  /\ job.at = "open"
  /\ file # None /\ Len(file.text) >= job.entry.size
  /\ LET continued == job.ck # None /\ Matches(job.ck)
         start == IF continued THEN Len(job.ck.text) ELSE 0
     IN  IF job.ck # None /\ ~Matches(job.ck) /\ job.who = "capture"
         THEN job' = [job EXCEPT !.at = "record", !.result = [kind |-> "stale"]]
         ELSE \E upto \in 0..Len(file.text) :
                /\ Reaches(file.text, start, job.entry.size, Quantum, upto)
                /\ job' = [job EXCEPT !.at = "seal",
                     !.result = [kind |-> IF continued THEN "append" ELSE "full",
                                 ino |-> file.ino,
                                 text |-> SubSeq(file.text, 1, upto)]]
  /\ UNCHANGED <<file, ledger, stage, queued, barred, count>>

(* The last checks of _parse_session_chunk(): is the path still the file   *)
(* that was read?  If not it is read again or given up.                    *)
Seal ==
  /\ job.at = "seal"
  /\ IF file # None /\ file.ino = job.result.ino
                    /\ Len(file.text) >= job.entry.size
     THEN job' = [job EXCEPT !.at = "record"]
     ELSE \/ job' = [job EXCEPT !.at = "open", !.result = None]
          \/ job' = [job EXCEPT !.at = "record", !.result = [kind |-> "error"]]
  /\ UNCHANGED <<file, ledger, stage, queued, barred, count>>

(* _commit_result_group() in the ledger's database.  A new checkpoint is a *)
(* new origin: a staging database bound to the old one is worthless.       *)
Record ==
  /\ job.at = "record" /\ job.who = "capture"
  /\ LET r == Parsed(row, job.entry, job.result)
         renewed == job.result.kind \in {"full", "append"}
     IN  /\ row' = r
         /\ stage' = IF stage # None /\ renewed THEN [stage EXCEPT !.live = FALSE]
                     ELSE stage
         /\ barred' = (barred /\ ~renewed /\ r.size = row.size
                              /\ r.mtime = row.mtime)
  /\ job' = [job EXCEPT !.at = "sync"]
  /\ UNCHANGED <<file, source, gen, past, epoch, pending, queued, count>>

-----------------------------------------------------------------------------
(* synchronize_parser_workset(): row r is mirrored into the ledger whose   *)
(* trusted generation is g.                                                *)

Observed(r) == r # None /\ ~(r.missing /\ r.ck = None)

Reported(r, due) ==
  IF due /\ r.error = "none" THEN [r EXCEPT !.error = "stale"] ELSE r

Mirror(r) == [ino |-> IF r.ck = None THEN None ELSE r.ck.ino, size |-> r.size,
              mtime |-> r.mtime, missing |-> r.missing, error |-> r.error]

NeedsSync(r, g) ==
  /\ r.ck # None /\ r.error = "none" /\ ~r.missing
  /\ \/ g = None
     \/ Mirror(r) # source
     \/ g.text # r.ck.text \/ g.mtime # r.mtime
     \/ Len(g.events) # Len(r.records)

(* _verify_source_guards() of the row's own checkpoint.                    *)
Verified(r) == file # None /\ Matches(r.ck)

Replaces(r, g) ==
  \/ g = None
  \/ source # None /\ source.ino # r.ck.ino
  \/ ~IsPrefix(g.text, file.text)
  \/ Len(r.ck.text) < Len(g.text)
  \/ Len(r.records) < Len(g.events)

Generation(r, g) ==
  [text |-> r.ck.text, mtime |-> r.mtime,
   events |-> IF Replaces(r, g) THEN r.records
              ELSE g.events \o SubSeq(r.records, Len(g.events) + 1,
                                      Len(r.records))]

\* Mutant: a replaced generation is deleted.
SupersededLost(g) == {}

Superseded(g) == IF g = None THEN {} ELSE {g.events}

(* The transaction, unless the guards do not hold.                         *)
Synchronize(r, g, due) ==
  LET synced == Observed(r) /\ NeedsSync(r, g)
      next == IF synced THEN Generation(r, g) ELSE g
  IN  /\ synced => Verified(r)
      /\ row' = r
      /\ gen' = next
      /\ past' = past \cup (IF g # gen THEN Superseded(gen) ELSE {})
                      \cup (IF synced /\ Replaces(r, g) THEN Superseded(g) ELSE {})
      /\ source' = IF Observed(r) /\ ~(r.missing /\ next = None) THEN Mirror(r)
                   ELSE IF source = None \/ next = None THEN None
                   ELSE [source EXCEPT !.missing = TRUE]
      /\ pending' = due

Stale(s) == s # None /\ s.error # "none" /\ ~s.missing

\* Mutant: a stale source is counted as behind.
BehindStale(s, g) ==
  /\ s # None /\ ~s.missing
  /\ (IF g = None THEN 0 ELSE Len(g.text)) < s.size

(* pending_incremental_source_count()                                      *)
Behind(s, g) ==
  /\ s # None /\ ~s.missing /\ s.error = "none"
  /\ (IF g = None THEN 0 ELSE Len(g.text)) < s.size

(* A capture that leaves parts behind is followed by another one, any      *)
(* other by the rebuilds.                                                  *)
Sync ==
  /\ job.at = "sync"
  /\ LET r == IF row = None THEN None ELSE Reported(row, pending)
     IN  IF Observed(r) /\ NeedsSync(r, gen) /\ ~Verified(r)
         THEN UNCHANGED <<ledger, queued, barred>>
         ELSE /\ Synchronize(r, gen, pending)
              /\ IF Behind(source', gen')
                 THEN UNCHANGED <<queued, barred>>
                 ELSE /\ barred' = (barred /\ Stale(source'))
                      /\ queued' = (Stale(source') /\ ~barred')
  /\ job' = Idle
  /\ UNCHANGED <<file, epoch, stage, count>>

-----------------------------------------------------------------------------
(* A slice of the rebuild: rebuild_stale_source_slice()                    *)

GiveUp(forGood) ==
  /\ job' = Idle /\ queued' = FALSE /\ barred' = forGood
  /\ UNCHANGED <<file, ledger, stage, count>>

(* bind_rebuild_authority() of a staging database that exists or not.  Its *)
(* header is bound before anything is parsed.                              *)
Bound ==
  IF stage = None THEN [live |-> TRUE, header |-> None, row |-> None]
  ELSE IF stage.header = None /\ stage.row.ck # None
       THEN IF stage.row.ck.text # <<>>
            THEN [stage EXCEPT !.header = stage.row.ck.text[1]] ELSE stage
       ELSE stage

BeginSlice ==
  /\ job.at = "idle" /\ queued
  /\ IF ~Stale(source) THEN GiveUp(FALSE)
     ELSE IF file = None THEN GiveUp(FALSE)
     ELSE IF row.ck = None THEN GiveUp(TRUE)
     ELSE IF stage # None /\ ~Bound.live THEN GiveUp(TRUE)
     ELSE LET e == Stat
              r == Upserted(Bound.row, e)
          IN  /\ stage' = [Bound EXCEPT !.row = r]
              /\ job' = [Idle EXCEPT !.who = "slice", !.entry = e,
                   !.at = IF Reusable(r, e) THEN "check" ELSE "open",
                   !.ck = IF Eligible(r, e) THEN r.ck ELSE None,
                   !.before = IF r.ck = None THEN 0 ELSE Len(r.ck.text)]
              /\ UNCHANGED <<file, ledger, queued, barred, count>>

(* _commit_result_group() in the staging database.                         *)
RecordStaged ==
  /\ job.at = "record" /\ job.who = "slice"
  /\ stage' = [stage EXCEPT !.row = Parsed(@, job.entry, job.result)]
  /\ job' = [job EXCEPT !.at = "check"]
  /\ UNCHANGED <<file, ledger, queued, barred, count>>

(* validate_staged_capture() and what follows from it.                     *)
Check ==
  /\ job.at = "check"
  /\ LET r == stage.row
         header == r.ck.text[1]
         captured == Len(r.ck.text)
     IN  IF r.ck = None THEN GiveUp(FALSE)
         ELSE IF r.error # "none" THEN GiveUp(FALSE)
         ELSE IF r.ck.text = <<>> THEN GiveUp(FALSE)
         ELSE IF stage.header \notin {None, header} THEN GiveUp(TRUE)
         ELSE /\ stage' = [stage EXCEPT !.header = header]
              /\ IF r.ck.ino # job.entry.ino
                 THEN job' = Idle /\ queued' = FALSE /\ barred' = TRUE
                 ELSE IF captured = job.entry.size
                 THEN /\ job' = [job EXCEPT !.at = "verify"]
                      /\ UNCHANGED <<queued, barred>>
                 ELSE /\ job' = Idle
                      /\ queued' = (captured > job.before)
                      /\ UNCHANGED barred
              /\ UNCHANGED <<file, ledger, count>>

Unchanged ==
  file # None /\ [Stat EXCEPT !.ctime = 0] = [job.entry EXCEPT !.ctime = 0]

(* The start of _install_completed_rebuild(): the staged content is the    *)
(* file's.  The snapshot is kept for the commit.  A file that changed is   *)
(* found out by its stat or by its content.                                *)
Verify ==
  /\ job.at = "verify"
  /\ IF Unchanged /\ Matches(stage.row.ck)
     THEN /\ job' = [job EXCEPT !.at = "install", !.entry = Stat]
          /\ UNCHANGED <<file, ledger, stage, queued, barred, count>>
     ELSE \E forGood \in BOOLEAN :
            (Unchanged => forGood) /\ GiveUp(forGood)

(* The transaction of _install_completed_rebuild().                        *)
Authorized == (row.error = "stale" \/ pending) /\ stage.live

Install ==
  /\ job.at = "install"
  /\ Authorized /\ Stat = job.entry
  /\ Synchronize(stage.row, None, FALSE)
  /\ stage' = [stage EXCEPT !.live = FALSE]
  /\ job' = [Idle EXCEPT !.at = "clean"]
  /\ queued' = FALSE /\ barred' = FALSE
  /\ UNCHANGED <<file, epoch, count>>

InstallRefused ==
  /\ job.at = "install"
  /\ \/ ~Authorized /\ GiveUp(TRUE)
     \/ Authorized /\ Stat # job.entry /\ GiveUp(FALSE)

Clean ==
  /\ job.at = "clean"
  /\ stage' = None
  /\ job' = Idle
  /\ UNCHANGED <<file, ledger, queued, barred, count>>

(* The agent dies; the queue is lost with it.                              *)
Crash ==
  /\ job.at # "idle"
  /\ Spend("failures", MaxFailures)
  /\ job' = Idle /\ queued' = FALSE /\ barred' = FALSE
  /\ UNCHANGED <<file, ledger, stage>>

-----------------------------------------------------------------------------
Environment ==
  Create \/ Grow \/ Replace \/ Rewrite \/ Delete \/ Invalidate \/ Crash

Step ==
  \/ Open \/ OpenFails \/ Seal \/ Record \/ Sync
  \/ RecordStaged \/ Check \/ Verify \/ Install \/ InstallRefused \/ Clean

Next == Environment \/ BeginCapture \/ BeginSlice \/ Step

Spec == Init /\ [][Next]_vars

(* The lane's worker finishes what it began, captures come round, and so   *)
(* does a queued rebuild between them.                                     *)
Fairness ==
  WF_vars(Step) /\ WF_vars(BeginCapture) /\ SF_vars(BeginSlice)

FairSpec == Spec /\ Fairness

-----------------------------------------------------------------------------
(* The records of a row and the events of a generation are exactly those   *)
(* of the content its checkpoint vouches for: no row twice, none missing,  *)
(* none of another content, however captures, rebuilds and changes of the  *)
(* file interleave.                                                        *)
OneContent ==
  /\ row # None => row.records = (IF row.ck = None THEN <<>> ELSE row.ck.text)
  /\ gen # None => gen.events = gen.text
  /\ stage # None => (stage.row # None =>
       stage.row.records = (IF stage.row.ck = None THEN <<>>
                            ELSE stage.row.ck.text))

(* A source the ledger reports as neither stale nor missing, under the     *)
(* size and time the file has now, was accounted from the file's content.  *)
HonestCoverage ==
  (/\ file # None /\ source # None /\ gen # None
   /\ source.error = "none" /\ ~source.missing
   /\ source.size = Len(file.text) /\ source.mtime = file.mtime
   /\ source.ino = file.ino)
     => IsPrefix(gen.events, file.text)

(* What was trusted once is extended or kept as superseded, never dropped: *)
(* neither by a capture of other content nor by a rebuild.                 *)
TrustedNeverLost ==
  [][/\ past \subseteq past'
     /\ gen # None => \/ gen' # None /\ IsPrefix(gen.events, gen'.events)
                      \/ gen.events \in past']_vars

(* Nothing becomes trusted that is not the beginning of the file at that   *)
(* moment: a parse result or a staged rebuild may be long out of date.     *)
PromotedIsReal ==
  [][gen' # gen => file # None /\ IsPrefix(gen'.events, file.text)]_vars

(* A pending repair is only settled by the commit of a complete rebuild,   *)
(* which is the whole file at that moment; until then neither a capture    *)
(* nor anything else makes new content trusted.                            *)
PendingIsRepaired ==
  [][pending /\ (~pending' \/ gen' # gen) =>
       /\ job.at = "install" /\ stage.live
       /\ gen'.events = file.text]_vars

(* What the two rest on.  A checkpoint and the records it vouches for only *)
(* change together, and what a job has in hand continues them.             *)
JobContinues ==
  LET parsed == IF job.who = "capture" THEN row ELSE IF stage = None THEN None ELSE stage.row
  IN  /\ stage # None => stage.row # None /\ ~stage.row.missing
      /\ job.at \in {"open", "seal", "record", "check", "verify", "install"} =>
           job.entry # None /\ parsed # None
      /\ job.who = "slice" => job.before \in Nat
      /\ job.at \in {"open", "seal", "record"} /\ job.ck # None => job.ck = parsed.ck
      /\ job.at \in {"check", "verify", "install"} => job.who = "slice"
      /\ job.at \in {"seal", "record"} => job.result # None
      /\ job.at = "seal" => job.result.kind \in {"full", "append"}
      /\ job.at \in {"seal", "record"} /\ job.result.kind = "append" =>
           job.ck # None /\ IsPrefix(job.ck.text, job.result.text)
      /\ job.at \in {"verify", "install"} =>
           /\ parsed.ck # None /\ parsed.error = "none"
           /\ Len(parsed.ck.text) = job.entry.size
      /\ job.at = "clean" => stage # None

(* An inode and a modification time name one content for good: the file    *)
(* never has both again with another one.                                  *)
Sampled(ino, mtime, text) ==
  /\ mtime <= count.writes
  /\ file # None /\ mtime = file.mtime =>
       ino <= file.ino /\ (ino = file.ino => IsPrefix(text, file.text))

RowIsSampled(r) ==
  r # None /\ r.ck # None /\ r.error = "none" => Sampled(r.ck.ino, r.mtime, r.ck.text)

SamplesAreTrue ==
  /\ file # None => file.mtime <= count.writes
  /\ RowIsSampled(row)
  /\ stage # None => RowIsSampled(stage.row)
  /\ source # None /\ gen # None /\ source.error = "none" /\ ~source.missing
       /\ source.ino # None => Sampled(source.ino, source.mtime, gen.text)
  /\ job.entry # None => /\ job.entry.mtime <= count.writes
                         /\ file # None => job.entry.mtime <= file.mtime
  /\ job.at \in {"seal", "record"} /\ job.result.kind \in {"full", "append"} =>
       Sampled(job.result.ino, job.entry.mtime, job.result.text)

(* The ledger holds one content of the file, and says honestly how much.   *)
SourceIsSafe ==
  TypeOK /\ OneContent /\ HonestCoverage /\ JobContinues /\ SamplesAreTrue

(* Trust is given to what is in the file, kept, and withdrawn from what an *)
(* invalidation or a replacement leaves to be repaired.                    *)
TrustIsEarned == TrustedNeverLost /\ PromotedIsReal /\ PendingIsRepaired

(* A readable file that stays as it is and ends with a whole row is        *)
(* captured in the end, by appends or by a rebuild, unless it is a copy    *)
(* that kept an old mtime, or a read error or an old staging database is   *)
(* in the way.                                                             *)
Readable ==
  /\ file # None /\ file.text[Len(file.text)] \notin Halves
  /\ file.mtime = file.ctime
  /\ row # None => row.error # "other"
  /\ stage # None =>
       /\ stage.live
       /\ stage.header \in {None, file.text[1]}
       /\ stage.row # None => stage.row.error = "none"

Captured ==
  /\ source # None /\ source.error = "none" /\ ~source.missing
  /\ gen # None /\ gen.events = file.text

ReadableIsCaptured == <>[]Readable => <>[](file # None /\ Captured)

(* A file that nobody changes any more is no longer opened, as the         *)
(* README's "unchanged cycles [...] open zero JSONLs" has it.              *)
UnchangedStaysClosed == <>[](job.at # "open")
=============================================================================
