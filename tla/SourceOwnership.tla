--------------------------- MODULE SourceOwnership ---------------------------
(***************************************************************************)
(* Which file of a session is the one that counts: session_inventory.py,   *)
(* session_cache_refresh.py, session_cache_refresh_identity.py,            *)
(* session_cache_ownership.py, session_cache_generations.py,               *)
(* session_cache_requests.py, session_cache_work_plans.py and              *)
(* session_cache_store.py.                                                 *)
(*                                                                         *)
(* Codex keeps a session in its active or in its archived directory; a     *)
(* move, a copy, a restored backup leave several files of one session.     *)
(* The cache has a row for each: the row under the session's own key owns  *)
(* the session, the others are kept under a key made of their path.  The   *)
(* inventory of a refresh starts from the paths alone; what the cache      *)
(* knows, and what the parser finds, moves a row to the session's key.     *)
(* One refresh is an inventory with the transaction that follows it, and   *)
(* the transaction that commits what was parsed; Codex goes on between.    *)
(*                                                                         *)
(* A file's key of its path is the path.  Bytes are counted in units and a *)
(* generation is the file it was read from and how much of it was read.    *)
(***************************************************************************)
EXTENDS Naturals, FiniteSets, FiniteSetsExt

CONSTANTS Paths,          \* paths 1, 2, ... in the inventory's order
          StateOf(_),     \* 0 active, 1 archived, 2 any other directory
          Session,        \* the session's key
          None,
          MaxSize, MaxChanges, MaxFailures, \* bounds
          Rounds          \* refreshes that settle who owns the session

VARIABLES
  file,     \* the copies on disk: inode, size and time of change
  row,      \* the rows of files, their checkpoint and generation
  deferred, \* changed sources wait for a rebuild: an agent's capture
  refresh,  \* the refresh between its two transactions
  calm,     \* complete refreshes since a file changed or one failed
  changes, failures

vars == <<file, row, deferred, refresh, calm, changes, failures>>

SourceKeys == Paths \cup {Session}
Present == {p \in Paths : file[p] # None}

Init ==
  /\ file = [p \in Paths |-> None]
  /\ row = [k \in SourceKeys |-> None]
  /\ deferred \in BOOLEAN
  /\ refresh = None /\ calm = 0
  /\ changes = 0 /\ failures = 0

(*************************** what Codex does *******************************)

Change(f) == changes < MaxChanges /\ changes' = changes + 1 /\ file' = f /\ calm' = 0
             /\ UNCHANGED <<row, deferred, refresh, failures>>

Create(p) == Present = {} /\ Change([file EXCEPT ![p] =
               [ino |-> changes + 1, size |-> 1, mtime |-> changes + 1]])

Grow(p) == /\ file[p] # None /\ file[p].size < MaxSize
           /\ Change([file EXCEPT ![p].size = @ + 1, ![p].mtime = changes + 1])

Move(p, q) == /\ file[p] # None /\ file[q] = None
              /\ Change([file EXCEPT ![p] = None, ![q] = file[p]])

\* A copy is a file of its own; it may keep the time of the file it copies.
Copy(p, q) == /\ file[p] # None /\ file[q] = None
              /\ \E t \in {file[p].mtime, changes + 1} :
                   Change([file EXCEPT ![q] = [file[p] EXCEPT !.ino = changes + 1,
                                                              !.mtime = t]])

Delete(p) == file[p] # None /\ Change([file EXCEPT ![p] = None])

(******************************* the keys **********************************)

\* Active before archived before any other; then the newest; then by path.
Before(f, p, q) ==
  \/ StateOf(p) < StateOf(q)
  \/ StateOf(p) = StateOf(q) /\ f[p].mtime > f[q].mtime
  \/ StateOf(p) = StateOf(q) /\ f[p].mtime = f[q].mtime /\ p < q
Best(f, ps) == CHOOSE p \in ps : \A q \in ps \ {p} : Before(f, p, q)

\* The one row with the entry's path gives the entry its key.
Reconciled(p) == IF {k \in SourceKeys : row[k] # None /\ row[k].path = p} = {Session}
                 THEN Session ELSE p

Parsed(r) == r # None /\ r.gen # None
Identified(r) == Parsed(r) /\ ~r.missing

MutReusable(r, f, p) ==
  /\ r # None
  /\ r.path = p /\ r.size = f[p].size /\ r.mtime = f[p].mtime
  /\ r.error \/ (r.gen # None /\ r.gen.upto = f[p].size /\ r.gen.ino = f[p].ino)

Reusable(r, f, p) ==
  /\ r # None /\ ~r.missing
  /\ r.path = p /\ r.size = f[p].size /\ r.mtime = f[p].mtime
  /\ r.error \/ (r.gen # None /\ r.gen.upto = f[p].size /\ r.gen.ino = f[p].ino)

\* A row moves to another key; what was there is deleted first, also when
\* the keys are the same.
Rekeyed(rows, from, to, p) ==
  IF from = to \/ rows[from] = None THEN [rows EXCEPT ![to] = None]
  ELSE [rows EXCEPT ![to] = [rows[from] EXCEPT !.path = p], ![from] = None]

(************************* the first transaction ***************************)

Promoted(key) ==
  LET known == {p \in Present : Identified(row[key[p]])}
      winner == Best(file, known)
  IN  IF /\ known # {} /\ key[winner] # Session
         /\ Reusable(row[key[winner]], file, winner)
      THEN [row |-> Rekeyed(row, key[winner], Session, winner),
            key |-> [key EXCEPT ![winner] = Session], named |-> {winner}]
      ELSE [row |-> row, key |-> key, named |-> {}]

Pending(p) == [path |-> p, size |-> file[p].size, mtime |-> file[p].mtime,
               missing |-> FALSE, error |-> FALSE, gen |-> None]
Untouched(r) == r # None => r.gen = None /\ ~r.error

Upserted(rows, key) ==
  [k \in SourceKeys |-> LET ps == {p \in Present : key[p] = k} IN
     IF ps # {} /\ Untouched(rows[k]) THEN Pending(Max(ps)) ELSE rows[k]]

MutMissed(rows, key) ==
  [k \in SourceKeys |-> IF rows[k] # None /\ k \notin {key[p] : p \in Present}
                  THEN None ELSE rows[k]]

Missed(rows, key) ==
  [k \in SourceKeys |-> IF rows[k] # None /\ k \notin {key[p] : p \in Present}
                  THEN [rows[k] EXCEPT !.missing = TRUE] ELSE rows[k]]

\* An active file goes on from its checkpoint; an archived one only when a
\* slice of it is left.
Resumable(r, p) ==
  /\ r.gen # None /\ r.path = p /\ ~r.missing
  /\ StateOf(p) = 0 \/ (r.size = file[p].size /\ r.gen.upto < file[p].size)
  /\ r.gen.ino = file[p].ino /\ r.gen.upto < file[p].size

Asked(rows, key, p) ==
  LET r == rows[key[p]] IN
    CASE Resumable(r, p) -> [kind |-> "append", from |-> r.gen]
      [] ~Resumable(r, p) /\ deferred /\ r.gen # None -> [kind |-> "stale"]
      [] OTHER -> [kind |-> "full"]

\* Which of the requests the budget of a capture admits is left open; those
\* that wait for a rebuild cost nothing.
Admitted(asked) ==
  LET free == {p \in DOMAIN asked : asked[p].kind = "stale"} IN
    IF deferred
    THEN {free \cup ps : ps \in {qs \in SUBSET (DOMAIN asked \ free) :
                                  qs # {} \/ DOMAIN asked = free}}
    ELSE {DOMAIN asked}

Later == IF calm < Rounds THEN calm + 1 ELSE calm

Begin ==
  LET promoted == Promoted([p \in Present |-> Reconciled(p)])
      key == promoted.key
      rows == Missed(Upserted(promoted.row, key), key)
      work == {p \in Present : ~Reusable(rows[key[p]], file, p)}
      asked == [p \in work |-> Asked(rows, key, p)]
  IN  /\ refresh = None
      /\ row' = rows
      /\ \E ps \in Admitted(asked) :
           /\ refresh' = IF ps = {} THEN None
                         ELSE [seen |-> file, key |-> key, named |-> promoted.named,
                               asked |-> [p \in ps |-> asked[p]]]
           /\ calm' = IF ps = {} THEN Later ELSE calm
      /\ UNCHANGED <<file, deferred, changes, failures>>

(************************* the second transaction **************************)

\* What a worker returns: the file is read as far as it was seen, or less
\* of it in a capture; it may be gone or unreadable.
Results(p, ask, failing) ==
  LET size == refresh.seen[p].size
      Upto(low) == IF deferred THEN (low + 1)..size ELSE {size}
      full == {[kind |-> "full", gen |-> [ino |-> file[p].ino, upto |-> n]] :
                 n \in Upto(0)}
  IN  CASE ask.kind = "stale" -> {[kind |-> "stale"]}
        [] ask.kind # "stale" /\ (p \in failing \/ file[p] = None) ->
             {[kind |-> "error"]}
        [] ask.kind = "append" /\ p \notin failing /\ file[p] # None ->
             IF file[p].ino # ask.from.ino
             THEN IF deferred THEN {[kind |-> "stale"]} ELSE full
             ELSE {[kind |-> "append", gen |-> [ino |-> file[p].ino, upto |-> n]] :
                     n \in Upto(ask.from.upto)}
        [] ask.kind = "full" /\ p \notin failing /\ file[p] # None -> full

SeenRow(p, error, gen) ==
  [path |-> p, size |-> refresh.seen[p].size, mtime |-> refresh.seen[p].mtime,
   missing |-> FALSE, error |-> error, gen |-> gen]

WithError(st, p, results) ==
  LET lost == /\ st.key[p] = Session /\ p \notin refresh.named
              /\ \E q \in DOMAIN results : results[q].kind \in {"append", "full"}
      k == IF lost THEN p ELSE st.key[p]
  IN  [st EXCEPT !.key[p] = k,
        !.row[k] = IF @ = None THEN SeenRow(p, TRUE, None)
                   ELSE [@ EXCEPT !.missing = FALSE, !.error = TRUE]]

WithStale(st, p) ==
  [st EXCEPT !.row[st.key[p]] = SeenRow(p, TRUE, @.gen)]

WithAppend(st, p, gen) ==
  [st EXCEPT !.row[st.key[p]] = SeenRow(p, FALSE, gen)]

\* A key of a path that is not yet known to be one is kept as it is: the
\* entry a reconciled row gave the session's key keeps it.
Fallback(st, p) == IF p \in st.named THEN p ELSE st.key[p]

Replaced(st, p, k, gen) ==
  LET others == {a \in SourceKeys \ {k} : st.row[a] # None /\ st.row[a].path = p}
  IN  [st EXCEPT !.key[p] = k,
        !.named = IF k = Session THEN @ ELSE @ \ {p},
        !.row = [a \in SourceKeys |-> CASE a = k -> SeenRow(p, FALSE, gen)
                                        [] a \in others -> None
                                        [] OTHER -> st.row[a]]]

\* The best file parsed in this group takes the session's key, unless a
\* better one in the inventory holds it.
WithGeneration(st, p, gen, winner) ==
  LET rivals == {q \in DOMAIN st.key \ {p} : st.key[q] = Session}
      rival == Best(refresh.seen, rivals)
      yielded == Fallback(st, rival)
      taken == [st EXCEPT !.row = Rekeyed(@, Session, yielded, rival),
                          !.key[rival] = yielded, !.named = @ \ {rival}]
      Named(s) == [s EXCEPT !.named = IF st.key[p] = Session THEN @ ELSE @ \cup {p}]
  IN  CASE p # winner -> Replaced(st, p, Fallback(st, p), gen)
        [] p = winner /\ rivals = {} -> Replaced(Named(st), p, Session, gen)
        [] p = winner /\ rivals # {} /\ Before(refresh.seen, rival, p) ->
             Replaced(st, p, Fallback(st, p), gen)
        [] p = winner /\ rivals # {} /\ ~Before(refresh.seen, rival, p) ->
             Replaced(Named(taken), p, Session, gen)

\* One result after the other; the winner is the best of the files that were
\* read as a whole.
Applied(results, p, st) ==
  LET winner == Best(refresh.seen, {q \in DOMAIN results : results[q].kind = "full"}) IN
    CASE results[p].kind = "error" -> WithError(st, p, results)
      [] results[p].kind = "stale" -> WithStale(st, p)
      [] results[p].kind = "append" -> WithAppend(st, p, results[p].gen)
      [] results[p].kind = "full" -> WithGeneration(st, p, results[p].gen, winner)

\* Errors first; then the results, the worst copy first.
LastOf(results, ps) ==
  LET right == {p \in ps : results[p].kind # "error"}
  IN  IF right = {} THEN Max(ps) ELSE Best(refresh.seen, right)

Committed(results) ==
  MapThenFoldSet(LAMBDA p, st : Applied(results, p, st),
                 [row |-> row, key |-> refresh.key, named |-> refresh.named],
                 LAMBDA p : p, LAMBDA ps : LastOf(results, ps), DOMAIN results)

Commit ==
  /\ refresh # None
  /\ \E failing \in SUBSET DOMAIN refresh.asked :
       /\ failures + Cardinality(failing) <= MaxFailures
       /\ failures' = failures + Cardinality(failing)
       /\ calm' = IF failing = {} /\ refresh.seen = file THEN Later ELSE 0
       /\ \E results \in {f \in [DOMAIN refresh.asked ->
               UNION {Results(p, refresh.asked[p], failing) : p \in DOMAIN refresh.asked}] :
               \A p \in DOMAIN f : f[p] \in Results(p, refresh.asked[p], failing)} :
            row' = Committed(results).row
  /\ refresh' = None
  /\ UNCHANGED <<file, deferred, changes>>

\* The process ends between the transactions.
Interrupt == /\ refresh # None /\ failures < MaxFailures
             /\ refresh' = None /\ failures' = failures + 1 /\ calm' = 0
             /\ UNCHANGED <<file, row, deferred, changes>>

\* The agent's queue parses a waiting source anew and replaces its row.
Rebuild(k) ==
  /\ deferred /\ refresh = None
  /\ row[k] # None /\ row[k].error /\ ~row[k].missing /\ row[k].path \in Present
  /\ LET p == row[k].path IN
       row' = [row EXCEPT ![k] = [path |-> p, size |-> file[p].size,
                 mtime |-> file[p].mtime, missing |-> FALSE, error |-> FALSE,
                 gen |-> [ino |-> file[p].ino, upto |-> file[p].size]]]
  /\ UNCHANGED <<file, deferred, refresh, calm, changes, failures>>

Next ==
  \/ \E p \in Paths : Create(p) \/ Grow(p) \/ Delete(p)
  \/ \E p, q \in Paths : Move(p, q) \/ Copy(p, q)
  \/ Begin \/ Commit \/ Interrupt
  \/ \E k \in SourceKeys : Rebuild(k)

Spec == Init /\ [][Next]_vars

(***************************** properties **********************************)

Stats == [ino : Nat, size : 1..MaxSize, mtime : Nat]
Gens == [ino : Nat, upto : 1..MaxSize]
Rows == [path : Paths, size : Nat, mtime : Nat, missing : BOOLEAN,
         error : BOOLEAN, gen : Gens \cup {None}]
Requests == [kind : {"full", "stale"}] \cup [kind : {"append"}, from : Gens]

\* What a refresh on its way has seen and asked for.
RefreshTypeOK ==
  refresh # None =>
    /\ refresh.seen \in [Paths -> Stats \cup {None}]
    /\ \E ps \in SUBSET Paths :
         /\ refresh.key \in [ps -> SourceKeys]
         /\ \A p \in ps : refresh.seen[p] # None
         /\ \E qs \in SUBSET ps : refresh.asked \in [qs -> Requests]
    /\ refresh.named \subseteq Paths

TypeOK == /\ file \in [Paths -> Stats \cup {None}] /\ changes \in Nat
          /\ row \in [SourceKeys -> Rows \cup {None}]
          /\ RefreshTypeOK

\* A session that was counted goes on being counted, whatever its files do
\* and wherever a refresh fails or ends.
KeepsCounted ==
  Parsed(row[Session]) => Parsed(row'[Session])
StaysCounted == [][KeepsCounted]_vars

\* What it rests on.  Files are dated by the changes, so one of them is the
\* newest.
DatedByChanges ==
  /\ \A p \in Present : file[p].mtime <= changes
  /\ refresh # None =>
       \A p \in DOMAIN refresh.key : refresh.seen[p].mtime <= changes

\* While a file has the session's key, the file of the session's row was
\* given it by that row, if the refresh has asked for it: no other key is
\* put in its place.
OwnerKeepsKey ==
  (refresh # None /\ \E q \in DOMAIN refresh.key : refresh.key[q] = Session) =>
    \A p \in DOMAIN refresh.asked :
      row[Session].path = p => refresh.key[p] = Session /\ p \notin refresh.named

\* A row is of the path its key is made of, and a refresh has a row for every
\* file it has found.
RowsAreTheirs ==
  /\ \A p \in Paths : row[p] # None => row[p].path = p
  /\ refresh # None => \A p \in DOMAIN refresh.key :
       refresh.key[p] \in {p, Session} /\ row[refresh.key[p]] # None

OwnershipInv == TypeOK /\ DatedByChanges /\ RowsAreTheirs /\ OwnerKeepsKey

\* A few refreshes without a change leave the session owned by the best of
\* its files, read to its end, unless that file could not be read.
Owned == Present # {} =>
  LET p == Best(file, Present)
      r == row[Session]
  IN  \/ row[Reconciled(p)] # None /\ row[Reconciled(p)].error
      \/ /\ Parsed(r) /\ r.path = p /\ ~r.missing
         /\ r.gen = [ino |-> file[p].ino, upto |-> file[p].size]
BestCopyOwns == ~deferred /\ calm = Rounds => Owned

\* A report counts, of the files it found, one row for the session, and the
\* rows of the files that are gone: of one session it counts one row.
Reported ==
  LET found == {p \in Present : LET k == Reconciled(p) IN
                  k = Session \/ (Identified(row[k]) /\ ~row[k].error)}
  IN  {k \in SourceKeys : Parsed(row[k]) /\
         (row[k].missing \/ (found # {} /\ k = Reconciled(Best(file, found))))}
ReportedOnce == ~deferred /\ calm > 0 => Cardinality(Reported) <= 1
=============================================================================
