--------------------------- MODULE HistoryReuse ---------------------------
(***************************************************************************)
(* What the allowance report may reuse.  A report is computed from a       *)
(* pinned snapshot of the ledger; the fits of its windows, the causal pace *)
(* state of a prefix of its readings, its decoded readings and the whole   *)
(* report are kept and used again while the triggers in the database say   *)
(* that nothing they rest on has changed.                                  *)
(*                                                                         *)
(* A moment is a number of half seconds, since the triggers round to whole *)
(* ones.  The meter is one series of percentages; a falling meter starts a *)
(* window; a fit is what it is computed from, the readings of its window   *)
(* and every cost up to its end; the pace state is the readings folded so  *)
(* far.                                                                    *)
(***************************************************************************)
EXTENDS Integers, FiniteSets

CONSTANTS UsageTimes,   \* moments at which usage is recorded
          QuotaTimes,   \* moments at which the meter is read
          Horizon,      \* bound on the moments
          Percents,     \* readings of the meter
          Readers,      \* report requests
          Limit,        \* entries the journal of quota changes keeps
          MaxWrites,    \* bound on the transactions of collectors
          MaxReads,     \* bound on the reports
          None

VARIABLES db,       \* the ledger: facts, counters and derived tables
          memo,     \* readings decoded by an earlier request, in the agent
          reader,   \* the report each request is preparing
          writes, reads

vars == <<db, memo, reader, writes, reads>>

Unbounded == Horizon + 3
Least(a, b) == IF a <= b THEN a ELSE b
Greatest(a, b) == IF a <= b THEN b ELSE a
Earliest(S) == CHOOSE t \in S : \A u \in S : t <= u
Latest(S) == CHOOSE t \in S : \A u \in S : u <= t

-----------------------------------------------------------------------------
(* Facts and what a report computes from them, from nothing.  The readings *)
(* are a function of their moments.                                        *)
Readings(q) == [t \in {u \in QuotaTimes : q[u] # None} |-> q[t]]

Falls(s, t) ==
  \E u \in DOMAIN s : u < t /\ s[t] < s[u] /\ \A v \in DOMAIN s : v <= u \/ t <= v

Piece(s, a, b) ==
  [start |-> a, end |-> b, readings |-> [t \in {u \in DOMAIN s : a <= u /\ u <= b} |-> s[t]]]
IsWindow(s, a, b) ==
  /\ a <= b
  /\ Falls(s, a) \/ \A t \in DOMAIN s : a <= t
  /\ \A t \in DOMAIN s : b < t => \E u \in DOMAIN s : b < u /\ u <= t /\ Falls(s, u)
  /\ \A t \in DOMAIN s : a < t /\ t <= b => ~Falls(s, t)
WindowsOf(s) ==
  {Piece(s, p[1], p[2]) : p \in {p \in (DOMAIN s) \X (DOMAIN s) : IsWindow(s, p[1], p[2])}}

FitOf(usage, w) == <<w, [t \in {u \in UsageTimes : u <= w.end} |-> usage[t]]>>

Exact(d) ==
  LET s == Readings(d.quota)
  IN [fits |-> {FitOf(d.usage, w) : w \in WindowsOf(s)}, pace |-> s]

-----------------------------------------------------------------------------
(* Counters and marks the triggers keep in the transaction of each change. *)
(* A mark that starts after every moment marks nothing.                    *)
NoDirt == [usage |-> Unbounded, from |-> Unbounded, to |-> -Unbounded]

Token(d) == IF d.prepared THEN <<d.epoch, d.generation, d.quotaGeneration>> ELSE None

MarkUsage(d, t) ==
  IF d.window # "valid" THEN d
  ELSE [d EXCEPT !.dirty = [usage |-> Least(d.dirty.usage, t),
                            from |-> d.dirty.from, to |-> d.dirty.to]]

MarkQuota(d, span) ==
  IF d.window # "valid" THEN d
  ELSE [d EXCEPT !.dirty = [usage |-> d.dirty.usage, from |-> Least(d.dirty.from, span[1]),
                            to |-> Greatest(d.dirty.to, span[2])]]

(* The whole second before and after a reading; a packed row shows neither. *)
Span(t, packed) ==
  IF packed THEN <<-Unbounded, Unbounded>>
  ELSE <<2 * (t \div 2) - 2, 2 * (t \div 2) + 2>>

CountChange(d) == IF d.prepared THEN [d EXCEPT !.generation = @ + 1] ELSE d

CountQuotaChange(d, start) ==
  IF ~d.prepared THEN d
  ELSE LET next == d.quotaGeneration + 1
       IN [d EXCEPT !.generation = @ + 1, !.quotaGeneration = next,
                    !.journal = {e \in @ : e.at > next - Limit} \cup {[at |-> next, start |-> start]}]

(* prefix_unchanged *)
Since(d, quotaGeneration) ==
  {e \in d.journal : e.at > quotaGeneration /\ e.at <= d.quotaGeneration}
PrefixUnchanged(d, previous, end) ==
  LET count == d.quotaGeneration - previous[3]
  IN /\ d.prepared /\ previous[1] = d.epoch
     /\ count \in 0..Limit
     /\ Cardinality(Since(d, previous[3])) = count
     /\ \A e \in Since(d, previous[3]) : e.start > end

-----------------------------------------------------------------------------
(* A connection that may write first repairs what it finds. *)
EnsureTracking(d) ==
  IF d.window = "valid" THEN d
  ELSE [d EXCEPT !.window = "valid", !.fits = {}, !.dirty = NoDirt, !.report = None]
RepairExisting(d) == IF d.window = "none" THEN d ELSE EnsureTracking(d)
PrepareWriter(d) ==
  IF d.prepared THEN d
  ELSE [d EXCEPT !.prepared = TRUE, !.epoch = @ + 1, !.generation = 0,
                 !.quotaGeneration = 0, !.journal = {}]
Opened(d) == PrepareWriter(RepairExisting(d))

(* The transactions of a collector.  One of this version repairs first; an *)
(* older one fires the triggers that are there, whatever their version.    *)
UsageChange(d, t, v) == CountChange(MarkUsage([d EXCEPT !.usage[t] = v], t))

(* A generation that loses its trust takes its usage along. *)
Withdrawal(d) ==
  LET recorded == {t \in UsageTimes : d.usage[t] # 0}
      start == IF recorded = {} THEN Unbounded ELSE Earliest(recorded)
  IN CountChange(MarkUsage([d EXCEPT !.usage = [t \in UsageTimes |-> 0]], start))

QuotaChange(d, t, p, packed) ==
  CountQuotaChange(MarkQuota([d EXCEPT !.quota[t] = p], Span(t, packed)), Span(t, packed)[1])

Changes(d) ==
  {UsageChange(d, t, v) : t \in UsageTimes, v \in {0, 1}}
    \cup {Withdrawal(d)}
    \cup {QuotaChange(d, t, p, packed) : t \in QuotaTimes, p \in Percents \cup {None},
                                         packed \in BOOLEAN}

Collect ==
  /\ writes < MaxWrites
  /\ \E from \in {db, Opened(db)} : \E to \in Changes(from) :
       /\ <<to.usage, to.quota>> # <<from.usage, from.quota>>
       /\ db' = [to EXCEPT !.revision = @ + 1]
  /\ writes' = writes + 1
  /\ UNCHANGED <<memo, reader, reads>>

(* A synchronisation that finds nothing new stamps the sources it saw. *)
Touch ==
  /\ writes < MaxWrites
  /\ db' = CountChange(Opened(db))
  /\ writes' = writes + 1
  /\ UNCHANGED <<memo, reader, reads>>

(* The triggers of another version, or none, are found in the database. *)
LoseTracking ==
  /\ writes < MaxWrites
  /\ \/ db.window = "valid" /\ db' = [db EXCEPT !.window = "broken"]
     \/ db.prepared /\ db' = [db EXCEPT !.prepared = FALSE]
  /\ writes' = writes + 1
  /\ UNCHANGED <<memo, reader, reads>>

-----------------------------------------------------------------------------
(* One report. *)
NoReader == [phase |-> "idle"]

(* render_ledger_report establishes the counters, then pins a snapshot. *)
Start(r) ==
  /\ reader[r].phase = "idle" /\ reads < MaxReads
  /\ LET d == IF db.prepared THEN db ELSE Opened(db)
     IN /\ db' = d
        /\ reader' = [reader EXCEPT ![r] = [phase |-> "pinned", snapshot |-> d]]
  /\ reads' = reads + 1
  /\ UNCHANGED <<memo, writes>>

(* identity of the decoded readings: same database, epoch and quota changes *)
Identity(d) == IF d.prepared THEN <<d.epoch, d.quotaGeneration>> ELSE None
Raw(d) == IF memo # None /\ Identity(d) # None /\ memo.key = Identity(d)
            THEN memo.raw ELSE Readings(d.quota)

(* _affected.  Mutant: only costs recorded inside the window matter. *)
MutAffected(d, s, e) ==
  \/ d.dirty.usage <= e /\ d.dirty.usage >= s
  \/ d.dirty.from <= e /\ d.dirty.to >= s
Affected(d, s, e) ==
  \/ d.dirty.usage <= e
  \/ d.dirty.from <= e /\ d.dirty.to >= s

(* The fit of a window is found by its ends and length. *)
Key(w) ==
  [start |-> w.start, first |-> w.readings[w.start], end |-> w.end,
   last |-> w.readings[w.end], points |-> Cardinality(DOMAIN w.readings)]
Reusable(d, w) ==
  {row \in d.fits : d.window = "valid" /\ row.key = Key(w) /\ ~Affected(d, w.start, w.end)}
Fit(d, w) ==
  IF Reusable(d, w) = {} THEN FitOf(d.usage, w) ELSE (CHOOSE row \in Reusable(d, w) : TRUE).fit

(* PaceCheckpoint.restore and the fold of what follows. *)
Restores(d, s) ==
  /\ d.slot # None
  /\ d.slot.end \in DOMAIN s
  /\ d.slot.count = Cardinality({t \in DOMAIN s : t <= d.slot.end})
  /\ PrefixUnchanged(d, d.slot.dependency, d.slot.end)
Pace(d, s) ==
  IF ~Restores(d, s) THEN s
  ELSE [t \in DOMAIN d.slot.state \cup {u \in DOMAIN s : u > d.slot.end} |->
          IF t \in DOMAIN d.slot.state THEN d.slot.state[t] ELSE s[t]]

(* _build_from_costs on the snapshot, unless the report of the revision is *)
(* there already.                                                          *)
CachedReport(d) == d.report # None /\ d.report.revision = d.revision
Prepare(r) ==
  /\ reader[r].phase = "pinned"
  /\ LET d == reader[r].snapshot
         s == Raw(d)
         answer == [fits |-> {Fit(d, w) : w \in WindowsOf(s)}, pace |-> Pace(d, s)]
     IN IF CachedReport(d)
          THEN /\ reader' = [reader EXCEPT ![r] = NoReader]
               /\ UNCHANGED memo
          ELSE /\ memo' = IF Identity(d) = None THEN memo ELSE [key |-> Identity(d), raw |-> s]
               /\ reader' = [reader EXCEPT ![r] =
                    [phase |-> "prepared", revision |-> d.revision, dependency |-> Token(d),
                     answer |-> answer]]
  /\ UNCHANGED <<db, writes, reads>>

(* The results are kept if the ledger is still the one of the snapshot. *)
Publishable(d, mine) ==
  /\ d.revision = mine.revision
  /\ mine.dependency # None /\ Token(d) = mine.dependency

Published(d, mine) ==
  LET tracked == EnsureTracking(d)
      rows == {[key |-> Key(fit[1]), fit |-> fit] : fit \in mine.answer.fits}
      pace == mine.answer.pace
  IN [tracked EXCEPT
        !.fits = rows, !.dirty = NoDirt,
        !.slot = IF DOMAIN pace = {} THEN @
                 ELSE [dependency |-> mine.dependency, count |-> Cardinality(DOMAIN pace),
                       end |-> Latest(DOMAIN pace), state |-> pace],
        !.report = IF DOMAIN pace = {} THEN @
                   ELSE [revision |-> mine.revision, value |-> mine.answer]]

Publish(r) ==
  /\ reader[r].phase = "prepared"
  /\ LET d == Opened(db)
     IN db' = IF Publishable(d, reader[r]) THEN Published(d, reader[r]) ELSE d
  /\ reader' = [reader EXCEPT ![r] = NoReader]
  /\ UNCHANGED <<memo, writes, reads>>

(* The agent stops, and with it its memory and its requests. *)
Restart ==
  /\ memo # None
  /\ memo' = None
  /\ reader' = [r \in Readers |-> NoReader]
  /\ UNCHANGED <<db, writes, reads>>

(* A ledger of an earlier version may hold a history before it is tracked. *)
Init ==
  /\ \E usage \in [UsageTimes -> {0, 1}], quota \in [QuotaTimes -> Percents \cup {None}] :
       db = [revision |-> 0, usage |-> usage, quota |-> quota,
           prepared |-> TRUE, epoch |-> 0, generation |-> 0, quotaGeneration |-> 0, journal |-> {},
           window |-> "none", dirty |-> NoDirt, fits |-> {}, slot |-> None, report |-> None]
  /\ memo = None
  /\ reader = [r \in Readers |-> NoReader]
  /\ writes = 0 /\ reads = 0

Next ==
  \/ Collect \/ Touch \/ LoseTracking \/ Restart
  \/ \E r \in Readers : Start(r) \/ Prepare(r) \/ Publish(r)

Spec == Init /\ [][Next]_vars

-----------------------------------------------------------------------------
(* Properties. *)

(* Reuse is exact.  Whatever it takes from an earlier request, and however *)
(* collectors, other requests and repairs of the tracking came in between, *)
(* a report is what its snapshot gives when computed from nothing          *)
(* (WindowCalculationCache, PaceCheckpoint, AllowancePreparation).         *)
ReusesExactly ==
  \A r \in Readers :
       Prepare(r) => LET d == reader[r].snapshot
                     IN IF CachedReport(d) THEN d.report.value = Exact(d)
                        ELSE reader'[r].answer = Exact(d)
ReuseIsExact == [][ReusesExactly]_vars

-----------------------------------------------------------------------------
(* The invariant behind it: what is kept is still true, or the database    *)
(* shows that it may not be.                                               *)
Columns ==
  {"revision", "usage", "quota", "prepared", "epoch", "generation", "quotaGeneration", "journal",
   "window", "dirty", "fits", "slot", "report"}
IsDatabase(d) ==
  /\ DOMAIN d = Columns
  /\ d.revision \in Nat /\ d.epoch \in Nat /\ d.generation \in Nat /\ d.quotaGeneration \in Nat
  /\ d.usage \in [UsageTimes -> {0, 1}] /\ d.quota \in [QuotaTimes -> Percents \cup {None}]
  /\ d.prepared \in BOOLEAN /\ d.window \in {"none", "valid", "broken"}
  /\ d.dirty \in [usage : Int, from : Int, to : Int]
  /\ d.journal \subseteq [at : Nat, start : Int]

(* One entry at most tells of each change of the readings.                 *)
JournalIsTrue(d) ==
  /\ \A e \in d.journal : e.at <= d.quotaGeneration
  /\ \A e, f \in d.journal : e.at = f.at => e = f

(* A fit that no mark affects is what its window and the costs give.       *)
FitsAreTrue(d) ==
  d.window = "valid" =>
    \A row \in d.fits :
      LET a == row.key.start
          b == row.key.end
      IN /\ a \in QuotaTimes /\ b \in QuotaTimes
         /\ Affected(d, a, b) \/ row.fit = FitOf(d.usage, Piece(Readings(d.quota), a, b))

(* The state of a prefix, while the journal is complete, differs from the  *)
(* readings only where a change since then may begin.                      *)
SameAt(t, s, q) == (t \in DOMAIN s <=> q[t] # None) /\ (t \in DOMAIN s => s[t] = q[t])
Complete(d, g) == \A n \in (g + 1) .. d.quotaGeneration : \E e \in d.journal : e.at = n
SlotIsTrue(d) ==
  d.slot # None =>
    LET past == d.slot.dependency
    IN /\ past[1] \in Nat /\ past[3] \in Nat /\ past[1] <= d.epoch
       /\ d.slot.end \in QuotaTimes
       /\ \A t \in DOMAIN d.slot.state : t \in QuotaTimes /\ t <= d.slot.end
       /\ d.prepared /\ past[1] = d.epoch =>
            /\ past[3] <= d.quotaGeneration
            /\ Complete(d, past[3]) =>
                 \A t \in QuotaTimes : t <= d.slot.end =>
                   \/ SameAt(t, d.slot.state, d.quota)
                   \/ \E e \in Since(d, past[3]) : e.start <= t

(* The report of a revision is the report of its facts.                    *)
ReportIsTrue(d) ==
  d.report # None =>
    /\ d.report.revision \in Nat /\ d.report.revision <= d.revision
    /\ d.report.revision = d.revision => d.report.value = Exact(d)

Sound(d) ==
  IsDatabase(d) /\ JournalIsTrue(d) /\ FitsAreTrue(d) /\ SlotIsTrue(d) /\ ReportIsTrue(d)

(* Readings were those of a database: under an identity that it still has, *)
(* they are those of the database as it is.                                *)
Dated(d, identity, raw) ==
  /\ identity[1] \in Nat /\ identity[2] \in Nat /\ identity[1] <= d.epoch
  /\ d.prepared /\ identity[1] = d.epoch =>
       /\ identity[2] <= d.quotaGeneration
       /\ identity[2] = d.quotaGeneration => raw = Readings(d.quota)

Pins(r) == reader[r].phase = "pinned"
SnapshotIsPast(s, d) ==
  /\ Sound(s) /\ s.prepared /\ Dated(d, Identity(s), Readings(s.quota))
  /\ s.revision <= d.revision
  /\ s.revision = d.revision => s.usage = d.usage /\ s.quota = d.quota
AnswerIsPast(mine, d) ==
  /\ mine.revision \in Nat /\ mine.revision <= d.revision
  /\ mine.revision = d.revision => mine.answer = Exact(d)

ReadersArePast ==
  \A r \in Readers :
    /\ reader[r].phase \in {"idle", "pinned", "prepared"}
    /\ Pins(r) => SnapshotIsPast(reader[r].snapshot, db)
    /\ reader[r].phase = "prepared" => AnswerIsPast(reader[r], db)
MemoIsPast == memo # None => Dated(db, memo.key, memo.raw)

(* Who reads under the same identity reads the same.                       *)
IdentityDecides ==
  \A r \in Readers : Pins(r) =>
    LET s == reader[r].snapshot
    IN /\ memo # None /\ memo.key = Identity(s) => memo.raw = Readings(s.quota)
       /\ \A o \in Readers : Pins(o) /\ Identity(reader[o].snapshot) = Identity(s) =>
            Readings(reader[o].snapshot.quota) = Readings(s.quota)

ReuseInv ==
  /\ DOMAIN reader = Readers
  /\ Sound(db) /\ ReadersArePast /\ MemoIsPast /\ IdentityDecides

=============================================================================
