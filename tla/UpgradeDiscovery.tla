-------------------------- MODULE UpgradeDiscovery --------------------------
(***************************************************************************)
(* The search for captures made before the history contract:               *)
(* history_upgrade_discovery.py, history_upgrade_receipts.py,              *)
(* history_upgrade_relocation.py and their use in session_cache_refresh.py *)
(* and agent_rebuild.py.                                                   *)
(*                                                                         *)
(* A capture whose checkpoint lacks the contract is weak.  Each refresh    *)
(* reads the headers of some weak captures, within a budget of files and   *)
(* bytes, and decides: nothing is inherited, the source is to be rebuilt,  *)
(* or the question stays open.  Until then no other file may take the      *)
(* capture's place; a file that would is told to wait.                     *)
(*                                                                         *)
(* Numbers of attempts are kept as ranks; the modification times, by which *)
(* sources never attempted are ordered, are left open.                     *)
(***************************************************************************)
EXTENDS Naturals, Sequences, FiniteSets, Functions

CONSTANTS Sources,    \* captures the ledger already holds
          Family,     \* source -> the sources its protection also blocks
          Claimants,  \* files not captured yet
          Slot,       \* claimant -> the source whose place it claims
          Named,      \* the claimants whose file name gives that away
          Width,      \* source -> what reading its header is charged
          CopyWidth,  \* source -> what proving a copy of it is charged
          MaxBytes, MaxFiles, \* the budget of one refresh
          MaxChanges  \* bound: changes of the files

VARIABLES
  file,     \* source -> where it is, what its header says, whether it was
            \* edited after the capture
  weak,     \* the sources whose checkpoint lacks the contract
  decided,  \* source -> the decision stored for it
  receipt,  \* the sources with a valid receipt for a copy
  wait,     \* source or claimant -> "no", "unnamed" or the source waited for
  error,    \* source -> "none", "pending", "rebuild", "wait" or "stale"
  claim,    \* claimant -> "absent", "seen" or "counted"
  passed,   \* source -> refreshes in a row that had no budget left for it
  changes, fresh \* changes so far; the last step was a refresh

vars == <<file, weak, decided, receipt, wait, error, claim, passed, changes, fresh>>

\* A rollout is only appended to, so its header stays; a file may be
\* unreadable, changing or damaged for a while.
Files == [place : {"home", "copy", "gone"}, inherits : BOOLEAN,
          readable : BOOLEAN, edited : BOOLEAN]
Home(s) == file[s].place = "home"

\* What the ledger's upgrade stores for every weak capture.
Unexamined == [kind |-> "pending", reason |-> "budget", fits |-> FALSE, attempt |-> 0]
Settled(s) == Home(s) /\ decided[s].fits /\ decided[s].kind \in {"unchanged", "rebuild"}

Init ==
  /\ file \in [Sources -> {f \in Files : f.place = "home" /\ ~f.edited}]
  /\ weak = Sources
  /\ decided = [s \in Sources |-> Unexamined]
  /\ receipt = {}
  /\ wait = [e \in Sources \cup Claimants |-> "no"]
  /\ error = [s \in Sources |-> "pending"]
  /\ claim = [c \in Claimants |-> "absent"]
  /\ passed = [s \in Sources |-> 0]
  /\ changes = 0 /\ fresh = FALSE

(************************ the files change meanwhile ***********************)

Change == /\ changes < MaxChanges
          /\ changes' = changes + 1
          /\ fresh' = FALSE
          /\ UNCHANGED <<weak, wait, error, passed>>

\* A change of a source ends what its decision and its receipt say.
Edit(s) == \E f \in Files :
  /\ Change
  /\ s \in weak /\ f.edited /\ f.inherits = file[s].inherits
  /\ file' = [file EXCEPT ![s] = f]
  /\ decided' = [decided EXCEPT ![s].fits = FALSE]
  /\ receipt' = receipt \ {s}
  /\ UNCHANGED claim

Appear(c) == /\ Change
             /\ claim[c] = "absent"
             /\ claim' = [claim EXCEPT ![c] = "seen"]
             /\ UNCHANGED <<file, decided, receipt>>

(****************************** one refresh ********************************)

Candidates == {s \in weak : ~Settled(s)}

\* Never attempted first, then by the number of the last attempt.
Orders ==
  {q \in Bijection(1 .. Cardinality(Candidates), Candidates) :
     \A i, j \in DOMAIN q : i < j => decided[q[i]].attempt <= decided[q[j]].attempt}

\* What the header of a source at its path says.
Inspect(s) ==
  IF ~file[s].readable THEN [kind |-> "pending", reason |-> "failed"]
  ELSE [kind |-> IF file[s].inherits THEN "rebuild" ELSE "unchanged", reason |-> "known"]

\* What a refresh knows while it goes through the candidates.
Budget == [bytes |-> MaxBytes, files |-> MaxFiles, sequence |-> Cardinality(Sources),
           decided |-> decided, receipt |-> receipt, passed |-> passed]

\* Mutant: a failed attempt keeps its place in the order.
MutRecord(b, s, d, cost) ==
  [b EXCEPT !.bytes = @ - cost,
            !.files = IF cost = 0 THEN @ ELSE @ - 1,
            !.sequence = IF cost = 0 THEN @ ELSE @ + 1,
            !.decided[s] = [kind |-> d.kind, reason |-> d.reason, fits |-> Home(s),
                            attempt |-> IF cost = 0 \/ d.kind = "pending" THEN @.attempt
                                        ELSE b.sequence + 1],
            !.passed[s] = IF cost = 0 /\ d.reason = "budget" THEN @ + 1 ELSE 0]

Record(b, s, d, cost) ==
  [b EXCEPT !.bytes = @ - cost,
            !.files = IF cost = 0 THEN @ ELSE @ - 1,
            !.sequence = IF cost = 0 THEN @ ELSE @ + 1,
            !.decided[s] = [kind |-> d.kind, reason |-> d.reason, fits |-> Home(s),
                            attempt |-> IF cost = 0 THEN @.attempt ELSE b.sequence + 1],
            !.passed[s] = IF cost = 0 /\ d.reason = "budget" THEN @ + 1 ELSE 0]

\* A source that is gone may be replayed from a proven copy.
Relocate(b, s) ==
  LET Open(why) == [kind |-> "pending", reason |-> why]
      known == s \in b.receipt
  IN IF file[s].place = "gone" THEN Record(b, s, Open("failed"), 0)
     ELSE IF known THEN Record(b, s, [kind |-> "rebuild", reason |-> "known"], 0)
     ELSE IF CopyWidth[s] > MaxBytes THEN Record(b, s, Open("failed"), 0)
     ELSE IF b.files = 0 \/ CopyWidth[s] > b.bytes THEN Record(b, s, Open("budget"), 0)
     ELSE IF ~file[s].readable THEN Record(b, s, Open("failed"), CopyWidth[s])
     ELSE Record([b EXCEPT !.receipt = @ \cup {s}], s,
                 [kind |-> "rebuild", reason |-> "known"], CopyWidth[s])

\* A failure found before outlives a refresh without budget for it.
Classify(b, s) ==
  IF b.files > 0 /\ Width[s] <= b.bytes THEN Record(b, s, Inspect(s), Width[s])
  ELSE IF b.decided[s].kind = "pending" /\ b.decided[s].reason # "budget"
  THEN [b EXCEPT !.passed[s] = @ + 1]
  ELSE Record(b, s, [kind |-> "pending", reason |-> "budget"], 0)

Decide(b, s) == IF Home(s) THEN Classify(b, s) ELSE Relocate(b, s)

\* Attempts are renumbered by rank; zero stays "never attempted".
Ranked(d) ==
  [s \in Sources |-> [d[s] EXCEPT !.attempt =
     IF @ = 0 THEN 0
     ELSE Cardinality({t \in Sources : d[t].attempt > 0 /\ d[t].attempt <= d[s].attempt})]]

\* Mutant: an open question protects nothing.
MutProtected(d) == {s \in weak : ~Home(s) \/ d[s].kind = "rebuild"}

Protected(d) == {s \in weak : ~Home(s) \/ d[s].kind # "unchanged"}

\* What may not be promoted or parsed: the protected, what belongs to them,
\* and what was told to wait for them.
Blocked(p) ==
  LET present == {c \in Claimants : claim[c] = "seen"} IN
  p \cup (UNION {Family[s] : s \in p})
    \cup {c \in present \cap Named : Slot[c] \in p}
    \cup {e \in DOMAIN wait : wait[e] \in p}

\* Mutant: nobody is released.
MutWaits(p, refused) ==
  [e \in DOMAIN wait |->
     IF e \in refused THEN Slot[e]
     ELSE IF e \in Blocked(p) \ p /\ wait[e] = "no" /\ (e \in Claimants \/ Home(e))
     THEN "unnamed" ELSE wait[e]]

\* Whoever is blocked without being protected waits, others are released.
Waits(p, refused) ==
  [e \in DOMAIN wait |->
     IF e \in refused THEN Slot[e]
     ELSE IF e \in Blocked(p) \ p /\ (e \in Claimants \/ Home(e))
     THEN IF wait[e] = "no" THEN "unnamed" ELSE wait[e]
     ELSE IF e \in Blocked(p) THEN wait[e] ELSE "no"]

\* A weak capture gives no authority to append: a source edited since is
\* stale.
Errors(d, p) ==
  [s \in Sources |->
     LET was == IF wait[s] # "no" /\ s \notin Blocked(p) /\ error[s] = "wait"
                THEN "none" ELSE error[s]
         replayed == d[s].kind = "rebuild"
     IN CASE Home(s) /\ s \in Blocked(p) \ p -> "wait"
          [] Home(s) /\ s \in p -> d[s].kind
          [] Home(s) /\ s \in weak \ Blocked(p) ->
               IF was = "rebuild" THEN was ELSE IF file[s].edited THEN "stale" ELSE "none"
          [] ~Home(s) /\ s \in p -> IF replayed THEN "rebuild" ELSE was
          [] s \notin weak \cup Blocked(p) -> was]

\* What is known after each candidate.
Decisions(q) ==
  LET after[i \in 0 .. Len(q)] == IF i = 0 THEN Budget ELSE Decide(after[i - 1], q[i])
  IN  after

\* The parser meets the claimants that are not blocked; the commit refuses
\* one whose metadata claims a protected place.
Refresh ==
  \E q \in Orders, parsed \in SUBSET {c \in Claimants : claim[c] = "seen"} :
    LET b == Decisions(q)[Len(q)]
        p == Protected(b.decided)
        met == parsed \ Blocked(p)
        refused == {c \in met : Slot[c] \in p}
    IN /\ decided' = Ranked(b.decided)
       /\ receipt' = b.receipt
       /\ passed' = [s \in Sources |-> IF s \in Candidates THEN b.passed[s] ELSE 0]
       /\ wait' = Waits(p, refused)
       /\ error' = Errors(b.decided, p)
       /\ claim' = [c \in Claimants |-> IF c \in met \ refused THEN "counted" ELSE claim[c]]
       /\ fresh' = TRUE
       /\ UNCHANGED <<file, weak, changes>>

(************************** the rebuild of a source ************************)

\* Open questions and waiting sources are kept from the rebuild queue.
Excluded == {s \in weak : decided[s].kind = "pending" /\
                          (Home(s) \/ decided[s].reason = "budget")}
            \cup {s \in Sources : Home(s) /\ wait[s] # "no"}

Rebuild(s) ==
  /\ s \in weak \ Excluded
  /\ error[s] # "none" /\ file[s].readable
  /\ Home(s) \/ (file[s].place = "copy" /\ s \in receipt)
  /\ weak' = weak \ {s}
  /\ error' = [error EXCEPT ![s] = "none"]
  /\ receipt' = receipt \ {s}
  /\ file' = [file EXCEPT ![s].place = "home", ![s].edited = FALSE]
  /\ passed' = [passed EXCEPT ![s] = 0]
  /\ decided' = [decided EXCEPT ![s] = Unexamined] \* never read again
  /\ fresh' = FALSE
  /\ UNCHANGED <<wait, claim, changes>>

Next ==
  \/ Refresh
  \/ \E s \in Sources : Edit(s) \/ Rebuild(s)
  \/ \E c \in Claimants : Appear(c)

Spec == Init /\ [][Next]_vars
-----------------------------------------------------------------------------
\* A file is not counted in the place of an old capture as long as what the
\* capture inherits has not been settled, however its name reads and whatever
\* the last refresh had budget for (ADR 0067: new or unclassified claimants
\* cannot replace their checkpoints).
ReplacesNothing ==
  \A c \in Claimants : claim[c] = "seen" /\ claim'[c] = "counted" =>
       \/ Slot[c] \notin weak
       \/ Home(Slot[c]) /\ file[Slot[c]].readable /\ ~file[Slot[c]].inherits
NoClaimantReplaces == [][ReplacesNothing]_vars

\* Sources whose header cannot be read, or whose copies fail, do not keep the
\* budget from the others: nobody is passed over more often than there are
\* other sources.
NobodyStarves == \A s \in Sources : passed[s] < Cardinality(Sources)

\* After a refresh whoever waits has someone to wait for, and a source that
\* is to be rebuilt does not wait, which would keep it from the queue and so
\* make the others wait for ever.
WaitsAreJustified ==
  fresh =>
    /\ \A e \in DOMAIN wait \ Protected(decided) : wait[e] # "no" =>
         \E s \in Protected(decided) : e \in Family[s] \cup {c \in Claimants : Slot[c] = s}
    /\ \A s \in weak : Home(s) /\ decided[s].kind = "rebuild" => wait[s] = "no"

-----------------------------------------------------------------------------
\* What these rest on.
Verdicts == [kind : {"pending", "rebuild", "unchanged"}, reason : {"budget", "failed", "known"},
             fits : BOOLEAN, attempt : Nat]

TypeOK ==
  /\ file \in [Sources -> Files]
  /\ weak \subseteq Sources /\ receipt \subseteq Sources
  /\ decided \in [Sources -> Verdicts]
  /\ wait \in [Sources \cup Claimants -> Sources \cup {"no", "unnamed"}]
  /\ claim \in [Claimants -> {"absent", "seen", "counted"}]
  /\ passed \in [Sources -> Nat]
  /\ fresh \in BOOLEAN

\* A decision that fits says what the header says.
Decided(d, s) ==
  /\ d[s].kind = "unchanged" => Home(s) /\ file[s].readable /\ ~file[s].inherits
  /\ d[s].kind = "rebuild" => ~Home(s) \/ file[s].inherits
DecisionsHold ==
  \A s \in weak : decided[s].fits => Home(s) /\ Decided(decided, s)

\* Attempts are ranks; and every refresh that passed over a source served
\* another one, which is behind it since or is not weak any more.
AreRanks == \A s \in Sources : decided[s].attempt <= Cardinality(Sources)
BehindOrDone(s) ==
  {t \in Sources \ {s} : t \notin weak \/ decided[t].attempt > decided[s].attempt}
PassedByOthers ==
  \A s \in Sources :
    /\ passed[s] <= Cardinality(BehindOrDone(s))
    /\ s \notin weak => passed[s] = 0

\* Only a claimant waits for the source it claims the place of, and no
\* weak source waits that is to be rebuilt.
WaitsAreTheirs ==
  /\ \A s \in Sources : ~Home(s) => s \in weak
  /\ \A e \in DOMAIN wait : wait[e] \in Sources => e \in Claimants /\ wait[e] = Slot[e]
  /\ \A s \in weak : wait[s] # "no" => ~file[s].inherits

DiscoveryInv ==
  TypeOK /\ DecisionsHold /\ AreRanks /\ PassedByOthers /\ WaitsAreTheirs /\ WaitsAreJustified
=============================================================================
