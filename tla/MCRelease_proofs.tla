-------------------------- MODULE MCRelease_proofs --------------------------
(***************************************************************************)
(* Proofs about a release, for any runs, attempts, targets, qualifications *)
(* and commits.  Of the hosted half (PublicationJournal): nothing is       *)
(* uploaded twice or without a record, and the journal, the run groups and *)
(* the catalogue lookups together implement Publication.  Of the command   *)
(* line (ReleaseProcess), for any checkouts and directories: its commands  *)
(* ask for a publication once, after its rehearsal, and no directory is    *)
(* locked out.                                                             *)
(*                                                                         *)
(* UploadsAreRecorded is inductive.  That a job may upload what its plan   *)
(* calls eligible rests on JobIsCurrent: what it read before is still so,  *)
(* because no other run works meanwhile (RunsTakeTurns) and the owner can  *)
(* only append a binding while no start is recorded.                       *)
(*                                                                         *)
(* What the commands promise is inductive with what a command relies on    *)
(* while it holds the lock of its checkout: its two files agree            *)
(* (FilesAgree) and each of its tasks is one whose groundwork is done      *)
(* (CommandKeepsOrder).  A run exists only for an intent that is kept      *)
(* (RunsAreIntended), so what was asked is found, not asked again.         *)
(***************************************************************************)
EXTENDS MCRelease, TLAPS

Events == Bindings \cup Starts

(* The positions of the bindings, and the last of some positions.          *)
BindingsOf(records) == {i \in DOMAIN records : records[i].kind = "binding"}
Latest(S) == CHOOSE i \in S : \A k \in S : k <= i

LEMMA AppendFacts ==
  ASSUME NEW records \in Seq(Events), NEW e \in Events
  PROVE  /\ Append(records, e) \in Seq(Events)
         /\ Len(Append(records, e)) = Len(records) + 1
         /\ DOMAIN records = 1..Len(records)
         /\ DOMAIN Append(records, e) = 1..(Len(records) + 1)
         /\ Len(records) \in Nat
         /\ \A i \in 1..Len(records) : Append(records, e)[i] = records[i]
         /\ Append(records, e)[Len(records) + 1] = e
OBVIOUS

LEMMA KindFacts ==
  /\ \A e \in Bindings : e.kind = "binding"
  /\ \A e \in Starts : e.kind = "start"
  /\ \A e \in Events : e.kind = "start" => e \in Starts
  /\ \A e \in Events : e.kind = "binding" => e \in Bindings
BY DEF Events, Bindings, Starts

LEMMA AnchoredIsAppend ==
  ASSUME TypeOK, NEW c, FastForwards(c)
  PROVE  Anchored(c) = Append(journal, c.event)
<1>1. journal \in Seq(Events)
  BY DEF TypeOK, Events
<1>2. SubSeq(journal, 1, Len(journal)) = journal
  BY <1>1
<1> QED
  BY <1>2 DEF Anchored, FastForwards

LEMMA StartedAfterStart ==
  ASSUME NEW records \in Seq(Events), NEW s \in Starts
  PROVE  Started(Append(records, s)) = Started(records) \cup {s.target}
<1>1. s \in Events /\ s.kind = "start"
  BY KindFacts DEF Events
<1>2. \A t \in Started(Append(records, s)) : t \in Started(records) \cup {s.target}
  BY <1>1, AppendFacts DEF Started
<1>3. \A t \in Started(records) : t \in Started(Append(records, s))
  BY <1>1, AppendFacts DEF Started
<1>4. s.target \in Started(Append(records, s))
  BY <1>1, AppendFacts DEF Started
<1> QED
  BY <1>2, <1>3, <1>4

LEMMA NoneStarted ==
  ASSUME NEW records, Started(records) = {}
  PROVE  \A i \in DOMAIN records : records[i].kind # "start"
BY DEF Started

LEMMA CurrentIsLatest ==
  ASSUME NEW records
  PROVE  CurrentBinding(records) =
           IF BindingsOf(records) = {} THEN 0 ELSE Latest(BindingsOf(records))
BY DEF CurrentBinding, BindingsOf, Latest

LEMMA CurrentFacts ==
  ASSUME NEW records \in Seq(Events),
         BindingsOf(records) # {} =>
           \E i \in BindingsOf(records) : \A k \in BindingsOf(records) : k <= i
  PROVE  /\ CurrentBinding(records) \in Nat
         /\ CurrentBinding(records) # 0 => CurrentBinding(records) \in BindingsOf(records)
<1>1. BindingsOf(records) \subseteq Nat \ {0}
  BY DEF BindingsOf
<1>2. BindingsOf(records) # {} => Latest(BindingsOf(records)) \in BindingsOf(records)
  BY DEF Latest
<1> QED
  BY <1>1, <1>2, CurrentIsLatest

LEMMA CurrentAfterStart ==
  ASSUME NEW records \in Seq(Events), NEW s \in Starts
  PROVE  /\ BindingsOf(Append(records, s)) = BindingsOf(records)
         /\ CurrentBinding(Append(records, s)) = CurrentBinding(records)
<1>1. s \in Events /\ s.kind = "start"
  BY KindFacts DEF Events
<1>2. \A i \in BindingsOf(Append(records, s)) : i \in BindingsOf(records)
  BY <1>1, AppendFacts DEF BindingsOf
<1>3. \A i \in BindingsOf(records) : i \in BindingsOf(Append(records, s))
  BY <1>1, AppendFacts DEF BindingsOf
<1>4. BindingsOf(Append(records, s)) = BindingsOf(records)
  BY <1>2, <1>3
<1> QED
  BY <1>4, CurrentIsLatest

-----------------------------------------------------------------------------
(* Parts of the invariant, by what they are about.                         *)
JournalInv == BindingIsFrozen /\ StartsAgree /\ BindingIsKnown
UploadsInv == AtMostOneUpload /\ UploadIsRecorded /\ OneQualification /\ CatalogShowsUploads
JobHolds(r) == HistoryHolds(r) /\ PlanHolds(r) /\ CandidateHolds(r)

PartsHold == /\ TypeOK /\ JournalInv /\ UploadsInv /\ ApprovalPrecedesStarts
             /\ RunsTakeTurns /\ JobIsCurrent

LEMMA InvariantParts == UploadsAreRecorded <=> PartsHold
BY DEF UploadsAreRecorded, PartsHold, JournalInv, UploadsInv

LEMMA JournalType ==
  ASSUME TypeOK, BindingIsKnown
  PROVE  /\ journal \in Seq(Events) /\ Len(journal) \in Nat
         /\ Started(journal) \subseteq Targets
         /\ CurrentBinding(journal) \in Nat
         /\ \A i \in DOMAIN journal : journal[i] \in Events
<1>1. journal \in Seq(Events) /\ Len(journal) \in Nat
  BY DEF TypeOK, Events
<1>2. \A i \in DOMAIN journal : journal[i] \in Events
  BY <1>1
<1>3. Started(journal) \subseteq Targets
  BY <1>2, KindFacts DEF Started, Starts
<1>4. CurrentBinding(journal) \in Nat
  BY <1>1, CurrentFacts DEF BindingIsKnown, BindingsOf
<1> QED
  BY <1>1, <1>2, <1>3, <1>4

LEMMA StartAnchored ==
  ASSUME TypeOK, JournalInv, NEW s \in Starts, AdmitsStart(journal, s),
         journal' = Append(journal, s),
         \A i \in DOMAIN journal : journal[i].kind = "start" => journal[i].of = s.of
  PROVE  JournalInv' /\ journal' \in Seq(Events)
<1>1. journal \in Seq(Events) /\ Len(journal) \in Nat /\ CurrentBinding(journal) \in Nat
  BY JournalType DEF JournalInv
<1>2. s \in Events /\ s.kind = "start"
  BY KindFacts DEF Events
<1>3. /\ journal' \in Seq(Events)
      /\ DOMAIN journal = 1..Len(journal)
      /\ DOMAIN journal' = 1..(Len(journal) + 1)
      /\ \A i \in 1..Len(journal) : journal'[i] = journal[i]
      /\ journal'[Len(journal) + 1] = s
  BY <1>1, <1>2, AppendFacts
<1>4. /\ BindingsOf(journal') = BindingsOf(journal)
      /\ CurrentBinding(journal') = CurrentBinding(journal)
  BY <1>1, CurrentAfterStart
<1>5. CurrentBinding(journal) # 0 => CurrentBinding(journal) \in 1..Len(journal)
  BY <1>1, <1>3, CurrentFacts DEF JournalInv, BindingIsKnown, BindingsOf
<1>6. BindingIsKnown'
  BY <1>4 DEF JournalInv, BindingIsKnown, BindingsOf
<1>7. StartsAgree'
  <2>1. \A i \in 1..Len(journal) : journal[i].kind = "start" =>
          /\ journal[i].of = s.of /\ journal[i].source = s.source
          /\ journal[i].target # s.target
    BY <1>3 DEF AdmitsStart, Started
  <2> QED
    BY <1>1, <1>2, <1>3, <2>1 DEF JournalInv, StartsAgree
<1>8. BindingIsFrozen'
  <2>1. \A i \in 1..Len(journal) : journal[i].kind = "start" =>
          /\ journal[i].binding = CurrentBinding(journal)
          /\ CurrentBinding(journal) # 0 =>
               /\ journal[CurrentBinding(journal)].source = journal[i].source
               /\ journal[CurrentBinding(journal)].purpose = "release"
    BY <1>3 DEF JournalInv, BindingIsFrozen
  <2>2. /\ s.binding = CurrentBinding(journal)
        /\ CurrentBinding(journal) # 0 =>
             /\ journal[CurrentBinding(journal)].source = s.source
             /\ journal[CurrentBinding(journal)].purpose = "release"
    BY DEF AdmitsStart
  <2> QED
    BY <1>1, <1>3, <1>4, <1>5, <2>1, <2>2 DEF BindingIsFrozen
<1> QED
  BY <1>3, <1>6, <1>7, <1>8 DEF JournalInv

LEMMA BindingAnchored ==
  ASSUME TypeOK, JournalInv, NEW b \in Bindings, Started(journal) = {},
         journal' = Append(journal, b)
  PROVE  JournalInv' /\ journal' \in Seq(Events) /\ Started(journal') = {}
<1>1. journal \in Seq(Events) /\ Len(journal) \in Nat
  BY JournalType DEF JournalInv
<1>2. b \in Events /\ b.kind = "binding"
  BY KindFacts DEF Events
<1>3. /\ journal' \in Seq(Events)
      /\ DOMAIN journal = 1..Len(journal)
      /\ DOMAIN journal' = 1..(Len(journal) + 1)
      /\ \A i \in 1..Len(journal) : journal'[i] = journal[i]
      /\ journal'[Len(journal) + 1] = b
  BY <1>1, <1>2, AppendFacts
<1>4. \A i \in 1..Len(journal) : journal[i].kind # "start"
  BY <1>3, NoneStarted
<1>5. \A i \in DOMAIN journal' : journal'[i].kind # "start"
  BY <1>1, <1>2, <1>3, <1>4
<1>6. Started(journal') = {}
  BY <1>5 DEF Started
<1>7. StartsAgree' /\ BindingIsFrozen'
  BY <1>5 DEF StartsAgree, BindingIsFrozen
<1>8. BindingIsKnown'
  <2>1. Len(journal) + 1 \in {i \in DOMAIN journal' : journal'[i].kind = "binding"}
    BY <1>1, <1>2, <1>3
  <2>2. \A k \in DOMAIN journal' : k <= Len(journal) + 1
    BY <1>1, <1>3
  <2> QED
    BY <2>1, <2>2 DEF BindingIsKnown
<1> QED
  BY <1>3, <1>6, <1>7, <1>8 DEF JournalInv

-----------------------------------------------------------------------------
(* What a step does to the runs and their jobs.                            *)

LEMMA OthersRest ==
  ASSUME RunsTakeTurns, NEW r \in Runs, Running(r), NEW o \in Runs \ {r}
  PROVE  ~Running(o) /\ job[o] = NoJob
BY DEF RunsTakeTurns

LEMMA UploadsKept ==
  ASSUME UploadsInv, UNCHANGED <<journal, uploads, content, catalog>>
  PROVE  UploadsInv'
BY DEF UploadsInv, AtMostOneUpload, UploadIsRecorded, OneQualification, CatalogShowsUploads

LEMMA JournalKept ==
  ASSUME JournalInv, UNCHANGED journal
  PROVE  JournalInv'
BY DEF JournalInv, BindingIsFrozen, StartsAgree, BindingIsKnown

LEMMA ApprovalKept ==
  ASSUME ApprovalPrecedesStarts, UNCHANGED <<journal, prepared>>
  PROVE  ApprovalPrecedesStarts'
BY DEF ApprovalPrecedesStarts

LEMMA JobsKept ==
  ASSUME JobIsCurrent, UNCHANGED <<journal, run, job, uploads>>
  PROVE  JobIsCurrent'
BY DEF JobIsCurrent, HistoryHolds, PlanHolds, CandidateHolds, Running

LEMMA TurnsKept ==
  ASSUME RunsTakeTurns, UNCHANGED <<run, job>>
  PROVE  RunsTakeTurns'
BY DEF RunsTakeTurns, Running

(* The job of the working run changes.                                     *)
LEMMA JobStep ==
  ASSUME TypeOK, RunsTakeTurns, NEW r \in Runs, Running(r), UNCHANGED run,
         NEW q \in JobRecord, job' = [job EXCEPT ![r] = q], JobHolds(r)'
  PROVE  job' \in [Runs -> JobRecord] /\ RunsTakeTurns' /\ JobIsCurrent'
<1>1. job' \in [Runs -> JobRecord] /\ job'[r] = q
  BY DEF TypeOK
<1>2. \A o \in Runs \ {r} : job'[o] = job[o] /\ ~Running(o)
  BY OthersRest DEF TypeOK
<1>3. \A o \in Runs : Running(o) <=> Running(o)'
  BY DEF Running
<1>4. RunsTakeTurns'
  BY <1>1, <1>2, <1>3 DEF RunsTakeTurns
<1>5. JobIsCurrent'
  BY <1>2, <1>3 DEF JobIsCurrent, JobHolds
<1> QED
  BY <1>1, <1>4, <1>5

(* A run ends.                                                             *)
LEMMA RunEnds ==
  ASSUME TypeOK, RunsTakeTurns, JobIsCurrent, NEW r \in Runs, run[r] # None,
         NEW status \in {"failed", "succeeded"},
         run' = [run EXCEPT ![r].status = status],
         job' = [job EXCEPT ![r] = NoJob],
         UNCHANGED <<journal, uploads>>
  PROVE  /\ run' \in [Runs -> RunRecord \cup {None}] /\ job' \in [Runs -> JobRecord]
         /\ RunsTakeTurns' /\ JobIsCurrent'
<1>1. PICK w : w = [run[r] EXCEPT !.status = status]
  OBVIOUS
<1>2. run[r] \in RunRecord
  BY DEF TypeOK
<1>3. w \in RunRecord /\ w.status = status
  BY <1>1, <1>2 DEF RunRecord
<1>4. run' = [run EXCEPT ![r] = w]
  BY <1>1
<1>5. run' \in [Runs -> RunRecord \cup {None}] /\ run'[r] = w
  BY <1>3, <1>4 DEF TypeOK
<1>6. \A o \in Runs \ {r} : run'[o] = run[o] /\ job'[o] = job[o]
  BY <1>4 DEF TypeOK
<1>7. NoJob \in JobRecord
  BY DEF NoJob, JobRecord, Stages
<1>8. job' \in [Runs -> JobRecord] /\ job'[r] = NoJob
  BY <1>7 DEF TypeOK
<1>9. ~Running(r)' /\ \A o \in Runs \ {r} : Running(o)' <=> Running(o)
  BY <1>3, <1>5, <1>6 DEF Running
<1>10. RunsTakeTurns'
  <2>1. \A u, o \in Runs : Running(u)' /\ Running(o)' => u = o
    BY <1>9 DEF RunsTakeTurns
  <2>2. \A o \in Runs : ~Running(o)' => job'[o] = NoJob
    BY <1>6, <1>8, <1>9 DEF RunsTakeTurns
  <2>3. \A o \in Runs : run'[o] # None /\ run'[o].status = "queued" => run'[o].attempt = 1
    BY <1>3, <1>5, <1>6 DEF RunsTakeTurns
  <2> QED
    BY <2>1, <2>2, <2>3 DEF RunsTakeTurns
<1>11. JobIsCurrent'
  <2> SUFFICES ASSUME NEW o \in Runs, Running(o)'
               PROVE  HistoryHolds(o)' /\ PlanHolds(o)' /\ CandidateHolds(o)'
    BY DEF JobIsCurrent
  <2>1. Running(o) /\ run'[o] = run[o] /\ job'[o] = job[o]
    BY <1>6, <1>9
  <2>2. HistoryHolds(o) /\ PlanHolds(o) /\ CandidateHolds(o)
    BY <2>1 DEF JobIsCurrent
  <2> QED
    BY <2>1, <2>2 DEF HistoryHolds, PlanHolds, CandidateHolds
<1> QED
  BY <1>5, <1>8, <1>10, <1>11

LEMMA RunBegins ==
  ASSUME PartsHold, NEW r \in Runs, run[r] # None, NEW n \in Attempts, Begin(r, n)
  PROVE  PartsHold'
<1> USE DEF Begin
<1>0. /\ TypeOK /\ JournalInv /\ UploadsInv /\ ApprovalPrecedesStarts
      /\ RunsTakeTurns /\ JobIsCurrent
  BY DEF PartsHold
<1>1. PICK w : w = [run[r] EXCEPT !.status = "running", !.attempt = n]
  OBVIOUS
<1>2. w \in RunRecord /\ w.status = "running"
  <2>1. TypeOK
    BY <1>0
  <2>2. run[r] \in RunRecord
    BY <2>1 DEF TypeOK
  <2> QED
    BY <1>1, <2>2 DEF RunRecord
<1>3. run' = [run EXCEPT ![r] = w]
  BY <1>1
<1>4. run' \in [Runs -> RunRecord \cup {None}] /\ run'[r] = w
  BY <1>0, <1>2, <1>3 DEF TypeOK
<1>5. PICK q : q = [NoJob EXCEPT !.binding = CurrentBinding(journal)]
  OBVIOUS
<1>6. CurrentBinding(journal) \in Nat
  BY <1>0, JournalType DEF JournalInv
<1>7. /\ q \in JobRecord /\ q.stage = "history"
      /\ q.plan = [t \in Targets |-> "unknown"]
  BY <1>5, <1>6 DEF NoJob, JobRecord, Stages
<1>8. job' = [job EXCEPT ![r] = q]
  BY <1>5
<1>9. job' \in [Runs -> JobRecord] /\ job'[r] = q
  BY <1>0, <1>7, <1>8 DEF TypeOK
<1>10. \A o \in Runs \ {r} : run'[o] = run[o] /\ job'[o] = job[o] /\ ~Running(o)
  BY <1>0, <1>3, <1>8 DEF TypeOK, GroupFree, Running
<1>11. \A o \in Runs : Running(o)' => o = r
  BY <1>10 DEF Running
<1>12. RunsTakeTurns'
  <2>1. \A u, o \in Runs : Running(u)' /\ Running(o)' => u = o
    BY <1>11
  <2>2. Running(r)'
    BY <1>2, <1>4, NoneAssumption DEF Running
  <2>3. \A o \in Runs : ~Running(o)' => job'[o] = NoJob
    BY <1>0, <1>10, <2>2 DEF RunsTakeTurns
  <2>4. \A o \in Runs : run'[o] # None /\ run'[o].status = "queued" => run'[o].attempt = 1
    BY <1>0, <1>2, <1>4, <1>10 DEF RunsTakeTurns
  <2> QED
    BY <2>1, <2>3, <2>4 DEF RunsTakeTurns
<1>13. JobIsCurrent'
  <2>1. job'[r].stage = "history" /\ \A t \in Targets : job'[r].plan[t] = "unknown"
    BY <1>7, <1>9
  <2>2. HistoryHolds(r)'
    BY <2>1 DEF HistoryHolds
  <2>3. CandidateHolds(r)'
    BY <2>1 DEF CandidateHolds
  <2>4. PlanHolds(r)'
    BY <2>1 DEF PlanHolds
  <2> QED
    BY <1>11, <2>2, <2>3, <2>4 DEF JobIsCurrent
<1>14. TypeOK'
  BY <1>0, <1>4, <1>9 DEF TypeOK
<1>15. UploadsInv'
  BY <1>0, UploadsKept
<1>16. JournalInv' /\ ApprovalPrecedesStarts'
  BY <1>0, JournalKept, ApprovalKept
<1> QED
  BY <1>12, <1>13, <1>14, <1>15, <1>16 DEF PartsHold

-----------------------------------------------------------------------------
(* The steps, one lemma each.                                              *)
LEMMA PrepareKeeps ==
  ASSUME PartsHold, PrepareBinding
  PROVE  PartsHold'
<1> USE DEF PartsHold
<1>1. PICK s \in Shas, p \in {"nonpublishing", "release"}, n \in 1..MaxBindings :
        LET b == [kind |-> "binding", revision |-> n, supersedes |-> CurrentBinding(journal),
                  purpose |-> p, source |-> s]
        IN  /\ AdmitsBinding(journal, b)
            /\ prepared' = Candidate(b)
            /\ UNCHANGED <<journal, tag, run, job, uploads, content, catalog>>
  BY DEF PrepareBinding
<1>2. PICK b : b = [kind |-> "binding", revision |-> n, supersedes |-> CurrentBinding(journal),
                    purpose |-> p, source |-> s]
  OBVIOUS
<1>3. Len(journal) \in Nat /\ b \in Bindings
  BY <1>2, JournalType DEF JournalInv, Bindings
<1>4. prepared' = [previous |-> Len(journal), event |-> b] /\ Started(journal) = {}
  BY <1>1, <1>2 DEF Candidate, AdmitsBinding
<1>5. TypeOK'
  BY <1>1, <1>3, <1>4 DEF TypeOK, Candidates
<1>6. ApprovalPrecedesStarts'
  BY <1>1, <1>3, <1>4 DEF ApprovalPrecedesStarts, Started
<1> QED
  BY <1>1, <1>5, <1>6, UploadsKept, JournalKept, JobsKept, TurnsKept

LEMMA BindingKeeps ==
  ASSUME PartsHold, AppendBinding
  PROVE  PartsHold'
<1> USE DEF PartsHold
<1>1. /\ prepared # None /\ FastForwards(prepared) /\ prepared' = None
      /\ journal' = Anchored(prepared)
      /\ UNCHANGED <<tag, run, job, uploads, content, catalog>>
  BY DEF AppendBinding
<1>2. /\ prepared.event \in Bindings /\ Len(journal) \in Nat
      /\ journal \in Seq(Events)
  BY <1>1, JournalType DEF TypeOK, Candidates, JournalInv
<1>3. Started(journal) = {}
  BY <1>1 DEF ApprovalPrecedesStarts, FastForwards
<1>4. journal' = Append(journal, prepared.event)
  BY <1>1, AnchoredIsAppend
<1>5. JournalInv' /\ journal' \in Seq(Events) /\ Started(journal') = {}
  BY <1>2, <1>3, <1>4, BindingAnchored
<1>6. Len(journal') = Len(journal) + 1
  BY <1>2, <1>4, AppendFacts DEF Events
<1>7. TypeOK'
  BY <1>1, <1>5 DEF TypeOK, Events
<1>8. /\ \A i \in DOMAIN journal : journal[i].kind # "start"
      /\ \A i \in DOMAIN journal' : journal'[i].kind # "start"
  BY <1>3, <1>5, NoneStarted
<1>9. UploadsInv'
  <2>1. \A t \in Targets : ~(uploads[t] > 0)
    BY <1>8 DEF UploadsInv, UploadIsRecorded
  <2>2. UploadIsRecorded'
    BY <1>1, <2>1 DEF UploadIsRecorded
  <2> QED
    BY <1>1, <2>2
       DEF UploadsInv, AtMostOneUpload, OneQualification, CatalogShowsUploads
<1>10. JobIsCurrent'
  <2> SUFFICES ASSUME NEW r \in Runs, Running(r)
               PROVE  HistoryHolds(r)' /\ PlanHolds(r)' /\ CandidateHolds(r)'
    BY <1>1 DEF JobIsCurrent, Running
  <2>1. HistoryHolds(r) /\ PlanHolds(r) /\ CandidateHolds(r)
    BY DEF JobIsCurrent
  <2>2. HistoryHolds(r)'
    BY <1>1, <1>3, <1>5, <1>8, <2>1 DEF HistoryHolds
  <2>3. PlanHolds(r)'
    BY <1>1, <1>5, <2>1 DEF PlanHolds
  <2>4. CandidateHolds(r)'
    <3>1. ASSUME job[r].stage \in {"anchor", "publish"}
          PROVE  job[r].candidate.previous \in Nat
      BY <2>1, <3>1 DEF TypeOK, JobRecord, Candidates, CandidateHolds
    <3> QED
      BY <1>1, <1>2, <1>6, <2>1, <3>1 DEF CandidateHolds
  <2> QED
    BY <2>2, <2>3, <2>4
<1>11. ApprovalPrecedesStarts'
  BY <1>1 DEF ApprovalPrecedesStarts
<1> QED
  BY <1>1, <1>5, <1>7, <1>9, <1>10, <1>11, TurnsKept

LEMMA RequestKeeps ==
  ASSUME PartsHold,
         NEW r \in Runs, NEW q \in Qualifications, NEW who \in Requesters \cup {None},
         Request(r, q, who)
  PROVE  PartsHold'
<1> USE DEF PartsHold
<1>1. /\ tag # None /\ run[r] = None
      /\ run' = [run EXCEPT ![r] = [sha |-> tag, request |-> who, of |-> q,
                                    attempt |-> 1, status |-> "queued"]]
      /\ UNCHANGED <<journal, prepared, tag, job, uploads, content, catalog>>
  BY DEF Request
<1>2. PICK w : w = [sha |-> tag, request |-> who, of |-> q, attempt |-> 1, status |-> "queued"]
  OBVIOUS
<1>3. w \in RunRecord /\ w.status = "queued" /\ w.attempt = 1
  BY <1>1, <1>2, BoundsAssumption DEF TypeOK, RunRecord, Attempts
<1>4. run' = [run EXCEPT ![r] = w]
  BY <1>1, <1>2
<1>5. run' \in [Runs -> RunRecord \cup {None}] /\ run'[r] = w
  BY <1>3, <1>4 DEF TypeOK
<1>6. \A o \in Runs \ {r} : run'[o] = run[o]
  BY <1>4 DEF TypeOK
<1>7. \A o \in Runs : Running(o)' <=> Running(o)
  BY <1>1, <1>3, <1>5, <1>6 DEF Running
<1>8. RunsTakeTurns'
  <2>1. \A o \in Runs : run'[o] # None /\ run'[o].status = "queued" => run'[o].attempt = 1
    BY <1>3, <1>5, <1>6 DEF RunsTakeTurns
  <2> QED
    BY <1>1, <1>7, <2>1 DEF RunsTakeTurns
<1>9. JobIsCurrent'
  <2> SUFFICES ASSUME NEW o \in Runs, Running(o)'
               PROVE  HistoryHolds(o)' /\ PlanHolds(o)' /\ CandidateHolds(o)'
    BY DEF JobIsCurrent
  <2>1. Running(o) /\ run'[o] = run[o]
    BY <1>1, <1>6, <1>7 DEF Running
  <2>2. HistoryHolds(o) /\ PlanHolds(o) /\ CandidateHolds(o)
    BY <2>1 DEF JobIsCurrent
  <2> QED
    BY <1>1, <2>1, <2>2 DEF HistoryHolds, PlanHolds, CandidateHolds
<1>10. TypeOK'
  BY <1>1, <1>5 DEF TypeOK
<1> QED
  BY <1>1, <1>8, <1>9, <1>10, UploadsKept, JournalKept, ApprovalKept

LEMMA EndKeeps ==
  ASSUME PartsHold, NEW r \in Runs, Fail(r) \/ Complete(r)
  PROVE  PartsHold'
<1> USE DEF PartsHold
<1>1. PICK status \in {"failed", "succeeded"} :
        /\ run[r] # None
        /\ run' = [run EXCEPT ![r].status = status]
        /\ job' = [job EXCEPT ![r] = NoJob]
        /\ UNCHANGED <<journal, prepared, tag, uploads, content, catalog>>
  BY DEF Fail, Complete, At, Running
<1>2. /\ run' \in [Runs -> RunRecord \cup {None}] /\ job' \in [Runs -> JobRecord]
      /\ RunsTakeTurns' /\ JobIsCurrent'
  BY <1>1, RunEnds
<1>3. TypeOK'
  BY <1>1, <1>2 DEF TypeOK
<1> QED
  BY <1>1, <1>2, <1>3, UploadsKept, JournalKept, ApprovalKept

LEMMA HistoryKeeps ==
  ASSUME PartsHold, NEW r \in Runs, History(r)
  PROVE  PartsHold'
<1> USE DEF PartsHold
<1>1. /\ Running(r) /\ job[r].stage = "history"
      /\ \A i \in DOMAIN journal : journal[i].kind = "start" =>
           journal[i].source = run[r].sha /\ journal[i].of = run[r].of
      /\ UNCHANGED <<journal, prepared, tag, run, uploads, content, catalog>>
  BY DEF History, At
<1>2. PICK q : q = [job[r] EXCEPT !.stage = "prepare", !.prior = Started(journal)]
  OBVIOUS
<1>3. /\ q \in JobRecord /\ q.stage = "prepare" /\ q.prior = Started(journal)
      /\ q.plan = job[r].plan
  <2>1. job[r] \in JobRecord /\ Started(journal) \subseteq Targets
    BY JournalType DEF TypeOK, JournalInv
  <2> QED
    BY <1>2, <2>1 DEF JobRecord, Stages
<1>4. job' = [job EXCEPT ![r] = q]
  BY <1>2 DEF History
<1>5. job'[r] = q
  BY <1>4 DEF TypeOK
<1>6. JobHolds(r)'
  <2>1. HistoryHolds(r)'
    BY <1>1, <1>3, <1>5 DEF HistoryHolds
  <2>2. PlanHolds(r)'
    BY <1>1, <1>3, <1>5 DEF PlanHolds, JobIsCurrent
  <2>3. CandidateHolds(r)'
    BY <1>3, <1>5 DEF CandidateHolds
  <2> QED
    BY <2>1, <2>2, <2>3 DEF JobHolds
<1>7. job' \in [Runs -> JobRecord] /\ RunsTakeTurns' /\ JobIsCurrent'
  BY <1>1, <1>3, <1>4, <1>6, JobStep
<1>8. TypeOK'
  BY <1>1, <1>7 DEF TypeOK
<1> QED
  BY <1>1, <1>7, <1>8, UploadsKept, JournalKept, ApprovalKept

LEMMA PreflightKeeps ==
  ASSUME PartsHold, NEW r \in Runs, Preflight(r)
  PROVE  PartsHold'
<1> USE DEF PartsHold
<1>1. /\ Running(r) /\ job[r].stage = "prepare"
      /\ \A t \in Targets : /\ catalog[t] # "pending"
                            /\ catalog[t] = "absent" => t \notin job[r].prior
      /\ UNCHANGED <<journal, prepared, tag, run, uploads, content, catalog>>
  BY DEF Preflight, At
<1>2. PICK plan : plan = [t \in Targets |->
                           IF catalog[t] = "public" THEN "settled" ELSE "eligible"]
  OBVIOUS
<1>3. PICK q : q = [job[r] EXCEPT !.stage = "record", !.plan = plan]
  OBVIOUS
<1>4. q \in JobRecord /\ q.stage = "record" /\ q.plan = plan
  <2>1. job[r] \in JobRecord /\ plan \in [Targets -> {"unknown", "eligible", "settled"}]
    BY <1>2 DEF TypeOK
  <2> QED
    BY <1>3, <2>1 DEF JobRecord, Stages
<1>5. job' = [job EXCEPT ![r] = q]
  BY <1>2, <1>3 DEF Preflight
<1>6. job'[r] = q
  BY <1>5 DEF TypeOK
<1>7. HistoryHolds(r) /\ job[r].prior = Started(journal)
  BY <1>1 DEF JobIsCurrent, HistoryHolds
<1>8. JobHolds(r)'
  <2>1. HistoryHolds(r)'
    BY <1>1, <1>4, <1>6, <1>7 DEF HistoryHolds
  <2>2. ASSUME NEW t \in Targets, catalog[t] = "public"
        PROVE  plan[t] = "settled" /\ uploads[t] = 1
    BY <1>2, <2>2 DEF TypeOK, UploadsInv, CatalogShowsUploads, AtMostOneUpload
  <2>3. ASSUME NEW t \in Targets, catalog[t] # "public"
        PROVE  plan[t] = "eligible" /\ uploads[t] = 0 /\ t \notin Started(journal)
    <3>1. catalog[t] = "absent" /\ t \notin Started(journal) /\ plan[t] = "eligible"
      BY <1>1, <1>2, <1>7, <2>3 DEF TypeOK
    <3>2. ~(uploads[t] > 0)
      BY <3>1 DEF UploadsInv, UploadIsRecorded, Started
    <3> QED
      BY <3>1, <3>2 DEF TypeOK
  <2>4. PlanHolds(r)'
    BY <1>1, <1>4, <1>6, <2>2, <2>3 DEF PlanHolds
  <2>5. CandidateHolds(r)'
    BY <1>4, <1>6 DEF CandidateHolds
  <2> QED
    BY <2>1, <2>4, <2>5 DEF JobHolds
<1>9. job' \in [Runs -> JobRecord] /\ RunsTakeTurns' /\ JobIsCurrent'
  BY <1>1, <1>4, <1>5, <1>8, JobStep
<1>10. TypeOK'
  BY <1>1, <1>9 DEF TypeOK
<1> QED
  BY <1>1, <1>9, <1>10, UploadsKept, JournalKept, ApprovalKept

LEMMA RecordKeeps ==
  ASSUME PartsHold, NEW r \in Runs, Record(r)
  PROVE  PartsHold'
<1> USE DEF PartsHold
<1>1. /\ Running(r) /\ job[r].stage = "record"
      /\ UNCHANGED <<journal, prepared, tag, run, uploads, content, catalog>>
  BY DEF Record, At
<1>2. PICK t \in Targets :
        /\ job[r].plan[t] = "eligible"
        /\ AdmitsStart(journal, Intent(r, t))
        /\ job' = [job EXCEPT ![r].stage = "anchor", ![r].target = t,
                              ![r].candidate = Candidate(Intent(r, t))]
  BY DEF Record
<1>3. /\ job[r] \in JobRecord /\ run[r] \in RunRecord /\ Len(journal) \in Nat
  BY <1>1, JournalType DEF TypeOK, Running, JournalInv
<1>4. PICK s : s = Intent(r, t)
  OBVIOUS
<1>5. /\ s \in Starts /\ s.target = t /\ s.source = run[r].sha /\ s.of = run[r].of
  BY <1>3, <1>4 DEF Intent, Starts, RunRecord, JobRecord
<1>6. PICK c : c = Candidate(s)
  OBVIOUS
<1>7. c \in Candidates(Starts) /\ c.event = s /\ c.previous = Len(journal)
  BY <1>3, <1>5, <1>6 DEF Candidate, Candidates
<1>8. PICK q : q = [job[r] EXCEPT !.stage = "anchor", !.target = t, !.candidate = c]
  OBVIOUS
<1>9. /\ q \in JobRecord /\ q.stage = "anchor" /\ q.target = t /\ q.candidate = c
      /\ q.plan = job[r].plan /\ q.prior = job[r].prior
  BY <1>3, <1>7, <1>8 DEF JobRecord, Stages
<1>10. job' = [job EXCEPT ![r] = q]
  BY <1>2, <1>4, <1>6, <1>8
<1>11. job'[r] = q
  BY <1>10 DEF TypeOK
<1>12. JobHolds(r)'
  <2>1. HistoryHolds(r) /\ PlanHolds(r)
    BY <1>1 DEF JobIsCurrent
  <2>2. HistoryHolds(r)'
    BY <1>1, <1>9, <1>11, <2>1 DEF HistoryHolds
  <2>3. PlanHolds(r)'
    BY <1>1, <1>9, <1>11, <2>1 DEF PlanHolds
  <2>4. job'[r].candidate # None /\ job'[r].target # None
    BY <1>7, <1>9, <1>11, NoneAssumption
  <2>5. job'[r].candidate.event = s /\ AdmitsStart(journal', s)
    BY <1>1, <1>2, <1>4, <1>7, <1>9, <1>11
  <2>6. CandidateHolds(r)'
    <3>1. job'[r].plan[job'[r].target] = "eligible"
      BY <1>2, <1>9, <1>11
    <3>2. job'[r].candidate.previous <= Len(journal')
      BY <1>1, <1>3, <1>7, <1>9, <1>11
    <3>3. s.target = job'[r].target /\ s.of = run'[r].of /\ s.source = run'[r].sha
      BY <1>1, <1>5, <1>9, <1>11
    <3> QED
      BY ONLY <2>4, <2>5, <3>1, <3>2, <3>3 DEF CandidateHolds
  <2> QED
    BY <2>2, <2>3, <2>6 DEF JobHolds
<1>13. job' \in [Runs -> JobRecord] /\ RunsTakeTurns' /\ JobIsCurrent'
  BY <1>1, <1>9, <1>10, <1>12, JobStep
<1>14. TypeOK'
  BY <1>1, <1>13 DEF TypeOK
<1> QED
  BY <1>1, <1>13, <1>14, UploadsKept, JournalKept, ApprovalKept

LEMMA AnchorKeeps ==
  ASSUME PartsHold, NEW r \in Runs, Anchor(r)
  PROVE  PartsHold'
<1> USE DEF PartsHold
<1>1. /\ Running(r) /\ job[r].stage = "anchor" /\ FastForwards(job[r].candidate)
      /\ journal' = Anchored(job[r].candidate)
      /\ job' = [job EXCEPT ![r].stage = "publish"]
      /\ UNCHANGED <<prepared, tag, run, uploads, content, catalog>>
  BY DEF Anchor, At
<1>2. HistoryHolds(r) /\ PlanHolds(r) /\ CandidateHolds(r)
  BY <1>1 DEF JobIsCurrent
<1>3. job[r] \in JobRecord /\ journal \in Seq(Events) /\ Len(journal) \in Nat
  BY JournalType DEF TypeOK, JournalInv
<1>4. PICK s : s = job[r].candidate.event
  OBVIOUS
<1>5. /\ s \in Starts /\ job[r].candidate.previous = Len(journal)
      /\ s.target = job[r].target /\ s.of = run[r].of /\ s.source = run[r].sha
      /\ AdmitsStart(journal, s)
  BY <1>1, <1>2, <1>3, <1>4 DEF CandidateHolds, JobRecord, Candidates, FastForwards
<1>6. journal' = Append(journal, s)
  BY <1>1, <1>4, AnchoredIsAppend
<1>7. \A i \in DOMAIN journal : journal[i].kind = "start" =>
        journal[i].source = run[r].sha /\ journal[i].of = run[r].of
  BY <1>1, <1>2 DEF HistoryHolds
<1>8. JournalInv' /\ journal' \in Seq(Events)
  BY <1>5, <1>6, <1>7, StartAnchored
<1>9. /\ DOMAIN journal = 1..Len(journal) /\ DOMAIN journal' = 1..(Len(journal) + 1)
      /\ Len(journal') = Len(journal) + 1
      /\ \A i \in 1..Len(journal) : journal'[i] = journal[i]
      /\ journal'[Len(journal) + 1] = s
  BY <1>3, <1>5, <1>6, AppendFacts DEF Events
<1>10. Started(journal') = Started(journal) \cup {s.target}
  BY <1>3, <1>5, <1>6, StartedAfterStart
<1>11. PICK q : q = [job[r] EXCEPT !.stage = "publish"]
  OBVIOUS
<1>12. /\ q \in JobRecord /\ q.stage = "publish" /\ q.plan = job[r].plan
       /\ q.target = job[r].target /\ q.candidate = job[r].candidate
  BY <1>3, <1>11 DEF JobRecord, Stages
<1>13. job' = [job EXCEPT ![r] = q]
  BY <1>1, <1>11
<1>14. job'[r] = q
  BY <1>13 DEF TypeOK
<1>15. UploadsInv'
  <2>1. UploadIsRecorded'
    BY <1>1, <1>3, <1>9 DEF UploadsInv, UploadIsRecorded
  <2> QED
    BY <1>1, <2>1 DEF UploadsInv, AtMostOneUpload, OneQualification, CatalogShowsUploads
<1>16. ApprovalPrecedesStarts'
  <2>1. prepared # None => prepared.previous \in Nat /\ prepared.previous <= Len(journal)
    BY DEF TypeOK, Candidates, ApprovalPrecedesStarts
  <2> QED
    BY <1>1, <1>3, <1>9, <2>1 DEF ApprovalPrecedesStarts
<1>17. JobHolds(r)'
  <2>1. HistoryHolds(r)'
    BY <1>1, <1>3, <1>5, <1>7, <1>9, <1>12, <1>14 DEF HistoryHolds
  <2>2. PlanHolds(r)'
    BY <1>1, <1>2, <1>5, <1>10, <1>12, <1>14 DEF PlanHolds
  <2>3. CandidateHolds(r)'
    BY <1>1, <1>2, <1>3, <1>4, <1>5, <1>9, <1>12, <1>14 DEF CandidateHolds
  <2> QED
    BY <2>1, <2>2, <2>3 DEF JobHolds
<1>18. job' \in [Runs -> JobRecord] /\ RunsTakeTurns' /\ JobIsCurrent'
  BY <1>1, <1>12, <1>13, <1>17, JobStep
<1>19. TypeOK'
  BY <1>1, <1>8, <1>18 DEF TypeOK, Events
<1> QED
  BY <1>8, <1>15, <1>16, <1>18, <1>19

(* What a job that publishes has in hand.                                  *)
LEMMA PublishFacts ==
  ASSUME PartsHold, NEW r \in Runs, Publish(r)
  PROVE  /\ job[r].target \in Targets /\ run[r].of \in Qualifications
         /\ job[r].plan[job[r].target] = "eligible" /\ uploads[job[r].target] = 0
         /\ uploads' = [uploads EXCEPT ![job[r].target] = 1]
         /\ content' = [content EXCEPT ![job[r].target] = run[r].of]
         /\ \E i \in DOMAIN journal : /\ journal[i].kind = "start"
                                      /\ journal[i].target = job[r].target
                                      /\ journal[i].of = run[r].of
         /\ \A i \in DOMAIN journal : journal[i].kind = "start" =>
              journal[i].source = run[r].sha /\ journal[i].of = run[r].of
<1> USE DEF PartsHold
<1>1. /\ Running(r) /\ job[r].stage = "publish" /\ Witnessed(job[r].candidate)
      /\ job[r].plan[job[r].target] = "eligible"
  BY DEF Publish, At
<1>2. HistoryHolds(r) /\ PlanHolds(r) /\ CandidateHolds(r)
  BY <1>1 DEF JobIsCurrent
<1>3. job[r] \in JobRecord /\ run[r] \in RunRecord
  BY <1>1 DEF TypeOK, Running
<1>4. job[r].target \in Targets /\ run[r].of \in Qualifications
  BY <1>1, <1>2, <1>3 DEF JobRecord, RunRecord, CandidateHolds
<1>5. uploads[job[r].target] = 0 /\ catalog[job[r].target] = "absent"
  BY <1>1, <1>2, <1>4 DEF PlanHolds, UploadsInv, CatalogShowsUploads
<1>6. /\ uploads' = [uploads EXCEPT ![job[r].target] = 1]
      /\ content' = [content EXCEPT ![job[r].target] = run[r].of]
  BY <1>4, <1>5 DEF Publish, TypeOK
<1>7. PICK s : s = job[r].candidate.event
  OBVIOUS
<1>8. s \in Starts /\ s.target = job[r].target /\ s.of = run[r].of
  BY <1>1, <1>2, <1>3, <1>7 DEF CandidateHolds, JobRecord, Candidates
<1>9. \E i \in DOMAIN journal : journal[i] = s
  BY <1>1, <1>7 DEF Witnessed
<1>10. s.kind = "start"
  BY <1>8, KindFacts
<1>11. \A i \in DOMAIN journal : journal[i].kind = "start" =>
         journal[i].source = run[r].sha /\ journal[i].of = run[r].of
  BY <1>1, <1>2 DEF HistoryHolds
<1> QED
  BY <1>1, <1>4, <1>5, <1>6, <1>8, <1>9, <1>10, <1>11

LEMMA PublishKeeps ==
  ASSUME PartsHold, NEW r \in Runs, Publish(r)
  PROVE  PartsHold'
<1> USE DEF PartsHold
<1>1. PICK t : t = job[r].target
  OBVIOUS
<1>2. /\ t \in Targets /\ run[r].of \in Qualifications
      /\ job[r].plan[t] = "eligible" /\ uploads[t] = 0
      /\ uploads' = [uploads EXCEPT ![t] = 1]
      /\ content' = [content EXCEPT ![t] = run[r].of]
      /\ \E i \in DOMAIN journal : /\ journal[i].kind = "start" /\ journal[i].target = t
                                   /\ journal[i].of = run[r].of
      /\ \A i \in DOMAIN journal : journal[i].kind = "start" =>
           journal[i].source = run[r].sha /\ journal[i].of = run[r].of
  BY <1>1, PublishFacts
<1>3. /\ Running(r) /\ job[r].stage = "publish"
      /\ UNCHANGED <<journal, prepared, tag, run, catalog>>
      /\ job' = [job EXCEPT ![r].stage = "record", ![r].plan[t] = "settled",
                            ![r].target = None, ![r].candidate = None]
  BY <1>1 DEF Publish, At
<1>4. job[r] \in JobRecord /\ PlanHolds(r)
  BY <1>3 DEF TypeOK, JobIsCurrent
<1>5. PICK plan : plan = [job[r].plan EXCEPT ![t] = "settled"]
  OBVIOUS
<1>6. /\ plan \in [Targets -> {"unknown", "eligible", "settled"}]
      /\ plan[t] = "settled" /\ \A u \in Targets \ {t} : plan[u] = job[r].plan[u]
  BY <1>2, <1>4, <1>5 DEF JobRecord
<1>7. PICK q : q = [job[r] EXCEPT !.stage = "record", !.plan = plan,
                                  !.target = None, !.candidate = None]
  OBVIOUS
<1>8. q \in JobRecord /\ q.stage = "record" /\ q.plan = plan
  BY <1>4, <1>6, <1>7 DEF JobRecord, Stages
<1>9. job' = [job EXCEPT ![r] = q]
  BY <1>3, <1>5, <1>7
<1>10. job'[r] = q
  BY <1>9 DEF TypeOK
<1>11. /\ uploads' \in [Targets -> Nat] /\ uploads'[t] = 1
       /\ \A u \in Targets \ {t} : uploads'[u] = uploads[u]
  BY <1>2 DEF TypeOK
<1>12. /\ content' \in [Targets -> Qualifications \cup {None}] /\ content'[t] = run[r].of
       /\ \A u \in Targets \ {t} : content'[u] = content[u]
  BY <1>2 DEF TypeOK
<1>13. UploadsInv'
  <2>1. AtMostOneUpload'
    BY <1>11 DEF UploadsInv, AtMostOneUpload
  <2>2. UploadIsRecorded'
    BY <1>2, <1>3, <1>11, <1>12 DEF UploadsInv, UploadIsRecorded
  <2>3. CatalogShowsUploads'
    BY <1>2, <1>3, <1>11, <1>12, NoneAssumption DEF UploadsInv, CatalogShowsUploads
  <2>4. \A u \in Targets : content[u] # None => content[u] = run[r].of
    <3>1. \A u \in Targets : content[u] # None => uploads[u] > 0
      BY DEF TypeOK, UploadsInv, CatalogShowsUploads
    <3> QED
      BY <1>2, <3>1 DEF UploadsInv, UploadIsRecorded
  <2>5. OneQualification'
    BY <1>12, <2>4 DEF OneQualification
  <2> QED
    BY <2>1, <2>2, <2>3, <2>5 DEF UploadsInv
<1>14. JobHolds(r)'
  <2>1. HistoryHolds(r)'
    BY <1>2, <1>3, <1>8, <1>10 DEF HistoryHolds
  <2>2. \A u \in Targets \ {t} :
          /\ plan[u] = "settled" => uploads'[u] = 1
          /\ plan[u] = "eligible" => uploads'[u] = 0 /\ u \notin Started(journal)
    BY <1>1, <1>4, <1>6, <1>11 DEF PlanHolds
  <2>3. job'[r].stage = "record" /\ job'[r].plan = plan /\ Started(journal') = Started(journal)
    BY <1>3, <1>8, <1>10
  <2>4. PlanHolds(r)'
    BY <1>6, <1>11, <2>2, <2>3 DEF PlanHolds
  <2>5. CandidateHolds(r)'
    BY <1>8, <1>10 DEF CandidateHolds
  <2> QED
    BY <2>1, <2>4, <2>5 DEF JobHolds
<1>15. job' \in [Runs -> JobRecord] /\ RunsTakeTurns' /\ JobIsCurrent'
  BY <1>3, <1>8, <1>9, <1>14, JobStep
<1>16. TypeOK'
  BY <1>3, <1>11, <1>12, <1>15 DEF TypeOK
<1> QED
  BY <1>3, <1>13, <1>15, <1>16, JournalKept, ApprovalKept

LEMMA CatalogKeeps ==
  ASSUME PartsHold, NEW t \in Targets, Appear(t)
  PROVE  PartsHold'
<1> USE DEF PartsHold
<1>1. PICK shown \in {"pending", "public"} :
        /\ uploads[t] # 0 /\ catalog' = [catalog EXCEPT ![t] = shown]
        /\ UNCHANGED <<journal, prepared, tag, run, job, uploads, content>>
  BY DEF Appear, TypeOK, UploadsInv, CatalogShowsUploads
<1>2. TypeOK'
  BY <1>1 DEF TypeOK
<1>3. UploadsInv'
  BY <1>1 DEF TypeOK, UploadsInv, AtMostOneUpload, UploadIsRecorded, OneQualification,
              CatalogShowsUploads
<1> QED
  BY <1>1, <1>2, <1>3, JournalKept, ApprovalKept, JobsKept, TurnsKept

LEMMA TagKeeps ==
  ASSUME PartsHold, NEW s \in Shas, PushTag(s)
  PROVE  PartsHold'
<1> USE DEF PartsHold, PushTag
<1>1. TypeOK'
  BY DEF TypeOK
<1> QED
  BY <1>1, UploadsKept, JournalKept, ApprovalKept, JobsKept, TurnsKept

LEMMA StutterKeeps ==
  ASSUME PartsHold, UNCHANGED vars
  PROVE  PartsHold'
<1> USE DEF PartsHold, vars
<1>1. TypeOK'
  BY DEF TypeOK
<1> QED
  BY <1>1, UploadsKept, JournalKept, ApprovalKept, JobsKept, TurnsKept

LEMMA InvariantStep == PartsHold /\ [Next]_vars => PartsHold'
<1> SUFFICES ASSUME PartsHold, [Next]_vars
             PROVE  PartsHold'
  OBVIOUS
<1>1. ASSUME NEW r \in Runs, Start(r)
      PROVE  PartsHold'
  BY <1>1, BoundsAssumption, RunBegins DEF Start, Attempts
<1>2. ASSUME NEW r \in Runs, Rerun(r)
      PROVE  PartsHold'
  <2>1. run[r] \in RunRecord
    BY <1>2 DEF Rerun, PartsHold, TypeOK
  <2>2. run[r].attempt + 1 \in Attempts
    BY <1>2, <2>1, BoundsAssumption DEF Rerun, RunRecord, Attempts
  <2> QED
    BY <1>2, <2>2, RunBegins DEF Rerun
<1>3. CASE Hosted
  BY <1>1, <1>2, <1>3, PrepareKeeps, BindingKeeps, EndKeeps, HistoryKeeps, PreflightKeeps,
     RecordKeeps, AnchorKeeps, PublishKeeps, CatalogKeeps
     DEF Hosted
<1>4. CASE Requested
  BY <1>4, TagKeeps, RequestKeeps DEF Requested
<1>5. CASE UNCHANGED vars
  BY <1>5, StutterKeeps
<1> QED
  BY <1>3, <1>4, <1>5 DEF Next

LEMMA InvariantInit == Init => PartsHold
<1> SUFFICES ASSUME Init PROVE PartsHold
  OBVIOUS
<1>1. \A r \in Runs : ~Running(r) /\ run[r] = None /\ job[r] = NoJob
  BY DEF Init, Running
<1>2. TypeOK
  <2>1. NoJob \in JobRecord
    BY DEF NoJob, JobRecord, Stages
  <2> QED
    BY <2>1 DEF Init, TypeOK
<1>3. DOMAIN journal = {}
  BY DEF Init
<1>4. JournalInv
  BY <1>3 DEF JournalInv, BindingIsFrozen, StartsAgree, BindingIsKnown
<1>5. UploadsInv
  BY DEF Init, UploadsInv, AtMostOneUpload, UploadIsRecorded, OneQualification,
         CatalogShowsUploads
<1>6. ApprovalPrecedesStarts
  BY DEF Init, ApprovalPrecedesStarts
<1>7. RunsTakeTurns /\ JobIsCurrent
  BY <1>1 DEF RunsTakeTurns, JobIsCurrent
<1> QED
  BY <1>2, <1>4, <1>5, <1>6, <1>7 DEF PartsHold

(* No package of a version is ever uploaded twice, what may have been      *)
(* uploaded is on record of those bytes, all of one qualification, and the *)
(* binding it was admitted under stays in force: for any runs, attempts,   *)
(* targets and commits, whichever jobs die and are started again.          *)
THEOREM RecordedUploads == Spec => []UploadsAreRecorded
<1>1. Spec => []PartsHold
  BY InvariantInit, InvariantStep, PTL DEF Spec
<1> QED
  BY <1>1, InvariantParts, PTL

(* The variables keep their types.                                         *)
THEOREM TypeCorrect == Spec => []TypeOK
<1>1. UploadsAreRecorded => TypeOK
  BY DEF UploadsAreRecorded
<1> QED
  BY <1>1, RecordedUploads, PTL

(* Whatever dies and is started again and however late the catalogue       *)
(* shows it, no package is uploaded twice, and the packages the            *)
(* Marketplace holds come from one qualification.                          *)
THEOREM UploadedOnce == Spec => [](AtMostOneUpload /\ OneQualification)
<1>1. UploadsAreRecorded => AtMostOneUpload /\ OneQualification
  BY DEF UploadsAreRecorded
<1> QED
  BY <1>1, RecordedUploads, PTL

-----------------------------------------------------------------------------
(* The refinement of Publication: its variables, and what they are after a *)
(* step.                                                                   *)
Intended == [t \in Targets |-> IntendedOf(t)]
Stored == {t \in Targets : uploads[t] > 0}
Public == {t \in Targets : catalog[t] = "public"}

IntendedIn(records, t) ==
  LET recorded == {i \in DOMAIN records : records[i].kind = "start" /\ records[i].target = t}
  IN  IF recorded = {} THEN None ELSE records[CHOOSE i \in recorded : TRUE].of

LEMMA IntendedFacts ==
  ASSUME NEW records, NEW t, NEW q,
         \A i \in DOMAIN records :
           records[i].kind = "start" /\ records[i].target = t => records[i].of = q
  PROVE  /\ t \notin Started(records) => IntendedIn(records, t) = None
         /\ t \in Started(records) => IntendedIn(records, t) = q
<1>1. PICK recorded : recorded = {i \in DOMAIN records : /\ records[i].kind = "start"
                                                        /\ records[i].target = t}
  OBVIOUS
<1>2. recorded = {} <=> t \notin Started(records)
  BY <1>1 DEF Started
<1>3. recorded # {} => (CHOOSE i \in recorded : TRUE) \in recorded
  OBVIOUS
<1>4. IntendedIn(records, t) =
        IF recorded = {} THEN None ELSE records[CHOOSE i \in recorded : TRUE].of
  BY <1>1 DEF IntendedIn
<1> QED
  BY <1>1, <1>2, <1>3, <1>4

LEMMA AbstractSame ==
  ASSUME UNCHANGED <<journal, uploads, catalog>>
  PROVE  UNCHANGED <<Intended, Stored, Public>>
BY DEF Intended, IntendedOf, Stored, Public

LEMMA AbstractStutters ==
  ASSUME UNCHANGED <<journal, uploads, catalog, tag, run>>
  PROVE  UNCHANGED Abstract!abstractVars
<1>1. UNCHANGED <<Intended, Stored, Public>>
  BY AbstractSame
<1> QED
  BY <1>1 DEF Abstract!abstractVars, Intended, Stored, Public

LEMMA BeginImplements ==
  ASSUME PartsHold, NEW r \in Runs, Start(r) \/ Rerun(r)
  PROVE  Abstract!Begin(r)
<1>1. UNCHANGED <<Intended, Stored, Public>> /\ UNCHANGED tag
  BY AbstractSame DEF Start, Rerun, Begin
<1>2. /\ \A o \in Runs \ {r} : run[o] # None => run[o].status # "running"
      /\ run[r] # None
  BY DEF Start, Rerun, Begin, GroupFree
<1>3. run[r] \in RunRecord
  BY <1>2 DEF PartsHold, TypeOK
<1>4. \E next \in {run[r].attempt, run[r].attempt + 1} \cap (1..MaxAttempts) :
        /\ next = run[r].attempt <=> run[r].status = "queued"
        /\ run[r].status # "running"
        /\ run' = [run EXCEPT ![r].status = "running", ![r].attempt = next]
  <2>1. CASE Start(r)
    <3>1. run[r].attempt = 1 /\ 1 \in 1..MaxAttempts
      BY <2>1, BoundsAssumption DEF Start, PartsHold, RunsTakeTurns
    <3> QED
      BY <2>1, <3>1 DEF Start, Begin
  <2>2. CASE Rerun(r)
    <3>1. run[r].attempt + 1 \in 1..MaxAttempts /\ run[r].attempt + 1 # run[r].attempt
      BY <1>3, <2>2, BoundsAssumption DEF Rerun, RunRecord, Attempts
    <3> QED
      BY <2>2, <3>1 DEF Rerun, Begin
  <2> QED
    BY <2>1, <2>2
<1> QED
  BY <1>1, <1>2, <1>4 DEF Abstract!Begin, Intended, Stored, Public

LEMMA FailImplements ==
  ASSUME NEW r \in Runs, Fail(r)
  PROVE  Abstract!Fail(r)
<1>1. UNCHANGED <<Intended, Stored, Public>>
  BY AbstractSame DEF Fail
<1> QED
  BY <1>1 DEF Fail, Abstract!Fail, Intended, Stored, Public

LEMMA AnchorImplements ==
  ASSUME PartsHold, PartsHold', NEW r \in Runs, Anchor(r)
  PROVE  \E t \in Targets : Abstract!Intend(r, t)
<1>1. /\ Running(r) /\ job[r].stage = "anchor" /\ FastForwards(job[r].candidate)
      /\ journal' = Anchored(job[r].candidate)
      /\ UNCHANGED <<tag, run, uploads, catalog>>
  BY DEF Anchor, At
<1>2. HistoryHolds(r) /\ PlanHolds(r) /\ CandidateHolds(r) /\ TypeOK
  BY <1>1 DEF PartsHold, JobIsCurrent
<1>3. job[r] \in JobRecord /\ journal \in Seq(Events) /\ Len(journal) \in Nat
  BY JournalType DEF PartsHold, TypeOK, JournalInv
<1>4. PICK s : s = job[r].candidate.event
  OBVIOUS
<1>5. /\ s \in Starts /\ s.target = job[r].target /\ s.of = run[r].of
      /\ job[r].target \in Targets /\ job[r].plan[job[r].target] = "eligible"
  BY <1>1, <1>2, <1>3, <1>4 DEF CandidateHolds, JobRecord, Candidates
<1>6. journal' = Append(journal, s)
  BY <1>1, <1>2, <1>4, AnchoredIsAppend
<1>7. /\ DOMAIN journal = 1..Len(journal) /\ DOMAIN journal' = 1..(Len(journal) + 1)
      /\ \A i \in 1..Len(journal) : journal'[i] = journal[i]
      /\ journal'[Len(journal) + 1] = s
  BY <1>3, <1>5, <1>6, AppendFacts DEF Events
<1>8. Started(journal') = Started(journal) \cup {s.target}
  BY <1>3, <1>5, <1>6, StartedAfterStart
<1>9. \A i \in DOMAIN journal : journal[i].kind = "start" => journal[i].of = run[r].of
  BY <1>1, <1>2 DEF HistoryHolds
<1>10. \A i \in DOMAIN journal' : journal'[i].kind = "start" => journal'[i].of = run[r].of
  BY <1>3, <1>5, <1>7, <1>9
<1>11. \A u \in Targets :
         /\ IntendedOf(u) = IF u \in Started(journal) THEN run[r].of ELSE None
         /\ IntendedOf(u)' = IF u \in Started(journal') THEN run[r].of ELSE None
  <2>1. \A u \in Targets : /\ IntendedOf(u) = IntendedIn(journal, u)
                           /\ IntendedOf(u)' = IntendedIn(journal', u)
    BY DEF IntendedOf, IntendedIn
  <2>2. PICK q : q = run[r].of
    OBVIOUS
  <2>3. \A u \in Targets : IntendedIn(journal, u) = IF u \in Started(journal) THEN q ELSE None
    BY <1>9, <2>2, IntendedFacts
  <2>4. \A u \in Targets :
          IntendedIn(journal', u) = IF u \in Started(journal') THEN q ELSE None
    BY <1>10, <2>2, IntendedFacts
  <2> QED
    BY <2>1, <2>2, <2>3, <2>4
<1>12. job[r].target \notin Started(journal)
  BY <1>1, <1>2, <1>5 DEF PlanHolds
<1>13. Intended' = [Intended EXCEPT ![job[r].target] = run[r].of]
  BY <1>5, <1>8, <1>11, <1>12 DEF Intended
<1>14. UNCHANGED <<Stored, Public>>
  BY <1>1 DEF Stored, Public
<1>15. Intended[job[r].target] = None /\ \A u \in Targets : Intended[u] \in {None, run[r].of}
  BY <1>5, <1>11, <1>12 DEF Intended
<1>16. Abstract!Running(r)
  BY <1>1 DEF Running, Abstract!Running
<1> QED
  BY <1>1, <1>5, <1>13, <1>14, <1>15, <1>16 DEF Abstract!Intend, Intended, Stored, Public

LEMMA PublishImplements ==
  ASSUME PartsHold, NEW r \in Runs, Publish(r)
  PROVE  \E t \in Targets : Abstract!Store(r, t)
<1>1. PICK t : t = job[r].target
  OBVIOUS
<1>2. /\ t \in Targets /\ uploads[t] = 0
      /\ uploads' = [uploads EXCEPT ![t] = 1]
      /\ t \in Started(journal)
      /\ \A i \in DOMAIN journal : journal[i].kind = "start" => journal[i].of = run[r].of
  BY <1>1, PublishFacts DEF Started
<1>3. /\ Running(r)
      /\ UNCHANGED <<journal, tag, run, catalog>>
  BY DEF Publish, At
<1>4. IntendedOf(t) = run[r].of
  <2>1. IntendedOf(t) = IntendedIn(journal, t)
    BY DEF IntendedOf, IntendedIn
  <2> QED
    BY <1>2, <2>1, IntendedFacts
<1>5. Stored' = Stored \cup {t} /\ t \notin Stored
  BY <1>2 DEF Stored, PartsHold, TypeOK
<1>6. UNCHANGED <<Intended, Public>>
  BY <1>3 DEF Intended, IntendedOf, Public
<1>7. Abstract!Running(r) /\ Intended[t] = run[r].of
  BY <1>2, <1>3, <1>4 DEF Running, Abstract!Running, Intended
<1> QED
  BY <1>2, <1>3, <1>5, <1>6, <1>7 DEF Abstract!Store, Intended, Stored, Public

LEMMA CompleteImplements ==
  ASSUME PartsHold, NEW r \in Runs, Complete(r)
  PROVE  Abstract!Succeed(r)
<1>1. /\ Running(r) /\ job[r].stage = "record"
      /\ \A t \in Targets : job[r].plan[t] = "settled"
      /\ run' = [run EXCEPT ![r].status = "succeeded"]
      /\ UNCHANGED <<journal, prepared, tag, uploads, content, catalog>>
  BY DEF Complete, At
<1>2. HistoryHolds(r) /\ PlanHolds(r)
  BY <1>1 DEF PartsHold, JobIsCurrent
<1>3. \A t \in Targets : uploads[t] = 1
  BY <1>1, <1>2 DEF PlanHolds
<1>4. \A t \in Targets : t \in Started(journal)
  BY <1>3 DEF PartsHold, UploadsInv, UploadIsRecorded, Started
<1>5. \A i \in DOMAIN journal : journal[i].kind = "start" => journal[i].of = run[r].of
  BY <1>1, <1>2 DEF HistoryHolds
<1>6. \A t \in Targets : IntendedOf(t) = run[r].of
  <2>1. \A t \in Targets : IntendedOf(t) = IntendedIn(journal, t)
    BY DEF IntendedOf, IntendedIn
  <2> QED
    BY <1>4, <1>5, <2>1, IntendedFacts
<1>7. Stored = Targets /\ \A t \in Targets : Intended[t] = run[r].of
  BY <1>3, <1>6 DEF Stored, Intended
<1>8. UNCHANGED <<Intended, Stored, Public>>
  BY <1>1, AbstractSame
<1>9. Abstract!Running(r)
  BY <1>1 DEF Running, Abstract!Running
<1> QED
  BY <1>1, <1>7, <1>8, <1>9 DEF Abstract!Succeed, Intended, Stored, Public

LEMMA AppearImplements ==
  ASSUME PartsHold, NEW t \in Targets, Appear(t)
  PROVE  Abstract!Appear(t) \/ UNCHANGED Abstract!abstractVars
<1>1. UNCHANGED <<journal, tag, run, uploads>>
  BY DEF Appear
<1>2. UNCHANGED <<Intended, Stored>>
  BY <1>1 DEF Intended, IntendedOf, Stored
<1>3. CASE catalog[t] = "absent" /\ catalog' = [catalog EXCEPT ![t] = "pending"]
  <2>1. UNCHANGED Public
    BY <1>3 DEF Public, PartsHold, TypeOK
  <2> QED
    BY <1>1, <1>2, <2>1 DEF Abstract!abstractVars, Intended, Stored, Public
<1>4. CASE catalog[t] = "pending" /\ catalog' = [catalog EXCEPT ![t] = "public"]
  <2>1. t \in Stored \ Public
    BY <1>4 DEF Stored, Public, PartsHold, TypeOK, UploadsInv, CatalogShowsUploads
  <2>2. Public' = Public \cup {t}
    BY <1>4 DEF Public, PartsHold, TypeOK
  <2> QED
    BY <1>1, <1>2, <2>1, <2>2 DEF Abstract!Appear, Intended, Stored, Public
<1> QED
  BY <1>3, <1>4 DEF Appear

LEMMA RequestImplements ==
  ASSUME NEW r \in Runs, NEW q \in Qualifications, NEW who, Request(r, q, who)
  PROVE  Abstract!Request(r, q, who)
<1>1. UNCHANGED <<Intended, Stored, Public>>
  BY AbstractSame DEF Request
<1> QED
  BY <1>1 DEF Request, Abstract!Request, Intended, Stored, Public

LEMMA TagImplements ==
  ASSUME NEW s \in Shas, PushTag(s)
  PROVE  Abstract!PushTag(s)
<1>1. UNCHANGED <<Intended, Stored, Public>>
  BY AbstractSame DEF PushTag
<1> QED
  BY <1>1 DEF PushTag, Abstract!PushTag, Intended, Stored, Public

LEMMA StepImplements ==
  PartsHold /\ PartsHold' /\ [Next]_vars => [Abstract!Next]_(Abstract!abstractVars)
<1> SUFFICES ASSUME PartsHold, PartsHold', [Next]_vars
             PROVE  Abstract!Next \/ UNCHANGED Abstract!abstractVars
  OBVIOUS
<1>1. CASE UNCHANGED vars
  BY <1>1, AbstractStutters DEF vars
<1>2. CASE PrepareBinding
  BY <1>2, AbstractStutters DEF PrepareBinding
<1>3. CASE AppendBinding
  <2>1. Started(journal) = {} /\ Started(journal') = {}
    <3>1. /\ prepared # None /\ FastForwards(prepared) /\ journal' = Anchored(prepared)
      BY <1>3 DEF AppendBinding
    <3>2. prepared.event \in Bindings
      BY <3>1 DEF PartsHold, TypeOK, Candidates
    <3>3. Started(journal) = {}
      BY <3>1 DEF PartsHold, ApprovalPrecedesStarts, FastForwards
    <3> QED
      BY <3>1, <3>2, <3>3, AnchoredIsAppend, BindingAnchored DEF PartsHold
  <2>2. \A t : IntendedIn(journal, t) = None /\ IntendedIn(journal', t) = None
    BY <2>1, NoneStarted, IntendedFacts
  <2>3. \A t : /\ IntendedOf(t) = IntendedIn(journal, t)
              /\ IntendedOf(t)' = IntendedIn(journal', t)
    BY DEF IntendedOf, IntendedIn
  <2>4. UNCHANGED <<tag, run, Intended, Stored, Public>>
    BY <1>3, <2>2, <2>3 DEF AppendBinding, Intended, Stored, Public
  <2> QED
    BY <2>4 DEF Abstract!abstractVars, Intended, Stored, Public
<1>4. ASSUME NEW r \in Runs, History(r) \/ Preflight(r) \/ Record(r)
      PROVE  UNCHANGED Abstract!abstractVars
  BY <1>4, AbstractStutters DEF History, Preflight, Record
<1>5. ASSUME NEW r \in Runs, \/ Start(r) \/ Rerun(r) \/ Fail(r)
                             \/ Anchor(r) \/ Publish(r) \/ Complete(r)
      PROVE  Abstract!Hosted
  BY <1>5, BeginImplements, FailImplements, AnchorImplements, PublishImplements,
     CompleteImplements
     DEF Abstract!Hosted
<1>6. ASSUME NEW t \in Targets, Appear(t)
      PROVE  Abstract!Hosted \/ UNCHANGED Abstract!abstractVars
  BY <1>6, AppearImplements DEF Abstract!Hosted
<1>7. CASE Requested
  <2>1. ASSUME NEW s \in Shas, PushTag(s)
        PROVE  Abstract!ByHand
    BY <2>1, TagImplements DEF Abstract!ByHand
  <2>2. ASSUME NEW r \in Runs, NEW q \in Qualifications, NEW who \in Requesters \cup {None},
               Request(r, q, who)
        PROVE  Abstract!ByHand \/ Abstract!Asked
    <3>1. Abstract!Request(r, q, who)
      BY <2>2, RequestImplements
    <3> QED
      BY <3>1 DEF Abstract!ByHand, Abstract!Asked
  <2> QED
    BY <1>7, <2>1, <2>2 DEF Requested, Abstract!Next
<1> QED
  BY <1>1, <1>2, <1>3, <1>4, <1>5, <1>6, <1>7 DEF Next, Hosted, Abstract!Next

(* The journal, the run groups and the lookups together keep what is       *)
(* promised of a publication: one upload per target, on record before it   *)
(* happens, all of one qualification.                                      *)
THEOREM RefinesPublication == Spec => ImplementsPublication
<1>1. Init => Abstract!Init
  <2> SUFFICES ASSUME Init
               PROVE  Abstract!Init
    OBVIOUS
  <2>1. \A t \in Targets : IntendedOf(t) = None
    BY DEF Init, IntendedOf
  <2> QED
    BY <2>1 DEF Init, Abstract!Init
<1>2. Spec => []PartsHold
  BY InvariantInit, InvariantStep, PTL DEF Spec
<1> QED
  BY <1>1, <1>2, StepImplements, PTL DEF Spec, ImplementsPublication, Abstract!Spec
-----------------------------------------------------------------------------
(* The command line.                                                       *)

(* Plans, the tasks at their head and what is left of them.                *)
LEMMA PlanFacts ==
  ASSUME NEW p \in Commands!Plans
  PROVE  /\ Len(p) = 1 <=> Head(p) \in {"qualification", "receipt"} \/ p = <<"dry-run">>
         /\ Len(p) # 1 => Tail(p) \in Commands!Plans
         /\ Len(p) # 1 /\ Head(p) = "dry-run" => Head(Tail(p)) = "tag"
         /\ Head(p) = "tag" => Head(Tail(p)) = "promotion"
         /\ Head(p) = "promotion" => Head(Tail(p)) = "rehearsed"
         /\ Head(p) = "rehearsed" => Head(Tail(p)) = "public"
         /\ Head(p) = "public" => Head(Tail(p)) = "receipt"
<1>1. CASE p = <<"qualification">>
  BY <1>1 DEF Commands!Plans
<1>2. CASE p = <<"dry-run">>
  BY <1>2 DEF Commands!Plans
<1>3. CASE p = <<"dry-run", "tag", "promotion", "rehearsed", "public", "receipt">>
  BY <1>3 DEF Commands!Plans
<1>4. CASE p = <<"tag", "promotion", "rehearsed", "public", "receipt">>
  BY <1>4 DEF Commands!Plans
<1>5. CASE p = <<"promotion", "rehearsed", "public", "receipt">>
  BY <1>5 DEF Commands!Plans
<1>6. CASE p = <<"rehearsed", "public", "receipt">>
  BY <1>6 DEF Commands!Plans
<1>7. CASE p = <<"public", "receipt">>
  BY <1>7 DEF Commands!Plans
<1>8. CASE p = <<"receipt">>
  BY <1>8 DEF Commands!Plans
<1> QED
  BY <1>1, <1>2, <1>3, <1>4, <1>5, <1>6, <1>7, <1>8 DEF Commands!Plans

LEMMA TaskFacts ==
  /\ \A m \in {"prepare", "dry-run", "promote", "observe"} : Commands!Tasks(m) \in Commands!Plans
  /\ Head(Commands!Tasks("prepare")) = "qualification"
  /\ Head(Commands!Tasks("dry-run")) = "dry-run"
  /\ Head(Commands!Tasks("promote")) = "dry-run"
  /\ Head(Commands!Tasks("observe")) = "promotion"
BY DEF Commands!Plans, Commands!Tasks

LEMMA OrderIsKept ==
  ASSUME NEW c, NEW k, Commands!InOrder(c, k),
         passed \subseteq passed', sha' = sha, pushed = sha[c] => pushed' = sha[c],
         local'[k.dir] = local[k.dir],
         shared[c].verified # 0 => shared'[c].verified # 0,
         Commands!AskedBy(c) = {} => Commands!AskedBy(c)' = {}
  PROVE  Commands!InOrder(c, k)'
BY DEF Commands!InOrder, Commands!RehearsedFor, Commands!Inspected

(* A command goes on to another step, or to the next of its tasks.         *)
LEMMA SteppedFacts ==
  ASSUME Commands!TypeOK, NEW c \in Commands!Checkouts, command[c] # None,
         NEW step \in {"look", "send", "observe"}
  PROVE  /\ command[c] \in Commands!CommandRecord
         /\ Commands!Stepped(c, step) \in Commands!CommandRecord
         /\ Commands!Stepped(c, step).dir = command[c].dir
         /\ Commands!Stepped(c, step).of = command[c].of
         /\ Commands!Stepped(c, step).allow = command[c].allow
         /\ Commands!Stepped(c, step).tasks = command[c].tasks
         /\ Commands!Stepped(c, step).step = step
BY DEF Commands!TypeOK, Commands!Stepped, Commands!CommandRecord

LEMMA AdvancedFacts ==
  ASSUME Commands!TypeOK, NEW c \in Commands!Checkouts, command[c] # None,
         Commands!Advanced(c) # None
  PROVE  /\ Commands!Advanced(c) \in Commands!CommandRecord
         /\ Commands!Advanced(c).dir = command[c].dir
         /\ Commands!Advanced(c).of = command[c].of
         /\ Commands!Advanced(c).allow = command[c].allow
         /\ Len(command[c].tasks) # 1
         /\ Commands!Advanced(c).tasks = Tail(command[c].tasks)
         /\ Commands!Advanced(c).step = "look"
<1>1. /\ command[c] \in Commands!CommandRecord
      /\ Len(command[c].tasks) # 1
      /\ Commands!Advanced(c) = [command[c] EXCEPT !.tasks = Tail(command[c].tasks), !.step = "look"]
  BY DEF Commands!TypeOK, Commands!Advanced
<1>2. command[c].tasks \in Commands!Plans
  BY <1>1 DEF Commands!CommandRecord
<1>3. Tail(command[c].tasks) \in Commands!Plans
  BY <1>1, <1>2, PlanFacts
<1> QED
  BY <1>1, <1>3 DEF Commands!CommandRecord

(* A command that changes no file.                                         *)
LEMMA CommandGoesOn ==
  ASSUME Commands!CommandsInv, NEW c \in Commands!Checkouts,
         NEW next \in Commands!CommandRecord \cup {None},
         command' = [command EXCEPT ![c] = next],
         UNCHANGED <<Commands!hostedVars, sha, shared, local, checks, receipt>>,
         passed \subseteq passed', Commands!TypeOK',
         next # None => /\ CheckoutOf[next.dir] = c
                        /\ \A n \in Commands!SharedNames : local[next.dir][n] = shared[c].intents[n]
                        /\ Commands!InOrder(c, next)'
  PROVE  Commands!CommandsInv'
<1> USE DEF Commands!CommandsInv
<1>1. \A b \in Commands!Checkouts : command'[b] = IF b = c THEN next ELSE command[b]
  BY DEF Commands!TypeOK
<1>2. UNCHANGED <<pushed, promotion, intended, stored, public>>
  BY DEF Commands!hostedVars
<1>3. Commands!FilesAgree'
  BY <1>1 DEF Commands!FilesAgree
<1>4. Commands!CommandKeepsOrder'
  <2> SUFFICES ASSUME NEW b \in Commands!Checkouts, b # c, command[b] # None
               PROVE  Commands!InOrder(b, command[b])'
    BY <1>1 DEF Commands!CommandKeepsOrder
  <2>1. Commands!InOrder(b, command[b]) /\ command'[b] = command[b]
    BY <1>1 DEF Commands!CommandKeepsOrder
  <2>2. Commands!AskedBy(b) = {} => Commands!AskedBy(b)' = {}
    BY <1>2 DEF Commands!AskedBy
  <2> DEFINE k == command[b]
  <2>3. ASSUME NEW j, Commands!InOrder(b, j) PROVE Commands!InOrder(b, j)'
    BY <1>2, <2>2, <2>3, OrderIsKept
  <2> QED
    BY <1>1, <2>1, <2>3
<1>5. Commands!RunsAreIntended' /\ Commands!VerifiedIsPublic'
  BY <1>2 DEF Commands!RunsAreIntended, Commands!VerifiedIsPublic
<1>6. Commands!NeverLockedOut' /\ Commands!AskedOnce' /\ Commands!ReceiptIsTrue'
  BY <1>2 DEF Commands!NeverLockedOut, Commands!HintsMatch, Commands!AskedOnce, Commands!ReceiptIsTrue
<1>7. Commands!PromotionIsRehearsed'
  BY <1>2 DEF Commands!PromotionIsRehearsed, Commands!Inspected
<1> QED
  BY <1>3, <1>4, <1>5, <1>6, <1>7

(* The two files of a request.  However the command ends, an intent that   *)
(* was there stays, and no directory is locked out.                        *)
LEMMA SaveFacts ==
  ASSUME Commands!TypeOK, Commands!NeverLockedOut,
         NEW c \in Commands!Checkouts, NEW d \in Qualifications, CheckoutOf[d] = c,
         NEW requests \in [Commands!Names -> Commands!Requests \cup {None}],
         NEW next \in Commands!CommandRecord,
         Commands!Save(c, d, requests, next),
         \A n \in Commands!SharedNames :
           shared[c].intents[n] # None => requests[n] = shared[c].intents[n]
  PROVE  /\ shared' \in [Commands!Checkouts ->
                         [intents : [Commands!SharedNames -> Commands!Requests \cup {None}],
                          verified : Nat]]
         /\ local' \in [Qualifications -> [Commands!Names -> Commands!Requests \cup {None}]]
         /\ command' \in [Commands!Checkouts -> Commands!CommandRecord \cup {None}]
         /\ \A b \in Commands!Checkouts :
              /\ shared'[b].verified = shared[b].verified
              /\ b # c => shared'[b] = shared[b] /\ command'[b] = command[b]
              /\ \A n \in Commands!SharedNames :
                   shared[b].intents[n] # None => shared'[b].intents[n] = shared[b].intents[n]
         /\ \A n \in Commands!SharedNames : shared'[c].intents[n] = requests[n]
         /\ \A e \in Qualifications : e # d => local'[e] = local[e]
         /\ command'[c] = None \/ (command'[c] = next /\ local'[d] = requests)
         /\ Commands!NeverLockedOut'
<1> DEFINE merged == [n \in Commands!SharedNames |->
                       IF requests[n] # None THEN requests[n] ELSE shared[c].intents[n]]
<1>1. shared' = [shared EXCEPT ![c].intents = merged]
  BY DEF Commands!Save
<1>2. \/ local' = [local EXCEPT ![d] = requests] /\ command' = [command EXCEPT ![c] = next]
      \/ local' = local /\ command' = [command EXCEPT ![c] = None]
  BY DEF Commands!Save
<1>3. merged \in [Commands!SharedNames -> Commands!Requests \cup {None}]
  BY DEF Commands!TypeOK, Commands!SharedNames
<1>4. /\ shared' \in [Commands!Checkouts ->
                         [intents : [Commands!SharedNames -> Commands!Requests \cup {None}],
                          verified : Nat]]
      /\ \A b \in Commands!Checkouts :
              /\ shared'[b].verified = shared[b].verified
              /\ b # c => shared'[b] = shared[b]
      /\ shared'[c].intents = merged
  <2> DEFINE Files == [intents : [Commands!SharedNames -> Commands!Requests \cup {None}],
                       verified : Nat]
  <2>1. shared \in [Commands!Checkouts -> Files]
    BY DEF Commands!TypeOK
  <2>2. \A b \in Commands!Checkouts :
          shared'[b] = IF b = c THEN [shared[c] EXCEPT !.intents = merged] ELSE shared[b]
    BY <1>1, <2>1
  <2>3. shared[c] \in Files
    BY <2>1
  <2>4. /\ [shared[c] EXCEPT !.intents = merged] \in Files
        /\ [shared[c] EXCEPT !.intents = merged].intents = merged
        /\ [shared[c] EXCEPT !.intents = merged].verified = shared[c].verified
    BY <1>3, <2>3
  <2>5. shared' \in [Commands!Checkouts -> Files]
    BY <1>1, <2>1, <2>4
  <2> QED
    BY <2>2, <2>4, <2>5
<1>5. \A n \in Commands!SharedNames : shared'[c].intents[n] = requests[n]
  <2>1. \A n \in Commands!SharedNames : merged[n] = requests[n]
    OBVIOUS
  <2> QED
    BY <1>4, <2>1
<1>6. /\ local' \in [Qualifications -> [Commands!Names -> Commands!Requests \cup {None}]]
      /\ command' \in [Commands!Checkouts -> Commands!CommandRecord \cup {None}]
      /\ \A b \in Commands!Checkouts : b # c => command'[b] = command[b]
      /\ \A e \in Qualifications : e # d => local'[e] = local[e]
      /\ local'[d] \in {requests, local[d]}
      /\ command'[c] = None \/ (command'[c] = next /\ local'[d] = requests)
  <2>1. /\ command \in [Commands!Checkouts -> Commands!CommandRecord \cup {None}]
        /\ local \in [Qualifications -> [Commands!Names -> Commands!Requests \cup {None}]]
    BY DEF Commands!TypeOK
  <2>2. CASE local' = [local EXCEPT ![d] = requests] /\ command' = [command EXCEPT ![c] = next]
    BY <2>1, <2>2
  <2>3. CASE local' = local /\ command' = [command EXCEPT ![c] = None]
    BY <2>1, <2>3
  <2> QED
    BY <1>2, <2>2, <2>3
<1>7. \A b \in Commands!Checkouts, n \in Commands!SharedNames :
        shared[b].intents[n] # None => shared'[b].intents[n] = shared[b].intents[n]
  BY <1>4, <1>5
<1>8. Commands!NeverLockedOut'
  <2> SUFFICES ASSUME NEW e \in Qualifications, NEW n \in Commands!SharedNames, local'[e][n] # None
               PROVE  shared'[CheckoutOf[e]].intents[n] = local'[e][n]
    BY DEF Commands!NeverLockedOut, Commands!HintsMatch
  <2>1. CASE local'[e] = local[e]
    <3>1. shared[CheckoutOf[e]].intents[n] = local[e][n]
      BY <2>1 DEF Commands!NeverLockedOut, Commands!HintsMatch
    <3>2. CheckoutOf[e] \in Commands!Checkouts
      BY CommandsAssumption DEF Commands!Checkouts
    <3> QED
      BY <1>7, <2>1, <3>1, <3>2
  <2>2. CASE e = d /\ local'[d] = requests
    BY <1>5, <2>2
  <2> QED
    BY <1>6, <2>1, <2>2
<1> QED
  BY <1>4, <1>5, <1>6, <1>7, <1>8

(* A command that records what it will send, or takes over what it finds.  *)
LEMMA CommandSaves ==
  ASSUME Commands!CommandsInv, NEW c \in Commands!Checkouts, NEW d \in Qualifications,
         CheckoutOf[d] = c, command[c] # None => command[c].dir = d,
         NEW requests \in [Commands!Names -> Commands!Requests \cup {None}],
         NEW next \in Commands!CommandRecord, next.dir = d,
         Commands!Save(c, d, requests, next),
         UNCHANGED <<Commands!hostedVars, sha, passed, checks, receipt>>,
         \A n \in Commands!SharedNames :
           shared[c].intents[n] # None => requests[n] = shared[c].intents[n],
         local'[d] = requests => Commands!InOrder(c, next)'
  PROVE  Commands!CommandsInv'
<1> USE DEF Commands!CommandsInv
<1>1. UNCHANGED <<pushed, promotion, intended, stored, public>>
  BY DEF Commands!hostedVars
<1>2. /\ shared' \in [Commands!Checkouts ->
                         [intents : [Commands!SharedNames -> Commands!Requests \cup {None}],
                          verified : Nat]]
      /\ local' \in [Qualifications -> [Commands!Names -> Commands!Requests \cup {None}]]
      /\ command' \in [Commands!Checkouts -> Commands!CommandRecord \cup {None}]
      /\ \A b \in Commands!Checkouts :
              /\ shared'[b].verified = shared[b].verified
              /\ b # c => shared'[b] = shared[b] /\ command'[b] = command[b]
              /\ \A n \in Commands!SharedNames :
                   shared[b].intents[n] # None => shared'[b].intents[n] = shared[b].intents[n]
      /\ \A n \in Commands!SharedNames : shared'[c].intents[n] = requests[n]
      /\ \A e \in Qualifications : e # d => local'[e] = local[e]
      /\ command'[c] = None \/ (command'[c] = next /\ local'[d] = requests)
      /\ Commands!NeverLockedOut'
  BY SaveFacts
<1>3. Commands!TypeOK'
  BY <1>1, <1>2 DEF Commands!TypeOK
<1>4. \A b \in Commands!Checkouts : b # c /\ command[b] # None => command[b].dir \in Qualifications \ {d}
  BY DEF Commands!TypeOK, Commands!CommandRecord, Commands!FilesAgree
<1>5. Commands!FilesAgree'
  <2> SUFFICES ASSUME NEW b \in Commands!Checkouts, command'[b] # None
               PROVE  /\ CheckoutOf[command'[b].dir] = b
                      /\ \A n \in Commands!SharedNames :
                           local'[command'[b].dir][n] = shared'[b].intents[n]
    BY DEF Commands!FilesAgree
  <2>1. CASE b = c
    BY <1>2, <2>1
  <2>2. CASE b # c
    <3>1. command'[b] = command[b] /\ shared'[b] = shared[b]
      BY <1>2, <2>2
    <3>2. local'[command[b].dir] = local[command[b].dir]
      BY <1>2, <1>4, <2>2, <3>1
    <3> QED
      BY <3>1, <3>2 DEF Commands!FilesAgree
  <2> QED
    BY <2>1, <2>2
<1>6. Commands!CommandKeepsOrder'
  <2> SUFFICES ASSUME NEW b \in Commands!Checkouts, command'[b] # None
               PROVE  Commands!InOrder(b, command[b])'
    BY DEF Commands!CommandKeepsOrder
  <2>1. CASE b = c
    BY <1>2, <2>1
  <2>2. CASE b # c
    <3>1. command'[b] = command[b] /\ Commands!InOrder(b, command[b])
      BY <1>2, <2>2 DEF Commands!CommandKeepsOrder
    <3>2. Commands!AskedBy(b) = {} => Commands!AskedBy(b)' = {}
      BY <1>1 DEF Commands!AskedBy
    <3>3. local'[command[b].dir] = local[command[b].dir] /\ shared'[b] = shared[b]
      BY <1>2, <1>4, <2>2, <3>1
    <3>4. ASSUME NEW j, j = command[b], Commands!InOrder(b, j) PROVE Commands!InOrder(b, j)'
      BY <1>1, <3>2, <3>3, <3>4, OrderIsKept
    <3> QED
      BY <3>1, <3>4
  <2> QED
    BY <2>1, <2>2
<1>7. Commands!RunsAreIntended'
  <2> SUFFICES ASSUME NEW r \in Runs, promotion[r] # None, promotion[r].request # None
               PROVE  shared'[promotion[r].request].intents["promotion"] # None
    BY <1>1 DEF Commands!RunsAreIntended
  <2>1. promotion[r].request \in Commands!Checkouts
    BY DEF Commands!TypeOK, Commands!Hosting!RunRecord, Commands!Checkouts
  <2>2. "promotion" \in Commands!SharedNames
    BY DEF Commands!SharedNames, Commands!Names
  <2> QED
    BY <1>2, <2>1, <2>2 DEF Commands!RunsAreIntended
<1>8. Commands!VerifiedIsPublic' /\ Commands!ReceiptIsTrue'
  <2>1. "promotion" \in Commands!SharedNames
    BY DEF Commands!SharedNames, Commands!Names
  <2>2. ASSUME NEW b \in Commands!Checkouts, shared[b].intents["promotion"] # None
        PROVE  shared'[b].intents["promotion"] = shared[b].intents["promotion"]
    BY <1>2, <2>1, <2>2
  <2>4. ASSUME NEW b \in Commands!Checkouts, shared'[b].verified # 0
        PROVE  /\ pushed' = sha'[b] /\ public' = LocalTargets
               /\ shared'[b].intents["promotion"] # None
               /\ \A t \in LocalTargets : intended'[t] = shared'[b].intents["promotion"].of
    <3>1. shared[b].verified # 0
      BY <1>2, <2>4
    <3>2. /\ pushed = sha[b] /\ public = LocalTargets
          /\ shared[b].intents["promotion"] # None
          /\ \A t \in LocalTargets : intended[t] = shared[b].intents["promotion"].of
      BY <3>1 DEF Commands!VerifiedIsPublic
    <3> QED
      BY <1>1, <2>2, <3>2
  <2>5. Commands!VerifiedIsPublic'
    BY <2>4 DEF Commands!VerifiedIsPublic
  <2>3. ASSUME NEW b \in Commands!Checkouts, receipt[b] # 0
        PROVE  receipt[b] = shared[b].verified /\ shared[b].intents["promotion"] # None
    BY <2>3 DEF Commands!ReceiptIsTrue, Commands!VerifiedIsPublic
  <2>6. ASSUME NEW b \in Commands!Checkouts, receipt'[b] # 0
        PROVE  receipt'[b] = shared'[b].verified /\ shared'[b].verified # 0
    BY <1>2, <2>3, <2>6
  <2>7. Commands!ReceiptIsTrue'
    BY <2>4, <2>6 DEF Commands!ReceiptIsTrue
  <2> QED
    BY <2>5, <2>7
<1>9. Commands!AskedOnce' /\ Commands!PromotionIsRehearsed'
  BY <1>1 DEF Commands!AskedOnce, Commands!PromotionIsRehearsed, Commands!Inspected
<1> QED
  BY <1>2, <1>3, <1>5, <1>6, <1>7, <1>8, <1>9

(* A command of a directory takes over what its checkout has recorded.     *)
LEMMA CommandsRun ==
  ASSUME Commands!CommandsInv, NEW d \in Qualifications, Commands!Run(d)
  PROVE  Commands!CommandsInv'
<1> USE DEF Commands!CommandsInv
<1> DEFINE c == CheckoutOf[d]
<1>0. PICK requests : requests = Commands!Merged(c, d)
  OBVIOUS
<1>1. c \in Commands!Checkouts /\ command[c] = None
  BY CommandsAssumption DEF Commands!Run, Commands!Checkouts
<1>2. PICK next \in Commands!Chosen(d, requests) : Commands!Save(c, d, requests, next)
  BY <1>0 DEF Commands!Run
<1>3. /\ requests \in [Commands!Names -> Commands!Requests \cup {None}]
      /\ \A n \in Commands!SharedNames :
           shared[c].intents[n] # None => requests[n] = shared[c].intents[n]
  BY <1>0, <1>1 DEF Commands!Merged, Commands!TypeOK, Commands!SharedNames
<1>4. /\ next \in Commands!CommandRecord /\ next.dir = d /\ next.step = "look"
      /\ next.allow /\ Head(next.tasks) # "qualification" =>
           Commands!Inspected(next.of) /\ Head(next.tasks) = "dry-run"
      /\ Head(next.tasks) \in {"qualification", "dry-run", "promotion"}
      /\ Head(next.tasks) = "promotion" => ~next.allow
  <2>1. ASSUME NEW mode \in {"prepare", "dry-run", "promote", "observe"}, NEW of \in Qualifications,
               NEW allow \in BOOLEAN
        PROVE  /\ Commands!Command(d, mode, of, allow) \in Commands!CommandRecord
               /\ Commands!Command(d, mode, of, allow).dir = d
               /\ Commands!Command(d, mode, of, allow).of = of
               /\ Commands!Command(d, mode, of, allow).allow = allow
               /\ Commands!Command(d, mode, of, allow).step = "look"
               /\ Commands!Command(d, mode, of, allow).tasks = Commands!Tasks(mode)
    BY TaskFacts DEF Commands!Command, Commands!CommandRecord
  <2>2. CASE next = Commands!Resumed(d, requests)
    <3>1. "promotion" \in Commands!Names /\ "dry-run" \in Commands!Names
      BY DEF Commands!Names
    <3>2. /\ requests["promotion"] # None => requests["promotion"].of \in Qualifications
          /\ requests["dry-run"] # None => requests["dry-run"].of \in Qualifications
      BY <1>3, <3>1 DEF Commands!Requests
    <3>3. \E mode \in {"prepare", "dry-run", "observe"}, of \in Qualifications :
            next = Commands!Command(d, mode, of, FALSE)
      BY <2>2, <3>2 DEF Commands!Resumed
    <3>4. PICK mode \in {"prepare", "dry-run", "observe"}, of \in Qualifications :
            next = Commands!Command(d, mode, of, FALSE)
      BY <3>3
    <3>5. /\ next \in Commands!CommandRecord /\ next.dir = d /\ next.step = "look"
          /\ ~next.allow /\ next.tasks = Commands!Tasks(mode)
      <4>1. mode \in {"prepare", "dry-run", "promote", "observe"} /\ FALSE \in BOOLEAN
        OBVIOUS
      <4> QED
        BY <2>1, <3>4, <4>1
    <3>6. Head(next.tasks) \in {"qualification", "dry-run", "promotion"}
      BY <3>5, TaskFacts
    <3> QED
      BY <3>5, <3>6
  <2>3. CASE \E q \in Qualifications :
               Commands!Inspected(q) /\ next = Commands!Command(d, "promote", q, TRUE)
    <3>1. PICK q \in Qualifications :
            Commands!Inspected(q) /\ next = Commands!Command(d, "promote", q, TRUE)
      BY <2>3
    <3>2. Head(next.tasks) = "dry-run" /\ next.of = q
      BY <2>1, <3>1, TaskFacts
    <3> QED
      BY <2>1, <3>1, <3>2
  <2>4. CASE next = Commands!Command(d, "prepare", d, TRUE)
    BY <2>1, <2>4, TaskFacts
  <2> QED
    BY <1>2, <2>2, <2>3, <2>4 DEF Commands!Chosen
<1>5. UNCHANGED <<Commands!hostedVars, sha, passed, checks, receipt>>
  BY DEF Commands!Run
<1>6. Commands!InOrder(c, next)'
  BY <1>4, <1>5 DEF Commands!InOrder, Commands!Inspected
<1> HIDE DEF c
<1>7. CheckoutOf[d] = c
  BY DEF c
<1> QED
  BY <1>1, <1>2, <1>3, <1>4, <1>5, <1>6, <1>7, CommandSaves

(* A command that dispatches what was not requested yet, and one that      *)
(* pushes the tag, record it first.                                        *)
LEMMA CommandRecords ==
  ASSUME Commands!CommandsInv, NEW c \in Commands!Checkouts,
         NEW name \in {"qualification", "dry-run", "tag", "promotion"},
         Commands!Doing(c, name, "look"), command[c].allow \/ name = "tag",
         Commands!Requested(c, name) = None, Commands!Recorded(c, name),
         UNCHANGED <<Commands!hostedVars, sha, passed, checks, receipt>>
  PROVE  Commands!CommandsInv'
<1> USE DEF Commands!CommandsInv
<1>0. PICK d, requests, next :
        /\ d = command[c].dir /\ next = Commands!Stepped(c, "send")
        /\ requests = [local[d] EXCEPT ![name] = [of |-> command[c].of]]
  OBVIOUS
<1>1. command[c] # None /\ Head(command[c].tasks) = name
  BY DEF Commands!Doing
<1>2. /\ command[c] \in Commands!CommandRecord
      /\ next \in Commands!CommandRecord /\ next.dir = d /\ next.of = command[c].of
      /\ next.allow = command[c].allow /\ next.tasks = command[c].tasks /\ next.step = "send"
  BY <1>0, <1>1, SteppedFacts
<1>3. d \in Qualifications /\ command[c].of \in Qualifications
  BY <1>0, <1>2 DEF Commands!CommandRecord
<1>4. /\ CheckoutOf[d] = c
      /\ \A n \in Commands!SharedNames : local[d][n] = shared[c].intents[n]
  BY <1>0, <1>1 DEF Commands!FilesAgree
<1>5. /\ local[d] \in [Commands!Names -> Commands!Requests \cup {None}]
      /\ [of |-> command[c].of] \in Commands!Requests
      /\ name \in Commands!Names
  BY <1>3 DEF Commands!TypeOK, Commands!Requests, Commands!Names
<1>6. /\ requests \in [Commands!Names -> Commands!Requests \cup {None}]
      /\ requests[name] = [of |-> command[c].of]
      /\ \A n \in Commands!Names \ {name} : requests[n] = local[d][n]
  BY <1>0, <1>5
<1>7. \A n \in Commands!SharedNames :
        shared[c].intents[n] # None => requests[n] = shared[c].intents[n]
  BY <1>0, <1>4, <1>6 DEF Commands!Requested, Commands!SharedNames
<1>8. Commands!Save(c, d, requests, next)
  BY <1>0 DEF Commands!Recorded
<1>9. local'[d] = requests => Commands!InOrder(c, next)'
  <2> SUFFICES ASSUME local'[d] = requests PROVE Commands!InOrder(c, next)'
    OBVIOUS
  <2>1. Commands!InOrder(c, command[c])
    BY <1>1 DEF Commands!CommandKeepsOrder
  <2>2. local'[d][name] # None /\ local'[d][name].of = next.of
    BY <1>2, <1>5, <1>6, CommandsAssumption
  <2>3. name = "promotion" => Commands!AskedBy(c)' = {}
    <3> SUFFICES ASSUME name = "promotion", NEW r \in Runs, promotion[r] # None, promotion[r].request = c
                 PROVE  FALSE
      BY DEF Commands!hostedVars, Commands!AskedBy
    <3>1. shared[c].intents["promotion"] # None
      BY CommandsAssumption DEF Commands!RunsAreIntended, Commands!Checkouts
    <3> QED
      BY <1>0, <1>4, <3>1 DEF Commands!Requested, Commands!SharedNames, Commands!Names
  <2>4. UNCHANGED <<pushed, sha, passed>>
    BY DEF Commands!hostedVars
  <2>5. name \in {"tag", "promotion", "dry-run", "qualification"} /\ Head(next.tasks) = name
    BY <1>1, <1>2
  <2>6. /\ next.allow /\ name # "qualification" => Commands!Inspected(next.of)
        /\ next.allow /\ name \in {"tag", "promotion"} => Commands!RehearsedFor(c, next.of)
        /\ next.allow /\ name = "promotion" => pushed = sha[c]
    BY <1>1, <1>2, <2>1 DEF Commands!InOrder
  <2>7. name = "promotion" => next.allow
    BY <1>2
  <2>8. local'[next.dir][name] # None /\ local'[next.dir][name].of = next.of
    BY <1>2, <2>2
  <2> QED
    BY <1>2, <1>5, <2>3, <2>4, <2>5, <2>6, <2>7, <2>8
    DEF Commands!InOrder, Commands!RehearsedFor, Commands!Inspected
<1>10. command[c].dir = d /\ next.dir = d /\ next \in Commands!CommandRecord
  BY <1>0, <1>2
<1>11. requests \in [Commands!Names -> Commands!Requests \cup {None}]
  BY <1>6
<1>12. d \in Qualifications /\ CheckoutOf[d] = c
  BY <1>3, <1>4
<1> QED
  BY <1>7, <1>8, <1>9, <1>10, <1>11, <1>12, CommandSaves

LEMMA TypeKept ==
  ASSUME Commands!TypeOK, NEW c \in Commands!Checkouts, NEW next \in Commands!CommandRecord \cup {None},
         Commands!Goto(c, next), UNCHANGED Commands!hostedVars
  PROVE  Commands!TypeOK'
BY DEF Commands!TypeOK, Commands!Goto, Commands!hostedVars

(* What was requested before is observed, not sent again.                  *)
LEMMA CommandObserves ==
  ASSUME Commands!CommandsInv, NEW c \in Commands!Checkouts,
         NEW name \in {"qualification", "dry-run", "promotion"},
         Commands!Doing(c, name, "look"), Commands!Requested(c, name) # None,
         Commands!Requested(c, name).of = command[c].of,
         Commands!Goto(c, Commands!Stepped(c, "observe")), UNCHANGED Commands!hostedVars
  PROVE  Commands!CommandsInv'
<1> USE DEF Commands!CommandsInv
<1>0. PICK next : next = Commands!Stepped(c, "observe")
  OBVIOUS
<1>1. command[c] # None /\ Head(command[c].tasks) = name
  BY DEF Commands!Doing
<1>2. /\ next \in Commands!CommandRecord /\ next.dir = command[c].dir /\ next.of = command[c].of
      /\ next.allow = command[c].allow /\ next.tasks = command[c].tasks /\ next.step = "observe"
  BY <1>0, <1>1, SteppedFacts
<1>3. /\ CheckoutOf[next.dir] = c
      /\ \A n \in Commands!SharedNames : local[next.dir][n] = shared[c].intents[n]
  BY <1>1, <1>2 DEF Commands!FilesAgree
<1>4. Commands!InOrder(c, next)'
  <2>1. Commands!InOrder(c, command[c])
    BY <1>1 DEF Commands!CommandKeepsOrder
  <2>2. UNCHANGED <<local, shared, passed, pushed, sha>>
    BY DEF Commands!Goto, Commands!hostedVars
  <2>3. local'[next.dir][name] # None /\ local'[next.dir][name].of = next.of
    BY <1>2, <2>2 DEF Commands!Requested
  <2>4. /\ next.allow /\ name # "qualification" => Commands!Inspected(next.of)
        /\ next.allow /\ name \in {"tag", "promotion"} => Commands!RehearsedFor(c, next.of)
        /\ next.allow /\ name = "promotion" => pushed = sha[c]
    BY <1>1, <1>2, <2>1 DEF Commands!InOrder
  <2>5. Head(next.tasks) = name /\ name \in Commands!Names
    BY <1>1, <1>2 DEF Commands!Names
  <2> QED
    BY <1>2, <2>2, <2>3, <2>4, <2>5 DEF Commands!InOrder, Commands!RehearsedFor, Commands!Inspected
<1>5. Commands!TypeOK'
  BY <1>0, <1>2, TypeKept
<1>6. command' = [command EXCEPT ![c] = next]
  BY <1>0 DEF Commands!Goto
<1>7. UNCHANGED <<Commands!hostedVars, sha, shared, local, checks, receipt>> /\ passed \subseteq passed'
  BY DEF Commands!Goto
<1> QED
  BY <1>2, <1>3, <1>4, <1>5, <1>6, <1>7, CommandGoesOn

(* A task is done only when what the next one relies on is so.             *)
LEMMA CommandAdvances ==
  ASSUME Commands!CommandsInv, NEW c \in Commands!Checkouts,
         command[c] # None, Head(command[c].tasks) # "public",
         Commands!Goto(c, Commands!Advanced(c)), UNCHANGED Commands!hostedVars,
         Head(command[c].tasks) = "dry-run" /\ command[c].allow =>
           Commands!RehearsedFor(c, command[c].of),
         Head(command[c].tasks) \in {"tag", "promotion"} => pushed = sha[c],
         Head(command[c].tasks) = "promotion" =>
           Commands!Requested(c, "promotion") # None /\ Commands!Requested(c, "promotion").of = command[c].of
  PROVE  Commands!CommandsInv'
<1> USE DEF Commands!CommandsInv
<1>0. PICK next : next = Commands!Advanced(c)
  OBVIOUS
<1>1. next # None =>
        /\ next \in Commands!CommandRecord /\ next.dir = command[c].dir /\ next.of = command[c].of
        /\ next.allow = command[c].allow /\ next.tasks = Tail(command[c].tasks) /\ next.step = "look"
        /\ Len(command[c].tasks) # 1
  BY <1>0, AdvancedFacts
<1>2. command[c].tasks \in Commands!Plans
  BY DEF Commands!TypeOK, Commands!CommandRecord
<1>3. UNCHANGED <<local, shared, passed, pushed, sha>>
  BY DEF Commands!Goto, Commands!hostedVars
<1>4. ASSUME next # None
      PROVE  /\ CheckoutOf[next.dir] = c
             /\ \A n \in Commands!SharedNames : local[next.dir][n] = shared[c].intents[n]
             /\ Commands!InOrder(c, next)'
  <2>1. Commands!InOrder(c, command[c])
    BY DEF Commands!CommandKeepsOrder
  <2>2. \E n \in {"dry-run", "tag", "promotion", "rehearsed"} :
          /\ Head(command[c].tasks) = n
          /\ Head(next.tasks) = CASE n = "dry-run" -> "tag" [] n = "tag" -> "promotion"
                                   [] n = "promotion" -> "rehearsed" [] n = "rehearsed" -> "public"
    <3>1. Len(command[c].tasks) # 1 /\ next.tasks = Tail(command[c].tasks)
      BY <1>1, <1>4
    <3>2. Head(command[c].tasks) \in {"dry-run", "tag", "promotion", "rehearsed"}
      BY <1>2, <3>1 DEF Commands!Plans
    <3> QED
      BY <1>2, <3>1, <3>2, PlanFacts
  <2>3. PICK n \in {"dry-run", "tag", "promotion", "rehearsed"} :
          /\ Head(command[c].tasks) = n
          /\ Head(next.tasks) = CASE n = "dry-run" -> "tag" [] n = "tag" -> "promotion"
                                   [] n = "promotion" -> "rehearsed" [] n = "rehearsed" -> "public"
    BY <2>2
  <2>4. next.allow => Commands!Inspected(next.of)
    BY <1>1, <1>4, <2>1, <2>3 DEF Commands!InOrder
  <2>5. next.allow /\ n \in {"dry-run", "tag"} => Commands!RehearsedFor(c, next.of)
    BY <1>1, <1>4, <2>1, <2>3 DEF Commands!InOrder
  <2>6. n \in {"promotion", "rehearsed"} =>
          /\ pushed = sha[c] /\ local[next.dir]["promotion"] # None
          /\ local[next.dir]["promotion"].of = next.of
    BY <1>1, <1>4, <2>1, <2>3 DEF Commands!InOrder, Commands!Requested
  <2>7. Commands!InOrder(c, next)'
    BY <1>1, <1>3, <1>4, <2>3, <2>4, <2>5, <2>6
    DEF Commands!InOrder, Commands!RehearsedFor, Commands!Inspected
  <2> QED
    BY <1>1, <1>4, <2>7 DEF Commands!FilesAgree
<1>5. Commands!TypeOK'
  BY <1>0, <1>1, TypeKept
<1>6. command' = [command EXCEPT ![c] = next]
  BY <1>0 DEF Commands!Goto
<1>7. UNCHANGED <<Commands!hostedVars, sha, shared, local, checks, receipt>> /\ passed \subseteq passed'
  BY DEF Commands!Goto
<1> QED
  BY <1>1, <1>4, <1>5, <1>6, <1>7, CommandGoesOn

(* A publication is asked for: by the only command that may, once.         *)
LEMMA PromotionSent ==
  ASSUME Commands!CommandsInv, NEW c \in Commands!Checkouts, NEW r \in Runs,
         Commands!Doing(c, "promotion", "send"),
         Commands!Hosting!Request(r, command[c].of, c),
         NEW next, next = None \/ next = Commands!Stepped(c, "observe"),
         command' = [command EXCEPT ![c] = next],
         UNCHANGED <<sha, shared, local, passed, checks, receipt>>
  PROVE  Commands!CommandsInv'
<1> USE DEF Commands!CommandsInv
<1>1. /\ command[c] # None /\ Head(command[c].tasks) = "promotion" /\ command[c].step = "send"
      /\ Commands!InOrder(c, command[c])
  BY DEF Commands!Doing, Commands!CommandKeepsOrder
<1>2. /\ command[c].allow /\ Commands!AskedBy(c) = {} /\ pushed = sha[c]
      /\ Commands!RehearsedFor(c, command[c].of)
      /\ local[command[c].dir]["promotion"] # None
      /\ local[command[c].dir]["promotion"].of = command[c].of
  BY <1>1 DEF Commands!InOrder
<1>3. PICK asked : asked = [sha |-> pushed, request |-> c, of |-> command[c].of,
                            attempt |-> 1, status |-> "queued"]
  OBVIOUS
<1>4. /\ promotion' = [promotion EXCEPT ![r] = asked] /\ promotion[r] = None
      /\ UNCHANGED <<pushed, intended, stored, public>>
  BY <1>3 DEF Commands!Hosting!Request
<1>5. /\ command[c] \in Commands!CommandRecord
      /\ next # None => /\ next \in Commands!CommandRecord /\ next.dir = command[c].dir
                        /\ next.of = command[c].of /\ next.allow = command[c].allow
                        /\ next.tasks = command[c].tasks /\ next.step = "observe"
  BY <1>1, SteppedFacts
<1>6. asked \in Commands!Hosting!RunRecord
  BY <1>2, <1>3, <1>5, CommandsAssumption
  DEF Commands!Hosting!RunRecord, Commands!CommandRecord, Commands!TypeOK, Commands!Checkouts
<1>7. promotion' \in [Runs -> Commands!Hosting!RunRecord \cup {None}]
  BY <1>4, <1>6 DEF Commands!TypeOK
<1>8. \A s \in Runs : promotion'[s] = IF s = r THEN asked ELSE promotion[s]
  BY <1>4 DEF Commands!TypeOK
<1>9. \A b \in Commands!Checkouts : command'[b] = IF b = c THEN next ELSE command[b]
  BY DEF Commands!TypeOK
<1>10. Commands!TypeOK'
  <2>1. command' \in [Commands!Checkouts -> Commands!CommandRecord \cup {None}]
    BY <1>5 DEF Commands!TypeOK
  <2> QED
    BY <1>4, <1>7, <2>1 DEF Commands!TypeOK
<1>11. Commands!FilesAgree'
  BY <1>5, <1>9, <1>1 DEF Commands!FilesAgree
<1>12. Commands!CommandKeepsOrder'
  <2> SUFFICES ASSUME NEW b \in Commands!Checkouts, command'[b] # None
               PROVE  Commands!InOrder(b, command[b])'
    BY DEF Commands!CommandKeepsOrder
  <2>1. CASE b = c
    <3>1. Commands!InOrder(c, next)'
      BY <1>1, <1>2, <1>4, <1>5, <1>9, <2>1 DEF Commands!InOrder, Commands!RehearsedFor, Commands!Inspected, Commands!Names
    <3> QED
      BY <1>9, <2>1, <3>1
  <2>2. CASE b # c
    <3>1. command'[b] = command[b] /\ Commands!InOrder(b, command[b])
      BY <1>9, <2>2 DEF Commands!CommandKeepsOrder
    <3>2. Commands!AskedBy(b) = {} => Commands!AskedBy(b)' = {}
      BY <1>3, <1>8, <2>2 DEF Commands!AskedBy
    <3>3. ASSUME NEW j, Commands!InOrder(b, j) PROVE Commands!InOrder(b, j)'
      BY <1>4, <3>2, <3>3, OrderIsKept
    <3> QED
      BY <3>1, <3>3
  <2> QED
    BY <2>1, <2>2
<1>13. Commands!RunsAreIntended'
  <2>1. shared[c].intents["promotion"] # None
    BY <1>1, <1>2 DEF Commands!FilesAgree, Commands!SharedNames, Commands!Names
  <2> QED
    BY <1>3, <1>4, <1>8, <2>1 DEF Commands!RunsAreIntended
<1>14. Commands!VerifiedIsPublic' /\ Commands!ReceiptIsTrue' /\ Commands!NeverLockedOut'
  BY <1>4 DEF Commands!VerifiedIsPublic, Commands!ReceiptIsTrue, Commands!NeverLockedOut, Commands!HintsMatch
<1>15. Commands!AskedOnce'
  BY <1>2, <1>3, <1>8 DEF Commands!AskedOnce, Commands!AskedBy
<1>16. Commands!PromotionIsRehearsed'
  <2> SUFFICES ASSUME NEW s \in Runs, promotion'[s] # None, promotion'[s].request # None
               PROVE  /\ promotion'[s].sha = sha[promotion'[s].request]
                      /\ Commands!RehearsedFor(promotion'[s].request, promotion'[s].of)
    BY DEF Commands!PromotionIsRehearsed, Commands!RehearsedFor, Commands!Inspected
  <2>1. CASE s = r
    BY <1>2, <1>3, <1>8, <2>1
  <2>2. CASE s # r
    BY <1>8, <2>2 DEF Commands!PromotionIsRehearsed, Commands!RehearsedFor
  <2> QED
    BY <2>1, <2>2
<1> QED
  BY <1>10, <1>11, <1>12, <1>13, <1>14, <1>15, <1>16

(* The others, GitHub and whoever acts by hand, change what no command     *)
(* relies on.                                                              *)
LEMMA HostedFacts ==
  ASSUME Commands!TypeOK, Commands!Hosting!Hosted \/ Commands!Hosting!ByHand
  PROVE  /\ pushed' \in Shas \cup {None} /\ (pushed # None => pushed' = pushed)
         /\ promotion' \in [Runs -> Commands!Hosting!RunRecord \cup {None}]
         /\ intended' \in [LocalTargets -> Qualifications \cup {None}]
         /\ public' \subseteq stored' /\ stored' \subseteq LocalTargets /\ public \subseteq public'
         /\ \A t \in LocalTargets : intended[t] # None => intended'[t] = intended[t]
         /\ \A r \in Runs : promotion'[r] # None =>
              \/ /\ promotion[r] # None /\ promotion'[r].sha = promotion[r].sha
                 /\ promotion'[r].request = promotion[r].request /\ promotion'[r].of = promotion[r].of
              \/ /\ promotion'[r].sha = pushed' /\ promotion'[r].request = None
<1> USE DEF Commands!TypeOK, Commands!Hosting!RunRecord
<1>1. ASSUME NEW r \in Runs, Commands!Hosting!Begin(r) \/ Commands!Hosting!Fail(r) \/ Commands!Hosting!Succeed(r)
      PROVE  /\ UNCHANGED <<pushed, intended, stored, public>> /\ promotion[r] # None
             /\ \E attempt \in 1..LocalAttempts, status \in {"queued", "running", "failed", "succeeded"} :
                  promotion' = [promotion EXCEPT ![r] =
                                 [promotion[r] EXCEPT !.attempt = attempt, !.status = status]]
  <2>1. promotion[r] # None /\ UNCHANGED <<pushed, intended, stored, public>>
    BY <1>1 DEF Commands!Hosting!Begin, Commands!Hosting!Fail, Commands!Hosting!Succeed, Commands!Hosting!Running
  <2>2. promotion[r] \in Commands!Hosting!RunRecord
    BY <2>1
  <2>3. ASSUME NEW attempt \in 1..LocalAttempts, NEW status \in {"running", "failed", "succeeded"},
               promotion' = [promotion EXCEPT ![r].status = status, ![r].attempt = attempt]
        PROVE  promotion' = [promotion EXCEPT ![r] =
                              [promotion[r] EXCEPT !.attempt = attempt, !.status = status]]
    BY <2>2, <2>3
  <2>4. CASE Commands!Hosting!Begin(r)
    BY <2>1, <2>3, <2>4 DEF Commands!Hosting!Begin
  <2>5. ASSUME NEW status \in {"failed", "succeeded"}, promotion' = [promotion EXCEPT ![r].status = status]
        PROVE  promotion' = [promotion EXCEPT ![r] =
                              [promotion[r] EXCEPT !.attempt = promotion[r].attempt, !.status = status]]
    BY <2>2, <2>5
  <2>6. promotion[r].attempt \in 1..LocalAttempts
    BY <2>2
  <2>7. CASE Commands!Hosting!Fail(r) \/ Commands!Hosting!Succeed(r)
    BY <2>1, <2>5, <2>6, <2>7 DEF Commands!Hosting!Fail, Commands!Hosting!Succeed
  <2> QED
    BY <1>1, <2>1, <2>4, <2>7
<1>2. ASSUME NEW r \in Runs, Commands!Hosting!Begin(r) \/ Commands!Hosting!Fail(r) \/ Commands!Hosting!Succeed(r)
      PROVE  /\ promotion' \in [Runs -> Commands!Hosting!RunRecord \cup {None}]
             /\ \A s \in Runs : promotion'[s] # None =>
                  /\ promotion[s] # None /\ promotion'[s].sha = promotion[s].sha
                  /\ promotion'[s].request = promotion[s].request /\ promotion'[s].of = promotion[s].of
  <2>1. PICK attempt \in 1..LocalAttempts, status \in {"queued", "running", "failed", "succeeded"} :
                  promotion' = [promotion EXCEPT ![r] =
                                 [promotion[r] EXCEPT !.attempt = attempt, !.status = status]]
    BY <1>1, <1>2
  <2>2. promotion[r] \in Commands!Hosting!RunRecord /\ promotion[r] # None
    BY <1>1, <1>2
  <2> QED
    BY <2>1, <2>2
<1>3. ASSUME NEW r \in Runs, NEW q \in Qualifications, Commands!Hosting!Request(r, q, None)
      PROVE  /\ UNCHANGED <<pushed, intended, stored, public>>
             /\ promotion' \in [Runs -> Commands!Hosting!RunRecord \cup {None}]
             /\ \A s \in Runs : s # r => promotion'[s] = promotion[s]
             /\ promotion'[r].sha = pushed' /\ promotion'[r].request = None
  BY <1>3, CommandsAssumption DEF Commands!Hosting!Request
<1>4. ASSUME NEW r \in Runs, NEW t \in LocalTargets,
             Commands!Hosting!Intend(r, t) \/ Commands!Hosting!Store(r, t)
      PROVE  /\ UNCHANGED <<pushed, promotion, public>> /\ stored' \in {stored, stored \cup {t}}
             /\ intended' \in [LocalTargets -> Qualifications \cup {None}]
             /\ \A u \in LocalTargets : intended[u] # None => intended'[u] = intended[u]
  BY <1>4 DEF Commands!Hosting!Intend, Commands!Hosting!Store, Commands!Hosting!Running
<1>5. ASSUME NEW t \in LocalTargets, Commands!Hosting!Appear(t)
      PROVE  UNCHANGED <<pushed, promotion, intended, stored>> /\ t \in stored /\ public' = public \cup {t}
  BY <1>5 DEF Commands!Hosting!Appear
<1>6. ASSUME NEW s \in Shas, Commands!Hosting!PushTag(s)
      PROVE  pushed = None /\ pushed' = s /\ UNCHANGED <<promotion, intended, stored, public>>
  BY <1>6 DEF Commands!Hosting!PushTag
<1> USE DEF Commands!Hosting!Hosted, Commands!Hosting!ByHand
<1>7. CASE \E r \in Runs : Commands!Hosting!Begin(r) \/ Commands!Hosting!Fail(r) \/ Commands!Hosting!Succeed(r)
  BY <1>1, <1>2, <1>7
<1>8. CASE \E r \in Runs, q \in Qualifications : Commands!Hosting!Request(r, q, None)
  BY <1>3, <1>8
<1>9. CASE \E r \in Runs, t \in LocalTargets : Commands!Hosting!Intend(r, t) \/ Commands!Hosting!Store(r, t)
  BY <1>4, <1>9
<1>10. CASE \E t \in LocalTargets : Commands!Hosting!Appear(t)
  BY <1>5, <1>10
<1>11. CASE \E s \in Shas : Commands!Hosting!PushTag(s)
  BY <1>6, <1>11
<1> QED
  BY <1>7, <1>8, <1>9, <1>10, <1>11

LEMMA HostedStep ==
  ASSUME Commands!CommandsInv, Commands!Hosting!Hosted \/ Commands!Hosting!ByHand,
         UNCHANGED Commands!localVars
  PROVE  Commands!CommandsInv'
<1> USE DEF Commands!CommandsInv
<1>1. UNCHANGED <<sha, shared, local, command, passed, checks, receipt>>
  BY DEF Commands!localVars
<1>2. /\ pushed' \in Shas \cup {None} /\ (pushed # None => pushed' = pushed)
      /\ promotion' \in [Runs -> Commands!Hosting!RunRecord \cup {None}]
      /\ intended' \in [LocalTargets -> Qualifications \cup {None}]
      /\ public' \subseteq stored' /\ stored' \subseteq LocalTargets /\ public \subseteq public'
      /\ \A t \in LocalTargets : intended[t] # None => intended'[t] = intended[t]
      /\ \A r \in Runs : promotion'[r] # None =>
           \/ /\ promotion[r] # None /\ promotion'[r].sha = promotion[r].sha
              /\ promotion'[r].request = promotion[r].request /\ promotion'[r].of = promotion[r].of
           \/ /\ promotion'[r].sha = pushed' /\ promotion'[r].request = None
  BY HostedFacts
<1>3. None \notin Shas /\ None \notin Qualifications /\ None \notin Commands!Checkouts
  BY NoneAssumption, CommandsAssumption DEF Commands!Checkouts
<1>4. \A c \in Commands!Checkouts : pushed = sha[c] => pushed' = sha[c]
  BY <1>2, <1>3 DEF Commands!TypeOK
<1>5. Commands!TypeOK' /\ Commands!FilesAgree' /\ Commands!NeverLockedOut'
  BY <1>1, <1>2 DEF Commands!TypeOK, Commands!FilesAgree, Commands!NeverLockedOut, Commands!HintsMatch
<1>6. \A b \in Commands!Checkouts : Commands!AskedBy(b) = {} => Commands!AskedBy(b)' = {}
  BY <1>2, <1>3 DEF Commands!AskedBy
<1>7. Commands!CommandKeepsOrder'
  <2> SUFFICES ASSUME NEW b \in Commands!Checkouts, command[b] # None
               PROVE  Commands!InOrder(b, command[b])'
    BY <1>1 DEF Commands!CommandKeepsOrder
  <2>1. command'[b] = command[b] /\ Commands!InOrder(b, command[b])
    BY <1>1 DEF Commands!CommandKeepsOrder
  <2>2. ASSUME NEW j, Commands!InOrder(b, j) PROVE Commands!InOrder(b, j)'
    BY <1>1, <1>4, <1>6, <2>2, OrderIsKept
  <2> QED
    BY <2>1, <2>2
<1>8. Commands!RunsAreIntended'
  <2> SUFFICES ASSUME NEW r \in Runs, promotion'[r] # None
               PROVE  /\ promotion'[r].sha = pushed'
                      /\ promotion'[r].request # None =>
                           shared[promotion'[r].request].intents["promotion"] # None
    BY <1>1 DEF Commands!RunsAreIntended
  <2>1. promotion[r] # None => promotion[r].sha \in Shas
    BY DEF Commands!TypeOK, Commands!Hosting!RunRecord
  <2> QED
    BY <1>2, <1>3, <2>1 DEF Commands!RunsAreIntended
<1>9. Commands!VerifiedIsPublic'
  <2> SUFFICES ASSUME NEW c \in Commands!Checkouts, shared[c].verified # 0
               PROVE  /\ pushed' = sha[c] /\ public' = LocalTargets
                      /\ shared[c].intents["promotion"] # None
                      /\ \A t \in LocalTargets : intended'[t] = shared[c].intents["promotion"].of
    BY <1>1 DEF Commands!VerifiedIsPublic
  <2>1. /\ pushed = sha[c] /\ public = LocalTargets /\ shared[c].intents["promotion"] # None
        /\ \A t \in LocalTargets : intended[t] = shared[c].intents["promotion"].of
    BY DEF Commands!VerifiedIsPublic
  <2>2. shared[c].intents["promotion"].of \in Qualifications
    <3>1. shared[c].intents["promotion"] \in Commands!Requests \cup {None}
      BY DEF Commands!TypeOK, Commands!SharedNames, Commands!Names
    <3> QED
      BY <2>1, <3>1 DEF Commands!Requests
  <2> QED
    BY <1>2, <1>3, <1>4, <2>1, <2>2
<1>10. Commands!AskedOnce' /\ Commands!PromotionIsRehearsed'
  BY <1>1, <1>2 DEF Commands!AskedOnce, Commands!PromotionIsRehearsed, Commands!Inspected
<1>11. Commands!ReceiptIsTrue'
  <2>1. \A c \in Commands!Checkouts : receipt[c] # 0 => receipt[c] = shared[c].verified
    BY DEF Commands!ReceiptIsTrue
  <2> QED
    BY <1>1, <1>9, <2>1 DEF Commands!ReceiptIsTrue, Commands!VerifiedIsPublic
<1> QED
  BY <1>5, <1>7, <1>8, <1>9, <1>10, <1>11

LEMMA CommandsEnd ==
  ASSUME Commands!CommandsInv, NEW c \in Commands!Checkouts, Commands!End(c)
  PROVE  Commands!CommandsInv'
<1>1. Commands!Goto(c, None) /\ UNCHANGED Commands!hostedVars
  BY DEF Commands!End, Commands!Goto
<1>2. Commands!TypeOK'
  BY <1>1, TypeKept DEF Commands!CommandsInv
<1> QED
  BY <1>1, <1>2, CommandGoesOn DEF Commands!Goto

LEMMA CommandsDispatch ==
  ASSUME Commands!CommandsInv, NEW c \in Commands!Checkouts,
         NEW name \in {"qualification", "dry-run", "promotion"}, Commands!Dispatch(c, name)
  PROVE  Commands!CommandsInv'
<1>1. Commands!Doing(c, name, "look") /\ UNCHANGED Commands!hostedVars
  BY DEF Commands!Dispatch
<1>2. CASE /\ Commands!Requested(c, name) # None /\ Commands!Requested(c, name).of = command[c].of
           /\ Commands!Goto(c, Commands!Stepped(c, "observe"))
  BY <1>1, <1>2, CommandObserves
<1>3. CASE /\ Commands!Requested(c, name) = None /\ command[c].allow
           /\ Commands!Recorded(c, name) /\ UNCHANGED <<sha, passed, checks, receipt>>
  BY <1>1, <1>3, CommandRecords
<1> QED
  BY <1>2, <1>3 DEF Commands!Dispatch

(* What a command sent passes, or does not, or is not known to have.       *)
LEMMA CommandsSend ==
  ASSUME Commands!CommandsInv, NEW c \in Commands!Checkouts,
         NEW name \in {"qualification", "dry-run", "promotion"}, Commands!Send(c, name)
  PROVE  Commands!CommandsInv'
<1>0. PICK next : next = Commands!Stepped(c, "observe")
  OBVIOUS
<1>1. /\ Commands!Doing(c, name, "send") /\ command' = [command EXCEPT ![c] = next]
      /\ UNCHANGED <<sha, shared, local, checks, receipt>>
  BY <1>0 DEF Commands!Send
<1>2. CASE name = "promotion"
  <2>1. PICK r \in Runs : Commands!Hosting!Request(r, command[c].of, c) /\ UNCHANGED passed
    BY <1>2 DEF Commands!Send
  <2>2. Commands!Doing(c, "promotion", "send")
    BY <1>1, <1>2
  <2> QED
    BY <1>0, <1>1, <2>1, <2>2, PromotionSent
<1>3. CASE name # "promotion"
  <2> USE DEF Commands!CommandsInv
  <2>1. passed' \in {passed, passed \cup {Commands!Passed(c, name)}} /\ UNCHANGED Commands!hostedVars
    BY <1>3 DEF Commands!Send
  <2>2. /\ command[c] # None /\ Head(command[c].tasks) = name /\ command[c].step = "send"
        /\ Commands!InOrder(c, command[c])
    BY <1>1 DEF Commands!Doing, Commands!CommandKeepsOrder
  <2>3. /\ next \in Commands!CommandRecord /\ next.dir = command[c].dir /\ next.of = command[c].of
        /\ next.allow = command[c].allow /\ next.tasks = command[c].tasks /\ next.step = "observe"
        /\ command[c] \in Commands!CommandRecord
    BY <1>0, <2>2, SteppedFacts
  <2>4. /\ name \in Commands!Names /\ local[command[c].dir][name] # None
        /\ local[command[c].dir][name].of = command[c].of
    BY <2>2 DEF Commands!InOrder
  <2>5. Commands!Passed(c, name) \in [name : {"qualification", "dry-run"},
                                      by : Qualifications \cup Commands!Checkouts, of : Qualifications]
    <3>1. command[c].dir \in Qualifications /\ command[c].of \in Qualifications
      BY <2>3 DEF Commands!CommandRecord
    <3>2. Commands!Requested(c, name).of \in Qualifications
      BY <2>4, <3>1 DEF Commands!Requested
    <3> QED
      BY <1>3, <3>1, <3>2 DEF Commands!Passed
  <2>6. Commands!TypeOK'
    <3>1. passed' \subseteq [name : {"qualification", "dry-run"},
                             by : Qualifications \cup Commands!Checkouts, of : Qualifications]
      BY <2>1, <2>5 DEF Commands!TypeOK
    <3>2. command' \in [Commands!Checkouts -> Commands!CommandRecord \cup {None}]
      BY <1>1, <2>3 DEF Commands!TypeOK
    <3> QED
      BY <1>1, <2>1, <3>1, <3>2 DEF Commands!TypeOK, Commands!hostedVars
  <2>7. /\ CheckoutOf[next.dir] = c
        /\ \A n \in Commands!SharedNames : local[next.dir][n] = shared[c].intents[n]
    BY <2>2, <2>3 DEF Commands!FilesAgree
  <2>8. passed \subseteq passed'
    BY <2>1
  <2>9. Commands!InOrder(c, next)'
    <3>1. next.allow /\ name # "qualification" => Commands!Inspected(next.of)
      BY <2>2, <2>3 DEF Commands!InOrder
    <3>2. next.allow /\ name # "qualification" => Commands!Inspected(next.of)'
      BY <2>8, <3>1 DEF Commands!Inspected
    <3>3. Head(next.tasks) = name /\ name \in {"qualification", "dry-run"}
      BY <1>3, <2>2, <2>3
    <3>4. local'[next.dir][name] # None /\ local'[next.dir][name].of = next.of
      BY <1>1, <2>3, <2>4
    <3> QED
      BY <2>3, <2>4, <3>2, <3>3, <3>4 DEF Commands!InOrder
  <2> QED
    BY <1>1, <2>1, <2>3, <2>6, <2>7, <2>8, <2>9, CommandGoesOn
<1> QED
  BY <1>2, <1>3

LEMMA CommandsSendUnknown ==
  ASSUME Commands!CommandsInv, NEW c \in Commands!Checkouts, Commands!SendUnknown(c)
  PROVE  Commands!CommandsInv'
<1>1. PICK r \in Runs : Commands!Hosting!Request(r, command[c].of, c)
  BY DEF Commands!SendUnknown
<1> QED
  BY <1>1, PromotionSent DEF Commands!SendUnknown

LEMMA CommandsObserve ==
  ASSUME Commands!CommandsInv, NEW c \in Commands!Checkouts,
         NEW name \in {"qualification", "dry-run"}, Commands!Observe(c, name)
  PROVE  Commands!CommandsInv'
<1> USE DEF Commands!CommandsInv
<1>1. /\ command[c] # None /\ Head(command[c].tasks) = name /\ command[c].step = "observe"
      /\ Commands!Passed(c, name) \in passed
      /\ Commands!Goto(c, Commands!Advanced(c)) /\ UNCHANGED Commands!hostedVars
  BY DEF Commands!Observe, Commands!Doing
<1>2. Commands!InOrder(c, command[c])
  BY <1>1 DEF Commands!CommandKeepsOrder
<1>3. name = "dry-run" /\ command[c].allow => Commands!RehearsedFor(c, command[c].of)
  <2>1. Commands!Requested(c, name).of = command[c].of
    BY <1>1, <1>2 DEF Commands!InOrder, Commands!Requested
  <2>2. command[c].allow /\ name # "qualification" => Commands!Inspected(command[c].of)
    BY <1>1, <1>2 DEF Commands!InOrder
  <2> QED
    BY <1>1, <2>1, <2>2 DEF Commands!RehearsedFor, Commands!Passed
<1> QED
  BY <1>1, <1>3, CommandAdvances

(* The run that succeeded was asked for by this checkout, of its commit.   *)
LEMMA CommandsObservePromotion ==
  ASSUME Commands!CommandsInv, NEW c \in Commands!Checkouts, Commands!ObservePromotion(c)
  PROVE  Commands!CommandsInv'
<1> USE DEF Commands!CommandsInv
<1>1. /\ command[c] # None /\ Head(command[c].tasks) = "promotion" /\ command[c].step = "observe"
      /\ Commands!Goto(c, Commands!Advanced(c)) /\ UNCHANGED Commands!hostedVars
  BY DEF Commands!ObservePromotion, Commands!Doing
<1>2. Commands!InOrder(c, command[c])
  BY <1>1 DEF Commands!CommandKeepsOrder
<1>3. PICK r \in Runs : promotion[r] # None /\ promotion[r].request = c
  BY DEF Commands!ObservePromotion
<1>4. promotion[r].sha = pushed /\ promotion[r].sha = sha[c]
  BY <1>3, CommandsAssumption
  DEF Commands!RunsAreIntended, Commands!PromotionIsRehearsed, Commands!Checkouts
<1>5. /\ Commands!Requested(c, "promotion") # None
      /\ Commands!Requested(c, "promotion").of = command[c].of
  BY <1>1, <1>2 DEF Commands!InOrder, Commands!Requested
<1> QED
  BY <1>1, <1>4, <1>5, CommandAdvances

LEMMA CommandsEnsureTag ==
  ASSUME Commands!CommandsInv, NEW c \in Commands!Checkouts, Commands!EnsureTag(c)
  PROVE  Commands!CommandsInv'
<1>1. Commands!Doing(c, "tag", "look") /\ UNCHANGED Commands!hostedVars
  BY DEF Commands!EnsureTag
<1>2. CASE pushed = sha[c] /\ Commands!Goto(c, Commands!Advanced(c))
  <2>1. command[c] # None /\ Head(command[c].tasks) = "tag"
    BY <1>1 DEF Commands!Doing
  <2> QED
    BY <1>1, <1>2, <2>1, CommandAdvances
<1>3. CASE /\ Commands!Requested(c, "tag") = None /\ Commands!Recorded(c, "tag")
           /\ UNCHANGED <<sha, passed, checks, receipt>>
  BY <1>1, <1>3, CommandRecords
<1> QED
  BY <1>2, <1>3 DEF Commands!EnsureTag

LEMMA CommandsRehearsed ==
  ASSUME Commands!CommandsInv, NEW c \in Commands!Checkouts, Commands!Rehearsed(c)
  PROVE  Commands!CommandsInv'
<1>1. /\ command[c] # None /\ Head(command[c].tasks) = "rehearsed"
      /\ Commands!Goto(c, Commands!Advanced(c)) /\ UNCHANGED Commands!hostedVars
  BY DEF Commands!Rehearsed, Commands!Doing
<1> QED
  BY <1>1, CommandAdvances

(* No run can exist before the tag does, so its push contradicts none.     *)
LEMMA CommandsPush ==
  ASSUME Commands!CommandsInv, NEW c \in Commands!Checkouts, Commands!Push(c)
  PROVE  Commands!CommandsInv'
<1> USE DEF Commands!CommandsInv
<1>0. PICK next : next = Commands!Stepped(c, "look")
  OBVIOUS
<1>1. /\ command[c] # None /\ Head(command[c].tasks) = "tag"
      /\ command' = [command EXCEPT ![c] = next] /\ UNCHANGED <<sha, shared, local, passed, checks, receipt>>
      /\ pushed = None /\ pushed' = sha[c] /\ UNCHANGED <<promotion, intended, stored, public>>
  BY <1>0 DEF Commands!Push, Commands!Doing, Commands!Goto, Commands!Hosting!PushTag
<1>2. /\ next \in Commands!CommandRecord /\ next.dir = command[c].dir /\ next.of = command[c].of
      /\ next.allow = command[c].allow /\ next.tasks = command[c].tasks /\ next.step = "look"
  BY <1>0, <1>1, SteppedFacts
<1>3. sha[c] \in Shas /\ None \notin Shas /\ sha \in [Commands!Checkouts -> Shas]
  BY NoneAssumption DEF Commands!TypeOK
<1>4. \A r \in Runs : promotion[r] = None
  <2> SUFFICES ASSUME NEW r \in Runs, promotion[r] # None PROVE FALSE
    OBVIOUS
  <2>1. promotion[r].sha \in Shas
    BY DEF Commands!TypeOK, Commands!Hosting!RunRecord
  <2> QED
    BY <1>1, <1>3, <2>1 DEF Commands!RunsAreIntended
<1>5. \A b \in Commands!Checkouts : command'[b] = IF b = c THEN next ELSE command[b]
  BY <1>1 DEF Commands!TypeOK
<1>6. Commands!TypeOK'
  <2>1. command' \in [Commands!Checkouts -> Commands!CommandRecord \cup {None}]
    BY <1>1, <1>2 DEF Commands!TypeOK
  <2> QED
    BY <1>1, <1>3, <2>1 DEF Commands!TypeOK
<1>7. Commands!FilesAgree'
  BY <1>1, <1>2, <1>5 DEF Commands!FilesAgree
<1>8. Commands!CommandKeepsOrder'
  <2>1. \A b \in Commands!Checkouts : pushed # sha[b]
    BY <1>1, <1>3
  <2>2. Commands!InOrder(c, command[c])
    BY <1>1 DEF Commands!CommandKeepsOrder
  <2>3. next.allow => Commands!RehearsedFor(c, next.of) /\ Commands!Inspected(next.of)
    BY <1>1, <1>2, <2>2 DEF Commands!InOrder
  <2>4. Commands!InOrder(c, next)'
    BY <1>1, <1>2, <2>3 DEF Commands!InOrder, Commands!RehearsedFor, Commands!Inspected
  <2>5. ASSUME NEW b \in Commands!Checkouts, b # c, command[b] # None
        PROVE  Commands!InOrder(b, command[b])'
    <3>1. command'[b] = command[b] /\ Commands!InOrder(b, command[b])
      BY <1>5, <2>5 DEF Commands!CommandKeepsOrder
    <3>2. Commands!AskedBy(b) = {} => Commands!AskedBy(b)' = {}
      BY <1>1 DEF Commands!AskedBy
    <3>3. ASSUME NEW j, Commands!InOrder(b, j) PROVE Commands!InOrder(b, j)'
      BY <1>1, <2>1, <3>2, <3>3, OrderIsKept
    <3> QED
      BY <3>1, <3>3
  <2> QED
    BY <1>5, <2>4, <2>5 DEF Commands!CommandKeepsOrder
<1>9. Commands!RunsAreIntended' /\ Commands!AskedOnce' /\ Commands!PromotionIsRehearsed'
  BY <1>1, <1>4 DEF Commands!RunsAreIntended, Commands!AskedOnce, Commands!PromotionIsRehearsed
<1>10. Commands!NeverLockedOut'
  BY <1>1 DEF Commands!NeverLockedOut, Commands!HintsMatch
<1>11. Commands!VerifiedIsPublic' /\ Commands!ReceiptIsTrue'
  BY <1>1, <1>3 DEF Commands!VerifiedIsPublic, Commands!ReceiptIsTrue
<1> QED
  BY <1>6, <1>7, <1>8, <1>9, <1>10, <1>11

(* The first verification found public what the intent names; those after  *)
(* it keep its date.                                                       *)
LEMMA CommandsVerifyPublic ==
  ASSUME Commands!CommandsInv, NEW c \in Commands!Checkouts, Commands!VerifyPublic(c)
  PROVE  Commands!CommandsInv'
<1> USE DEF Commands!CommandsInv
<1>0. PICK next, first : next = Commands!Advanced(c) /\ first = Commands!FirstVerified(c)
  OBVIOUS
<1>1. /\ command[c] # None /\ Head(command[c].tasks) = "public" /\ checks < MaxChecks
      /\ Commands!PublicBytes(command[c].of) /\ checks' = checks + 1
      /\ shared' = [shared EXCEPT ![c].verified = first]
      /\ command' = [command EXCEPT ![c] = next]
      /\ UNCHANGED <<sha, local, passed, receipt>>
      /\ UNCHANGED <<pushed, promotion, intended, stored, public>>
  BY <1>0 DEF Commands!VerifyPublic, Commands!Doing, Commands!hostedVars
<1>2. checks \in Nat /\ checks' \in 0..MaxChecks /\ shared[c].verified \in Nat
  BY <1>1, CommandsAssumption DEF Commands!TypeOK
<1>3. first \in Nat \ {0} /\ (shared[c].verified # 0 => first = shared[c].verified)
  BY <1>0, <1>2 DEF Commands!FirstVerified
<1>4. /\ \A b \in Commands!Checkouts : /\ shared'[b].intents = shared[b].intents
                                       /\ b # c => shared'[b] = shared[b]
      /\ shared'[c].verified = first
      /\ shared' \in [Commands!Checkouts ->
                      [intents : [Commands!SharedNames -> Commands!Requests \cup {None}], verified : Nat]]
  BY <1>1, <1>3 DEF Commands!TypeOK
<1>5. /\ Commands!InOrder(c, command[c]) /\ pushed = sha[c]
      /\ local[command[c].dir]["promotion"] # None
      /\ local[command[c].dir]["promotion"].of = command[c].of
  BY <1>1 DEF Commands!CommandKeepsOrder, Commands!InOrder
<1>6. shared[c].intents["promotion"] = local[command[c].dir]["promotion"]
  BY <1>1 DEF Commands!FilesAgree, Commands!SharedNames, Commands!Names
<1>7. /\ next # None => next \in Commands!CommandRecord
      /\ next # None => next.dir = command[c].dir /\ next.of = command[c].of
      /\ next # None => next.allow = command[c].allow
      /\ next # None => next.step = "look" /\ Head(next.tasks) = "receipt"
  <2>1. command[c].tasks \in Commands!Plans
    BY <1>1 DEF Commands!TypeOK, Commands!CommandRecord
  <2> QED
    BY <1>0, <1>1, <2>1, AdvancedFacts, PlanFacts
<1>8. \A b \in Commands!Checkouts : command'[b] = IF b = c THEN next ELSE command[b]
  BY <1>1 DEF Commands!TypeOK
<1>9. Commands!TypeOK'
  <2>1. command' \in [Commands!Checkouts -> Commands!CommandRecord \cup {None}]
    BY <1>1, <1>7 DEF Commands!TypeOK
  <2> QED
    BY <1>1, <1>2, <1>4, <2>1 DEF Commands!TypeOK
<1>10. Commands!FilesAgree'
  BY <1>1, <1>4, <1>7, <1>8 DEF Commands!FilesAgree
<1>11. Commands!CommandKeepsOrder'
  <2>1. ASSUME next # None PROVE Commands!InOrder(c, next)'
    <3>1. next.allow => Commands!Inspected(next.of)
      BY <1>1, <1>5, <1>7, <2>1 DEF Commands!InOrder
    <3>2. next.allow => Commands!Inspected(next.of)'
      BY <1>1, <3>1 DEF Commands!Inspected
    <3>3. shared'[c].verified # 0
      BY <1>3, <1>4
    <3> QED
      BY <1>1, <1>5, <1>7, <2>1, <3>2, <3>3 DEF Commands!InOrder
  <2>2. ASSUME NEW b \in Commands!Checkouts, b # c, command[b] # None
        PROVE  Commands!InOrder(b, command[b])'
    <3>1. command'[b] = command[b] /\ Commands!InOrder(b, command[b])
      BY <1>8, <2>2 DEF Commands!CommandKeepsOrder
    <3>2. Commands!AskedBy(b) = {} => Commands!AskedBy(b)' = {}
      BY <1>1 DEF Commands!AskedBy
    <3>3. ASSUME NEW j, Commands!InOrder(b, j) PROVE Commands!InOrder(b, j)'
      BY <1>1, <1>4, <2>2, <3>2, <3>3, OrderIsKept
    <3> QED
      BY <3>1, <3>3
  <2> QED
    BY <1>8, <2>1, <2>2 DEF Commands!CommandKeepsOrder
<1>12. Commands!RunsAreIntended'
  <2>1. \A r \in Runs : promotion[r] # None => promotion[r].request \in Commands!Checkouts \cup {None}
    BY DEF Commands!TypeOK, Commands!Hosting!RunRecord, Commands!Checkouts
  <2> QED
    BY <1>1, <1>4, <2>1 DEF Commands!RunsAreIntended
<1>13. Commands!NeverLockedOut'
  <2>1. \A d \in Qualifications : CheckoutOf[d] \in Commands!Checkouts
    BY CommandsAssumption DEF Commands!Checkouts
  <2> QED
    BY <1>1, <1>4, <2>1 DEF Commands!NeverLockedOut, Commands!HintsMatch
<1>14. Commands!AskedOnce' /\ Commands!PromotionIsRehearsed'
  BY <1>1 DEF Commands!AskedOnce, Commands!PromotionIsRehearsed, Commands!Inspected
<1>15. ASSUME NEW b \in Commands!Checkouts, shared'[b].verified # 0
       PROVE  /\ pushed' = sha'[b] /\ public' = LocalTargets
              /\ shared'[b].intents["promotion"] # None
              /\ \A t \in LocalTargets : intended'[t] = shared'[b].intents["promotion"].of
  <2>1. CASE b = c
    BY <1>1, <1>4, <1>5, <1>6, <2>1 DEF Commands!PublicBytes
  <2>2. CASE b # c
    BY <1>1, <1>4, <1>15, <2>2 DEF Commands!VerifiedIsPublic
  <2> QED
    BY <2>1, <2>2
<1>16. \A b \in Commands!Checkouts : receipt[b] # 0 =>
         shared'[b].verified = receipt[b] /\ shared'[b].verified # 0
  <2> SUFFICES ASSUME NEW b \in Commands!Checkouts, receipt[b] # 0
               PROVE  shared'[b].verified = receipt[b]
    OBVIOUS
  <2>1. receipt[b] = shared[b].verified
    BY DEF Commands!ReceiptIsTrue
  <2> QED
    BY <1>3, <1>4, <2>1
<1>17. Commands!VerifiedIsPublic' /\ Commands!ReceiptIsTrue'
  BY <1>1, <1>15, <1>16 DEF Commands!VerifiedIsPublic, Commands!ReceiptIsTrue
<1> QED
  BY <1>9, <1>10, <1>11, <1>12, <1>13, <1>14, <1>17

LEMMA CommandsWriteReceipt ==
  ASSUME Commands!CommandsInv, NEW c \in Commands!Checkouts, Commands!WriteReceipt(c)
  PROVE  Commands!CommandsInv'
<1> USE DEF Commands!CommandsInv
<1>1. /\ command[c] # None /\ Head(command[c].tasks) = "receipt"
      /\ receipt' = [receipt EXCEPT ![c] = shared[c].verified]
      /\ command' = [command EXCEPT ![c] = None]
      /\ UNCHANGED <<sha, shared, local, passed, checks>>
      /\ UNCHANGED <<pushed, promotion, intended, stored, public>>
  BY DEF Commands!WriteReceipt, Commands!Doing, Commands!hostedVars
<1>2. shared[c].verified \in Nat \ {0}
  BY <1>1 DEF Commands!CommandKeepsOrder, Commands!InOrder, Commands!TypeOK
<1>3. \A b \in Commands!Checkouts :
        /\ command'[b] = IF b = c THEN None ELSE command[b]
        /\ receipt'[b] = IF b = c THEN shared[c].verified ELSE receipt[b]
  BY <1>1 DEF Commands!TypeOK
<1>4. Commands!TypeOK'
  <2>1. /\ receipt' \in [Commands!Checkouts -> Nat]
        /\ command' \in [Commands!Checkouts -> Commands!CommandRecord \cup {None}]
    BY <1>1, <1>2 DEF Commands!TypeOK
  <2> QED
    BY <1>1, <2>1 DEF Commands!TypeOK
<1>5. Commands!FilesAgree'
  BY <1>1, <1>3 DEF Commands!FilesAgree
<1>6. Commands!CommandKeepsOrder'
  <2> SUFFICES ASSUME NEW b \in Commands!Checkouts, b # c, command[b] # None
               PROVE  Commands!InOrder(b, command[b])'
    BY <1>3 DEF Commands!CommandKeepsOrder
  <2>1. command'[b] = command[b] /\ Commands!InOrder(b, command[b])
    BY <1>3 DEF Commands!CommandKeepsOrder
  <2>2. Commands!AskedBy(b) = {} => Commands!AskedBy(b)' = {}
    BY <1>1 DEF Commands!AskedBy
  <2>3. ASSUME NEW j, Commands!InOrder(b, j) PROVE Commands!InOrder(b, j)'
    BY <1>1, <2>2, <2>3, OrderIsKept
  <2> QED
    BY <2>1, <2>3
<1>7. Commands!RunsAreIntended' /\ Commands!VerifiedIsPublic' /\ Commands!NeverLockedOut'
  BY <1>1 DEF Commands!RunsAreIntended, Commands!VerifiedIsPublic, Commands!NeverLockedOut, Commands!HintsMatch
<1>8. Commands!AskedOnce' /\ Commands!PromotionIsRehearsed'
  BY <1>1 DEF Commands!AskedOnce, Commands!PromotionIsRehearsed, Commands!Inspected
<1>9. \A b \in Commands!Checkouts : receipt'[b] # 0 => receipt'[b] = shared[b].verified
  BY <1>3 DEF Commands!ReceiptIsTrue
<1>10. Commands!ReceiptIsTrue'
  BY <1>1, <1>9 DEF Commands!ReceiptIsTrue, Commands!VerifiedIsPublic
<1> QED
  BY <1>4, <1>5, <1>6, <1>7, <1>8, <1>10

LEMMA CommandsInit == Commands!Init => Commands!CommandsInv
<1> SUFFICES ASSUME Commands!Init PROVE Commands!CommandsInv
  OBVIOUS
<1>1. /\ pushed = None /\ promotion = [r \in Runs |-> None]
      /\ intended = [t \in LocalTargets |-> None] /\ stored = {} /\ public = {}
      /\ sha \in [Commands!Checkouts -> Shas]
      /\ shared = [c \in Commands!Checkouts |->
                    [intents |-> [n \in Commands!SharedNames |-> None], verified |-> 0]]
      /\ local = [d \in Qualifications |-> [n \in Commands!Names |-> None]]
      /\ command = [c \in Commands!Checkouts |-> None]
      /\ passed = {} /\ checks = 0 /\ receipt = [c \in Commands!Checkouts |-> 0]
  BY DEF Commands!Init, Commands!Hosting!Init, Commands!NoRequests
<1>2. Commands!TypeOK
  BY <1>1, CommandsAssumption DEF Commands!TypeOK
<1>3. \A d \in Qualifications : CheckoutOf[d] \in Commands!Checkouts
  BY CommandsAssumption DEF Commands!Checkouts
<1>4. Commands!NeverLockedOut
  BY <1>1, <1>3 DEF Commands!NeverLockedOut, Commands!HintsMatch, Commands!SharedNames
<1>5. /\ Commands!FilesAgree /\ Commands!CommandKeepsOrder /\ Commands!RunsAreIntended
      /\ Commands!AskedOnce /\ Commands!PromotionIsRehearsed
  BY <1>1 DEF Commands!FilesAgree, Commands!CommandKeepsOrder, Commands!RunsAreIntended,
              Commands!AskedOnce, Commands!PromotionIsRehearsed
<1>6. Commands!VerifiedIsPublic /\ Commands!ReceiptIsTrue
  BY <1>1 DEF Commands!VerifiedIsPublic, Commands!ReceiptIsTrue
<1> QED
  BY <1>2, <1>4, <1>5, <1>6 DEF Commands!CommandsInv

LEMMA CommandsStep ==
  ASSUME Commands!CommandsInv, [Commands!Next]_(Commands!vars)
  PROVE  Commands!CommandsInv'
<1>1. CASE Commands!Next
  BY <1>1, CommandsRun, CommandsEnd, CommandsDispatch, CommandsSend, CommandsSendUnknown,
     CommandsObserve, CommandsObservePromotion, CommandsEnsureTag, CommandsPush, CommandsRehearsed,
     CommandsVerifyPublic, CommandsWriteReceipt, HostedStep
  DEF Commands!Next, Commands!Local
<1>2. CASE UNCHANGED Commands!vars
  <2>1. /\ UNCHANGED <<pushed, promotion, intended, stored, public>>
        /\ UNCHANGED <<sha, shared, local, command, passed, checks, receipt>>
    BY <1>2 DEF Commands!vars, Commands!hostedVars, Commands!localVars
  <2>2. Commands!TypeOK' /\ Commands!FilesAgree' /\ Commands!NeverLockedOut'
    BY <2>1 DEF Commands!CommandsInv, Commands!TypeOK, Commands!FilesAgree,
                Commands!NeverLockedOut, Commands!HintsMatch
  <2>3. Commands!RunsAreIntended' /\ Commands!VerifiedIsPublic' /\ Commands!AskedOnce'
    BY <2>1 DEF Commands!CommandsInv, Commands!RunsAreIntended, Commands!VerifiedIsPublic,
                Commands!AskedOnce
  <2>4. Commands!PromotionIsRehearsed' /\ Commands!ReceiptIsTrue'
    BY <2>1 DEF Commands!CommandsInv, Commands!PromotionIsRehearsed, Commands!Inspected,
                Commands!ReceiptIsTrue
  <2>5. Commands!CommandKeepsOrder'
    BY <2>1 DEF Commands!CommandsInv, Commands!CommandKeepsOrder, Commands!InOrder,
                Commands!RehearsedFor, Commands!Inspected, Commands!AskedBy
  <2> QED
    BY <2>2, <2>3, <2>4, <2>5 DEF Commands!CommandsInv
<1> QED
  BY <1>1, <1>2

(* However its commands die, whatever reply is lost and whoever else acts  *)
(* by hand: no directory of a release is locked out of it, a checkout asks *)
(* for the publication at most once and only of what it rehearsed with     *)
(* success at the tagged commit, and its receipt dates public bytes.       *)
THEOREM CommandsKeepTheRelease == MCSpec => []CommandsAreSafe
<1>1. MCInit => CommandsAreSafe
  BY CommandsInit DEF MCInit, CommandsAreSafe
<1>2. CommandsAreSafe /\ [MCNext]_<<part, vars, ofCommands>> => CommandsAreSafe'
  <2> SUFFICES ASSUME CommandsAreSafe, [MCNext]_<<part, vars, ofCommands>>, part' = "commands"
               PROVE  Commands!CommandsInv'
    BY DEF CommandsAreSafe
  <2>1. part = "commands"
    BY DEF MCNext
  <2>2. [Commands!Next]_(Commands!vars)
    BY <2>1 DEF MCNext, ofCommands, Commands!vars, Commands!hostedVars, Commands!localVars
  <2> QED
    BY <2>1, <2>2, CommandsStep DEF CommandsAreSafe
<1> QED
  BY <1>1, <1>2, PTL DEF MCSpec
=============================================================================
