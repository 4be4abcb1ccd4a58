------------------------- MODULE PublicationJournal -------------------------
(***************************************************************************)
(* The hosted half of a release (scripts/release, promote-vsix.yml): the   *)
(* publisher jobs that upload a version's two packages to the Marketplace, *)
(* the journal of possible uploads they anchor in a Git ref first, and the *)
(* owner who binds a candidate of the version in the same journal.         *)
(*                                                                         *)
(* The ref only fast-forwards, so the journal is the sequence of its       *)
(* records and a commit is its position.  A job may die at any step (an    *)
(* assertion, a lost reply, a lost runner) and its run be started again;   *)
(* an accepted upload may stay invisible in the catalogue.  Package bytes  *)
(* stand for the qualification they were built by.                         *)
(***************************************************************************)
EXTENDS Naturals, Sequences, FiniteSets

CONSTANTS Runs,           \* promotion runs GitHub may create
          Requesters,     \* who may ask for one; None asks by hand
          Targets,        \* platforms a package is built for
          Qualifications, \* qualification runs, each with its own packages
          Shas,           \* commits that carry the version
          MaxAttempts,    \* attempts of one run
          MaxBindings,    \* MAX_BINDINGS of latency_bindings.py
          None

ASSUME BoundsAssumption == MaxAttempts \in Nat \ {0} /\ MaxBindings \in Nat

VARIABLES journal,  \* records of the publication ref
          prepared, \* the binding the owner has approved but not anchored
          tag,      \* commit of the version's remote tag
          run,      \* promotion runs: source, qualification, attempt, status
          job,      \* publisher job of each run
          uploads,  \* uploads the Marketplace accepted, by target
          content,  \* qualification whose bytes the Marketplace holds
          catalog   \* what a lookup of the target shows

vars == <<journal, prepared, tag, run, job, uploads, content, catalog>>

Attempts == 1..MaxAttempts

Bindings == [kind : {"binding"}, revision : 1..MaxBindings, supersedes : Nat,
             purpose : {"nonpublishing", "release"}, source : Shas]
Starts == [kind : {"start"}, target : Targets, run : Runs, attempt : Attempts,
           source : Shas, of : Qualifications, binding : Nat]
Candidates(Events) == [previous : Nat, event : Events]

RunRecord == [sha : Shas, request : Requesters \cup {None}, of : Qualifications, attempt : Attempts,
              status : {"queued", "running", "failed", "succeeded"}]

Stages == {"history", "prepare", "record", "anchor", "publish"}

JobRecord == [stage : Stages, binding : Nat, prior : SUBSET Targets,
              plan : [Targets -> {"unknown", "eligible", "settled"}],
              target : Targets \cup {None}, candidate : Candidates(Starts) \cup {None}]

ASSUME NoneAssumption ==
  /\ None \notin Targets /\ None \notin Qualifications /\ None \notin Shas
  /\ None \notin RunRecord
  /\ None \notin Candidates(Bindings) /\ None \notin Candidates(Starts)

NoJob == [stage |-> "history", binding |-> 0, prior |-> {},
          plan |-> [t \in Targets |-> "unknown"], target |-> None, candidate |-> None]

-----------------------------------------------------------------------------
(* What the records say                                                    *)

Started(records) ==
  {records[i].target : i \in {k \in DOMAIN records : records[k].kind = "start"}}

(* Position of the current binding, 0 when there is none. *)
CurrentBinding(records) ==
  LET bound == {i \in DOMAIN records : records[i].kind = "binding"}
  IN  IF bound = {} THEN 0 ELSE CHOOSE i \in bound : \A k \in bound : k <= i

AdmitsBinding(records, b) ==
  LET current == CurrentBinding(records)
  IN  /\ Started(records) = {}
      /\ b.supersedes = current
      /\ IF current = 0 THEN b.revision = 1
         ELSE LET last == records[current]
              IN  /\ b.revision = last.revision + 1
                  /\ last.purpose = "release" => b.purpose = "release"
                  /\ b.source # last.source \/ b.purpose # last.purpose

MutAdmitsStart(records, s) ==
  /\ \A i \in DOMAIN records : records[i].kind = "start" => records[i].source = s.source
  /\ s.target \notin Started(records)
AdmitsStart(records, s) ==
  LET current == CurrentBinding(records)
  IN  /\ \A i \in DOMAIN records : records[i].kind = "start" => records[i].source = s.source
      /\ s.target \notin Started(records)
      /\ s.binding = current
      /\ current # 0 => /\ records[current].source = s.source
                        /\ records[current].purpose = "release"

Admits(records, event) ==
  IF event.kind = "binding" THEN AdmitsBinding(records, event) ELSE AdmitsStart(records, event)

MutCandidate(event) == [previous |-> Len(journal) - 1, event |-> event]
Candidate(event) == [previous |-> Len(journal), event |-> event]

(* The update of the ref is refused unless it continues the current head. *)
MutFastForwards(candidate) == candidate.previous <= Len(journal)
FastForwards(candidate) == candidate.previous = Len(journal)

Anchored(candidate) == Append(SubSeq(journal, 1, candidate.previous), candidate.event)

Witnessed(candidate) ==
  \E i \in DOMAIN journal : i > candidate.previous /\ journal[i] = candidate.event

-----------------------------------------------------------------------------
(* The owner                                                               *)

PrepareBinding ==
  \E s \in Shas, p \in {"nonpublishing", "release"}, n \in 1..MaxBindings :
    LET b == [kind |-> "binding", revision |-> n, supersedes |-> CurrentBinding(journal),
              purpose |-> p, source |-> s]
    IN  /\ AdmitsBinding(journal, b)
        /\ prepared' = Candidate(b)
        /\ UNCHANGED <<journal, tag, run, job, uploads, content, catalog>>

AppendBinding ==
  /\ prepared # None /\ FastForwards(prepared)
  /\ journal' = Anchored(prepared)
  /\ prepared' = None
  /\ UNCHANGED <<tag, run, job, uploads, content, catalog>>

-----------------------------------------------------------------------------
(* A run                                                                   *)

PushTag(s) ==
  /\ tag = None /\ tag' = s
  /\ UNCHANGED <<journal, prepared, run, job, uploads, content, catalog>>

(* A dispatch at the tag: the run's source is what the tag names. *)
Request(r, q, who) ==
  /\ tag # None /\ run[r] = None
  /\ run' = [run EXCEPT ![r] = [sha |-> tag, request |-> who, of |-> q,
                                attempt |-> 1, status |-> "queued"]]
  /\ UNCHANGED <<journal, prepared, tag, job, uploads, content, catalog>>

(* One promotion of a ref at a time. *)
MutGroupFree(r) == TRUE
GroupFree(r) == \A o \in Runs \ {r} : run[o] # None => run[o].status # "running"

(* A new attempt begins in an empty directory. *)
Begin(r, attempt) ==
  /\ GroupFree(r)
  /\ run' = [run EXCEPT ![r].status = "running", ![r].attempt = attempt]
  /\ job' = [job EXCEPT ![r] = [NoJob EXCEPT !.binding = CurrentBinding(journal)]]
  /\ UNCHANGED <<journal, prepared, tag, uploads, content, catalog>>

Start(r) == run[r] # None /\ run[r].status = "queued" /\ Begin(r, 1)

Rerun(r) ==
  /\ run[r] # None /\ run[r].status \in {"failed", "succeeded"}
  /\ run[r].attempt < MaxAttempts
  /\ Begin(r, run[r].attempt + 1)

Running(r) == run[r] # None /\ run[r].status = "running"

Fail(r) ==
  /\ run[r] # None /\ run[r].status \in {"queued", "running"}
  /\ run' = [run EXCEPT ![r].status = "failed"]
  /\ job' = [job EXCEPT ![r] = NoJob]
  /\ UNCHANGED <<journal, prepared, tag, uploads, content, catalog>>

At(r, stage) == Running(r) /\ job[r].stage = stage

(* The retained history of the version, which must be of the same packages. *)
History(r) ==
  /\ At(r, "history")
  /\ tag = run[r].sha
  /\ \A i \in DOMAIN journal : journal[i].kind = "start" =>
       journal[i].source = run[r].sha /\ journal[i].of = run[r].of
  /\ job' = [job EXCEPT ![r].stage = "prepare", ![r].prior = Started(journal)]
  /\ UNCHANGED <<journal, prepared, tag, run, uploads, content, catalog>>

(* A public target must hold the same bytes, an absent one no earlier intent. *)
Preflight(r) ==
  /\ At(r, "prepare")
  /\ \A t \in Targets : /\ catalog[t] # "pending"
                        /\ catalog[t] = "public" => content[t] = run[r].of
                        /\ catalog[t] = "absent" => t \notin job[r].prior
  /\ job' = [job EXCEPT ![r].stage = "record",
                        ![r].plan = [t \in Targets |->
                          IF catalog[t] = "public" THEN "settled" ELSE "eligible"]]
  /\ UNCHANGED <<journal, prepared, tag, run, uploads, content, catalog>>

Intent(r, t) ==
  [kind |-> "start", target |-> t, run |-> r, attempt |-> run[r].attempt,
   source |-> run[r].sha, of |-> run[r].of, binding |-> job[r].binding]

(* The workflow takes the targets in a fixed order; any order is allowed here. *)
Record(r) ==
  /\ At(r, "record")
  /\ \E t \in Targets :
       /\ job[r].plan[t] = "eligible"
       /\ AdmitsStart(journal, Intent(r, t))
       /\ job' = [job EXCEPT ![r].stage = "anchor", ![r].target = t,
                             ![r].candidate = Candidate(Intent(r, t))]
  /\ UNCHANGED <<journal, prepared, tag, run, uploads, content, catalog>>

Anchor(r) ==
  /\ At(r, "anchor") /\ FastForwards(job[r].candidate)
  /\ journal' = Anchored(job[r].candidate)
  /\ job' = [job EXCEPT ![r].stage = "publish"]
  /\ UNCHANGED <<prepared, tag, run, uploads, content, catalog>>

(* With its record read back and its outcome saved as possibly uploaded, the *)
(* target is looked up once more and its package handed to the Marketplace.  *)
Publish(r) ==
  LET t == job[r].target
  IN  /\ At(r, "publish")
      /\ Witnessed(job[r].candidate)
      /\ job[r].plan[t] = "eligible" /\ catalog[t] # "pending"
      /\ IF catalog[t] = "public"
         THEN content[t] = run[r].of /\ UNCHANGED <<uploads, content>>
         ELSE /\ uploads' = [uploads EXCEPT ![t] = @ + 1]
              /\ content' = [content EXCEPT ![t] = run[r].of]
      /\ job' = [job EXCEPT ![r].stage = "record", ![r].plan[t] = "settled",
                            ![r].target = None, ![r].candidate = None]
      /\ UNCHANGED <<journal, prepared, tag, run, catalog>>

Complete(r) ==
  /\ At(r, "record")
  /\ \A t \in Targets : job[r].plan[t] = "settled"
  /\ run' = [run EXCEPT ![r].status = "succeeded"]
  /\ job' = [job EXCEPT ![r] = NoJob]
  /\ UNCHANGED <<journal, prepared, tag, uploads, content, catalog>>

(* The Marketplace shows an upload late, and pending validation first. *)
Appear(t) ==
  /\ \/ uploads[t] > 0 /\ catalog[t] = "absent" /\ catalog' = [catalog EXCEPT ![t] = "pending"]
     \/ catalog[t] = "pending" /\ catalog' = [catalog EXCEPT ![t] = "public"]
  /\ UNCHANGED <<journal, prepared, tag, run, job, uploads, content>>

-----------------------------------------------------------------------------
Init ==
  /\ journal = << >>
  /\ prepared = None
  /\ tag = None
  /\ run = [r \in Runs |-> None]
  /\ job = [r \in Runs |-> NoJob]
  /\ uploads = [t \in Targets |-> 0]
  /\ content = [t \in Targets |-> None]
  /\ catalog = [t \in Targets |-> "absent"]

(* GitHub, the Marketplace and the owner. *)
Hosted ==
  \/ PrepareBinding \/ AppendBinding
  \/ \E r \in Runs : \/ Start(r) \/ Rerun(r) \/ Fail(r)
                     \/ History(r) \/ Preflight(r) \/ Record(r) \/ Anchor(r)
                     \/ Publish(r) \/ Complete(r)
  \/ \E t \in Targets : Appear(t)

(* Whoever pushes the tag and dispatches runs. *)
Requested ==
  \/ \E s \in Shas : PushTag(s)
  \/ \E r \in Runs, q \in Qualifications, who \in Requesters \cup {None} : Request(r, q, who)

Next == Hosted \/ Requested

Spec == Init /\ [][Next]_vars

-----------------------------------------------------------------------------
TypeOK ==
  /\ journal \in Seq(Bindings \cup Starts)
  /\ prepared \in Candidates(Bindings) \cup {None}
  /\ tag \in Shas \cup {None}
  /\ run \in [Runs -> RunRecord \cup {None}]
  /\ job \in [Runs -> JobRecord]
  /\ uploads \in [Targets -> Nat]
  /\ content \in [Targets -> Qualifications \cup {None}]
  /\ catalog \in [Targets -> {"absent", "pending", "public"}]

(* No package is uploaded twice for a version, whatever dies and is        *)
(* started again and however late the catalogue shows it.                  *)
AtMostOneUpload == \A t \in Targets : uploads[t] <= 1

(* Whatever the Marketplace may hold is in the journal, of those bytes.    *)
UploadIsRecorded ==
  \A t \in Targets : uploads[t] > 0 =>
    \E i \in DOMAIN journal :
      journal[i].kind = "start" /\ journal[i].target = t /\ journal[i].of = content[t]

(* The packages of a version come from one qualification: the journal only *)
(* compares sources, so this rests on the runs of a tag taking turns.      *)
OneQualification ==
  \A t, u \in Targets : content[t] # None /\ content[u] # None => content[t] = content[u]

(* Once an upload is possible, the binding it was admitted under stays the *)
(* current one and authorises the source that is uploaded.                 *)
BindingIsFrozen ==
  \A i \in DOMAIN journal : journal[i].kind = "start" =>
    LET current == CurrentBinding(journal)
    IN  /\ journal[i].binding = current
        /\ current # 0 => /\ journal[current].source = journal[i].source
                          /\ journal[current].purpose = "release"

(* What these follow from.  The journal has one start per target, all of   *)
(* one origin, and a binding is only approved before the first of them.    *)
StartsAgree ==
  \A i, k \in DOMAIN journal : journal[i].kind = "start" /\ journal[k].kind = "start" =>
    /\ journal[i].of = journal[k].of /\ journal[i].source = journal[k].source
    /\ journal[i].target = journal[k].target => i = k

BindingIsKnown ==
  LET bound == {i \in DOMAIN journal : journal[i].kind = "binding"}
  IN  bound # {} => \E i \in bound : \A k \in bound : k <= i

ApprovalPrecedesStarts ==
  prepared # None => /\ prepared.previous <= Len(journal)
                     /\ prepared.previous = Len(journal) => Started(journal) = {}

(* One run works at a time, and another one has no job.                    *)
RunsTakeTurns ==
  /\ \A r, o \in Runs : Running(r) /\ Running(o) => r = o
  /\ \A r \in Runs : /\ ~Running(r) => job[r] = NoJob
                     /\ run[r] # None /\ run[r].status = "queued" => run[r].attempt = 1

(* What the job of a run has read or decided still holds when it acts on it. *)
HistoryHolds(r) ==
  /\ job[r].stage = "prepare" => job[r].prior = Started(journal)
  /\ job[r].stage # "history" =>
       \A i \in DOMAIN journal : journal[i].kind = "start" =>
         journal[i].source = run[r].sha /\ journal[i].of = run[r].of

PlanHolds(r) ==
  \A t \in Targets :
    /\ job[r].stage \in {"history", "prepare"} => job[r].plan[t] = "unknown"
    /\ job[r].plan[t] = "settled" => uploads[t] = 1
    /\ job[r].plan[t] = "eligible" =>
         /\ uploads[t] = 0
         /\ t \in Started(journal) => job[r].stage = "publish" /\ t = job[r].target

CandidateHolds(r) ==
  job[r].stage \in {"anchor", "publish"} =>
    LET s == job[r].candidate.event
    IN  /\ job[r].candidate # None /\ job[r].target # None
        /\ job[r].plan[job[r].target] = "eligible"
        /\ job[r].candidate.previous <= Len(journal)
        /\ s.target = job[r].target /\ s.of = run[r].of /\ s.source = run[r].sha
        /\ job[r].stage = "anchor" /\ job[r].candidate.previous = Len(journal) =>
             AdmitsStart(journal, s)

JobIsCurrent ==
  \A r \in Runs : Running(r) => HistoryHolds(r) /\ PlanHolds(r) /\ CandidateHolds(r)

CatalogShowsUploads ==
  \A t \in Targets : /\ uploads[t] = 0 => catalog[t] = "absent"
                     /\ uploads[t] = 0 <=> content[t] = None

UploadsAreRecorded ==
  /\ TypeOK /\ AtMostOneUpload /\ UploadIsRecorded /\ OneQualification /\ BindingIsFrozen
  /\ StartsAgree /\ BindingIsKnown /\ ApprovalPrecedesStarts
  /\ RunsTakeTurns /\ JobIsCurrent /\ CatalogShowsUploads

-----------------------------------------------------------------------------
(* The qualification on record for a target.                               *)
IntendedOf(t) ==
  LET recorded == {i \in DOMAIN journal : journal[i].kind = "start" /\ journal[i].target = t}
  IN  IF recorded = {} THEN None ELSE journal[CHOOSE i \in recorded : TRUE].of

(* The journal, the groups and the lookups together keep the promise of    *)
(* Publication: one upload per target, on record before, of one origin.    *)
Abstract == INSTANCE Publication WITH
  intended <- [t \in Targets |-> IntendedOf(t)],
  stored <- {t \in Targets : uploads[t] > 0},
  public <- {t \in Targets : catalog[t] = "public"}

ImplementsPublication == Abstract!Spec
=============================================================================
