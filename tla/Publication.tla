---------------------------- MODULE Publication -----------------------------
(***************************************************************************)
(* What publishing a version promises: whatever runs are requested, die    *)
(* and are started again, each package is stored at most once, all of them *)
(* come from one qualification, and nothing is stored before it is on      *)
(* record that it may be.  PublicationJournal implements it; the commands  *)
(* of ReleaseProcess rely on it.                                           *)
(***************************************************************************)
EXTENDS Naturals

CONSTANTS Runs, Requesters, Targets, Qualifications, Shas, MaxAttempts, None

VARIABLES tag,     \* commit of the version's remote tag
          run,     \* promotion runs: source, requester, qualification, attempt, status
          intended,\* qualification whose upload is on record, by target
          stored,  \* targets the Marketplace has accepted
          public   \* targets everybody can download

abstractVars == <<tag, run, intended, stored, public>>

RunRecord == [sha : Shas, request : Requesters \cup {None}, of : Qualifications,
              attempt : 1..MaxAttempts, status : {"queued", "running", "failed", "succeeded"}]

Init ==
  /\ tag = None
  /\ run = [r \in Runs |-> None]
  /\ intended = [t \in Targets |-> None]
  /\ stored = {} /\ public = {}

PushTag(s) == tag = None /\ tag' = s /\ UNCHANGED <<run, intended, stored, public>>

(* A dispatch at the tag: the run's source is what the tag names. *)
Request(r, q, who) ==
  /\ tag # None /\ run[r] = None
  /\ run' = [run EXCEPT ![r] = [sha |-> tag, request |-> who, of |-> q,
                                attempt |-> 1, status |-> "queued"]]
  /\ UNCHANGED <<tag, intended, stored, public>>

Begin(r) ==
  /\ \A o \in Runs \ {r} : run[o] # None => run[o].status # "running"
  /\ run[r] # None
  /\ \E next \in {run[r].attempt, run[r].attempt + 1} \cap (1..MaxAttempts) :
       /\ next = run[r].attempt <=> run[r].status = "queued"
       /\ run[r].status # "running"
       /\ run' = [run EXCEPT ![r].status = "running", ![r].attempt = next]
  /\ UNCHANGED <<tag, intended, stored, public>>

Fail(r) ==
  /\ run[r] # None /\ run[r].status \in {"queued", "running"}
  /\ run' = [run EXCEPT ![r].status = "failed"]
  /\ UNCHANGED <<tag, intended, stored, public>>

Running(r) == run[r] # None /\ run[r].status = "running"

Intend(r, t) ==
  /\ Running(r) /\ intended[t] = None
  /\ \A u \in Targets : intended[u] \in {None, run[r].of}
  /\ intended' = [intended EXCEPT ![t] = run[r].of]
  /\ UNCHANGED <<tag, run, stored, public>>

Store(r, t) ==
  /\ Running(r) /\ intended[t] = run[r].of /\ t \notin stored
  /\ stored' = stored \cup {t}
  /\ UNCHANGED <<tag, run, intended, public>>

Appear(t) ==
  /\ t \in stored \ public
  /\ public' = public \cup {t}
  /\ UNCHANGED <<tag, run, intended, stored>>

Succeed(r) ==
  /\ Running(r) /\ stored = Targets
  /\ \A t \in Targets : intended[t] = run[r].of
  /\ run' = [run EXCEPT ![r].status = "succeeded"]
  /\ UNCHANGED <<tag, intended, stored, public>>

Hosted ==
  \/ \E r \in Runs : Begin(r) \/ Fail(r) \/ Succeed(r)
                     \/ \E t \in Targets : Intend(r, t) \/ Store(r, t)
  \/ \E t \in Targets : Appear(t)

ByHand ==
  \/ \E s \in Shas : PushTag(s)
  \/ \E r \in Runs, q \in Qualifications : Request(r, q, None)

Asked == \E r \in Runs, q \in Qualifications, who \in Requesters : Request(r, q, who)

Next == Hosted \/ ByHand \/ Asked

Spec == Init /\ [][Next]_abstractVars
=============================================================================
