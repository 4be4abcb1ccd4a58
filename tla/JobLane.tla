------------------------------ MODULE JobLane ------------------------------
(***************************************************************************)
(* What the agent's single heavy-I/O lane promises to the code that uses   *)
(* it, without the queue, the sequence numbers or the promotion that       *)
(* HeavyIOLane keeps to deliver it.                                        *)
(*                                                                         *)
(* A job is one concurrent.futures.Future.  Submitting under a key whose   *)
(* job is still live returns that job instead of a new one; at most one    *)
(* job runs at a time; a job that was cancelled before it started never    *)
(* runs; nothing is accepted after the lane was closed, and what was       *)
(* accepted before is still settled.                                       *)
(***************************************************************************)
CONSTANTS Keys,   \* coalescing keys: "capture", "baseline-rebuild", ...
          Jobs,   \* identities of the Future objects
          None

VARIABLES state,  \* [Jobs -> state of the Future]
          owner,  \* [Keys -> the job registered under the key, or None]
          closed  \* no further submission is accepted

laneVars == <<state, owner, closed>>

JobStates == {"unused", "pending", "running", "cancelled", "finished"}

Live(j) == state[j] \in {"pending", "running"}

LaneTypeOK ==
  /\ state \in [Jobs -> JobStates]
  /\ owner \in [Keys -> Jobs \cup {None}]
  /\ closed \in BOOLEAN

LaneInit ==
  /\ state = [j \in Jobs |-> "unused"]
  /\ owner = [k \in Keys |-> None]
  /\ closed = FALSE

(* The job a submission under key k would be coalesced into.               *)
HasLiveOwner(k) == owner[k] # None /\ Live(owner[k])

(* A submission that is accepted as the new job j.                         *)
Accept(k, j) ==
  /\ ~closed
  /\ ~HasLiveOwner(k)
  /\ state[j] = "unused"
  /\ state' = [state EXCEPT ![j] = "pending"]
  /\ owner' = [owner EXCEPT ![k] = j]
  /\ UNCHANGED closed

Start(j) ==
  /\ state[j] = "pending"
  /\ \A other \in Jobs : state[other] # "running"
  /\ state' = [state EXCEPT ![j] = "running"]
  /\ UNCHANGED <<owner, closed>>

Finish(j) ==
  /\ state[j] = "running"
  /\ state' = [state EXCEPT ![j] = "finished"]
  /\ UNCHANGED <<owner, closed>>

Cancel(j) ==
  /\ state[j] = "pending"
  /\ state' = [state EXCEPT ![j] = "cancelled"]
  /\ UNCHANGED <<owner, closed>>

(* The registration of a settled job is dropped some time after it settled *)
Retire(k) ==
  /\ owner[k] # None
  /\ ~Live(owner[k])
  /\ owner' = [owner EXCEPT ![k] = None]
  /\ UNCHANGED <<state, closed>>

Close ==
  /\ ~closed
  /\ closed' = TRUE
  /\ UNCHANGED <<state, owner>>

LaneNext ==
  \/ \E k \in Keys, j \in Jobs : Accept(k, j)
  \/ \E j \in Jobs : Start(j)
  \/ \E j \in Jobs : Finish(j)
  \/ \E j \in Jobs : Cancel(j)
  \/ \E k \in Keys : Retire(k)
  \/ Close

LaneSpec == LaneInit /\ [][LaneNext]_laneVars
=============================================================================
