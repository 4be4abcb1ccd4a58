---------------------------- MODULE OwnedProcess ----------------------------
(***************************************************************************)
(* A command that is run with its whole tree of processes owned:           *)
(* process_tree.py, windows_job.py and windows_job_controller.py.          *)
(*                                                                         *)
(* On POSIX the command leads a session of its own and is killed with its  *)
(* group.  On Windows a controller is started first, it waits at a gate    *)
(* (its standard input), is put into a job object, and starts the command  *)
(* when the gate is opened; closing the job's handle kills what is in it.  *)
(* A call that times out or is interrupted kills the tree, drains the      *)
(* output and reaps the child, each for a bounded time.  Any system call   *)
(* may fail, and the deadline may pass before any stage.                   *)
(*                                                                         *)
(* The direct child is the command, on Windows the controller; a helper    *)
(* is whatever the command starts: it may give up the output and, on       *)
(* POSIX, leave the group.                                                 *)
(***************************************************************************)
EXTENDS Naturals, FiniteSets

VARIABLES
  platform, \* "posix" or "nt"
  proc,     \* the processes: whether they run, are owned, hold the output
  gate,     \* the controller's input: "shut", "open" or "closed"
  job,      \* the job's handle: "none", "open" or "closed"
  pc,       \* where the caller is
  inJob,    \* assignment to the job is known to have been made
  failed,   \* a step of the cleanup failed
  cause     \* what the call ends with unless the cleanup fails

vars == <<platform, proc, gate, job, pc, inJob, failed, cause>>

Processes == {"direct", "target", "helper"}
Absent == [state |-> "absent", owned |-> FALSE, output |-> FALSE]
Alive(p) == proc[p].state = "alive"
Owned(p) == Alive(p) /\ proc[p].owned

Init ==
  /\ platform \in {"posix", "nt"}
  /\ proc = [p \in Processes |-> Absent]
  /\ gate = "shut" /\ job = "none"
  /\ pc = "launch"
  /\ inJob = FALSE /\ failed = FALSE /\ cause = "none"

(***************************** the processes *******************************)

Killed(ps) == [p \in Processes |->
                IF p \in ps /\ Alive(p) THEN [proc[p] EXCEPT !.state = "dead"]
                ELSE proc[p]]
Tree == {p \in Processes : proc[p].owned}

\* Closing the last handle of a job kills what is in it.
ClosedJob(ok) == /\ job' = IF ok THEN "closed" ELSE job
                 /\ proc' = IF ok THEN Killed(Tree) ELSE proc

World == UNCHANGED <<platform, gate, job, pc, inJob, failed, cause>>

ControllerStarts ==
  /\ platform = "nt" /\ Alive("direct") /\ gate = "open"
  /\ proc["target"] = Absent
  /\ proc' = [proc EXCEPT !["target"] = proc["direct"]]
  /\ World

Command == IF platform = "nt" THEN "target" ELSE "direct"

StartHelper ==
  /\ Alive(Command) /\ proc["helper"] = Absent
  /\ \E output \in BOOLEAN :
     \E owned \in {proc[Command].owned} \cup (IF platform = "posix" THEN {FALSE} ELSE {}) :
       proc' = [proc EXCEPT !["helper"] =
                  [state |-> "alive", owned |-> owned, output |-> output]]
  /\ World

\* The controller ends with the command, or when it cannot start it, or
\* when its gate is closed.
Exit(p) ==
  /\ Alive(p)
  /\ platform = "nt" /\ p = "direct" =>
       gate # "shut" /\ ~Alive("target")
  /\ proc' = Killed({p})
  /\ World

(******************************* the caller ********************************)

EndWith(c) == pc' = "done" /\ cause' = c

\* Popen with a session of its own, or the job and the waiting controller.
Launch ==
  /\ pc = "launch"
  /\ \/ EndWith("launch") /\ UNCHANGED <<proc, job>>
     \/ /\ platform = "posix"
        /\ proc' = [proc EXCEPT !["direct"] =
                      [state |-> "alive", owned |-> TRUE, output |-> TRUE]]
        /\ pc' = "wait"
        /\ UNCHANGED <<cause, job>>
     \/ /\ platform = "nt"
        /\ proc' = [proc EXCEPT !["direct"] =
                      [state |-> "alive", owned |-> FALSE, output |-> TRUE]]
        /\ job' = "open" /\ pc' = "assign"
        /\ UNCHANGED cause
  /\ UNCHANGED <<platform, gate, inJob, failed>>

MutAssign ==
  /\ pc = "assign"
  /\ \E assigned, reported \in BOOLEAN :
       /\ reported => assigned
       /\ proc' = IF assigned /\ Alive("direct")
                  THEN [proc EXCEPT !["direct"].owned = TRUE] ELSE proc
       /\ inJob' = reported
       /\ pc' = "release"
       /\ cause' = IF reported THEN cause ELSE "launch"
  /\ UNCHANGED <<platform, gate, job, failed>>

\* Assigned, and the gate opened only after it.
Assign ==
  /\ pc = "assign"
  /\ \E assigned, reported \in BOOLEAN :
       /\ reported => assigned
       /\ proc' = IF assigned /\ Alive("direct")
                  THEN [proc EXCEPT !["direct"].owned = TRUE] ELSE proc
       /\ inJob' = reported
       /\ pc' = IF reported THEN "release" ELSE "abort"
       /\ cause' = IF reported THEN cause ELSE "launch"
  /\ UNCHANGED <<platform, gate, job, failed>>

Release ==
  /\ pc = "release"
  /\ \/ gate' = "open" /\ pc' = "wait" /\ UNCHANGED cause
     \/ gate' \in {"shut", "open"} /\ pc' = "abort" /\ cause' = "launch"
  /\ UNCHANGED <<platform, proc, job, inJob, failed>>

\* Before the tree: the gate is closed and a child outside the job killed.
Abort ==
  /\ pc = "abort"
  /\ \E closed, killed \in BOOLEAN :
       /\ gate' = IF closed /\ gate = "shut" THEN "closed" ELSE gate
       /\ proc' = IF killed /\ ~inJob THEN Killed({"direct"}) ELSE proc
       /\ failed' = (~closed \/ (~inJob /\ ~killed))
  /\ pc' = "terminate"
  /\ UNCHANGED <<platform, job, inJob, cause>>

Silent == /\ \A p \in Processes : Alive(p) => ~proc[p].output
          /\ ~Alive("direct")

\* communicate returns when the output is closed and the child has exited.
Complete ==
  /\ pc = "wait" /\ Silent
  /\ IF platform = "nt"
     THEN \E ok \in BOOLEAN : ClosedJob(ok) /\ failed' = ~ok
     ELSE UNCHANGED <<job, proc, failed>>
  /\ EndWith("result")
  /\ UNCHANGED <<platform, gate, inJob>>

\* The time is up, or the caller is interrupted.
Expire == /\ pc = "wait" /\ pc' = "terminate" /\ cause' = "cause"
          /\ UNCHANGED <<platform, proc, gate, job, inJob, failed>>

\* The group or the job is killed; when that fails, the child alone.
Terminate ==
  /\ pc = "terminate"
  /\ \E killed, closed, direct \in BOOLEAN :
       LET tree == IF (platform = "posix" /\ killed) \/
                      (platform = "nt" /\ (killed \/ closed)) THEN Tree ELSE {}
           fine == killed /\ (platform = "nt" => closed)
           child == IF ~fine /\ direct THEN {"direct"} ELSE {}
       IN  /\ proc' = Killed(tree \cup child)
           /\ job' = IF platform = "nt" /\ closed THEN "closed" ELSE job
           /\ failed' = (failed \/ ~fine)
  /\ pc' = "drain"
  /\ UNCHANGED <<platform, gate, inJob, cause>>

MutDrain ==
  /\ pc = "drain"
  /\ Silent /\ EndWith(cause) /\ UNCHANGED <<proc, failed>>
  /\ UNCHANGED <<platform, gate, job, inJob>>

\* The output is read to its end for a bounded time.
Drain ==
  /\ pc = "drain"
  /\ \/ Silent /\ EndWith(cause) /\ UNCHANGED <<proc, failed>>
     \/ \E expired, direct, broken \in BOOLEAN :
          /\ proc' = IF direct THEN Killed({"direct"}) ELSE proc
          /\ failed' = (failed \/ expired \/ ~direct \/ broken)
          /\ pc' = IF expired THEN "reap" ELSE "again"
          /\ UNCHANGED cause
  /\ UNCHANGED <<platform, gate, job, inJob>>

MutAgain ==
  /\ pc = "again"
  /\ \/ Silent /\ EndWith(cause) /\ UNCHANGED failed
     \/ pc' = "reap" /\ UNCHANGED <<failed, cause>>
  /\ UNCHANGED <<platform, proc, gate, job, inJob>>

Again ==
  /\ pc = "again"
  /\ \/ Silent /\ EndWith(cause) /\ UNCHANGED failed
     \/ failed' = TRUE /\ pc' = "reap" /\ UNCHANGED cause
  /\ UNCHANGED <<platform, proc, gate, job, inJob>>

Reap == /\ pc = "reap" /\ EndWith(cause)
        /\ \/ ~Alive("direct") /\ UNCHANGED failed
           \/ failed' = TRUE
        /\ UNCHANGED <<platform, proc, gate, job, inJob>>

Caller == Launch \/ Assign \/ Release \/ Abort \/ Complete \/ Expire
          \/ Terminate \/ Drain \/ Again \/ Reap
Next == Caller \/ ControllerStarts \/ StartHelper \/ \E p \in Processes : Exit(p)

\* The caller's thread runs and its waits have time limits; no fairness is
\* asked of the processes.
Spec == Init /\ [][Next]_vars /\ WF_vars(Caller)

(****************************** properties *********************************)

TypeOK ==
  /\ platform \in {"posix", "nt"}
  /\ proc \in [Processes -> [state : {"absent", "alive", "dead"},
                             owned : BOOLEAN, output : BOOLEAN]]
  /\ gate \in {"shut", "open", "closed"} /\ job \in {"none", "open", "closed"}
  /\ pc \in {"launch", "assign", "release", "abort", "wait", "terminate", "drain", "again",
             "reap", "done"}
  /\ inJob \in BOOLEAN /\ failed \in BOOLEAN
  /\ cause \in {"none", "launch", "result", "cause"}

\* A call that ends with no complaint of its cleanup leaves no process of
\* the tree: none of the group or the job, none that holds the output.
NothingSurvives ==
  pc = "done" /\ ~failed /\ (cause = "result" => platform = "nt") =>
    \A p \in Processes : Alive(p) => ~proc[p].owned /\ ~proc[p].output

\* On Windows the command and what it starts never run outside the job.
CommandIsOwned ==
  platform = "nt" => \A p \in {"target", "helper"} : Alive(p) => proc[p].owned

\* What the caller relies on along the way.  A POSIX command leads its own
\* group; a gate is opened only by who knows the controller to be in the job.
LaunchIsOrdered ==
  /\ pc = "launch" => \A p \in Processes : proc[p] = Absent
  /\ pc \in {"launch", "assign"} => gate = "shut" /\ ~inJob
  /\ platform = "posix" =>
       /\ proc["target"] = Absent
       /\ Alive("direct") => proc["direct"].owned
       /\ pc \notin {"assign", "release", "abort"}
  /\ platform = "nt" =>
       /\ gate = "open" \/ pc \in {"release", "wait"} => inJob
       /\ inJob /\ Alive("direct") => proc["direct"].owned

\* A tree is killed whole, or somebody complains: nothing can be started
\* any more once the output is drained.
Quiet == ~Alive("direct") /\ ~Alive("target") /\ \A p \in Processes : ~Owned(p)
CleanupIsWhole ==
  /\ pc = "terminate" /\ ~failed /\ platform = "nt" => inJob \/ ~Alive("direct")
  /\ pc \in {"drain", "again"} /\ ~failed => Quiet
  /\ pc = "reap" => failed
  /\ pc = "done" /\ ~failed /\ (cause = "result" => platform = "nt") => Quiet

OwnedInv == TypeOK /\ LaunchIsOrdered /\ CommandIsOwned /\ CleanupIsWhole /\ NothingSurvives

\* A call ends whatever its processes do.
CallEnds == <>(pc = "done")
=============================================================================
