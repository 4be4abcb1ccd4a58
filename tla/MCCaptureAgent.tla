--------------------------- MODULE MCCaptureAgent ---------------------------
(* The scheduler, the worker and a caller: with a failure and a change, or *)
(* without an end: with a request or a dead observer, or with new settings *)
(* and a change.                                                           *)
EXTENDS CaptureAgent

VARIABLE spends   \* what happens in this behaviour

mcVars == <<spends, vars>>

Unspent ==
  [changes |-> IF spends = "requests" THEN MaxChanges ELSE 0,
   failures |-> IF spends = "faults" THEN 0 ELSE MaxFailures,
   requests |-> IF spends = "requests" THEN 0 ELSE MaxRequests,
   settings |-> IF spends = "settings" THEN 0 ELSE MaxSettings]

MCInit ==
  /\ spends \in {"faults", "requests", "settings"}
  /\ Start /\ count = Unspent
  /\ spends = "requests" => interval

MCNext ==
  /\ Next /\ UNCHANGED spends
  /\ spends # "faults" => stopper' = "none"

MCSpec == MCInit /\ [][MCNext]_mcVars /\ Fairness

=============================================================================
