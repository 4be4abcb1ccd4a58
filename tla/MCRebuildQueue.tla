--------------------------- MODULE MCRebuildQueue ---------------------------
(* Two sources whose callbacks all run in the lane's worker, or one source *)
(* and a second thread, which had found the future it submitted settled.   *)
EXTENDS RebuildQueue

CONSTANT LateSource   \* the source that is stale when a second thread reconciles

VARIABLE late         \* a second thread reconciles in this behaviour

mcVars == <<late, vars>>

MCInit == late \in BOOLEAN /\ Init

MCNext ==
  /\ Next /\ UNCHANGED late
  /\ IF late THEN stale' \subseteq {LateSource}
     ELSE \A t \in Threads \ {Worker} : pc'[t] = "idle"

MCSpec == MCInit /\ [][MCNext]_mcVars /\ Fairness
=============================================================================
