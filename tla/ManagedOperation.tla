-------------------------- MODULE ManagedOperation --------------------------
(***************************************************************************)
(* What a client that polls operation_status() may rely on, for every      *)
(* managed operation by itself: it is queued, may run, and settles once; a *)
(* settled operation never changes again; and one whose cancellation was   *)
(* accepted settles as cancelled, never with a result or a failure.        *)
(***************************************************************************)
CONSTANT Operations

VARIABLES state,     \* ManagedOperation.state, "none" before start()
          requested  \* a cancel() found the operation unsettled

operationVars == <<state, requested>>

Settled(o) == state[o] \in {"completed", "failed", "cancelled"}

OperationInit ==
  /\ state = [o \in Operations |-> "none"]
  /\ requested = [o \in Operations |-> FALSE]

Register(o) ==
  /\ state[o] = "none"
  /\ state' = [state EXCEPT ![o] = "queued"]
  /\ UNCHANGED requested

Begin(o) ==
  /\ state[o] = "queued"
  /\ state' = [state EXCEPT ![o] = "running"]
  /\ UNCHANGED requested

RequestCancel(o) ==
  /\ state[o] \in {"queued", "running"}
  /\ requested' = [requested EXCEPT ![o] = TRUE]
  /\ UNCHANGED state

SettleCancelled(o) ==
  /\ state[o] \in {"queued", "running"}
  /\ requested[o]
  /\ state' = [state EXCEPT ![o] = "cancelled"]
  /\ UNCHANGED requested

SettleFinished(o) ==
  /\ state[o] = "running"
  /\ ~requested[o]
  /\ state' \in {[state EXCEPT ![o] = s] : s \in {"completed", "failed"}}
  /\ UNCHANGED requested

OperationStep(o) ==
  \/ Register(o)
  \/ Begin(o)
  \/ RequestCancel(o)
  \/ SettleCancelled(o)
  \/ SettleFinished(o)

OperationNext == \E o \in Operations : OperationStep(o)

OperationSpec == OperationInit /\ [][OperationNext]_operationVars
=============================================================================
