------------------------ MODULE MCStorageMaintenance ------------------------
(* A handler and the lane work on the ledger; the process may die once.    *)
EXTENDS StorageMaintenance
=============================================================================
