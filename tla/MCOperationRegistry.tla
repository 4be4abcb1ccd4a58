------------------------ MODULE MCOperationRegistry ------------------------
(* Two operations, one cancelling client and the shutdown.                 *)
EXTENDS OperationRegistry
=============================================================================
