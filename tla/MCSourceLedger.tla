--------------------------- MODULE MCSourceLedger ---------------------------
(* A file whose only row is written in two pieces, and another one of two  *)
(* rows, as long as the first.                                             *)
EXTENDS SourceLedger
MCTexts == {<<"half">>, <<"half", "row">>, <<"head", "rest">>}
=============================================================================
