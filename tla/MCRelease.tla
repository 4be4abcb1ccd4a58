----------------------------- MODULE MCRelease -----------------------------
(* The publication of a version: two runs of two attempts each, from two   *)
(* qualifications, with two packages.  And the local command line that     *)
(* asks for it: one checkout with two output directories, beside somebody  *)
(* else, with one package.  A behaviour is one of what part names; the     *)
(* journal otherwise stays empty and the command line has no state.        *)
EXTENDS PublicationJournal, TLC

CONSTANTS Parts, MaxChecks,
          LocalTargets, LocalCheckouts, LocalAttempts, CheckoutOf   \* of the command line

VARIABLES part, pushed, promotion, intended, stored, public, sha, shared, local, command, passed,
          checks, receipt

ofCommands == <<pushed, promotion, intended, stored, public, sha, shared, local, command, passed,
                checks, receipt>>

Symmetric == Permutations(Runs) \cup Permutations(Shas)

OneCheckout == [d \in Qualifications |-> "checkout"]

Commands == INSTANCE ReleaseProcess WITH
  tag <- pushed, run <- promotion, Targets <- LocalTargets, Requesters <- LocalCheckouts,
  MaxAttempts <- LocalAttempts, Checkout <- CheckoutOf

ASSUME CommandsAssumption ==
  /\ CheckoutOf \in [Qualifications -> LocalCheckouts]
  /\ LocalAttempts \in Nat \ {0} /\ MaxChecks \in Nat
  /\ None \notin LocalCheckouts /\ None \notin Commands!Requests

-----------------------------------------------------------------------------
(* Commands may die at any step: no directory is locked out of its own     *)
(* release, a publication is asked for once, after its rehearsal, and a    *)
(* receipt is of public bytes.                                             *)
CommandsAreSafe == part = "commands" => Commands!CommandsInv

-----------------------------------------------------------------------------
NoCommands ==
  /\ pushed = 0 /\ promotion = 0 /\ intended = 0 /\ stored = 0 /\ public = 0 /\ sha = 0
  /\ shared = 0 /\ local = 0 /\ command = 0 /\ passed = 0 /\ checks = 0 /\ receipt = 0

MCInit ==
  /\ part \in Parts /\ Init
  /\ IF part = "commands" THEN Commands!Init ELSE NoCommands

MCNext ==
  \/ /\ part = "journal" /\ Next
     /\ UNCHANGED <<part, ofCommands>>
  \/ /\ part = "commands" /\ Commands!Next
     /\ UNCHANGED <<part, vars>>

MCSpec == MCInit /\ [][MCNext]_<<part, vars, ofCommands>>
=============================================================================
