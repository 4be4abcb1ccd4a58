--------------------------- MODULE ReleaseProcess ---------------------------
(***************************************************************************)
(* A release as its operators drive it (scripts/release_process.py and     *)
(* process_*.py): commands that qualify a candidate, rehearse the          *)
(* promotion, push the tag, request the publication once and verify what   *)
(* the public sees, on top of what the hosted half promises (Publication,  *)
(* which PublicationJournal implements).                                   *)
(*                                                                         *)
(* A command holds the lock of its checkout.  What it requested is in two  *)
(* files: the checkout's shared intents, written first, and the progress   *)
(* of the output directory it was given.  It may end at any step; replies  *)
(* get lost, so a request is recorded before it is sent and never sent     *)
(* twice.  Somebody else may push a tag or dispatch a promotion by hand.   *)
(***************************************************************************)
EXTENDS Naturals, Sequences

CONSTANTS Runs, Requesters, Targets, Qualifications, Shas, MaxAttempts, None,
          MaxChecks    \* bound on successful public verifications

(* A checkout is a requester of runs; an output directory is named for the *)
(* qualification it may dispatch.                                          *)
CONSTANT Checkout      \* the clone each output directory is in

Checkouts == Requesters

VARIABLES tag, run, intended, stored, public   \* of Publication

VARIABLES sha,     \* candidate of each checkout
          shared,  \* intents of each checkout, and the first verification
          local,   \* requests each directory's process.json names
          command, \* the command that holds each checkout's lock
          passed,  \* qualifications and rehearsals that ended in success
          checks,  \* public verifications so far, the clock of receipts
          receipt  \* verification date in each checkout's receipt

Hosting == INSTANCE Publication

hostedVars == <<tag, run, intended, stored, public>>
localVars == <<sha, shared, local, command, passed, checks, receipt>>
vars == <<hostedVars, localVars>>

Names == {"qualification", "dry-run", "tag", "promotion"}
SharedNames == Names \ {"qualification"}

Requests == [of : Qualifications]
NoRequests == [n \in Names |-> None]

(* The tasks of a command; "public" and "receipt" end a promotion. *)
Tasks(mode) ==
  CASE mode = "prepare" -> <<"qualification">>
    [] mode = "dry-run" -> <<"dry-run">>
    [] mode = "promote" -> <<"dry-run", "tag", "promotion", "rehearsed", "public", "receipt">>
    [] mode = "observe" -> <<"promotion", "rehearsed", "public", "receipt">>

-----------------------------------------------------------------------------
(* The files of a checkout                                                 *)

Merged(c, d) ==
  [n \in Names |-> IF n \in SharedNames /\ shared[c].intents[n] # None
                   THEN shared[c].intents[n] ELSE local[d][n]]

(* A hint without its intent stops every command of the directory. *)
HintsMatch(d) ==
  \A n \in SharedNames : local[d][n] # None => shared[Checkout[d]].intents[n] = local[d][n]

(* The shared file is replaced before the local one; the command may end   *)
(* between the two.                                                        *)
MutSave(c, d, requests, next) ==
  /\ local' = [local EXCEPT ![d] = requests]
  /\ \/ /\ shared' = [shared EXCEPT ![c].intents =
                        [n \in SharedNames |-> IF requests[n] # None THEN requests[n] ELSE @[n]]]
        /\ command' = [command EXCEPT ![c] = next]
     \/ UNCHANGED shared /\ command' = [command EXCEPT ![c] = None]
Save(c, d, requests, next) ==
  /\ shared' = [shared EXCEPT ![c].intents =
                  [n \in SharedNames |-> IF requests[n] # None THEN requests[n] ELSE @[n]]]
  /\ \/ local' = [local EXCEPT ![d] = requests] /\ command' = [command EXCEPT ![c] = next]
     \/ UNCHANGED local /\ command' = [command EXCEPT ![c] = None]

-----------------------------------------------------------------------------
(* A command                                                               *)

Command(d, mode, of, allow) ==
  [dir |-> d, of |-> of, allow |-> allow, tasks |-> Tasks(mode), step |-> "look"]

(* What resume does with the requests it finds. *)
Resumed(d, requests) ==
  IF requests["promotion"] # None
  THEN Command(d, "observe", requests["promotion"].of, FALSE)
  ELSE IF requests["dry-run"] # None
       THEN Command(d, "dry-run", requests["dry-run"].of, FALSE)
       ELSE Command(d, "prepare", d, FALSE)

(* Only a qualification whose inspection found it successful is rehearsed. *)
Inspected(q) == [name |-> "qualification", by |-> q, of |-> q] \in passed

(* The modes of the command line, for the directory and the run they name; *)
(* a dry-run is a promotion that ends once it has rehearsed.               *)
Chosen(d, requests) ==
  {Resumed(d, requests)}
    \cup {Command(d, "promote", q, TRUE) : q \in {q \in Qualifications : Inspected(q)}}
    \cup (IF requests["promotion"] = None THEN {Command(d, "prepare", d, TRUE)} ELSE {})

Run(d) ==
  LET c == Checkout[d]
  IN  /\ command[c] = None /\ HintsMatch(d)
      /\ \E next \in Chosen(d, Merged(c, d)) : Save(c, d, Merged(c, d), next)
      /\ UNCHANGED <<hostedVars, sha, passed, checks, receipt>>

(* A command ends: done, pending, refused, interrupted or killed. *)
End(c) ==
  /\ command[c] # None
  /\ command' = [command EXCEPT ![c] = None]
  /\ UNCHANGED <<hostedVars, sha, shared, local, passed, checks, receipt>>

Doing(c, name, step) ==
  command[c] # None /\ Head(command[c].tasks) = name /\ command[c].step = step

Requested(c, name) == local[command[c].dir][name]

MutStepped(c, step) == [command[c] EXCEPT !.step = command[c].dir]
Stepped(c, step) == [command[c] EXCEPT !.step = step]
Advanced(c) ==
  IF Len(command[c].tasks) = 1 THEN None
  ELSE [command[c] EXCEPT !.tasks = Tail(@), !.step = "look"]

Goto(c, next) ==
  command' = [command EXCEPT ![c] = next] /\ UNCHANGED <<sha, shared, local, passed, checks, receipt>>

(* What the success of a requested run is known by. *)
Passed(c, name) ==
  [name |-> name, by |-> IF name = "qualification" THEN command[c].dir ELSE c,
   of |-> Requested(c, name).of]

(* A promotion GitHub lists for the candidate; it may list a new one late. *)
PublicationListed(c) ==
  \E r \in Runs : run[r] # None /\ run[r].sha = sha[c] /\ run[r].status # "queued"

Recorded(c, name) ==
  Save(c, command[c].dir, [local[command[c].dir] EXCEPT ![name] = [of |-> command[c].of]],
       Stepped(c, "send"))

MutDispatch(c, name) ==
  /\ Doing(c, name, "look")
  /\ \/ Requested(c, name) # None /\ Goto(c, Stepped(c, "observe"))
     \/ /\ Requested(c, name) = None /\ command[c].allow
        /\ name = "promotion" => ~PublicationListed(c)
        /\ Recorded(c, name)
        /\ UNCHANGED <<sha, passed, checks, receipt>>
  /\ UNCHANGED hostedVars
Dispatch(c, name) ==
  /\ Doing(c, name, "look")
  /\ \/ /\ Requested(c, name) # None /\ Requested(c, name).of = command[c].of
        /\ Goto(c, Stepped(c, "observe"))
     \/ /\ Requested(c, name) = None /\ command[c].allow
        /\ name = "promotion" => ~PublicationListed(c)
        /\ Recorded(c, name)
        /\ UNCHANGED <<sha, passed, checks, receipt>>
  /\ UNCHANGED hostedVars

(* The run is created unless the request is lost; the reply may be lost too. *)
Send(c, name) ==
  /\ Doing(c, name, "send")
  /\ command' = [command EXCEPT ![c] = Stepped(c, "observe")]
  /\ IF name = "promotion"
     THEN \E r \in Runs : Hosting!Request(r, command[c].of, c) /\ UNCHANGED passed
     ELSE passed' \in {passed, passed \cup {Passed(c, name)}} /\ UNCHANGED hostedVars
  /\ UNCHANGED <<sha, shared, local, checks, receipt>>

(* The reply never came: the run may exist, the command is over. *)
MutSendUnknown(c) ==
  /\ Doing(c, "promotion", "send")
  /\ \E r \in Runs : Hosting!Request(r, command[c].of, c)
  /\ command' = [command EXCEPT ![c] = None]
  /\ shared' = [shared EXCEPT ![c].intents["promotion"] = None]
  /\ local' = [local EXCEPT ![command[c].dir]["promotion"] = None]
  /\ UNCHANGED <<sha, passed, checks, receipt>>
SendUnknown(c) ==
  /\ Doing(c, "promotion", "send")
  /\ \E r \in Runs : Hosting!Request(r, command[c].of, c)
  /\ command' = [command EXCEPT ![c] = None]
  /\ UNCHANGED <<sha, shared, local, passed, checks, receipt>>

Observe(c, name) ==
  /\ Doing(c, name, "observe")
  /\ Passed(c, name) \in passed
  /\ Goto(c, Advanced(c))
  /\ UNCHANGED hostedVars

(* The first attempt of the run this checkout asked for. *)
ObservePromotion(c) ==
  /\ Doing(c, "promotion", "observe")
  /\ \E r \in Runs : /\ run[r] # None /\ run[r].request = c /\ run[r].of = command[c].of
                     /\ run[r].attempt = 1 /\ run[r].status = "succeeded"
  /\ Goto(c, Advanced(c))
  /\ UNCHANGED hostedVars

EnsureTag(c) ==
  /\ Doing(c, "tag", "look")
  /\ \/ tag = sha[c] /\ Goto(c, Advanced(c))
     \/ /\ tag = None /\ Requested(c, "tag") = None
        /\ Recorded(c, "tag")
        /\ UNCHANGED <<sha, passed, checks, receipt>>
  /\ UNCHANGED hostedVars

(* The push is refused when another commit has the tag; read back after it. *)
Push(c) ==
  /\ Doing(c, "tag", "send")
  /\ Hosting!PushTag(sha[c])
  /\ Goto(c, Stepped(c, "look"))

(* verify() goes through the rehearsal again, which must have been requested. *)
Rehearsed(c) ==
  /\ Doing(c, "rehearsed", "look")
  /\ Requested(c, "dry-run") # None /\ Requested(c, "dry-run").of = command[c].of
  /\ Passed(c, "dry-run") \in passed
  /\ Goto(c, Advanced(c))
  /\ UNCHANGED hostedVars

PublicBytes(q) ==
  public = Targets /\ \A t \in Targets : intended[t] = q

(* Only the first verification dates the receipt. *)
MutFirstVerified(c) == checks + 1
FirstVerified(c) == IF shared[c].verified = 0 THEN checks + 1 ELSE shared[c].verified

VerifyPublic(c) ==
  /\ Doing(c, "public", "look") /\ checks < MaxChecks
  /\ PublicBytes(command[c].of)
  /\ checks' = checks + 1
  /\ shared' = [shared EXCEPT ![c].verified = FirstVerified(c)]
  /\ command' = [command EXCEPT ![c] = Advanced(c)]
  /\ UNCHANGED <<hostedVars, sha, local, passed, receipt>>

(* A receipt that differs from the one to be written is preserved. *)
WriteReceipt(c) ==
  /\ Doing(c, "receipt", "look")
  /\ receipt[c] \in {0, shared[c].verified}
  /\ receipt' = [receipt EXCEPT ![c] = shared[c].verified]
  /\ command' = [command EXCEPT ![c] = None]
  /\ UNCHANGED <<hostedVars, sha, shared, local, passed, checks>>

-----------------------------------------------------------------------------
Init ==
  /\ Hosting!Init
  /\ sha \in [Checkouts -> Shas]
  /\ shared = [c \in Checkouts |-> [intents |-> [n \in SharedNames |-> None], verified |-> 0]]
  /\ local = [d \in Qualifications |-> NoRequests]
  /\ command = [c \in Checkouts |-> None]
  /\ passed = {}
  /\ checks = 0
  /\ receipt = [c \in Checkouts |-> 0]

Local ==
  \/ \E d \in Qualifications : Run(d)
  \/ \E c \in Checkouts :
       \/ End(c) \/ SendUnknown(c) \/ ObservePromotion(c) \/ EnsureTag(c) \/ Push(c)
       \/ Rehearsed(c) \/ VerifyPublic(c) \/ WriteReceipt(c)
       \/ \E name \in {"qualification", "dry-run", "promotion"} : Dispatch(c, name) \/ Send(c, name)
       \/ \E name \in {"qualification", "dry-run"} : Observe(c, name)

Next ==
  \/ Local
  \/ (Hosting!Hosted \/ Hosting!ByHand) /\ UNCHANGED localVars

Spec == Init /\ [][Next]_vars

-----------------------------------------------------------------------------
(* What is left of the tasks of a command. *)
Plans == {<<"qualification">>, <<"dry-run">>,
          <<"dry-run", "tag", "promotion", "rehearsed", "public", "receipt">>,
          <<"tag", "promotion", "rehearsed", "public", "receipt">>,
          <<"promotion", "rehearsed", "public", "receipt">>,
          <<"rehearsed", "public", "receipt">>, <<"public", "receipt">>, <<"receipt">>}

CommandRecord ==
  [dir : Qualifications, of : Qualifications, allow : BOOLEAN, tasks : Plans,
   step : {"look", "send", "observe"}]

TypeOK ==
  /\ tag \in Shas \cup {None}
  /\ run \in [Runs -> Hosting!RunRecord \cup {None}]
  /\ intended \in [Targets -> Qualifications \cup {None}]
  /\ public \subseteq stored /\ stored \subseteq Targets
  /\ sha \in [Checkouts -> Shas]
  /\ shared \in [Checkouts -> [intents : [SharedNames -> Requests \cup {None}], verified : Nat]]
  /\ local \in [Qualifications -> [Names -> Requests \cup {None}]]
  /\ command \in [Checkouts -> CommandRecord \cup {None}]
  /\ passed \subseteq [name : {"qualification", "dry-run"}, by : Qualifications \cup Checkouts,
                       of : Qualifications]
  /\ checks \in 0..MaxChecks
  /\ receipt \in [Checkouts -> Nat]

(* However commands die, no directory is locked out of its own release.    *)
NeverLockedOut == \A d \in Qualifications : HintsMatch(d)

(* A checkout's commands ask for the publication at most once, through all *)
(* its directories, deaths and lost replies.                               *)
AskedOnce ==
  \A r, s \in Runs : run[r] # None /\ run[s] # None /\ run[r].request # None
                       /\ run[r].request = run[s].request => r = s

(* What a checkout asked to publish it rehearsed before, with success, from *)
(* the very qualification, at the commit of the tag.                       *)
PromotionIsRehearsed ==
  \A r \in Runs : run[r] # None =>
    LET c == run[r].request
    IN  c # None => /\ run[r].sha = sha[c]
                    /\ Inspected(run[r].of)
                    /\ [name |-> "dry-run", by |-> c, of |-> run[r].of] \in passed

(* A receipt names bytes everybody can download, and keeps its date.       *)
ReceiptIsTrue ==
  \A c \in Checkouts : receipt[c] # 0 =>
    /\ receipt[c] = shared[c].verified
    /\ tag = sha[c]
    /\ public = Targets
    /\ \A t \in Targets : intended[t] = shared[c].intents["promotion"].of

(* What a command relies on while it holds the lock of its checkout.  Its  *)
(* two files agree.                                                        *)
FilesAgree ==
  \A c \in Checkouts : command[c] # None =>
    /\ Checkout[command[c].dir] = c
    /\ \A n \in SharedNames : local[command[c].dir][n] = shared[c].intents[n]

(* It sends and observes what it recorded; a publication is sent only once *)
(* the rehearsal passed and the tag stands, and before anybody in the      *)
(* checkout asked.                                                         *)
AskedBy(c) == {r \in Runs : run[r] # None /\ run[r].request = c}
RehearsedFor(c, q) == Inspected(q) /\ [name |-> "dry-run", by |-> c, of |-> q] \in passed

InOrder(c, k) ==
  LET next == Head(k.tasks)
      Kept(name) == local[k.dir][name] # None /\ local[k.dir][name].of = k.of
  IN  /\ k.step # "look" => next \in Names /\ Kept(next)
      /\ k.allow /\ next # "qualification" => Inspected(k.of)
      /\ k.allow /\ next \in {"tag", "promotion"} => RehearsedFor(c, k.of)
      /\ k.allow /\ next = "promotion" => tag = sha[c]
      /\ next = "promotion" /\ k.step = "send" => k.allow /\ AskedBy(c) = {}
      /\ next \in {"rehearsed", "public", "receipt"} => Kept("promotion") /\ tag = sha[c]
      /\ next = "receipt" => shared[c].verified # 0
CommandKeepsOrder == \A c \in Checkouts : command[c] # None => InOrder(c, command[c])

(* A run was asked for by an intent, and is of the commit of the tag.      *)
RunsAreIntended ==
  \A r \in Runs : run[r] # None =>
    /\ run[r].sha = tag
    /\ run[r].request # None => shared[run[r].request].intents["promotion"] # None

(* What was verified once stays public.                                    *)
VerifiedIsPublic ==
  \A c \in Checkouts : shared[c].verified # 0 =>
    /\ tag = sha[c] /\ public = Targets
    /\ shared[c].intents["promotion"] # None
    /\ \A t \in Targets : intended[t] = shared[c].intents["promotion"].of

CommandsInv ==
  /\ TypeOK /\ FilesAgree /\ CommandKeepsOrder /\ RunsAreIntended /\ VerifiedIsPublic
  /\ NeverLockedOut /\ AskedOnce /\ PromotionIsRehearsed /\ ReceiptIsTrue
=============================================================================
