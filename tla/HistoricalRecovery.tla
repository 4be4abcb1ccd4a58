------------------------- MODULE HistoricalRecovery -------------------------
(***************************************************************************)
(* What a capture does after its own reading: four slots of historical     *)
(* recovery.  An image slice reads one line of the rollout that owns a     *)
(* generated image; a speed slice reads one line of a trusted generation   *)
(* whose responses have no timing yet.  Both resume from a checkpoint and  *)
(* commit one slice at a time; Codex writes, moves and deletes the same    *)
(* files meanwhile, and the agent may die between any two steps.           *)
(*                                                                         *)
(* A line stands for a parser slice and holds one image operation and one  *)
(* timed response.  Service orders are kept as their relative order.       *)
(***************************************************************************)
EXTENDS Naturals, FiniteSets

CONSTANTS Tasks,           \* tasks, which name their rollout and their images
          Untimed,         \* tasks whose responses have no usable timing
          CandidateLimit,  \* candidates one image slice looks at
          MaxLines, MaxGens, MaxChanges   \* bounds of what Codex does

VARIABLES rollout,   \* the file of each task: content (gen, lines, torn) and place
          artifact,  \* its newest generated image: when, and whether it can be read
          changes,   \* what Codex has done, up to MaxChanges
          captured,  \* the trusted generation of each task and where it was read
          ops,       \* image operations of the ledger: task, content, line
          facts,     \* timings of the ledger: task, generation, content, line
          image,     \* image_backfill_state_v1
          speed,     \* the rows of speed_recovery for the trusted generations
          job        \* the capture in progress

vars == <<rollout, artifact, changes, captured, ops, facts, image, speed, job>>
files == <<rollout, artifact, changes>>
ledger == <<captured, ops, facts, image, speed>>

Places == {"sessions", "archived"}
NoCheckpoint == [gen |-> 0, lines |-> 0]
NoRow == [status |-> "none", target |-> 0, offset |-> 0, rank |-> 0]
NoParse == [task |-> {}, gen |-> 0, line |-> 0]
Idle == [pc |-> "idle", slot |-> 0, tried |-> 0, known |-> [t \in Tasks |-> 0], task |-> {}, look |-> {},
         state |-> {}, parsed |-> NoParse, pending |-> FALSE, reason |-> "none"]

MaxOf(S) == CHOOSE x \in S : \A y \in S : y <= x

-----------------------------------------------------------------------------
(* Codex. *)
Change(t) == changes < MaxChanges /\ changes' = changes + 1
Codex == UNCHANGED <<ledger, job>>

Append1(t) ==
  /\ Change(t) /\ rollout[t].at # "gone" /\ rollout[t].lines < MaxLines
  /\ \E torn \in BOOLEAN :   \* a line half written, or the rest of it
       /\ torn => ~rollout[t].torn
       /\ rollout' = [rollout EXCEPT ![t].torn = torn,
                                     ![t].lines = IF torn THEN @ ELSE @ + 1]
  /\ UNCHANGED artifact /\ Codex

Rewrite(t) ==
  /\ Change(t) /\ rollout[t].at # "gone" /\ rollout[t].gen < MaxGens
  /\ rollout' = [rollout EXCEPT ![t].gen = @ + 1, ![t].torn = FALSE]
  /\ UNCHANGED artifact /\ Codex

Move(t) ==
  /\ Change(t)
  /\ \E place \in {"gone"} \cup (Places \ {rollout[t].at}) :
       /\ rollout[t].at # "gone"
       /\ rollout' = [rollout EXCEPT ![t].at = place]
  /\ UNCHANGED artifact /\ Codex

MakeImage(t) ==
  /\ Change(t)
  /\ \E valid \in BOOLEAN :
       artifact' = [artifact EXCEPT ![t] =
                      [time |-> IF @.time = 0 \/ @.valid
                                  THEN 1 + MaxOf({artifact[u].time : u \in Tasks}) ELSE @.time,
                       valid |-> valid \/ @.valid]]
  /\ UNCHANGED rollout /\ Codex

RemoveImages(t) ==
  /\ Change(t) /\ artifact[t].time > 0
  /\ artifact' = [artifact EXCEPT ![t] = [time |-> 0, valid |-> FALSE]]
  /\ UNCHANGED rollout /\ Codex

-----------------------------------------------------------------------------
(* The capture's own reading, one line of each task, and its commit. *)
Present(t) == rollout[t].at # "gone"
Replaced(t) == Present(t) /\ rollout[t].gen # captured[t].gen
ReadTo(t) == IF Replaced(t) THEN 1 ELSE MaxOf({captured[t].size} \cup
               {n \in {captured[t].size + 1} : n <= rollout[t].lines})
NewLines(t) == (IF Replaced(t) THEN 1 ELSE captured[t].size + 1) .. ReadTo(t)

CaptureOnce ==
  /\ job.pc = "idle"
  /\ captured' = [t \in Tasks |-> IF Present(t)
                    THEN [gen |-> rollout[t].gen, size |-> ReadTo(t), at |-> rollout[t].at]
                    ELSE [captured[t] EXCEPT !.at = "gone"]]
  /\ LET kept(set) == {x \in set : ~Replaced(x[1])} IN
     /\ ops' = kept(ops) \cup UNION {{<<t, rollout[t].gen, l>> : l \in NewLines(t)} :
                                      t \in {u \in Tasks : Present(u)}}
     /\ facts' = kept(facts) \cup UNION {{<<t, rollout[t].gen, rollout[t].gen, l>> :
                                      l \in NewLines(t)} : t \in {u \in Tasks : Present(u)}}
  /\ speed' = [t \in Tasks |-> IF Replaced(t) THEN NoRow ELSE speed[t]]
  /\ job' = [Idle EXCEPT !.pc = "image", !.slot = 1]
  /\ UNCHANGED <<files, image>>

(* run_historical_recovery: both domains get a slot, the other two go to   *)
(* the images while any is pending.                                        *)
NextSlot(pending) ==
  IF job.slot = 4 THEN Idle
  ELSE [Idle EXCEPT !.slot = job.slot + 1, !.pending = pending,
                    !.pc = IF job.slot >= 2 /\ pending THEN "image" ELSE "speed"]

-----------------------------------------------------------------------------
(* An image slice. *)
Settled(s) == s.completed \cup {t \in Tasks : s.unavailable[t] # "none"}
Pending(s) == {t \in Tasks : job.known[t] > 0} \ Settled(s)

(* Service orders, by their relative order; 0 is a task not yet served.     *)
Ranked(served) ==
  [t \in Tasks |-> Cardinality({served[u] : u \in
     {v \in Tasks : 0 < served[v] /\ served[v] <= served[t]}})]

ImageLoad ==
  /\ job.pc = "image"
  /\ LET known == {t \in Tasks : artifact[t].time > 0}
         drop(f, none) == [t \in Tasks |-> IF t \in known THEN f[t] ELSE none]
     IN job' = [job EXCEPT !.pc = "pick", !.state =
          [completed |-> image.completed \cap known,
           unavailable |-> drop(image.unavailable, "none"),
           checkpoint |-> drop(image.checkpoint, NoCheckpoint),
           served |-> Ranked([t \in Tasks |-> IF t \in known \ Settled(image)
                                             THEN image.served[t] ELSE 0])],
          !.known = [t \in Tasks |-> artifact[t].time]]
  /\ UNCHANGED <<files, ledger>>

(* _select_next_task: the newest unserved owner, else the one served least *)
(* recently.                                                               *)
IsNext(t, s) ==
  /\ t \in Pending(s)
  /\ \A u \in Pending(s) :
       \/ s.served[t] < s.served[u]
       \/ s.served[t] = s.served[u] /\ job.known[u] <= job.known[t]

Skip(t, reason) ==
  job' = [job EXCEPT !.pc = "pick", !.tried = @ + 1, !.look = {},
                     !.state.unavailable[t] = reason]

ImagePick ==
  /\ job.pc = "pick"
  /\ IF Pending(job.state) = {} \/ job.tried = CandidateLimit
       THEN job' = [job EXCEPT !.pc = "imageCommit"]
       ELSE \E t \in Tasks :
              /\ IsNext(t, job.state)
              /\ IF ~artifact[t].valid THEN Skip(t, "invalid_artifact")
                 ELSE job' = [job EXCEPT !.pc = "glob", !.task = {t},
                                         !.look = {rollout[t].at} \cap {"sessions"}]
  /\ UNCHANGED <<files, ledger>>

ImageGlob ==
  /\ job.pc = "glob"
  /\ \E t \in job.task : LET found == job.look \cup ({rollout[t].at} \cap {"archived"}) IN
       IF Cardinality(found) # 1 THEN Skip(t, IF found = {} THEN "missing" ELSE "ambiguous")
       ELSE job' = [job EXCEPT !.pc = "read", !.look = found]
  /\ UNCHANGED <<files, ledger>>

(* Mutant: the owner that was served keeps its place in the rotation. *)
MutAfterService(served, t) ==
  Ranked([served EXCEPT ![t] = IF @ > 0 THEN @ ELSE 1 + MaxOf({served[u] : u \in Tasks})])
AfterService(served, t) ==
  Ranked([served EXCEPT ![t] = 1 + MaxOf({served[u] : u \in Tasks})])

ImageRead ==
  /\ job.pc = "read"
  /\ \E t \in job.task :
     LET from == job.state.checkpoint[t]
         line == from.lines + 1
         parsed == IF line <= rollout[t].lines
                     THEN [task |-> {t}, gen |-> rollout[t].gen, line |-> line] ELSE NoParse
         whole == line >= rollout[t].lines /\ ~rollout[t].torn
     IN
     IF rollout[t].at \notin job.look \/ from.gen \notin {0, rollout[t].gen}
       THEN job' = [job EXCEPT !.pc = "imageCommit", !.state.unavailable[t] = "error",
                               !.state.checkpoint[t] = NoCheckpoint]
       ELSE job' = [job EXCEPT !.pc = "imageCommit", !.parsed = parsed,
              !.state.completed = IF whole THEN @ \cup {t} ELSE @,
              !.state.checkpoint[t] = IF whole THEN NoCheckpoint ELSE
                 [gen |-> rollout[t].gen, lines |-> IF parsed = NoParse THEN from.lines ELSE line],
              !.state.served = IF whole THEN Ranked([@ EXCEPT ![t] = 0]) ELSE AfterService(@, t)]
  /\ UNCHANGED <<files, ledger>>

(* Mutant: the state is saved by itself, the operations after it. *)
MutImageCommit ==
  /\ job.pc = "imageCommit"
  /\ image' = job.state
  /\ ops' = IF image = job.state
              THEN ops \cup {<<t, job.parsed.gen, job.parsed.line>> : t \in job.parsed.task} ELSE ops
  /\ job' = IF image = job.state THEN NextSlot(Pending(job.state) # {}) ELSE job
  /\ UNCHANGED <<files, captured, facts, speed>>

(* The operations and the new state are one transaction. *)
ImageCommit ==
  /\ job.pc = "imageCommit"
  /\ ops' = ops \cup {<<t, job.parsed.gen, job.parsed.line>> : t \in job.parsed.task}
  /\ image' = job.state
  /\ job' = NextSlot(Pending(job.state) # {})
  /\ UNCHANGED <<files, captured, facts, speed>>

-----------------------------------------------------------------------------
(* A speed slice. *)
Complete(t) == IF t \in Untimed THEN "no_usable_timing" ELSE "complete"
LastRank == MaxOf({speed[t].rank : t \in Tasks})
Compress(rows) ==
  [t \in Tasks |-> [rows[t] EXCEPT !.rank = Cardinality({rows[u].rank : u \in
     {v \in Tasks : rows[v].rank < rows[t].rank}})]]

Inventory ==
  [t \in Tasks |-> IF speed[t] # NoRow \/ captured[t].size = 0 THEN speed[t] ELSE
     [status |-> IF Cardinality({f \in facts : f[1] = t}) >= captured[t].size
                   THEN Complete(t) ELSE "pending",
      target |-> captured[t].size, offset |-> 0, rank |-> LastRank]]

(* inventory, and the row to work on: served least recently, recent first. *)
SpeedTake ==
  /\ job.pc = "speed"
  /\ speed' = Compress(Inventory)
  /\ LET open == {t \in Tasks : Inventory[t].status = "pending"} IN
     IF open = {} THEN job' = NextSlot(job.pending)
     ELSE \E t \in open :
            /\ \A u \in open : Inventory[t].rank <= Inventory[u].rank
            /\ job' = [job EXCEPT !.pc = "verify", !.task = {t}]
  /\ UNCHANGED <<files, captured, ops, facts, image>>

(* Mutant: only the size of the file is compared. *)
MutVerified(t) == rollout[t].lines >= captured[t].size
(* verify_generation: size, identity and digests of the recorded path. *)
Verified(t) == rollout[t].lines >= captured[t].size /\ rollout[t].gen = captured[t].gen
Opens(t) == rollout[t].at = captured[t].at /\ Present(t)

Refuse(reason) == job' = [job EXCEPT !.pc = "speedCommit", !.reason = reason, !.parsed = NoParse]
Guarded(t, next) ==
  IF ~Opens(t) THEN Refuse("missing_source")
  ELSE IF ~Verified(t) THEN Refuse("unverifiable") ELSE next

SpeedVerify ==
  /\ job.pc = "verify"
  /\ \E t \in job.task : Guarded(t, job' = [job EXCEPT !.pc = "parse"])
  /\ UNCHANGED <<files, ledger>>

SpeedParse ==
  /\ job.pc = "parse"
  /\ \E t \in job.task :
       IF ~Opens(t) THEN Refuse("missing_source")
       ELSE IF speed[t].offset > 0 /\ rollout[t].gen # captured[t].gen THEN Refuse("unverifiable")
       ELSE job' = [job EXCEPT !.pc = "recheck", !.parsed =
                      [task |-> {t}, gen |-> rollout[t].gen, line |-> speed[t].offset + 1]]
  /\ UNCHANGED <<files, ledger>>

SpeedRecheck ==
  /\ job.pc = "recheck"
  /\ \E t \in job.task : Guarded(t, job' = [job EXCEPT !.pc = "speedCommit"])
  /\ UNCHANGED <<files, ledger>>

(* The last check of the file is made inside the transaction. *)
SpeedCommit ==
  /\ job.pc = "speedCommit"
  /\ \E t \in job.task : LET line == job.parsed.line IN
       \/ /\ job.reason = "none" /\ ~(Opens(t) /\ Verified(t))
          /\ UNCHANGED <<facts, speed>>
       \/ /\ job.reason = "none" /\ Opens(t) /\ Verified(t)
          /\ facts' = facts \cup {<<t, captured[t].gen, job.parsed.gen, line>>}
          /\ speed' = Compress([speed EXCEPT
               ![t].status = IF line >= speed[t].target THEN Complete(t) ELSE "pending",
               ![t].offset = IF line >= speed[t].target THEN 0 ELSE line,
               ![t].rank = LastRank + 1])
       \/ /\ job.reason # "none"
          /\ speed' = Compress([speed EXCEPT ![t].status = job.reason, ![t].offset = 0,
                                             ![t].rank = LastRank + 1])
          /\ UNCHANGED facts
  /\ job' = NextSlot(job.pending)
  /\ UNCHANGED <<files, captured, ops, image>>

(* The agent dies: what was committed stays. *)
Crash ==
  /\ job.pc # "idle" /\ changes < MaxChanges
  /\ changes' = changes + 1
  /\ job' = Idle
  /\ UNCHANGED <<rollout, artifact, ledger>>

-----------------------------------------------------------------------------
Init ==
  /\ rollout \in [Tasks -> [gen : {1}, lines : 1 .. MaxLines, torn : {FALSE}, at : {"sessions"}]]
  /\ \E when \in [Tasks -> 0 .. Cardinality(Tasks)] :
       /\ \A t, u \in Tasks : t # u => (when[t] = 0 \/ when[t] # when[u])
       /\ artifact = [t \in Tasks |-> [time |-> when[t], valid |-> when[t] > 0]]
  /\ changes = 0
  \* a ledger of the release before, which kept neither images nor timings
  /\ captured = [t \in Tasks |-> [gen |-> 1, size |-> rollout[t].lines, at |-> "sessions"]]
  /\ ops = {} /\ facts = {}
  /\ image = [completed |-> {}, unavailable |-> [t \in Tasks |-> "none"],
              checkpoint |-> [t \in Tasks |-> NoCheckpoint], served |-> [t \in Tasks |-> 0]]
  /\ speed = [t \in Tasks |-> NoRow]
  /\ job = Idle

Work == \/ CaptureOnce \/ ImageLoad \/ ImagePick \/ ImageGlob \/ ImageRead \/ ImageCommit
        \/ SpeedTake \/ SpeedVerify \/ SpeedParse \/ SpeedRecheck \/ SpeedCommit
Environment ==
  \/ \E t \in Tasks : Append1(t) \/ Rewrite(t) \/ Move(t) \/ MakeImage(t) \/ RemoveImages(t)
  \/ Crash
Next == Work \/ Environment
(* The schedule and the idle lane keep captures coming, and a capture that *)
(* runs makes its steps.                                                   *)
Spec == Init /\ [][Next]_vars /\ WF_vars(Work)

-----------------------------------------------------------------------------
(* Properties. *)

(* Image coverage is honest.  A task counts as recovered only when the     *)
(* ledger holds every operation of what has been captured of its rollout:  *)
(* the lines from before the images were read, by the slices, and the      *)
(* later ones, by the captures, with no line missed between them, whatever *)
(* was cut short (run_image_backfill_slice, append_file_generation).       *)
ImageCoverage ==
  \A t \in image.completed :
    captured[t].gen = rollout[t].gen =>
      \A l \in 1 .. captured[t].size : <<t, captured[t].gen, l>> \in ops

(* Timings belong to the generation they are stored under, however often   *)
(* the file changed between the checks of it, and a generation counts as   *)
(* measured only when every line of it was (verify_generation,             *)
(* run_speed_recovery_slice).                                              *)
TimingsAreOfTheGeneration ==
  /\ \A f \in facts : f[2] = f[3] /\ f[2] = captured[f[1]].gen
  /\ \A t \in Tasks : speed[t].status = "complete" =>
       \A l \in 1 .. speed[t].target : <<t, captured[t].gen, captured[t].gen, l>> \in facts

-----------------------------------------------------------------------------
(* The invariant behind both.  What a checkpoint has passed and the capture *)
(* trusts is in the ledger, or is about to be committed with it.            *)
Checkpoints == [gen : Nat, lines : Nat]
Verdicts == {"none", "invalid_artifact", "missing", "ambiguous", "error"}
States == [completed : SUBSET Tasks, unavailable : [Tasks -> Verdicts],
           checkpoint : [Tasks -> Checkpoints], served : [Tasks -> Nat]]
Statuses == {"none", "pending", "complete", "no_usable_timing", "missing_source", "unverifiable"}
Rows == [status : Statuses, target : Nat, offset : Nat, rank : Nat]
Parses == [task : SUBSET Tasks, gen : Nat, line : Nat]
Reasons == {"none", "missing_source", "unverifiable"}
ImageSteps == {"pick", "glob", "read", "imageCommit"}
SpeedSteps == {"verify", "parse", "recheck", "speedCommit"}

Files == [gen : Nat \ {0}, lines : Nat \ {0}, torn : BOOLEAN, at : Places \cup {"gone"}]
Captures == [gen : Nat \ {0}, size : Nat, at : Places \cup {"gone"}]

JobOK ==
  /\ DOMAIN job = DOMAIN Idle
  /\ job.pc \in {"idle", "image", "speed"} \cup ImageSteps \cup SpeedSteps
  /\ job.task \subseteq Tasks /\ job.parsed \in Parses /\ job.reason \in Reasons
  /\ job.pc \in ImageSteps => job.state \in States
TypeOK ==
  /\ rollout \in [Tasks -> Files] /\ captured \in [Tasks -> Captures]
  /\ image \in States /\ speed \in [Tasks -> Rows]
  /\ JobOK

(* Codex only ever goes on from what was captured.                          *)
CapturedIsPast ==
  \A t \in Tasks :
    /\ captured[t].gen <= rollout[t].gen
    /\ captured[t].gen = rollout[t].gen => captured[t].size <= rollout[t].lines

Passed(s, t, l) ==
  \/ s.checkpoint[t].gen = captured[t].gen /\ l <= s.checkpoint[t].lines
  \/ t \in s.completed /\ captured[t].gen = rollout[t].gen
Covers(s, held) ==
  \A t \in Tasks :
    /\ s.checkpoint[t].gen = 0 => s.checkpoint[t].lines = 0
    /\ \A l \in 1 .. captured[t].size :
         Passed(s, t, l) => <<t, captured[t].gen, l>> \in held
Parsed == {<<t, job.parsed.gen, job.parsed.line>> : t \in job.parsed.task}

ImagesAreCovered ==
  /\ Covers(image, ops)
  /\ job.pc \in {"image", "pick", "glob", "read"} => job.parsed = NoParse
  /\ job.pc \in ImageSteps => Covers(job.state, ops \cup Parsed)

FactsAreCaptured ==
  \A f \in facts :
    \E t \in Tasks : \E l \in 1 .. captured[t].size : f = <<t, captured[t].gen, captured[t].gen, l>>
Measured(t, n) == \A l \in 1 .. n : <<t, captured[t].gen, captured[t].gen, l>> \in facts
RowsAreMeasured ==
  \A t \in Tasks :
    /\ speed[t].target <= captured[t].size /\ Measured(t, speed[t].offset)
    /\ speed[t].status = "pending" => speed[t].offset < speed[t].target
    /\ speed[t].status = "complete" => Measured(t, speed[t].target)

(* The slice at work has read the next line, of a generation that was there *)
(* after it had been verified.                                              *)
SliceIsNext ==
  \A t \in job.task :
    /\ job.pc \in SpeedSteps => speed[t].status = "pending" /\ job.task = {t}
    /\ (job.pc = "recheck" \/ (job.pc = "speedCommit" /\ job.reason = "none")) =>
         /\ job.parsed.line = speed[t].offset + 1
         /\ captured[t].gen <= job.parsed.gen /\ job.parsed.gen <= rollout[t].gen

RecoveryInv ==
  /\ TypeOK /\ CapturedIsPast /\ ImagesAreCovered
  /\ FactsAreCaptured /\ RowsAreMeasured /\ SliceIsNext

(* Recovery ends.  When Codex leaves the files alone, every task with      *)
(* images comes to be recovered or unavailable, and every trusted          *)
(* generation measured or unmeasurable: a rollout that ends in half a line *)
(* stays pending for ever, and yet starves no other (_select_next_task,    *)
(* run_historical_recovery).                                               *)
RecoveryEnds ==
  <>[](\A t \in Tasks :
         /\ artifact[t].time = 0 \/ rollout[t].torn \/ t \in Settled(image)
         /\ speed[t].status \notin {"none", "pending"})

=============================================================================
