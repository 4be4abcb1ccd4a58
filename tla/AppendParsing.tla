---------------------------- MODULE AppendParsing ---------------------------
(* One task's session file read in slices: session_parser_incremental.py,  *)
(* with the row reader, the image, candidate and timing evidence it keeps  *)
(* and the checkpoint a later slice resumes from.  A byte position is a    *)
(* number of cells: a short row is its discriminator, the rest of the JSON *)
(* object and a newline; a long row has two more cells of payload, and its *)
(* identity (call id, workdir, escapes) lies in the second cell.           *)
EXTENDS Integers, Sequences, FiniteSetsExt
CONSTANTS
  SourceFiles,    \* sequences of rows: what the file will hold
  Budgets,  \* max_bytes of a slice
  Strict,   \* strict_byte_budget: recovery reads strictly, captures do not
  None
VARIABLES
  file,     \* the rows, a constant of the behaviour
  size,     \* the cells Codex has written so far
  reader    \* the checkpoint and everything the slices have returned
vars == <<file, size, reader>>

PrefixCells == 3                       \* RELEVANT_PREFIX_BYTES
Length(row) == IF row.long THEN 5 ELSE 3
Layout ==
  [rows \in SourceFiles |->
     LET cells[i \in 0 .. Len(rows)] ==
           IF i = 0 THEN <<>>
           ELSE cells[i - 1] \o
                  [k \in 1 .. Length(rows[i]) |-> [row |-> rows[i], into |-> k - 1]]
     IN  cells[Len(rows)]]
Cell(p) == Layout[file][p + 1]
End == Len(Layout[file])

Responses == {"call", "result", "direct", "workdir", "message"}
Parser0 ==
  [root |-> None, meta |-> None, previous |-> None, own |-> FALSE, counted |-> FALSE,
   baseline |-> FALSE, model |-> None, turn |-> None, pending |-> <<>>, drain |-> None]
Untimed == [safe |-> FALSE, dirty |-> FALSE, turn |-> None, response |-> None, items |-> 0]
Reader0 ==
  [at |-> 0, parser |-> Parser0, speed |-> Untimed, failed |-> FALSE, done |-> FALSE,
   records |-> <<>>, images |-> <<>>, candidates |-> <<>>, facts |-> <<>>]

-----------------------------------------------------------------------------
(* What a row says of time: a response is measurable when one turn's       *)
(* context, timed items, one response record and the counter follow each   *)
(* other and nothing unreadable lies between.                              *)
Timed(speed, turn) ==
  [safe |-> TRUE, dirty |-> FALSE, turn |-> turn, response |-> None, items |-> 0]
Dirty(speed) == [speed EXCEPT !.dirty = TRUE]
Late(speed) == [speed EXCEPT !.dirty = @ \/ speed.response # None]
Observed(speed, row, turn) ==
  CASE row.kind = "meta" -> Untimed
    [] row.kind \in {"context", "started"} -> Timed(speed, row.turn)
    [] row.kind = "ended" -> Untimed
    [] row.kind = "completed" -> [Late(speed) EXCEPT !.items = @ + 1]
    [] row.kind \in {"call", "workdir", "message"} -> Late(speed)
    [] row.kind = "usage" -> [Late(speed) EXCEPT !.response = row.turn]
    [] row.kind = "tokens" -> Timed(speed, turn)
    [] OTHER -> speed
Measurable(speed, turn) ==
  /\ speed.safe /\ ~speed.dirty /\ speed.items > 0
  /\ turn # None /\ speed.turn = turn /\ speed.response = turn

-----------------------------------------------------------------------------
(* Image calls: a call waits for its result, and each sighting is an       *)
(* operation; a prefix tells less than the row.                            *)
Operation(row, detail) == [id |-> row.id, outcome |-> "attempted", detail |-> detail]
Settled(op) == [op EXCEPT !.outcome = "succeeded"]
Others(pending, id) == SelectSeq(pending, LAMBDA op : op.id # id)
Waiting(pending, id) == \E i \in DOMAIN pending : pending[i].id = id
Call(pending, id) == CHOOSE op \in Range(pending) : op.id = id

Invoked(r, row, detail) ==
  [r EXCEPT !.images = Append(@, Operation(row, detail)),
            !.parser.pending = Append(Others(@, row.id), Operation(row, detail))]
Resolved(r, id) ==
  IF Waiting(r.parser.pending, id)
  THEN [r EXCEPT !.images = Append(@, Settled(Call(r.parser.pending, id))),
                 !.parser.pending = Others(@, id)]
  ELSE r
Located(r, row) ==
  IF row.kind = "workdir" THEN [r EXCEPT !.candidates = Append(@, row.id)] ELSE r

ResponseItem(r, row) ==
  CASE row.kind = "call" -> Invoked(r, row, "exact")
    [] row.kind = "result" \/ (row.kind = "direct" /\ Waiting(r.parser.pending, row.id))
         -> Resolved(r, row.id)
    [] row.kind = "direct" /\ ~Waiting(r.parser.pending, row.id)
         -> [r EXCEPT !.images = Append(@, Settled(Operation(row, "exact")))]
    [] OTHER -> Located(r, row)
(* capture_bounded_payload: the identity must lie in the cells kept.       *)
BoundedPayload(r, row, cells) ==
  IF cells < 2 \/ row.kind = "message" THEN r
  ELSE CASE row.kind = "call" -> Invoked(r, row, "prefix")
         [] row.kind \in {"result", "direct"} -> Resolved(r, row.id)
         [] OTHER -> Located(r, row)

-----------------------------------------------------------------------------
(* Usage: the counter of the file is cumulative; what a fork replays of    *)
(* its parent, or a page inherits, is a baseline and not usage.            *)
SessionMeta(r, row) ==
  IF r.parser.root # None THEN [r EXCEPT !.parser.meta = row]
  ELSE [r EXCEPT !.parser.meta = row, !.parser.root = row,
                 !.parser.own = row.base # None \/ ~(row.subagent /\ row.fork /\ row.inline),
                 !.parser.previous = IF row.base = None THEN @ ELSE row.base,
                 !.parser.baseline = row.base # None]
Delta(total, previous) ==
  LET last == IF previous = None THEN 0 ELSE previous IN IF total > last THEN total - last ELSE 0
Inherited(p) ==
  /\ p.root # None /\ p.root.fork /\ p.root.inline
  /\ \/ p.root.subagent /\ ~p.own
     \/ p.meta.id # p.root.id
     \/ ~p.counted /\ p.previous = None
TokenCount(r, row) ==
  LET p == r.parser
      delta == Delta(row.total, p.previous)
      seen == [r EXCEPT !.parser.previous = row.total, !.parser.baseline = FALSE]
      record == [session |-> p.meta.id, usage |-> delta, model |-> p.model, turn |-> p.turn]
  IN IF p.baseline /\ row.total < p.previous THEN [r EXCEPT !.failed = TRUE]
     ELSE IF delta = 0 \/ Inherited(p) THEN seen
     ELSE [seen EXCEPT !.records = Append(@, record),
                       !.parser.counted = @ \/ (p.root.fork /\ p.meta.id = p.root.id),
                       !.facts = Append(@, Measurable(r.speed, p.turn))]

Handled(r, row) ==
  CASE row.kind = "meta" -> SessionMeta(r, row)
    [] row.kind = "inter" -> [r EXCEPT !.parser.own = TRUE]
    [] row.kind \in Responses -> ResponseItem(r, row)
    [] row.kind = "context" -> [r EXCEPT !.parser.turn = row.turn, !.parser.model = row.model]
    [] row.kind = "started" -> [r EXCEPT !.parser.turn = row.turn]
    [] row.kind = "completed" ->
         IF row.image /\ Len(r.parser.pending) = 1 THEN Resolved(r, r.parser.pending[1].id) ELSE r
    [] row.kind = "tokens" -> TokenCount(r, row)
    [] OTHER -> r
Apply(r, row) ==
  [Handled(r, row) EXCEPT !.speed = Observed(r.speed, row, r.parser.turn)]

-----------------------------------------------------------------------------
(* read_candidate_row and the branches that follow it.                     *)
Class(row, cells) ==
  CASE row.kind = "message" -> "bounded"
    [] row.kind \in Responses \ {"message"} -> IF row.escaped /\ cells >= 2 THEN "relevant" ELSE "bounded"
    [] row.kind = "other" -> "irrelevant"
    [] OTHER -> "relevant"

Reading(r, stop, limit) ==
  LET row == Cell(r.at).row
      into == Cell(r.at).into
      left == Length(row) - into
      here == Min({left, stop - r.at})
      prefix == Min({PrefixCells, here, limit})
      class == IF r.parser.drain # None THEN r.parser.drain
               ELSE IF into > 0 THEN "fragment" ELSE Class(row, prefix)
      whole == prefix = left \/ prefix = stop - r.at
      streams == r.parser.drain # None \/ (class \in {"bounded", "irrelevant"} /\ ~whole)
      cells == IF streams THEN Min({here, limit}) ELSE IF whole THEN prefix ELSE here
  IN [row |-> row, prefix |-> prefix, class |-> class, streams |-> streams, cells |-> cells,
      exceeds |-> ~streams /\ cells > limit, complete |-> cells = left,
      object |-> into = 0 /\ cells >= Length(row) - 1 /\ row.kind # "broken"]

Streamed(r, x) ==
  LET kept == IF x.class = "bounded" /\ r.parser.drain = None
              THEN BoundedPayload(r, x.row, x.prefix) ELSE r
  IN [kept EXCEPT !.at = @ + x.cells,
                  !.parser.drain = IF x.complete THEN None ELSE x.class,
                  !.speed = IF x.complete /\ x.class = "bounded"
                            THEN Observed(@, x.row, r.parser.turn) ELSE @]
Row(r, x, stop) ==
  IF x.streams THEN Streamed(r, x)
  ELSE IF x.class = "irrelevant" THEN [r EXCEPT !.at = @ + x.cells]
  ELSE IF x.object THEN [Apply(r, x.row) EXCEPT !.at = r.at + x.cells]
  ELSE IF x.complete THEN [r EXCEPT !.at = @ + x.cells, !.speed = Dirty(@)]
  ELSE [r EXCEPT !.done = TRUE]                   \* half a row: read again later

(* Every row read takes the slice at least a cell further, or ends it.     *)
NextRow(r, start, stop, target) ==
  LET x == Reading(r, stop, IF Strict THEN target - r.at ELSE stop - r.at)
  IN IF x.exceeds THEN [r EXCEPT !.failed = r.at = start, !.done = TRUE]
     ELSE Row(r, x, stop)
Rows(r, start, stop, target) ==
  LET after[n \in 0 .. stop - start] ==
        IF n = 0 THEN r
        ELSE LET last == after[n - 1]
             IN IF last.at >= target \/ last.done \/ last.failed THEN last
                ELSE NextRow(last, start, stop, target)
  IN after[stop - start]
(* The slice, and the state a checkpoint keeps of it.                      *)
MutNoDrain(r) == [r EXCEPT !.done = FALSE, !.parser.drain = None]
MutNoReason(r) == [r EXCEPT !.done = FALSE, !.speed.dirty = FALSE]
Checkpointed(r) == [r EXCEPT !.done = FALSE]
Slice(r, stop, budget) ==
  Checkpointed(Rows(r, r.at, stop, Min({stop, r.at + budget})))

-----------------------------------------------------------------------------
Init == /\ file \in SourceFiles
        /\ size = 0
        /\ reader = Reader0
Write == \E n \in size + 1 .. End : size' = n /\ UNCHANGED <<file, reader>>
(* A slice that raises returns nothing, and the checkpoint stays.          *)
Parse == \E budget \in Budgets :
  LET next == Slice(reader, size, budget)
  IN /\ reader.at < size /\ ~next.failed
     /\ reader' = next
     /\ UNCHANGED <<file, size>>
Next == Write \/ Parse
Spec == Init /\ [][Next]_vars
-----------------------------------------------------------------------------
(* One parse of everything up to the checkpoint.                           *)
Whole == Rows(Reader0, 0, reader.at, reader.at)

(* However a file grows and however the slices cut it, rows included, the  *)
(* usage, the image operations and the paths of projects are those of one  *)
(* parse: nothing is counted twice, attributed to another turn or lost at  *)
(* a boundary (parse_session_append against parse_session_generation).     *)
SlicesAgree ==
  LET whole == Whole
  IN /\ reader.records = whole.records
     /\ reader.images = whole.images
     /\ reader.candidates = whole.candidates
     /\ reader.parser = whole.parser

(* A boundary may cost a measurement of speed, never invent one: a         *)
(* response that one parse refuses to measure is not measured in slices.   *)
NoSpeedIsInvented ==
  LET whole == Whole
  IN \A i \in DOMAIN reader.facts : reader.facts[i] => whole.facts[i]

(* A strict budget may cut a long row: between rows, the image operations  *)
(* found are still those of one parse ("Tool calls and results retain the  *)
(* ... full extraction route", docs/adr/0053-observed-output-speed.md:35). *)
SlicesKeepImages ==
  (reader.at = size /\ reader.parser.drain = None) => reader.images = Whole.images
=============================================================================
