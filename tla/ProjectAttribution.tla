------------------------- MODULE ProjectAttribution -------------------------
(***************************************************************************)
(* To which project a token is charged.  A capture does it in four commits: *)
(* it parses rollouts, it rebases the identities of unchanged rows whose    *)
(* checkout got another remote, it infers the project transitions of the    *)
(* tasks marked dirty, and it copies rows into the ledger's events, each    *)
(* resolved through its parents.  Nothing but the dirty marks survives a    *)
(* crash between two of them.                                               *)
(*                                                                          *)
(* The position of a row stands for its time.  It may use tokens, and it    *)
(* may mention a path, given as the repository it was verified to lie in.   *)
(***************************************************************************)
EXTENDS Naturals, Sequences, FiniteSets, Functions

CONSTANTS
    Tasks,        \* the tasks, one rollout each
    Parent,       \* Parent[t]: the task that started t, NoTask for a root
    NoTask,
    Recorded,     \* Recorded[t]: the repository of the session's first row, or NoRepo
    InCheckout,   \* InCheckout[t]: its folder lies in the checkout
    Folder,       \* Folder[t]: the key of its folder
    Repos,        \* the origins the checkout has one after the other, in order
    NoRepo,
    RowsOf,       \* RowsOf[t]: the rows the task may write
    MaxRows,      \* bound, MaxRows[t]: rows of its rollout
    MaxCrashes    \* bound: captures that end between two commits

VARIABLES
    origin,       \* how many of Repos the checkout has had
    content,      \* content[t]: the rows of the rollout
    cache,        \* cache[t]: usage_records of the task's file
    parsed,       \* parsed[t]: rows the checkpoint has consumed
    dirty,        \* dirty_transition_tasks
    stored,       \* project_transitions
    events,       \* events[t]: ledger_usage_events
    mirrored,     \* ledger_transitions
    phase,        \* how far the capture is
    rebased,      \* outcome.rebased_project_task_ids, in memory only
    crashes,
    \* What the properties remember.
    early,        \* tasks with events written before their ancestors were known
    lost,         \* a crash lost the list of rebased tasks
    moved         \* tasks rebased since their transitions were inferred

world == <<origin, content, crashes>>
parser == <<cache, parsed>>
ghosts == <<early, lost, moved>>
vars == <<origin, content, cache, parsed, dirty, stored, events, mirrored, phase,
          rebased, crashes, early, lost, moved>>

Origin(t) == IF InCheckout[t] THEN Repos[origin] ELSE NoRepo

-----------------------------------------------------------------------------
(* Identity: resolve_project_identity.                                      *)

\* The commit of the session is an ancestor of the checkout's HEAD; a session
\* without a recorded repository has no commit to prove it with.
VerifiedReplacement(t) ==
    Recorded[t] # NoRepo /\ Origin(t) \notin {NoRepo, Recorded[t]}

Identity(t) ==
    CASE VerifiedReplacement(t) ->
           [key |-> Origin(t), repo |-> Origin(t), aliases |-> {Folder[t], Recorded[t]}]
      [] ~VerifiedReplacement(t) /\ Recorded[t] # NoRepo ->
           [key |-> Recorded[t], repo |-> Recorded[t], aliases |-> {Folder[t]}]
      [] Recorded[t] = NoRepo /\ Origin(t) # NoRepo ->
           [key |-> Origin(t), repo |-> Origin(t), aliases |-> {Folder[t]}]
      [] OTHER -> [key |-> Folder[t], repo |-> NoRepo, aliases |-> {}]

Record(t, time) == [time |-> time, id |-> Identity(t)]

-----------------------------------------------------------------------------
(* Lineage: finalize_session_records.                                       *)

Nobody == [key |-> NoRepo, repo |-> NoRepo, aliases |-> {}]

\* The repository the last row of a task that has one gives it.
IdentityOf(records) ==
    LET known == {i \in DOMAIN records : records[i].id.repo # NoRepo}
    IN IF known = {} THEN Nobody
       ELSE records[CHOOSE i \in known : \A j \in known : j <= i].id

ShouldInherit(id, parent) == id.repo = NoRepo \/ id.key \in parent.aliases

Inherit(id, parent) ==
    [key |-> parent.key, repo |-> parent.repo,
     aliases |-> (({id.key} \cup id.aliases) \cup parent.aliases) \ {parent.key}]

\* A child takes its parent's project where it has none, or where the parent
\* proved that the child's was replaced.
Below(id, parent) ==
    IF parent # Nobody /\ ShouldInherit(id, parent) THEN Inherit(id, parent) ELSE id

Resolved(records) ==
    LET own == [t \in Tasks |-> IdentityOf(records[t])]
        up[t \in Tasks \cup {NoTask}] ==
            IF t = NoTask \/ (t # NoTask /\ own[t] = Nobody) THEN Nobody
            ELSE Below(own[t], up[Parent[t]])
    IN up

\* The project of every row of t, with all the rows the cache holds.
FollowLineage(records, t) ==
    LET up == Resolved(records)
    IN [i \in DOMAIN records[t] |-> Below(records[t][i].id, up[Parent[t]]).key]

-----------------------------------------------------------------------------
(* Transitions: infer_project_transitions.                                  *)

\* The rows whose mentioned path was verified to lie in a repository.
Observed(rows) == {time \in DOMAIN rows : rows[time].sees # NoRepo}

\* The first time a task mentions a repository its row before is not of.
Infer(t, records, rows) ==
    LET before(time) == {r \in Range(records) : r.time < time}
        last(time) == CHOOSE r \in before(time) : \A o \in before(time) : o.time <= r.time
        found == {time \in Observed(rows) :
                    /\ before(time) # {}
                    /\ rows[time].sees \notin {last(time).id.key} \cup last(time).id.aliases}
        from(time) == [task |-> t, source |-> last(time).id.key,
                       target |-> rows[time].sees, at |-> time]
    IN {from(time) : time \in
          {x \in found : \A y \in found :
              (from(y).source = from(x).source /\ from(y).target = from(x).target) => x <= y}}

InferTask(t) == Infer(t, cache[t], SubSeq(content[t], 1, parsed[t]))

-----------------------------------------------------------------------------
Init ==
    /\ origin = 1
    /\ content = [t \in Tasks |-> <<>>]
    /\ cache = [t \in Tasks |-> <<>>]
    /\ parsed = [t \in Tasks |-> 0]
    /\ dirty = {} /\ stored = {} /\ mirrored = {}
    /\ events = [t \in Tasks |-> <<>>]
    /\ phase = "idle" /\ rebased = {} /\ crashes = 0
    /\ early = {} /\ lost = FALSE /\ moved = {}

\* The task writes a row, the user gives the checkout another remote.
Write(t, row) ==
    /\ Len(content[t]) < MaxRows[t]
    /\ content' = [content EXCEPT ![t] = Append(@, row)]
    /\ UNCHANGED <<origin, crashes, parser, dirty, stored, events, mirrored, phase,
                   rebased, ghosts>>

ChangeOrigin ==
    /\ origin < Len(Repos)
    /\ origin' = origin + 1
    /\ UNCHANGED <<content, crashes, parser, dirty, stored, events, mirrored, phase,
                   rebased, ghosts>>

Start ==
    /\ phase \in {"idle", "done"}
    /\ phase' = "parse"
    /\ UNCHANGED <<world, parser, dirty, stored, events, mirrored, rebased, ghosts>>

\* A task is marked only when rows that use tokens were appended.
MutCommitGroup(t) ==
    /\ phase = "parse"
    /\ parsed[t] < Len(content[t])
    /\ LET fresh == {i \in (parsed[t] + 1)..Len(content[t]) : content[t][i].use}
       IN /\ cache' = [cache EXCEPT ![t] = @ \o
               [n \in 1..Cardinality(fresh) |->
                  Record(t, CHOOSE i \in fresh : Cardinality({j \in fresh : j <= i}) = n)]]
          /\ dirty' = IF fresh = {} THEN dirty ELSE dirty \cup {t}
    /\ parsed' = [parsed EXCEPT ![t] = Len(content[t])]
    /\ UNCHANGED <<world, stored, events, mirrored, phase, rebased, ghosts>>
\* One group's commit: the rows with the identity they were parsed with, and
\* the mark of their task.  The budget of a slice leaves any rollout for a
\* later capture.
CommitGroup(t) ==
    /\ phase = "parse"
    /\ parsed[t] < Len(content[t])
    /\ LET fresh == {i \in (parsed[t] + 1)..Len(content[t]) : content[t][i].use}
       IN cache' = [cache EXCEPT ![t] = @ \o
            [n \in 1..Cardinality(fresh) |->
               Record(t, CHOOSE i \in fresh : Cardinality({j \in fresh : j <= i}) = n)]]
    /\ parsed' = [parsed EXCEPT ![t] = Len(content[t])]
    /\ dirty' = dirty \cup {t}
    /\ UNCHANGED <<world, stored, events, mirrored, phase, rebased, ghosts>>

\* Rows whose checkout proves another origin are rewritten; a row whose proof
\* is gone keeps what it has.
Rebase ==
    /\ phase = "parse"
    /\ LET changed == {t \in Tasks :
                         /\ VerifiedReplacement(t)
                         /\ \E r \in Range(cache[t]) : r.id # Identity(t)}
       IN /\ cache' = [t \in Tasks |->
                         IF t \in changed
                         THEN [i \in DOMAIN cache[t] |-> [cache[t][i] EXCEPT !.id = Identity(t)]]
                         ELSE cache[t]]
          /\ rebased' = changed
          /\ moved' = moved \cup changed
    /\ phase' = "infer"
    /\ UNCHANGED <<world, parsed, dirty, stored, events, mirrored, early, lost>>

\* The transitions of the marked tasks are replaced and the marks removed, in
\* one commit.
ReplaceDirty ==
    /\ phase = "infer"
    /\ stored' = {x \in stored : x.task \notin dirty} \cup UNION {InferTask(t) : t \in dirty}
    /\ moved' = moved \ dirty
    /\ dirty' = {}
    /\ phase' = "sync"
    /\ UNCHANGED <<world, parser, events, mirrored, rebased, early, lost>>

\* The rows the ledger has not seen are resolved and inserted; a capture that
\* rebased a task writes every event again.
InsertEvents(t) ==
    events[t] \o SubSeq(FollowLineage(cache, t), Len(events[t]) + 1, Len(cache[t]))

\* Only the new rows are written when identities were rebased.
MutForce == FALSE

Force == rebased # {}

Synchronize ==
    /\ phase = "sync"
    /\ events' = [t \in Tasks |-> IF Force THEN FollowLineage(cache, t) ELSE InsertEvents(t)]
    /\ mirrored' = stored
    /\ rebased' = {}
    /\ phase' = "done"
    /\ lost' = IF Force THEN FALSE ELSE lost
    /\ LET up == Resolved(cache)
           new(t) == Force \/ Len(events[t]) < Len(cache[t])
           above[t \in Tasks] ==
               IF Parent[t] = NoTask THEN {} ELSE {Parent[t]} \cup above[Parent[t]]
       IN early' = (IF Force THEN {} ELSE early) \cup
                   {t \in Tasks : new(t) /\ \E p \in above[t] : up[p] = Nobody}
    /\ UNCHANGED <<world, parser, dirty, stored, moved>>

\* The capture fails or the process ends between two commits.
Crash ==
    /\ phase \notin {"idle", "done"}
    /\ crashes < MaxCrashes
    /\ crashes' = crashes + 1
    /\ phase' = "idle"
    /\ lost' = (lost \/ rebased # {})
    /\ rebased' = {}
    /\ UNCHANGED <<origin, content, parser, dirty, stored, events, mirrored, early, moved>>

Next ==
    \/ \E t \in Tasks : \E row \in RowsOf[t] : Write(t, row)
    \/ ChangeOrigin
    \/ Start
    \/ \E t \in Tasks : CommitGroup(t)
    \/ Rebase
    \/ ReplaceDirty
    \/ Synchronize
    \/ Crash

Spec == Init /\ [][Next]_vars

-----------------------------------------------------------------------------
\* A task all of whose ancestors recorded their repository.
Anchored(t) ==
    LET up[s \in Tasks \cup {NoTask}] ==
            s = NoTask \/ (s # NoTask /\ Recorded[s] # NoRepo /\ up[Parent[s]])
    IN up[Parent[t]]

\* When a capture is over, every event of a task is charged to the project its
\* rows and its ancestors' now give it, however often the remote changed.  The
\* exceptions are the two the code has: events written before an ancestor was
\* captured, and a crash that lost the list of rebased tasks.
EventsKeepUp ==
    (phase = "done" /\ ~lost) =>
        \A t \in Tasks \ early : Anchored(t) => events[t] = FollowLineage(cache, t)

\* A task that is not marked dirty has, in the cache and after a capture in the
\* ledger, the transitions its rows give, whatever a crash interrupted.  The
\* exception the code has is a task rebased since it was marked.
InferenceKeepsUp ==
    \A t \in Tasks \ (dirty \cup moved) :
        /\ {x \in stored : x.task = t} = InferTask(t)
        /\ phase = "done" => {x \in mirrored : x.task = t} = InferTask(t)

\* What ADR 0035 says without exception: incremental event writes resolve
\* parent identity through the same lineage rule.
EventsFollowLineage ==
    phase = "done" => \A t \in Tasks : Anchored(t) => events[t] = FollowLineage(cache, t)

=============================================================================
