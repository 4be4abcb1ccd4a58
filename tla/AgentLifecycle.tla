--------------------------- MODULE AgentLifecycle ---------------------------
(***************************************************************************)
(* Starting and stopping collectors: the collector process (agent_main,    *)
(* CodexUsageAgent.start and stop, the parent monitor), the settings file  *)
(* all windows share, the descriptor by which clients find a collector,    *)
(* and the supervisor of each VS Code window with its concurrent callers.  *)
(*                                                                         *)
(* Names are read at every await: a caller's step ends where the extension *)
(* awaits.  A process is its own launch ID and token; a discovery finds    *)
(* the descriptor's process when it answers.  MaxSlow bounds the health    *)
(* checks that time out although the collector is alive.                   *)
(***************************************************************************)
EXTENDS Naturals, FiniteSets

CONSTANTS Homes,        \* the CODEX_HOME directories
          DefaultHome,  \* the one used before any is configured
          Windows,      \* VS Code extension hosts
          Callers,      \* concurrent calls into the supervisors
          WindowOf(_),  \* the window of a caller
          Processes,    \* collector processes that may be started
          MaxSlow,      \* health checks that time out on a live collector
          None

ASSUME CallersAssumption == \A k \in Callers : WindowOf(k) \in Windows
ASSUME HomeAssumption == DefaultHome \in Homes
ASSUME SlowAssumption == MaxSlow \in Nat
ASSUME NoneAssumption == None \notin Homes \cup Windows \cup Callers \cup Processes

VARIABLES home,         \* codex_home in the shared settings file
          lock,         \* agent.lock of each home: its holder
          descriptor,   \* agent.json of each home: the process it names
          process,      \* the collector processes
          open,         \* the windows that are open
          managed,      \* managedClient (its launch) and managedHome of a window
          starting,     \* the caller that runs startTransientAgent, per window
          call,         \* the calls in progress
          slow          \* health checks that may still time out

vars == <<home, lock, descriptor, process, open, managed, starting, call, slow>>

Phases == {"unused", "spawned", "loaded", "locked", "running", "closing", "dead"}
Steps == {"idle", "discover", "set", "spawn", "wait", "await",
          "current", "verify", "post", "waitStop", "move"}
NoProcess == [phase |-> "unused", home |-> None, parent |-> None, stop |-> FALSE]
NoCall == [at |-> "idle", home |-> None, target |-> None, client |-> None, leave |-> FALSE]
NoManaged == [client |-> None, home |-> None]

Launches == [phase : Phases, home : Homes \cup {None}, parent : Windows \cup {None}, stop : BOOLEAN]
Calls == [at : Steps, home : Homes \cup {None}, target : Homes \cup {None},
          client : Processes \cup {None}, leave : BOOLEAN]
Managements == [client : Processes \cup {None}, home : Homes \cup {None}]

TypeOK ==
  /\ home \in Homes
  /\ lock \in [Homes -> Processes \cup {None}]
  /\ descriptor \in [Homes -> Processes \cup {None}]
  /\ process \in [Processes -> Launches]
  /\ open \subseteq Windows
  /\ managed \in [Windows -> Managements]
  /\ starting \in [Windows -> Callers \cup {None}]
  /\ call \in [Callers -> Calls]
  /\ slow \in 0..MaxSlow

Init ==
  /\ home = DefaultHome
  /\ lock = [h \in Homes |-> None]
  /\ descriptor = [h \in Homes |-> None]
  /\ process = [p \in Processes |-> NoProcess]
  /\ open = Windows
  /\ managed = [w \in Windows |-> NoManaged]
  /\ starting = [w \in Windows |-> None]
  /\ call = [k \in Callers |-> NoCall]
  /\ slow = MaxSlow

-----------------------------------------------------------------------------
(* The collector process. *)

Phase(p) == process[p].phase
Becomes(p, phase) == process' = [process EXCEPT ![p].phase = phase]
Dies(p) == process' = [process EXCEPT ![p] = [NoProcess EXCEPT !.phase = "dead"]]
Clients == <<open, managed, starting, call, slow>>

(* The process a start gets: which of the unused ones does not matter.     *)
IsNext(p) == /\ Phase(p) = "unused"
             /\ p = CHOOSE q \in Processes : Phase(q) = "unused"

(* A service registered by the retired native app starts at login. *)
StartService(p) ==
  /\ IsNext(p)
  /\ Becomes(p, "spawned")
  /\ UNCHANGED <<home, lock, descriptor, Clients>>

(* The process reads its home from the settings file, not from the command. *)
LoadSettings(p) ==
  /\ Phase(p) = "spawned"
  /\ process' = [process EXCEPT ![p].phase = "loaded", ![p].home = home]
  /\ UNCHANGED <<home, lock, descriptor, Clients>>

(* Mutant: a start that finds the lock taken stops like any other. *)
MutTakeLock(p) ==
  /\ Phase(p) = "loaded"
  /\ LET h == process[p].home IN
     IF lock[h] = None
       THEN lock' = [lock EXCEPT ![h] = p] /\ Becomes(p, "locked")
       ELSE lock' = lock /\ Becomes(p, "closing")
  /\ UNCHANGED <<home, descriptor, Clients>>

TakeLock(p) ==
  LET h == process[p].home IN
  /\ Phase(p) = "loaded"
  /\ IF lock[h] = None
       THEN lock' = [lock EXCEPT ![h] = p] /\ Becomes(p, "locked")
       ELSE lock' = lock /\ Dies(p)
  /\ UNCHANGED <<home, descriptor, Clients>>

(* Mutant: the API serves before the ledger lock is taken. *)
MutAdvertise(p) ==
  /\ Phase(p) = "loaded"
  /\ descriptor' = [descriptor EXCEPT ![process[p].home] = p]
  /\ Becomes(p, "running")
  /\ UNCHANGED <<home, lock, Clients>>

(* The ledger is open and recovered, the API serves: clients may find it. *)
Advertise(p) ==
  /\ Phase(p) = "locked"
  /\ descriptor' = [descriptor EXCEPT ![process[p].home] = p]
  /\ Becomes(p, "running")
  /\ UNCHANGED <<home, lock, Clients>>

(* A start that fails, or a requested stop, first closes the API. *)
CloseApi(p) ==
  /\ \/ Phase(p) = "locked"
     \/ Phase(p) = "running" /\ process[p].stop
  /\ Becomes(p, "closing")
  /\ UNCHANGED <<home, lock, descriptor, Clients>>

(* With every job ended, the descriptor goes if it is still its own, and   *)
(* then the lock.                                                          *)
ReleaseLock(p) ==
  LET h == process[p].home IN
  /\ Phase(p) = "closing"
  /\ descriptor' = [descriptor EXCEPT ![h] = IF @ = p THEN None ELSE @]
  /\ lock' = [lock EXCEPT ![h] = None]
  /\ Dies(p)
  /\ UNCHANGED <<home, Clients>>

(* The operating system frees the lock of a process that dies. *)
Crash(p) ==
  /\ Phase(p) \notin {"unused", "dead"}
  /\ lock' = [h \in Homes |-> IF lock[h] = p THEN None ELSE lock[h]]
  /\ Dies(p)
  /\ UNCHANGED <<home, descriptor, Clients>>

(* Mutant: the monitor gives up once another home is configured. *)
MutMonitorParent(p) ==
  /\ Phase(p) = "running" /\ home = process[p].home
  /\ process[p].parent # None
  /\ process[p].parent \notin open
  /\ ~process[p].stop
  /\ process' = [process EXCEPT ![p].stop = TRUE]
  /\ UNCHANGED <<home, lock, descriptor, Clients>>

(* The parent monitor starts once the collector runs. *)
MonitorParent(p) ==
  /\ Phase(p) = "running"
  /\ process[p].parent # None
  /\ process[p].parent \notin open
  /\ ~process[p].stop
  /\ process' = [process EXCEPT ![p].stop = TRUE]
  /\ UNCHANGED <<home, lock, descriptor, Clients>>

-----------------------------------------------------------------------------
(* Discovery. *)

Answers(p) == p # None /\ Phase(p) = "running"
Found(h, p) == descriptor[h] = p /\ Answers(p) /\ UNCHANGED slow

(* AgentUnavailableError: nothing answers, or not within two seconds. *)
Unavailable(h) == IF Answers(descriptor[h]) THEN slow > 0 /\ slow' = slow - 1
                                            ELSE UNCHANGED slow

OwnedBy(p, w, launch) == launch = p /\ process[p].parent = w

-----------------------------------------------------------------------------
(* The supervisor. *)

At(k, step) == call[k].at = step /\ WindowOf(k) \in open
GoTo(k, step) == call' = [call EXCEPT ![k].at = step]
Return(k) == call' = [call EXCEPT ![k] = NoCall]
Collectors == <<home, lock, descriptor, process, open>>

(* Those who await this.starting end with the caller that runs it. *)
EndStart(k) ==
  LET w == WindowOf(k) IN
  /\ starting' = [starting EXCEPT ![w] = None]
  /\ call' = [c \in Callers |->
                IF c = k \/ (WindowOf(c) = w /\ call[c].at = "await") THEN NoCall ELSE call[c]]

Acquire(k) ==
  /\ At(k, "idle")
  /\ call' = [call EXCEPT ![k].at = "discover", ![k].home = home]
  /\ UNCHANGED <<Collectors, managed, starting, slow>>

Acquired(k) ==
  /\ At(k, "discover")
  /\ \E p \in Processes : Found(call[k].home, p)
  /\ Return(k)
  /\ UNCHANGED <<Collectors, managed, starting>>

(* Mutant: any start in progress is joined. *)
MutNotFound(k) ==
  LET w == WindowOf(k) IN
  /\ At(k, "discover")
  /\ Unavailable(call[k].home)
  /\ IF starting[w] = None
       THEN starting' = [starting EXCEPT ![w] = k] /\ GoTo(k, "set")
       ELSE starting' = starting /\ GoTo(k, "await")
  /\ UNCHANGED <<Collectors, managed>>

(* No collector answers: join the start in progress, or begin one. *)
NotFound(k) ==
  LET w == WindowOf(k) h == call[k].home IN
  /\ At(k, "discover")
  /\ Unavailable(h)
  /\ IF starting[w] = None
       THEN starting' = [starting EXCEPT ![w] = k] /\ GoTo(k, "set")
       ELSE /\ starting' = starting
            /\ IF call[starting[w]].home = h THEN GoTo(k, "await") ELSE Return(k)
  /\ UNCHANGED <<Collectors, managed>>

(* Mutant: the home to change to is saved, where there may be none. *)
MutSetHome(k) ==
  /\ At(k, "set")
  /\ home' = call[k].target
  /\ GoTo(k, "spawn")
  /\ UNCHANGED <<lock, descriptor, process, open, managed, starting, slow>>

SetHome(k) ==
  /\ At(k, "set")
  /\ home' = call[k].home
  /\ GoTo(k, "spawn")
  /\ UNCHANGED <<lock, descriptor, process, open, managed, starting, slow>>

Spawn(k, p) ==
  /\ At(k, "spawn")
  /\ IsNext(p)
  /\ process' = [process EXCEPT ![p].phase = "spawned", ![p].parent = WindowOf(k)]
  /\ call' = [call EXCEPT ![k].at = "wait", ![k].client = p]
  /\ UNCHANGED <<home, lock, descriptor, open, managed, starting, slow>>

(* A collector answers; it is managed only when it is the one launched. *)
Started(k) ==
  LET w == WindowOf(k) h == call[k].home IN
  /\ At(k, "wait")
  /\ \E p \in Processes :
       /\ Found(h, p)
       /\ managed' = IF OwnedBy(p, w, call[k].client)
                       THEN [managed EXCEPT ![w] = [client |-> p, home |-> h]]
                       ELSE managed
  /\ EndStart(k)
  /\ UNCHANGED Collectors

(* Eighty attempts have failed, or the executable could not be started. *)
StartFails(k) ==
  /\ \/ At(k, "wait") /\ Unavailable(call[k].home)
     \/ At(k, "spawn") /\ UNCHANGED slow
  /\ EndStart(k)
  /\ UNCHANGED <<Collectors, managed>>

(* configureCodexHome, past the check of a start for another home.  It     *)
(* also looks for a collector of the target; its answer changes nothing.   *)
Configure(k, target) ==
  LET w == WindowOf(k) IN
  /\ At(k, "idle")
  /\ starting[w] # None => call[starting[w]].home = target
  /\ call' = [call EXCEPT ![k] = [NoCall EXCEPT !.at = IF home = target THEN "discover" ELSE "current",
                                                !.home = home, !.target = IF home = target THEN None ELSE target]]
  /\ UNCHANGED <<Collectors, managed, starting, slow>>

(* Mutant: the collector that answers is stopped, whoever started it. *)
MutCurrentSeen(k) ==
  LET w == WindowOf(k) h == call[k].home IN
  /\ At(k, "current")
  /\ \/ Unavailable(h) /\ GoTo(k, "move") /\ UNCHANGED managed
     \/ \E p \in Processes :
          /\ Found(h, p)
          /\ call' = [call EXCEPT ![k].at = "verify", ![k].client = p]
          /\ managed' = [managed EXCEPT ![w] = NoManaged]
  /\ UNCHANGED <<Collectors, starting>>

(* stopOrRejectCurrentCollector, and deactivate which goes straight to stop. *)
CurrentSeen(k) ==
  LET w == WindowOf(k) h == call[k].home IN
  /\ At(k, "current")
  /\ \/ Unavailable(h) /\ GoTo(k, "move") /\ UNCHANGED managed
     \/ \E p \in Processes :
          /\ Found(h, p)
          /\ IF managed[w] = [client |-> p, home |-> h]
               THEN /\ call' = [call EXCEPT ![k].at = "verify", ![k].client = p]
                    /\ managed' = [managed EXCEPT ![w] = NoManaged]
               ELSE Return(k) /\ UNCHANGED managed
  /\ UNCHANGED <<Collectors, starting>>

Deactivate(k) ==
  LET w == WindowOf(k) IN
  /\ At(k, "idle")
  /\ managed[w] # NoManaged
  /\ managed' = [managed EXCEPT ![w] = NoManaged]
  /\ call' = [call EXCEPT ![k] = [NoCall EXCEPT !.at = "verify", !.home = managed[w].home,
                                                !.client = managed[w].client, !.leave = TRUE]]
  /\ UNCHANGED <<Collectors, starting, slow>>

Stopped(k) == IF call[k].leave THEN Return(k) ELSE GoTo(k, "move")

(* stopManagedAgent looks again: the collector may have been replaced. *)
Verify(k) ==
  LET h == call[k].home IN
  /\ At(k, "verify")
  /\ \/ Unavailable(h) /\ Stopped(k)
     \/ \E p \in Processes :
          /\ Found(h, p)
          /\ IF p = call[k].client THEN GoTo(k, "post") ELSE Return(k)
  /\ UNCHANGED <<Collectors, managed, starting>>

(* The request reaches the port that was discovered, if it still answers. *)
PostShutdown(k) ==
  LET p == call[k].client IN
  /\ At(k, "post")
  /\ process' = [process EXCEPT ![p].stop = @ \/ Phase(p) = "running"]
  /\ GoTo(k, "waitStop")
  /\ UNCHANGED <<home, lock, descriptor, open, managed, starting, slow>>

WaitStop(k) ==
  /\ At(k, "waitStop")
  /\ \/ Unavailable(call[k].home) /\ Stopped(k)
     \/ \E p \in Processes : Found(call[k].home, p) /\ Return(k)
  /\ UNCHANGED <<Collectors, managed, starting>>

(* --set-codex-home, then acquire. *)
Move(k) ==
  /\ At(k, "move")
  /\ home' = call[k].target
  /\ call' = [call EXCEPT ![k] = [NoCall EXCEPT !.at = "discover", !.home = call[k].target]]
  /\ UNCHANGED <<lock, descriptor, process, open, managed, starting, slow>>

(* A running collector writes all settings back, its own home among them. *)
SaveSettings(p) ==
  /\ Phase(p) = "running"
  /\ home # process[p].home
  /\ home' = process[p].home
  /\ UNCHANGED <<lock, descriptor, process, Clients>>

(* A window closes, or its extension host dies. *)
CloseWindow(w) ==
  /\ w \in open
  /\ open' = open \ {w}
  /\ managed' = [managed EXCEPT ![w] = NoManaged]
  /\ starting' = [starting EXCEPT ![w] = None]
  /\ call' = [k \in Callers |-> IF WindowOf(k) = w THEN NoCall ELSE call[k]]
  /\ UNCHANGED <<home, lock, descriptor, process, slow>>

-----------------------------------------------------------------------------
ProcessStep(p) ==
  \/ LoadSettings(p) \/ TakeLock(p) \/ Advertise(p) \/ CloseApi(p)
  \/ ReleaseLock(p) \/ MonitorParent(p)

CallStep(k) ==
  \/ Acquired(k) \/ NotFound(k) \/ SetHome(k) \/ Started(k) \/ StartFails(k)
  \/ CurrentSeen(k) \/ Verify(k) \/ PostShutdown(k) \/ WaitStop(k) \/ Move(k)
  \/ \E p \in Processes : Spawn(k, p)

Next ==
  \/ \E p \in Processes : ProcessStep(p) \/ StartService(p) \/ Crash(p) \/ SaveSettings(p)
  \/ \E k \in Callers : CallStep(k) \/ Acquire(k) \/ Deactivate(k) \/ \E h \in Homes : Configure(k, h)
  \/ \E w \in Windows : CloseWindow(w)

(* The threads of a collector process are scheduled. *)
Fairness == \A p \in Processes : WF_vars(ProcessStep(p))

Spec == Init /\ [][Next]_vars
FairSpec == Spec /\ Fairness

-----------------------------------------------------------------------------
(* Properties. *)

(* The descriptor of a running collector names it, and the ledger lock of  *)
(* its home is its own: no other start, failed start, stop or crash takes  *)
(* either away (agent_runtime.start and stop, write_agent_descriptor).     *)
RunningIsAdvertised ==
  \A p \in Processes : Phase(p) = "running" =>
    descriptor[process[p].home] = p /\ lock[process[p].home] = p

(* A collector is told to stop only when its own window is gone or by a    *)
(* caller of the window that launched it: never the collector of another   *)
(* window, of a service, or the one that replaced the one it knew          *)
(* (AgentSupervisor.stopManagedAgent, agent_parent).                       *)
StopsOnlyOwn ==
  [][\A p \in Processes : process'[p].stop /\ ~process[p].stop =>
       /\ process[p].parent # None
       /\ \/ process[p].parent \notin open
          \/ \E k \in Callers : call[k].at = "post" /\ WindowOf(k) = process[p].parent]_vars

(* A caller that awaits the start in progress awaits one that is really    *)
(* run, for its own home, in its own window (AgentSupervisor.acquire).     *)
AwaitedStartRuns ==
  \A k \in Callers : call[k].at = "await" =>
    LET starter == starting[WindowOf(k)] IN
    /\ starter # None
    /\ call[starter].at \in {"set", "spawn", "wait"}
    /\ call[starter].home = call[k].home

(* What these two follow from: who is past the lock is its holder, and a   *)
(* descriptor never outlives its process but by the process's death.       *)
Holding == {"locked", "running", "closing"}

HolderHasLock ==
  \A p \in Processes :
    /\ Phase(p) \in Holding \cup {"loaded"} => process[p].home \in Homes
    /\ Phase(p) \in Holding => lock[process[p].home] = p

LockIsHeld ==
  \A h \in Homes : lock[h] # None =>
    Phase(lock[h]) \in Holding /\ process[lock[h]].home = h

DescriptorIsOfItsHome ==
  \A h \in Homes : descriptor[h] # None /\ Phase(descriptor[h]) # "dead" =>
    /\ Phase(descriptor[h]) \in {"running", "closing"}
    /\ process[descriptor[h]].home = h

(* The caller a window names as the one that starts is in startTransient-  *)
(* Agent, and it is the only one there.                                    *)
StarterStarts ==
  /\ \A w \in Windows : starting[w] # None =>
       WindowOf(starting[w]) = w /\ call[starting[w]].at \in {"set", "spawn", "wait"}
  /\ \A k \in Callers : call[k].at \in {"set", "spawn", "wait"} =>
       starting[WindowOf(k)] = k

(* A call knows what its next step reads.                                  *)
CallIsComplete ==
  \A k \in Callers :
    /\ call[k].at # "idle" => call[k].home \in Homes
    /\ call[k].at \in {"current", "move"} => call[k].target \in Homes
    /\ call[k].at \in {"verify", "post", "waitStop"} =>
         call[k].leave \/ call[k].target \in Homes

(* What a window manages, and a caller is about to stop, is a process that *)
(* window launched, as long as it lives.                                   *)
LaunchedBy(p, w) ==
  p \in Processes /\ Phase(p) # "unused" /\ (Phase(p) = "dead" \/ process[p].parent = w)

ManagedIsOwn ==
  \A w \in Windows : managed[w] # NoManaged =>
    LaunchedBy(managed[w].client, w) /\ managed[w].home \in Homes

StoppedIsOwn ==
  \A k \in Callers : call[k].at \in {"verify", "post", "waitStop"} =>
    LaunchedBy(call[k].client, WindowOf(k))

(* One writer answers for a home, a start that was waited for runs, and    *)
(* what both follow from.                                                  *)
LifecycleInv ==
  /\ TypeOK /\ RunningIsAdvertised /\ AwaitedStartRuns
  /\ HolderHasLock /\ LockIsHeld /\ DescriptorIsOfItsHome /\ StarterStarts
  /\ CallIsComplete /\ ManagedIsOwn /\ StoppedIsOwn

(* Every collector ends once its window is gone, wherever the window left  *)
(* its start or its stop (README: closing the last extension host stops    *)
(* its parent-bound collector).                                            *)
OrphansEnd ==
  \A p \in Processes :
    (process[p].parent # None /\ process[p].parent \notin open) ~> (Phase(p) = "dead")

(* Each home's lock holder writes, its advertised process answers.         *)
Ownership == INSTANCE Collector WITH
  writer <- lock,
  api <- [h \in Homes |-> IF Answers(descriptor[h]) THEN descriptor[h] ELSE None]

(* No client finds a collector that does not own its ledger, and a         *)
(* collector stops answering before another may start (Collector).         *)
ImplementsCollector == Ownership!Spec

=============================================================================
