----------------------- MODULE AgentLifecycle_proofs ------------------------
(***************************************************************************)
(* Who owns a home, who may stop whom, and what clients are promised, for  *)
(* any number of homes, windows, callers and processes.                    *)
(*                                                                         *)
(* LifecycleInv is inductive.  That one writer answers follows from the    *)
(* lock: who is past it is its holder, so the two facts are carried        *)
(* together, with the home of a descriptor's process.  That only its own   *)
(* window stops a collector follows from what a call remembers between     *)
(* its steps: the process it manages is one its window launched.           *)
(***************************************************************************)
EXTENDS AgentLifecycle, TLAPS

(* The process p, and nothing else of the processes, is now as given.      *)
Launched(p, phase, h, parent, stop) ==
  /\ process' \in [Processes -> Launches]
  /\ process'[p].phase = phase /\ process'[p].home = h
  /\ process'[p].parent = parent /\ process'[p].stop = stop
  /\ \A q \in Processes \ {p} : process'[q] = process[q]

(* The call of k, and no other, is now as given.                           *)
Called(k, at, h, target, client, leave) ==
  /\ call' \in [Callers -> Calls]
  /\ call'[k].at = at /\ call'[k].home = h /\ call'[k].target = target
  /\ call'[k].client = client /\ call'[k].leave = leave
  /\ \A d \in Callers \ {k} : call'[d] = call[d]

MovedTo(k, at) ==
  Called(k, at, call[k].home, call[k].target, call[k].client, call[k].leave)

Ended(k) == Called(k, "idle", None, None, None, FALSE)

LEMMA BecomesEffect ==
  ASSUME TypeOK, NEW p \in Processes, NEW phase \in Phases, Becomes(p, phase)
  PROVE  Launched(p, phase, process[p].home, process[p].parent, process[p].stop)
BY DEF TypeOK, Becomes, Launched, Launches

LEMMA DiesEffect ==
  ASSUME TypeOK, NEW p \in Processes, Dies(p)
  PROVE  Launched(p, "dead", None, None, FALSE)
BY DEF TypeOK, Dies, NoProcess, Launched, Launches, Phases

LEMMA GoToEffect ==
  ASSUME TypeOK, NEW k \in Callers, NEW at \in Steps, GoTo(k, at)
  PROVE  MovedTo(k, at)
BY DEF TypeOK, GoTo, MovedTo, Called, Calls

LEMMA ReturnEffect ==
  ASSUME TypeOK, NEW k \in Callers, Return(k)
  PROVE  Ended(k)
BY DEF TypeOK, Return, NoCall, Ended, Called, Calls, Steps

(* No process leaves the dead, becomes unused or changes its parent.       *)
LaunchesKept ==
  \A p \in Processes :
    \/ process[p].phase = "unused"
    \/ process'[p].phase = "dead"
    \/ /\ process[p].phase # "dead" /\ process'[p].phase # "unused"
       /\ process'[p].parent = process[p].parent

LEMMA ManagedKept ==
  ASSUME TypeOK, ManagedIsOwn, LaunchesKept, managed' = managed
  PROVE  ManagedIsOwn'
<1> SUFFICES ASSUME NEW w \in Windows, managed[w] # NoManaged
             PROVE  LaunchedBy(managed[w].client, w)' /\ managed[w].home \in Homes
  BY DEF ManagedIsOwn, NoManaged
<1>1. LaunchedBy(managed[w].client, w) /\ managed[w].home \in Homes
  BY DEF ManagedIsOwn
<1> QED
  BY <1>1 DEF LaunchedBy, LaunchesKept, Phase

LEMMA StoppedKept ==
  ASSUME TypeOK, StoppedIsOwn, LaunchesKept, call' = call
  PROVE  StoppedIsOwn'
BY DEF StoppedIsOwn, LaunchedBy, LaunchesKept, Phase

LEMMA UnavailableEffect ==
  ASSUME TypeOK, NEW h \in Homes, Unavailable(h)
  PROVE  slow' \in 0..MaxSlow
BY SlowAssumption DEF TypeOK, Unavailable

-----------------------------------------------------------------------------
LEMMA LifecycleInvInit == Init => LifecycleInv
<1> SUFFICES ASSUME Init PROVE LifecycleInv
  OBVIOUS
<1>1. /\ NoProcess \in Launches /\ NoCall \in Calls
      /\ NoManaged \in Managements
  BY DEF NoProcess, NoCall, NoManaged, Launches, Calls, Managements, Phases,
         Steps
<1>2. TypeOK
  BY <1>1, HomeAssumption, SlowAssumption DEF Init, TypeOK
<1>3. RunningIsAdvertised /\ HolderHasLock /\ LockIsHeld
  BY DEF Init, RunningIsAdvertised, HolderHasLock, LockIsHeld, Holding, Phase,
         NoProcess
<1>4. DescriptorIsOfItsHome /\ ManagedIsOwn
  BY DEF Init, DescriptorIsOfItsHome, ManagedIsOwn
<1>5. AwaitedStartRuns /\ StarterStarts /\ CallIsComplete /\ StoppedIsOwn
  BY CallersAssumption
     DEF Init, AwaitedStartRuns, StarterStarts, CallIsComplete, StoppedIsOwn,
         NoCall
<1> QED
  BY <1>2, <1>3, <1>4, <1>5 DEF LifecycleInv

(* One step per action; under it the conjuncts it can disturb, then the    *)
(* ones whose variables it leaves alone.                                   *)
LEMMA LifecycleInvStep == LifecycleInv /\ [Next]_vars => LifecycleInv'
<1> SUFFICES ASSUME TypeOK, RunningIsAdvertised, AwaitedStartRuns,
   HolderHasLock, LockIsHeld, DescriptorIsOfItsHome, StarterStarts,
   CallIsComplete, ManagedIsOwn, StoppedIsOwn, [Next]_vars
             PROVE  LifecycleInv'
  BY DEF LifecycleInv
<1>1. ASSUME NEW p \in Processes, StartService(p)
      PROVE  LifecycleInv'
  <2>1. /\ process[p].phase = "unused"
        /\ Launched(p, "spawned", process[p].home, process[p].parent, process[p].stop)
        /\ UNCHANGED <<home, lock, descriptor, open, managed, starting, call, slow>>
    BY <1>1, TypeOK, BecomesEffect
       DEF StartService, IsNext, Phase, Phases, Clients
  <2>2. TypeOK'
    <3>1. process' \in [Processes -> Launches]
      BY <2>1, TypeOK, CallIsComplete, CallersAssumption, HolderHasLock,
         ManagedIsOwn
         DEF Launched, TypeOK, CallIsComplete, HolderHasLock, Holding,
             Phase, ManagedIsOwn, LaunchedBy, NoManaged
    <3> QED
      BY <2>1, TypeOK, <3>1 DEF TypeOK
  <2>3. RunningIsAdvertised'
    BY <2>1, RunningIsAdvertised
       DEF Launched, RunningIsAdvertised, Phase, Launches
  <2>4. HolderHasLock'
    BY <2>1, HolderHasLock
       DEF Launched, HolderHasLock, Holding, Phase, Launches
  <2>5. LockIsHeld'
    BY <2>1, LockIsHeld, TypeOK
       DEF Launched, LockIsHeld, Holding, Phase, TypeOK, Launches
  <2>6. DescriptorIsOfItsHome'
    BY <2>1, DescriptorIsOfItsHome, TypeOK
       DEF Launched, DescriptorIsOfItsHome, Phase, TypeOK, Launches
  <2>7. ManagedIsOwn'
    <3>1. LaunchesKept
      BY <2>1, TypeOK DEF LaunchesKept, Launched
    <3> QED
      BY <2>1, <3>1, TypeOK, ManagedIsOwn, ManagedKept
  <2>8. StoppedIsOwn'
    <3>1. LaunchesKept
      BY <2>1, TypeOK DEF LaunchesKept, Launched
    <3> QED
      BY <2>1, <3>1, TypeOK, StoppedIsOwn, StoppedKept
  <2>9. AwaitedStartRuns' /\ StarterStarts' /\ CallIsComplete'
    BY <2>1, AwaitedStartRuns, StarterStarts, CallIsComplete
       DEF Launched, AwaitedStartRuns, StarterStarts, CallIsComplete
  <2> QED
    BY <2>2, <2>3, <2>4, <2>5, <2>6, <2>7, <2>8, <2>9 DEF LifecycleInv
<1>2. ASSUME NEW p \in Processes, LoadSettings(p)
      PROVE  LifecycleInv'
  <2>1. /\ process[p].phase = "spawned"
        /\ Launched(p, "loaded", home, process[p].parent, process[p].stop)
        /\ UNCHANGED <<home, lock, descriptor, open, managed, starting, call, slow>>
    BY <1>2, TypeOK
       DEF LoadSettings, TypeOK, Launches, Launched, Phase, Phases, Clients
  <2>2. TypeOK'
    <3>1. process' \in [Processes -> Launches]
      BY <2>1, TypeOK, CallIsComplete, CallersAssumption, HolderHasLock,
         ManagedIsOwn
         DEF Launched, TypeOK, CallIsComplete, HolderHasLock, Holding,
             Phase, ManagedIsOwn, LaunchedBy, NoManaged
    <3> QED
      BY <2>1, TypeOK, <3>1 DEF TypeOK
  <2>3. RunningIsAdvertised'
    BY <2>1, RunningIsAdvertised
       DEF Launched, RunningIsAdvertised, Phase, Launches
  <2>4. HolderHasLock'
    BY <2>1, HolderHasLock, TypeOK
       DEF Launched, HolderHasLock, Holding, Phase, TypeOK, Launches
  <2>5. LockIsHeld'
    BY <2>1, LockIsHeld, TypeOK
       DEF Launched, LockIsHeld, Holding, Phase, TypeOK, Launches
  <2>6. DescriptorIsOfItsHome'
    BY <2>1, DescriptorIsOfItsHome, TypeOK
       DEF Launched, DescriptorIsOfItsHome, Phase, TypeOK, Launches
  <2>7. ManagedIsOwn'
    <3>1. LaunchesKept
      BY <2>1, TypeOK DEF LaunchesKept, Launched
    <3> QED
      BY <2>1, <3>1, TypeOK, ManagedIsOwn, ManagedKept
  <2>8. StoppedIsOwn'
    <3>1. LaunchesKept
      BY <2>1, TypeOK DEF LaunchesKept, Launched
    <3> QED
      BY <2>1, <3>1, TypeOK, StoppedIsOwn, StoppedKept
  <2>9. AwaitedStartRuns' /\ StarterStarts' /\ CallIsComplete'
    BY <2>1, AwaitedStartRuns, StarterStarts, CallIsComplete
       DEF Launched, AwaitedStartRuns, StarterStarts, CallIsComplete
  <2> QED
    BY <2>2, <2>3, <2>4, <2>5, <2>6, <2>7, <2>8, <2>9 DEF LifecycleInv
<1>3. ASSUME NEW p \in Processes, TakeLock(p)
      PROVE  LifecycleInv'
  <2>1. /\ process[p].phase = "loaded"
        /\ \/ /\ lock[process[p].home] = None
              /\ lock' = [lock EXCEPT ![process[p].home] = p]
              /\ Launched(p, "locked", process[p].home, process[p].parent, process[p].stop)
           \/ lock' = lock /\ Launched(p, "dead", None, None, FALSE)
        /\ UNCHANGED <<home, descriptor, open, managed, starting, call, slow>>
    BY <1>3, TypeOK, BecomesEffect, DiesEffect
       DEF TakeLock, Phase, Phases, Clients
  <2>2. TypeOK'
    <3>1. /\ lock' \in [Homes -> Processes \cup {None}]
          /\ process' \in [Processes -> Launches]
      BY <2>1, TypeOK, CallIsComplete, CallersAssumption, HolderHasLock,
         ManagedIsOwn
         DEF Launched, TypeOK, CallIsComplete, HolderHasLock, Holding,
             Phase, ManagedIsOwn, LaunchedBy, NoManaged
    <3> QED
      BY <2>1, TypeOK, <3>1 DEF TypeOK
  <2>3. RunningIsAdvertised'
    <3>1. CASE /\ lock[process[p].home] = None
               /\ lock' = [lock EXCEPT ![process[p].home] = p]
               /\ Launched(p, "locked", process[p].home, process[p].parent,
                           process[p].stop)
      BY <2>1, <3>1, TypeOK, HolderHasLock, RunningIsAdvertised, NoneAssumption
         DEF TypeOK, HolderHasLock, Holding, RunningIsAdvertised, Launched, Phase
    <3>2. CASE lock' = lock /\ Launched(p, "dead", None, None, FALSE)
      BY <2>1, <3>2, TypeOK, HolderHasLock, RunningIsAdvertised
         DEF TypeOK, HolderHasLock, Holding, RunningIsAdvertised, Launched, Phase
    <3> QED
      BY <2>1, <3>1, <3>2
  <2>4. HolderHasLock'
    <3>1. CASE /\ lock[process[p].home] = None
               /\ lock' = [lock EXCEPT ![process[p].home] = p]
               /\ Launched(p, "locked", process[p].home, process[p].parent,
                           process[p].stop)
      BY <2>1, <3>1, TypeOK, HolderHasLock, NoneAssumption
         DEF TypeOK, HolderHasLock, Holding, Launched, Phase
    <3>2. CASE lock' = lock /\ Launched(p, "dead", None, None, FALSE)
      BY <2>1, <3>2, TypeOK, HolderHasLock
         DEF TypeOK, HolderHasLock, Holding, Launched, Phase
    <3> QED
      BY <2>1, <3>1, <3>2
  <2>5. LockIsHeld'
    BY <2>1, LockIsHeld, TypeOK
       DEF Launched, LockIsHeld, Holding, Phase, TypeOK, Launches
  <2>6. DescriptorIsOfItsHome'
    BY <2>1, DescriptorIsOfItsHome, TypeOK
       DEF Launched, DescriptorIsOfItsHome, Phase, TypeOK, Launches
  <2>7. ManagedIsOwn'
    <3>1. LaunchesKept
      BY <2>1, TypeOK DEF LaunchesKept, Launched
    <3> QED
      BY <2>1, <3>1, TypeOK, ManagedIsOwn, ManagedKept
  <2>8. StoppedIsOwn'
    <3>1. LaunchesKept
      BY <2>1, TypeOK DEF LaunchesKept, Launched
    <3> QED
      BY <2>1, <3>1, TypeOK, StoppedIsOwn, StoppedKept
  <2>9. AwaitedStartRuns' /\ StarterStarts' /\ CallIsComplete'
    BY <2>1, AwaitedStartRuns, StarterStarts, CallIsComplete
       DEF Launched, AwaitedStartRuns, StarterStarts, CallIsComplete
  <2> QED
    BY <2>2, <2>3, <2>4, <2>5, <2>6, <2>7, <2>8, <2>9 DEF LifecycleInv
<1>4. ASSUME NEW p \in Processes, Advertise(p)
      PROVE  LifecycleInv'
  <2>1. /\ process[p].phase = "locked"
        /\ descriptor' = [descriptor EXCEPT ![process[p].home] = p]
        /\ Launched(p, "running", process[p].home, process[p].parent, process[p].stop)
        /\ UNCHANGED <<home, lock, open, managed, starting, call, slow>>
    BY <1>4, TypeOK, BecomesEffect DEF Advertise, Phase, Phases, Clients
  <2>2. TypeOK'
    <3>1. /\ descriptor' \in [Homes -> Processes \cup {None}]
          /\ process' \in [Processes -> Launches]
      BY <2>1, TypeOK, CallIsComplete, CallersAssumption, HolderHasLock,
         ManagedIsOwn
         DEF Launched, TypeOK, CallIsComplete, HolderHasLock, Holding,
             Phase, ManagedIsOwn, LaunchedBy, NoManaged
    <3> QED
      BY <2>1, TypeOK, <3>1 DEF TypeOK
  <2>3. RunningIsAdvertised'
    BY <2>1, RunningIsAdvertised, TypeOK, HolderHasLock
       DEF Launched, RunningIsAdvertised, Phase, TypeOK, HolderHasLock,
           Holding, Launches
  <2>4. HolderHasLock'
    BY <2>1, HolderHasLock
       DEF Launched, HolderHasLock, Holding, Phase, Launches
  <2>5. LockIsHeld'
    BY <2>1, LockIsHeld, TypeOK
       DEF Launched, LockIsHeld, Holding, Phase, TypeOK, Launches
  <2>6. DescriptorIsOfItsHome'
    BY <2>1, DescriptorIsOfItsHome, TypeOK
       DEF Launched, DescriptorIsOfItsHome, Phase, TypeOK, Launches
  <2>7. ManagedIsOwn'
    <3>1. LaunchesKept
      BY <2>1, TypeOK DEF LaunchesKept, Launched
    <3> QED
      BY <2>1, <3>1, TypeOK, ManagedIsOwn, ManagedKept
  <2>8. StoppedIsOwn'
    <3>1. LaunchesKept
      BY <2>1, TypeOK DEF LaunchesKept, Launched
    <3> QED
      BY <2>1, <3>1, TypeOK, StoppedIsOwn, StoppedKept
  <2>9. AwaitedStartRuns' /\ StarterStarts' /\ CallIsComplete'
    BY <2>1, AwaitedStartRuns, StarterStarts, CallIsComplete
       DEF Launched, AwaitedStartRuns, StarterStarts, CallIsComplete
  <2> QED
    BY <2>2, <2>3, <2>4, <2>5, <2>6, <2>7, <2>8, <2>9 DEF LifecycleInv
<1>5. ASSUME NEW p \in Processes, CloseApi(p)
      PROVE  LifecycleInv'
  <2>1. /\ process[p].phase \in {"locked", "running"}
        /\ Launched(p, "closing", process[p].home, process[p].parent, process[p].stop)
        /\ UNCHANGED <<home, lock, descriptor, open, managed, starting, call, slow>>
    BY <1>5, TypeOK, BecomesEffect DEF CloseApi, Phase, Phases, Clients
  <2>2. TypeOK'
    <3>1. process' \in [Processes -> Launches]
      BY <2>1, TypeOK, CallIsComplete, CallersAssumption, HolderHasLock,
         ManagedIsOwn
         DEF Launched, TypeOK, CallIsComplete, HolderHasLock, Holding,
             Phase, ManagedIsOwn, LaunchedBy, NoManaged
    <3> QED
      BY <2>1, TypeOK, <3>1 DEF TypeOK
  <2>3. RunningIsAdvertised'
    BY <2>1, RunningIsAdvertised
       DEF Launched, RunningIsAdvertised, Phase, Launches
  <2>4. HolderHasLock'
    BY <2>1, HolderHasLock
       DEF Launched, HolderHasLock, Holding, Phase, Launches
  <2>5. LockIsHeld'
    BY <2>1, LockIsHeld, TypeOK
       DEF Launched, LockIsHeld, Holding, Phase, TypeOK, Launches
  <2>6. DescriptorIsOfItsHome'
    BY <2>1, DescriptorIsOfItsHome, TypeOK
       DEF Launched, DescriptorIsOfItsHome, Phase, TypeOK, Launches
  <2>7. ManagedIsOwn'
    <3>1. LaunchesKept
      BY <2>1, TypeOK DEF LaunchesKept, Launched
    <3> QED
      BY <2>1, <3>1, TypeOK, ManagedIsOwn, ManagedKept
  <2>8. StoppedIsOwn'
    <3>1. LaunchesKept
      BY <2>1, TypeOK DEF LaunchesKept, Launched
    <3> QED
      BY <2>1, <3>1, TypeOK, StoppedIsOwn, StoppedKept
  <2>9. AwaitedStartRuns' /\ StarterStarts' /\ CallIsComplete'
    BY <2>1, AwaitedStartRuns, StarterStarts, CallIsComplete
       DEF Launched, AwaitedStartRuns, StarterStarts, CallIsComplete
  <2> QED
    BY <2>2, <2>3, <2>4, <2>5, <2>6, <2>7, <2>8, <2>9 DEF LifecycleInv
<1>6. ASSUME NEW p \in Processes, ReleaseLock(p)
      PROVE  LifecycleInv'
  <2>1. /\ process[p].phase = "closing"
        /\ descriptor' = [descriptor EXCEPT
             ![process[p].home] = IF @ = p THEN None ELSE @]
        /\ lock' = [lock EXCEPT ![process[p].home] = None]
        /\ Launched(p, "dead", None, None, FALSE)
        /\ UNCHANGED <<home, open, managed, starting, call, slow>>
    BY <1>6, TypeOK, DiesEffect DEF ReleaseLock, Phase, Clients
  <2>2. TypeOK'
    <3>1. /\ lock' \in [Homes -> Processes \cup {None}]
          /\ descriptor' \in [Homes -> Processes \cup {None}]
          /\ process' \in [Processes -> Launches]
      BY <2>1, TypeOK, CallIsComplete, CallersAssumption, HolderHasLock,
         ManagedIsOwn
         DEF Launched, TypeOK, CallIsComplete, HolderHasLock, Holding,
             Phase, ManagedIsOwn, LaunchedBy, NoManaged
    <3> QED
      BY <2>1, TypeOK, <3>1 DEF TypeOK
  <2>3. RunningIsAdvertised'
    BY <2>1, RunningIsAdvertised, HolderHasLock
       DEF Launched, RunningIsAdvertised, Phase, HolderHasLock, Holding,
           Launches
  <2>4. HolderHasLock'
    BY <2>1, HolderHasLock
       DEF Launched, HolderHasLock, Holding, Phase, Launches
  <2>5. LockIsHeld'
    BY <2>1, LockIsHeld, TypeOK
       DEF Launched, LockIsHeld, Phase, TypeOK, Launches
  <2>6. DescriptorIsOfItsHome'
    BY <2>1, DescriptorIsOfItsHome, TypeOK
       DEF Launched, DescriptorIsOfItsHome, Phase, TypeOK, Launches
  <2>7. ManagedIsOwn'
    <3>1. LaunchesKept
      BY <2>1, TypeOK DEF LaunchesKept, Launched
    <3> QED
      BY <2>1, <3>1, TypeOK, ManagedIsOwn, ManagedKept
  <2>8. StoppedIsOwn'
    <3>1. LaunchesKept
      BY <2>1, TypeOK DEF LaunchesKept, Launched
    <3> QED
      BY <2>1, <3>1, TypeOK, StoppedIsOwn, StoppedKept
  <2>9. AwaitedStartRuns' /\ StarterStarts' /\ CallIsComplete'
    BY <2>1, AwaitedStartRuns, StarterStarts, CallIsComplete
       DEF Launched, AwaitedStartRuns, StarterStarts, CallIsComplete
  <2> QED
    BY <2>2, <2>3, <2>4, <2>5, <2>6, <2>7, <2>8, <2>9 DEF LifecycleInv
<1>7. ASSUME NEW p \in Processes, Crash(p)
      PROVE  LifecycleInv'
  <2>1. /\ process[p].phase \notin {"unused", "dead"}
        /\ lock' = [h \in Homes |-> IF lock[h] = p THEN None ELSE lock[h]]
        /\ Launched(p, "dead", None, None, FALSE)
        /\ UNCHANGED <<home, descriptor, open, managed, starting, call, slow>>
    BY <1>7, TypeOK, DiesEffect DEF Crash, Phase, Clients
  <2>2. TypeOK'
    <3>1. /\ lock' \in [Homes -> Processes \cup {None}]
          /\ process' \in [Processes -> Launches]
      BY <2>1, TypeOK, CallIsComplete, CallersAssumption, HolderHasLock,
         ManagedIsOwn
         DEF Launched, TypeOK, CallIsComplete, HolderHasLock, Holding,
             Phase, ManagedIsOwn, LaunchedBy, NoManaged
    <3> QED
      BY <2>1, TypeOK, <3>1 DEF TypeOK
  <2>3. RunningIsAdvertised'
    BY <2>1, RunningIsAdvertised, HolderHasLock
       DEF Launched, RunningIsAdvertised, Phase, HolderHasLock, Holding,
           Launches
  <2>4. HolderHasLock'
    BY <2>1, HolderHasLock
       DEF Launched, HolderHasLock, Holding, Phase, Launches
  <2>5. LockIsHeld'
    BY <2>1, LockIsHeld, TypeOK
       DEF Launched, LockIsHeld, Phase, TypeOK, Launches
  <2>6. DescriptorIsOfItsHome'
    BY <2>1, DescriptorIsOfItsHome, TypeOK
       DEF Launched, DescriptorIsOfItsHome, Phase, TypeOK, Launches
  <2>7. ManagedIsOwn'
    <3>1. LaunchesKept
      BY <2>1, TypeOK DEF LaunchesKept, Launched
    <3> QED
      BY <2>1, <3>1, TypeOK, ManagedIsOwn, ManagedKept
  <2>8. StoppedIsOwn'
    <3>1. LaunchesKept
      BY <2>1, TypeOK DEF LaunchesKept, Launched
    <3> QED
      BY <2>1, <3>1, TypeOK, StoppedIsOwn, StoppedKept
  <2>9. AwaitedStartRuns' /\ StarterStarts' /\ CallIsComplete'
    BY <2>1, AwaitedStartRuns, StarterStarts, CallIsComplete
       DEF Launched, AwaitedStartRuns, StarterStarts, CallIsComplete
  <2> QED
    BY <2>2, <2>3, <2>4, <2>5, <2>6, <2>7, <2>8, <2>9 DEF LifecycleInv
<1>8. ASSUME NEW p \in Processes, MonitorParent(p)
      PROVE  LifecycleInv'
  <2>1. /\ process[p].parent # None /\ process[p].parent \notin open
        /\ Launched(p, process[p].phase, process[p].home, process[p].parent, TRUE)
        /\ UNCHANGED <<home, lock, descriptor, open, managed, starting, call, slow>>
    BY <1>8, TypeOK
       DEF MonitorParent, TypeOK, Launches, Launched, Clients
  <2>2. TypeOK'
    <3>1. process' \in [Processes -> Launches]
      BY <2>1, TypeOK, CallIsComplete, CallersAssumption, HolderHasLock,
         ManagedIsOwn
         DEF Launched, TypeOK, CallIsComplete, HolderHasLock, Holding,
             Phase, ManagedIsOwn, LaunchedBy, NoManaged
    <3> QED
      BY <2>1, TypeOK, <3>1 DEF TypeOK
  <2>3. RunningIsAdvertised'
    BY <2>1, RunningIsAdvertised
       DEF Launched, RunningIsAdvertised, Phase, Launches
  <2>4. HolderHasLock'
    BY <2>1, HolderHasLock DEF Launched, HolderHasLock, Phase, Launches
  <2>5. LockIsHeld'
    BY <2>1, LockIsHeld, TypeOK
       DEF Launched, LockIsHeld, Phase, TypeOK, Launches
  <2>6. DescriptorIsOfItsHome'
    BY <2>1, DescriptorIsOfItsHome, TypeOK
       DEF Launched, DescriptorIsOfItsHome, Phase, TypeOK, Launches
  <2>7. ManagedIsOwn'
    <3>1. LaunchesKept
      BY <2>1, TypeOK DEF LaunchesKept, Launched
    <3> QED
      BY <2>1, <3>1, TypeOK, ManagedIsOwn, ManagedKept
  <2>8. StoppedIsOwn'
    <3>1. LaunchesKept
      BY <2>1, TypeOK DEF LaunchesKept, Launched
    <3> QED
      BY <2>1, <3>1, TypeOK, StoppedIsOwn, StoppedKept
  <2>9. AwaitedStartRuns' /\ StarterStarts' /\ CallIsComplete'
    BY <2>1, AwaitedStartRuns, StarterStarts, CallIsComplete
       DEF Launched, AwaitedStartRuns, StarterStarts, CallIsComplete
  <2> QED
    BY <2>2, <2>3, <2>4, <2>5, <2>6, <2>7, <2>8, <2>9 DEF LifecycleInv
<1>9. ASSUME NEW k \in Callers, Acquire(k)
      PROVE  LifecycleInv'
  <2>1. /\ call[k].at = "idle"
        /\ Called(k, "discover", home, call[k].target, call[k].client,
                  call[k].leave)
        /\ UNCHANGED <<home, lock, descriptor, process, open, managed, starting, slow>>
    BY <1>9, TypeOK
       DEF Acquire, At, TypeOK, Calls, Steps, Called, Collectors
  <2>2. TypeOK'
    <3>1. call' \in [Callers -> Calls]
      BY <2>1, TypeOK, CallIsComplete, CallersAssumption, HolderHasLock,
         ManagedIsOwn
         DEF Called, MovedTo, Ended, TypeOK, CallIsComplete, HolderHasLock,
             Holding, Phase, ManagedIsOwn, LaunchedBy, NoManaged, Steps,
             Calls
    <3> QED
      BY <2>1, TypeOK, <3>1 DEF TypeOK
  <2>3. AwaitedStartRuns'
    BY <2>1, AwaitedStartRuns, TypeOK, CallersAssumption
       DEF Called, MovedTo, Ended, AwaitedStartRuns, TypeOK, Calls
  <2>4. StarterStarts'
    BY <2>1, StarterStarts, TypeOK
       DEF Called, MovedTo, Ended, StarterStarts, TypeOK, Calls
  <2>5. CallIsComplete'
    BY <2>1, CallIsComplete, TypeOK
       DEF Called, MovedTo, Ended, CallIsComplete, TypeOK, Calls
  <2>6. StoppedIsOwn'
    BY <2>1, StoppedIsOwn
       DEF Called, MovedTo, Ended, StoppedIsOwn, LaunchedBy, Phase, Calls
  <2>7. RunningIsAdvertised' /\ HolderHasLock' /\ LockIsHeld' /\
     DescriptorIsOfItsHome' /\ ManagedIsOwn'
    BY <2>1, RunningIsAdvertised, HolderHasLock, LockIsHeld,
       DescriptorIsOfItsHome, ManagedIsOwn
       DEF Called, MovedTo, Ended, RunningIsAdvertised, Phase,
           HolderHasLock, LockIsHeld, DescriptorIsOfItsHome, ManagedIsOwn,
           LaunchedBy
  <2> QED
    BY <2>2, <2>3, <2>4, <2>5, <2>6, <2>7 DEF LifecycleInv
<1>10. ASSUME NEW k \in Callers, Acquired(k)
      PROVE  LifecycleInv'
  <2>1. /\ call[k].at = "discover"
        /\ Ended(k)
        /\ UNCHANGED <<home, lock, descriptor, process, open, managed, starting, slow>>
    BY <1>10, TypeOK, ReturnEffect DEF Acquired, At, Found, Collectors
  <2>2. TypeOK'
    <3>1. call' \in [Callers -> Calls]
      BY <2>1, TypeOK, CallIsComplete, CallersAssumption, HolderHasLock,
         ManagedIsOwn
         DEF Called, MovedTo, Ended, TypeOK, CallIsComplete, HolderHasLock,
             Holding, Phase, ManagedIsOwn, LaunchedBy, NoManaged, Steps,
             Calls
    <3> QED
      BY <2>1, TypeOK, <3>1 DEF TypeOK
  <2>3. AwaitedStartRuns'
    BY <2>1, AwaitedStartRuns, TypeOK, CallersAssumption
       DEF Called, MovedTo, Ended, AwaitedStartRuns, TypeOK, Calls
  <2>4. StarterStarts'
    BY <2>1, StarterStarts, TypeOK
       DEF Called, MovedTo, Ended, StarterStarts, TypeOK, Calls
  <2>5. CallIsComplete'
    BY <2>1, CallIsComplete DEF Called, MovedTo, Ended, CallIsComplete, Calls
  <2>6. StoppedIsOwn'
    BY <2>1, StoppedIsOwn
       DEF Called, MovedTo, Ended, StoppedIsOwn, LaunchedBy, Phase, Calls
  <2>7. RunningIsAdvertised' /\ HolderHasLock' /\ LockIsHeld' /\
     DescriptorIsOfItsHome' /\ ManagedIsOwn'
    BY <2>1, RunningIsAdvertised, HolderHasLock, LockIsHeld,
       DescriptorIsOfItsHome, ManagedIsOwn
       DEF Called, MovedTo, Ended, RunningIsAdvertised, Phase,
           HolderHasLock, LockIsHeld, DescriptorIsOfItsHome, ManagedIsOwn,
           LaunchedBy
  <2> QED
    BY <2>2, <2>3, <2>4, <2>5, <2>6, <2>7 DEF LifecycleInv
<1>11. ASSUME NEW k \in Callers, NotFound(k)
      PROVE  LifecycleInv'
  <2>1. /\ call[k].at = "discover"
        /\ \/ /\ starting[WindowOf(k)] = None
              /\ starting' = [starting EXCEPT ![WindowOf(k)] = k]
              /\ MovedTo(k, "set")
           \/ /\ starting[WindowOf(k)] # None /\ starting' = starting
              /\ \/ /\ call[starting[WindowOf(k)]].home = call[k].home
                    /\ MovedTo(k, "await")
                 \/ Ended(k)
        /\ slow' \in 0..MaxSlow
        /\ UNCHANGED <<home, lock, descriptor, process, open, managed>>
    BY <1>11, TypeOK, CallIsComplete, GoToEffect, ReturnEffect,
       UnavailableEffect
       DEF NotFound, At, Steps, CallIsComplete, Collectors
  <2>2. TypeOK'
    <3>1. /\ starting' \in [Windows -> Callers \cup {None}]
          /\ call' \in [Callers -> Calls]
          /\ slow' \in 0..MaxSlow
      BY <2>1, TypeOK, CallIsComplete, CallersAssumption, HolderHasLock,
         ManagedIsOwn
         DEF Called, MovedTo, Ended, TypeOK, CallIsComplete, HolderHasLock,
             Holding, Phase, ManagedIsOwn, LaunchedBy, NoManaged, Steps,
             Calls
    <3> QED
      BY <2>1, TypeOK, <3>1 DEF TypeOK
  <2>3. AwaitedStartRuns'
    BY <2>1, AwaitedStartRuns, TypeOK, StarterStarts, CallersAssumption
       DEF Called, MovedTo, Ended, AwaitedStartRuns, TypeOK, StarterStarts,
           Calls
  <2>4. StarterStarts'
    <3>1. WindowOf(k) \in Windows /\ call[k].at = "discover"
      BY <2>1, CallersAssumption
    <3>2. CASE /\ starting[WindowOf(k)] = None
               /\ starting' = [starting EXCEPT ![WindowOf(k)] = k]
               /\ MovedTo(k, "set")
      BY <3>1, <3>2, TypeOK, StarterStarts, CallersAssumption, NoneAssumption
         DEF TypeOK, StarterStarts, MovedTo, Called
    <3>3. CASE starting' = starting /\ (MovedTo(k, "await") \/ Ended(k))
      BY <3>1, <3>3, TypeOK, StarterStarts
         DEF TypeOK, StarterStarts, MovedTo, Ended, Called
    <3> QED
      BY <2>1, <3>2, <3>3
  <2>5. CallIsComplete'
    BY <2>1, CallIsComplete DEF Called, MovedTo, Ended, CallIsComplete, Calls
  <2>6. StoppedIsOwn'
    BY <2>1, StoppedIsOwn
       DEF Called, MovedTo, Ended, StoppedIsOwn, LaunchedBy, Phase, Calls
  <2>7. RunningIsAdvertised' /\ HolderHasLock' /\ LockIsHeld' /\
     DescriptorIsOfItsHome' /\ ManagedIsOwn'
    BY <2>1, RunningIsAdvertised, HolderHasLock, LockIsHeld,
       DescriptorIsOfItsHome, ManagedIsOwn
       DEF Called, MovedTo, Ended, RunningIsAdvertised, Phase,
           HolderHasLock, LockIsHeld, DescriptorIsOfItsHome, ManagedIsOwn,
           LaunchedBy
  <2> QED
    BY <2>2, <2>3, <2>4, <2>5, <2>6, <2>7 DEF LifecycleInv
<1>12. ASSUME NEW k \in Callers, SetHome(k)
      PROVE  LifecycleInv'
  <2>1. /\ call[k].at = "set"
        /\ home' = call[k].home
        /\ MovedTo(k, "spawn")
        /\ UNCHANGED <<lock, descriptor, process, open, managed, starting, slow>>
    BY <1>12, TypeOK, GoToEffect DEF SetHome, At, Steps
  <2>2. TypeOK'
    <3>1. /\ home' \in Homes
          /\ call' \in [Callers -> Calls]
      BY <2>1, TypeOK, CallIsComplete, CallersAssumption, HolderHasLock,
         ManagedIsOwn
         DEF Called, MovedTo, Ended, TypeOK, CallIsComplete, HolderHasLock,
             Holding, Phase, ManagedIsOwn, LaunchedBy, NoManaged, Steps,
             Calls
    <3> QED
      BY <2>1, TypeOK, <3>1 DEF TypeOK
  <2>3. AwaitedStartRuns'
    BY <2>1, AwaitedStartRuns, TypeOK, CallersAssumption
       DEF Called, MovedTo, Ended, AwaitedStartRuns, TypeOK, Calls
  <2>4. StarterStarts'
    BY <2>1, StarterStarts, TypeOK
       DEF Called, MovedTo, Ended, StarterStarts, TypeOK, Calls
  <2>5. CallIsComplete'
    BY <2>1, CallIsComplete DEF Called, MovedTo, Ended, CallIsComplete, Calls
  <2>6. StoppedIsOwn'
    BY <2>1, StoppedIsOwn
       DEF Called, MovedTo, Ended, StoppedIsOwn, LaunchedBy, Phase, Calls
  <2>7. RunningIsAdvertised' /\ HolderHasLock' /\ LockIsHeld' /\
     DescriptorIsOfItsHome' /\ ManagedIsOwn'
    BY <2>1, RunningIsAdvertised, HolderHasLock, LockIsHeld,
       DescriptorIsOfItsHome, ManagedIsOwn
       DEF Called, MovedTo, Ended, RunningIsAdvertised, Phase,
           HolderHasLock, LockIsHeld, DescriptorIsOfItsHome, ManagedIsOwn,
           LaunchedBy
  <2> QED
    BY <2>2, <2>3, <2>4, <2>5, <2>6, <2>7 DEF LifecycleInv
<1>13. ASSUME NEW k \in Callers, NEW p \in Processes, Spawn(k, p)
      PROVE  LifecycleInv'
  <2>1. /\ call[k].at = "spawn" /\ process[p].phase = "unused"
        /\ Launched(p, "spawned", process[p].home, WindowOf(k), process[p].stop)
        /\ Called(k, "wait", call[k].home, call[k].target, p, call[k].leave)
        /\ UNCHANGED <<home, lock, descriptor, open, managed, starting, slow>>
    <3>1. Launched(p, "spawned", process[p].home, WindowOf(k), process[p].stop)
      BY <1>13, TypeOK, CallersAssumption
         DEF Spawn, TypeOK, Launches, Phases, Launched
    <3>2. Called(k, "wait", call[k].home, call[k].target, p, call[k].leave)
      BY <1>13, TypeOK DEF Spawn, TypeOK, Calls, Steps, Called
    <3> QED
      BY <1>13, <3>1, <3>2 DEF Spawn, At, IsNext, Phase
  <2>2. TypeOK'
    <3>1. /\ process' \in [Processes -> Launches]
          /\ call' \in [Callers -> Calls]
      BY <2>1, TypeOK, CallIsComplete, CallersAssumption, HolderHasLock,
         ManagedIsOwn
         DEF Launched, Called, MovedTo, Ended, TypeOK, CallIsComplete,
             HolderHasLock, Holding, Phase, ManagedIsOwn, LaunchedBy,
             NoManaged, Steps, Calls
    <3> QED
      BY <2>1, TypeOK, <3>1 DEF TypeOK
  <2>3. RunningIsAdvertised'
    BY <2>1, RunningIsAdvertised
       DEF Launched, Called, MovedTo, Ended, RunningIsAdvertised, Phase,
           Launches, Calls
  <2>4. AwaitedStartRuns'
    BY <2>1, AwaitedStartRuns, TypeOK, StarterStarts, CallersAssumption
       DEF Launched, Called, MovedTo, Ended, AwaitedStartRuns, TypeOK,
           StarterStarts, Launches, Calls
  <2>5. HolderHasLock'
    BY <2>1, HolderHasLock
       DEF Launched, Called, MovedTo, Ended, HolderHasLock, Holding, Phase,
           Launches, Calls
  <2>6. LockIsHeld'
    BY <2>1, LockIsHeld, TypeOK
       DEF Launched, Called, MovedTo, Ended, LockIsHeld, Holding, Phase,
           TypeOK, Launches, Calls
  <2>7. DescriptorIsOfItsHome'
    BY <2>1, DescriptorIsOfItsHome, TypeOK
       DEF Launched, Called, MovedTo, Ended, DescriptorIsOfItsHome, Phase,
           TypeOK, Launches, Calls
  <2>8. StarterStarts'
    BY <2>1, TypeOK, StarterStarts, CallersAssumption
       DEF StarterStarts, TypeOK, MovedTo, Called
  <2>9. CallIsComplete'
    BY <2>1, CallIsComplete
       DEF Launched, Called, MovedTo, Ended, CallIsComplete, Launches, Calls
  <2>10. ManagedIsOwn'
    <3>1. LaunchesKept
      BY <2>1, TypeOK DEF LaunchesKept, Launched
    <3> QED
      BY <2>1, <3>1, TypeOK, ManagedIsOwn, ManagedKept
  <2>11. StoppedIsOwn'
    BY <2>1, StoppedIsOwn, ManagedIsOwn, CallersAssumption
       DEF Launched, Called, MovedTo, Ended, StoppedIsOwn, LaunchedBy,
           Phase, Launches, Calls
  <2> QED
    BY <2>2, <2>3, <2>4, <2>5, <2>6, <2>7, <2>8, <2>9, <2>10, <2>11
       DEF LifecycleInv
<1>14. ASSUME NEW k \in Callers, Started(k)
      PROVE  LifecycleInv'
  <2>1. TypeOK'
    <3>1. NoCall \in Calls
      BY DEF NoCall, Calls, Steps
    <3>2. starting' \in [Windows -> Callers \cup {None}]
      BY <1>14, TypeOK DEF Started, EndStart, TypeOK
    <3>3. call' \in [Callers -> Calls]
      BY <1>14, <3>1, TypeOK DEF Started, EndStart, TypeOK
    <3>4. call[k].home \in Homes
      BY <1>14, CallIsComplete DEF Started, At, CallIsComplete
    <3>5. managed' \in [Windows -> Managements]
      <4>1. \A p \in Processes :
              [client |-> p, home |-> call[k].home] \in Managements
        BY <3>4 DEF Managements
      <4> QED
        BY <1>14, <4>1, TypeOK DEF Started, OwnedBy, TypeOK
    <3>6. slow' \in 0..MaxSlow
      BY <1>14, TypeOK DEF Started, Found, TypeOK
    <3> QED
      BY <1>14, <3>2, <3>3, <3>5, <3>6, TypeOK DEF Started, Collectors, TypeOK
  <2>2. AwaitedStartRuns'
    BY <1>14, AwaitedStartRuns, TypeOK, StarterStarts, CallersAssumption
       DEF Started, Answers, OwnedBy, EndStart, NoCall, AwaitedStartRuns,
           TypeOK, StarterStarts, Calls
  <2>3. StarterStarts'
    BY <1>14, StarterStarts, TypeOK
       DEF Started, At, Answers, OwnedBy, EndStart, NoCall, StarterStarts,
           TypeOK, Calls
  <2>4. CallIsComplete'
    BY <1>14, CallIsComplete
       DEF Started, Answers, OwnedBy, EndStart, NoCall, CallIsComplete,
           Calls
  <2>5. ManagedIsOwn'
    <3>1. call[k].home \in Homes /\ WindowOf(k) \in Windows
      BY <1>14, CallIsComplete, CallersAssumption
         DEF Started, At, CallIsComplete
    <3>2. PICK p \in Processes :
            /\ Found(call[k].home, p)
            /\ managed' = IF OwnedBy(p, WindowOf(k), call[k].client)
                            THEN [managed EXCEPT ![WindowOf(k)] =
                                    [client |-> p, home |-> call[k].home]]
                            ELSE managed
      BY <1>14 DEF Started
    <3>3. UNCHANGED process
      BY <1>14 DEF Started, Collectors
    <3>4. CASE managed' = managed
      BY <3>3, <3>4, ManagedIsOwn
         DEF ManagedIsOwn, LaunchedBy, Phase, NoManaged
    <3>5. CASE /\ OwnedBy(p, WindowOf(k), call[k].client)
               /\ managed' = [managed EXCEPT ![WindowOf(k)] =
                                [client |-> p, home |-> call[k].home]]
      <4>1. LaunchedBy(p, WindowOf(k)) /\ LaunchedBy(p, WindowOf(k))'
        BY <3>2, <3>3, <3>5 DEF Found, Answers, OwnedBy, LaunchedBy, Phase
      <4>2. ASSUME NEW w \in Windows, managed'[w] # NoManaged
            PROVE  LaunchedBy(managed[w].client, w)' /\ managed'[w].home \in Homes
        <5>1. CASE w = WindowOf(k)
          BY <3>1, <3>5, <4>1, <5>1, TypeOK DEF TypeOK, LaunchedBy, Phase
        <5>2. CASE w # WindowOf(k)
          BY <3>3, <3>5, <4>2, <5>2, TypeOK, ManagedIsOwn
             DEF TypeOK, ManagedIsOwn, LaunchedBy, Phase
        <5> QED
          BY <5>1, <5>2
      <4> QED
        BY <4>2 DEF ManagedIsOwn, NoManaged
    <3> QED
      BY <3>2, <3>4, <3>5
  <2>6. StoppedIsOwn'
    BY <1>14, StoppedIsOwn
       DEF Started, Answers, Phase, OwnedBy, EndStart, NoCall, Collectors,
           StoppedIsOwn, LaunchedBy, Calls
  <2>7. RunningIsAdvertised' /\ HolderHasLock' /\ LockIsHeld' /\
     DescriptorIsOfItsHome'
    BY <1>14, RunningIsAdvertised, HolderHasLock, LockIsHeld,
       DescriptorIsOfItsHome
       DEF Started, Answers, Phase, OwnedBy, EndStart, NoCall, Collectors,
           RunningIsAdvertised, HolderHasLock, LockIsHeld,
           DescriptorIsOfItsHome
  <2> QED
    BY <2>1, <2>2, <2>3, <2>4, <2>5, <2>6, <2>7 DEF LifecycleInv
<1>15. ASSUME NEW k \in Callers, StartFails(k)
      PROVE  LifecycleInv'
  <2>1. TypeOK'
    <3>1. NoCall \in Calls
      BY DEF NoCall, Calls, Steps
    <3>2. starting' \in [Windows -> Callers \cup {None}]
      BY <1>15, TypeOK DEF StartFails, EndStart, TypeOK
    <3>3. call' \in [Callers -> Calls]
      BY <1>15, <3>1, TypeOK DEF StartFails, EndStart, TypeOK
    <3>4. slow' \in 0..MaxSlow
      BY <1>15, TypeOK, StarterStarts, CallIsComplete, UnavailableEffect
         DEF StartFails, At, CallIsComplete, TypeOK
    <3> QED
      BY <1>15, <3>2, <3>3, <3>4, TypeOK DEF StartFails, Collectors, TypeOK
  <2>2. AwaitedStartRuns'
    BY <1>15, AwaitedStartRuns, TypeOK, StarterStarts, CallersAssumption
       DEF StartFails, Unavailable, EndStart, NoCall, AwaitedStartRuns,
           TypeOK, StarterStarts, Calls
  <2>3. StarterStarts'
    BY <1>15, StarterStarts, TypeOK
       DEF StartFails, At, Unavailable, EndStart, NoCall, StarterStarts,
           TypeOK, Calls
  <2>4. CallIsComplete'
    BY <1>15, CallIsComplete
       DEF StartFails, Unavailable, EndStart, NoCall, CallIsComplete, Calls
  <2>5. StoppedIsOwn'
    BY <1>15, StoppedIsOwn
       DEF StartFails, Unavailable, EndStart, NoCall, Collectors,
           StoppedIsOwn, LaunchedBy, Phase, Calls
  <2>6. RunningIsAdvertised' /\ HolderHasLock' /\ LockIsHeld' /\
     DescriptorIsOfItsHome' /\ ManagedIsOwn'
    BY <1>15, RunningIsAdvertised, HolderHasLock, LockIsHeld,
       DescriptorIsOfItsHome, ManagedIsOwn
       DEF StartFails, Unavailable, EndStart, NoCall, Collectors,
           RunningIsAdvertised, Phase, HolderHasLock, LockIsHeld,
           DescriptorIsOfItsHome, ManagedIsOwn, LaunchedBy
  <2> QED
    BY <2>1, <2>2, <2>3, <2>4, <2>5, <2>6 DEF LifecycleInv
<1>16. ASSUME NEW k \in Callers, NEW target \in Homes, Configure(k, target)
      PROVE  LifecycleInv'
  <2>1. TypeOK'
    <3>1. call' \in [Callers -> Calls]
      BY <1>16, TypeOK, CallIsComplete, CallersAssumption, HolderHasLock,
         ManagedIsOwn
         DEF Configure, At, NoCall, Collectors, TypeOK, CallIsComplete,
             HolderHasLock, Holding, Phase, ManagedIsOwn, LaunchedBy,
             NoManaged, Steps, Calls
    <3> QED
      BY <1>16, TypeOK, <3>1 DEF Configure, TypeOK, Clients, Collectors
  <2>2. AwaitedStartRuns'
    BY <1>16, AwaitedStartRuns
       DEF Configure, At, NoCall, AwaitedStartRuns, Calls
  <2>3. StarterStarts'
    BY <1>16, StarterStarts DEF Configure, At, NoCall, StarterStarts, Calls
  <2>4. CallIsComplete'
    BY <1>16, CallIsComplete, TypeOK
       DEF Configure, NoCall, CallIsComplete, TypeOK, Calls
  <2>5. StoppedIsOwn'
    BY <1>16, StoppedIsOwn
       DEF Configure, NoCall, Collectors, StoppedIsOwn, LaunchedBy, Phase,
           Calls
  <2>6. RunningIsAdvertised' /\ HolderHasLock' /\ LockIsHeld' /\
     DescriptorIsOfItsHome' /\ ManagedIsOwn'
    BY <1>16, RunningIsAdvertised, HolderHasLock, LockIsHeld,
       DescriptorIsOfItsHome, ManagedIsOwn
       DEF Configure, NoCall, Collectors, RunningIsAdvertised, Phase,
           HolderHasLock, LockIsHeld, DescriptorIsOfItsHome, ManagedIsOwn,
           LaunchedBy
  <2> QED
    BY <2>1, <2>2, <2>3, <2>4, <2>5, <2>6 DEF LifecycleInv
<1>17. ASSUME NEW k \in Callers, CurrentSeen(k)
      PROVE  LifecycleInv'
  <2>1. /\ call[k].at = "current"
        /\ \/ MovedTo(k, "move") /\ managed' = managed
           \/ Ended(k) /\ managed' = managed
           \/ \E p \in Processes :
                /\ managed[WindowOf(k)].client = p
                /\ managed[WindowOf(k)] # NoManaged
                /\ Called(k, "verify", call[k].home, call[k].target, p,
                          call[k].leave)
                /\ managed' = [managed EXCEPT ![WindowOf(k)] = NoManaged]
        /\ slow' \in 0..MaxSlow
        /\ UNCHANGED <<home, lock, descriptor, process, open, starting>>
    <3>1. call[k].at = "current" /\ call[k].home \in Homes
      BY <1>17, CallIsComplete DEF CurrentSeen, At, CallIsComplete
    <3>2. CASE Unavailable(call[k].home) /\ GoTo(k, "move") /\ UNCHANGED managed
      BY <1>17, <3>1, <3>2, TypeOK, GoToEffect, UnavailableEffect
         DEF CurrentSeen, Steps, Collectors
    <3>3. ASSUME NEW p \in Processes, Found(call[k].home, p),
                 managed[WindowOf(k)] = [client |-> p, home |-> call[k].home],
                 call' = [call EXCEPT ![k].at = "verify", ![k].client = p],
                 managed' = [managed EXCEPT ![WindowOf(k)] = NoManaged]
          PROVE  <2>1
      <4>1. Called(k, "verify", call[k].home, call[k].target, p, call[k].leave)
        BY <3>3, TypeOK DEF TypeOK, Calls, Steps, Called
      <4>2. /\ managed[WindowOf(k)].client = p
            /\ managed[WindowOf(k)] # NoManaged
        BY <3>3, NoneAssumption DEF NoManaged
      <4> QED
        BY <1>17, <3>1, <3>3, <4>1, <4>2, TypeOK
           DEF CurrentSeen, Found, TypeOK, Collectors
    <3>4. ASSUME NEW p \in Processes, Found(call[k].home, p), Return(k),
                 UNCHANGED managed
          PROVE  <2>1
      BY <1>17, <3>1, <3>4, TypeOK, ReturnEffect
         DEF CurrentSeen, Found, TypeOK, Collectors
    <3> QED
      BY <1>17, <3>2, <3>3, <3>4 DEF CurrentSeen
  <2>2. TypeOK'
    <3>1. NoManaged \in Managements
      BY DEF NoManaged, Managements
    <3>2. managed' \in [Windows -> Managements]
      BY <2>1, <3>1, TypeOK DEF TypeOK
    <3>3. call' \in [Callers -> Calls]
      BY <2>1 DEF Called, MovedTo, Ended
    <3> QED
      BY <2>1, <3>2, <3>3, TypeOK DEF TypeOK
  <2>3. AwaitedStartRuns'
    BY <2>1, AwaitedStartRuns, TypeOK, CallersAssumption
       DEF Called, MovedTo, Ended, AwaitedStartRuns, TypeOK, Calls
  <2>4. StarterStarts'
    BY <2>1, StarterStarts, TypeOK, NoneAssumption
       DEF Called, MovedTo, Ended, StarterStarts, TypeOK, Calls
  <2>5. CallIsComplete'
    BY <2>1, CallIsComplete DEF Called, MovedTo, Ended, CallIsComplete, Calls
  <2>6. ManagedIsOwn'
    BY <2>1, ManagedIsOwn, TypeOK
       DEF Called, MovedTo, Ended, ManagedIsOwn, LaunchedBy, Phase, TypeOK,
           Calls
  <2>7. StoppedIsOwn'
    BY <2>1, StoppedIsOwn, ManagedIsOwn, CallersAssumption, NoneAssumption
       DEF Called, MovedTo, Ended, StoppedIsOwn, LaunchedBy, Phase,
           ManagedIsOwn, Calls
  <2>8. RunningIsAdvertised' /\ HolderHasLock' /\ LockIsHeld' /\
     DescriptorIsOfItsHome'
    BY <2>1, RunningIsAdvertised, HolderHasLock, LockIsHeld,
       DescriptorIsOfItsHome
       DEF Called, MovedTo, Ended, RunningIsAdvertised, Phase,
           HolderHasLock, LockIsHeld, DescriptorIsOfItsHome
  <2> QED
    BY <2>2, <2>3, <2>4, <2>5, <2>6, <2>7, <2>8 DEF LifecycleInv
<1>18. ASSUME NEW k \in Callers, Deactivate(k)
      PROVE  LifecycleInv'
  <2>1. TypeOK'
    <3>1. /\ managed' \in [Windows -> Managements]
          /\ call' \in [Callers -> Calls]
      BY <1>18, TypeOK, CallIsComplete, CallersAssumption, HolderHasLock,
         ManagedIsOwn
         DEF Deactivate, At, NoCall, NoManaged, Collectors, TypeOK,
             CallIsComplete, HolderHasLock, Holding, Phase, ManagedIsOwn,
             LaunchedBy, Steps, Calls, Managements
    <3> QED
      BY <1>18, TypeOK, <3>1 DEF Deactivate, TypeOK, Clients, Collectors
  <2>2. AwaitedStartRuns'
    BY <1>18, AwaitedStartRuns
       DEF Deactivate, At, NoCall, AwaitedStartRuns, Calls
  <2>3. StarterStarts'
    BY <1>18, StarterStarts DEF Deactivate, At, NoCall, StarterStarts, Calls
  <2>4. CallIsComplete'
    BY <1>18, CallIsComplete, TypeOK, ManagedIsOwn
       DEF Deactivate, At, NoCall, CallIsComplete, TypeOK, ManagedIsOwn,
           Calls
  <2>5. ManagedIsOwn'
    BY <1>18, ManagedIsOwn
       DEF Deactivate, NoCall, Collectors, ManagedIsOwn, LaunchedBy, Phase,
           Calls
  <2>6. StoppedIsOwn'
    BY <1>18, StoppedIsOwn, TypeOK, ManagedIsOwn
       DEF Deactivate, At, NoCall, Collectors, StoppedIsOwn, LaunchedBy,
           Phase, TypeOK, ManagedIsOwn, Calls
  <2>7. RunningIsAdvertised' /\ HolderHasLock' /\ LockIsHeld' /\
     DescriptorIsOfItsHome'
    BY <1>18, RunningIsAdvertised, HolderHasLock, LockIsHeld,
       DescriptorIsOfItsHome
       DEF Deactivate, NoCall, Collectors, RunningIsAdvertised, Phase,
           HolderHasLock, LockIsHeld, DescriptorIsOfItsHome
  <2> QED
    BY <2>1, <2>2, <2>3, <2>4, <2>5, <2>6, <2>7 DEF LifecycleInv
<1>19. ASSUME NEW k \in Callers, Verify(k)
      PROVE  LifecycleInv'
  <2>1. /\ call[k].at = "verify"
        /\ \/ MovedTo(k, "move") /\ ~call[k].leave
           \/ MovedTo(k, "post") \/ Ended(k)
        /\ slow' \in 0..MaxSlow
        /\ UNCHANGED <<home, lock, descriptor, process, open, managed, starting>>
    BY <1>19, TypeOK, CallIsComplete, GoToEffect, ReturnEffect,
       UnavailableEffect
       DEF Verify, At, Stopped, Found, Steps, CallIsComplete, TypeOK, Collectors
  <2>2. TypeOK'
    <3>1. /\ call' \in [Callers -> Calls]
          /\ slow' \in 0..MaxSlow
      BY <2>1, TypeOK, CallIsComplete, CallersAssumption, HolderHasLock,
         ManagedIsOwn
         DEF Called, MovedTo, Ended, TypeOK, CallIsComplete, HolderHasLock,
             Holding, Phase, ManagedIsOwn, LaunchedBy, NoManaged, Steps,
             Calls
    <3> QED
      BY <2>1, TypeOK, <3>1 DEF TypeOK
  <2>3. AwaitedStartRuns'
    BY <2>1, AwaitedStartRuns, TypeOK, CallersAssumption
       DEF Called, MovedTo, Ended, AwaitedStartRuns, TypeOK, Calls
  <2>4. StarterStarts'
    BY <2>1, StarterStarts, TypeOK, CallersAssumption
       DEF Called, MovedTo, Ended, StarterStarts, TypeOK, Calls
  <2>5. CallIsComplete'
    BY <2>1, CallIsComplete DEF Called, MovedTo, Ended, CallIsComplete, Calls
  <2>6. StoppedIsOwn'
    BY <2>1, TypeOK, StoppedIsOwn
       DEF StoppedIsOwn, LaunchedBy, Phase, TypeOK, MovedTo, Ended, Called
  <2>7. RunningIsAdvertised' /\ HolderHasLock' /\ LockIsHeld' /\
     DescriptorIsOfItsHome' /\ ManagedIsOwn'
    BY <2>1, RunningIsAdvertised, HolderHasLock, LockIsHeld,
       DescriptorIsOfItsHome, ManagedIsOwn
       DEF Called, MovedTo, Ended, RunningIsAdvertised, Phase,
           HolderHasLock, LockIsHeld, DescriptorIsOfItsHome, ManagedIsOwn,
           LaunchedBy
  <2> QED
    BY <2>2, <2>3, <2>4, <2>5, <2>6, <2>7 DEF LifecycleInv
<1>20. ASSUME NEW k \in Callers, PostShutdown(k)
      PROVE  LifecycleInv'
  <2>1. /\ call[k].at = "post"
        /\ Launched(call[k].client, process[call[k].client].phase,
                    process[call[k].client].home, process[call[k].client].parent,
                    \/ process[call[k].client].stop
                    \/ process[call[k].client].phase = "running")
        /\ MovedTo(k, "waitStop")
        /\ UNCHANGED <<home, lock, descriptor, open, managed, starting, slow>>
    BY <1>20, TypeOK, StoppedIsOwn, GoToEffect
       DEF PostShutdown, At, Steps, StoppedIsOwn, LaunchedBy, TypeOK, Phase,
           Launches, Launched
  <2>2. TypeOK'
    <3>1. /\ process' \in [Processes -> Launches]
          /\ call' \in [Callers -> Calls]
      BY <2>1, TypeOK, CallIsComplete, CallersAssumption, HolderHasLock,
         ManagedIsOwn
         DEF Launched, Called, MovedTo, Ended, TypeOK, CallIsComplete,
             HolderHasLock, Holding, Phase, ManagedIsOwn, LaunchedBy,
             NoManaged, Steps, Calls
    <3> QED
      BY <2>1, TypeOK, <3>1 DEF TypeOK
  <2>3. RunningIsAdvertised'
    BY <2>1, RunningIsAdvertised
       DEF Launched, Called, MovedTo, Ended, RunningIsAdvertised, Phase,
           Launches, Calls
  <2>4. AwaitedStartRuns'
    BY <2>1, TypeOK, AwaitedStartRuns, StarterStarts, CallersAssumption
       DEF AwaitedStartRuns, StarterStarts, TypeOK, MovedTo, Called
  <2>5. HolderHasLock'
    BY <2>1, HolderHasLock
       DEF Launched, Called, MovedTo, Ended, HolderHasLock, Phase, Launches,
           Calls
  <2>6. LockIsHeld'
    BY <2>1, LockIsHeld, TypeOK
       DEF Launched, Called, MovedTo, Ended, LockIsHeld, Phase, TypeOK,
           Launches, Calls
  <2>7. DescriptorIsOfItsHome'
    BY <2>1, DescriptorIsOfItsHome, TypeOK
       DEF Launched, Called, MovedTo, Ended, DescriptorIsOfItsHome, Phase,
           TypeOK, Launches, Calls
  <2>8. StarterStarts'
    BY <2>1, TypeOK, StarterStarts, CallersAssumption
       DEF StarterStarts, TypeOK, MovedTo, Called
  <2>9. CallIsComplete'
    BY <2>1, CallIsComplete
       DEF Launched, Called, MovedTo, Ended, CallIsComplete, Launches, Calls
  <2>10. ManagedIsOwn'
    <3>1. LaunchesKept
      BY <2>1, TypeOK DEF LaunchesKept, Launched
    <3> QED
      BY <2>1, <3>1, TypeOK, ManagedIsOwn, ManagedKept
  <2>11. StoppedIsOwn'
    <3>1. LaunchesKept
      BY <2>1, TypeOK DEF LaunchesKept, Launched
    <3>2. SUFFICES ASSUME NEW c \in Callers,
                          call'[c].at \in {"verify", "post", "waitStop"}
                   PROVE  LaunchedBy(call[c].client, WindowOf(c))'
                          /\ call'[c].client = call[c].client
      BY DEF StoppedIsOwn
    <3>3. /\ LaunchedBy(call[c].client, WindowOf(c))
          /\ call'[c].client = call[c].client
      BY <2>1, <3>2, StoppedIsOwn DEF StoppedIsOwn, MovedTo, Called
    <3> QED
      BY <3>1, <3>3 DEF LaunchesKept, LaunchedBy, Phase
  <2> QED
    BY <2>2, <2>3, <2>4, <2>5, <2>6, <2>7, <2>8, <2>9, <2>10, <2>11
       DEF LifecycleInv
<1>21. ASSUME NEW k \in Callers, WaitStop(k)
      PROVE  LifecycleInv'
  <2>1. /\ call[k].at = "waitStop"
        /\ \/ MovedTo(k, "move") /\ ~call[k].leave
           \/ Ended(k)
        /\ slow' \in 0..MaxSlow
        /\ UNCHANGED <<home, lock, descriptor, process, open, managed, starting>>
    BY <1>21, TypeOK, CallIsComplete, GoToEffect, ReturnEffect,
       UnavailableEffect
       DEF WaitStop, At, Stopped, Found, Steps, CallIsComplete, TypeOK,
           Collectors
  <2>2. TypeOK'
    <3>1. /\ call' \in [Callers -> Calls]
          /\ slow' \in 0..MaxSlow
      BY <2>1, TypeOK, CallIsComplete, CallersAssumption, HolderHasLock,
         ManagedIsOwn
         DEF Called, MovedTo, Ended, TypeOK, CallIsComplete, HolderHasLock,
             Holding, Phase, ManagedIsOwn, LaunchedBy, NoManaged, Steps,
             Calls
    <3> QED
      BY <2>1, TypeOK, <3>1 DEF TypeOK
  <2>3. AwaitedStartRuns'
    BY <2>1, AwaitedStartRuns, TypeOK, CallersAssumption
       DEF Called, MovedTo, Ended, AwaitedStartRuns, TypeOK, Calls
  <2>4. StarterStarts'
    BY <2>1, StarterStarts, TypeOK
       DEF Called, MovedTo, Ended, StarterStarts, TypeOK, Calls
  <2>5. CallIsComplete'
    BY <2>1, CallIsComplete DEF Called, MovedTo, Ended, CallIsComplete, Calls
  <2>6. StoppedIsOwn'
    BY <2>1, StoppedIsOwn
       DEF Called, MovedTo, Ended, StoppedIsOwn, LaunchedBy, Phase, Calls
  <2>7. RunningIsAdvertised' /\ HolderHasLock' /\ LockIsHeld' /\
     DescriptorIsOfItsHome' /\ ManagedIsOwn'
    BY <2>1, RunningIsAdvertised, HolderHasLock, LockIsHeld,
       DescriptorIsOfItsHome, ManagedIsOwn
       DEF Called, MovedTo, Ended, RunningIsAdvertised, Phase,
           HolderHasLock, LockIsHeld, DescriptorIsOfItsHome, ManagedIsOwn,
           LaunchedBy
  <2> QED
    BY <2>2, <2>3, <2>4, <2>5, <2>6, <2>7 DEF LifecycleInv
<1>22. ASSUME NEW k \in Callers, Move(k)
      PROVE  LifecycleInv'
  <2>1. TypeOK'
    <3>1. /\ home' \in Homes
          /\ call' \in [Callers -> Calls]
      BY <1>22, TypeOK, CallIsComplete, CallersAssumption, HolderHasLock,
         ManagedIsOwn
         DEF Move, At, NoCall, TypeOK, CallIsComplete, HolderHasLock,
             Holding, Phase, ManagedIsOwn, LaunchedBy, NoManaged, Steps,
             Calls
    <3> QED
      BY <1>22, TypeOK, <3>1 DEF Move, TypeOK, Clients, Collectors
  <2>2. AwaitedStartRuns'
    BY <1>22, AwaitedStartRuns DEF Move, At, NoCall, AwaitedStartRuns, Calls
  <2>3. StarterStarts'
    BY <1>22, StarterStarts DEF Move, At, NoCall, StarterStarts, Calls
  <2>4. CallIsComplete'
    BY <1>22, CallIsComplete DEF Move, At, NoCall, CallIsComplete, Calls
  <2>5. StoppedIsOwn'
    BY <1>22, StoppedIsOwn
       DEF Move, NoCall, StoppedIsOwn, LaunchedBy, Phase, Calls
  <2>6. RunningIsAdvertised' /\ HolderHasLock' /\ LockIsHeld' /\
     DescriptorIsOfItsHome' /\ ManagedIsOwn'
    BY <1>22, RunningIsAdvertised, HolderHasLock, LockIsHeld,
       DescriptorIsOfItsHome, ManagedIsOwn
       DEF Move, NoCall, RunningIsAdvertised, Phase, HolderHasLock,
           LockIsHeld, DescriptorIsOfItsHome, ManagedIsOwn, LaunchedBy
  <2> QED
    BY <2>1, <2>2, <2>3, <2>4, <2>5, <2>6 DEF LifecycleInv
<1>23. ASSUME NEW p \in Processes, SaveSettings(p)
      PROVE  LifecycleInv'
  <2>1. TypeOK'
    <3>1. home' \in Homes
      BY <1>23, TypeOK, CallIsComplete, CallersAssumption, HolderHasLock,
         ManagedIsOwn
         DEF SaveSettings, Phase, Clients, TypeOK, CallIsComplete,
             HolderHasLock, Holding, ManagedIsOwn, LaunchedBy, NoManaged
    <3> QED
      BY <1>23, TypeOK, <3>1 DEF SaveSettings, TypeOK, Clients, Collectors
  <2>2. RunningIsAdvertised' /\ AwaitedStartRuns' /\ HolderHasLock' /\
     LockIsHeld' /\ DescriptorIsOfItsHome' /\ StarterStarts' /\
     CallIsComplete' /\ ManagedIsOwn' /\ StoppedIsOwn'
    BY <1>23, RunningIsAdvertised, AwaitedStartRuns, HolderHasLock,
       LockIsHeld, DescriptorIsOfItsHome, StarterStarts, CallIsComplete,
       ManagedIsOwn, StoppedIsOwn
       DEF SaveSettings, Phase, Clients, RunningIsAdvertised,
           AwaitedStartRuns, HolderHasLock, LockIsHeld,
           DescriptorIsOfItsHome, StarterStarts, CallIsComplete,
           ManagedIsOwn, LaunchedBy, StoppedIsOwn
  <2> QED
    BY <2>1, <2>2 DEF LifecycleInv
<1>24. ASSUME NEW w \in Windows, CloseWindow(w)
      PROVE  LifecycleInv'
  <2>1. TypeOK'
    <3>1. /\ open' \in SUBSET Windows
          /\ managed' \in [Windows -> Managements]
          /\ starting' \in [Windows -> Callers \cup {None}]
          /\ call' \in [Callers -> Calls]
      BY <1>24, TypeOK, CallIsComplete, CallersAssumption, HolderHasLock,
         ManagedIsOwn
         DEF CloseWindow, NoManaged, NoCall, TypeOK, CallIsComplete,
             HolderHasLock, Holding, Phase, ManagedIsOwn, LaunchedBy, Steps,
             Calls, Managements
    <3> QED
      BY <1>24, TypeOK, <3>1 DEF CloseWindow, TypeOK, Clients, Collectors
  <2>2. AwaitedStartRuns'
    BY <1>24, AwaitedStartRuns, TypeOK, StarterStarts, CallersAssumption
       DEF CloseWindow, NoCall, AwaitedStartRuns, TypeOK, StarterStarts,
           Calls
  <2>3. StarterStarts'
    BY <1>24, StarterStarts, TypeOK
       DEF CloseWindow, NoCall, StarterStarts, TypeOK, Calls
  <2>4. CallIsComplete'
    BY <1>24, CallIsComplete DEF CloseWindow, NoCall, CallIsComplete, Calls
  <2>5. ManagedIsOwn'
    BY <1>24, ManagedIsOwn
       DEF CloseWindow, NoCall, ManagedIsOwn, LaunchedBy, Phase, Calls
  <2>6. StoppedIsOwn'
    BY <1>24, StoppedIsOwn
       DEF CloseWindow, NoCall, StoppedIsOwn, LaunchedBy, Phase, Calls
  <2>7. RunningIsAdvertised' /\ HolderHasLock' /\ LockIsHeld' /\
     DescriptorIsOfItsHome'
    BY <1>24, RunningIsAdvertised, HolderHasLock, LockIsHeld,
       DescriptorIsOfItsHome
       DEF CloseWindow, NoCall, RunningIsAdvertised, Phase, HolderHasLock,
           LockIsHeld, DescriptorIsOfItsHome
  <2> QED
    BY <2>1, <2>2, <2>3, <2>4, <2>5, <2>6, <2>7 DEF LifecycleInv
<1>25. CASE UNCHANGED vars
  BY <1>25
     DEF LifecycleInv, TypeOK, RunningIsAdvertised, Phase, AwaitedStartRuns,
         HolderHasLock, Holding, LockIsHeld, DescriptorIsOfItsHome,
         StarterStarts, CallIsComplete, ManagedIsOwn, LaunchedBy, NoManaged,
         StoppedIsOwn, vars, Clients, Collectors
<1> QED
  BY <1>1, <1>2, <1>3, <1>4, <1>5, <1>6, <1>7, <1>8, <1>9, <1>10, <1>11,
     <1>12, <1>13, <1>14, <1>15, <1>16, <1>17, <1>18, <1>19, <1>20, <1>21,
     <1>22, <1>23, <1>24, <1>25
     DEF Next, ProcessStep, CallStep

-----------------------------------------------------------------------------
(* What a collector is and what a window knows of it, for any number of    *)
(* homes, windows, callers and processes (agent_runtime.py,                *)
(* agentSupervisor.ts).                                                    *)
THEOREM LifecycleInvariant == Spec => []LifecycleInv
<1>1. Init => LifecycleInv
  BY LifecycleInvInit
<1>2. LifecycleInv /\ [Next]_vars => LifecycleInv'
  BY LifecycleInvStep
<1> QED
  BY <1>1, <1>2, PTL DEF Spec

(* The variables keep their types.                                         *)
THEOREM TypeCorrect == Spec => []TypeOK
<1>1. LifecycleInv => TypeOK
  BY DEF LifecycleInv
<1> QED
  BY <1>1, LifecycleInvariant, PTL

(* Nobody is told to stop but by his own window or because it is gone.     *)
THEOREM OthersAreLeftAlone == Spec => StopsOnlyOwn
<1>1. LifecycleInv /\ [Next]_vars =>
        [\A p \in Processes : process'[p].stop /\ ~process[p].stop =>
           /\ process[p].parent # None
           /\ \/ process[p].parent \notin open
              \/ \E k \in Callers : call[k].at = "post" /\
                                    WindowOf(k) = process[p].parent]_vars
  <2> SUFFICES ASSUME LifecycleInv, [Next]_vars, NEW p \in Processes,
                      process'[p].stop, ~process[p].stop
               PROVE  /\ process[p].parent # None
                      /\ \/ process[p].parent \notin open
                         \/ \E k \in Callers : /\ call[k].at = "post"
                                               /\ WindowOf(k) = process[p].parent
    OBVIOUS
  <2> USE DEF LifecycleInv
  <2>1. ASSUME NEW q \in Processes, NEW phase, NEW h, NEW w,
               Launched(q, phase, h, w, process[q].stop) \/
               Launched(q, phase, h, w, FALSE)
        PROVE  FALSE
    BY <2>1 DEF Launched
  <2>2. ASSUME NEW q \in Processes, NEW phase \in Phases, Becomes(q, phase)
        PROVE  FALSE
    BY <2>1, <2>2, BecomesEffect
  <2>3. ASSUME NEW q \in Processes, Dies(q)
        PROVE  FALSE
    BY <2>1, <2>3, DiesEffect
  <2>4. ASSUME NEW q \in Processes,
               \/ StartService(q) \/ TakeLock(q) \/ Advertise(q)
               \/ CloseApi(q) \/ ReleaseLock(q) \/ Crash(q)
        PROVE  FALSE
    <3>1. {"spawned", "locked", "running", "closing"} \subseteq Phases
      BY DEF Phases
    <3> QED
      BY <2>2, <2>3, <2>4, <3>1 DEF StartService, TakeLock, Advertise, CloseApi,
                                    ReleaseLock, Crash
  <2>5. ASSUME NEW q \in Processes, LoadSettings(q)
        PROVE  FALSE
    BY <2>5 DEF LoadSettings, TypeOK, Launches
  <2>6. ASSUME NEW q \in Processes, MonitorParent(q)
        PROVE  process[p].parent # None /\ process[p].parent \notin open
    BY <2>6 DEF MonitorParent, TypeOK, Launches
  <2>7. ASSUME NEW k \in Callers, NEW q \in Processes, Spawn(k, q)
        PROVE  FALSE
    BY <2>7 DEF Spawn, TypeOK, Launches
  <2>8. ASSUME NEW k \in Callers, PostShutdown(k)
        PROVE  /\ process[p].parent # None
               /\ call[k].at = "post" /\ WindowOf(k) = process[p].parent
    <3>1. call[k].at = "post" /\ LaunchedBy(call[k].client, WindowOf(k))
      BY <2>8 DEF PostShutdown, At, StoppedIsOwn
    <3>2. p = call[k].client /\ process[p].phase = "running"
      BY <2>8, <3>1 DEF PostShutdown, LaunchedBy, Phase, TypeOK, Launches
    <3> QED
      BY <3>1, <3>2, CallersAssumption, NoneAssumption DEF LaunchedBy, Phase
  <2>9. process' # process
    OBVIOUS
  <2> QED
    BY <2>4, <2>5, <2>6, <2>7, <2>8, <2>9
       DEF Next, ProcessStep, CallStep, Acquired, NotFound, SetHome, Started,
           StartFails, CurrentSeen, Verify, WaitStop, Move, Acquire, Deactivate,
           Configure, SaveSettings, CloseWindow, Collectors, vars
<1> QED
  BY <1>1, LifecycleInvariant, PTL DEF Spec, StopsOnlyOwn

-----------------------------------------------------------------------------
(* A step that changes neither the locks and descriptors nor who runs is   *)
(* not seen by the clients.                                                *)
LEMMA SilentStep ==
  ASSUME TypeOK, UNCHANGED <<lock, descriptor>>,
         \A q \in Processes : process'[q].phase = "running" <=>
                              process[q].phase = "running"
  PROVE  UNCHANGED Ownership!vars
<1>1. \A h \in Homes : Answers(descriptor[h])' <=> Answers(descriptor[h])
  BY NoneAssumption DEF TypeOK, Answers, Phase
<1> QED
  BY <1>1 DEF Ownership!vars

(* What clients find of a home.                                            *)
Api == [h \in Homes |-> IF Answers(descriptor[h]) THEN descriptor[h] ELSE None]

LEMMA TakeLockRefines ==
  ASSUME LifecycleInv, NEW p \in Processes, TakeLock(p)
  PROVE  \/ UNCHANGED Ownership!vars
         \/ Ownership!Claim(process[p].home, p)
<1> USE DEF LifecycleInv
<1>1. process[p].phase = "loaded" /\ process[p].home \in Homes
  BY DEF TakeLock, Phase, HolderHasLock
<1>2. UNCHANGED descriptor
  BY DEF TakeLock
<1>3. CASE lock' = lock /\ Dies(p)
  BY <1>1, <1>2, <1>3, DiesEffect, SilentStep DEF Launched
<1>4. CASE /\ lock[process[p].home] = None /\ Becomes(p, "locked")
           /\ lock' = [lock EXCEPT ![process[p].home] = p]
  <2>1. \A h \in Homes : lock[h] # p
    BY <1>1, NoneAssumption DEF LockIsHeld, Holding, Phase
  <2>2. Launched(p, "locked", process[p].home, process[p].parent,
                 process[p].stop)
    BY <1>4, BecomesEffect DEF Phases
  <2>3. \A h \in Homes : Answers(descriptor[h])' <=> Answers(descriptor[h])
    BY <1>1, <1>2, <2>2 DEF TypeOK, Answers, Phase, Launched
  <2>4. Api' = Api
    BY <1>2, <2>3 DEF Api
  <2> QED
    BY <1>4, <2>1, <2>4 DEF Ownership!Claim, Api
<1> QED
  BY <1>3, <1>4 DEF TakeLock

LEMMA AdvertiseRefines ==
  ASSUME LifecycleInv, NEW p \in Processes, Advertise(p)
  PROVE  Ownership!Answer(process[p].home, p)
<1> USE DEF LifecycleInv
<1>1. PICK h \in Homes : /\ h = process[p].home
                         /\ process[p].phase = "locked" /\ lock[h] = p
  BY DEF Advertise, Phase, HolderHasLock, Holding
<1>2. Launched(p, "running", h, process[p].parent, process[p].stop)
  BY <1>1, BecomesEffect DEF Advertise, Phases
<1>3. /\ descriptor' = [descriptor EXCEPT ![h] = p] /\ UNCHANGED lock
      /\ p # None
  BY <1>1, NoneAssumption DEF Advertise
<1>4. ~Answers(descriptor[h])
  BY <1>1 DEF Answers, Phase, DescriptorIsOfItsHome, HolderHasLock, Holding,
              TypeOK
<1>5. ASSUME NEW g \in Homes, g # h
      PROVE  Answers(descriptor[g])' <=> Answers(descriptor[g])
  <2>1. descriptor'[g] = descriptor[g]
    BY <1>1, <1>3, <1>5 DEF TypeOK
  <2>2. descriptor[g] # p
    BY <1>1, <1>5, <1>3 DEF DescriptorIsOfItsHome, Phase
  <2> QED
    BY <1>2, <2>1, <2>2 DEF Answers, Phase, Launched, TypeOK
<1>6. Answers(descriptor[h])' /\ descriptor'[h] = p
  BY <1>1, <1>2, <1>3 DEF Answers, Phase, Launched, TypeOK
<1>7. Api' = [Api EXCEPT ![h] = p] /\ Api[h] = None
  <2>1. Api[h] = None
    BY <1>1, <1>4 DEF Api
  <2>2. Api'[h] = p
    BY <1>6 DEF Api
  <2>3. \A g \in Homes : g # h => Api'[g] = Api[g]
    BY <1>1, <1>3, <1>5 DEF Api, TypeOK
  <2> QED
    BY <2>1, <2>2, <2>3 DEF Api
<1> QED
  BY <1>1, <1>3, <1>7 DEF Ownership!Answer, Api

LEMMA CloseApiRefines ==
  ASSUME LifecycleInv, NEW p \in Processes, CloseApi(p)
  PROVE  \/ UNCHANGED Ownership!vars
         \/ \E h \in Homes : Ownership!Withdraw(h)
<1> USE DEF LifecycleInv
<1>1. Launched(p, "closing", process[p].home, process[p].parent,
               process[p].stop)
  BY BecomesEffect DEF CloseApi, Phases
<1>2. UNCHANGED <<lock, descriptor>>
  BY DEF CloseApi
<1>3. CASE process[p].phase = "locked"
  BY <1>1, <1>2, <1>3, SilentStep DEF Launched
<1>4. CASE process[p].phase = "running"
  <2>1. PICK h \in Homes : /\ h = process[p].home
                           /\ descriptor[h] = p /\ p # None
    BY <1>4, NoneAssumption
       DEF RunningIsAdvertised, HolderHasLock, Holding, Phase
  <2>2. Answers(descriptor[h]) /\ ~Answers(descriptor[h])'
    BY <1>1, <1>2, <1>4, <2>1 DEF Answers, Phase, Launched
  <2>3. ASSUME NEW g \in Homes, g # h
        PROVE  Answers(descriptor[g])' <=> Answers(descriptor[g])
    <3>1. descriptor[g] # p
      BY <1>4, <2>1, <2>3 DEF DescriptorIsOfItsHome, Phase
    <3> QED
      BY <1>1, <1>2, <3>1 DEF Answers, Phase, Launched, TypeOK
  <2>4. Api'[h] = None /\ \A g \in Homes : g # h => Api'[g] = Api[g]
    <3>1. Api'[h] = None
      BY <2>2 DEF Api
    <3>2. \A g \in Homes : g # h => Api'[g] = Api[g]
      BY <1>2, <2>3 DEF Api
    <3> QED
      BY <3>1, <3>2
  <2>5. Api[h] # None /\ Api' = [Api EXCEPT ![h] = None]
    BY <2>1, <2>2, <2>4 DEF Api
  <2> QED
    BY <1>2, <2>1, <2>5 DEF Ownership!Withdraw, Api
<1> QED
  BY <1>3, <1>4 DEF CloseApi, Phase

(* What ends the process ends its answers, and only those.                 *)
LEMMA DeathRefines ==
  ASSUME LifecycleInv, NEW p \in Processes, Dies(p),
         process[p].phase \in Holding,
         lock' = [lock EXCEPT ![process[p].home] = None],
         descriptor' = descriptor \/
         descriptor' = [descriptor EXCEPT ![process[p].home] =
                          IF @ = p THEN None ELSE @]
  PROVE  /\ process[p].home \in Homes /\ lock[process[p].home] = p
         /\ Api' = [Api EXCEPT ![process[p].home] = None]
         /\ process[p].phase # "running" => Api[process[p].home] = None
<1> USE DEF LifecycleInv
<1>1. PICK h \in Homes : h = process[p].home /\ lock[h] = p /\ p # None
  BY NoneAssumption DEF HolderHasLock, Phase
<1>2. Launched(p, "dead", None, None, FALSE)
  BY DiesEffect
<1>3. Answers(descriptor[h]) => descriptor[h] = p
  BY <1>1 DEF Answers, Phase, DescriptorIsOfItsHome, HolderHasLock, Holding,
              TypeOK
<1>4. ~Answers(descriptor[h])'
  <2>1. descriptor'[h] = descriptor[h] \/ descriptor'[h] = None
    BY <1>1 DEF TypeOK
  <2> QED
    BY <1>1, <1>2, <1>3, <2>1 DEF Answers, Phase, Launched, TypeOK
<1>5. ASSUME NEW g \in Homes, g # h
      PROVE  Api'[g] = Api[g]
  <2>1. descriptor'[g] = descriptor[g]
    BY <1>1, <1>5 DEF TypeOK
  <2>2. descriptor[g] # p
    BY <1>1, <1>5 DEF DescriptorIsOfItsHome, Phase, Holding
  <2>3. Answers(descriptor[g])' <=> Answers(descriptor[g])
    BY <1>2, <2>1, <2>2 DEF Answers, Phase, Launched, TypeOK
  <2> QED
    BY <2>1, <2>3 DEF Api
<1>6. Api'[h] = None
  BY <1>4 DEF Api
<1>7. Api' = [Api EXCEPT ![h] = None]
  BY <1>1, <1>5, <1>6 DEF Api
<1>8. process[p].phase # "running" => Api[h] = None
  BY <1>1, <1>3 DEF Api, Answers, Phase
<1> QED
  BY <1>1, <1>7, <1>8

(* What ReleaseLock and Crash are to the clients.                          *)
LEMMA EndRefines ==
  ASSUME LifecycleInv, NEW p \in Processes, ReleaseLock(p) \/ Crash(p)
  PROVE  \/ UNCHANGED Ownership!vars
         \/ \E h \in Homes : Ownership!Release(h) \/ Ownership!Crash(h)
<1> USE DEF LifecycleInv
<1>1. CASE ReleaseLock(p)
  <2>1. process[p].phase = "closing" /\ Dies(p)
    BY <1>1 DEF ReleaseLock, Phase
  <2>2. /\ lock' = [lock EXCEPT ![process[p].home] = None]
        /\ descriptor' = [descriptor EXCEPT ![process[p].home] =
                            IF @ = p THEN None ELSE @]
    BY <1>1 DEF ReleaseLock
  <2>3. PICK h \in Homes : /\ h = process[p].home /\ lock[h] = p
                           /\ Api' = [Api EXCEPT ![h] = None]
                           /\ Api[h] = None
    BY <2>1, <2>2, DeathRefines DEF Holding
  <2>4. Api' = Api
    BY <2>3 DEF Api
  <2> QED
    BY <2>2, <2>3, <2>4, NoneAssumption DEF Ownership!Release, Api
<1>2. CASE Crash(p)
  <2>1. Dies(p) /\ UNCHANGED descriptor
    BY <1>2 DEF Crash
  <2>2. lock' = [h \in Homes |-> IF lock[h] = p THEN None ELSE lock[h]]
    BY <1>2 DEF Crash
  <2>3. CASE process[p].phase \in Holding
    <3>1. lock' = [lock EXCEPT ![process[p].home] = None]
      <4>1. /\ process[p].home \in Homes
            /\ \A h \in Homes : lock[h] = p <=> h = process[p].home
        BY <2>3, NoneAssumption DEF HolderHasLock, LockIsHeld, Phase
      <4> QED
        BY <2>2, <4>1 DEF TypeOK
    <3>2. PICK h \in Homes : /\ h = process[p].home /\ lock[h] = p
                             /\ Api' = [Api EXCEPT ![h] = None]
      BY <2>1, <2>3, <3>1, DeathRefines
    <3>3. Ownership!Crash(h)
      BY <3>1, <3>2, NoneAssumption DEF Ownership!Crash, Api
    <3> QED
      BY <3>3
  <2>4. CASE process[p].phase \notin Holding
    <3>1. lock' = lock
      BY <2>2, <2>4, NoneAssumption DEF TypeOK, LockIsHeld, Phase
    <3>2. Launched(p, "dead", None, None, FALSE)
      BY <2>1, DiesEffect
    <3> QED
      BY <2>1, <2>4, <3>1, <3>2, SilentStep DEF Launched, Holding
  <2> QED
    BY <2>3, <2>4
<1> QED
  BY <1>1, <1>2

(* What a caller or a window does changes no process that answers.         *)
LEMMA ClientsAreSilent ==
  ASSUME LifecycleInv, NEW k \in Callers, CallStep(k)
  PROVE  UNCHANGED Ownership!vars
<1> USE DEF LifecycleInv
<1>1. ASSUME UNCHANGED <<lock, descriptor, process>>
      PROVE  UNCHANGED Ownership!vars
  BY <1>1, SilentStep
<1>2. CASE \/ Acquired(k) \/ NotFound(k) \/ Started(k) \/ StartFails(k)
           \/ CurrentSeen(k) \/ Verify(k) \/ WaitStop(k)
  BY <1>1, <1>2 DEF Acquired, NotFound, Started, StartFails, CurrentSeen,
                    Verify, WaitStop, Collectors
<1>3. CASE SetHome(k) \/ Move(k)
  BY <1>1, <1>3 DEF SetHome, Move
<1>4. ASSUME NEW p \in Processes, Spawn(k, p)
      PROVE  UNCHANGED Ownership!vars
  <2>1. /\ process[p].phase = "unused" /\ process'[p].phase = "spawned"
        /\ \A q \in Processes \ {p} : process'[q] = process[q]
    BY <1>4 DEF Spawn, IsNext, Phase, TypeOK, Launches
  <2> QED
    BY <1>4, <2>1, SilentStep DEF Spawn
<1>5. CASE PostShutdown(k)
  <2>1. \A q \in Processes : process'[q].phase = process[q].phase
    BY <1>5 DEF PostShutdown, TypeOK, Launches, Phase
  <2> QED
    BY <1>5, <2>1, SilentStep DEF PostShutdown
<1> QED
  BY <1>2, <1>3, <1>4, <1>5 DEF CallStep

(* The collectors implement what their clients are promised: one writer    *)
(* per home, and no answer but the writer's (Collector).                   *)
THEOREM RefinesCollector == Spec => ImplementsCollector
<1>1. Init => Ownership!Init
  <2> SUFFICES ASSUME Init PROVE Ownership!Init
    OBVIOUS
  <2>1. \A h \in Homes : ~Answers(descriptor[h])
    BY DEF Init, Answers
  <2> QED
    BY <2>1 DEF Init, Ownership!Init
<1>2. LifecycleInv /\ [Next]_vars => [Ownership!Next]_(Ownership!vars)
  <2> SUFFICES ASSUME LifecycleInv, [Next]_vars
               PROVE  [Ownership!Next]_(Ownership!vars)
    OBVIOUS
  <2> USE DEF LifecycleInv
  <2>1. ASSUME NEW p \in Processes,
               StartService(p) \/ LoadSettings(p) \/ MonitorParent(p)
        PROVE  UNCHANGED Ownership!vars
    <3>1. \A q \in Processes : process'[q].phase = "running" <=>
                               process[q].phase = "running"
      BY <2>1 DEF StartService, IsNext, Becomes, LoadSettings, MonitorParent,
                  Phase, TypeOK, Launches
    <3> QED
      BY <2>1, <3>1, SilentStep DEF StartService, LoadSettings, MonitorParent
  <2>2. ASSUME NEW p \in Processes, TakeLock(p)
        PROVE  [Ownership!Next]_(Ownership!vars)
    BY <2>2, TakeLockRefines DEF Ownership!Next, TakeLock, HolderHasLock, Phase
  <2>3. ASSUME NEW p \in Processes, Advertise(p)
        PROVE  Ownership!Next
    BY <2>3, AdvertiseRefines
       DEF Ownership!Next, Advertise, HolderHasLock, Holding, Phase
  <2>4. ASSUME NEW p \in Processes, CloseApi(p)
        PROVE  [Ownership!Next]_(Ownership!vars)
    BY <2>4, CloseApiRefines DEF Ownership!Next
  <2>5. ASSUME NEW p \in Processes, ReleaseLock(p) \/ Crash(p)
        PROVE  [Ownership!Next]_(Ownership!vars)
    BY <2>5, EndRefines DEF Ownership!Next
  <2>6. ASSUME NEW k \in Callers, CallStep(k)
        PROVE  UNCHANGED Ownership!vars
    BY <2>6, ClientsAreSilent
  <2>7. ASSUME \/ \E p \in Processes : SaveSettings(p)
               \/ \E k \in Callers : Acquire(k) \/ Deactivate(k)
               \/ \E k \in Callers, h \in Homes : Configure(k, h)
               \/ \E w \in Windows : CloseWindow(w)
               \/ UNCHANGED vars
        PROVE  UNCHANGED Ownership!vars
    <3>1. UNCHANGED <<lock, descriptor, process>>
      BY <2>7 DEF SaveSettings, Acquire, Deactivate, Configure, CloseWindow,
                  vars, Collectors
    <3> QED
      BY <3>1, SilentStep
  <2> QED
    BY <2>1, <2>2, <2>3, <2>4, <2>5, <2>6, <2>7 DEF Next, ProcessStep
<1> QED
  BY <1>1, <1>2, LifecycleInvariant, PTL
     DEF Spec, ImplementsCollector, Ownership!Spec
=============================================================================
