---------------------- MODULE OperationRegistry_proofs ----------------------
(***************************************************************************)
(* RegistryInv is inductive: StartProgress ties the steps of start() to    *)
(* the future, WorkerOwnsRunning the worker's place to it, StateFollowsJob *)
(* the published state, CancelProgress what a cancel() under way relies    *)
(* on, and SettlerRemains says who still settles an operation whose future *)
(* is done.  The properties and the refinement follow from it.             *)
(***************************************************************************)
EXTENDS OperationRegistry, TLAPS

(* An empty registry satisfies the invariant.                              *)
LEMMA RegistryInvInit == Init => RegistryInv
<1> SUFFICES ASSUME Init PROVE RegistryInv
  OBVIOUS
<1>1. TypeOK
  <2>1. Lane!LaneTypeOK
    BY DEF Init, Lane!LaneInit, Lane!LaneTypeOK, Lane!JobStates
  <2>2. /\ state \in [Operations -> States]
        /\ starter \in [Operations -> StartSteps]
    BY DEF Init, States, StartSteps
  <2>3. /\ flag \in [Operations -> BOOLEAN]
        /\ known \in [Operations -> BOOLEAN]
        /\ attached \in [Operations -> BOOLEAN]
    BY DEF Init
  <2>4. /\ outcome \in [Operations -> {"none", "value", "error", "stopped"}]
        /\ canceller \in [Cancellers -> Calls \cup {None}]
    BY DEF Init
  <2> QED
    BY <2>1, <2>2, <2>3, <2>4 DEF Init, TypeOK
<1>2. StartProgress
  BY NamesAssumption DEF Init, StartProgress, JobDone, Lane!LaneInit,
     WorkerSteps, Calls, Cancellers
<1>3. WorkerOwnsRunning
  <2> SUFFICES ASSUME NEW o \in Operations
               PROVE  WorkerOwnsRunning!(o)
    BY DEF WorkerOwnsRunning
  <2>1. \A step \in WorkerSteps : worker # <<o, step>>
    BY NamesAssumption DEF Init
  <2> QED
    BY <2>1 DEF Init, Lane!LaneInit, WorkerSteps
<1>4. StateFollowsJob
  BY NamesAssumption DEF Init, StateFollowsJob, Terminal, Lane!LaneInit,
     JobDone, WorkerSteps, Calls, Cancellers
<1>5. CancelProgress
  BY NamesAssumption DEF Init, CancelProgress, Lane!LaneInit, JobDone,
     WorkerSteps, Calls, Cancellers
<1>6. SettlerRemains
  BY NamesAssumption DEF Init, SettlerRemains, JobDone, Terminal,
     Lane!LaneInit, WorkerSteps, Calls, Cancellers
<1>7. CancelledNeverPublishes
  BY NamesAssumption DEF Init, CancelledNeverPublishes, Lane!LaneInit,
     JobDone, WorkerSteps, Calls, Cancellers
<1>8. CancelledIsOver
  BY NamesAssumption DEF Init, CancelledIsOver, JobDone, Lane!LaneInit,
     WorkerSteps, Calls, Cancellers
<1> QED
  BY <1>1, <1>2, <1>3, <1>4, <1>5, <1>6, <1>7, <1>8 DEF RegistryInv

(* Every step of start(), cancel(), cancel_all() and the worker keeps it.  *)
LEMMA RegistryInvStep == RegistryInv /\ [Next]_vars => RegistryInv'
<1> SUFFICES ASSUME TypeOK, StartProgress, WorkerOwnsRunning,
   StateFollowsJob, CancelProgress, SettlerRemains, CancelledNeverPublishes,
   CancelledIsOver, [Next]_vars
             PROVE  RegistryInv'
  BY DEF RegistryInv
<1>1. ASSUME NEW o \in Operations, Register(o)
      PROVE  RegistryInv'
  <2>1. TypeOK'
    BY <1>1, TypeOK DEF Register, lane, TypeOK, Lane!LaneTypeOK,
       Lane!JobStates, States, Terminal, WorkerSteps, StartSteps, Calls,
       Cancellers
  <2>2. StartProgress'
    BY <1>1, TypeOK, StartProgress DEF Register, lane, StartProgress,
       JobDone, TypeOK, Lane!LaneTypeOK, Lane!JobStates, States, Terminal,
       WorkerSteps, StartSteps, Calls, Cancellers
  <2>3. WorkerOwnsRunning'
    BY <1>1, StartProgress, WorkerOwnsRunning DEF Register, lane,
       WorkerOwnsRunning, StartProgress, JobDone
  <2>4. StateFollowsJob'
    BY <1>1, StartProgress, StateFollowsJob DEF Register, lane,
       StateFollowsJob, Terminal, StartProgress, JobDone
  <2>5. CancelProgress'
    BY <1>1, CancelProgress DEF Register, lane, CancelProgress
  <2>6. SettlerRemains'
    BY <1>1, SettlerRemains DEF Register, lane, SettlerRemains, JobDone,
       Terminal
  <2>7. CancelledNeverPublishes'
    BY <1>1, CancelledNeverPublishes DEF Register, lane,
       CancelledNeverPublishes
  <2>8. CancelledIsOver'
    BY <1>1, CancelledIsOver DEF Register, lane, CancelledIsOver, JobDone
  <2> QED
    BY <2>1, <2>2, <2>3, <2>4, <2>5, <2>6, <2>7, <2>8 DEF RegistryInv
<1>2. ASSUME NEW o \in Operations, Submit(o)
      PROVE  RegistryInv'
  <2>1. TypeOK'
    BY <1>2, TypeOK DEF Submit, Lane!Accept, operation, TypeOK,
       Lane!LaneTypeOK, Lane!JobStates, States, Terminal, WorkerSteps,
       StartSteps, Calls, Cancellers
  <2>2. StartProgress'
    BY <1>2, TypeOK, StartProgress DEF Submit, Lane!Accept, operation,
       StartProgress, JobDone, TypeOK, Lane!LaneTypeOK, Lane!JobStates,
       States, Terminal, WorkerSteps, StartSteps, Calls, Cancellers
  <2>3. WorkerOwnsRunning'
    BY <1>2, WorkerOwnsRunning DEF Submit, Lane!Accept, operation,
       WorkerOwnsRunning
  <2>4. StateFollowsJob'
    BY <1>2, StateFollowsJob DEF Submit, Lane!Accept, operation,
       StateFollowsJob, Terminal
  <2>5. CancelProgress'
    BY <1>2, CancelProgress DEF Submit, Lane!Accept, operation,
       CancelProgress
  <2>6. SettlerRemains'
    BY <1>2, SettlerRemains DEF Submit, Lane!Accept, operation,
       SettlerRemains, JobDone, Terminal
  <2>7. CancelledNeverPublishes'
    BY <1>2, CancelledNeverPublishes DEF Submit, Lane!Accept, operation,
       CancelledNeverPublishes
  <2>8. CancelledIsOver'
    BY <1>2, CancelledIsOver DEF Submit, Lane!Accept, operation,
       CancelledIsOver, JobDone
  <2> QED
    BY <2>1, <2>2, <2>3, <2>4, <2>5, <2>6, <2>7, <2>8 DEF RegistryInv
<1>3. ASSUME NEW o \in Operations, Refused(o)
      PROVE  RegistryInv'
  <2>1. TypeOK'
    BY <1>3, TypeOK DEF Refused, lane, operation, TypeOK, Lane!LaneTypeOK,
       Lane!JobStates, States, Terminal, WorkerSteps, StartSteps, Calls,
       Cancellers
  <2>2. StartProgress'
    BY <1>3, StartProgress DEF Refused, lane, operation, StartProgress,
       JobDone
  <2>3. WorkerOwnsRunning'
    BY <1>3, WorkerOwnsRunning DEF Refused, lane, operation,
       WorkerOwnsRunning
  <2>4. StateFollowsJob'
    BY <1>3, StateFollowsJob DEF Refused, lane, operation, StateFollowsJob,
       Terminal
  <2>5. CancelProgress'
    BY <1>3, CancelProgress DEF Refused, lane, operation, CancelProgress
  <2>6. SettlerRemains'
    BY <1>3, SettlerRemains DEF Refused, lane, operation, SettlerRemains,
       JobDone, Terminal
  <2>7. CancelledNeverPublishes'
    BY <1>3, CancelledNeverPublishes DEF Refused, lane, operation,
       CancelledNeverPublishes
  <2>8. CancelledIsOver'
    BY <1>3, CancelledIsOver DEF Refused, lane, operation, CancelledIsOver,
       JobDone
  <2> QED
    BY <2>1, <2>2, <2>3, <2>4, <2>5, <2>6, <2>7, <2>8 DEF RegistryInv
<1>4. ASSUME NEW o \in Operations, SetFuture(o)
      PROVE  RegistryInv'
  <2>1. TypeOK'
    BY <1>4, TypeOK DEF SetFuture, lane, TypeOK, Lane!LaneTypeOK,
       Lane!JobStates, States, Terminal, WorkerSteps, StartSteps, Calls,
       Cancellers
  <2>2. StartProgress'
    BY <1>4, TypeOK, StartProgress DEF SetFuture, lane, StartProgress,
       JobDone, TypeOK, Lane!LaneTypeOK, Lane!JobStates, States, Terminal,
       WorkerSteps, StartSteps, Calls, Cancellers
  <2>3. WorkerOwnsRunning'
    BY <1>4, WorkerOwnsRunning DEF SetFuture, lane, WorkerOwnsRunning
  <2>4. StateFollowsJob'
    BY <1>4, StateFollowsJob DEF SetFuture, lane, StateFollowsJob, Terminal
  <2>5. CancelProgress'
    BY <1>4, CancelProgress DEF SetFuture, lane, CancelProgress
  <2>6. SettlerRemains'
    BY <1>4, SettlerRemains DEF SetFuture, lane, SettlerRemains, JobDone,
       Terminal
  <2>7. CancelledNeverPublishes'
    BY <1>4, CancelledNeverPublishes DEF SetFuture, lane,
       CancelledNeverPublishes
  <2>8. CancelledIsOver'
    BY <1>4, CancelledIsOver DEF SetFuture, lane, CancelledIsOver, JobDone
  <2> QED
    BY <2>1, <2>2, <2>3, <2>4, <2>5, <2>6, <2>7, <2>8 DEF RegistryInv
<1>5. ASSUME NEW o \in Operations, Attach(o)
      PROVE  RegistryInv'
  <2>1. TypeOK'
    <3>1. starter' \in [Operations -> StartSteps]
      BY <1>5, TypeOK DEF Attach, TypeOK, StartSteps
    <3>2. attached' \in [Operations -> BOOLEAN]
      <4>1. CASE JobDone(o)
        BY <1>5, <4>1, TypeOK DEF Attach, TypeOK
      <4>2. CASE ~JobDone(o)
        BY <1>5, <4>2, TypeOK DEF Attach, TypeOK
      <4> QED
        BY <4>1, <4>2
    <3> QED
      BY <3>1, <3>2, <1>5, TypeOK DEF Attach, lane, TypeOK, Lane!LaneTypeOK
  <2>2. StartProgress'
    BY <1>5, TypeOK, StartProgress DEF Attach, lane, JobDone, StartProgress,
       TypeOK, Lane!LaneTypeOK, Lane!JobStates, States, Terminal,
       WorkerSteps, StartSteps, Calls, Cancellers
  <2>3. WorkerOwnsRunning'
    BY <1>5, TypeOK, WorkerOwnsRunning DEF Attach, lane, JobDone,
       WorkerOwnsRunning, TypeOK, Lane!LaneTypeOK, Lane!JobStates, States,
       Terminal, WorkerSteps, StartSteps, Calls, Cancellers
  <2>4. StateFollowsJob'
    BY <1>5, TypeOK, StateFollowsJob DEF Attach, lane, JobDone,
       StateFollowsJob, Terminal, TypeOK, Lane!LaneTypeOK, Lane!JobStates,
       States, WorkerSteps, StartSteps, Calls, Cancellers
  <2>5. CancelProgress'
    BY <1>5, CancelProgress DEF Attach, lane, JobDone, CancelProgress
  <2>6. SettlerRemains'
    BY <1>5, TypeOK, SettlerRemains DEF Attach, lane, JobDone,
       SettlerRemains, Terminal, TypeOK, Lane!LaneTypeOK, Lane!JobStates,
       States, WorkerSteps, StartSteps, Calls, Cancellers
  <2>7. CancelledNeverPublishes'
    BY <1>5, CancelledNeverPublishes DEF Attach, lane, JobDone,
       CancelledNeverPublishes
  <2>8. CancelledIsOver'
    BY <1>5, CancelledIsOver DEF Attach, lane, JobDone, CancelledIsOver
  <2> QED
    BY <2>1, <2>2, <2>3, <2>4, <2>5, <2>6, <2>7, <2>8 DEF RegistryInv
<1>6. ASSUME NEW o \in Operations, StarterCallback(o)
      PROVE  RegistryInv'
  <2>1. TypeOK'
    BY <1>6, TypeOK DEF StarterCallback, lane, Complete, Verdict, TypeOK,
       Lane!LaneTypeOK, Lane!JobStates, States, Terminal, WorkerSteps,
       StartSteps, Calls, Cancellers
  <2>2. StartProgress'
    BY <1>6, StartProgress DEF StarterCallback, lane, Complete, Verdict,
       StartProgress, JobDone
  <2>3. WorkerOwnsRunning'
    BY <1>6, StartProgress, WorkerOwnsRunning DEF StarterCallback, lane,
       Complete, Verdict, WorkerOwnsRunning, StartProgress, JobDone
  <2>4. StateFollowsJob'
    BY <1>6, TypeOK, StartProgress, WorkerOwnsRunning, StateFollowsJob DEF
       StarterCallback, lane, Complete, Verdict, StateFollowsJob, Terminal,
       TypeOK, Lane!LaneTypeOK, Lane!JobStates, States, WorkerSteps,
       StartSteps, Calls, Cancellers, StartProgress, JobDone,
       WorkerOwnsRunning
  <2>5. CancelProgress'
    BY <1>6, CancelProgress DEF StarterCallback, lane, Complete, Verdict,
       CancelProgress
  <2>6. SettlerRemains'
    BY <1>6, TypeOK, SettlerRemains DEF StarterCallback, lane, Complete,
       Verdict, SettlerRemains, JobDone, Terminal, TypeOK, Lane!LaneTypeOK,
       Lane!JobStates, States, WorkerSteps, StartSteps, Calls, Cancellers
  <2>7. CancelledNeverPublishes'
    BY <1>6, CancelledNeverPublishes DEF StarterCallback, lane, Complete,
       Verdict, CancelledNeverPublishes
  <2>8. CancelledIsOver'
    BY <1>6, StartProgress, CancelledIsOver DEF StarterCallback, lane,
       Complete, Verdict, CancelledIsOver, JobDone, StartProgress
  <2> QED
    BY <2>1, <2>2, <2>3, <2>4, <2>5, <2>6, <2>7, <2>8 DEF RegistryInv
<1>7. ASSUME NEW o \in Operations, WorkerStart(o)
      PROVE  RegistryInv'
  <2>1. TypeOK'
    BY <1>7, TypeOK DEF WorkerStart, Lane!Start, operation, TypeOK,
       Lane!LaneTypeOK, Lane!JobStates, States, Terminal, WorkerSteps,
       StartSteps, Calls, Cancellers
  <2>2. StartProgress'
    BY <1>7, StartProgress DEF WorkerStart, Lane!Start, operation,
       StartProgress, JobDone
  <2>3. WorkerOwnsRunning'
    BY <1>7, TypeOK, StartProgress, WorkerOwnsRunning, StateFollowsJob DEF
       WorkerStart, Lane!Start, operation, WorkerOwnsRunning, TypeOK,
       Lane!LaneTypeOK, Lane!JobStates, States, Terminal, WorkerSteps,
       StartSteps, Calls, Cancellers, StartProgress, JobDone,
       StateFollowsJob
  <2>4. StateFollowsJob'
    BY <1>7, StateFollowsJob DEF WorkerStart, Lane!Start, operation,
       StateFollowsJob, Terminal
  <2>5. CancelProgress'
    BY <1>7, CancelProgress DEF WorkerStart, Lane!Start, operation,
       CancelProgress
  <2>6. SettlerRemains'
    BY <1>7, TypeOK, StartProgress, WorkerOwnsRunning, StateFollowsJob,
       CancelProgress, SettlerRemains, CancelledNeverPublishes,
       CancelledIsOver, NamesAssumption DEF WorkerStart, Lane!Start,
       operation, SettlerRemains, JobDone, Terminal, TypeOK,
       Lane!LaneTypeOK, Lane!JobStates, States, WorkerSteps, StartSteps,
       Calls, Cancellers, StartProgress, WorkerOwnsRunning, StateFollowsJob,
       CancelProgress, CancelledNeverPublishes, CancelledIsOver
  <2>7. CancelledNeverPublishes'
    BY <1>7, CancelledNeverPublishes DEF WorkerStart, Lane!Start, operation,
       CancelledNeverPublishes
  <2>8. CancelledIsOver'
    BY <1>7, CancelledIsOver DEF WorkerStart, Lane!Start, operation,
       CancelledIsOver, JobDone
  <2> QED
    BY <2>1, <2>2, <2>3, <2>4, <2>5, <2>6, <2>7, <2>8 DEF RegistryInv
<1>8. ASSUME NEW o \in Operations, SetRunning(o)
      PROVE  RegistryInv'
  <2>1. TypeOK'
    BY <1>8, TypeOK DEF SetRunning, lane, TypeOK, Lane!LaneTypeOK,
       Lane!JobStates, States, Terminal, WorkerSteps, StartSteps, Calls,
       Cancellers
  <2>2. StartProgress'
    BY <1>8, StartProgress, WorkerOwnsRunning DEF SetRunning, lane,
       StartProgress, JobDone, WorkerOwnsRunning
  <2>3. WorkerOwnsRunning'
    BY <1>8, TypeOK, WorkerOwnsRunning DEF SetRunning, lane,
       WorkerOwnsRunning, TypeOK, Lane!LaneTypeOK, Lane!JobStates, States,
       Terminal, WorkerSteps, StartSteps, Calls, Cancellers
  <2>4. StateFollowsJob'
    BY <1>8, WorkerOwnsRunning, StateFollowsJob DEF SetRunning, lane,
       StateFollowsJob, Terminal, WorkerOwnsRunning
  <2>5. CancelProgress'
    BY <1>8, CancelProgress DEF SetRunning, lane, CancelProgress
  <2>6. SettlerRemains'
    BY <1>8, WorkerOwnsRunning, SettlerRemains DEF SetRunning, lane,
       SettlerRemains, JobDone, Terminal, WorkerOwnsRunning
  <2>7. CancelledNeverPublishes'
    BY <1>8, CancelledNeverPublishes DEF SetRunning, lane,
       CancelledNeverPublishes
  <2>8. CancelledIsOver'
    BY <1>8, CancelledIsOver DEF SetRunning, lane, CancelledIsOver, JobDone
  <2> QED
    BY <2>1, <2>2, <2>3, <2>4, <2>5, <2>6, <2>7, <2>8 DEF RegistryInv
<1>9. ASSUME NEW o \in Operations, BeginBody(o)
      PROVE  RegistryInv'
  <2>1. TypeOK'
    BY <1>9, TypeOK DEF BeginBody, lane, operation, TypeOK, Lane!LaneTypeOK,
       Lane!JobStates, States, Terminal, WorkerSteps, StartSteps, Calls,
       Cancellers
  <2>2. StartProgress'
    BY <1>9, StartProgress DEF BeginBody, lane, operation, StartProgress,
       JobDone
  <2>3. WorkerOwnsRunning'
    BY <1>9, WorkerOwnsRunning DEF BeginBody, lane, operation,
       WorkerOwnsRunning
  <2>4. StateFollowsJob'
    BY <1>9, StateFollowsJob DEF BeginBody, lane, operation,
       StateFollowsJob, Terminal
  <2>5. CancelProgress'
    BY <1>9, CancelProgress DEF BeginBody, lane, operation, CancelProgress
  <2>6. SettlerRemains'
    BY <1>9, SettlerRemains DEF BeginBody, lane, operation, SettlerRemains,
       JobDone, Terminal
  <2>7. CancelledNeverPublishes'
    BY <1>9, CancelledNeverPublishes DEF BeginBody, lane, operation,
       CancelledNeverPublishes
  <2>8. CancelledIsOver'
    BY <1>9, CancelledIsOver DEF BeginBody, lane, operation,
       CancelledIsOver, JobDone
  <2> QED
    BY <2>1, <2>2, <2>3, <2>4, <2>5, <2>6, <2>7, <2>8 DEF RegistryInv
<1>10. ASSUME NEW o \in Operations, StopBeforeBody(o)
      PROVE  RegistryInv'
  <2>1. TypeOK'
    BY <1>10, TypeOK DEF StopBeforeBody, Settle, Lane!Finish, TypeOK,
       Lane!LaneTypeOK, Lane!JobStates, States, Terminal, WorkerSteps,
       StartSteps, Calls, Cancellers
  <2>2. StartProgress'
    BY <1>10, StartProgress DEF StopBeforeBody, Settle, Lane!Finish,
       StartProgress, JobDone
  <2>3. WorkerOwnsRunning'
    BY <1>10, TypeOK, StartProgress, WorkerOwnsRunning, StateFollowsJob,
       CancelProgress, SettlerRemains, CancelledNeverPublishes,
       CancelledIsOver, NamesAssumption DEF StopBeforeBody, Settle,
       Lane!Finish, WorkerOwnsRunning, TypeOK, Lane!LaneTypeOK,
       Lane!JobStates, States, Terminal, WorkerSteps, StartSteps, Calls,
       Cancellers, StartProgress, JobDone, StateFollowsJob, CancelProgress,
       SettlerRemains, CancelledNeverPublishes, CancelledIsOver
  <2>4. StateFollowsJob'
    BY <1>10, WorkerOwnsRunning, StateFollowsJob DEF StopBeforeBody, Settle,
       Lane!Finish, StateFollowsJob, Terminal, WorkerOwnsRunning
  <2>5. CancelProgress'
    BY <1>10, CancelProgress DEF StopBeforeBody, Settle, Lane!Finish,
       CancelProgress
  <2>6. SettlerRemains'
    BY <1>10, StartProgress, SettlerRemains DEF StopBeforeBody, Settle,
       Lane!Finish, SettlerRemains, JobDone, Terminal, StartProgress
  <2>7. CancelledNeverPublishes'
    BY <1>10, CancelledNeverPublishes DEF StopBeforeBody, Settle,
       Lane!Finish, CancelledNeverPublishes
  <2>8. CancelledIsOver'
    BY <1>10, CancelledIsOver DEF StopBeforeBody, Settle, Lane!Finish,
       CancelledIsOver, JobDone
  <2> QED
    BY <2>1, <2>2, <2>3, <2>4, <2>5, <2>6, <2>7, <2>8 DEF RegistryInv
<1>11. ASSUME NEW o \in Operations, Body(o)
      PROVE  RegistryInv'
  <2>1. TypeOK'
    BY <1>11, TypeOK, NamesAssumption DEF Body, Settle, Lane!Finish, TypeOK,
       Lane!LaneTypeOK, Lane!JobStates, States, Terminal, WorkerSteps,
       StartSteps, Calls, Cancellers
  <2>2. StartProgress'
    BY <1>11, TypeOK, StartProgress DEF Body, Settle, Lane!Finish,
       StartProgress, JobDone, TypeOK, Lane!LaneTypeOK, Lane!JobStates,
       States, Terminal, WorkerSteps, StartSteps, Calls, Cancellers
  <2>3. WorkerOwnsRunning'
    BY <1>11, TypeOK, StartProgress, WorkerOwnsRunning, StateFollowsJob,
       CancelProgress, SettlerRemains, CancelledNeverPublishes,
       CancelledIsOver, NamesAssumption DEF Body, Settle, Lane!Finish,
       WorkerOwnsRunning, TypeOK, Lane!LaneTypeOK, Lane!JobStates, States,
       Terminal, WorkerSteps, StartSteps, Calls, Cancellers, StartProgress,
       JobDone, StateFollowsJob, CancelProgress, SettlerRemains,
       CancelledNeverPublishes, CancelledIsOver
  <2>4. StateFollowsJob'
    BY <1>11, TypeOK, WorkerOwnsRunning, StateFollowsJob DEF Body, Settle,
       Lane!Finish, StateFollowsJob, Terminal, TypeOK, Lane!LaneTypeOK,
       Lane!JobStates, States, WorkerSteps, StartSteps, Calls, Cancellers,
       WorkerOwnsRunning
  <2>5. CancelProgress'
    BY <1>11, TypeOK, CancelProgress DEF Body, Settle, Lane!Finish,
       CancelProgress, TypeOK, Lane!LaneTypeOK, Lane!JobStates, States,
       Terminal, WorkerSteps, StartSteps, Calls, Cancellers
  <2>6. SettlerRemains'
    BY <1>11, TypeOK, StartProgress, SettlerRemains DEF Body, Settle,
       Lane!Finish, SettlerRemains, JobDone, Terminal, TypeOK,
       Lane!LaneTypeOK, Lane!JobStates, States, WorkerSteps, StartSteps,
       Calls, Cancellers, StartProgress
  <2>7. CancelledNeverPublishes'
    BY <1>11, CancelledNeverPublishes DEF Body, Settle, Lane!Finish,
       CancelledNeverPublishes
  <2>8. CancelledIsOver'
    BY <1>11, TypeOK, CancelledIsOver DEF Body, Settle, Lane!Finish,
       CancelledIsOver, JobDone, TypeOK, Lane!LaneTypeOK, Lane!JobStates,
       States, Terminal, WorkerSteps, StartSteps, Calls, Cancellers
  <2> QED
    BY <2>1, <2>2, <2>3, <2>4, <2>5, <2>6, <2>7, <2>8 DEF RegistryInv
<1>12. ASSUME NEW o \in Operations, WorkerCallback(o)
      PROVE  RegistryInv'
  <2>1. TypeOK'
    BY <1>12, TypeOK DEF WorkerCallback, lane, Complete, Verdict, TypeOK,
       Lane!LaneTypeOK, Lane!JobStates, States, Terminal, WorkerSteps,
       StartSteps, Calls, Cancellers
  <2>2. StartProgress'
    BY <1>12, StartProgress, WorkerOwnsRunning DEF WorkerCallback, lane,
       Complete, Verdict, StartProgress, JobDone, WorkerOwnsRunning
  <2>3. WorkerOwnsRunning'
    BY <1>12, TypeOK, StartProgress, WorkerOwnsRunning, StateFollowsJob,
       CancelProgress, SettlerRemains, CancelledNeverPublishes,
       CancelledIsOver, NamesAssumption DEF WorkerCallback, lane, Complete,
       Verdict, WorkerOwnsRunning, TypeOK, Lane!LaneTypeOK, Lane!JobStates,
       States, Terminal, WorkerSteps, StartSteps, Calls, Cancellers,
       StartProgress, JobDone, StateFollowsJob, CancelProgress,
       SettlerRemains, CancelledNeverPublishes, CancelledIsOver
  <2>4. StateFollowsJob'
    BY <1>12, StartProgress, WorkerOwnsRunning, StateFollowsJob DEF
       WorkerCallback, lane, Complete, Verdict, StateFollowsJob, Terminal,
       StartProgress, JobDone, WorkerOwnsRunning
  <2>5. CancelProgress'
    BY <1>12, CancelProgress DEF WorkerCallback, lane, Complete, Verdict,
       CancelProgress
  <2>6. SettlerRemains'
    BY <1>12, TypeOK, SettlerRemains DEF WorkerCallback, lane, Complete,
       Verdict, SettlerRemains, JobDone, Terminal, TypeOK, Lane!LaneTypeOK,
       Lane!JobStates, States, WorkerSteps, StartSteps, Calls, Cancellers
  <2>7. CancelledNeverPublishes'
    BY <1>12, CancelledNeverPublishes DEF WorkerCallback, lane, Complete,
       Verdict, CancelledNeverPublishes
  <2>8. CancelledIsOver'
    BY <1>12, WorkerOwnsRunning, CancelledIsOver DEF WorkerCallback, lane,
       Complete, Verdict, CancelledIsOver, JobDone, WorkerOwnsRunning
  <2> QED
    BY <2>1, <2>2, <2>3, <2>4, <2>5, <2>6, <2>7, <2>8 DEF RegistryInv
<1>13. ASSUME NEW o \in Operations, Retire(o)
      PROVE  RegistryInv'
  <2>1. TypeOK'
    BY <1>13, TypeOK DEF Retire, Lane!Retire, operation, TypeOK,
       Lane!LaneTypeOK, Lane!JobStates, States, Terminal, WorkerSteps,
       StartSteps, Calls, Cancellers
  <2>2. StartProgress'
    BY <1>13, StartProgress DEF Retire, Lane!Retire, operation,
       StartProgress, JobDone
  <2>3. WorkerOwnsRunning'
    BY <1>13, WorkerOwnsRunning DEF Retire, Lane!Retire, operation,
       WorkerOwnsRunning
  <2>4. StateFollowsJob'
    BY <1>13, StateFollowsJob DEF Retire, Lane!Retire, operation,
       StateFollowsJob, Terminal
  <2>5. CancelProgress'
    BY <1>13, CancelProgress DEF Retire, Lane!Retire, operation,
       CancelProgress
  <2>6. SettlerRemains'
    BY <1>13, SettlerRemains DEF Retire, Lane!Retire, operation,
       SettlerRemains, JobDone, Terminal
  <2>7. CancelledNeverPublishes'
    BY <1>13, CancelledNeverPublishes DEF Retire, Lane!Retire, operation,
       CancelledNeverPublishes
  <2>8. CancelledIsOver'
    BY <1>13, CancelledIsOver DEF Retire, Lane!Retire, operation,
       CancelledIsOver, JobDone
  <2> QED
    BY <2>1, <2>2, <2>3, <2>4, <2>5, <2>6, <2>7, <2>8 DEF RegistryInv
<1>14. ASSUME NEW c \in Clients, NEW o \in Operations, ClientCancels(c, o)
      PROVE  RegistryInv'
  <2>1. TypeOK'
    BY <1>14, TypeOK DEF ClientCancels, Flag, MayCancel, lane, TypeOK,
       Lane!LaneTypeOK, Lane!JobStates, States, Terminal, WorkerSteps,
       StartSteps, Calls, Cancellers
  <2>2. StartProgress'
    BY <1>14, StartProgress DEF ClientCancels, Flag, MayCancel, lane,
       StartProgress, JobDone
  <2>3. WorkerOwnsRunning'
    BY <1>14, WorkerOwnsRunning DEF ClientCancels, Flag, MayCancel, lane,
       WorkerOwnsRunning
  <2>4. StateFollowsJob'
    BY <1>14, StateFollowsJob DEF ClientCancels, Flag, MayCancel, lane,
       StateFollowsJob, Terminal
  <2>5. CancelProgress'
    BY <1>14, TypeOK, CancelProgress DEF ClientCancels, Flag, MayCancel,
       lane, CancelProgress, TypeOK, Lane!LaneTypeOK, Lane!JobStates,
       States, Terminal, WorkerSteps, StartSteps, Calls, Cancellers
  <2>6. SettlerRemains'
    BY <1>14, SettlerRemains DEF ClientCancels, Flag, MayCancel, lane,
       SettlerRemains, JobDone, Terminal
  <2>7. CancelledNeverPublishes'
    BY <1>14, CancelledNeverPublishes DEF ClientCancels, Flag, MayCancel,
       lane, CancelledNeverPublishes
  <2>8. CancelledIsOver'
    BY <1>14, CancelledIsOver DEF ClientCancels, Flag, MayCancel, lane,
       CancelledIsOver, JobDone
  <2> QED
    BY <2>1, <2>2, <2>3, <2>4, <2>5, <2>6, <2>7, <2>8 DEF RegistryInv
<1>15. ASSUME NEW c \in Cancellers, CancelFuture(c)
      PROVE  RegistryInv'
  <2>1. TypeOK'
    BY <1>15, TypeOK, CancelledNeverPublishes DEF CancelFuture, Lane!Cancel,
       lane, operation, TypeOK, Lane!LaneTypeOK, Lane!JobStates, States,
       Terminal, WorkerSteps, StartSteps, Calls, Cancellers,
       CancelledNeverPublishes
  <2>2. StartProgress'
    BY <1>15, TypeOK, StartProgress DEF CancelFuture, Lane!Cancel, lane,
       operation, StartProgress, JobDone, TypeOK, Lane!LaneTypeOK,
       Lane!JobStates, States, Terminal, WorkerSteps, StartSteps, Calls,
       Cancellers
  <2>3. WorkerOwnsRunning'
    BY <1>15, TypeOK, WorkerOwnsRunning DEF CancelFuture, Lane!Cancel, lane,
       operation, WorkerOwnsRunning, TypeOK, Lane!LaneTypeOK,
       Lane!JobStates, States, Terminal, WorkerSteps, StartSteps, Calls,
       Cancellers
  <2>4. StateFollowsJob'
    BY <1>15, TypeOK, StartProgress, StateFollowsJob, CancelProgress DEF
       CancelFuture, Lane!Cancel, lane, operation, StateFollowsJob,
       Terminal, TypeOK, Lane!LaneTypeOK, Lane!JobStates, States,
       WorkerSteps, StartSteps, Calls, Cancellers, StartProgress, JobDone,
       CancelProgress
  <2>5. CancelProgress'
    BY <1>15, TypeOK, CancelProgress DEF CancelFuture, Lane!Cancel, lane,
       operation, CancelProgress, TypeOK, Lane!LaneTypeOK, Lane!JobStates,
       States, Terminal, WorkerSteps, StartSteps, Calls, Cancellers
  <2>6. SettlerRemains'
    BY <1>15, TypeOK, StartProgress, WorkerOwnsRunning, StateFollowsJob,
       CancelProgress, SettlerRemains, CancelledNeverPublishes,
       CancelledIsOver, NamesAssumption DEF CancelFuture, Lane!Cancel, lane,
       operation, SettlerRemains, JobDone, Terminal, TypeOK,
       Lane!LaneTypeOK, Lane!JobStates, States, WorkerSteps, StartSteps,
       Calls, Cancellers, StartProgress, WorkerOwnsRunning, StateFollowsJob,
       CancelProgress, CancelledNeverPublishes, CancelledIsOver
  <2>7. CancelledNeverPublishes'
    BY <1>15, CancelledNeverPublishes DEF CancelFuture, Lane!Cancel, lane,
       operation, CancelledNeverPublishes
  <2>8. CancelledIsOver'
    BY <1>15, TypeOK, CancelledIsOver DEF CancelFuture, Lane!Cancel, lane,
       operation, CancelledIsOver, JobDone, TypeOK, Lane!LaneTypeOK,
       Lane!JobStates, States, Terminal, WorkerSteps, StartSteps, Calls,
       Cancellers
  <2> QED
    BY <2>1, <2>2, <2>3, <2>4, <2>5, <2>6, <2>7, <2>8 DEF RegistryInv
<1>16. ASSUME NEW c \in Cancellers, CancelCallback(c)
      PROVE  RegistryInv'
  <2>1. TypeOK'
    BY <1>16, TypeOK DEF CancelCallback, lane, Complete, Verdict, TypeOK,
       Lane!LaneTypeOK, Lane!JobStates, States, Terminal, WorkerSteps,
       StartSteps, Calls, Cancellers
  <2>2. StartProgress'
    BY <1>16, StartProgress, CancelProgress DEF CancelCallback, lane,
       Complete, Verdict, StartProgress, JobDone, CancelProgress
  <2>3. WorkerOwnsRunning'
    BY <1>16, WorkerOwnsRunning, CancelProgress DEF CancelCallback, lane,
       Complete, Verdict, WorkerOwnsRunning, CancelProgress
  <2>4. StateFollowsJob'
    BY <1>16, StateFollowsJob, CancelProgress DEF CancelCallback, lane,
       Complete, Verdict, StateFollowsJob, Terminal, CancelProgress
  <2>5. CancelProgress'
    BY <1>16, CancelProgress DEF CancelCallback, lane, Complete, Verdict,
       CancelProgress
  <2>6. SettlerRemains'
    BY <1>16, TypeOK, SettlerRemains DEF CancelCallback, lane, Complete,
       Verdict, SettlerRemains, JobDone, Terminal, TypeOK, Lane!LaneTypeOK,
       Lane!JobStates, States, WorkerSteps, StartSteps, Calls, Cancellers
  <2>7. CancelledNeverPublishes'
    BY <1>16, CancelledNeverPublishes DEF CancelCallback, lane, Complete,
       Verdict, CancelledNeverPublishes
  <2>8. CancelledIsOver'
    BY <1>16, CancelProgress, CancelledIsOver DEF CancelCallback, lane,
       Complete, Verdict, CancelledIsOver, JobDone, CancelProgress
  <2> QED
    BY <2>1, <2>2, <2>3, <2>4, <2>5, <2>6, <2>7, <2>8 DEF RegistryInv
<1>17. ASSUME NEW c \in Cancellers, Publish(c)
      PROVE  RegistryInv'
  <2>1. TypeOK'
    BY <1>17, TypeOK DEF Publish, lane, TypeOK, Lane!LaneTypeOK,
       Lane!JobStates, States, Terminal, WorkerSteps, StartSteps, Calls,
       Cancellers
  <2>2. StartProgress'
    BY <1>17, StartProgress, CancelProgress DEF Publish, lane,
       StartProgress, JobDone, CancelProgress
  <2>3. WorkerOwnsRunning'
    BY <1>17, WorkerOwnsRunning, CancelProgress DEF Publish, lane,
       WorkerOwnsRunning, CancelProgress
  <2>4. StateFollowsJob'
    BY <1>17, StateFollowsJob, CancelProgress DEF Publish, lane,
       StateFollowsJob, Terminal, CancelProgress
  <2>5. CancelProgress'
    BY <1>17, CancelProgress DEF Publish, lane, CancelProgress
  <2>6. SettlerRemains'
    BY <1>17, TypeOK, SettlerRemains DEF Publish, lane, SettlerRemains,
       JobDone, Terminal, TypeOK, Lane!LaneTypeOK, Lane!JobStates, States,
       WorkerSteps, StartSteps, Calls, Cancellers
  <2>7. CancelledNeverPublishes'
    BY <1>17, CancelledNeverPublishes DEF Publish, lane,
       CancelledNeverPublishes
  <2>8. CancelledIsOver'
    BY <1>17, CancelProgress, CancelledIsOver DEF Publish, lane,
       CancelledIsOver, JobDone, CancelProgress
  <2> QED
    BY <2>1, <2>2, <2>3, <2>4, <2>5, <2>6, <2>7, <2>8 DEF RegistryInv
<1>18. ASSUME CancelAll
      PROVE  RegistryInv'
  <2>1. TypeOK'
    BY <1>18, TypeOK DEF CancelAll, lane, operation, TypeOK,
       Lane!LaneTypeOK, Lane!JobStates, States, Terminal, WorkerSteps,
       StartSteps, Calls, Cancellers
  <2>2. StartProgress'
    BY <1>18, StartProgress DEF CancelAll, lane, operation, StartProgress,
       JobDone
  <2>3. WorkerOwnsRunning'
    BY <1>18, WorkerOwnsRunning DEF CancelAll, lane, operation,
       WorkerOwnsRunning
  <2>4. StateFollowsJob'
    BY <1>18, StateFollowsJob DEF CancelAll, lane, operation,
       StateFollowsJob, Terminal
  <2>5. CancelProgress'
    BY <1>18, CancelProgress DEF CancelAll, lane, operation, CancelProgress
  <2>6. SettlerRemains'
    BY <1>18, SettlerRemains DEF CancelAll, lane, operation, SettlerRemains,
       JobDone, Terminal
  <2>7. CancelledNeverPublishes'
    BY <1>18, CancelledNeverPublishes DEF CancelAll, lane, operation,
       CancelledNeverPublishes
  <2>8. CancelledIsOver'
    BY <1>18, CancelledIsOver DEF CancelAll, lane, operation,
       CancelledIsOver, JobDone
  <2> QED
    BY <2>1, <2>2, <2>3, <2>4, <2>5, <2>6, <2>7, <2>8 DEF RegistryInv
<1>19. ASSUME NEW o \in Operations, CancelNext(o)
      PROVE  RegistryInv'
  <2>1. TypeOK'
    <3>1. flag' \in [Operations -> BOOLEAN]
      BY <1>19, TypeOK DEF CancelNext, Flag, TypeOK
    <3>2. canceller' \in [Cancellers -> Calls \cup {None}]
      BY <1>19, TypeOK DEF CancelNext, Flag, TypeOK, Calls
    <3>3. todo' \in (SUBSET Operations) \cup {None}
      BY <1>19, TypeOK DEF CancelNext, TypeOK
    <3> QED
      BY <3>1, <3>2, <3>3, <1>19, TypeOK
         DEF CancelNext, lane, TypeOK, Lane!LaneTypeOK
  <2>2. StartProgress'
    BY <1>19, TypeOK, StartProgress DEF CancelNext, Flag, MayCancel, lane,
       StartProgress, JobDone, TypeOK, Lane!LaneTypeOK, Lane!JobStates,
       States, Terminal, WorkerSteps, StartSteps, Calls, Cancellers
  <2>3. WorkerOwnsRunning'
    BY <1>19, TypeOK, WorkerOwnsRunning DEF CancelNext, Flag, MayCancel,
       lane, WorkerOwnsRunning, TypeOK, Lane!LaneTypeOK, Lane!JobStates,
       States, Terminal, WorkerSteps, StartSteps, Calls, Cancellers
  <2>4. StateFollowsJob'
    BY <1>19, TypeOK, StateFollowsJob DEF CancelNext, Flag, MayCancel, lane,
       StateFollowsJob, Terminal, TypeOK, Lane!LaneTypeOK, Lane!JobStates,
       States, WorkerSteps, StartSteps, Calls, Cancellers
  <2>5. CancelProgress'
    BY <1>19, TypeOK, CancelProgress DEF CancelNext, Flag, MayCancel, lane,
       CancelProgress, TypeOK, Lane!LaneTypeOK, Lane!JobStates, States,
       Terminal, WorkerSteps, StartSteps, Calls, Cancellers
  <2>6. SettlerRemains'
    BY <1>19, TypeOK, SettlerRemains DEF CancelNext, Flag, MayCancel, lane,
       SettlerRemains, JobDone, Terminal, TypeOK, Lane!LaneTypeOK,
       Lane!JobStates, States, WorkerSteps, StartSteps, Calls, Cancellers
  <2>7. CancelledNeverPublishes'
    BY <1>19, TypeOK, CancelledNeverPublishes DEF CancelNext, Flag,
       MayCancel, lane, CancelledNeverPublishes, TypeOK, Lane!LaneTypeOK,
       Lane!JobStates, States, Terminal, WorkerSteps, StartSteps, Calls,
       Cancellers
  <2>8. CancelledIsOver'
    BY <1>19, CancelledIsOver DEF CancelNext, Flag, MayCancel, lane,
       CancelledIsOver, JobDone
  <2> QED
    BY <2>1, <2>2, <2>3, <2>4, <2>5, <2>6, <2>7, <2>8 DEF RegistryInv
<1>20. ASSUME CloseLane
      PROVE  RegistryInv'
  <2>1. TypeOK'
    BY <1>20, TypeOK DEF CloseLane, Lane!Close, operation, TypeOK,
       Lane!LaneTypeOK, Lane!JobStates, States, Terminal, WorkerSteps,
       StartSteps, Calls, Cancellers
  <2>2. StartProgress'
    BY <1>20, StartProgress DEF CloseLane, Lane!Close, operation,
       StartProgress, JobDone
  <2>3. WorkerOwnsRunning'
    BY <1>20, WorkerOwnsRunning DEF CloseLane, Lane!Close, operation,
       WorkerOwnsRunning
  <2>4. StateFollowsJob'
    BY <1>20, StateFollowsJob DEF CloseLane, Lane!Close, operation,
       StateFollowsJob, Terminal
  <2>5. CancelProgress'
    BY <1>20, CancelProgress DEF CloseLane, Lane!Close, operation,
       CancelProgress
  <2>6. SettlerRemains'
    BY <1>20, SettlerRemains DEF CloseLane, Lane!Close, operation,
       SettlerRemains, JobDone, Terminal
  <2>7. CancelledNeverPublishes'
    BY <1>20, CancelledNeverPublishes DEF CloseLane, Lane!Close, operation,
       CancelledNeverPublishes
  <2>8. CancelledIsOver'
    BY <1>20, CancelledIsOver DEF CloseLane, Lane!Close, operation,
       CancelledIsOver, JobDone
  <2> QED
    BY <2>1, <2>2, <2>3, <2>4, <2>5, <2>6, <2>7, <2>8 DEF RegistryInv
<1>21. CASE UNCHANGED vars
  BY <1>21 DEF RegistryInv, TypeOK, StartProgress, WorkerOwnsRunning,
     StateFollowsJob, CancelProgress, SettlerRemains,
     CancelledNeverPublishes, CancelledIsOver, Calls, Cancellers, JobDone,
     Lane!JobStates, Lane!LaneTypeOK, StartSteps, States, Terminal,
     WorkerSteps, vars, lane, operation
<1> QED
  BY <1>1, <1>2, <1>3, <1>4, <1>5, <1>6, <1>7, <1>8, <1>9, <1>10, <1>11,
     <1>12, <1>13, <1>14, <1>15, <1>16, <1>17, <1>18, <1>19, <1>20, <1>21
     DEF Next, Start, Work, Cancel

-----------------------------------------------------------------------------
(* RegistryInv holds of every registry, whatever the operations, clients   *)
(* and interleavings: the type invariant with it.                          *)
THEOREM RegistryInvariant == Spec => []RegistryInv
<1>1. Init => RegistryInv
  BY RegistryInvInit
<1>2. RegistryInv /\ [Next]_vars => RegistryInv'
  BY RegistryInvStep
<1> QED
  BY <1>1, <1>2, PTL DEF Spec

(* The variables keep their types.                                         *)
THEOREM TypeCorrect == Spec => []TypeOK
<1>1. RegistryInv => TypeOK
  BY DEF RegistryInv
<1> QED
  BY <1>1, RegistryInvariant, PTL

(* The result of an operation whose cancellation was accepted is never     *)
(* published, at whatever point of the run that was.                       *)
THEOREM NeverPublishes == Spec => []CancelledNeverPublishes
<1>1. RegistryInv => CancelledNeverPublishes
  BY DEF RegistryInv
<1> QED
  BY <1>1, RegistryInvariant, PTL

(* An operation reported as cancelled neither runs nor will run.           *)
THEOREM CancelledForGood == Spec => []CancelledIsOver
<1>1. RegistryInv => CancelledIsOver
  BY DEF RegistryInv
<1> QED
  BY <1>1, RegistryInvariant, PTL

(* No settled operation whose calls have returned is left in a state that  *)
(* a client would go on polling.                                           *)
THEOREM NoneStuck == Spec => []NoOperationStuck
<1>1. RegistryInv => NoOperationStuck
  BY DEF RegistryInv, SettlerRemains, NoOperationStuck
<1> QED
  BY <1>1, RegistryInvariant, PTL

-----------------------------------------------------------------------------
(* What a client polls follows the life cycle of ManagedOperation.         *)
LEMMA LifecycleInit == Init => Lifecycle!OperationInit
BY DEF Init, Lifecycle!OperationInit

(* _complete(), called for a settled future whose result is not published. *)
LEMMA SettlesRefines ==
  ASSUME NEW o \in Operations, RegistryInv, JobDone(o),
         state[o] \notin {"completed", "failed"}, Complete(o), flag' = flag
  PROVE  [Lifecycle!OperationNext]_(Lifecycle!operationVars)
<1> USE DEF Lifecycle!operationVars
<1>1. /\ state \in [Operations -> States]
      /\ state[o] \in {"queued", "running", "cancelled"}
      /\ state[o] = "cancelled" => flag[o]
  BY DEF RegistryInv, TypeOK, StateFollowsJob, JobDone, States, Terminal
<1>2. CASE Verdict(o) = "cancelled"
  <2>1. flag[o]
    BY <1>2 DEF Verdict, RegistryInv, StateFollowsJob, WorkerOwnsRunning
  <2>2. CASE state[o] = "cancelled"
    <3>1. state' = state
      BY <1>1, <1>2, <2>2 DEF Complete
    <3> QED
      BY <3>1
  <2>3. CASE state[o] # "cancelled"
    BY <1>1, <1>2, <2>1, <2>3
       DEF Complete,
     Lifecycle!OperationNext, Lifecycle!OperationStep,
           Lifecycle!SettleCancelled
  <2> QED
    BY <2>2, <2>3
<1>3. CASE Verdict(o) # "cancelled"
  <2>1. ~flag[o] /\ Verdict(o) \in {"completed", "failed"}
    BY <1>3 DEF Verdict
  <2>2. state[o] = "running"
    BY <1>1, <1>3, <2>1
       DEF Verdict, RegistryInv, StateFollowsJob, JobDone, Terminal
  <2> QED
    BY <2>1, <2>2
       DEF Complete,
     Lifecycle!OperationNext, Lifecycle!OperationStep,
           Lifecycle!SettleFinished
<1> QED
  BY <1>2, <1>3

(* Every step is a step of the life cycle, or changes nothing of it.       *)
LEMMA LifecycleStep ==
  RegistryInv /\ [Next]_vars =>
    [Lifecycle!OperationNext]_(Lifecycle!operationVars)
<1> SUFFICES ASSUME RegistryInv, [Next]_vars
             PROVE  [Lifecycle!OperationNext]_(Lifecycle!operationVars)
  OBVIOUS
<1>1. ASSUME NEW o \in Operations, Register(o)
      PROVE  [Lifecycle!OperationNext]_(Lifecycle!operationVars)
  BY <1>1
     DEF Register, RegistryInv, TypeOK, StartProgress,
     Lifecycle!OperationNext, Lifecycle!OperationStep,
     Lifecycle!Register
<1>2. ASSUME NEW o \in Operations, Submit(o)
      PROVE  [Lifecycle!OperationNext]_(Lifecycle!operationVars)
  BY <1>2 DEF Submit, operation, Lifecycle!operationVars
<1>3. ASSUME NEW o \in Operations, Refused(o)
      PROVE  [Lifecycle!OperationNext]_(Lifecycle!operationVars)
  BY <1>3 DEF Refused, operation, Lifecycle!operationVars
<1>4. ASSUME NEW o \in Operations, SetFuture(o)
      PROVE  [Lifecycle!OperationNext]_(Lifecycle!operationVars)
  BY <1>4 DEF SetFuture, Lifecycle!operationVars
<1>5. ASSUME NEW o \in Operations, Attach(o)
      PROVE  [Lifecycle!OperationNext]_(Lifecycle!operationVars)
  BY <1>5 DEF Attach, Lifecycle!operationVars
<1>6. ASSUME NEW o \in Operations, StarterCallback(o)
      PROVE  [Lifecycle!OperationNext]_(Lifecycle!operationVars)
  <2>1. JobDone(o) /\ state[o] \notin {"completed", "failed"}
    BY <1>6 DEF StarterCallback, RegistryInv, StartProgress, WorkerOwnsRunning,
       StateFollowsJob, JobDone
  <2> QED
    BY <2>1, <1>6, SettlesRefines DEF StarterCallback
<1>7. ASSUME NEW o \in Operations, WorkerStart(o)
      PROVE  [Lifecycle!OperationNext]_(Lifecycle!operationVars)
  BY <1>7 DEF WorkerStart, operation, Lifecycle!operationVars
<1>8. ASSUME NEW o \in Operations, SetRunning(o)
      PROVE  [Lifecycle!OperationNext]_(Lifecycle!operationVars)
  BY <1>8
     DEF SetRunning, RegistryInv, TypeOK, WorkerOwnsRunning,
     Lifecycle!OperationNext, Lifecycle!OperationStep,
     Lifecycle!Begin
<1>9. ASSUME NEW o \in Operations, BeginBody(o)
      PROVE  [Lifecycle!OperationNext]_(Lifecycle!operationVars)
  BY <1>9 DEF BeginBody, operation, Lifecycle!operationVars
<1>10. ASSUME NEW o \in Operations, StopBeforeBody(o)
      PROVE  [Lifecycle!OperationNext]_(Lifecycle!operationVars)
  BY <1>10 DEF StopBeforeBody, Settle, Lifecycle!operationVars
<1>11. ASSUME NEW o \in Operations, Body(o)
      PROVE  [Lifecycle!OperationNext]_(Lifecycle!operationVars)
  BY <1>11 DEF Body, Settle, Lifecycle!operationVars
<1>12. ASSUME NEW o \in Operations, WorkerCallback(o)
      PROVE  [Lifecycle!OperationNext]_(Lifecycle!operationVars)
  <2>1. JobDone(o) /\ state[o] \notin {"completed", "failed"}
    BY <1>12 DEF WorkerCallback, RegistryInv, StartProgress, WorkerOwnsRunning,
       StateFollowsJob, JobDone
  <2> QED
    BY <2>1, <1>12, SettlesRefines DEF WorkerCallback
<1>13. ASSUME NEW o \in Operations, Retire(o)
      PROVE  [Lifecycle!OperationNext]_(Lifecycle!operationVars)
  BY <1>13 DEF Retire, operation, Lifecycle!operationVars
<1>14. ASSUME NEW c \in Clients, NEW o \in Operations, ClientCancels(c, o)
      PROVE  [Lifecycle!OperationNext]_(Lifecycle!operationVars)
  BY <1>14 DEF ClientCancels, Flag, MayCancel,
     Lifecycle!OperationNext, Lifecycle!OperationStep,
     Lifecycle!RequestCancel
<1>15. ASSUME NEW c \in Cancellers, CancelFuture(c)
      PROVE  [Lifecycle!OperationNext]_(Lifecycle!operationVars)
  BY <1>15 DEF CancelFuture, operation, Lifecycle!operationVars
<1>16. ASSUME NEW c \in Cancellers, CancelCallback(c)
      PROVE  [Lifecycle!OperationNext]_(Lifecycle!operationVars)
  <2> DEFINE o == canceller[c].op
  <2>1. o \in Operations /\ job[o] = "cancelled"
    BY <1>16 DEF CancelCallback, RegistryInv, TypeOK, Calls, CancelProgress
  <2>2. JobDone(o) /\ state[o] \notin {"completed", "failed"}
    BY <2>1 DEF JobDone, RegistryInv, StateFollowsJob
  <2> QED
    BY <2>1, <2>2, <1>16, SettlesRefines DEF CancelCallback
<1>17. ASSUME NEW c \in Cancellers, Publish(c)
      PROVE  [Lifecycle!OperationNext]_(Lifecycle!operationVars)
  <2> DEFINE o == canceller[c].op
  <2>1. /\ o \in Operations /\ job[o] = "cancelled" /\ flag[o]
        /\ state[o] \in {"queued", "cancelled"}
    BY <1>17 DEF Publish, RegistryInv, TypeOK, Calls,
       CancelProgress, StateFollowsJob
  <2>2. CASE state[o] = "queued"
    BY <1>17, <2>1, <2>2 DEF Publish,
     Lifecycle!OperationNext, Lifecycle!OperationStep,
       Lifecycle!SettleCancelled
  <2>3. CASE state[o] = "cancelled"
    <3>1. state' = state
      BY <1>17, <2>1, <2>3 DEF Publish, RegistryInv, TypeOK
    <3> QED
      BY <1>17, <3>1 DEF Publish, Lifecycle!operationVars
  <2> QED
    BY <2>1, <2>2, <2>3
<1>18. ASSUME CancelAll
      PROVE  [Lifecycle!OperationNext]_(Lifecycle!operationVars)
  BY <1>18 DEF CancelAll, operation, Lifecycle!operationVars
<1>19. ASSUME NEW o \in Operations, CancelNext(o)
      PROVE  [Lifecycle!OperationNext]_(Lifecycle!operationVars)
  <2>1. CASE Flag(Shutdown, o)
    BY <1>19, <2>1 DEF CancelNext, Flag, MayCancel,
     Lifecycle!OperationNext, Lifecycle!OperationStep,
       Lifecycle!RequestCancel
  <2>2. CASE UNCHANGED <<flag, canceller>>
    BY <1>19, <2>2 DEF CancelNext, Lifecycle!operationVars
  <2> QED
    BY <1>19, <2>1, <2>2 DEF CancelNext
<1>20. ASSUME CloseLane
      PROVE  [Lifecycle!OperationNext]_(Lifecycle!operationVars)
  BY <1>20 DEF CloseLane, operation, Lifecycle!operationVars
<1>21. CASE UNCHANGED vars
  BY <1>21 DEF vars, operation, Lifecycle!operationVars
<1> QED
  BY <1>1, <1>2, <1>3, <1>4, <1>5, <1>6, <1>7, <1>8, <1>9, <1>10, <1>11,
     <1>12, <1>13, <1>14, <1>15, <1>16, <1>17, <1>18, <1>19, <1>20, <1>21
     DEF Next, Start, Work, Cancel

(* Whatever threads do, a client sees an operation queued, then perhaps    *)
(* running, then settled once, and as cancelled whenever a cancellation    *)
(* was accepted.                                                           *)
THEOREM RefinesManagedOperation == Spec => ImplementsLifecycle
<1>1. Init => Lifecycle!OperationInit
  BY LifecycleInit
<1>2. RegistryInv /\ [Next]_vars =>
        [Lifecycle!OperationNext]_(Lifecycle!operationVars)
  BY LifecycleStep
<1> QED
  BY <1>1, <1>2, RegistryInvariant, PTL
     DEF Spec, ImplementsLifecycle, Lifecycle!OperationSpec
=============================================================================
