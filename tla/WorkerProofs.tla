----------------------------- MODULE WorkerProofs -----------------------------
(***************************************************************************)
(* Proofs about Worker: its tasks behave as BatchTask says, no permit is    *)
(* lost or duplicated, at most one claim begins after a stop, and the       *)
(* worker exits drained; for every concurrency, batch size, set of units    *)
(* and set of answers.                                                      *)
(***************************************************************************)
EXTENDS Worker, BatchTaskProofs, FiniteSetTheorems

-----------------------------------------------------------------------------
(* Worker's tasks are those of BatchTask. *)

\* Seen through the tasks, the fates and the bodies, a step of the worker is a
\* step of BatchTask or none.
LEMMA WorkerStepIsBatchStep == [WorkerNext]_vars => [BatchNext]_batchVars
<1> SUFFICES ASSUME [WorkerNext]_vars PROVE [BatchNext]_batchVars
  OBVIOUS
<1>1. CASE InstallHandlers \/ Signal \/ Restart \/ Terminated \/ UNCHANGED vars
  BY <1>1 DEF InstallHandlers, Signal, Restart, Terminated, vars
<1>2. CASE Register \/ CheckStop \/ AcquirePermit \/ StopWhileAcquiring
           \/ ClaimNone \/ Wake \/ Drain
  BY <1>2 DEF Register, CheckStop, AcquirePermit, StopWhileAcquiring, ClaimNone, Wake, Drain
<1>3. CASE RegisterFails \/ SenderLost
  BY <1>3 DEF RegisterFails, SenderLost, BatchNext
<1>4. ASSUME NEW t \in Tasks, ClaimWork(t) PROVE BatchNext
  BY <1>4 DEF ClaimWork, BatchNext
<1>5. CASE ClaimFails
  BY <1>5 DEF ClaimFails, BatchNext
<1>6. ASSUME NEW t \in Tasks, RunTask(t) PROVE BatchNext
  BY <1>6 DEF RunTask, BatchNext
<1>7. CASE Deliver
  BY <1>7 DEF Deliver, BatchNext
<1>8. CASE Crash
  BY <1>8 DEF Crash, BatchNext
<1> QED
  BY <1>1, <1>2, <1>3, <1>4, <1>5, <1>6, <1>7, <1>8 DEF WorkerNext, RunStep

\* The worker with its claim loop, stops, crashes and restarts implements the
\* tasks on their own, so whatever is shown of BatchSpec holds of it.
THEOREM WorkerImplementsBatch == WorkerSpec => BatchSpec
BY WorkerStepIsBatchStep, PTL DEF WorkerSpec, WorkerInit, BatchSpec

\* The invariant of the tasks holds in the worker.
LEMMA WorkerIndInv == WorkerSpec => []IndInv
BY WorkerImplementsBatch, BatchInvariant, PTL

-----------------------------------------------------------------------------
(* Which tasks are active after a step. *)

\* The active tasks can be counted.
LEMMA ActiveFinite == IsFiniteSet(Active) /\ Cardinality(Active) \in Nat
BY WorkerAssumption, FS_Subset, FS_CardinalityType DEF Active

\* A spawned task becomes active.
LEMMA SpawnActive ==
  ASSUME IndInv, NEW t \in Tasks, NEW b \in Batches, Spawn(t, b)
  PROVE  t \notin Active /\ Active' = Active \cup {t}
<1>1. /\ task[t].stage = "idle"
      /\ task' = [task EXCEPT ![t] = ProcessBatch(b)]
      /\ task \in [Tasks -> TaskStates]
  BY DEF Spawn, IndInv, TypeOK
<1>2. ProcessBatch(b).stage # "idle"
  BY ProcessBatchRunning
<1>3. task'[t] = ProcessBatch(b) /\ \A x \in Tasks \ {t} : task'[x] = task[x]
  BY <1>1
<1> QED
  BY <1>1, <1>2, <1>3 DEF Active

\* A task that takes a step was active and is the only one that may cease to be.
LEMMA TaskStepActive ==
  ASSUME IndInv, NEW t \in Tasks, TaskStep(t)
  PROVE  /\ t \in Active
         /\ Active' = IF task'[t].stage = "idle" THEN Active \ {t} ELSE Active
<1>1. t \in Active
  BY DEF TaskStep, SharedFetch, Fetch, Compute, Post, SubmitRetry, SubmitSettled,
         SubmitPanics, Active
<1>2. task \in [Tasks -> TaskStates]
  BY DEF IndInv, TypeOK
<1>3. \A x \in Tasks \ {t} : task'[x] = task[x]
  BY <1>2 DEF TaskStep, SharedFetch, Fetch, Compute, Post, SubmitRetry, SubmitSettled,
              SubmitPanics
<1> QED
  BY <1>1, <1>3 DEF Active

\* No task is active once the process is gone.
LEMMA AbandonActive ==
  ASSUME NEW S, Abandon(S)
  PROVE  Active' = {}
<1>1. task' = [t \in Tasks |-> Idle] /\ Idle.stage = "idle"
  BY IdleSound DEF Abandon
<1> QED
  BY <1>1 DEF Active

\* Actions that leave the tasks alone leave the active ones.
LEMMA SameActive == task' = task => Active' = Active
BY DEF Active

-----------------------------------------------------------------------------
\* The inductive invariant of the claim loop.  PermitConservation needs to know
\* that no task survives into a new process; AtMostOneLateClaim, that the late
\* claim is over when the loop could begin another one.
LoopInv ==
  /\ loop \in Loops
  /\ permits \in 0..WorkConcurrency
  /\ sender \in Senders
  /\ lateClaims \in 0..1
  /\ PermitConservation
  /\ loop \in {"registering", "exited", "aborted"} => Active = {}
  /\ loop = "drain" => sender = "sent"
  /\ sender # "sent" => lateClaims = 0
  /\ lateClaims = 1 => loop # "acquire"
  /\ loop = "registering" => lateClaims = 0

\* A fresh process has all its permits.
LEMMA InitLoopInv == WorkerInit => LoopInv
<1> SUFFICES ASSUME WorkerInit PROVE LoopInv
  OBVIOUS
<1>1. Active = {}
  BY IdleSound DEF WorkerInit, BatchInit, Active
<1>2. Cardinality(Active) = 0
  BY <1>1, FS_EmptySet
<1> QED
  BY <1>1, <1>2, WorkerAssumption
  DEF WorkerInit, Boot, LoopInv, Loops, Senders, PermitConservation, LoopPermit

\* The steps of the loop and of the signal task that leave the tasks alone.
LEMMA LoopStepInv ==
  ASSUME LoopInv,
         \/ InstallHandlers \/ Signal \/ Register \/ CheckStop \/ AcquirePermit
         \/ StopWhileAcquiring \/ ClaimNone \/ ClaimFails \/ Wake \/ Deliver
  PROVE  LoopInv'
<1>1. task' = task
  BY DEF InstallHandlers, Signal, Register, CheckStop, AcquirePermit, StopWhileAcquiring,
         ClaimNone, ClaimFails, Wake, Deliver, Strand, Receive, batchVars
<1>2. Active' = Active /\ Cardinality(Active) \in Nat
  BY <1>1, SameActive, ActiveFinite
<1>3. Active = {} => Cardinality(Active) = 0
  BY FS_EmptySet
<1> DEFINE n == Cardinality(Active)
<1> HIDE DEF n
<1>4. n \in Nat /\ (Active = {} => n = 0) /\ WorkConcurrency \in Nat \ {0}
  BY <1>2, <1>3, WorkerAssumption DEF n
<1>5. PermitConservation <=> (Alive => permits + LoopPermit + n = WorkConcurrency)
  BY DEF PermitConservation, n
<1>6. PermitConservation' <=> (Alive' => permits' + LoopPermit' + n = WorkConcurrency)
  BY <1>2 DEF PermitConservation, n
<1>7. CASE InstallHandlers \/ Signal \/ Deliver
  BY <1>2, <1>4, <1>5, <1>6, <1>7
  DEF InstallHandlers, Signal, Deliver, LoopInv, Loops, Senders, LoopPermit, Alive, runVars
<1>8. CASE Register \/ CheckStop \/ Wake
  BY <1>2, <1>4, <1>5, <1>6, <1>8
  DEF Register, CheckStop, Wake, LoopInv, Loops, Senders, LoopPermit, Alive
<1>9. CASE AcquirePermit \/ StopWhileAcquiring
  BY <1>2, <1>4, <1>5, <1>6, <1>9
  DEF AcquirePermit, StopWhileAcquiring, LoopInv, Loops, Senders, LoopPermit, Alive,
      CountLate, MaxLate
<1>10. CASE ClaimNone \/ ClaimFails
  BY <1>2, <1>4, <1>5, <1>6, <1>10
  DEF ClaimNone, ClaimFails, DropPermit, LoopInv, Loops, Senders, LoopPermit, Alive
<1> QED
  BY <1>7, <1>8, <1>9, <1>10

\* The permit of the claim becomes the permit of the task.
LEMMA ClaimWorkInv ==
  ASSUME IndInv, LoopInv, NEW t \in Tasks, ClaimWork(t)
  PROVE  LoopInv'
<1>1. t \notin Active /\ Active' = Active \cup {t}
  BY SpawnActive DEF ClaimWork
<1>2. Cardinality(Active') = Cardinality(Active) + 1 /\ Cardinality(Active) \in Nat
  BY <1>1, ActiveFinite, FS_AddElement
<1> QED
  BY <1>2, WorkerAssumption
  DEF ClaimWork, LoopInv, Loops, Senders, PermitConservation, LoopPermit, Alive

\* Drained: all permits are back, so no task is left.
LEMMA DrainInv ==
  ASSUME LoopInv, Drain
  PROVE  LoopInv'
<1>1. Active' = Active
  BY SameActive DEF Drain, batchVars
<1>2. Cardinality(Active) \in Nat
  BY ActiveFinite
<1>3. Cardinality(Active) = 0
  BY <1>2, WorkerAssumption DEF Drain, LoopInv, PermitConservation, LoopPermit, Alive
<1>4. Active = {}
  BY <1>3, ActiveFinite, FS_EmptySet
<1> QED
  BY <1>1, <1>4, WorkerAssumption
  DEF Drain, LoopInv, Loops, Senders, PermitConservation, LoopPermit, Alive

\* A task that ends gives its permit back, however it ends.
LEMMA RunTaskInv ==
  ASSUME IndInv, LoopInv, NEW t \in Tasks, RunTask(t)
  PROVE  LoopInv'
<1>1. /\ t \in Active
      /\ Active' = IF task'[t].stage = "idle" THEN Active \ {t} ELSE Active
  BY TaskStepActive DEF RunTask
<1>2. loop \notin {"registering", "exited", "aborted"} /\ loop' = loop
  BY <1>1 DEF LoopInv, RunTask
<1>3. Cardinality(Active) \in Nat /\ Cardinality(Active \ {t}) = Cardinality(Active) - 1
  BY <1>1, ActiveFinite, FS_RemoveElement
<1>4. Cardinality(Active \ {t}) \in Nat
  BY ActiveFinite, FS_Subset, FS_CardinalityType
<1>5. CASE task'[t].stage = "idle"
  <2>1. permits' = permits + 1 /\ Cardinality(Active') = Cardinality(Active) - 1
    BY <1>1, <1>3, <1>5 DEF RunTask, Release
  <2>2. Cardinality(Active) - 1 >= 0
    BY <1>3, <1>4
  <2> QED
    BY <1>2, <1>3, <2>1, <2>2, WorkerAssumption
    DEF RunTask, LoopInv, Loops, Senders, PermitConservation, LoopPermit, Alive
<1>6. CASE task'[t].stage # "idle"
  <2>1. permits' = permits /\ Active' = Active
    BY <1>1, <1>6 DEF RunTask, Release
  <2> QED
    BY <1>2, <2>1
    DEF RunTask, LoopInv, Loops, Senders, PermitConservation, LoopPermit, Alive
<1> QED
  BY <1>5, <1>6

\* The end of a process, and the next one.
LEMMA ProcessInv ==
  ASSUME LoopInv, RegisterFails \/ SenderLost \/ Crash \/ Restart
  PROVE  LoopInv'
<1>1. CASE RegisterFails \/ SenderLost \/ Crash
  <2>1. Active' = {} /\ loop' = "aborted"
    BY <1>1, AbandonActive DEF RegisterFails, SenderLost, Crash
  <2> QED
    BY <1>1, <2>1
    DEF RegisterFails, SenderLost, Crash, LoopInv, Loops, Senders, PermitConservation, Alive
<1>2. CASE Restart
  <2>1. Active' = {} /\ Cardinality(Active') = 0
    BY <1>2, SameActive, FS_EmptySet DEF Restart, LoopInv, batchVars
  <2> QED
    BY <1>2, <2>1, WorkerAssumption
    DEF Restart, LoopInv, Loops, Senders, PermitConservation, LoopPermit, Alive
<1> QED
  BY <1>1, <1>2

\* No step breaks the loop's invariant.
LEMMA NextLoopInv == IndInv /\ LoopInv /\ [WorkerNext]_vars => LoopInv'
<1> SUFFICES ASSUME IndInv, LoopInv, [WorkerNext]_vars PROVE LoopInv'
  OBVIOUS
<1>1. CASE InstallHandlers \/ Signal \/ Deliver
  BY <1>1, LoopStepInv
<1>2. CASE RunStep
  BY <1>2, LoopStepInv, ClaimWorkInv, DrainInv, ProcessInv DEF RunStep
<1>3. ASSUME NEW t \in Tasks, RunTask(t) PROVE LoopInv'
  BY <1>3, RunTaskInv
<1>4. CASE Crash \/ Restart
  BY <1>4, ProcessInv
<1>5. CASE Terminated \/ UNCHANGED vars
  <2>1. Active' = Active
    BY <1>5, SameActive DEF Terminated, vars, batchVars
  <2> QED
    BY <1>5, <2>1
    DEF Terminated, vars, runVars, LoopInv, PermitConservation, LoopPermit, Alive
<1> QED
  BY <1>1, <1>2, <1>3, <1>4, <1>5 DEF WorkerNext

\* Both invariants hold in every state the worker can reach.
THEOREM WorkerInvariant == WorkerSpec => [](IndInv /\ LoopInv)
<1>1. WorkerInit => LoopInv
  BY InitLoopInv
<1>2. IndInv /\ LoopInv /\ [WorkerNext]_vars => LoopInv'
  BY NextLoopInv
<1> QED
  BY <1>1, <1>2, WorkerIndInv, PTL DEF WorkerSpec

\* Every reachable state of the worker has its type.
THEOREM WorkerTypeCorrect == WorkerSpec => []WorkerTypeOK
<1>1. IndInv /\ LoopInv => WorkerTypeOK
  BY DEF IndInv, LoopInv, WorkerTypeOK, MaxLate
<1> QED
  BY <1>1, WorkerInvariant, PTL

\* The semaphore never loses or duplicates a permit, panics included.
THEOREM PermitsConserved == WorkerSpec => []PermitConservation
<1>1. LoopInv => PermitConservation
  BY DEF LoopInv
<1> QED
  BY <1>1, WorkerInvariant, PTL

\* At most one claim begins after the stop was sent.
THEOREM OneLateClaim == WorkerSpec => []AtMostOneLateClaim
<1>1. LoopInv => AtMostOneLateClaim
  BY DEF LoopInv, AtMostOneLateClaim
<1> QED
  BY <1>1, WorkerInvariant, PTL

\* When run returns Ok, no task is left and no unit is unsettled.
THEOREM ExitsDrained == WorkerSpec => []DrainedBeforeExit
<1>1. IndInv /\ LoopInv => DrainedBeforeExit
  <2> SUFFICES ASSUME IndInv, LoopInv, loop = "exited"
               PROVE  Active = {} /\ Held = {}
    BY DEF DrainedBeforeExit
  <2>1. Active = {}
    BY DEF LoopInv
  <2>2. \A t \in Tasks : Unfinished(task[t]) = {}
    BY <2>1 DEF Active, IndInv, Sound
  <2>3. Held = {}
    BY <2>2 DEF Held, IndInv, UnitOwnership
  <2> QED
    BY <2>1, <2>3
<1> QED
  BY <1>1, WorkerInvariant, PTL

\* What is proved of the results of the tasks holds in the worker: every copy of a result
\* is the same body, says what happened, and is charged for what it used, whatever the
\* claim loop and the signals do meanwhile.
THEOREM WorkerResults ==
  WorkerSpec => [](StableBody /\ FaithfulResult /\ SharedTransferChargedOnce)
BY WorkerImplementsBatch, BodiesStable, ResultsFaithful, SharedChargedOnce, PTL
=============================================================================
