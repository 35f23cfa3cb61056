-------------------------------- MODULE Worker --------------------------------
(***************************************************************************)
(* One worker process after another: main, Worker::run and the tasks of     *)
(* BatchTask it spawns.  The claim loop, the signal task and the spawned    *)
(* tasks interleave at their awaits; a crash ends them all, and systemd     *)
(* starts the next process.                                                 *)
(***************************************************************************)
EXTENDS BatchTask

CONSTANT WorkConcurrency  \* OPENSTAR_WORK_CONCURRENCY

\* Config::validate, and enough task names for every permit and one to spare.
ASSUME WorkerAssumption ==
  /\ WorkConcurrency \in Nat \ {0}
  /\ IsFiniteSet(Tasks)
  /\ Cardinality(Tasks) > WorkConcurrency

VARIABLES
  loop,       \* where Worker::run is
  permits,    \* available permits of the semaphore
  sender,     \* the signal task, which owns the sender of the stop channel
  lateClaims  \* history: claims this process began after the stop was sent

runVars == <<loop, permits, sender, lateClaims>>
vars    == <<batchVars, runVars>>

\* registering: awaiting register()         head: at the top of the loop
\* acquire: in select! on permit and stop   claim: claiming, with a permit
\* sleep: in sleep_or_stop                  drain: awaiting acquire_many
\* exited: run returned Ok                  aborted: the process is gone
Loops == {"registering", "head", "acquire", "claim", "sleep", "drain", "exited", "aborted"}

\* starting: no handler installed yet       armed: awaiting a signal
\* sent: tx.send(true)                      dead: panicked, tx dropped unsent
Senders == {"starting", "armed", "sent", "dead"}

Alive == loop \notin {"exited", "aborted"}

\* lateClaims counts no further than MaxLate, one more than any property allows.
MaxLate == 2
CountLate == IF sender = "sent" /\ lateClaims < MaxLate THEN lateClaims + 1 ELSE lateClaims

Boot ==
  /\ loop = "registering"
  /\ permits = WorkConcurrency
  /\ sender = "starting"
  /\ lateClaims = 0

WorkerInit == BatchInit /\ Boot

-----------------------------------------------------------------------------
(* The signal task of main. *)

InstallHandlers ==
  /\ Alive /\ sender = "starting"
  /\ sender' \in {"armed", "dead"}    \* .expect("SIGTERM handler") may panic
  /\ UNCHANGED <<batchVars, loop, permits, lateClaims>>

Signal ==
  /\ Alive /\ sender = "armed"
  /\ sender' = "sent"
  /\ UNCHANGED <<batchVars, loop, permits, lateClaims>>

-----------------------------------------------------------------------------
(* Worker::run. *)

Register ==
  /\ loop = "registering"
  /\ loop' = "head"
  /\ permits' = WorkConcurrency
  /\ UNCHANGED <<batchVars, sender, lateClaims>>

\* `?` on the request, or ensure!(receipt.accepted): main returns the error.
RegisterFails ==
  /\ loop = "registering"
  /\ loop' = "aborted"
  /\ Abandon({})
  /\ UNCHANGED <<permits, sender, lateClaims>>

\* Mutant: the stop flag is not read at the top of the loop.
CheckStop_Blind ==
  /\ loop = "head"
  /\ loop' = "acquire"
  /\ UNCHANGED <<batchVars, permits, sender, lateClaims>>

CheckStop ==
  /\ loop = "head"
  /\ loop' = IF sender = "sent" THEN "drain" ELSE "acquire"
  /\ UNCHANGED <<batchVars, permits, sender, lateClaims>>

\* select! picks at random among ready branches: a permit may win over a stop.
AcquirePermit ==
  /\ loop = "acquire" /\ permits > 0
  /\ permits' = permits - 1
  /\ loop' = "claim"
  /\ lateClaims' = CountLate
  /\ UNCHANGED <<batchVars, sender>>

\* Mutant: return in place of break.
StopWhileAcquiring_Returns ==
  /\ loop = "acquire" /\ sender = "sent"
  /\ loop' = "exited"
  /\ UNCHANGED <<batchVars, permits, sender, lateClaims>>

StopWhileAcquiring ==
  /\ loop = "acquire" /\ sender = "sent"
  /\ loop' = "drain"
  /\ UNCHANGED <<batchVars, permits, sender, lateClaims>>

\* changed() fails once the sender is dropped unsent; run returns the error and
\* the runtime drops every task at its await.
SenderLost ==
  /\ loop = "acquire" /\ sender = "dead"
  /\ loop' = "aborted"
  /\ Abandon({})
  /\ UNCHANGED <<permits, sender, lateClaims>>

\* The permit moves into the spawned task.
ClaimWork(t) ==
  /\ loop = "claim"
  /\ \E b \in Batches : Spawn(t, b)
  /\ loop' = "head"
  /\ UNCHANGED <<permits, sender, lateClaims>>

\* Mutants: the permit is forgotten, or given back twice.
DropPermit_Forgotten == permits' = permits
DropPermit_Twice     == permits' = permits + 2

DropPermit == permits' = permits + 1

ClaimNone ==
  /\ loop = "claim"
  /\ DropPermit
  /\ loop' = "sleep"
  /\ UNCHANGED <<batchVars, sender, lateClaims>>

ClaimFails ==
  /\ loop = "claim"
  /\ \E S \in SUBSET Units : Strand(S)
  /\ DropPermit
  /\ loop' = "sleep"
  /\ UNCHANGED <<sender, lateClaims>>

\* sleep_or_stop returns: the time is over, or changed() did, either way.
Wake ==
  /\ loop = "sleep"
  /\ loop' = "head"
  /\ UNCHANGED <<batchVars, permits, sender, lateClaims>>

\* Mutant: acquire in place of acquire_many(count).
Drain_One ==
  /\ loop = "drain" /\ permits > 0
  /\ loop' = "exited"
  /\ UNCHANGED <<batchVars, permits, sender, lateClaims>>

Drain ==
  /\ loop = "drain" /\ permits = WorkConcurrency
  /\ loop' = "exited"
  /\ UNCHANGED <<batchVars, permits, sender, lateClaims>>

-----------------------------------------------------------------------------
\* Mutant: released by hand after the batch, so not when the task unwinds.
Release_NotOnUnwind(t) ==
  permits' = IF task'[t].stage = "idle" /\ task[t].pos = Len(task[t].batch)
             THEN permits + 1 ELSE permits

\* A spawned task owns its permit and drops it when it ends or unwinds.
Release(t) == permits' = IF task'[t].stage = "idle" THEN permits + 1 ELSE permits

RunTask(t) ==
  /\ TaskStep(t)
  /\ Release(t)
  /\ UNCHANGED <<loop, sender, lateClaims>>

Deliver == Receive /\ UNCHANGED runVars

\* Power loss, a kill, or a signal before the handlers are installed.
Crash ==
  /\ Alive
  /\ \E S \in SUBSET Units :
       /\ loop # "claim" => S = {}
       /\ Abandon(S)
  /\ loop' = "aborted"
  /\ UNCHANGED <<permits, sender, lateClaims>>

\* Restart=on-failure: a process that returned Ok is not started again.
Restart ==
  /\ loop = "aborted"
  /\ loop' = "registering"
  /\ permits' = WorkConcurrency
  /\ sender' = "starting"
  /\ lateClaims' = 0
  /\ UNCHANGED batchVars

Terminated == loop = "exited" /\ UNCHANGED vars

RunStep ==
  \/ Register \/ RegisterFails \/ CheckStop
  \/ AcquirePermit \/ StopWhileAcquiring \/ SenderLost
  \/ (\E t \in Tasks : ClaimWork(t)) \/ ClaimNone \/ ClaimFails
  \/ Wake \/ Drain

WorkerNext ==
  \/ InstallHandlers \/ Signal
  \/ RunStep
  \/ \E t \in Tasks : RunTask(t)
  \/ Deliver
  \/ Crash \/ Restart
  \/ Terminated

WorkerSpec == WorkerInit /\ [][WorkerNext]_vars

\* The runtime polls every ready future, requests end by their timeout and
\* sleeps end.  Of the coordinator it is assumed, as in BatchTask, that it does
\* not fail every retry of one submission.
WorkerFairness ==
  /\ WF_vars(InstallHandlers)
  /\ WF_vars(RunStep)
  /\ \A t \in Tasks : WF_vars(RunTask(t)) /\ SF_vars(RunTask(t) /\ Definitive(t))

FairWorkerSpec == WorkerSpec /\ WorkerFairness

-----------------------------------------------------------------------------
WorkerTypeOK ==
  /\ TypeOK
  /\ loop \in Loops
  /\ permits \in 0..WorkConcurrency
  /\ sender \in Senders
  /\ lateClaims \in 0..MaxLate

LoopPermit == IF loop = "claim" THEN 1 ELSE 0

\* Every permit of the semaphore is free, with the claim in progress or with one
\* running task, whichever way a claim or a task ended, panics included: none is
\* lost, which would stall the loop and the drain, and none is duplicated, which
\* would run more tasks than configured.
PermitConservation ==
  Alive => permits + LoopPermit + Cardinality(Active) = WorkConcurrency

\* Once the stop was sent the loop comes by its select! at most once more: one
\* claim at most can still begin, however the signal falls between check and await.
AtMostOneLateClaim == lateClaims <= 1

\* "active units finish result submission before exit": when run returns Ok no
\* task is left and no claimed unit is unsettled, the units of a late claim
\* included.
DrainedBeforeExit == loop = "exited" => Active = {} /\ Held = {}

\* After a stop the process ends: no sleep, retry or lost permit keeps it.
StopExits == sender = "sent" /\ Alive ~> ~Alive

-----------------------------------------------------------------------------
\* Worker implements WorkLedger.
Books == [u \in Units |-> IF fate[u] \in {"receipt", "givenUp"} THEN "done" ELSE fate[u]]

Door ==
  IF loop = "exited" THEN "left"
  ELSE IF loop = "aborted" \/ sender # "sent" THEN "open"
  ELSE IF loop \in {"acquire", "claim"} THEN "closing"
  ELSE "shut"

Ledger == INSTANCE WorkLedger WITH books <- Books, door <- Door

\* The worker keeps WorkLedger's promise to the coordinator: settled and lost
\* units stay so, units are taken before the door is shut, and it leaves empty-handed.
KeepsLedger == Ledger!LedgerSpec

-----------------------------------------------------------------------------
\* "active units finish result submission before exit": a unit in a running task
\* is lost only together with the whole process.
OnlyProcessLosesUnits ==
  [][\A u \in Units : fate[u] = "held" /\ fate'[u] = "lost" => loop' = "aborted"]_vars
=============================================================================
