-------------------------- MODULE WorkerLedgerProofs --------------------------
(***************************************************************************)
(* Worker implements WorkLedger: every step of the worker is a step of the  *)
(* ledger or leaves it alone.                                               *)
(***************************************************************************)
EXTENDS WorkerProofs

\* What the loop's place and the signal say of the door.
LEMMA DoorCases ==
  /\ loop = "exited" => Door = "left"
  /\ loop = "aborted" => Door = "open"
  /\ Alive /\ sender # "sent" => Door = "open"
  /\ sender = "sent" /\ loop \in {"acquire", "claim"} => Door = "closing"
  /\ sender = "sent" /\ loop \in {"registering", "head", "sleep", "drain"} => Door = "shut"
BY DEF Door, Alive

\* Books changes with the fates alone.
LEMMA SameBooks == fate' = fate => Books' = Books
BY DEF Books

\* Giving one fate to a set of units marks them in the books.
LEMMA MarkBooks ==
  ASSUME NEW S, NEW how \in {"held", "lost"},
         fate' = [u \in Units |-> IF u \in S THEN how ELSE fate[u]]
  PROVE  Books' = [u \in Units |-> IF u \in S THEN how ELSE Books[u]]
BY DEF Books

\* Units with these fates are in the books under the same name.
LEMMA BooksOf ==
  ASSUME NEW u \in Units
  PROVE  /\ fate[u] = "none" => Books[u] = "none"
         /\ fate[u] = "held" <=> Books[u] = "held"
BY DEF Books

\* A worker that starts is a ledger without entries and an open door.
LEMMA LedgerInitStep == WorkerInit => Ledger!LedgerInit
BY DEF WorkerInit, BatchInit, Boot, Ledger!LedgerInit, Books, Door

\* A stop reaches the worker.
LEMMA SignalStep == Signal => Ledger!Stop
<1> SUFFICES ASSUME Signal PROVE Ledger!Stop
  OBVIOUS
<1>1. Door = "open" /\ Books' = Books
  BY DoorCases, SameBooks DEF Signal, batchVars
<1>2. Door' \in {"closing", "shut"}
  BY DEF Signal, Door, Alive
<1> QED
  BY <1>1, <1>2 DEF Ledger!Stop

\* The loop moves without claiming or exiting.
LEMMA QuietStep ==
  ASSUME LoopInv,
         \/ InstallHandlers \/ Register \/ CheckStop \/ AcquirePermit
         \/ StopWhileAcquiring \/ ClaimNone \/ Wake \/ Deliver \/ Restart
  PROVE  Ledger!Shut \/ UNCHANGED Ledger!ledgerVars
<1>1. Books' = Books
  BY SameBooks DEF InstallHandlers, Register, CheckStop, AcquirePermit, StopWhileAcquiring,
                   ClaimNone, Wake, Deliver, Restart, batchVars, Receive
<1>2. (Door = "closing" /\ Door' = "shut") \/ Door' = Door
  BY DEF InstallHandlers, Register, CheckStop, AcquirePermit, StopWhileAcquiring,
         ClaimNone, Wake, Deliver, Restart, Door, Alive, LoopInv, Senders, Loops, runVars
<1> QED
  BY <1>1, <1>2 DEF Ledger!Shut, Ledger!ledgerVars

\* A granted claim takes the units of its batch.
LEMMA ClaimWorkStep ==
  ASSUME LoopInv, NEW t \in Tasks, ClaimWork(t)
  PROVE  \E S \in SUBSET Units : Ledger!Take(S)
<1>1. PICK b \in Batches : Spawn(t, b)
  BY DEF ClaimWork
<1> DEFINE S == {u \in Units : \E i \in DOMAIN b : b[i] = u}
<1>2. /\ fate' = [u \in Units |-> IF u \in S THEN "held" ELSE fate[u]]
      /\ \A u \in S : fate[u] = "none"
  BY <1>1 DEF Spawn
<1> HIDE DEF S
<1>3. Books' = [u \in Units |-> IF u \in S THEN "held" ELSE Books[u]]
  BY <1>2, MarkBooks
<1>4. /\ Door \in {"open", "closing"}
      /\ Door' = IF Door = "closing" THEN "shut" ELSE Door
  BY DEF ClaimWork, Door
<1>5. S \in SUBSET Units
  BY DEF S
<1>6. \A u \in S : Books[u] = "none"
  BY <1>2, <1>5, BooksOf
<1>7. Ledger!Take(S)
  BY <1>3, <1>4, <1>6 DEF Ledger!Take, Ledger!In, Ledger!Mark, Ledger!LastClaim
<1> QED
  BY <1>5, <1>7

\* A failed claim may strand units.
LEMMA ClaimFailsStep ==
  ASSUME LoopInv, ClaimFails
  PROVE  \E S \in SUBSET Units : Ledger!Strand(S)
<1>1. PICK S \in SUBSET Units : Strand(S)
  BY DEF ClaimFails
<1>2. /\ fate' = [u \in Units |-> IF u \in S THEN "lost" ELSE fate[u]]
      /\ \A u \in S : fate[u] = "none"
  BY <1>1 DEF Strand, Stranded
<1>3. Books' = [u \in Units |-> IF u \in S THEN "lost" ELSE Books[u]]
  BY <1>2, MarkBooks
<1>4. /\ Door \in {"open", "closing"}
      /\ Door' = IF Door = "closing" THEN "shut" ELSE Door
  BY DEF ClaimFails, Door
<1>5. \A u \in S : Books[u] = "none"
  BY <1>2, BooksOf
<1>6. Ledger!Strand(S)
  BY <1>3, <1>4, <1>5 DEF Ledger!Strand, Ledger!In, Ledger!Mark, Ledger!LastClaim
<1> QED
  BY <1>6

\* The worker leaves with nothing held.
LEMMA DrainStep ==
  ASSUME IndInv, LoopInv, Drain
  PROVE  Ledger!Leave
<1>1. LoopInv' /\ Active' = Active
  BY DrainInv, SameActive DEF Drain, batchVars
<1>2. Active = {}
  BY <1>1 DEF Drain, LoopInv
<1>3. \A u \in Units : fate[u] # "held"
  BY <1>2 DEF Active, IndInv, Sound, UnitOwnership
<1>4. \A u \in Units : Books[u] # "held"
  BY <1>3, BooksOf
<1>5. Door = "shut" /\ Door' = "left" /\ Books' = Books
  BY SameBooks DEF Drain, LoopInv, Door, batchVars
<1> QED
  BY <1>4, <1>5 DEF Ledger!Leave

\* The process dies, with or without a claim on the wire.
LEMMA DieStep ==
  ASSUME NEW S \in SUBSET Units, Abandon(S), Alive, loop' = "aborted",
         loop # "claim" => S = {}
  PROVE  Ledger!Die(S)
<1>1. /\ fate' = [u \in Units |-> IF fate[u] = "held" \/ u \in S THEN "lost" ELSE fate[u]]
      /\ \A u \in S : fate[u] = "none"
  BY DEF Abandon, Stranded
<1> DEFINE T == S \cup {u \in Units : Books[u] = "held"}
<1>2. fate' = [u \in Units |-> IF u \in T THEN "lost" ELSE fate[u]]
  BY <1>1, BooksOf
<1> HIDE DEF T
<1>3. Books' = [u \in Units |-> IF u \in T THEN "lost" ELSE Books[u]]
  BY <1>2, MarkBooks
<1>4. Door # "left" /\ Door' = "open" /\ (Door = "shut" => S = {})
  BY DEF Door, Alive
<1>5. \A u \in S : Books[u] = "none"
  BY <1>1, BooksOf
<1> QED
  BY <1>3, <1>4, <1>5 DEF Ledger!Die, Ledger!In, Ledger!Mark, T

\* A task settles its unit, loses its units, or does nothing the ledger sees.
LEMMA RunTaskStep ==
  ASSUME IndInv, LoopInv, NEW t \in Tasks, RunTask(t)
  PROVE  \/ \E u \in Units : Ledger!Settle(u)
         \/ \E S \in SUBSET Units : Ledger!Lose(S)
         \/ UNCHANGED Ledger!ledgerVars
<1>1. Door' = Door
  BY DEF RunTask, Door
<1>2. t \in Active
  BY TaskStepActive DEF RunTask
<1>3. Door # "left"
  BY <1>2 DEF LoopInv, Door
<1>4. Sound(task[t]) /\ task[t].stage # "idle"
  BY <1>2 DEF IndInv, Active
<1>5. Unfinished(task[t]) \subseteq Units
  BY <1>4 DEF Sound, TaskStates, Unfinished
<1>6. \A u \in Unfinished(task[t]) : fate[u] = "held"
  BY <1>5 DEF IndInv, UnitOwnership
<1>7. CASE SharedFetch(t) \/ Fetch(t) \/ Compute(t) \/ Post(t) \/ SubmitRetry(t)
  <2>1. Books' = Books
    BY <1>7, SameBooks DEF SharedFetch, Fetch, Compute, Post, SubmitRetry
  <2> QED
    BY <1>1, <2>1 DEF Ledger!ledgerVars
<1>8. CASE SubmitSettled(t)
  <2> DEFINE u == Unit(task[t])
  <2>1. u \in Units /\ fate[u] = "held"
    BY <1>4, <1>6, UnitUnfinished
  <2>2. PICK how \in {"receipt", "givenUp"} : fate' = [fate EXCEPT ![u] = how]
    BY <1>8 DEF SubmitSettled
  <2> HIDE DEF u
  <2>3. fate \in [Units -> Fates]
    BY DEF IndInv, TypeOK
  <2>4. Books' = [v \in Units |-> IF v \in {u} THEN "done" ELSE Books[v]]
    BY <2>1, <2>2, <2>3 DEF Books
  <2>5. Ledger!Settle(u)
    BY <1>1, <1>3, <2>1, <2>4, BooksOf DEF Ledger!Settle, Ledger!Mark
  <2> QED
    BY <2>1, <2>5
<1>9. CASE SubmitPanics(t)
  <2> DEFINE S == Unfinished(task[t])
  <2>1. fate' = [v \in Units |-> IF v \in S THEN "lost" ELSE fate[v]]
    BY <1>9 DEF SubmitPanics
  <2>2. S \in SUBSET Units /\ \A v \in S : fate[v] = "held"
    BY <1>5, <1>6
  <2> HIDE DEF S
  <2>3. Books' = [v \in Units |-> IF v \in S THEN "lost" ELSE Books[v]]
    BY <2>1, MarkBooks
  <2>4. \A v \in S : Books[v] = "held"
    BY <2>2, BooksOf
  <2>5. Ledger!Lose(S)
    BY <1>1, <1>3, <2>3, <2>4 DEF Ledger!Lose, Ledger!In, Ledger!Mark
  <2> QED
    BY <2>2, <2>5
<1> QED
  BY <1>7, <1>8, <1>9 DEF RunTask, TaskStep

\* Every step of the worker is a step of the ledger or leaves it alone.
LEMMA LedgerNextStep ==
  ASSUME IndInv, LoopInv, [WorkerNext]_vars
  PROVE  [Ledger!LedgerNext]_(Ledger!ledgerVars)
<1>1. CASE Signal
  BY <1>1, SignalStep DEF Ledger!LedgerNext
<1>2. CASE \/ InstallHandlers \/ Register \/ CheckStop \/ AcquirePermit
           \/ StopWhileAcquiring \/ ClaimNone \/ Wake \/ Deliver \/ Restart
  BY <1>2, QuietStep DEF Ledger!LedgerNext
<1>3. CASE RegisterFails \/ SenderLost
  <2>1. Ledger!Die({})
    BY <1>3, DieStep DEF RegisterFails, SenderLost, Alive
  <2> QED
    BY <2>1 DEF Ledger!LedgerNext
<1>4. ASSUME NEW t \in Tasks, ClaimWork(t) PROVE Ledger!LedgerNext
  BY <1>4, ClaimWorkStep DEF Ledger!LedgerNext
<1>5. CASE ClaimFails
  BY <1>5, ClaimFailsStep DEF Ledger!LedgerNext
<1>6. CASE Drain
  BY <1>6, DrainStep DEF Ledger!LedgerNext
<1>7. ASSUME NEW t \in Tasks, RunTask(t) PROVE [Ledger!LedgerNext]_(Ledger!ledgerVars)
  BY <1>7, RunTaskStep DEF Ledger!LedgerNext
<1>8. CASE Crash
  <2>1. PICK S \in SUBSET Units : (loop # "claim" => S = {}) /\ Abandon(S)
    BY <1>8 DEF Crash
  <2>2. Ledger!Die(S)
    BY <1>8, <2>1, DieStep DEF Crash
  <2> QED
    BY <2>2 DEF Ledger!LedgerNext
<1>9. CASE Terminated \/ UNCHANGED vars
  BY <1>9 DEF Terminated, vars, batchVars, runVars, Ledger!ledgerVars, Books, Door
<1> QED
  BY <1>1, <1>2, <1>3, <1>4, <1>5, <1>6, <1>7, <1>8, <1>9 DEF WorkerNext, RunStep

\* The worker, with its retries, panics, crashes and restarts, keeps the promise of
\* WorkLedger to the coordinator.
THEOREM WorkerKeepsLedger == WorkerSpec => KeepsLedger
<1>1. WorkerInit => Ledger!LedgerInit
  BY LedgerInitStep
<1>2. IndInv /\ LoopInv /\ [WorkerNext]_vars => [Ledger!LedgerNext]_(Ledger!ledgerVars)
  BY LedgerNextStep
<1> QED
  BY <1>1, <1>2, WorkerInvariant, PTL DEF WorkerSpec, KeepsLedger, Ledger!LedgerSpec
=============================================================================
