--------------------------- MODULE BatchTaskProofs ---------------------------
(***************************************************************************)
(* Proofs about BatchTask, for every set of units, tasks and answers and    *)
(* every batch size: its type invariant, that no unit of a batch is dropped *)
(* or worked on twice (UnitOwnership), and what the results say: that every *)
(* copy of one is the same (StableBody), that it is faithful                *)
(* (FaithfulResult) and charged for what it used                            *)
(* (SharedTransferChargedOnce).                                             *)
(***************************************************************************)
EXTENDS BatchTask, TLAPS

\* A task's state between two awaits, when it has a unit to work on.
Running(r) ==
  /\ r \in TaskStates
  /\ r.pos \in DOMAIN r.batch
  /\ r.attempt < FetchAttempts

Distinct(b) == \A i, j \in DOMAIN b : b[i] = b[j] => i = j

\* What holds of each task by itself.
Sound(r) ==
  /\ r \in TaskStates
  /\ r.attempt < FetchAttempts
  /\ Distinct(r.batch)
  /\ r.stage # "idle" => r.pos \in DOMAIN r.batch
  /\ r.stage = "idle" => Unfinished(r) = {}
  /\ r.stage = "shared" => r.pos = 1

\* The inductive invariant.  UnitOwnership alone is not inductive: that a unit is
\* settled once needs the units of a batch to differ, and that an idle task owns
\* none needs the batch to be gone when the task is.
IndInv ==
  /\ TypeOK
  /\ \A t \in Tasks : Sound(task[t])
  /\ UnitOwnership

-----------------------------------------------------------------------------
\* The unit a running task works on is one of the units.
LEMMA UnitType ==
  ASSUME NEW r \in TaskStates, r.pos \in DOMAIN r.batch
  PROVE  Unit(r) \in Units
BY DEF TaskStates, Unit

\* An idle task has its type and nothing left to do.
LEMMA IdleSound ==
  Idle \in TaskStates /\ Sound(Idle) /\ Unfinished(Idle) = {} /\ Idle.stage = "idle"
<1>1. Idle \in TaskStates
  BY DEF Idle, TaskStates, Stages
<1>2. DOMAIN Idle.batch = {} /\ Idle.stage = "idle" /\ Idle.attempt = 0
  BY DEF Idle
<1> QED
  BY <1>1, <1>2, BatchAssumption DEF Sound, Unfinished, Distinct

\* Charging time to the current unit changes nothing but the duration.
LEMMA ElapsedRunning ==
  ASSUME NEW r, Running(r),
         NEW a \in {"shared", "fetch", "compute", "submit"}
  PROVE  /\ Running(Elapsed(r, a))
         /\ Elapsed(r, a).batch = r.batch
         /\ Elapsed(r, a).pos = r.pos
         /\ Elapsed(r, a).stage = r.stage
<1>1. Unit(r) \in Units
  BY UnitType DEF Running
<1> QED
  BY <1>1 DEF Running, TaskStates, Elapsed, Activities

\* Building the result leaves the task where it is in its batch.
LEMMA SubmittingRunning ==
  ASSUME NEW r, Running(r), NEW kind \in Kinds
  PROVE  /\ Running(Submitting(r, kind))
         /\ Submitting(r, kind).batch = r.batch
         /\ Submitting(r, kind).pos = r.pos
         /\ Submitting(r, kind).stage = "submit"
<1>1. Unit(r) \in Units
  BY UnitType DEF Running
<1>2. Completed(r) \in Bodies
  <2>1. (Work[Unit(r)].workload = "box" \/ Backend = "cpu") \in BOOLEAN
    OBVIOUS
  <2>2. r.data \in SUBSET Keys /\ r.span \in SUBSET Activities /\ "completed" \in Kinds
    BY DEF Running, TaskStates, Kinds
  <2> QED
    BY <1>1, <2>1, <2>2 DEF Completed, Bodies
<1>3. Failed(r, kind) \in Bodies
  BY <1>1 DEF Failed, Running, TaskStates, Bodies
<1>4. {IF kind = "completed" THEN Completed(r) ELSE Failed(r, kind)} \in SUBSET Bodies
  BY <1>2, <1>3
<1> QED
  BY <1>4 DEF Running, TaskStates, Submitting, Stages

\* A task that has its dataset goes on to compute or to submit.
LEMMA LoadedRunning ==
  ASSUME NEW r, Running(r)
  PROVE  /\ Running(Loaded(r))
         /\ Loaded(r).batch = r.batch
         /\ Loaded(r).pos = r.pos
         /\ Loaded(r).stage \in {"submit", "compute"}
<1>1. CASE ~PayloadOk(Unit(r))
  BY <1>1, SubmittingRunning DEF Loaded, Kinds
<1>2. CASE PayloadOk(Unit(r))
  BY <1>2 DEF Loaded, Running, TaskStates, Stages
<1> QED
  BY <1>1, <1>2

\* The batch loop's i-th iteration begins at the i-th unit.
LEMMA StartUnitRunning ==
  ASSUME NEW r \in TaskStates, NEW i \in DOMAIN r.batch
  PROVE  /\ Running(StartUnit(r, i))
         /\ StartUnit(r, i).batch = r.batch
         /\ StartUnit(r, i).pos = i
         /\ StartUnit(r, i).stage \in {"fetch", "submit", "compute"}
<1> DEFINE s == [r EXCEPT !.pos = i, !.attempt = 0, !.stage = "fetch", !.data = r.shared,
                          !.span = StartedSpan(r, i), !.body = {}]
<1>1. i \in Nat /\ r.batch[1] \in Units
  BY DEF TaskStates
<1>2. StartedSpan(r, i) \in SUBSET Activities
  BY <1>1 DEF StartedSpan, Activities
<1>3. /\ s \in TaskStates
      /\ s.batch = r.batch /\ s.pos = i /\ s.attempt = 0 /\ s.stage = "fetch"
  BY <1>1, <1>2 DEF TaskStates, Stages
<1>4. Running(s)
  BY <1>3, BatchAssumption DEF Running
<1>5. StartUnit(r, i) \in {s, Loaded(s), Submitting(s, "unsupported-workload")}
  BY DEF StartUnit
<1> HIDE DEF s
<1> QED
  BY <1>3, <1>4, <1>5, LoadedRunning, SubmittingRunning DEF Kinds

\* A claimed batch starts at its first unit.
LEMMA ProcessBatchRunning ==
  ASSUME NEW b \in Batches
  PROVE  /\ Running(ProcessBatch(b))
         /\ ProcessBatch(b).batch = b
         /\ ProcessBatch(b).pos = 1
         /\ ProcessBatch(b).stage # "idle"
<1> DEFINE r == [Idle EXCEPT !.batch = b]
<1>1. PICK n \in 1..BatchSize : b \in [1..n -> Units]
  BY DEF Batches
<1>2. n \in Nat /\ 1 \in DOMAIN b /\ b \in Seq(Units)
  BY <1>1, BatchAssumption
<1>3. r \in TaskStates /\ r.batch = b /\ r.attempt = 0
  BY <1>2, IdleSound DEF Idle, TaskStates
<1>4. CASE Homogeneous(b) /\ Work[b[1]].workload \in Supported
  <2> DEFINE s == [batch |-> b, pos |-> 1, stage |-> "shared", attempt |-> 0,
                   shared |-> {}, data |-> {}, span |-> {}, body |-> {}]
  <2>1. ProcessBatch(b) = s
    BY <1>4 DEF ProcessBatch, Idle
  <2>2. "shared" \in Stages /\ 0 < FetchAttempts
    BY BatchAssumption DEF Stages
  <2>3. /\ s \in TaskStates
        /\ s.batch = b /\ s.pos = 1 /\ s.attempt = 0 /\ s.stage = "shared"
    BY <2>2, <1>2 DEF TaskStates
  <2> HIDE DEF s
  <2>4. Running(s)
    BY <2>2, <2>3, <1>2, Zenon DEF Running
  <2> QED
    BY <2>1, <2>3, <2>4
<1>5. CASE ~(Homogeneous(b) /\ Work[b[1]].workload \in Supported)
  <2>1. ProcessBatch(b) = StartUnit(r, 1)
    BY <1>5 DEF ProcessBatch
  <2> HIDE DEF r
  <2> QED
    BY <2>1, <1>2, <1>3, StartUnitRunning
<1> QED
  BY <1>4, <1>5

\* Another attempt of the same fetch.
LEMMA FetchAgainRunning ==
  ASSUME NEW r, Running(r), NEW reply, MayRetry(reply, r.attempt)
  PROVE  /\ Running(FetchAgain(r))
         /\ FetchAgain(r).batch = r.batch
         /\ FetchAgain(r).pos = r.pos
         /\ FetchAgain(r).stage = r.stage
<1>1. r.attempt \in Nat /\ r.attempt + 1 < FetchAttempts
  BY BatchAssumption DEF Running, TaskStates, MayRetry
<1>2. /\ FetchAgain(r) \in TaskStates
      /\ FetchAgain(r).attempt = r.attempt + 1
  BY <1>1 DEF Running, TaskStates, FetchAgain
<1> QED
  BY <1>1, <1>2 DEF Running, TaskStates, FetchAgain

\* The shared fetch never skips the batch's first unit.
LEMMA AfterSharedFetchRunning ==
  ASSUME NEW r, Running(r), r.stage # "idle", r.pos = 1, NEW reply
  PROVE  /\ Running(AfterSharedFetch(r, reply))
         /\ AfterSharedFetch(r, reply).batch = r.batch
         /\ AfterSharedFetch(r, reply).pos = r.pos
         /\ AfterSharedFetch(r, reply).stage # "idle"
<1> DEFINE s == [r EXCEPT !.shared = {Key(r.batch[1])}]
<1>1. r.batch[1] \in Units /\ 1 \in DOMAIN r.batch
  BY DEF Running, TaskStates
<1>2. s \in TaskStates /\ s.batch = r.batch
  BY <1>1 DEF Running, TaskStates, Keys
<1>3. CASE reply = Ok
  <2>1. AfterSharedFetch(r, reply) = StartUnit(s, 1)
    BY <1>3 DEF AfterSharedFetch
  <2> HIDE DEF s
  <2> QED
    BY <2>1, <1>1, <1>2, StartUnitRunning
<1>4. CASE reply # Ok /\ MayRetry(reply, r.attempt)
  <2>1. AfterSharedFetch(r, reply) = FetchAgain(r)
    BY <1>4 DEF AfterSharedFetch
  <2> QED
    BY <2>1, <1>4, FetchAgainRunning
<1>5. CASE reply # Ok /\ ~MayRetry(reply, r.attempt)
  <2>1. AfterSharedFetch(r, reply) = StartUnit(r, 1)
    BY <1>5 DEF AfterSharedFetch
  <2> QED
    BY <2>1, <1>1, StartUnitRunning DEF Running
<1> QED
  BY <1>3, <1>4, <1>5

\* A unit's own fetch ends in another attempt, the kernel or a result.
LEMMA AfterFetchRunning ==
  ASSUME NEW r, Running(r), r.stage = "fetch", NEW reply
  PROVE  /\ Running(AfterFetch(r, reply))
         /\ AfterFetch(r, reply).batch = r.batch
         /\ AfterFetch(r, reply).pos = r.pos
         /\ AfterFetch(r, reply).stage \in {"fetch", "submit", "compute"}
<1> DEFINE s == [r EXCEPT !.data = {Key(Unit(r))}]
<1>1. CASE reply = Ok
  <2>1. Unit(r) \in Units
    BY UnitType DEF Running
  <2>2. Running(s) /\ s.batch = r.batch /\ s.pos = r.pos
    BY <2>1 DEF Running, TaskStates, Keys
  <2>3. AfterFetch(r, reply) = Loaded(Elapsed(s, "fetch"))
    BY <1>1 DEF AfterFetch
  <2> HIDE DEF s
  <2>4. /\ Running(Elapsed(s, "fetch"))
        /\ Elapsed(s, "fetch").batch = r.batch /\ Elapsed(s, "fetch").pos = r.pos
    BY <2>2, ElapsedRunning
  <2> QED
    BY <2>3, <2>4, LoadedRunning
<1>2. CASE reply # Ok /\ MayRetry(reply, r.attempt)
  <2>1. AfterFetch(r, reply) = FetchAgain(r)
    BY <1>2 DEF AfterFetch
  <2> QED
    BY <2>1, <1>2, FetchAgainRunning
<1>3. CASE reply # Ok /\ ~MayRetry(reply, r.attempt)
  <2>1. AfterFetch(r, reply) = Submitting(Elapsed(r, "fetch"), FetchFailureKind(reply))
    BY <1>3 DEF AfterFetch
  <2>2. /\ Running(Elapsed(r, "fetch"))
        /\ Elapsed(r, "fetch").batch = r.batch /\ Elapsed(r, "fetch").pos = r.pos
    BY ElapsedRunning
  <2>3. FetchFailureKind(reply) \in Kinds
    BY DEF FetchFailureKind, Kinds
  <2> QED
    BY <2>1, <2>2, <2>3, SubmittingRunning
<1> QED
  BY <1>1, <1>2, <1>3

-----------------------------------------------------------------------------
\* The batch loop's next iteration, or its end, leaves exactly the current unit
\* behind.
LEMMA NextUnitSound ==
  ASSUME NEW r, Sound(r), r.stage # "idle"
  PROVE  /\ Sound(NextUnit(r))
         /\ Unfinished(NextUnit(r)) = Unfinished(r) \ {Unit(r)}
<1>1. /\ r \in TaskStates /\ r.batch \in Seq(Units)
      /\ r.pos \in 1..Len(r.batch) /\ DOMAIN r.batch = 1..Len(r.batch)
      /\ Len(r.batch) \in Nat /\ r.pos \in Nat
  BY DEF Sound, TaskStates
<1>2. Distinct(r.batch)
  BY DEF Sound
<1>3. CASE r.pos < Len(r.batch)
  <2> DEFINE s == StartUnit(r, r.pos + 1)
  <2>1. r.pos + 1 \in DOMAIN r.batch
    BY <1>1, <1>3
  <2>2. /\ Running(s) /\ s.batch = r.batch /\ s.pos = r.pos + 1
        /\ s.stage \in {"fetch", "submit", "compute"}
    BY <1>1, <2>1, StartUnitRunning
  <2>3. NextUnit(r) = s
    BY <1>3 DEF NextUnit
  <2> HIDE DEF s
  <2>4. Sound(s)
    BY <1>2, <2>2 DEF Running, Sound
  <2>5. Unfinished(s) = Unfinished(r) \ {Unit(r)}
    <3>1. Unfinished(s) = {r.batch[i] : i \in {j \in 1..Len(r.batch) : j >= r.pos + 1}}
      BY <1>1, <2>2 DEF Unfinished
    <3>2. Unfinished(r) = {r.batch[i] : i \in {j \in 1..Len(r.batch) : j >= r.pos}}
      BY <1>1 DEF Unfinished
    <3>3. \A j \in 1..Len(r.batch) : r.batch[j] = r.batch[r.pos] => j = r.pos
      BY <1>1, <1>2 DEF Distinct
    <3> QED
      BY <1>1, <3>1, <3>2, <3>3 DEF Unit
  <2> QED
    BY <2>3, <2>4, <2>5
<1>4. CASE ~(r.pos < Len(r.batch))
  <2>1. NextUnit(r) = Idle
    BY <1>4 DEF NextUnit
  <2>2. Unfinished(r) = {Unit(r)}
    BY <1>1, <1>4 DEF Unfinished, Unit
  <2> QED
    BY <2>1, <2>2, IdleSound
<1> QED
  BY <1>3, <1>4

\* The unit a sound task works on is one of its unfinished ones.
LEMMA UnitUnfinished ==
  ASSUME NEW r, Sound(r), r.stage # "idle"
  PROVE  Unit(r) \in Unfinished(r) /\ Unit(r) \in Units /\ Running(r)
<1>1. r.pos \in DOMAIN r.batch /\ r.pos \in Nat
  BY DEF Sound, TaskStates
<1>2. Running(r)
  BY <1>1 DEF Sound, Running
<1> QED
  BY <1>1, <1>2, UnitType DEF Unit, Unfinished, Running

\* A task that stays at its unit keeps its unfinished ones.
LEMMA SamePlace ==
  ASSUME NEW r, Sound(r), NEW s, Running(s), s.batch = r.batch, s.pos = r.pos,
         s.stage # "idle", s.stage = "shared" => s.pos = 1
  PROVE  Sound(s) /\ Unfinished(s) = Unfinished(r)
BY DEF Sound, Running, Unfinished

\* One task moves on: the units it no longer has to do are settled, and nothing
\* else is.
LEMMA MoveOn ==
  ASSUME IndInv, NEW t \in Tasks, NEW s, Sound(s),
         task' = [task EXCEPT ![t] = s],
         Unfinished(s) \subseteq Unfinished(task[t]),
         fate' \in [Units -> Fates],
         \A u \in Units : IF u \in Unfinished(task[t]) \ Unfinished(s)
                          THEN fate'[u] # "held" ELSE fate'[u] = fate[u],
         sent' \in SUBSET Bodies,
         received' \in SUBSET sent'
  PROVE  IndInv'
<1>1. /\ task' \in [Tasks -> TaskStates]
      /\ task'[t] = s
      /\ \A x \in Tasks \ {t} : task'[x] = task[x]
  BY DEF IndInv, TypeOK, Sound
<1>2. \A x \in Tasks : Sound(task'[x])
  BY <1>1 DEF IndInv
<1>3. TypeOK'
  BY <1>1, <1>2 DEF TypeOK, Sound, Active
<1>4. \A x \in Tasks : Unfinished(task'[x]) \subseteq Unfinished(task[x])
  BY <1>1
<1>5. \A x, y \in Tasks : x # y => Unfinished(task'[x]) \cap Unfinished(task'[y]) = {}
  BY <1>4 DEF IndInv, UnitOwnership
<1>6. ASSUME NEW u \in Units
      PROVE  fate'[u] = "held" <=> \E x \in Tasks : u \in Unfinished(task'[x])
  <2>1. CASE u \in Unfinished(task[t]) \ Unfinished(s)
    <3>1. \A x \in Tasks \ {t} : u \notin Unfinished(task[x])
      BY <2>1 DEF IndInv, UnitOwnership
    <3> QED
      BY <1>1, <2>1, <3>1
  <2>2. CASE u \notin Unfinished(task[t]) \ Unfinished(s)
    <3>1. \A x \in Tasks : u \in Unfinished(task'[x]) <=> u \in Unfinished(task[x])
      BY <1>1, <2>2
    <3> QED
      BY <2>2, <3>1 DEF IndInv, UnitOwnership
  <2> QED
    BY <2>1, <2>2
<1> QED
  BY <1>2, <1>3, <1>5, <1>6 DEF IndInv, UnitOwnership

-----------------------------------------------------------------------------
(* The invariant, action by action. *)

\* No task and no unit is held before the first claim.
LEMMA InitIndInv == BatchInit => IndInv
<1> SUFFICES ASSUME BatchInit PROVE IndInv
  OBVIOUS
<1>1. \A t \in Tasks : task[t] = Idle
  BY DEF BatchInit
<1>2. \A t \in Tasks : Sound(task[t]) /\ Unfinished(task[t]) = {} /\ task[t].stage = "idle"
  BY <1>1, IdleSound
<1>3. task \in [Tasks -> TaskStates] /\ fate \in [Units -> Fates]
  BY IdleSound DEF BatchInit, Fates
<1>4. TypeOK
  BY <1>2, <1>3 DEF TypeOK, BatchInit, Active, Sound
<1>5. UnitOwnership
  BY <1>2 DEF UnitOwnership, BatchInit
<1> QED
  BY <1>2, <1>4, <1>5 DEF IndInv

\* Spawning hands the units of the batch, which nobody held, to one idle task.
LEMMA SpawnIndInv ==
  ASSUME IndInv, NEW t \in Tasks, NEW b \in Batches, Spawn(t, b)
  PROVE  IndInv'
<1> DEFINE s == ProcessBatch(b)
           U == {b[i] : i \in DOMAIN b}
<1>1. Running(s) /\ s.batch = b /\ s.pos = 1 /\ s.stage # "idle"
  BY ProcessBatchRunning
<1>2. Distinct(b) /\ \A j \in DOMAIN b : j \in Nat /\ j >= 1
  <2>1. PICK n \in 1..BatchSize : b \in [1..n -> Units]
    BY DEF Batches
  <2> QED
    BY <2>1 DEF Batches, Distinct
<1>3. /\ task' = [task EXCEPT ![t] = s]
      /\ \A u \in U : fate[u] = "none"
      /\ fate' = [u \in Units |-> IF u \in U THEN "held" ELSE fate[u]]
      /\ sent' = sent /\ received' = received
      /\ Unfinished(task[t]) = {}
  BY DEF Spawn, IndInv, Sound
<1> HIDE DEF s
<1>4. Sound(s) /\ Unfinished(s) = U
  BY <1>1, <1>2 DEF Running, Sound, Unfinished
<1> HIDE DEF U
<1>5. /\ task' \in [Tasks -> TaskStates]
      /\ task'[t] = s
      /\ \A x \in Tasks \ {t} : task'[x] = task[x]
  BY <1>3, <1>4 DEF IndInv, TypeOK, Sound
<1>6. \A x \in Tasks : Sound(task'[x])
  BY <1>4, <1>5 DEF IndInv
<1>7. fate' \in [Units -> Fates]
  BY <1>3 DEF IndInv, TypeOK, Fates
<1>8. TypeOK'
  BY <1>3, <1>5, <1>6, <1>7 DEF TypeOK, IndInv, Sound, Active
<1>9. \A x \in Tasks \ {t} : Unfinished(task'[x]) \cap U = {}
  <2>1. \A x \in Tasks, u \in Units : u \in Unfinished(task[x]) => fate[u] = "held"
    BY DEF IndInv, UnitOwnership
  <2>2. U \subseteq Units
    BY <1>3, <1>4, <1>1 DEF Running, TaskStates, U
  <2> QED
    BY <1>3, <1>5, <2>1, <2>2
<1>10. \A x, y \in Tasks : x # y => Unfinished(task'[x]) \cap Unfinished(task'[y]) = {}
  BY <1>4, <1>5, <1>9 DEF IndInv, UnitOwnership
<1>11. ASSUME NEW u \in Units
       PROVE  fate'[u] = "held" <=> \E x \in Tasks : u \in Unfinished(task'[x])
  <2>1. CASE u \in U
    BY <1>3, <1>4, <1>5, <2>1
  <2>2. CASE u \notin U
    <3>1. \A x \in Tasks : u \in Unfinished(task'[x]) <=> u \in Unfinished(task[x])
      BY <1>3, <1>4, <1>5, <2>2
    <3> QED
      BY <1>3, <2>2, <3>1 DEF IndInv, UnitOwnership
  <2> QED
    BY <2>1, <2>2
<1> QED
  BY <1>6, <1>8, <1>10, <1>11 DEF IndInv, UnitOwnership

\* A step that keeps a task at its unit and settles nothing.
LEMMA StayIndInv ==
  ASSUME IndInv, NEW t \in Tasks, NEW s, Sound(s), Unfinished(s) = Unfinished(task[t]),
         task' = [task EXCEPT ![t] = s], fate' = fate,
         sent' \in SUBSET Bodies, received' \in SUBSET sent'
  PROVE  IndInv'
BY MoveOn DEF IndInv, TypeOK

\* Fetching, computing and submitting never change the units a task is left with.
LEMMA AwaitIndInv ==
  ASSUME IndInv, NEW t \in Tasks,
         SharedFetch(t) \/ Fetch(t) \/ Compute(t) \/ Post(t) \/ SubmitRetry(t)
  PROVE  IndInv'
<1> DEFINE r == task[t]
<1>1. r.stage # "idle"
  BY DEF SharedFetch, Fetch, Compute, Post, SubmitRetry
<1>2. Sound(r) /\ Running(r) /\ fate' = fate
  BY <1>1, UnitUnfinished DEF IndInv, SharedFetch, Fetch, Compute, Post, SubmitRetry
<1>3. sent \in SUBSET Bodies /\ received \in SUBSET sent
  BY DEF IndInv, TypeOK
<1>4. CASE SharedFetch(t)
  <2>1. PICK answer \in FetchAnswers :
          task' = [task EXCEPT ![t] = AfterSharedFetch(r, DatasetReply[answer])]
    BY <1>4 DEF SharedFetch
  <2>2. r.pos = 1
    BY <1>2, <1>4 DEF SharedFetch, Sound
  <2> DEFINE s == AfterSharedFetch(r, DatasetReply[answer])
  <2>3. Running(s) /\ s.batch = r.batch /\ s.pos = 1 /\ s.stage # "idle"
    BY <1>1, <1>2, <2>2, AfterSharedFetchRunning
  <2>4. sent' = sent /\ received' = received
    BY <1>4 DEF SharedFetch
  <2> HIDE DEF s
  <2>5. Sound(s) /\ Unfinished(s) = Unfinished(r)
    BY <1>2, <2>2, <2>3, SamePlace
  <2> QED
    BY <1>2, <1>3, <2>1, <2>4, <2>5, StayIndInv DEF s
<1>5. CASE Fetch(t)
  <2>1. PICK answer \in FetchAnswers :
          task' = [task EXCEPT ![t] = AfterFetch(r, DatasetReply[answer])]
    BY <1>5 DEF Fetch
  <2> DEFINE s == AfterFetch(r, DatasetReply[answer])
  <2>2. r.stage = "fetch" /\ sent' = sent /\ received' = received
    BY <1>5 DEF Fetch
  <2>3. /\ Running(s) /\ s.batch = r.batch /\ s.pos = r.pos
        /\ s.stage \in {"fetch", "submit", "compute"}
    BY <1>2, <2>2, AfterFetchRunning
  <2> HIDE DEF s
  <2>4. Sound(s) /\ Unfinished(s) = Unfinished(r)
    BY <1>2, <2>3, SamePlace
  <2> QED
    BY <1>2, <1>3, <2>1, <2>2, <2>4, StayIndInv DEF s
<1>6. CASE Compute(t)
  <2>1. PICK outcome \in DOMAIN ResultKind :
          task' = [task EXCEPT ![t] = Submitting(Elapsed(r, "compute"), ResultKind[outcome])]
    BY <1>6 DEF Compute
  <2>2. ResultKind[outcome] \in Kinds /\ sent' = sent /\ received' = received
    BY <1>6 DEF Compute, ResultKind, Kinds
  <2> DEFINE e == Elapsed(r, "compute")
             s == Submitting(e, ResultKind[outcome])
  <2>3. Running(e) /\ e.batch = r.batch /\ e.pos = r.pos
    BY <1>2, ElapsedRunning
  <2> HIDE DEF e
  <2>4. Running(s) /\ s.batch = r.batch /\ s.pos = r.pos /\ s.stage = "submit"
    BY <2>2, <2>3, SubmittingRunning
  <2> HIDE DEF s
  <2>5. Sound(s) /\ Unfinished(s) = Unfinished(r)
    BY <1>2, <2>4, SamePlace
  <2> QED
    BY <1>2, <1>3, <2>1, <2>2, <2>5, StayIndInv DEF s, e
<1>7. CASE Post(t)
  <2> DEFINE s == [r EXCEPT !.stage = "posted"]
  <2>1. task' = [task EXCEPT ![t] = s] /\ sent' = sent \cup r.body /\ received' = received
    BY <1>7 DEF Post
  <2>2. r.body \in SUBSET Bodies
    BY <1>2 DEF Running, TaskStates
  <2>3. Running(s) /\ s.batch = r.batch /\ s.pos = r.pos /\ s.stage = "posted"
    BY <1>2 DEF Running, TaskStates, Stages
  <2> HIDE DEF s
  <2>4. Sound(s) /\ Unfinished(s) = Unfinished(r)
    BY <1>2, <2>3, SamePlace
  <2> QED
    BY <1>2, <1>3, <2>1, <2>2, <2>4, StayIndInv
<1>8. CASE SubmitRetry(t)
  <2> DEFINE s == [r EXCEPT !.stage = "submit"]
  <2>1. task' = [task EXCEPT ![t] = s] /\ sent' = sent /\ received' = received
    BY <1>8 DEF SubmitRetry, Resubmit
  <2>2. Running(s) /\ s.batch = r.batch /\ s.pos = r.pos /\ s.stage = "submit"
    BY <1>2 DEF Running, TaskStates, Stages
  <2> HIDE DEF s
  <2>3. Sound(s) /\ Unfinished(s) = Unfinished(r)
    BY <1>2, <2>2, SamePlace
  <2> QED
    BY <1>2, <1>3, <2>1, <2>3, StayIndInv
<1> QED
  BY <1>4, <1>5, <1>6, <1>7, <1>8

\* A settled submission settles the current unit and no other.
LEMMA SubmitSettledIndInv ==
  ASSUME IndInv, NEW t \in Tasks, SubmitSettled(t)
  PROVE  IndInv'
<1> DEFINE r == task[t]
           s == NextUnit(r)
<1>1. r.stage = "posted" /\ sent' = sent /\ received' = received
  BY DEF SubmitSettled
<1>2. task' = [task EXCEPT ![t] = s]
  BY DEF SubmitSettled
<1>3. Sound(r) /\ Unit(r) \in Unfinished(r) /\ Unit(r) \in Units
  BY <1>1, UnitUnfinished DEF IndInv
<1>4. Sound(s) /\ Unfinished(s) = Unfinished(r) \ {Unit(r)}
  BY <1>1, <1>3, NextUnitSound
<1>5. PICK how \in {"receipt", "givenUp"} : fate' = [fate EXCEPT ![Unit(r)] = how]
  BY DEF SubmitSettled
<1> HIDE DEF s
<1>6. /\ fate' \in [Units -> Fates]
      /\ \A u \in Units : IF u \in Unfinished(r) \ Unfinished(s)
                          THEN fate'[u] # "held" ELSE fate'[u] = fate[u]
  BY <1>3, <1>4, <1>5 DEF IndInv, TypeOK, Fates
<1> QED
  BY <1>1, <1>2, <1>4, <1>6, MoveOn DEF IndInv, TypeOK

\* A panic loses all the units the task still had, and only those.
LEMMA SubmitPanicsIndInv ==
  ASSUME IndInv, NEW t \in Tasks, SubmitPanics(t)
  PROVE  IndInv'
<1>1. /\ task' = [task EXCEPT ![t] = Idle]
      /\ fate' = [u \in Units |-> IF u \in Unfinished(task[t]) THEN "lost" ELSE fate[u]]
      /\ sent' = sent /\ received' = received
  BY DEF SubmitPanics
<1>2. Sound(Idle) /\ Unfinished(Idle) = {}
  BY IdleSound
<1>3. /\ fate' \in [Units -> Fates]
      /\ \A u \in Units : IF u \in Unfinished(task[t]) \ Unfinished(Idle)
                          THEN fate'[u] # "held" ELSE fate'[u] = fate[u]
  BY <1>1, <1>2 DEF IndInv, TypeOK, Fates
<1> QED
  BY <1>1, <1>2, <1>3, MoveOn DEF IndInv, TypeOK

\* The network and the coordinator do not touch the tasks.
LEMMA ReceiveIndInv == IndInv /\ Receive => IndInv'
BY DEF IndInv, TypeOK, UnitOwnership, Receive, Active

\* A lost claim answer concerns units no task has.
LEMMA StrandIndInv ==
  ASSUME IndInv, NEW S \in SUBSET Units, Strand(S)
  PROVE  IndInv'
<1>1. /\ fate' = [u \in Units |-> IF u \in S THEN "lost" ELSE fate[u]]
      /\ \A u \in S : fate[u] = "none"
      /\ task' = task /\ sent' = sent /\ received' = received
  BY DEF Strand, Stranded
<1>2. fate' \in [Units -> Fates]
  BY <1>1 DEF IndInv, TypeOK, Fates
<1>3. TypeOK'
  BY <1>1, <1>2 DEF IndInv, TypeOK, Active
<1>4. \A u \in Units : fate'[u] = "held" <=> fate[u] = "held"
  BY <1>1
<1> QED
  BY <1>1, <1>3, <1>4 DEF IndInv, UnitOwnership

\* When all tasks are gone, no unit is held.
LEMMA AbandonIndInv ==
  ASSUME IndInv, NEW S \in SUBSET Units, Abandon(S)
  PROVE  IndInv'
<1>1. /\ task' = [t \in Tasks |-> Idle]
      /\ fate' = [u \in Units |-> IF fate[u] = "held" \/ u \in S THEN "lost" ELSE fate[u]]
      /\ sent' = sent /\ received' = received
  BY DEF Abandon
<1>2. \A t \in Tasks : /\ Sound(task'[t]) /\ Unfinished(task'[t]) = {}
                       /\ task'[t].stage = "idle"
  BY <1>1, IdleSound
<1>3. task' \in [Tasks -> TaskStates] /\ fate' \in [Units -> Fates]
  BY <1>1, IdleSound DEF IndInv, TypeOK, Fates
<1>4. TypeOK'
  BY <1>1, <1>2, <1>3 DEF TypeOK, Sound, Active, IndInv
<1>5. UnitOwnership'
  BY <1>1, <1>2 DEF UnitOwnership
<1> QED
  BY <1>2, <1>4, <1>5 DEF IndInv

\* No step of a task, the coordinator or a dying process breaks the invariant.
LEMMA NextIndInv == IndInv /\ [BatchNext]_batchVars => IndInv'
<1> SUFFICES ASSUME IndInv, [BatchNext]_batchVars PROVE IndInv'
  OBVIOUS
<1>1. ASSUME NEW t \in Tasks, NEW b \in Batches, Spawn(t, b) PROVE IndInv'
  BY <1>1, SpawnIndInv
<1>2. ASSUME NEW t \in Tasks, TaskStep(t) PROVE IndInv'
  BY <1>2, AwaitIndInv, SubmitSettledIndInv, SubmitPanicsIndInv DEF TaskStep
<1>3. CASE Receive
  BY <1>3, ReceiveIndInv
<1>4. ASSUME NEW S \in SUBSET Units, Strand(S) \/ Abandon(S) PROVE IndInv'
  BY <1>4, StrandIndInv, AbandonIndInv
<1>5. CASE UNCHANGED batchVars
  BY <1>5 DEF batchVars, IndInv, TypeOK, UnitOwnership, Active
<1> QED
  BY <1>1, <1>2, <1>3, <1>4, <1>5 DEF BatchNext

\* The inductive invariant holds in every state the tasks can reach.
THEOREM BatchInvariant == BatchSpec => []IndInv
BY InitIndInv, NextIndInv, PTL DEF BatchSpec

\* Every reachable state has its type; in particular no fetch goes beyond its
\* attempts, so fetch_with_retry never reaches its unreachable!().
THEOREM BatchTypeCorrect == BatchSpec => []TypeOK
<1>1. IndInv => TypeOK
  BY DEF IndInv
<1> QED
  BY <1>1, BatchInvariant, PTL

\* Every held unit is the unfinished business of exactly one task.
THEOREM UnitsOwnedOnce == BatchSpec => []UnitOwnership
<1>1. IndInv => UnitOwnership
  BY DEF IndInv
<1> QED
  BY <1>1, BatchInvariant, PTL
-----------------------------------------------------------------------------
(* What the results say.  StableBody, FaithfulResult and                    *)
(* SharedTransferChargedOnce speak of the results POSTed so far; that they   *)
(* stay true depends on what the tasks hold for the results still to come.  *)

\* The units of a task's batch, the settled ones included.
BatchUnits(r) == {r.batch[i] : i \in DOMAIN r.batch}

\* A duration at the task's current unit: time of no other unit, and, where the batch
\* shares its dataset, the shared transfer for the first unit only.
Charged(span, r) ==
  /\ \A a \in span : a[2] = Unit(r)
  /\ r.shared # {} => (<<"shared", r.batch[1]>> \in span <=> r.pos = 1)

\* A shared dataset is that of every unit of its batch.
SharedByAll(r) ==
  r.shared # {} =>
    /\ r.shared = {Key(r.batch[1])}
    /\ Homogeneous(r.batch)
    /\ Work[r.batch[1]].workload \in Supported

\* A result ready to be submitted for the task's current unit.
Tells(b, r) == b.unit = Unit(r) /\ Faithful(b) /\ Charged(b.span, r)

\* What a task holds at each stage belongs to the unit it is at.
Consistent(r) ==
  /\ SharedByAll(r)
  /\ r.stage = "idle" => r.batch = <<>> /\ r.shared = {}
  /\ r.stage = "shared" => /\ r.shared = {} /\ Homogeneous(r.batch)
                           /\ Work[r.batch[1]].workload \in Supported
  /\ r.stage = "fetch" => r.shared = {}
  /\ r.stage \in {"fetch", "compute"} => /\ Work[Unit(r)].workload \in Supported
                                         /\ Charged(r.span, r)
  /\ r.stage = "compute" => r.data = {Key(Unit(r))} /\ PayloadOk(Unit(r))
  /\ r.stage \in {"submit", "posted"} => \E b \in Bodies : r.body = {b} /\ Tells(b, r)

\* The only result POSTed about a unit a task still has to settle is the one it is
\* about to submit.
Announced(bodies, r) ==
  \A b \in bodies : b.unit \in Unfinished(r) => r.stage \in {"submit", "posted"} /\ r.body = {b}

\* The inductive invariant of the results: no unit is ever in the batches of two tasks,
\* and no result is about a unit that was not handed out.
ResultInv ==
  /\ \A t \in Tasks : Consistent(task[t]) /\ Announced(sent, task[t])
  /\ \A t \in Tasks : \A u \in BatchUnits(task[t]) : fate[u] # "none"
  /\ \A x, y \in Tasks : x # y => BatchUnits(task[x]) \cap BatchUnits(task[y]) = {}
  /\ \A b \in sent : fate[b.unit] # "none"
  /\ StableBody /\ FaithfulResult /\ SharedTransferChargedOnce

-----------------------------------------------------------------------------
\* A task at a unit, with a duration that is its own so far.
Placed(r) == Running(r) /\ Distinct(r.batch) /\ SharedByAll(r) /\ Charged(r.span, r)

\* Charging an activity to the current unit leaves the duration its own.
LEMMA ElapsedPlaced ==
  ASSUME NEW r, Placed(r), NEW a \in {"fetch", "compute"}
  PROVE  /\ Placed(Elapsed(r, a))
         /\ <<a, Unit(r)>> \in Elapsed(r, a).span
         /\ Unit(Elapsed(r, a)) = Unit(r)
         /\ Elapsed(r, a).shared = r.shared
         /\ Elapsed(r, a).data = r.data
<1> DEFINE e == Elapsed(r, a)
<1>1. /\ Running(e) /\ e.batch = r.batch /\ e.pos = r.pos
  BY ElapsedRunning DEF Placed
<1>2. /\ e.span = r.span \cup {<<a, Unit(r)>>}
      /\ e.shared = r.shared /\ e.data = r.data
  BY DEF Placed, Running, TaskStates, Elapsed
<1> HIDE DEF e
<1>3. Unit(e) = Unit(r)
  BY <1>1 DEF Unit
<1>4. SharedByAll(e)
  BY <1>1, <1>2 DEF Placed, SharedByAll
<1>5. \A x \in e.span : x[2] = Unit(r)
  BY <1>2 DEF Placed, Charged
<1>6. <<"shared", r.batch[1]>> \in e.span <=> <<"shared", r.batch[1]>> \in r.span
  BY <1>2
<1>7. Charged(e.span, e)
  BY <1>1, <1>2, <1>3, <1>5, <1>6 DEF Placed, Charged
<1> QED
  BY <1>1, <1>2, <1>3, <1>4, <1>7 DEF Placed, e

\* The result of a unit says what happened if its kind was chosen for what happened.
LEMMA SubmittingConsistent ==
  ASSUME NEW r, Placed(r), NEW kind \in Kinds,
         kind = "completed" => r.data = {Key(Unit(r))} /\ PayloadOk(Unit(r)),
         kind = "unsupported-workload" <=> Work[Unit(r)].workload \notin Supported,
         kind = "execution" => <<"compute", Unit(r)>> \in r.span
  PROVE  Consistent(Submitting(r, kind))
<1> DEFINE s == Submitting(r, kind)
           u == Unit(r)
           b == IF kind = "completed" THEN Completed(r) ELSE Failed(r, kind)
<1>1. /\ Running(s) /\ s.batch = r.batch /\ s.pos = r.pos /\ s.stage = "submit"
  BY SubmittingRunning DEF Placed
<1>2. s.body = {b} /\ s.shared = r.shared
  BY DEF Placed, Running, TaskStates, Submitting
<1>3. b \in Bodies
  BY <1>1, <1>2 DEF Running, TaskStates
<1>4. u \in Units
  BY UnitType DEF Placed, Running
<1>5. /\ b.unit = u /\ b.kind = kind /\ b.span = r.span
      /\ kind = "completed" => b.data = r.data
      /\ b.cpuTime <=> kind = "completed" /\ (Work[u].workload = "box" \/ Backend = "cpu")
  BY DEF Completed, Failed
<1>6. Unit(s) = u
  BY <1>1 DEF Unit
<1> HIDE DEF s, b, u
<1>7. /\ DOMAIN WorkloadCapability = Supported
      /\ WorkloadCapability["lomb"] = Backend /\ WorkloadCapability["box"] = "cpu"
  BY DEF WorkloadCapability, Supported
<1>8. kind = "completed" => Work[u].workload \in Supported
  BY DEF u
<1>9. kind = "completed" => b.data = {Key(u)} /\ PayloadOk(u)
  BY <1>5 DEF u
<1>10. Faithful(b)
  <2>1. b.cpuTime <=> /\ b.kind = "completed"
                      /\ Work[u].workload \in Supported
                      /\ WorkloadCapability[Work[u].workload] = "cpu"
    BY <1>5, <1>7, <1>8 DEF Supported
  <2>2. b.kind = "completed" =>
          \/ Work[u].payload = "valid"
          \/ Work[u].payload = "legacy" /\ Work[u].workload # "box"
    BY <1>5, <1>9 DEF PayloadOk
  <2>3. b.kind = "unsupported-workload" <=> Work[u].workload \notin Supported
    BY <1>5 DEF u
  <2>4. b.kind = "execution" => <<"compute", u>> \in b.span
    BY <1>5 DEF u
  <2> QED
    BY <1>5, <1>7, <1>9, <2>1, <2>2, <2>3, <2>4 DEF Faithful
<1>11. Charged(b.span, s) /\ SharedByAll(s)
  BY <1>1, <1>2, <1>5, <1>6 DEF Placed, Charged, SharedByAll, u
<1>12. Tells(b, s)
  BY <1>5, <1>6, <1>10, <1>11 DEF Tells
<1> QED
  BY <1>1, <1>2, <1>3, <1>11, <1>12 DEF Consistent, s

\* With its dataset at hand a unit of a registered workload goes on to the kernel or to
\* a truthful rejection.
LEMMA LoadedConsistent ==
  ASSUME NEW r, Placed(r), r.data = {Key(Unit(r))}, Work[Unit(r)].workload \in Supported
  PROVE  Consistent(Loaded(r)) /\ Loaded(r).shared = r.shared
<1>1. CASE ~PayloadOk(Unit(r))
  <2>1. Loaded(r) = Submitting(r, "invalid-input")
    BY <1>1 DEF Loaded
  <2>2. Submitting(r, "invalid-input").shared = r.shared
    BY DEF Submitting, Placed, Running, TaskStates
  <2> QED
    BY <2>1, <2>2, SubmittingConsistent DEF Kinds
<1>2. CASE PayloadOk(Unit(r))
  <2> DEFINE s == [r EXCEPT !.stage = "compute"]
  <2>1. Loaded(r) = s
    BY <1>2 DEF Loaded
  <2>2. /\ s.stage = "compute" /\ s.batch = r.batch /\ s.pos = r.pos /\ s.shared = r.shared
        /\ s.data = r.data /\ s.span = r.span
    BY DEF Placed, Running, TaskStates
  <2> HIDE DEF s
  <2>3. Unit(s) = Unit(r)
    BY <2>2 DEF Unit
  <2> QED
    BY <1>2, <2>1, <2>2, <2>3 DEF Consistent, Placed, SharedByAll, Charged
<1> QED
  BY <1>1, <1>2

\* Each iteration of the batch loop begins with a duration and a dataset of its own
\* unit, whether the dataset is shared or still to be fetched.
LEMMA StartUnitConsistent ==
  ASSUME NEW r \in TaskStates, NEW i \in DOMAIN r.batch, Distinct(r.batch), SharedByAll(r)
  PROVE  Consistent(StartUnit(r, i)) /\ StartUnit(r, i).shared = r.shared
<1> DEFINE s == [r EXCEPT !.pos = i, !.attempt = 0, !.stage = "fetch", !.data = r.shared,
                          !.span = StartedSpan(r, i), !.body = {}]
<1>1. i \in Nat /\ r.batch[1] \in Units /\ r.batch \in Seq(Units)
  BY DEF TaskStates
<1>2. StartedSpan(r, i) \in SUBSET Activities
  BY <1>1 DEF StartedSpan, Activities
<1>3. /\ s \in TaskStates
      /\ s.batch = r.batch /\ s.pos = i /\ s.attempt = 0 /\ s.stage = "fetch"
      /\ s.shared = r.shared /\ s.data = r.shared /\ s.span = StartedSpan(r, i)
  BY <1>1, <1>2 DEF TaskStates, Stages
<1>4. StartUnit(r, i) = IF Work[Unit(s)].workload \notin Supported
                        THEN Submitting(s, "unsupported-workload")
                        ELSE IF r.shared # {} THEN Loaded(s) ELSE s
  BY DEF StartUnit
<1> HIDE DEF s
<1>5. Unit(s) = r.batch[i]
  BY <1>3 DEF Unit
<1>6. Placed(s)
  <2>1. Running(s)
    BY <1>3, BatchAssumption DEF Running
  <2>2. SharedByAll(s)
    BY <1>3 DEF SharedByAll
  <2>3. Charged(s.span, s)
    BY <1>3, <1>5 DEF Charged, StartedSpan
  <2> QED
    BY <1>3, <2>1, <2>2, <2>3 DEF Placed
<1>7. CASE Work[Unit(s)].workload \notin Supported
  <2>1. Submitting(s, "unsupported-workload").shared = s.shared
    BY <1>3 DEF Submitting, TaskStates
  <2> QED
    BY <1>3, <1>4, <1>6, <1>7, <2>1, SubmittingConsistent DEF Kinds
<1>8. CASE Work[Unit(s)].workload \in Supported /\ r.shared # {}
  <2>1. Key(r.batch[i]) = Key(r.batch[1])
    BY <1>8 DEF SharedByAll, Homogeneous, Key
  <2>2. s.data = {Key(Unit(s))}
    BY <1>3, <1>5, <1>8, <2>1 DEF SharedByAll
  <2> QED
    BY <1>3, <1>4, <1>6, <1>8, <2>2, LoadedConsistent
<1>9. CASE Work[Unit(s)].workload \in Supported /\ r.shared = {}
  BY <1>3, <1>4, <1>6, <1>9 DEF Consistent, Placed
<1> QED
  BY <1>7, <1>8, <1>9

\* A claimed batch begins with the shared transfer, if it is homogeneous, or with its
\* first unit.
LEMMA ProcessBatchConsistent ==
  ASSUME NEW b \in Batches
  PROVE  Consistent(ProcessBatch(b)) /\ ProcessBatch(b).shared = {}
<1> DEFINE r == [Idle EXCEPT !.batch = b]
<1>1. PICK n \in 1..BatchSize : b \in [1..n -> Units]
  BY DEF Batches
<1>2. 1 \in DOMAIN b /\ b \in Seq(Units) /\ Distinct(b)
  BY <1>1, BatchAssumption DEF Batches, Distinct
<1>3. r \in TaskStates /\ r.batch = b /\ r.shared = {}
  BY <1>2, IdleSound DEF Idle, TaskStates
<1>4. CASE Homogeneous(b) /\ Work[b[1]].workload \in Supported
  <2>1. ProcessBatch(b) = [batch |-> b, pos |-> 1, stage |-> "shared", attempt |-> 0,
                           shared |-> {}, data |-> {}, span |-> {}, body |-> {}]
    BY <1>4 DEF ProcessBatch, Idle
  <2> QED
    BY <1>4, <2>1 DEF Consistent, SharedByAll
<1>5. CASE ~(Homogeneous(b) /\ Work[b[1]].workload \in Supported)
  <2>1. ProcessBatch(b) = StartUnit(r, 1)
    BY <1>5 DEF ProcessBatch
  <2> HIDE DEF r
  <2>2. SharedByAll(r)
    BY <1>3 DEF SharedByAll
  <2> QED
    BY <2>1, <2>2, <1>2, <1>3, StartUnitConsistent
<1> QED
  BY <1>4, <1>5

\* What a unit holds does not depend on the number of attempts.
LEMMA FetchAgainConsistent ==
  ASSUME NEW r \in TaskStates, Consistent(r), r.stage \in {"shared", "fetch"}
  PROVE  Consistent(FetchAgain(r)) /\ FetchAgain(r).shared = r.shared
<1> DEFINE s == FetchAgain(r)
<1>1. /\ s.batch = r.batch /\ s.pos = r.pos /\ s.stage = r.stage
      /\ s.shared = r.shared /\ s.span = r.span
  BY DEF FetchAgain, TaskStates
<1> HIDE DEF s
<1>2. Unit(s) = Unit(r)
  BY <1>1 DEF Unit
<1> QED
  BY <1>1, <1>2 DEF Consistent, SharedByAll, Charged, s

\* The shared dataset is every unit's own, and a failed shared fetch leaves none.
LEMMA AfterSharedFetchConsistent ==
  ASSUME NEW r, Sound(r), Consistent(r), r.stage = "shared", NEW reply
  PROVE  Consistent(AfterSharedFetch(r, reply))
<1> DEFINE s == [r EXCEPT !.shared = {Key(r.batch[1])}]
<1>1. r \in TaskStates /\ Distinct(r.batch) /\ r.batch[1] \in Units /\ 1 \in DOMAIN r.batch
  BY DEF Sound, TaskStates
<1>2. s \in TaskStates /\ s.batch = r.batch /\ s.shared = {Key(r.batch[1])}
  BY <1>1 DEF TaskStates, Keys
<1>3. CASE reply = Ok
  <2>1. AfterSharedFetch(r, reply) = StartUnit(s, 1)
    BY <1>3 DEF AfterSharedFetch
  <2> HIDE DEF s
  <2>2. SharedByAll(s)
    BY <1>2 DEF SharedByAll, Consistent
  <2> QED
    BY <2>1, <2>2, <1>1, <1>2, StartUnitConsistent
<1>4. CASE reply # Ok /\ MayRetry(reply, r.attempt)
  <2>1. AfterSharedFetch(r, reply) = FetchAgain(r)
    BY <1>4 DEF AfterSharedFetch
  <2> QED
    BY <1>1, <2>1, FetchAgainConsistent
<1>5. CASE reply # Ok /\ ~MayRetry(reply, r.attempt)
  <2>1. AfterSharedFetch(r, reply) = StartUnit(r, 1)
    BY <1>5 DEF AfterSharedFetch
  <2> QED
    BY <1>1, <2>1, StartUnitConsistent DEF Consistent
<1> QED
  BY <1>3, <1>4, <1>5

\* A unit's own fetch brings its own dataset, or a failure that says so.
LEMMA AfterFetchConsistent ==
  ASSUME NEW r, Sound(r), Consistent(r), r.stage = "fetch", NEW reply
  PROVE  Consistent(AfterFetch(r, reply)) /\ AfterFetch(r, reply).shared = {}
<1> DEFINE s == [r EXCEPT !.data = {Key(Unit(r))}]
<1>1. Placed(r) /\ r.shared = {} /\ Work[Unit(r)].workload \in Supported
  BY DEF Sound, Running, Placed, Consistent
<1>2. CASE reply = Ok
  <2>1. Unit(r) \in Units
    BY <1>1, UnitType DEF Placed, Running
  <2>2. /\ Running(s) /\ s.batch = r.batch /\ s.pos = r.pos
        /\ s.shared = r.shared /\ s.span = r.span /\ s.data = {Key(Unit(r))}
    BY <1>1, <2>1 DEF Placed, Running, TaskStates, Keys
  <2>3. AfterFetch(r, reply) = Loaded(Elapsed(s, "fetch"))
    BY <1>2 DEF AfterFetch
  <2> HIDE DEF s
  <2>4. Unit(s) = Unit(r)
    BY <2>2 DEF Unit
  <2>5. Placed(s)
    BY <1>1, <2>2, <2>4 DEF Placed, SharedByAll, Charged
  <2>6. /\ Placed(Elapsed(s, "fetch")) /\ Unit(Elapsed(s, "fetch")) = Unit(r)
        /\ Elapsed(s, "fetch").data = {Key(Unit(r))} /\ Elapsed(s, "fetch").shared = {}
    BY <1>1, <2>2, <2>4, <2>5, ElapsedPlaced
  <2> QED
    BY <1>1, <2>3, <2>6, LoadedConsistent
<1>3. CASE reply # Ok /\ MayRetry(reply, r.attempt)
  <2>1. AfterFetch(r, reply) = FetchAgain(r)
    BY <1>3 DEF AfterFetch
  <2> QED
    BY <1>1, <2>1, FetchAgainConsistent DEF Sound
<1>4. CASE reply # Ok /\ ~MayRetry(reply, r.attempt)
  <2> DEFINE e == Elapsed(r, "fetch")
             k == FetchFailureKind(reply)
  <2>1. AfterFetch(r, reply) = Submitting(e, k)
    BY <1>4 DEF AfterFetch
  <2>2. Placed(e) /\ Unit(e) = Unit(r) /\ e.shared = {}
    BY <1>1, ElapsedPlaced
  <2>3. k \in {"invalid-input", "transport-unavailable"}
    BY DEF FetchFailureKind
  <2> HIDE DEF e, k
  <2>4. Submitting(e, k).shared = {}
    BY <2>2 DEF Submitting, Placed, Running, TaskStates
  <2>5. Consistent(Submitting(e, k))
    <3>1. k \in Kinds /\ k # "completed" /\ k # "execution" /\ k # "unsupported-workload"
      BY <2>3 DEF Kinds
    <3> QED
      BY <1>1, <2>2, <3>1, SubmittingConsistent
  <2> QED
    BY <2>1, <2>4, <2>5
<1> QED
  BY <1>2, <1>3, <1>4

\* A kernel's outcome is reported as that of the unit it ran for.
LEMMA ComputedConsistent ==
  ASSUME NEW r, Sound(r), Consistent(r), r.stage = "compute", NEW outcome \in DOMAIN ResultKind
  PROVE  LET s == Submitting(Elapsed(r, "compute"), ResultKind[outcome])
         IN  Consistent(s) /\ s.shared = r.shared
<1> DEFINE e == Elapsed(r, "compute")
           k == ResultKind[outcome]
<1>1. /\ Placed(r) /\ Work[Unit(r)].workload \in Supported
      /\ r.data = {Key(Unit(r))} /\ PayloadOk(Unit(r))
  BY DEF Sound, Running, Placed, Consistent
<1>2. /\ Placed(e) /\ Unit(e) = Unit(r) /\ e.shared = r.shared /\ e.data = r.data
      /\ <<"compute", Unit(r)>> \in e.span
  BY <1>1, ElapsedPlaced
<1>3. k \in {"completed", "invalid-input", "execution"}
  BY DEF ResultKind
<1> HIDE DEF e, k
<1>4. Submitting(e, k).shared = r.shared
  BY <1>2 DEF Submitting, Placed, Running, TaskStates
<1>5. k \in Kinds /\ k # "unsupported-workload"
  BY <1>3 DEF Kinds
<1>6. Consistent(Submitting(e, k))
  BY <1>1, <1>2, <1>5, SubmittingConsistent
<1> QED
  BY <1>4, <1>6 DEF e, k

\* The next unit of the batch, or no unit at all.
LEMMA NextUnitConsistent ==
  ASSUME NEW r, Sound(r), Consistent(r), r.stage # "idle"
  PROVE  /\ Consistent(NextUnit(r))
         /\ NextUnit(r).batch \in {r.batch, <<>>}
         /\ NextUnit(r).shared # {} => NextUnit(r).batch = r.batch /\ NextUnit(r).shared = r.shared
<1>1. /\ r \in TaskStates /\ Distinct(r.batch) /\ SharedByAll(r)
      /\ r.pos \in 1..Len(r.batch) /\ DOMAIN r.batch = 1..Len(r.batch)
      /\ Len(r.batch) \in Nat /\ r.pos \in Nat
  BY DEF Sound, Consistent, TaskStates
<1>2. CASE r.pos < Len(r.batch)
  <2>1. r.pos + 1 \in DOMAIN r.batch /\ NextUnit(r) = StartUnit(r, r.pos + 1)
    BY <1>1, <1>2 DEF NextUnit
  <2> QED
    BY <1>1, <2>1, StartUnitConsistent, StartUnitRunning
<1>3. CASE ~(r.pos < Len(r.batch))
  <2>1. NextUnit(r) = Idle
    BY <1>3 DEF NextUnit
  <2> QED
    BY <2>1 DEF Idle, Consistent, SharedByAll
<1> QED
  BY <1>2, <1>3

-----------------------------------------------------------------------------
\* One task moves on and nothing new is POSTed: it keeps what it shared, and has not
\* yet POSTed anything about the units it has left, except what it is about to POST
\* again.
LEMMA MoveOnResults ==
  ASSUME IndInv, ResultInv, NEW t \in Tasks, NEW s, task[t].stage # "idle",
         task' = [task EXCEPT ![t] = s],
         Consistent(s),
         s.batch \in {task[t].batch, <<>>},
         s.shared # {} => /\ s.batch = task[t].batch
                          /\ s.shared = task[t].shared \/ task[t].stage = "shared",
         Announced(sent, s),
         \A u \in Units : fate[u] # "none" => fate'[u] # "none",
         sent' = sent
  PROVE  ResultInv'
<1> DEFINE r == task[t]
<1>1. task'[t] = s /\ \A x \in Tasks \ {t} : task'[x] = task[x]
  BY DEF IndInv, TypeOK
<1>2. BatchUnits(s) \subseteq BatchUnits(r)
  BY DEF BatchUnits
<1>3. \A x \in Tasks : BatchUnits(task'[x]) \subseteq BatchUnits(task[x])
  BY <1>1, <1>2
<1>4. \A x \in Tasks : BatchUnits(task[x]) \subseteq Units
  BY DEF BatchUnits, IndInv, TypeOK, TaskStates
<1>5. \A b \in sent : b \in Bodies /\ b.unit \in Units
  BY DEF IndInv, TypeOK, Bodies
<1>6. \A x \in Tasks : Consistent(task'[x])
  BY <1>1 DEF ResultInv
<1>7. \A x \in Tasks : Announced(sent', task'[x])
  <2>1. \A b \in sent : b.unit \in Unfinished(s) =>
                          s.stage \in {"submit", "posted"} /\ s.body = {b}
    BY DEF Announced
  <2>2. \A x \in Tasks : \A b \in sent : b.unit \in Unfinished(task'[x]) =>
                          task'[x].stage \in {"submit", "posted"} /\ task'[x].body = {b}
    BY <1>1, <2>1 DEF ResultInv, Announced
  <2> QED
    BY <2>2 DEF Announced
<1>8. \A x \in Tasks : \A u \in BatchUnits(task'[x]) : fate'[u] # "none"
  BY <1>3, <1>4 DEF ResultInv
<1>9. \A x, y \in Tasks : x # y => BatchUnits(task'[x]) \cap BatchUnits(task'[y]) = {}
  BY <1>3 DEF ResultInv
<1>10. \A b \in sent' : fate'[b.unit] # "none"
  BY <1>5 DEF ResultInv
<1>11. StableBody' /\ FaithfulResult'
  BY DEF ResultInv, StableBody, FaithfulResult
<1>12. SharedTransferChargedOnce'
  <2>1. \A b \in sent', a \in Activities : a \in b.span => a[2] = b.unit
    BY DEF ResultInv, SharedTransferChargedOnce
  <2>2. ASSUME NEW x \in Tasks, task'[x].stage # "idle", NEW b \in sent,
               task'[x].shared # {},
               NEW i \in DOMAIN task'[x].batch, task'[x].batch[i] = b.unit
        PROVE  <<"shared", task'[x].batch[1]>> \in b.span <=> b.unit = task'[x].batch[1]
    <3>1. CASE x # t \/ s.shared = r.shared
      <4>1. /\ task'[x].batch = task[x].batch /\ task'[x].shared = task[x].shared
            /\ task[x].stage # "idle"
        BY <1>1, <2>2, <3>1
      <4> QED
        BY <2>2, <4>1 DEF ResultInv, SharedTransferChargedOnce, Active
    <3>2. CASE x = t /\ r.stage = "shared"
      <4>1. s.batch = r.batch /\ r.pos = 1 /\ r.batch \in Seq(Units)
        BY <1>1, <2>2, <3>2 DEF IndInv, Sound, TaskStates
      <4>2. b.unit \in Unfinished(r)
        BY <1>1, <2>2, <3>2, <4>1 DEF Unfinished
      <4> QED
        BY <3>2, <4>2 DEF ResultInv, Announced
    <3> QED
      BY <1>1, <2>2, <3>1, <3>2
  <2> QED
    BY <2>1, <2>2 DEF SharedTransferChargedOnce, Active
<1> QED
  BY <1>6, <1>7, <1>8, <1>9, <1>10, <1>11, <1>12 DEF ResultInv

\* Nothing has been POSTed about any unit of a batch whose shared fetch goes on, nor
\* about the unit at hand before its result is built.
LEMMA NothingAnnounced ==
  ASSUME IndInv, ResultInv, NEW t \in Tasks, task[t].stage \in {"shared", "fetch", "compute"},
         NEW s, Unfinished(s) \subseteq Unfinished(task[t])
  PROVE  Announced(sent, s)
BY DEF ResultInv, Announced

\* No result precedes the first claim.
LEMMA InitResultInv == BatchInit => ResultInv
<1> SUFFICES ASSUME BatchInit PROVE ResultInv
  OBVIOUS
<1>1. \A t \in Tasks : task[t] = Idle
  BY DEF BatchInit
<1>2. sent = {}
  BY DEF BatchInit
<1>3. Consistent(Idle) /\ BatchUnits(Idle) = {} /\ Idle.stage = "idle"
  BY DEF Idle, Consistent, SharedByAll, BatchUnits
<1>4. StableBody /\ FaithfulResult /\ SharedTransferChargedOnce
  BY <1>2 DEF StableBody, FaithfulResult, SharedTransferChargedOnce
<1> QED
  BY <1>1, <1>2, <1>3, <1>4 DEF ResultInv, Announced

\* The units of a new batch are in no other batch and in no result.
LEMMA SpawnResultInv ==
  ASSUME IndInv, ResultInv, NEW t \in Tasks, NEW b \in Batches, Spawn(t, b)
  PROVE  ResultInv'
<1> DEFINE s == ProcessBatch(b)
<1>1. Running(s) /\ s.batch = b /\ Consistent(s) /\ s.shared = {}
  BY ProcessBatchRunning, ProcessBatchConsistent
<1>2. /\ task' = [task EXCEPT ![t] = s] /\ sent' = sent
      /\ \A i \in DOMAIN b : fate[b[i]] = "none"
      /\ fate' = [u \in Units |-> IF \E i \in DOMAIN b : b[i] = u THEN "held" ELSE fate[u]]
  BY DEF Spawn
<1> HIDE DEF s
<1>3. task'[t] = s /\ \A x \in Tasks \ {t} : task'[x] = task[x]
  BY <1>2 DEF IndInv, TypeOK
<1>4. \A u \in BatchUnits(s) : u \in Units /\ fate[u] = "none" /\ fate'[u] = "held"
  BY <1>1, <1>2 DEF BatchUnits, Running, TaskStates
<1>5. \A x \in Tasks : BatchUnits(task[x]) \subseteq Units
  BY DEF BatchUnits, IndInv, TypeOK, TaskStates
<1>6. \A u \in Units : fate[u] # "none" => fate'[u] # "none"
  BY <1>2
<1>7. \A a \in sent : a.unit \in Units /\ a.unit \notin BatchUnits(s)
  BY <1>4 DEF ResultInv, IndInv, TypeOK, Bodies
<1>8. Unfinished(s) \subseteq BatchUnits(s)
  BY DEF Unfinished, BatchUnits
<1>9. \A x \in Tasks : Consistent(task'[x])
  BY <1>1, <1>3 DEF ResultInv
<1>10. \A x \in Tasks : Announced(sent', task'[x])
  <2>1. \A x \in Tasks : \A a \in sent : a.unit \in Unfinished(task'[x]) =>
                           task'[x].stage \in {"submit", "posted"} /\ task'[x].body = {a}
    BY <1>3, <1>7, <1>8 DEF ResultInv, Announced
  <2> QED
    BY <1>2, <2>1 DEF Announced
<1>11. \A x \in Tasks : \A u \in BatchUnits(task'[x]) : fate'[u] # "none"
  BY <1>3, <1>4, <1>5, <1>6 DEF ResultInv
<1>12. \A x \in Tasks \ {t} : BatchUnits(task'[x]) \cap BatchUnits(s) = {}
  BY <1>3, <1>4 DEF ResultInv
<1>13. \A x, y \in Tasks : x # y => BatchUnits(task'[x]) \cap BatchUnits(task'[y]) = {}
  BY <1>3, <1>12 DEF ResultInv
<1>14. \A a \in sent' : fate'[a.unit] # "none"
  BY <1>2, <1>6, <1>7 DEF ResultInv
<1>15. StableBody' /\ FaithfulResult'
  BY <1>2 DEF ResultInv, StableBody, FaithfulResult
<1>16. SharedTransferChargedOnce'
  <2>1. \A x \in Tasks : task'[x].shared # {} => task'[x] = task[x]
    BY <1>1, <1>3
  <2> QED
    BY <1>2, <2>1 DEF ResultInv, SharedTransferChargedOnce, Active
<1> QED
  BY <1>9, <1>10, <1>11, <1>13, <1>14, <1>15, <1>16 DEF ResultInv

\* Fetching and computing POST nothing.
LEMMA WorkResultInv ==
  ASSUME IndInv, ResultInv, NEW t \in Tasks, SharedFetch(t) \/ Fetch(t) \/ Compute(t)
  PROVE  ResultInv'
<1> DEFINE r == task[t]
<1>1. /\ r.stage \in {"shared", "fetch", "compute"} /\ r.stage # "idle"
      /\ fate' = fate /\ sent' = sent
  BY DEF SharedFetch, Fetch, Compute
<1>2. Sound(r) /\ Consistent(r) /\ Running(r)
  BY <1>1, UnitUnfinished DEF IndInv, ResultInv
<1>3. CASE SharedFetch(t)
  <2>1. PICK answer \in FetchAnswers :
          task' = [task EXCEPT ![t] = AfterSharedFetch(r, DatasetReply[answer])]
    BY <1>3 DEF SharedFetch
  <2> DEFINE s == AfterSharedFetch(r, DatasetReply[answer])
  <2>2. r.stage = "shared" /\ r.pos = 1
    BY <1>2, <1>3 DEF SharedFetch, Sound
  <2>3. Running(s) /\ s.batch = r.batch /\ s.pos = r.pos
    BY <1>1, <1>2, <2>2, AfterSharedFetchRunning
  <2>4. Consistent(s)
    BY <1>2, <2>2, AfterSharedFetchConsistent
  <2> HIDE DEF s
  <2>5. Announced(sent, s)
    BY <1>1, <2>3, NothingAnnounced DEF Unfinished
  <2> QED
    BY <1>1, <2>1, <2>2, <2>3, <2>4, <2>5, MoveOnResults DEF s
<1>4. CASE Fetch(t)
  <2>1. PICK answer \in FetchAnswers :
          task' = [task EXCEPT ![t] = AfterFetch(r, DatasetReply[answer])]
    BY <1>4 DEF Fetch
  <2> DEFINE s == AfterFetch(r, DatasetReply[answer])
  <2>2. r.stage = "fetch"
    BY <1>4 DEF Fetch
  <2>3. Running(s) /\ s.batch = r.batch /\ s.pos = r.pos
    BY <1>2, <2>2, AfterFetchRunning
  <2>4. Consistent(s) /\ s.shared = {}
    BY <1>2, <2>2, AfterFetchConsistent
  <2> HIDE DEF s
  <2>5. Announced(sent, s)
    BY <1>1, <2>3, NothingAnnounced DEF Unfinished
  <2> QED
    BY <1>1, <2>1, <2>3, <2>4, <2>5, MoveOnResults DEF s
<1>5. CASE Compute(t)
  <2>1. PICK outcome \in DOMAIN ResultKind :
          task' = [task EXCEPT ![t] = Submitting(Elapsed(r, "compute"), ResultKind[outcome])]
    BY <1>5 DEF Compute
  <2> DEFINE e == Elapsed(r, "compute")
             s == Submitting(e, ResultKind[outcome])
  <2>2. r.stage = "compute" /\ ResultKind[outcome] \in Kinds
    BY <1>5 DEF Compute, ResultKind, Kinds
  <2>3. Consistent(s) /\ s.shared = r.shared
    BY <1>2, <2>2, ComputedConsistent
  <2>4. Running(e) /\ e.batch = r.batch /\ e.pos = r.pos
    BY <1>2, ElapsedRunning
  <2> HIDE DEF e
  <2>5. Running(s) /\ s.batch = r.batch /\ s.pos = r.pos
    BY <2>2, <2>4, SubmittingRunning
  <2> HIDE DEF s
  <2>6. Announced(sent, s)
    BY <1>1, <2>5, NothingAnnounced DEF Unfinished
  <2> QED
    BY <1>1, <2>1, <2>3, <2>5, <2>6, MoveOnResults DEF s, e
<1> QED
  BY <1>3, <1>4, <1>5

\* The result POSTed is the only one about its unit, this time and every other time.
LEMMA PostResultInv ==
  ASSUME IndInv, ResultInv, NEW t \in Tasks, Post(t)
  PROVE  ResultInv'
<1> DEFINE r == task[t]
           s == [r EXCEPT !.stage = "posted"]
<1>1. /\ r.stage = "submit" /\ sent' = sent \cup r.body
      /\ task' = [task EXCEPT ![t] = s] /\ fate' = fate
  BY DEF Post
<1>2. Sound(r) /\ Consistent(r) /\ Running(r) /\ Unit(r) \in Unfinished(r)
  BY <1>1, UnitUnfinished DEF IndInv, ResultInv
<1>3. PICK new \in Bodies : r.body = {new} /\ Tells(new, r)
  BY <1>1, <1>2 DEF Consistent
<1>4. /\ s.batch = r.batch /\ s.pos = r.pos /\ s.stage = "posted"
      /\ s.shared = r.shared /\ s.body = r.body
  BY <1>2 DEF Running, TaskStates
<1> HIDE DEF s
<1>5. task'[t] = s /\ \A x \in Tasks \ {t} : task'[x] = task[x]
  BY <1>1 DEF IndInv, TypeOK
<1>6. \A x \in Tasks : /\ task'[x].batch = task[x].batch
                       /\ task'[x].shared = task[x].shared
                       /\ Unfinished(task'[x]) = Unfinished(task[x])
                       /\ task'[x].stage # "idle" <=> task[x].stage # "idle"
  BY <1>1, <1>4, <1>5 DEF Unfinished
<1>7. sent' = sent \cup {new} /\ new.unit = Unit(r) /\ Faithful(new) /\ Charged(new.span, r)
  BY <1>1, <1>3 DEF Tells
<1>8. \A b \in sent : b.unit = Unit(r) => b = new
  BY <1>2, <1>3 DEF ResultInv, Announced
<1>9. Unit(r) \in BatchUnits(r)
  BY <1>2 DEF Unfinished, BatchUnits, Unit, Running
<1>10. \A x \in Tasks : Consistent(task'[x])
  <2>1. Unit(s) = Unit(r)
    BY <1>4 DEF Unit
  <2>2. Consistent(s)
    BY <1>1, <1>2, <1>4, <2>1 DEF Consistent, SharedByAll, Tells, Charged
  <2> QED
    BY <1>5, <2>2 DEF ResultInv
<1>11. \A x \in Tasks : Announced(sent', task'[x])
  <2>1. \A b \in sent : b.unit \in Unfinished(s) => r.body = {b}
    BY <1>5, <1>6 DEF ResultInv, Announced
  <2>2. Announced(sent', s)
    BY <1>3, <1>4, <1>7, <2>1 DEF Announced
  <2>3. \A x \in Tasks \ {t} : Unit(r) \notin Unfinished(task[x])
    BY <1>2 DEF IndInv, UnitOwnership
  <2>4. \A x \in Tasks \ {t} : Announced(sent', task'[x])
    BY <1>5, <1>7, <2>3 DEF ResultInv, Announced
  <2> QED
    BY <1>5, <2>2, <2>4
<1>12. \A x \in Tasks : BatchUnits(task'[x]) = BatchUnits(task[x])
  BY <1>6 DEF BatchUnits
<1>13. /\ \A x \in Tasks : \A u \in BatchUnits(task'[x]) : fate'[u] # "none"
       /\ \A x, y \in Tasks : x # y => BatchUnits(task'[x]) \cap BatchUnits(task'[y]) = {}
  BY <1>1, <1>12 DEF ResultInv
<1>14. \A b \in sent' : fate'[b.unit] # "none"
  BY <1>1, <1>7, <1>9 DEF ResultInv
<1>15. StableBody' /\ FaithfulResult'
  BY <1>7, <1>8 DEF ResultInv, StableBody, FaithfulResult
<1>16. SharedTransferChargedOnce'
  <2>1. \A b \in sent', a \in Activities : a \in b.span => a[2] = b.unit
    BY <1>7 DEF ResultInv, SharedTransferChargedOnce, Charged
  <2>2. ASSUME NEW x \in Tasks, task'[x].stage # "idle", NEW b \in sent',
               task'[x].shared # {},
               NEW i \in DOMAIN task'[x].batch, task'[x].batch[i] = b.unit
        PROVE  <<"shared", task'[x].batch[1]>> \in b.span <=> b.unit = task'[x].batch[1]
    <3>1. CASE b \in sent
      BY <1>6, <2>2, <3>1 DEF ResultInv, SharedTransferChargedOnce, Active
    <3>2. CASE b = new
      <4>1. b.unit \in BatchUnits(task[x])
        BY <1>6, <2>2 DEF BatchUnits
      <4>2. x = t
        BY <1>7, <1>9, <3>2, <4>1 DEF ResultInv
      <4>3. 1 \in DOMAIN r.batch /\ r.pos \in DOMAIN r.batch /\ Distinct(r.batch)
        BY <1>2 DEF Sound, Running, TaskStates
      <4>4. b.unit = r.batch[1] <=> r.pos = 1
        BY <1>7, <3>2, <4>3 DEF Distinct, Unit
      <4> QED
        BY <1>4, <1>5, <1>7, <2>2, <3>2, <4>2, <4>4 DEF Charged
    <3> QED
      BY <1>7, <3>1, <3>2
  <2> QED
    BY <2>1, <2>2 DEF SharedTransferChargedOnce, Active
<1> QED
  BY <1>10, <1>11, <1>13, <1>14, <1>15, <1>16 DEF ResultInv

\* Another attempt sends the same body again.
LEMMA SubmitRetryResultInv ==
  ASSUME IndInv, ResultInv, NEW t \in Tasks, SubmitRetry(t)
  PROVE  ResultInv'
<1> DEFINE r == task[t]
           s == [r EXCEPT !.stage = "submit"]
<1>1. /\ r.stage = "posted" /\ sent' = sent /\ fate' = fate
      /\ task' = [task EXCEPT ![t] = s]
  BY DEF SubmitRetry, Resubmit
<1>2. Consistent(r) /\ r \in TaskStates
  BY <1>1 DEF IndInv, ResultInv, Sound
<1>3. /\ s.batch = r.batch /\ s.pos = r.pos /\ s.stage = "submit"
      /\ s.shared = r.shared /\ s.body = r.body
  BY <1>2 DEF TaskStates
<1> HIDE DEF s
<1>4. Unit(s) = Unit(r) /\ Unfinished(s) = Unfinished(r)
  BY <1>3 DEF Unit, Unfinished
<1>5. Consistent(s)
  BY <1>1, <1>2, <1>3, <1>4 DEF Consistent, SharedByAll, Tells, Charged
<1>6. Announced(sent, s)
  BY <1>3, <1>4 DEF ResultInv, Announced
<1> QED
  BY <1>1, <1>3, <1>5, <1>6, MoveOnResults

\* A settled submission leaves no result about the units still to do.
LEMMA SubmitSettledResultInv ==
  ASSUME IndInv, ResultInv, NEW t \in Tasks, SubmitSettled(t)
  PROVE  ResultInv'
<1> DEFINE r == task[t]
           s == NextUnit(r)
<1>1. r.stage = "posted" /\ r.stage # "idle" /\ sent' = sent /\ task' = [task EXCEPT ![t] = s]
  BY DEF SubmitSettled
<1>2. PICK how \in {"receipt", "givenUp"} : fate' = [fate EXCEPT ![Unit(r)] = how]
  BY DEF SubmitSettled
<1>3. Sound(r) /\ Consistent(r)
  BY DEF IndInv, ResultInv
<1>4. Unfinished(s) = Unfinished(r) \ {Unit(r)}
  BY <1>1, <1>3, NextUnitSound
<1>5. /\ Consistent(s) /\ s.batch \in {r.batch, <<>>}
      /\ s.shared # {} => s.batch = r.batch /\ s.shared = r.shared
  BY <1>1, <1>3, NextUnitConsistent
<1> HIDE DEF s
<1>6. Announced(sent, s)
  <2>1. PICK b \in Bodies : r.body = {b} /\ b.unit = Unit(r)
    BY <1>1, <1>3 DEF Consistent, Tells
  <2>2. \A a \in sent : a.unit \in Unfinished(r) => a = b
    BY <2>1 DEF ResultInv, Announced
  <2> QED
    BY <1>4, <2>1, <2>2 DEF Announced
<1>7. \A u \in Units : fate[u] # "none" => fate'[u] # "none"
  BY <1>2 DEF IndInv, TypeOK
<1> QED
  BY <1>1, <1>5, <1>6, <1>7, MoveOnResults

\* A panic takes the rest of the batch with it.
LEMMA SubmitPanicsResultInv ==
  ASSUME IndInv, ResultInv, NEW t \in Tasks, SubmitPanics(t)
  PROVE  ResultInv'
<1>1. /\ task[t].stage # "idle" /\ sent' = sent /\ task' = [task EXCEPT ![t] = Idle]
      /\ fate' = [u \in Units |-> IF u \in Unfinished(task[t]) THEN "lost" ELSE fate[u]]
  BY DEF SubmitPanics
<1>2. Consistent(Idle) /\ Idle.batch = <<>> /\ Idle.shared = {}
  BY DEF Idle, Consistent, SharedByAll
<1>3. Announced(sent, Idle)
  BY IdleSound DEF Announced
<1>4. \A u \in Units : fate[u] # "none" => fate'[u] # "none"
  BY <1>1
<1> QED
  BY <1>1, <1>2, <1>3, <1>4, MoveOnResults

\* Nor do lost claims and the end of the process change what was POSTed.
LEMMA StrandResultInv ==
  ASSUME IndInv, ResultInv, NEW S \in SUBSET Units, Strand(S) \/ Abandon(S)
  PROVE  ResultInv'
<1>1. sent' = sent /\ (task' = task \/ task' = [t \in Tasks |-> Idle])
  BY DEF Strand, Abandon
<1>2. \A u \in Units : fate[u] # "none" => fate'[u] # "none"
  BY DEF Strand, Abandon
<1>3. Consistent(Idle) /\ BatchUnits(Idle) = {} /\ Announced(sent, Idle) /\ Idle.stage = "idle"
  BY IdleSound DEF Idle, Consistent, SharedByAll, BatchUnits, Announced
<1>4. \A x \in Tasks : task'[x] = task[x] \/ task'[x] = Idle
  BY <1>1
<1>5. \A x \in Tasks : BatchUnits(task[x]) \subseteq Units
  BY DEF BatchUnits, IndInv, TypeOK, TaskStates
<1>6. \A b \in sent : b.unit \in Units
  BY DEF IndInv, TypeOK, Bodies
<1>7. SharedTransferChargedOnce'
  BY <1>1, <1>3, <1>4 DEF ResultInv, SharedTransferChargedOnce, Active
<1> QED
  BY <1>1, <1>2, <1>3, <1>4, <1>5, <1>6, <1>7
  DEF ResultInv, StableBody, FaithfulResult

\* No step breaks what is known of the results.
LEMMA NextResultInv == IndInv /\ ResultInv /\ [BatchNext]_batchVars => ResultInv'
<1> SUFFICES ASSUME IndInv, ResultInv, [BatchNext]_batchVars PROVE ResultInv'
  OBVIOUS
<1>1. ASSUME NEW t \in Tasks, NEW b \in Batches, Spawn(t, b) PROVE ResultInv'
  BY <1>1, SpawnResultInv
<1>2. ASSUME NEW t \in Tasks, TaskStep(t) PROVE ResultInv'
  BY <1>2, WorkResultInv, PostResultInv, SubmitRetryResultInv, SubmitSettledResultInv,
     SubmitPanicsResultInv DEF TaskStep
<1>3. CASE Receive \/ UNCHANGED batchVars
  BY <1>3
  DEF Receive, batchVars, ResultInv, StableBody, FaithfulResult, SharedTransferChargedOnce,
      Active
<1>4. ASSUME NEW S \in SUBSET Units, Strand(S) \/ Abandon(S) PROVE ResultInv'
  BY <1>4, StrandResultInv
<1> QED
  BY <1>1, <1>2, <1>3, <1>4 DEF BatchNext

\* What is known of the results holds in every state the tasks can reach.
THEOREM ResultInvariant == BatchSpec => []ResultInv
BY BatchInvariant, InitResultInv, NextResultInv, PTL DEF BatchSpec

\* However often a result is POSTed, every copy is the same body.
THEOREM BodiesStable == BatchSpec => []StableBody
<1>1. ResultInv => StableBody
  BY DEF ResultInv
<1> QED
  BY <1>1, ResultInvariant, PTL

\* What a result says of its unit really happened.
THEOREM ResultsFaithful == BatchSpec => []FaithfulResult
<1>1. ResultInv => FaithfulResult
  BY DEF ResultInv
<1> QED
  BY <1>1, ResultInvariant, PTL

\* A shared transfer is charged to the first result of its batch and to no other.
THEOREM SharedChargedOnce == BatchSpec => []SharedTransferChargedOnce
<1>1. ResultInv => SharedTransferChargedOnce
  BY DEF ResultInv
<1> QED
  BY <1>1, ResultInvariant, PTL
=============================================================================
