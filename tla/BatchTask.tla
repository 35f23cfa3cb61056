------------------------------ MODULE BatchTask ------------------------------
(***************************************************************************)
(* The tasks Worker::run spawns, one per claimed batch: process_batch,      *)
(* process_with_dataset, fetch_with_retry and submit_with_retry of          *)
(* src/worker.rs, with the coordinator's view of the submitted results.     *)
(*                                                                         *)
(* A task takes one step per await: between two awaits its code runs        *)
(* without interference.  How long the retry loops sleep is the subject of  *)
(* module RetryDelays; here a sleep is the gap between two steps.           *)
(***************************************************************************)
EXTENDS Naturals, Sequences, FiniteSets, CoordinatorClient

CONSTANTS
  Units,          \* work units the coordinator may hand out
  Work,           \* Units -> [project, dataset, workload, payload]
  Tasks,          \* names for spawned tasks
  BatchSize,      \* OPENSTAR_WORK_BATCH_SIZE
  FetchAttempts,  \* the 5 of "for attempt in 0..5"
  Backend,        \* the id of the backend that lomb units run on
  FetchAnswers,   \* how a dataset GET may end
  SubmitAnswers   \* how a result POST may end

Supported == {"lomb", "box"}

ASSUME BatchAssumption ==
  /\ DOMAIN Work = Units
  /\ \A u \in Units : /\ DOMAIN Work[u] = {"project", "dataset", "workload", "payload"}
                      /\ Work[u].workload \in Supported \cup {"other"}
                      /\ Work[u].payload \in {"valid", "invalid", "legacy", "missing"}
  /\ BatchSize \in Nat \ {0}
  /\ FetchAttempts \in Nat \ {0}
  /\ Backend \in {"cpu", "vulkan"}
  /\ FetchAnswers \subseteq Answers
  /\ SubmitAnswers \subseteq Answers

VARIABLES
  task,      \* the state of each spawned task
  fate,      \* history: what became of each unit
  sent,      \* history: the result bodies POSTed so far; the network keeps them
  received   \* the bodies the coordinator has processed

batchVars == <<task, fate, sent, received>>

-----------------------------------------------------------------------------
\* The dataset a unit refers to: v1/projects/{project}/datasets/{dataset}.
Key(u) == <<Work[u].project, Work[u].dataset>>
Keys   == {Key(u) : u \in Units}

\* A duration is the set of awaited activities that elapsed between `started`
\* and the call of elapsed().  A batch's shared transfer is named after the
\* batch's first unit, every other activity after its own unit.
Activities == {"shared", "fetch", "compute", "submit"} \X Units

\* WorkResult::completed / WorkResult::failed, and backend_failure_kind.
ResultKind ==
  [output      |-> "completed",  rejected |-> "invalid-input",
   deviceError |-> "execution",  panic    |-> "execution"]

Kinds == {"completed", "invalid-input", "execution",
          "transport-unavailable", "unsupported-workload"}

\* A serialised WorkResult.  `data` is the dataset a completed result was
\* computed from, `cpuTime` whether its payload has cpuDurationSeconds.  An Option
\* is a set with at most one element, here and below.
Bodies == [unit: Units, kind: Kinds, data: SUBSET Keys, span: SUBSET Activities,
           cpuTime: BOOLEAN]

\* idle: no such task (not spawned, finished or unwound)
\* shared, fetch: a dataset GET is in progress    compute: in spawn_blocking
\* submit: about to POST (or sleeping before)     posted: the POST is in progress
Stages == {"idle", "shared", "fetch", "compute", "submit", "posted"}

TaskStates ==
  [batch: Seq(Units), pos: Nat, stage: Stages, attempt: Nat,
   shared: SUBSET Keys, data: SUBSET Keys,
   span: SUBSET Activities, body: SUBSET Bodies]

Idle ==
  [batch |-> <<>>, pos |-> 0, stage |-> "idle", attempt |-> 0,
   shared |-> {}, data |-> {}, span |-> {}, body |-> {}]

\* The workloads registered with the coordinator, each with the backend it runs on.
WorkloadCapability == [lomb |-> Backend, box |-> "cpu"]

\* What a claim may return: claim one unit, claim_batch at most BatchSize.
Batches ==
  {b \in UNION {[1..n -> Units] : n \in 1..BatchSize} :
     \A i, j \in DOMAIN b : b[i] = b[j] => i = j}

Unit(r) == r.batch[r.pos]

\* The units a task still has to submit a result for.
Unfinished(r) == {r.batch[i] : i \in {j \in DOMAIN r.batch : j >= r.pos}}

-----------------------------------------------------------------------------
(* process_with_dataset, as functions from a task's state to its next one. *)

Elapsed(r, activity) == [r EXCEPT !.span = @ \cup {<<activity, Unit(r)>>}]

\* A payload may be absent: then the unit's own fields, if all are there, are those
\* of a Lomb-Scargle payload ("legacy").  The box period search has no such fields.
PayloadOk(u) ==
  \/ Work[u].payload = "valid"
  \/ Work[u].payload = "legacy" /\ Work[u].workload = "lomb"

\* WorkResult::completed and completed_box_period
Completed(r) ==
  [unit |-> Unit(r), kind |-> "completed", data |-> r.data, span |-> r.span,
   cpuTime |-> Work[Unit(r)].workload = "box" \/ Backend = "cpu"]

\* WorkResult::failed
Failed(r, kind) ==
  [unit |-> Unit(r), kind |-> kind, data |-> {}, span |-> r.span, cpuTime |-> FALSE]

\* The result is built and serialised once, then submit_with_retry is entered.
Submitting(r, kind) ==
  [r EXCEPT !.stage = "submit",
            !.body  = {IF kind = "completed" THEN Completed(r) ELSE Failed(r, kind)}]

\* The dataset is at hand: box_period_payload / lomb_payload, then the kernel.
Loaded(r) ==
  IF PayloadOk(Unit(r)) THEN [r EXCEPT !.stage = "compute"]
  ELSE Submitting(r, "invalid-input")

\* Mutant: every unit of the batch starts when the shared transfer started.
StartedSpan_EachUnit(r, i) ==
  IF r.shared # {} THEN {<<"shared", r.batch[1]>>} ELSE {}

\* `started` of the batch's i-th unit, as what has elapsed since.
StartedSpan(r, i) ==
  IF r.shared # {} /\ i = 1 THEN {<<"shared", r.batch[1]>>} ELSE {}

StartUnit(r, i) ==
  LET s == [r EXCEPT !.pos = i, !.attempt = 0, !.stage = "fetch", !.data = r.shared,
                     !.span = StartedSpan(r, i), !.body = {}]
  IN  IF Work[Unit(s)].workload \notin Supported THEN Submitting(s, "unsupported-workload")
      ELSE IF r.shared # {} THEN Loaded(s)
      ELSE s

\* Mutant: the project id is not compared.
Homogeneous_AnyProject(b) ==
  \A i \in DOMAIN b : /\ Work[b[i]].dataset  = Work[b[1]].dataset
                      /\ Work[b[i]].workload = Work[b[1]].workload

Homogeneous(b) ==
  \A i \in DOMAIN b : /\ Work[b[i]].project  = Work[b[1]].project
                      /\ Work[b[i]].dataset  = Work[b[1]].dataset
                      /\ Work[b[i]].workload = Work[b[1]].workload

\* process_batch up to its first await.
ProcessBatch(b) ==
  LET r == [Idle EXCEPT !.batch = b]
  IN  IF Homogeneous(b) /\ Work[b[1]].workload \in Supported
      THEN [r EXCEPT !.pos = 1, !.stage = "shared"]
      ELSE StartUnit(r, 1)

\* Mutant: the loop stops before the last unit.
NextUnit_DropsLast(r) == IF r.pos + 1 < Len(r.batch) THEN StartUnit(r, r.pos + 1) ELSE Idle

\* submit_with_retry returned: the batch loop's next iteration, or the end.
NextUnit(r) == IF r.pos < Len(r.batch) THEN StartUnit(r, r.pos + 1) ELSE Idle

\* Mutant: one attempt too many.
MayRetry_OneTooMany(reply, attempt) == Transient(reply) /\ attempt < FetchAttempts

\* fetch_with_retry goes round again.
MayRetry(reply, attempt) == Transient(reply) /\ attempt < FetchAttempts - 1
FetchAgain(r) == [r EXCEPT !.attempt = @ + 1]

\* A failed shared fetch sends the batch down the individual path.
AfterSharedFetch(r, reply) ==
  IF reply = Ok THEN StartUnit([r EXCEPT !.shared = {Key(r.batch[1])}], 1)
  ELSE IF MayRetry(reply, r.attempt) THEN FetchAgain(r)
  ELSE StartUnit(r, 1)

\* Mutant: the last error is swallowed.
AfterFetch_Swallows(r, reply) ==
  IF reply = Ok THEN Loaded(Elapsed([r EXCEPT !.data = {Key(Unit(r))}], "fetch"))
  ELSE IF MayRetry(reply, r.attempt) THEN FetchAgain(r)
  ELSE Loaded(Elapsed(r, "fetch"))

AfterFetch(r, reply) ==
  IF reply = Ok THEN Loaded(Elapsed([r EXCEPT !.data = {Key(Unit(r))}], "fetch"))
  ELSE IF MayRetry(reply, r.attempt) THEN FetchAgain(r)
  ELSE Submitting(Elapsed(r, "fetch"), FetchFailureKind(reply))

\* Mutant: the result is built anew for every attempt, its duration included.
Resubmit_Reserialised(r) ==
  LET s == Elapsed(r, "submit")
  IN  [s EXCEPT !.stage = "submit", !.body = {[b EXCEPT !.span = s.span] : b \in r.body}]

\* submit_with_retry goes round again with the same bytes.
Resubmit(r) == [r EXCEPT !.stage = "submit"]

-----------------------------------------------------------------------------
Active == {t \in Tasks : task[t].stage # "idle"}
Held   == {u \in Units : fate[u] = "held"}

BatchInit ==
  /\ task     = [t \in Tasks |-> Idle]
  /\ fate     = [u \in Units |-> "none"]
  /\ sent     = {}
  /\ received = {}

\* tokio::spawn of process_batch.  A unit is handed out at most once.
Spawn(t, b) ==
  /\ task[t].stage = "idle"
  /\ \A i \in DOMAIN b : fate[b[i]] = "none"
  /\ task' = [task EXCEPT ![t] = ProcessBatch(b)]
  /\ fate' = [u \in Units |-> IF \E i \in DOMAIN b : b[i] = u THEN "held" ELSE fate[u]]
  /\ UNCHANGED <<sent, received>>

SharedFetch(t) ==
  /\ task[t].stage = "shared"
  /\ \E answer \in FetchAnswers :
       task' = [task EXCEPT ![t] = AfterSharedFetch(@, DatasetReply[answer])]
  /\ UNCHANGED <<fate, sent, received>>

Fetch(t) ==
  /\ task[t].stage = "fetch"
  /\ \E answer \in FetchAnswers :
       task' = [task EXCEPT ![t] = AfterFetch(@, DatasetReply[answer])]
  /\ UNCHANGED <<fate, sent, received>>

\* backend_failure_kind: only the Vulkan backend has a device to fail, and the box
\* period kernel runs on the CPU pool.
Compute(t) ==
  /\ task[t].stage = "compute"
  /\ \E outcome \in DOMAIN ResultKind :
       /\ outcome = "deviceError" => Work[Unit(task[t])].workload = "lomb" /\ Backend = "vulkan"
       /\ task' = [task EXCEPT ![t] = Submitting(Elapsed(@, "compute"), ResultKind[outcome])]
  /\ UNCHANGED <<fate, sent, received>>

Post(t) ==
  /\ task[t].stage = "submit"
  /\ sent' = sent \cup task[t].body
  /\ task' = [task EXCEPT ![t].stage = "posted"]
  /\ UNCHANGED <<fate, received>>

SubmitRetry(t) ==
  /\ task[t].stage = "posted"
  /\ \E answer \in SubmitAnswers : Transient(SubmitReply[answer])
  /\ task' = [task EXCEPT ![t] = Resubmit(@)]
  /\ UNCHANGED <<fate, sent, received>>

\* A receipt, whatever it says, or an error that is not transient: both break.
SubmitSettled(t) ==
  /\ task[t].stage = "posted"
  /\ \E answer \in SubmitAnswers :
       LET reply == SubmitReply[answer] IN
       /\ reply # Panic
       /\ ~Transient(reply)
       /\ reply = Ok => task[t].body \subseteq received
       /\ fate' = [fate EXCEPT ![Unit(task[t])] = IF reply = Ok THEN "receipt" ELSE "givenUp"]
  /\ task' = [task EXCEPT ![t] = NextUnit(@)]
  /\ UNCHANGED <<sent, received>>

\* unwrap_err on an Ok value unwinds the task with the rest of its batch.
SubmitPanics(t) ==
  /\ task[t].stage = "posted"
  /\ \E answer \in SubmitAnswers : SubmitReply[answer] = Panic
  /\ fate' = [u \in Units |-> IF u \in Unfinished(task[t]) THEN "lost" ELSE fate[u]]
  /\ task' = [task EXCEPT ![t] = Idle]
  /\ UNCHANGED <<sent, received>>

\* The coordinator processes a submitted body, long after the POST if it was
\* delayed.  Bodies of a worker that is gone still arrive.
Receive ==
  /\ \E b \in sent \ received : received' = received \cup {b}
  /\ UNCHANGED <<task, fate, sent>>

\* The units of a claim whose answer got lost stay assigned to this node.
Stranded(S) ==
  /\ \A u \in S : fate[u] = "none"
  /\ Cardinality(S) <= BatchSize

Strand(S) ==
  /\ Stranded(S)
  /\ fate' = [u \in Units |-> IF u \in S THEN "lost" ELSE fate[u]]
  /\ UNCHANGED <<task, sent, received>>

\* The runtime is dropped or the process dies: every task is gone at once, and
\* with them a claim on the wire that may still be granted.
Abandon(S) ==
  /\ Stranded(S)
  /\ task' = [t \in Tasks |-> Idle]
  /\ fate' = [u \in Units |-> IF fate[u] = "held" \/ u \in S THEN "lost" ELSE fate[u]]
  /\ UNCHANGED <<sent, received>>

Definitive(t) == SubmitSettled(t) \/ SubmitPanics(t)

TaskStep(t) ==
  \/ SharedFetch(t) \/ Fetch(t) \/ Compute(t)
  \/ Post(t) \/ SubmitRetry(t) \/ SubmitSettled(t) \/ SubmitPanics(t)

BatchNext ==
  \/ \E t \in Tasks : (\E b \in Batches : Spawn(t, b)) \/ TaskStep(t)
  \/ Receive
  \/ \E S \in SUBSET Units : Strand(S) \/ Abandon(S)

BatchSpec == BatchInit /\ [][BatchNext]_batchVars

\* The runtime polls every ready task, a request ends by its timeout at the
\* latest, and a kernel terminates.  That the coordinator does not answer every
\* retry of one submission with a transient failure is assumed of it.
BatchFairness ==
  \A t \in Tasks :
    /\ WF_batchVars(SharedFetch(t) \/ Fetch(t) \/ Compute(t) \/ Post(t))
    /\ WF_batchVars(SubmitRetry(t) \/ Definitive(t))
    /\ SF_batchVars(Definitive(t))

FairBatchSpec == BatchSpec /\ BatchFairness

-----------------------------------------------------------------------------
Fates == {"none", "held", "receipt", "givenUp", "lost"}

\* The states have their types, and a dataset is fetched at most FetchAttempts
\* times in a row (fetch_with_retry, whose loop must not reach unreachable!()).
TypeOK ==
  /\ task \in [Tasks -> TaskStates]
  /\ fate \in [Units -> Fates]
  /\ sent \in SUBSET Bodies
  /\ received \in SUBSET sent
  /\ \A t \in Tasks : task[t].attempt < FetchAttempts
  /\ \A t \in Active : task[t].pos \in DOMAIN task[t].batch

\* No unit is dropped between two others and none is worked on twice: a held
\* unit is the unfinished business of exactly one task, whichever of the shared
\* and individual paths of process_batch its batch went down.
UnitOwnership ==
  /\ \A u \in Units : fate[u] = "held" <=> \E t \in Tasks : u \in Unfinished(task[t])
  /\ \A t1, t2 \in Tasks : t1 # t2 => Unfinished(task[t1]) \cap Unfinished(task[t2]) = {}

\* "The caller serializes once, ensuring byte-identical bodies across retries":
\* however often a result is POSTed, every copy the coordinator can meet, late
\* ones included, is the same body.
StableBody == \A b1, b2 \in sent : b1.unit = b2.unit => b1 = b2

\* What a result says of its unit really happened, as the worker announced it: a
\* completed one was computed from the unit's own dataset and a payload of its workload,
\* also when the dataset was shared or a shared fetch failed first; a unit of a
\* registered workload is never reported as unsupported, any other always is; and
\* "`cpuDurationSeconds` remains present for CPU results only", which are those of the
\* workloads registered with the CPU.
Faithful(b) ==
  LET w == Work[b.unit]
      registered == w.workload \in DOMAIN WorkloadCapability
  IN
  /\ b.kind = "completed" =>
       /\ b.data = {Key(b.unit)}
       /\ w.payload = "valid" \/ (w.payload = "legacy" /\ w.workload # "box")
  /\ b.kind = "unsupported-workload" <=> ~registered
  /\ b.kind = "execution" => <<"compute", b.unit>> \in b.span
  /\ b.cpuTime <=> b.kind = "completed" /\ registered /\ WorkloadCapability[w.workload] = "cpu"

\* Every result ever POSTed is faithful, late and repeated copies included.
FaithfulResult == \A b \in sent : Faithful(b)

\* process_batch charges "the one shared transfer to exactly one result": while a
\* batch with a shared dataset runs, the first result carries the transfer and no
\* later one does, and no result carries time spent for another unit.
SharedTransferChargedOnce ==
  /\ \A t \in Active, b \in sent :
       LET r == task[t] IN
       r.shared # {} /\ (\E i \in DOMAIN r.batch : r.batch[i] = b.unit)
         => (<<"shared", r.batch[1]>> \in b.span <=> b.unit = r.batch[1])
  /\ \A b \in sent, a \in Activities : a \in b.span => a[2] = b.unit

\* Every claimed unit is eventually settled: answered, given up on or lost to a
\* panic or the end of the process; no retry loop keeps it forever.
HeldSettles == \A u \in Units : fate[u] = "held" ~> fate[u] # "held"
=============================================================================
