--------------------------- MODULE VulkanResources ---------------------------
(***************************************************************************)
(* The Vulkan objects of src/vulkan.rs: VulkanBackend::new, the buffers,    *)
(* pools and command buffer that Context::execute keeps between work units, *)
(* and Drop.  The mutex VulkanBackend::inner lets one execution in at a     *)
(* time; what interleaves with it is the device, which runs a submitted     *)
(* command buffer when it pleases.  Any Vulkan call may fail.               *)
(*                                                                         *)
(* Sizes count Float32 elements; validate has made sure there is at least   *)
(* one, so the 4-byte minimum of `buffer` never shows.  Nothing under the   *)
(* mutex panics, so it is never poisoned.                                   *)
(***************************************************************************)
EXTENDS FiniteSets, BackendSelection

CONSTANTS
  Jobs,        \* valid datasets with their payloads
  Length,      \* Jobs -> the number of coordinates, and of values
  Count,       \* Jobs -> frequency_count
  WaitErrors   \* how queue_wait_idle may fail

ASSUME VulkanAssumption ==
  /\ Length \in [Jobs -> Nat \ {0}]
  /\ Count \in [Jobs -> Nat \ {0}]
  /\ WaitErrors \subseteq {"deviceLost", "outOfMemory"}

VARIABLES
  machine,    \* the host's Vulkan devices
  choice,     \* OPENSTAR_BACKEND
  device,     \* the device and queue family chosen, an Option
  backend,    \* the backend the worker computes on
  phase,      \* where the holder of the mutex is
  job,        \* what it executes
  kept,       \* Context.resources, an Option: a set with at most one element
  used,       \* the ExecutionResources in its hands, perhaps still incomplete
  live,       \* the Vulkan objects that exist
  bound,      \* the sizes of the buffers the descriptor set refers to, an Option
  data,       \* what the buffers in use contain
  pending,    \* submissions the device has not finished
  lost,       \* VK_ERROR_DEVICE_LOST
  forgotten,  \* history: a wait failed though the device went on
  result      \* what the last execution read from the output buffer

selection == <<machine, choice, device, backend>>
vars == <<selection, phase, job, kept, used, live, bound, data, pending, lost, forgotten, result>>
host == <<selection, phase, job, kept, used, live, bound, lost, forgotten, result>>

\* new: before VulkanBackend::new      unavailable: it failed
\* free: the mutex is free             create: create_resources
\* cleanup: its error path             grow: grow_buffer and what follows
\* record: the descriptors are set     submit: the command buffer is recorded
\* wait: in queue_wait_idle            dropped: Context was dropped
Phases == {"new", "unavailable", "free", "create", "cleanup", "grow", "record",
           "submit", "wait", "dropped"}

Executing == phase \in {"create", "cleanup", "grow", "record", "submit", "wait"}

Slots == {"x", "y", "output"}

\* The order in which create_resources and execute go through the buffers.
Order == <<"x", "y", "output">>

Required(j) == [x |-> Length[j], y |-> Length[j], output |-> Count[j]]

\* What Context holds, in the order of its creation.  The shader module is
\* destroyed as soon as the pipeline exists.
BaseOrder == <<"instance", "device", "setLayout", "pipelineLayout", "shader",
               "pipeline", "commandPool">>

Base(k) ==
  {<<"context", BaseOrder[i], 0>> : i \in {i \in 1..k : k > 5 => BaseOrder[i] # "shader"}}

\* A Buffer is a VkBuffer and its memory.  A slot's buffers only ever grow, so
\* slot and size tell them apart.
Buffer(s, n) == {<<s, "buffer", n>>, <<s, "memory", n>>}
Pool    == <<"resources", "descriptorPool", 0>>
Command == <<"resources", "commandBuffer", 0>>

\* ExecutionResources under construction: the Options of create_resources.
Nothing == [pool |-> FALSE, command |-> FALSE, size |-> <<>>]

Complete(r) == r.pool /\ r.command /\ DOMAIN r.size = Slots

ObjectsOf(r) ==
  (IF r.pool THEN {Pool} ELSE {})
    \cup (IF r.command THEN {Command} ELSE {})
    \cup UNION {Buffer(s, r.size[s]) : s \in DOMAIN r.size}

\* The first slot in Order that satisfies `needs`.
IsFirst(s, needs) ==
  \E i \in 1..3 : Order[i] = s /\ s \in needs /\ \A k \in 1..(i - 1) : Order[k] \notin needs

Empty == [s \in Slots |-> {}]

Init ==
  /\ machine \in Machines
  /\ choice \in BackendChoices
  /\ device = {}
  /\ backend = "none"
  /\ phase = "new"
  /\ job = {}
  /\ kept = {}
  /\ used = Nothing
  /\ live = {}
  /\ bound = {}
  /\ data = Empty
  /\ pending = {}
  /\ lost = FALSE
  /\ forgotten = FALSE
  /\ result = {}

\* VulkanBackend::new gets as far as k objects, which is one if no device is usable;
\* nothing undoes the first k.
Initialise ==
  /\ phase = "new"
  /\ \E k \in 0..Len(BaseOrder), pool \in BOOLEAN :
       /\ choice = "cpu" => k = 0
       /\ Chosen(machine) = {} => k <= 1
       /\ live' = Base(k)
       /\ device' = UNION {{i} \X ChooseQueue(machine[i].queues) : i \in Chosen(machine)}
       /\ backend' = Selected(choice, k = Len(BaseOrder), pool)
       /\ phase' = IF k = Len(BaseOrder) THEN "free" ELSE "unavailable"
  /\ UNCHANGED <<machine, choice, job, kept, used, bound, data, pending, lost, forgotten, result>>

-----------------------------------------------------------------------------
(* Context::execute, from the lock of the mutex to its release, for a job that
   kernel::validate accepts; others return before anything is touched. *)

\* Mutant: the resources are borrowed, not taken.
Take_Borrows(r) == kept' = kept

\* self.resources.take()
Take(r) == kept' = {}

Begin(j) ==
  /\ phase = "free"
  /\ job' = {j}
  /\ result' = {}
  /\ \/ /\ kept = {}
        /\ phase' = "create"
        /\ UNCHANGED <<selection, kept, used, data>>
     \/ \E r \in kept :
          /\ phase' = "grow"
          /\ used' = r
          /\ Take(r)
          /\ UNCHANGED data
  /\ UNCHANGED <<selection, live, bound, pending, lost, forgotten>>

\* The first call of create_resources: its error has nothing to clean up.
CreatePool ==
  /\ phase = "create" /\ ~used.pool
  /\ \/ /\ used' = [used EXCEPT !.pool = TRUE]
        /\ live' = live \cup {Pool}
        /\ UNCHANGED phase
     \/ /\ phase' = "free"
        /\ UNCHANGED <<used, live>>
  /\ UNCHANGED <<selection, job, kept, bound, data, pending, lost, forgotten, result>>

\* allocate_descriptor_sets (the pool owns the set), allocate_command_buffers.
AllocateCommand ==
  /\ phase = "create" /\ used.pool /\ ~used.command
  /\ \/ /\ used' = [used EXCEPT !.command = TRUE]
        /\ live' = live \cup {Command}
        /\ UNCHANGED phase
     \/ /\ phase' = "cleanup"
        /\ UNCHANGED <<used, live>>
  /\ UNCHANGED <<selection, job, kept, bound, data, pending, lost, forgotten, result>>

\* Mutant: the memory is not freed.
FailedBuffer_KeepsMemory(s, n, memory) == {<<s, "buffer", n>>}

\* What the error path of `buffer` destroys: the memory, if there is any, and the buffer.
FailedBuffer(s, n, memory) == memory \cup {<<s, "buffer", n>>}

\* Either create_buffer fails and `?` returns at once, or what follows it does: the
\* choice of a memory type and allocate_memory, or bind and map, with the memory made.
BufferFails(s, n) ==
  \/ UNCHANGED live
  \/ \E memory \in {{}, {<<s, "memory", n>>}} :
       live' = (live \cup {<<s, "buffer", n>>} \cup memory) \ FailedBuffer(s, n, memory)

CreateBuffer(s) ==
  /\ phase = "create" /\ used.command
  /\ IsFirst(s, Slots \ DOMAIN used.size)
  /\ \E j \in job : LET n == Required(j)[s] IN
       \/ /\ live' = live \cup Buffer(s, n)
          /\ used' = [used EXCEPT !.size =
                        [q \in DOMAIN used.size \cup {s} |-> IF q = s THEN n ELSE used.size[q]]]
          /\ data' = [data EXCEPT ![s] = {}]
          /\ phase' = IF Complete(used') THEN "grow" ELSE "create"
       \/ /\ BufferFails(s, n)
          /\ phase' = "cleanup"
          /\ UNCHANGED <<used, data>>
  /\ UNCHANGED <<selection, job, kept, bound, pending, lost, forgotten, result>>

\* What the error path of create_resources destroys.
Released(r) == ObjectsOf(r)

Cleanup ==
  /\ phase = "cleanup"
  /\ live' = live \ Released(used)
  /\ used' = Nothing
  /\ phase' = "free"
  /\ UNCHANGED <<selection, job, kept, bound, data, pending, lost, forgotten, result>>

\* Mutant: an error leaves the closure before the resources are put back.
PutBack_UnlessFailed(ok) ==
  /\ kept' = IF ok THEN {used} ELSE {}
  /\ used' = Nothing
  /\ phase' = "free"

\* self.resources = Some(resources), whatever the result.
PutBack(ok) ==
  /\ kept' = {used}
  /\ used' = Nothing
  /\ phase' = "free"

\* ~capacity_sufficient
Insufficient(capacity, required) == capacity < required

TooSmall == {s \in Slots : \E j \in job : Insufficient(used.size[s], Required(j)[s])}

\* grow_buffer: the replacement first, then the old buffer goes.
GrowBuffer(s) ==
  /\ phase = "grow"
  /\ IsFirst(s, TooSmall)
  /\ \E j \in job : LET n == Required(j)[s] IN
       \/ /\ live' = (live \cup Buffer(s, n)) \ Buffer(s, used.size[s])
          /\ used' = [used EXCEPT !.size[s] = n]
          /\ data' = [data EXCEPT ![s] = {}]
          /\ UNCHANGED <<phase, kept>>
       \/ /\ BufferFails(s, n)
          /\ PutBack(FALSE)
          /\ UNCHANGED data
  /\ UNCHANGED <<selection, job, bound, pending, lost, forgotten, result>>

\* Mutant: the descriptors are only written for new resources.
Bind_Once == bound' = IF bound = {} THEN {used.size} ELSE bound

\* update_descriptor_sets
Bind == bound' = {used.size}

WriteInputs ==
  /\ phase = "grow" /\ TooSmall = {}
  /\ data' = [data EXCEPT !["x"] = job, !["y"] = job]
  /\ Bind
  /\ phase' = "record"
  /\ UNCHANGED <<selection, job, kept, used, live, pending, lost, forgotten, result>>

\* reset_command_buffer, begin_command_buffer, ..., end_command_buffer
Record ==
  /\ phase = "record"
  /\ \/ phase' = "submit" /\ UNCHANGED <<kept, used>>
     \/ PutBack(FALSE)
  /\ UNCHANGED <<selection, job, live, bound, data, pending, lost, forgotten, result>>

\* queue_submit.  A lost device takes nothing more.
Submit ==
  /\ phase = "submit"
  /\ \/ /\ ~lost
        /\ pending' = pending \cup {[bound |-> bound, job |-> job]}
        /\ phase' = "wait"
        /\ UNCHANGED <<selection, kept, used>>
     \/ PutBack(FALSE) /\ UNCHANGED pending
  /\ UNCHANGED <<selection, job, live, bound, data, lost, forgotten, result>>

\* Mutant: the device is not waited for.
Idle_Assumed == TRUE

\* queue_wait_idle returns when the queue has nothing left to do.
Idle == pending = {}

\* read_f32
Read ==
  /\ phase = "wait" /\ Idle
  /\ result' = {[job |-> job, powers |-> data["output"]]}
  /\ PutBack(TRUE)
  /\ UNCHANGED <<selection, job, live, bound, data, pending, lost, forgotten>>

\* After a loss the device touches nothing; short of memory, it goes on.
WaitFails(error) ==
  /\ phase = "wait"
  /\ lost' = (lost \/ error = "deviceLost")
  /\ pending' = IF error = "deviceLost" THEN {} ELSE pending
  /\ forgotten' = (forgotten \/ pending' # {})
  /\ PutBack(FALSE)
  /\ UNCHANGED <<selection, job, live, bound, data, result>>

-----------------------------------------------------------------------------
\* The device runs a submission: powers of what x and y hold now, with the push
\* constants of the submission, into the output buffer.  Where it was bound to other
\* buffers or nobody waits for it, what the output buffer holds is anyone's guess.
Dispatch(p) ==
  /\ pending' = pending \ {p}
  /\ data' = IF phase = "wait" /\ p.bound = {used.size}
             THEN [data EXCEPT !["output"] = {[x |-> data["x"], y |-> data["y"], job |-> p.job]}]
             ELSE [data EXCEPT !["output"] = {}]
  /\ UNCHANGED host

\* Drop for Context, when the last Arc of the backend goes: device_wait_idle, whose
\* error is ignored, then everything is destroyed.
Drop ==
  /\ phase = "free"
  /\ live' = live \ (Base(Len(BaseOrder)) \cup UNION {ObjectsOf(r) : r \in kept})
  /\ kept' = {}
  /\ \/ pending' = {}
     \/ "outOfMemory" \in WaitErrors /\ UNCHANGED pending
  /\ phase' = "dropped"
  /\ UNCHANGED <<selection, job, used, bound, data, lost, forgotten, result>>

Stopped == phase \in {"unavailable", "dropped"} /\ UNCHANGED vars

Next ==
  \/ Initialise
  \/ \E j \in Jobs : Begin(j)
  \/ CreatePool \/ AllocateCommand \/ (\E s \in Slots : CreateBuffer(s)) \/ Cleanup
  \/ (\E s \in Slots : GrowBuffer(s)) \/ WriteInputs \/ Record \/ Submit
  \/ Read \/ \E error \in WaitErrors : WaitFails(error)
  \/ \E p \in pending : Dispatch(p)
  \/ Drop
  \/ Stopped

Spec == Init /\ [][Next]_vars

-----------------------------------------------------------------------------
\* The states have their types; an execution that was handed the resources left
\* None behind, and what is put back is complete.
TypeOK ==
  /\ machine \in Machines /\ choice \in BackendChoices
  /\ backend \in {"none", "noPool", "cpu", "vulkan"}
  /\ device \subseteq {d \in (DOMAIN machine) \X Nat : d[2] \in DOMAIN machine[d[1]].queues}
  /\ phase \in Phases
  /\ job \in SUBSET Jobs
  /\ \A r \in kept : Complete(r) /\ r.size \in [Slots -> Nat]
  /\ DOMAIN used.size \subseteq Slots
  /\ phase \in {"grow", "record", "submit", "wait"} => Complete(used)
  /\ Executing => kept = {}
  /\ ~Executing => used = Nothing
  /\ pending \subseteq [bound: SUBSET [Slots -> Nat], job: SUBSET Jobs]
  /\ lost \in BOOLEAN /\ forgotten \in BOOLEAN

Owned ==
  (IF phase \in {"new", "dropped"} THEN {} ELSE Base(Len(BaseOrder)))
    \cup ObjectsOf(used)
    \cup UNION {ObjectsOf(r) : r \in kept}

\* Whichever call fails, every Vulkan object belongs to Context or to the
\* execution under way and each of theirs exists: none leaks, none is used or
\* destroyed after its end, and Drop leaves nothing.
LiveIsOwned == phase # "unavailable" => live = Owned

\* What the device is told to use are the buffers at hand, after any growth of
\* some of them by this or an earlier, failed execution, and they are large
\* enough for all the kernel reads and writes.
BindingsFit ==
  phase \in {"record", "submit", "wait"} =>
    /\ bound = {used.size}
    /\ \A j \in job, s \in Slots : used.size[s] >= Required(j)[s]

\* The device never touches a buffer that was replaced, cleaned up or dropped: whatever
\* a submission refers to exists until it is finished, as long as the device never went
\* on after a failed wait.
PendingIsLive ==
  ~forgotten => \A p \in pending : \A b \in p.bound, s \in Slots : Buffer(s, b[s]) \subseteq live

\* Powers returned for a job were computed from its own data and parameters,
\* whatever the buffers held before, as long as the device never went on after a
\* failed wait.
FreshResult ==
  ~forgotten =>
    \A r \in result : r.powers = {[x |-> r.job, y |-> r.job, job |-> r.job]}

\* A compute-only queue is never used, nor a device while one of a better kind could
\* be; only `auto` falls back to the CPU, and only when Vulkan failed.
BackendAsPromised ==
  /\ backend = "vulkan" =>
       /\ phase # "unavailable"
       /\ \E d \in device :
            /\ {"graphics", "compute"} \subseteq machine[d[1]].queues[d[2]]
            /\ \A i \in DOMAIN machine : DeviceRank(machine[i].kind) > DeviceRank(machine[d[1]].kind)
                 => \A q \in Range(machine[i].queues) : ~({"graphics", "compute"} \subseteq q)
  /\ backend = "cpu" => choice # "vulkan" /\ phase = "unavailable"
  /\ phase = "unavailable" /\ backend = "none" => choice = "vulkan"

\* "auto selects a discrete or integrated Vulkan GPU when possible and otherwise ...
\* falls back to CPU": it never computes on a software implementation of Vulkan.
AutoMeansGpu ==
  choice = "auto" /\ backend = "vulkan" =>
    \A d \in device : machine[d[1]].kind \in {"discrete", "integrated"}
=============================================================================
