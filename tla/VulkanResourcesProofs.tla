------------------------- MODULE VulkanResourcesProofs -------------------------
(***************************************************************************)
(* Proofs about VulkanResources, for every set of hosts and jobs, every     *)
(* size of their data, and every order of failures: that the Vulkan objects *)
(* alive are the ones somebody owns (LiveIsOwned), that the device works on *)
(* buffers that exist and suffice (BindingsFit), that powers are those of   *)
(* the job at hand (FreshResult), and what the choice of a device and a     *)
(* backend promises (BackendAsPromised).                                    *)
(***************************************************************************)
EXTENDS VulkanResources, WellFoundedInduction, TLAPS

\* ExecutionResources, with any part of them missing.
Resources == [pool : BOOLEAN, command : BOOLEAN, size : UNION {[S -> Nat] : S \in SUBSET Slots}]

\* What the types alone do not say: at most one set of resources is kept and one job
\* executed, and creating the resources begins with the pool.
HoldersInv ==
  /\ TypeOK
  /\ used \in Resources /\ kept \subseteq Resources
  /\ \A r, q \in kept : r = q
  /\ \A j, k \in job : j = k
  /\ phase = "new" => kept = {}
  /\ phase = "create" => used = Nothing \/ used.pool

\* Unless a failed wait left the device running, it has at most the submission that is
\* waited for, and once that is done the output holds the powers of the job.
FreshInv ==
  /\ FreshResult
  /\ data = [s \in Slots |-> data[s]]
  /\ phase \in {"record", "submit", "wait"} => data["x"] = job /\ data["y"] = job
  /\ ~forgotten =>
       IF phase = "wait"
       THEN /\ pending \subseteq {[bound |-> bound, job |-> job]}
            /\ pending = {} => data["output"] = {[x |-> job, y |-> job, job |-> job]}
       ELSE pending = {}

\* Nothing is chosen before VulkanBackend::new.
ChoiceInv ==
  /\ machine \in Machines /\ choice \in BackendChoices
  /\ phase = "new" => backend = "none"
  /\ BackendAsPromised

\* The inductive invariant.
ResourcesInv == HoldersInv /\ LiveIsOwned /\ BindingsFit /\ FreshInv /\ ChoiceInv

-----------------------------------------------------------------------------
(* Resources and the objects they stand for. *)

\* What is under construction has typed parts.
LEMMA ResourceParts ==
  ASSUME NEW r \in Resources
  PROVE  /\ r.pool \in BOOLEAN /\ r.command \in BOOLEAN
         /\ DOMAIN r.size \subseteq Slots /\ r.size \in [DOMAIN r.size -> Nat]
         /\ r = [pool |-> r.pool, command |-> r.command, size |-> r.size]
BY DEF Resources

LEMMA NothingIsResources == Nothing \in Resources /\ ObjectsOf(Nothing) = {} /\ ~Nothing.pool
<1>1. Nothing.size \in [{} -> Nat] /\ DOMAIN Nothing.size = {}
  BY DEF Nothing
<1>2. Nothing \in Resources
  BY <1>1 DEF Nothing, Resources
<1> QED
  BY <1>1, <1>2 DEF Nothing, ObjectsOf

\* What an object of some resources is.
LEMMA ObjectsAre ==
  ASSUME NEW r \in Resources, NEW o
  PROVE  o \in ObjectsOf(r) <=>
           \/ r.pool /\ o = Pool
           \/ r.command /\ o = Command
           \/ \E s \in DOMAIN r.size : o \in Buffer(s, r.size[s])
BY DEF ObjectsOf

\* Context's own objects are never those of the resources.
LEMMA ContextApart ==
  ASSUME NEW r \in Resources, NEW k
  PROVE  Base(k) \cap ObjectsOf(r) = {}
<1>1. \A o \in Base(k) : o[1] = "context"
  BY DEF Base
<1>2. Pool[1] # "context" /\ Command[1] # "context"
  BY DEF Pool, Command
<1>3. \A s \in Slots : \A n : \A o \in Buffer(s, n) : o[1] # "context"
  BY DEF Slots, Buffer
<1>4. \A o \in ObjectsOf(r) : o[1] # "context"
  BY <1>2, <1>3, ObjectsAre, ResourceParts
<1> QED
  BY <1>1, <1>4

\* A new pool, a new command buffer, a new or larger buffer.
LEMMA AddPool ==
  ASSUME NEW r \in Resources
  PROVE  /\ [r EXCEPT !.pool = TRUE] \in Resources
         /\ [r EXCEPT !.pool = TRUE].pool
         /\ ObjectsOf([r EXCEPT !.pool = TRUE]) = ObjectsOf(r) \cup {Pool}
<1> DEFINE q == [r EXCEPT !.pool = TRUE]
<1>1. q \in Resources /\ q.pool = TRUE /\ q.command = r.command /\ q.size = r.size
  BY DEF Resources
<1> HIDE DEF q
<1>2. ObjectsOf(q) = ObjectsOf(r) \cup {Pool}
  BY <1>1 DEF ObjectsOf
<1> QED
  BY <1>1, <1>2 DEF q

LEMMA AddCommand ==
  ASSUME NEW r \in Resources
  PROVE  /\ [r EXCEPT !.command = TRUE] \in Resources
         /\ [r EXCEPT !.command = TRUE].pool = r.pool
         /\ ObjectsOf([r EXCEPT !.command = TRUE]) = ObjectsOf(r) \cup {Command}
<1> DEFINE q == [r EXCEPT !.command = TRUE]
<1>1. q \in Resources /\ q.pool = r.pool /\ q.command = TRUE /\ q.size = r.size
  BY DEF Resources
<1> HIDE DEF q
<1>2. ObjectsOf(q) = ObjectsOf(r) \cup {Command}
  BY <1>1 DEF ObjectsOf
<1> QED
  BY <1>1, <1>2 DEF q

LEMMA AddBuffer ==
  ASSUME NEW r \in Resources, NEW s \in Slots \ DOMAIN r.size, NEW n \in Nat,
         NEW q, q = [r EXCEPT !.size =
                       [t \in DOMAIN r.size \cup {s} |-> IF t = s THEN n ELSE r.size[t]]]
  PROVE  /\ q \in Resources /\ q.pool = r.pool
         /\ ObjectsOf(q) = ObjectsOf(r) \cup Buffer(s, n)
<1> DEFINE g == [t \in DOMAIN r.size \cup {s} |-> IF t = s THEN n ELSE r.size[t]]
<1>1. g \in [DOMAIN r.size \cup {s} -> Nat] /\ DOMAIN r.size \cup {s} \in SUBSET Slots
  BY ResourceParts
<1>2. /\ q = [pool |-> r.pool, command |-> r.command, size |-> g]
      /\ q.pool = r.pool /\ q.command = r.command /\ q.size = g
  BY ResourceParts
<1>3. DOMAIN g = DOMAIN r.size \cup {s} /\ g[s] = n /\ \A t \in DOMAIN r.size : g[t] = r.size[t]
  OBVIOUS
<1> HIDE DEF g
<1>4. q \in Resources
  BY <1>1, <1>2, ResourceParts DEF Resources
<1>5. \A o : o \in ObjectsOf(q) <=> o \in ObjectsOf(r) \cup Buffer(s, n)
  BY <1>2, <1>3, <1>4, ObjectsAre
<1> QED
  BY <1>2, <1>4, <1>5

LEMMA ReplaceBuffer ==
  ASSUME NEW r \in Resources, NEW s \in DOMAIN r.size, NEW n \in Nat, n # r.size[s],
         NEW q, q = [r EXCEPT !.size[s] = n]
  PROVE  /\ q \in Resources /\ q.pool = r.pool /\ q.command = r.command
         /\ DOMAIN q.size = DOMAIN r.size
         /\ Buffer(s, r.size[s]) \subseteq ObjectsOf(r)
         /\ ObjectsOf(q) = (ObjectsOf(r) \cup Buffer(s, n)) \ Buffer(s, r.size[s])
<1> DEFINE g == [r.size EXCEPT ![s] = n]
<1>1. g \in [DOMAIN r.size -> Nat]
  BY ResourceParts
<1>2. /\ q = [pool |-> r.pool, command |-> r.command, size |-> g]
      /\ q.pool = r.pool /\ q.command = r.command /\ q.size = g
  BY ResourceParts
<1>3. DOMAIN g = DOMAIN r.size /\ g[s] = n /\ \A t \in DOMAIN r.size \ {s} : g[t] = r.size[t]
  OBVIOUS
<1> HIDE DEF g
<1>4. q \in Resources
  BY <1>1, <1>2, ResourceParts DEF Resources
<1>5. Buffer(s, r.size[s]) \subseteq ObjectsOf(r)
  BY ObjectsAre
<1>6. /\ Buffer(s, n) \cap Buffer(s, r.size[s]) = {}
      /\ Pool \notin Buffer(s, r.size[s]) /\ Command \notin Buffer(s, r.size[s])
      /\ \A t \in DOMAIN r.size \ {s} : Buffer(t, r.size[t]) \cap Buffer(s, r.size[s]) = {}
  BY ResourceParts DEF Buffer, Pool, Command, Slots
<1>7. ASSUME NEW o
      PROVE  o \in ObjectsOf(q) <=> o \in (ObjectsOf(r) \cup Buffer(s, n)) \ Buffer(s, r.size[s])
  <2>1. o \in ObjectsOf(q) <=>
          \/ r.pool /\ o = Pool
          \/ r.command /\ o = Command
          \/ o \in Buffer(s, n)
          \/ \E t \in DOMAIN r.size \ {s} : o \in Buffer(t, r.size[t])
    <3>1. o \in ObjectsOf(q) <=>
            \/ r.pool /\ o = Pool
            \/ r.command /\ o = Command
            \/ \E t \in DOMAIN g : o \in Buffer(t, g[t])
      BY <1>2, <1>4, ObjectsAre
    <3>2. DOMAIN g = {s} \cup (DOMAIN r.size \ {s})
      BY <1>3
    <3> QED
      BY <1>3, <3>1, <3>2
  <2>2. o \in ObjectsOf(r) <=>
          \/ r.pool /\ o = Pool
          \/ r.command /\ o = Command
          \/ o \in Buffer(s, r.size[s])
          \/ \E t \in DOMAIN r.size \ {s} : o \in Buffer(t, r.size[t])
    BY ObjectsAre
  <2> QED
    BY <1>6, <2>1, <2>2
<1> QED
  BY <1>2, <1>3, <1>4, <1>5, <1>7

\* No buffer of the size asked for exists yet: nothing of it is among the objects.
LEMMA BufferIsNew ==
  ASSUME NEW r \in Resources, NEW k, NEW s \in Slots, NEW n,
         s \in DOMAIN r.size => n # r.size[s]
  PROVE  (Base(k) \cup ObjectsOf(r)) \cap Buffer(s, n) = {}
<1>1. \A o \in Base(k) : o[1] = "context"
  BY DEF Base
<1>2. \A o \in Buffer(s, n) : o[1] = s /\ o[3] = n /\ s # "context" /\ s # "resources"
  BY DEF Slots, Buffer
<1>3. Pool[1] = "resources" /\ Command[1] = "resources"
  BY DEF Pool, Command
<1>4. \A t \in DOMAIN r.size : \A o \in Buffer(t, r.size[t]) : o[1] = t /\ o[3] = r.size[t]
  BY DEF Buffer
<1> QED
  BY <1>1, <1>2, <1>3, <1>4, ObjectsAre

\* A call of `buffer` that fails has destroyed what it made, and only that.
LEMMA FailedBufferLeavesNothing ==
  ASSUME NEW s, NEW n, BufferFails(s, n), live \cap Buffer(s, n) = {}
  PROVE  live' = live
<1>1. <<s, "buffer", n>> \notin live /\ <<s, "memory", n>> \notin live
  BY DEF Buffer
<1>2. ASSUME NEW memory \in {{}, {<<s, "memory", n>>}},
             live' = (live \cup {<<s, "buffer", n>>} \cup memory) \ FailedBuffer(s, n, memory)
      PROVE  live' = live
  BY <1>1, <1>2 DEF FailedBuffer
<1> QED
  BY <1>2 DEF BufferFails

\* Every job needs some room in every buffer.
LEMMA RequiredIsNat == ASSUME NEW j \in Jobs, NEW s \in Slots PROVE Required(j)[s] \in Nat
BY VulkanAssumption DEF Required, Slots

-----------------------------------------------------------------------------
(* The types, and who holds the resources. *)

LEMMA InitHolders == Init => HoldersInv
<1> SUFFICES ASSUME Init PROVE HoldersInv
  OBVIOUS
<1>1. used \in Resources /\ DOMAIN used.size \subseteq Slots
  BY NothingIsResources, ResourceParts DEF Init
<1>2. TypeOK
  BY <1>1 DEF Init, TypeOK, Phases, Executing
<1> QED
  BY <1>1, <1>2 DEF Init, HoldersInv

\* A queue family chosen exists.
LEMMA ChosenExists ==
  ASSUME NEW m \in Machines
  PROVE  UNION {{i} \X ChooseQueue(m[i].queues) : i \in Chosen(m)}
           \subseteq {d \in (DOMAIN m) \X Nat : d[2] \in DOMAIN m[d[1]].queues}
<1>1. \A i \in DOMAIN m : DOMAIN m[i].queues \subseteq Nat
  <2> DEFINE Q == Seq(SUBSET {"graphics", "compute", "transfer"})
             D == [kind : STRING, queues : Q]
  <2>1. m \in Seq(D)
    BY MachineAssumption
  <2>2. \A i \in DOMAIN m : m[i].queues \in Q
    <3>1. \A d \in D : d.queues \in Q
      OBVIOUS
    <3> HIDE DEF Q, D
    <3>2. \A i \in DOMAIN m : m[i] \in D
      BY <2>1
    <3> QED
      BY <3>1, <3>2
  <2> QED
    BY <2>2
<1>2. Chosen(m) \subseteq DOMAIN m
  BY DEF Chosen, Usable
<1>3. \A i : ChooseQueue(m[i].queues) \subseteq DOMAIN m[i].queues
  BY DEF ChooseQueue
<1> QED
  BY <1>1, <1>2, <1>3

\* What the resources put back are.
LEMMA PutBackHolders ==
  ASSUME HoldersInv, phase \in {"grow", "record", "submit", "wait"}, NEW ok, PutBack(ok)
  PROVE  /\ kept' = {used} /\ used' = Nothing /\ phase' = "free"
         /\ used' \in Resources /\ kept' \subseteq Resources
         /\ \A r, q \in kept' : r = q
         /\ \A r \in kept' : Complete(r) /\ r.size \in [Slots -> Nat]
         /\ DOMAIN used'.size \subseteq Slots
<1>1. Complete(used) /\ used \in Resources
  BY DEF HoldersInv, TypeOK
<1>2. used.size \in [Slots -> Nat]
  BY <1>1, ResourceParts DEF Complete
<1>3. Nothing \in Resources /\ DOMAIN Nothing.size \subseteq Slots
  BY NothingIsResources, ResourceParts
<1> QED
  BY <1>1, <1>2, <1>3 DEF PutBack

\* A buffer that is replaced becomes larger, and the resources stay complete.
LEMMA GrownIsLarger ==
  ASSUME HoldersInv, phase = "grow", NEW s \in Slots, NEW j \in job, IsFirst(s, TooSmall)
  PROVE  /\ Complete(used) /\ used \in Resources /\ s \in DOMAIN used.size
         /\ Required(j)[s] \in Nat /\ job \subseteq Jobs
         /\ (\A k \in job : k = j) => Required(j)[s] # used.size[s]
<1>1. Complete(used) /\ used \in Resources /\ j \in Jobs /\ job \subseteq Jobs
  BY DEF HoldersInv, TypeOK
<1>2. s \in DOMAIN used.size /\ used.size[s] \in Nat
  BY <1>1, ResourceParts DEF Complete
<1>3. Required(j)[s] \in Nat
  BY <1>1, RequiredIsNat
<1>4. s \in TooSmall
  BY DEF IsFirst
<1>5. \E k \in job : used.size[s] < Required(k)[s]
  BY <1>4 DEF TooSmall, Insufficient
<1> QED
  BY <1>1, <1>2, <1>3, <1>5

\* What no execution changes stays typed.
LEMMA SelectionKept ==
  ASSUME TypeOK, UNCHANGED selection, phase' \in Phases,
         job' \in SUBSET Jobs, used' \in Resources,
         \A r \in kept' : Complete(r) /\ r.size \in [Slots -> Nat],
         phase' \in {"grow", "record", "submit", "wait"} => Complete(used'),
         Executing' => kept' = {}, ~Executing' => used' = Nothing,
         pending' \subseteq [bound: SUBSET [Slots -> Nat], job: SUBSET Jobs],
         lost' \in BOOLEAN, forgotten' \in BOOLEAN
  PROVE  TypeOK'
<1>1. DOMAIN used'.size \subseteq Slots
  BY ResourceParts
<1> QED
  BY <1>1 DEF TypeOK, selection, Complete

\* Every step preserves the types and who holds the resources.
LEMMA HoldersStep == HoldersInv /\ BindingsFit /\ [Next]_vars => HoldersInv'
<1> SUFFICES ASSUME HoldersInv, BindingsFit, [Next]_vars PROVE HoldersInv'
  OBVIOUS
<1> USE DEF HoldersInv
<1> DEFINE Busy == {"create", "cleanup", "grow", "record", "submit", "wait"}
<1>0. /\ TypeOK /\ used \in Resources /\ Nothing \in Resources
      /\ pending \subseteq [bound: SUBSET [Slots -> Nat], job: SUBSET Jobs]
      /\ \A r \in kept : Complete(r) /\ r.size \in [Slots -> Nat]
      /\ job \in SUBSET Jobs /\ lost \in BOOLEAN /\ forgotten \in BOOLEAN
      /\ phase \in Phases
      /\ phase \in Busy => kept = {}
      /\ phase \notin Busy => used = Nothing
      /\ phase \in {"grow", "record", "submit", "wait"} => Complete(used)
  BY NothingIsResources DEF TypeOK, Executing
<1>1. CASE Initialise
  <2>1. /\ machine' = machine /\ choice' = choice
        /\ device' = UNION {{i} \X ChooseQueue(machine[i].queues) : i \in Chosen(machine)}
        /\ phase' \in {"free", "unavailable"}
        /\ \E vulkan, pool \in BOOLEAN : backend' = Selected(choice, vulkan, pool)
        /\ UNCHANGED <<job, kept, used, pending, lost, forgotten>>
        /\ kept = {} /\ used = Nothing
    BY <1>0, <1>1 DEF Initialise, Executing
  <2>2. device' \subseteq {d \in (DOMAIN machine) \X Nat : d[2] \in DOMAIN machine[d[1]].queues}
    BY <1>0, <2>1, ChosenExists DEF TypeOK
  <2>3. backend' \in {"none", "noPool", "cpu", "vulkan"}
    BY <1>0, <2>1 DEF Selected, TypeOK, BackendChoices
  <2> QED
    BY <1>0, <2>1, <2>2, <2>3 DEF TypeOK, Phases, Executing
<1>2. ASSUME NEW j \in Jobs, Begin(j) PROVE HoldersInv'
  <2>1. /\ phase = "free" /\ job' = {j} /\ kept' = {} /\ UNCHANGED <<selection, pending, lost, forgotten>>
        /\ phase' \in {"create", "grow"} /\ used = Nothing
        /\ phase' = "create" => used' = used
        /\ phase' = "grow" => used' \in kept
    BY <1>0, <1>2 DEF Begin, Take, Executing
  <2>2. used' \in Resources /\ (phase' = "grow" => Complete(used'))
    BY <1>0, <2>1
  <2>3. Executing' /\ phase' \in Phases
    BY <2>1 DEF Executing, Phases
  <2>4. TypeOK'
    BY <1>0, <2>1, <2>2, <2>3, SelectionKept
  <2> QED
    BY <2>1, <2>2, <2>4
<1>3. CASE CreatePool
  <2>1. /\ UNCHANGED <<selection, job, kept, pending, lost, forgotten>> /\ kept = {}
        /\ \/ phase' = "create" /\ used' = [used EXCEPT !.pool = TRUE]
           \/ phase' = "free" /\ used' = Nothing
    <3>1. phase = "create" /\ kept = {} /\ (~used.pool => used = Nothing)
      BY <1>0, <1>3 DEF CreatePool, Executing
    <3> QED
      BY <1>3, <3>1 DEF CreatePool
  <2>2. used' \in Resources /\ (phase' = "create" => used'.pool)
    BY <1>0, <2>1, AddPool
  <2>3. phase' \in Phases /\ (Executing' <=> phase' = "create")
    BY <2>1 DEF Executing, Phases
  <2>4. TypeOK'
    BY <1>0, <2>1, <2>2, <2>3, SelectionKept
  <2> QED
    BY <2>1, <2>2, <2>4
<1>4. CASE AllocateCommand
  <2>1. /\ UNCHANGED <<selection, job, kept, pending, lost, forgotten>> /\ kept = {}
        /\ used.pool
        /\ \/ phase' = "create" /\ used' = [used EXCEPT !.command = TRUE]
           \/ phase' = "cleanup" /\ used' = used
    <3>1. phase = "create" /\ kept = {}
      BY <1>0, <1>4 DEF AllocateCommand, Executing
    <3> QED
      BY <1>4, <3>1 DEF AllocateCommand
  <2>2. used' \in Resources /\ used'.pool
    BY <1>0, <2>1, AddCommand
  <2>3. phase' \in Phases /\ Executing'
    BY <2>1 DEF Executing, Phases
  <2>4. TypeOK'
    BY <1>0, <2>1, <2>2, <2>3, SelectionKept
  <2> QED
    BY <2>1, <2>2, <2>4
<1>5. ASSUME NEW s \in Slots, CreateBuffer(s) PROVE HoldersInv'
  <2>1. PICK j \in job :
        /\ UNCHANGED <<selection, job, kept, pending, lost, forgotten>> /\ kept = {}
        /\ used.command /\ phase = "create" /\ s \in Slots \ DOMAIN used.size
        /\ \/ /\ phase' = IF Complete(used') THEN "grow" ELSE "create"
              /\ used' = [used EXCEPT !.size = [q \in DOMAIN used.size \cup {s} |->
                                                  IF q = s THEN Required(j)[s] ELSE used.size[q]]]
           \/ phase' = "cleanup" /\ used' = used
    <3>1. phase = "create" /\ kept = {}
      BY <1>0, <1>5 DEF CreateBuffer, Executing
    <3>2. s \in Slots \ DOMAIN used.size
      BY <1>5 DEF CreateBuffer, IsFirst
    <3> QED
      BY <1>5, <3>1, <3>2 DEF CreateBuffer
  <2>2. used.pool
    BY <2>1 DEF Nothing
  <2>3. used' \in Resources /\ used'.pool
    <3>1. Required(j)[s] \in Nat
      BY <1>0, RequiredIsNat
    <3> QED
      BY <1>0, <2>1, <2>2, <3>1, AddBuffer
  <2>4. phase' \in Phases /\ Executing' /\ (phase' = "grow" => Complete(used'))
    BY <2>1 DEF Executing, Phases
  <2>5. TypeOK'
    BY <1>0, <2>1, <2>3, <2>4, SelectionKept
  <2> QED
    BY <2>1, <2>3, <2>5
<1>6. CASE Cleanup
  <2>1. /\ UNCHANGED <<selection, job, kept, pending, lost, forgotten>> /\ kept = {}
        /\ used' = Nothing /\ phase' = "free"
    <3>1. phase = "cleanup" /\ kept = {}
      BY <1>0, <1>6 DEF Cleanup, Executing
    <3> QED
      BY <1>6, <3>1 DEF Cleanup
  <2>2. TypeOK'
    BY <1>0, <2>1, SelectionKept DEF Executing, Phases
  <2> QED
    BY <1>0, <2>1, <2>2
<1>7. ASSUME NEW ok, PutBack(ok), phase \in {"grow", "record", "submit", "wait"},
             UNCHANGED <<selection, job>>,
             pending' \subseteq [bound: SUBSET [Slots -> Nat], job: SUBSET Jobs],
             lost' \in BOOLEAN, forgotten' \in BOOLEAN
      PROVE  HoldersInv'
  <2>1. /\ kept' = {used} /\ used' = Nothing /\ phase' = "free"
        /\ used' \in Resources /\ kept' \subseteq Resources
        /\ \A r, q \in kept' : r = q
        /\ \A r \in kept' : Complete(r) /\ r.size \in [Slots -> Nat]
    BY <1>7, PutBackHolders
  <2>2. TypeOK'
    BY <1>0, <1>7, <2>1, SelectionKept DEF Executing, Phases
  <2> QED
    BY <1>0, <1>7, <2>1, <2>2
<1>8. ASSUME NEW s \in Slots, GrowBuffer(s) PROVE HoldersInv'
  <2>1. PICK j \in job :
        /\ UNCHANGED <<selection, job, pending, lost, forgotten>>
        /\ phase = "grow" /\ IsFirst(s, TooSmall)
        /\ \/ UNCHANGED <<phase, kept>> /\ used' = [used EXCEPT !.size[s] = Required(j)[s]]
           \/ PutBack(FALSE)
    BY <1>8 DEF GrowBuffer
  <2>2. CASE PutBack(FALSE)
    BY <1>0, <1>7, <2>1, <2>2
  <2>3. CASE UNCHANGED <<phase, kept>> /\ used' = [used EXCEPT !.size[s] = Required(j)[s]]
    <3>1. /\ Complete(used) /\ s \in DOMAIN used.size
          /\ Required(j)[s] \in Nat /\ Required(j)[s] # used.size[s]
      BY <1>0, <2>1, GrownIsLarger
    <3>2. used' \in Resources /\ Complete(used')
      BY <1>0, <2>3, <3>1, ReplaceBuffer DEF Complete
    <3>3. Executing' /\ kept' = {} /\ phase' = "grow" /\ phase' \in Phases
      BY <1>0, <2>1, <2>3 DEF Executing, Phases
    <3>4. TypeOK'
      BY <1>0, <2>1, <2>3, <3>2, <3>3, SelectionKept
    <3> QED
      BY <2>1, <3>2, <3>3, <3>4
  <2> QED
    BY <2>1, <2>2, <2>3
<1>9. CASE WriteInputs
  <2>1. /\ UNCHANGED <<selection, job, kept, used, pending, lost, forgotten>>
        /\ phase = "grow" /\ phase' = "record"
    BY <1>9 DEF WriteInputs
  <2>2. TypeOK'
    BY <1>0, <2>1, SelectionKept DEF Executing, Phases
  <2> QED
    BY <2>1, <2>2
<1>10. CASE Record
  <2>1. /\ UNCHANGED <<selection, job, pending, lost, forgotten>> /\ phase = "record"
        /\ \/ phase' = "submit" /\ UNCHANGED <<kept, used>>
           \/ PutBack(FALSE)
    BY <1>10 DEF Record
  <2>2. CASE phase' = "submit" /\ UNCHANGED <<kept, used>>
    <3>1. TypeOK'
      BY <1>0, <2>1, <2>2, SelectionKept DEF Executing, Phases
    <3> QED
      BY <2>1, <2>2, <3>1
  <2> QED
    BY <1>0, <1>7, <2>1, <2>2
<1>11. CASE Submit
  <2>1. /\ UNCHANGED <<selection, job, lost, forgotten>> /\ phase = "submit"
        /\ \/ /\ pending' = pending \cup {[bound |-> bound, job |-> job]}
              /\ phase' = "wait" /\ UNCHANGED <<kept, used>>
           \/ PutBack(FALSE) /\ UNCHANGED pending
    BY <1>11 DEF Submit
  <2>2. CASE /\ pending' = pending \cup {[bound |-> bound, job |-> job]}
             /\ phase' = "wait" /\ UNCHANGED <<kept, used>>
    <3>1. bound \in SUBSET [Slots -> Nat]
      BY <1>0, <2>1, ResourceParts DEF BindingsFit, Complete
    <3>2. pending' \subseteq [bound: SUBSET [Slots -> Nat], job: SUBSET Jobs]
      BY <1>0, <2>2, <3>1
    <3>3. TypeOK'
      BY <1>0, <2>1, <2>2, <3>2, SelectionKept DEF Executing, Phases
    <3> QED
      BY <2>1, <2>2, <3>3
  <2> QED
    BY <1>0, <1>7, <2>1, <2>2
<1>12. CASE Read
  BY <1>0, <1>7, <1>12 DEF Read
<1>13. ASSUME NEW error \in WaitErrors, WaitFails(error) PROVE HoldersInv'
  <2>1. pending' \subseteq pending /\ lost' \in BOOLEAN /\ forgotten' \in BOOLEAN
    BY <1>0, <1>13 DEF WaitFails
  <2> QED
    BY <1>0, <1>7, <1>13, <2>1 DEF WaitFails
<1>14. ASSUME NEW p \in pending, Dispatch(p) PROVE HoldersInv'
  <2>1. UNCHANGED <<selection, phase, job, kept, used, lost, forgotten>> /\ pending' \subseteq pending
    BY <1>14 DEF Dispatch, host
  <2>2. phase' \in Phases /\ (Executing' => kept' = {}) /\ (~Executing' => used' = Nothing)
    BY <1>0, <2>1 DEF Executing
  <2>3. TypeOK'
    BY <1>0, <2>1, <2>2, SelectionKept
  <2> QED
    BY <2>1, <2>3
<1>15. CASE Drop
  <2>1. /\ UNCHANGED <<selection, job, used, lost, forgotten>> /\ phase = "free"
        /\ kept' = {} /\ pending' \subseteq pending /\ phase' = "dropped"
    BY <1>15 DEF Drop
  <2>2. TypeOK'
    BY <1>0, <2>1, SelectionKept DEF Executing, Phases
  <2> QED
    BY <2>1, <2>2
<1>16. CASE UNCHANGED vars
  <2>1. UNCHANGED <<selection, phase, job, kept, used, pending, lost, forgotten>>
    BY <1>16 DEF vars
  <2>2. phase' \in Phases /\ (Executing' => kept' = {}) /\ (~Executing' => used' = Nothing)
    BY <1>0, <2>1 DEF Executing
  <2>3. TypeOK'
    BY <1>0, <2>1, <2>2, SelectionKept
  <2> QED
    BY <2>1, <2>3
<1> QED
  BY <1>1, <1>2, <1>3, <1>4, <1>5, <1>6, <1>8, <1>9, <1>10, <1>11, <1>12, <1>13, <1>14,
     <1>15, <1>16 DEF Next, Stopped

-----------------------------------------------------------------------------
(* The objects alive are the ones owned. *)

\* Who owns what, by where the resources are.
LEMMA OwnedObjects ==
  ASSUME HoldersInv, phase \notin {"new", "dropped"}
  PROVE  /\ kept = {} => Owned = Base(Len(BaseOrder)) \cup ObjectsOf(used)
         /\ \A r \in kept : Owned = Base(Len(BaseOrder)) \cup ObjectsOf(r) \cup ObjectsOf(used)
         /\ used = Nothing => ObjectsOf(used) = {}
<1> DEFINE K == UNION {ObjectsOf(r) : r \in kept}
<1>1. \A r \in kept : kept = {r}
  BY DEF HoldersInv
<1>2. \A r \in kept : K = ObjectsOf(r)
  BY <1>1
<1>3. kept = {} => K = {}
  OBVIOUS
<1>4. Owned = Base(Len(BaseOrder)) \cup ObjectsOf(used) \cup K
  BY DEF Owned
<1>5. used = Nothing => ObjectsOf(used) = {}
  BY NothingIsResources
<1> HIDE DEF K
<1>6. \A r \in kept : Owned = Base(Len(BaseOrder)) \cup ObjectsOf(r) \cup ObjectsOf(used)
  BY <1>2, <1>4
<1>7. kept = {} => Owned = Base(Len(BaseOrder)) \cup ObjectsOf(used)
  BY <1>3, <1>4
<1> QED
  BY <1>5, <1>6, <1>7

\* The same after a step.
LEMMA OwnedNext ==
  ASSUME phase' \notin {"new", "dropped"}
  PROVE  /\ kept' = {} => Owned' = Base(Len(BaseOrder)) \cup ObjectsOf(used')
         /\ \A r : kept' = {r} => Owned' = Base(Len(BaseOrder)) \cup ObjectsOf(r) \cup ObjectsOf(used')
         /\ used' = Nothing => ObjectsOf(used') = {}
<1> DEFINE K == UNION {ObjectsOf(r) : r \in kept'}
<1>1. Owned' = Base(Len(BaseOrder)) \cup ObjectsOf(used') \cup K
  BY DEF Owned
<1>2. kept' = {} => K = {}
  OBVIOUS
<1>3. \A r : kept' = {r} => K = ObjectsOf(r)
  OBVIOUS
<1>4. used' = Nothing => ObjectsOf(used') = {}
  BY NothingIsResources
<1> HIDE DEF K
<1>5. \A r : kept' = {r} => Owned' = Base(Len(BaseOrder)) \cup ObjectsOf(r) \cup ObjectsOf(used')
  BY <1>1, <1>3
<1>6. kept' = {} => Owned' = Base(Len(BaseOrder)) \cup ObjectsOf(used')
  BY <1>1, <1>2
<1> QED
  BY <1>4, <1>5, <1>6

\* Where no object is made or destroyed, the resources may still change hands.
LEMMA PutBackOwned ==
  ASSUME HoldersInv, LiveIsOwned, phase \in {"grow", "record", "submit", "wait"},
         NEW ok, PutBack(ok), live' = live
  PROVE  LiveIsOwned'
<1>1. kept = {}
  BY DEF HoldersInv, TypeOK, Executing
<1>2. live = Base(Len(BaseOrder)) \cup ObjectsOf(used)
  BY <1>1, OwnedObjects DEF LiveIsOwned
<1>3. kept' = {used} /\ used' = Nothing /\ phase' = "free"
  BY DEF PutBack
<1> QED
  BY <1>2, <1>3, OwnedNext DEF LiveIsOwned

\* Whichever call fails, no object leaks and none outlives its owner.
LEMMA LiveStep == HoldersInv /\ LiveIsOwned /\ [Next]_vars => LiveIsOwned'
<1> SUFFICES ASSUME HoldersInv, LiveIsOwned, [Next]_vars PROVE LiveIsOwned'
  OBVIOUS
<1> DEFINE B == Base(Len(BaseOrder))
           Busy == {"create", "cleanup", "grow", "record", "submit", "wait"}
<1>0. /\ used \in Resources /\ \A r, q \in kept : r = q
      /\ phase = "new" => kept = {}
      /\ phase = "create" => used = Nothing \/ used.pool
      /\ phase \in Busy => kept = {}
      /\ phase \notin Busy => used = Nothing
      /\ phase \in Busy => live = B \cup ObjectsOf(used)
  <2>1. phase \in Busy => kept = {}
    BY DEF HoldersInv, TypeOK, Executing
  <2>2. phase \in Busy => live = B \cup ObjectsOf(used)
    BY <2>1, OwnedObjects DEF LiveIsOwned
  <2> QED
    BY <2>1, <2>2 DEF HoldersInv, TypeOK, Executing
<1>1. CASE Initialise
  <2>1. PICK k \in 0..Len(BaseOrder) :
           live' = Base(k) /\ phase' = IF k = Len(BaseOrder) THEN "free" ELSE "unavailable"
    BY <1>1 DEF Initialise
  <2>2. kept' = {} /\ used' = Nothing
    BY <1>0, <1>1 DEF Initialise
  <2> QED
    BY <2>1, <2>2, OwnedNext DEF LiveIsOwned
<1>2. ASSUME NEW j \in Jobs, Begin(j) PROVE LiveIsOwned'
  <2>1. phase = "free" /\ used = Nothing /\ live' = live
    BY <1>0, <1>2 DEF Begin
  <2>2. CASE kept = {} /\ phase' = "create" /\ UNCHANGED <<kept, used>>
    BY <2>1, <2>2, OwnedObjects, OwnedNext DEF LiveIsOwned
  <2>3. ASSUME NEW r \in kept, phase' = "grow", used' = r, kept' = {} PROVE LiveIsOwned'
    <3>1. live = B \cup ObjectsOf(r)
      BY <2>1, OwnedObjects DEF LiveIsOwned
    <3> QED
      BY <2>1, <2>3, <3>1, OwnedNext DEF LiveIsOwned
  <2> QED
    BY <1>2, <2>2, <2>3 DEF Begin, Take
<1>3. CASE CreatePool
  <2>1. /\ phase = "create" /\ ~used.pool /\ kept' = {}
        /\ \/ /\ used' = [used EXCEPT !.pool = TRUE] /\ live' = live \cup {Pool} /\ phase' = "create"
           \/ phase' = "free" /\ UNCHANGED <<used, live>>
    BY <1>0, <1>3 DEF CreatePool
  <2>2. ObjectsOf([used EXCEPT !.pool = TRUE]) = ObjectsOf(used) \cup {Pool}
    BY <1>0, AddPool
  <2> QED
    BY <1>0, <2>1, <2>2, OwnedNext DEF LiveIsOwned
<1>4. CASE AllocateCommand
  <2>1. /\ phase = "create" /\ kept' = {}
        /\ \/ /\ used' = [used EXCEPT !.command = TRUE] /\ live' = live \cup {Command}
              /\ phase' = "create"
           \/ phase' = "cleanup" /\ UNCHANGED <<used, live>>
    BY <1>0, <1>4 DEF AllocateCommand
  <2>2. ObjectsOf([used EXCEPT !.command = TRUE]) = ObjectsOf(used) \cup {Command}
    BY <1>0, AddCommand
  <2> QED
    BY <1>0, <2>1, <2>2, OwnedNext DEF LiveIsOwned
<1>5. ASSUME NEW s \in Slots, CreateBuffer(s) PROVE LiveIsOwned'
  <2>1. PICK j \in job :
        /\ phase = "create" /\ kept' = {} /\ s \in Slots \ DOMAIN used.size
        /\ \/ /\ live' = live \cup Buffer(s, Required(j)[s])
              /\ used' = [used EXCEPT !.size = [q \in DOMAIN used.size \cup {s} |->
                                                  IF q = s THEN Required(j)[s] ELSE used.size[q]]]
              /\ phase' = IF Complete(used') THEN "grow" ELSE "create"
           \/ /\ BufferFails(s, Required(j)[s])
              /\ phase' = "cleanup" /\ UNCHANGED used
    BY <1>0, <1>5 DEF CreateBuffer, IsFirst
  <2>2. Required(j)[s] \in Nat
    BY RequiredIsNat DEF HoldersInv, TypeOK
  <2>3. CASE /\ live' = live \cup Buffer(s, Required(j)[s])
             /\ used' = [used EXCEPT !.size = [q \in DOMAIN used.size \cup {s} |->
                                                 IF q = s THEN Required(j)[s] ELSE used.size[q]]]
             /\ phase' = IF Complete(used') THEN "grow" ELSE "create"
    <3>1. ObjectsOf(used') = ObjectsOf(used) \cup Buffer(s, Required(j)[s])
      <4> DEFINE n == Required(j)[s]
      <4>1. s \in Slots \ DOMAIN used.size /\ n \in Nat /\ used \in Resources
        BY <1>0, <2>1, <2>2
      <4>2. used' = [used EXCEPT !.size =
                      [t \in DOMAIN used.size \cup {s} |-> IF t = s THEN n ELSE used.size[t]]]
        BY <2>3
      <4> HIDE DEF n
      <4>3. ObjectsOf(used') = ObjectsOf(used) \cup Buffer(s, n)
        BY <4>1, <4>2, AddBuffer
      <4> QED
        BY <4>3 DEF n
    <3>2. phase' \in {"grow", "create"}
      BY <2>3
    <3> QED
      BY <1>0, <2>1, <2>3, <3>1, <3>2, OwnedNext DEF LiveIsOwned
  <2>4. CASE BufferFails(s, Required(j)[s]) /\ phase' = "cleanup" /\ UNCHANGED used
    <3>1. live \cap Buffer(s, Required(j)[s]) = {}
      BY <1>0, <2>1, BufferIsNew
    <3>2. live' = live
      BY <2>4, <3>1, FailedBufferLeavesNothing
    <3> QED
      BY <1>0, <2>1, <2>4, <3>2, OwnedNext DEF LiveIsOwned
  <2> QED
    BY <2>1, <2>3, <2>4
<1>6. CASE Cleanup
  <2>1. /\ phase = "cleanup" /\ kept' = {} /\ used' = Nothing /\ phase' = "free"
        /\ live' = live \ ObjectsOf(used)
    BY <1>0, <1>6 DEF Cleanup, Released
  <2>2. B \cap ObjectsOf(used) = {}
    BY <1>0, ContextApart
  <2>3. live' = B
    BY <1>0, <2>1, <2>2
  <2> QED
    BY <2>1, <2>3, OwnedNext DEF LiveIsOwned
<1>7. ASSUME NEW s \in Slots, GrowBuffer(s) PROVE LiveIsOwned'
  <2>1. PICK j \in job :
        /\ phase = "grow" /\ IsFirst(s, TooSmall)
        /\ \/ /\ live' = (live \cup Buffer(s, Required(j)[s])) \ Buffer(s, used.size[s])
              /\ used' = [used EXCEPT !.size[s] = Required(j)[s]]
              /\ UNCHANGED <<phase, kept>>
           \/ BufferFails(s, Required(j)[s]) /\ PutBack(FALSE)
    BY <1>7 DEF GrowBuffer
  <2>2. CASE /\ live' = (live \cup Buffer(s, Required(j)[s])) \ Buffer(s, used.size[s])
             /\ used' = [used EXCEPT !.size[s] = Required(j)[s]]
             /\ UNCHANGED <<phase, kept>>
    <3>1. /\ s \in DOMAIN used.size /\ Required(j)[s] \in Nat /\ Required(j)[s] # used.size[s]
      BY <2>1, GrownIsLarger DEF HoldersInv
    <3>2. /\ Buffer(s, used.size[s]) \subseteq ObjectsOf(used)
          /\ ObjectsOf(used') = (ObjectsOf(used) \cup Buffer(s, Required(j)[s])) \ Buffer(s, used.size[s])
      BY <1>0, <2>2, <3>1, ReplaceBuffer
    <3>3. B \cap ObjectsOf(used) = {}
      BY <1>0, ContextApart
    <3>4. live' = B \cup ObjectsOf(used')
      BY <1>0, <2>1, <2>2, <3>2, <3>3
    <3> QED
      BY <1>0, <2>1, <2>2, <3>4, OwnedNext DEF LiveIsOwned
  <2>3. CASE BufferFails(s, Required(j)[s]) /\ PutBack(FALSE)
    <3>1. s \in DOMAIN used.size /\ Required(j)[s] # used.size[s]
      BY <2>1, GrownIsLarger DEF HoldersInv
    <3>2. live \cap Buffer(s, Required(j)[s]) = {}
      BY <1>0, <2>1, <3>1, BufferIsNew
    <3>3. live' = live
      BY <2>3, <3>2, FailedBufferLeavesNothing
    <3> QED
      BY <2>1, <2>3, <3>3, PutBackOwned
  <2> QED
    BY <2>1, <2>2, <2>3
<1>8. CASE WriteInputs
  BY <1>0, <1>8, OwnedNext DEF WriteInputs, LiveIsOwned
<1>9. CASE Record
  <2>1. /\ phase = "record" /\ live' = live
        /\ \/ phase' = "submit" /\ UNCHANGED <<kept, used>>
           \/ PutBack(FALSE)
    BY <1>9 DEF Record
  <2> QED
    BY <1>0, <2>1, PutBackOwned, OwnedNext DEF LiveIsOwned
<1>10. CASE Submit
  <2>1. /\ phase = "submit" /\ live' = live
        /\ \/ phase' = "wait" /\ UNCHANGED <<kept, used>>
           \/ PutBack(FALSE)
    BY <1>10 DEF Submit
  <2> QED
    BY <1>0, <2>1, PutBackOwned, OwnedNext DEF LiveIsOwned
<1>11. CASE Read
  BY <1>11, PutBackOwned DEF Read
<1>12. ASSUME NEW error \in WaitErrors, WaitFails(error) PROVE LiveIsOwned'
  BY <1>12, PutBackOwned DEF WaitFails
<1>13. ASSUME NEW p \in pending, Dispatch(p) PROVE LiveIsOwned'
  BY <1>13 DEF Dispatch, host, LiveIsOwned, Owned
<1>14. CASE Drop
  <2>1. /\ phase = "free" /\ phase' = "dropped" /\ kept' = {} /\ used' = Nothing /\ used = Nothing
        /\ live' = live \ (B \cup UNION {ObjectsOf(r) : r \in kept})
    BY <1>0, <1>14 DEF Drop
  <2>2. live = B \cup UNION {ObjectsOf(r) : r \in kept}
    BY <2>1, NothingIsResources DEF LiveIsOwned, Owned
  <2>3. Owned' = {}
    BY <2>1, NothingIsResources DEF Owned
  <2> QED
    BY <2>1, <2>2, <2>3 DEF LiveIsOwned
<1>15. CASE UNCHANGED vars
  BY <1>15 DEF vars, LiveIsOwned, Owned
<1> QED
  BY <1>1, <1>2, <1>3, <1>4, <1>5, <1>6, <1>7, <1>8, <1>9, <1>10, <1>11, <1>12, <1>13, <1>14,
     <1>15 DEF Next, Stopped

-----------------------------------------------------------------------------
(* The buffers the device is told to use. *)

\* If no buffer is too small, all are large enough for every job at hand.
LEMMA NoneTooSmall ==
  ASSUME HoldersInv, Complete(used), TooSmall = {}
  PROVE  \A j \in job, s \in Slots : used.size[s] >= Required(j)[s]
<1> SUFFICES ASSUME NEW j \in job, NEW s \in Slots PROVE used.size[s] >= Required(j)[s]
  OBVIOUS
<1>1. ~(used.size[s] < Required(j)[s])
  BY DEF TooSmall, Insufficient
<1>2. used.size[s] \in Nat
  BY ResourceParts DEF HoldersInv, Complete
<1>3. Required(j)[s] \in Nat
  BY RequiredIsNat DEF HoldersInv, TypeOK
<1> QED
  BY <1>1, <1>2, <1>3

\* The descriptors are written once no buffer is replaced any more.
LEMMA BindingsStep == HoldersInv /\ BindingsFit /\ [Next]_vars => BindingsFit'
<1> SUFFICES ASSUME HoldersInv, BindingsFit, [Next]_vars,
                    phase' \in {"record", "submit", "wait"}
             PROVE  /\ bound' = {used'.size}
                    /\ \A j \in job', s \in Slots : used'.size[s] >= Required(j)[s]
  BY DEF BindingsFit
<1> DEFINE Same == UNCHANGED <<job, used, bound>> /\ phase \in {"record", "submit", "wait"}
<1>1. CASE Same
  BY <1>1 DEF BindingsFit
<1>2. CASE WriteInputs
  <2>1. phase = "grow" /\ TooSmall = {} /\ bound' = {used.size} /\ UNCHANGED <<job, used>>
    BY <1>2 DEF WriteInputs, Bind
  <2>2. Complete(used)
    BY <2>1 DEF HoldersInv, TypeOK
  <2> QED
    BY <2>1, <2>2, NoneTooSmall
<1>3. CASE Initialise \/ (\E j \in Jobs : Begin(j)) \/ CreatePool \/ AllocateCommand
           \/ (\E s \in Slots : CreateBuffer(s)) \/ Cleanup \/ Read \/ Drop
  BY <1>3 DEF Initialise, Begin, CreatePool, AllocateCommand, CreateBuffer, Cleanup, Read,
     PutBack, Drop
<1>4. CASE \E s \in Slots : GrowBuffer(s)
  BY <1>4 DEF GrowBuffer, PutBack
<1>5. CASE Record
  BY <1>1, <1>5 DEF Record, PutBack
<1>6. CASE Submit
  BY <1>1, <1>6 DEF Submit, PutBack
<1>7. CASE \E error \in WaitErrors : WaitFails(error)
  BY <1>7 DEF WaitFails, PutBack
<1>8. CASE \E p \in pending : Dispatch(p)
  BY <1>1, <1>8 DEF Dispatch, host
<1>9. CASE UNCHANGED vars
  BY <1>1, <1>9 DEF vars
<1> QED
  BY <1>2, <1>3, <1>4, <1>5, <1>6, <1>7, <1>8, <1>9 DEF Next, Stopped

-----------------------------------------------------------------------------
(* The powers returned. *)

LEMMA InitFresh == Init => FreshInv
BY DEF Init, FreshInv, FreshResult, Empty

\* Steps that touch neither the device nor the result.
LEMMA QuietStep ==
  ASSUME FreshInv, data' = [s \in Slots |-> data'[s]],
         phase \notin {"record", "submit", "wait"}, phase' \notin {"record", "submit", "wait"},
         UNCHANGED <<pending, forgotten>>, result' \subseteq result
  PROVE  FreshInv'
BY DEF FreshInv, FreshResult

\* Powers are those of the job at hand.
LEMMA FreshStep == HoldersInv /\ BindingsFit /\ FreshInv /\ [Next]_vars => FreshInv'
<1> SUFFICES ASSUME HoldersInv, BindingsFit, FreshInv, [Next]_vars PROVE FreshInv'
  OBVIOUS
<1>0. data = [s \in Slots |-> data[s]]
  BY DEF FreshInv
<1>1. CASE Initialise
  BY <1>0, <1>1, QuietStep DEF Initialise
<1>2. ASSUME NEW j \in Jobs, Begin(j) PROVE FreshInv'
  <2>1. /\ phase = "free" /\ phase' \in {"create", "grow"} /\ data' = data /\ result' = {}
        /\ UNCHANGED <<pending, forgotten>>
    BY <1>2 DEF Begin
  <2> QED
    BY <1>0, <2>1, QuietStep
<1>3. CASE CreatePool
  BY <1>0, <1>3, QuietStep DEF CreatePool
<1>4. CASE AllocateCommand
  BY <1>0, <1>4, QuietStep DEF AllocateCommand
<1>5. ASSUME NEW s \in Slots, CreateBuffer(s) PROVE FreshInv'
  <2>1. /\ phase = "create" /\ phase' \in {"create", "grow", "cleanup"}
        /\ UNCHANGED <<pending, forgotten, result>>
        /\ data' = data \/ data' = [data EXCEPT ![s] = {}]
    BY <1>5 DEF CreateBuffer
  <2>2. data' = [t \in Slots |-> data'[t]]
    BY <1>0, <2>1
  <2> QED
    BY <2>1, <2>2, QuietStep
<1>6. CASE Cleanup
  BY <1>0, <1>6, QuietStep DEF Cleanup
<1>7. ASSUME NEW s \in Slots, GrowBuffer(s) PROVE FreshInv'
  <2>1. /\ phase = "grow" /\ phase' \in {"grow", "free"}
        /\ UNCHANGED <<pending, forgotten, result>>
        /\ data' = data \/ data' = [data EXCEPT ![s] = {}]
    BY <1>7 DEF GrowBuffer, PutBack
  <2>2. data' = [t \in Slots |-> data'[t]]
    BY <1>0, <2>1
  <2> QED
    BY <2>1, <2>2, QuietStep
<1>8. CASE WriteInputs
  <2>1. /\ phase = "grow" /\ phase' = "record" /\ UNCHANGED <<job, pending, forgotten, result>>
        /\ data' = [data EXCEPT !["x"] = job, !["y"] = job]
    BY <1>8 DEF WriteInputs
  <2>2. data' = [t \in Slots |-> data'[t]] /\ data'["x"] = job /\ data'["y"] = job
    BY <1>0, <2>1 DEF Slots
  <2> QED
    BY <2>1, <2>2 DEF FreshInv, FreshResult
<1>9. CASE Record
  <2>1. /\ phase = "record" /\ phase' \in {"submit", "free"}
        /\ UNCHANGED <<job, data, pending, forgotten, result>>
    BY <1>9 DEF Record, PutBack
  <2> QED
    BY <2>1 DEF FreshInv, FreshResult
<1>10. CASE Submit
  <2>1. /\ phase = "submit" /\ UNCHANGED <<job, bound, data, forgotten, result>>
        /\ \/ pending' = pending \cup {[bound |-> bound, job |-> job]} /\ phase' = "wait"
           \/ pending' = pending /\ phase' = "free"
    BY <1>10 DEF Submit, PutBack
  <2> QED
    BY <2>1 DEF FreshInv, FreshResult
<1>11. CASE Read
  <2>1. /\ phase = "wait" /\ pending = {} /\ phase' = "free"
        /\ result' = {[job |-> job, powers |-> data["output"]]}
        /\ UNCHANGED <<job, data, pending, forgotten>>
    BY <1>11 DEF Read, Idle, PutBack
  <2>2. ~forgotten => data["output"] = {[x |-> job, y |-> job, job |-> job]}
    BY <2>1 DEF FreshInv
  <2> QED
    BY <2>1, <2>2 DEF FreshInv, FreshResult
<1>12. ASSUME NEW error \in WaitErrors, WaitFails(error) PROVE FreshInv'
  <2>1. /\ phase = "wait" /\ phase' = "free" /\ UNCHANGED <<job, data, result>>
        /\ forgotten' = (forgotten \/ pending' # {})
    BY <1>12 DEF WaitFails, PutBack
  <2>2. ~forgotten' => ~forgotten /\ pending' = {}
    BY <2>1
  <2> QED
    BY <2>1, <2>2 DEF FreshInv, FreshResult
<1>13. ASSUME NEW p \in pending, Dispatch(p) PROVE FreshInv'
  <2>1. /\ UNCHANGED <<phase, job, used, bound, forgotten, result>>
        /\ pending' = pending \ {p}
        /\ data' = IF phase = "wait" /\ p.bound = {used.size}
                   THEN [data EXCEPT !["output"] = {[x |-> data["x"], y |-> data["y"], job |-> p.job]}]
                   ELSE [data EXCEPT !["output"] = {}]
    BY <1>13 DEF Dispatch, host
  <2>2. data' = [s \in Slots |-> data'[s]] /\ data'["x"] = data["x"] /\ data'["y"] = data["y"]
    BY <1>0, <2>1 DEF Slots
  <2>3. ASSUME ~forgotten
        PROVE  /\ phase = "wait" /\ pending' = {}
               /\ data'["output"] = {[x |-> job, y |-> job, job |-> job]}
    <3>1. phase = "wait" /\ pending = {p} /\ p = [bound |-> bound, job |-> job]
      BY <2>3 DEF FreshInv
    <3>2. p.bound = {used.size} /\ p.job = job
      BY <3>1 DEF BindingsFit
    <3>3. data["x"] = job /\ data["y"] = job
      BY <3>1 DEF FreshInv
    <3> QED
      BY <1>0, <2>1, <3>1, <3>2, <3>3 DEF Slots
  <2> QED
    BY <2>1, <2>2, <2>3 DEF FreshInv, FreshResult
<1>14. CASE Drop
  <2>1. /\ phase = "free" /\ phase' = "dropped" /\ UNCHANGED <<job, data, forgotten, result>>
        /\ pending' \subseteq pending
    BY <1>14 DEF Drop
  <2> QED
    BY <2>1 DEF FreshInv, FreshResult
<1>15. CASE UNCHANGED vars
  BY <1>15 DEF vars, FreshInv, FreshResult
<1> QED
  BY <1>1, <1>2, <1>3, <1>4, <1>5, <1>6, <1>7, <1>8, <1>9, <1>10, <1>11, <1>12, <1>13, <1>14,
     <1>15 DEF Next, Stopped

-----------------------------------------------------------------------------
(* The choice of the device and of the backend. *)

\* A set of natural numbers has a least element.
LEMMA LeastNumber ==
  ASSUME NEW T \in SUBSET Nat, T # {}
  PROVE  \E m \in T : \A k \in T : m <= k
<1> DEFINE R == {ss \in Nat \X Nat : ss[1] < ss[2]}
<1>1. IsWellFoundedOn(R, Nat)
  BY NatLessThanWellFounded DEF OpToRel
<1>2. PICK m \in T : \A k \in T : <<k, m>> \notin R
  <2> HIDE DEF R
  <2> QED
    BY <1>1, WFMin
<1>3. \A k \in T : ~(k < m)
  BY <1>2
<1> QED
  BY <1>3

\* A device has queue families.
LEMMA QueueTypes ==
  ASSUME NEW m \in Machines, NEW i \in DOMAIN m
  PROVE  DOMAIN m[i].queues = 1..Len(m[i].queues) /\ Len(m[i].queues) \in Nat
<1> DEFINE Q == Seq(SUBSET {"graphics", "compute", "transfer"})
           D == [kind : STRING, queues : Q]
<1>1. m \in Seq(D)
  BY MachineAssumption
<1>2. \A d \in D : d.queues \in Q
  OBVIOUS
<1>3. m[i] \in D
  <2> HIDE DEF D
  <2> QED
    BY <1>1
<1> QED
  BY <1>2, <1>3

\* choose_queue finds a queue family if one of them suits.
LEMMA QueueFound ==
  ASSUME NEW queues, NEW n \in Nat, DOMAIN queues = 1..n,
         NEW i \in DOMAIN queues, Suits(queues[i])
  PROVE  ChooseQueue(queues) # {}
<1> DEFINE T == {k \in DOMAIN queues : Suits(queues[k])}
<1>1. T \in SUBSET Nat /\ i \in T
  OBVIOUS
<1>2. PICK k \in T : \A j \in T : k <= j
  <2> HIDE DEF T
  <2> QED
    BY <1>1, LeastNumber
<1>3. \A j \in 1..(k - 1) : j \in DOMAIN queues /\ ~(k <= j)
  OBVIOUS
<1>4. k \in ChooseQueue(queues)
  BY <1>2, <1>3 DEF ChooseQueue
<1> QED
  BY <1>4

\* The device chosen has a queue that suits, and none of a better kind has.
LEMMA ChoiceIsBest ==
  ASSUME NEW m \in Machines, NEW i \in Chosen(m)
  PROVE  /\ i \in DOMAIN m /\ ChooseQueue(m[i].queues) # {}
         /\ \A q \in ChooseQueue(m[i].queues) : {"graphics", "compute"} \subseteq m[i].queues[q]
         /\ \A j \in DOMAIN m : DeviceRank(m[j].kind) > DeviceRank(m[i].kind)
              => \A q \in Range(m[j].queues) : ~({"graphics", "compute"} \subseteq q)
<1>1. i \in DOMAIN m /\ ChooseQueue(m[i].queues) # {}
  BY DEF Chosen, Usable
<1>2. \A q \in ChooseQueue(m[i].queues) : {"graphics", "compute"} \subseteq m[i].queues[q]
  BY DEF ChooseQueue, Suits
<1>3. ASSUME NEW j \in DOMAIN m, DeviceRank(m[j].kind) > DeviceRank(m[i].kind),
             NEW q \in Range(m[j].queues), {"graphics", "compute"} \subseteq q
      PROVE  FALSE
  <2>1. PICK k \in DOMAIN m[j].queues : Suits(m[j].queues[k])
    BY <1>3 DEF Range, Suits
  <2>2. ChooseQueue(m[j].queues) # {}
    BY <2>1, QueueTypes, QueueFound
  <2>3. DeviceRank(m[i].kind) \in Nat /\ DeviceRank(m[j].kind) \in Nat
    BY DEF DeviceRank
  <2>4. j \in Usable(m) \ {i}
    BY <1>3, <2>2, <2>3 DEF Usable
  <2>5. \/ DeviceRank(m[i].kind) > DeviceRank(m[j].kind)
        \/ DeviceRank(m[i].kind) = DeviceRank(m[j].kind)
    BY <2>4 DEF Chosen
  <2> QED
    BY <1>3, <2>3, <2>5
<1> QED
  BY <1>1, <1>2, <1>3

\* The choice is made once, by VulkanBackend::new and `initialize`.
LEMMA ChoiceStep == ChoiceInv /\ [Next]_vars => ChoiceInv'
<1> SUFFICES ASSUME ChoiceInv, [Next]_vars PROVE ChoiceInv'
  OBVIOUS
<1>1. CASE Initialise
  <2>1. PICK k \in 0..Len(BaseOrder), pool \in BOOLEAN :
          /\ choice = "cpu" => k = 0
          /\ Chosen(machine) = {} => k <= 1
          /\ device' = UNION {{i} \X ChooseQueue(machine[i].queues) : i \in Chosen(machine)}
          /\ backend' = Selected(choice, k = Len(BaseOrder), pool)
          /\ phase' = IF k = Len(BaseOrder) THEN "free" ELSE "unavailable"
          /\ UNCHANGED <<machine, choice>>
    BY <1>1 DEF Initialise
  <2>2. machine \in Machines /\ choice \in {"auto", "cpu", "vulkan"}
    BY DEF ChoiceInv, BackendChoices
  <2>3. Len(BaseOrder) = 7
    BY DEF BaseOrder
  <2>4. CASE k = Len(BaseOrder)
    <3>1. choice \in {"auto", "vulkan"} /\ Chosen(machine) # {} /\ phase' = "free"
      BY <2>1, <2>2, <2>3, <2>4
    <3>2. backend' = "vulkan"
      BY <2>1, <2>4, <3>1 DEF Selected
    <3>3. PICK i \in Chosen(machine) : TRUE
      BY <3>1
    <3>4. PICK q \in ChooseQueue(machine[i].queues) : TRUE
      BY <2>2, ChoiceIsBest
    <3>5. <<i, q>> \in device'
      BY <2>1
    <3>6. /\ {"graphics", "compute"} \subseteq machine[i].queues[q]
          /\ \A j \in DOMAIN machine : DeviceRank(machine[j].kind) > DeviceRank(machine[i].kind)
               => \A c \in Range(machine[j].queues) : ~({"graphics", "compute"} \subseteq c)
      BY <2>2, ChoiceIsBest
    <3>7. /\ {"graphics", "compute"} \subseteq machine'[<<i, q>>[1]].queues[<<i, q>>[2]]
          /\ \A j \in DOMAIN machine' :
               DeviceRank(machine'[j].kind) > DeviceRank(machine'[<<i, q>>[1]].kind)
                 => \A c \in Range(machine'[j].queues) : ~({"graphics", "compute"} \subseteq c)
      BY <2>1, <3>6
    <3> QED
      BY <2>1, <2>2, <3>1, <3>2, <3>5, <3>7 DEF ChoiceInv, BackendAsPromised, BackendChoices
  <2>5. CASE k # Len(BaseOrder)
    <3>1. phase' = "unavailable"
      BY <2>1, <2>5
    <3>2. /\ backend' # "vulkan"
          /\ backend' = "cpu" => choice # "vulkan"
          /\ backend' = "none" => choice = "vulkan"
      BY <2>1, <2>2, <2>5 DEF Selected
    <3> QED
      BY <2>1, <2>2, <3>1, <3>2 DEF ChoiceInv, BackendAsPromised, BackendChoices
  <2> QED
    BY <2>4, <2>5
<1>2. CASE UNCHANGED selection /\ phase # "unavailable" /\ phase' \notin {"new", "unavailable"}
  BY <1>2 DEF selection, ChoiceInv, BackendAsPromised
<1>3. CASE UNCHANGED selection /\ UNCHANGED phase
  BY <1>3 DEF selection, ChoiceInv, BackendAsPromised
<1>4. ASSUME NEW ok, PutBack(ok), phase # "unavailable", UNCHANGED selection PROVE ChoiceInv'
  BY <1>2, <1>4 DEF PutBack
<1>5. CASE \E j \in Jobs : Begin(j)
  BY <1>2, <1>5 DEF Begin
<1>6. CASE CreatePool \/ AllocateCommand \/ Cleanup
  BY <1>2, <1>3, <1>6 DEF CreatePool, AllocateCommand, Cleanup
<1>7. ASSUME NEW s \in Slots, CreateBuffer(s) PROVE ChoiceInv'
  <2>1. UNCHANGED selection /\ phase = "create" /\ phase' \in {"create", "grow", "cleanup"}
    BY <1>7 DEF CreateBuffer
  <2> QED
    BY <1>2, <2>1
<1>8. ASSUME NEW s \in Slots, GrowBuffer(s) PROVE ChoiceInv'
  BY <1>3, <1>4, <1>8 DEF GrowBuffer
<1>9. CASE WriteInputs \/ Drop
  BY <1>2, <1>9 DEF WriteInputs, Drop
<1>10. CASE Record \/ Submit \/ Read
  BY <1>2, <1>4, <1>10 DEF Record, Submit, Read
<1>11. CASE \E error \in WaitErrors : WaitFails(error)
  BY <1>4, <1>11 DEF WaitFails
<1>12. CASE \E p \in pending : Dispatch(p)
  BY <1>3, <1>12 DEF Dispatch, host
<1>13. CASE UNCHANGED vars
  BY <1>3, <1>13 DEF vars
<1> QED
  BY <1>1, <1>5, <1>6, <1>7, <1>8, <1>9, <1>10, <1>11, <1>12, <1>13 DEF Next, Stopped

-----------------------------------------------------------------------------
(* The theorems. *)

\* All of it holds in every state.
THEOREM ResourcesInvariant == Spec => []ResourcesInv
<1>1. Init => ResourcesInv
  <2> SUFFICES ASSUME Init PROVE ResourcesInv
    OBVIOUS
  <2>1. LiveIsOwned
    <3>1. UNION {ObjectsOf(r) : r \in kept} = {} /\ ObjectsOf(used) = {}
      BY NothingIsResources DEF Init
    <3> QED
      BY <3>1 DEF Init, LiveIsOwned, Owned
  <2>2. BindingsFit /\ ChoiceInv
    BY DEF Init, BindingsFit, ChoiceInv, BackendAsPromised
  <2> QED
    BY <2>1, <2>2, InitHolders, InitFresh DEF ResourcesInv
<1>2. ResourcesInv /\ [Next]_vars => ResourcesInv'
  BY HoldersStep, LiveStep, BindingsStep, FreshStep, ChoiceStep DEF ResourcesInv
<1> QED
  BY <1>1, <1>2, PTL DEF Spec

\* An execution that was handed the resources left None behind, and what is put back
\* is complete.
THEOREM ResourcesTypeCorrect == Spec => []TypeOK
<1>1. ResourcesInv => TypeOK
  BY DEF ResourcesInv, HoldersInv
<1> QED
  BY <1>1, ResourcesInvariant, PTL

\* Whichever of any number of calls fails, no Vulkan object leaks, none is used or
\* destroyed after its end, and Drop leaves nothing.
THEOREM NoLeak == Spec => []LiveIsOwned
<1>1. ResourcesInv => LiveIsOwned
  BY DEF ResourcesInv
<1> QED
  BY <1>1, ResourcesInvariant, PTL

\* The device works on the buffers at hand, large enough for the job.
THEOREM DeviceUsesCurrentBuffers == Spec => []BindingsFit
<1>1. ResourcesInv => BindingsFit
  BY DEF ResourcesInv
<1> QED
  BY <1>1, ResourcesInvariant, PTL

\* The powers returned for a job are its own, unless the device was left running.
THEOREM ResultsAreFresh == Spec => []FreshResult
<1>1. ResourcesInv => FreshResult
  BY DEF ResourcesInv, FreshInv
<1> QED
  BY <1>1, ResourcesInvariant, PTL

\* No better kind of device is passed over, and only `auto` falls back to the CPU.
THEOREM BackendChoiceKept == Spec => []BackendAsPromised
<1>1. ResourcesInv => BackendAsPromised
  BY DEF ResourcesInv, ChoiceInv
<1> QED
  BY <1>1, ResourcesInvariant, PTL

\* Unless a failed wait left it running, the device never touches a buffer that was
\* replaced, cleaned up or dropped.
THEOREM NoUseAfterFree == Spec => []PendingIsLive
<1>1. ASSUME ResourcesInv, ~forgotten, NEW p \in pending, NEW b \in p.bound, NEW s \in Slots
      PROVE  Buffer(s, b[s]) \subseteq live
  <2>1. phase = "wait" /\ p.bound = bound
    BY <1>1 DEF ResourcesInv, FreshInv
  <2>2. b = used.size
    BY <1>1, <2>1 DEF ResourcesInv, BindingsFit
  <2>3. Complete(used) /\ used \in Resources
    BY <1>1, <2>1 DEF ResourcesInv, HoldersInv, TypeOK
  <2>4. Buffer(s, b[s]) \subseteq ObjectsOf(used)
    BY <2>2, <2>3, ObjectsAre DEF Complete
  <2>5. ObjectsOf(used) \subseteq live
    BY <1>1, <2>1 DEF ResourcesInv, LiveIsOwned, Owned
  <2> QED
    BY <2>4, <2>5
<1>2. ResourcesInv => PendingIsLive
  BY <1>1 DEF PendingIsLive
<1> QED
  BY <1>2, ResourcesInvariant, PTL
=============================================================================
