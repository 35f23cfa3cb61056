--------------------------- MODULE BackendSelection ---------------------------
(***************************************************************************)
(* Which backend the worker computes on: `initialize` of src/backend.rs, and *)
(* the choice of device and queue family in VulkanBackend::new.             *)
(***************************************************************************)
EXTENDS Naturals, Sequences, Functions

CONSTANT Machines   \* the devices of each host, in the order of their enumeration

BackendChoices == {"auto", "cpu", "vulkan"}

\* Device types other than these two are virtual GPUs, CPUs and unknown ones.
DeviceRank(kind) == CASE kind = "discrete" -> 2 [] kind = "integrated" -> 1 [] OTHER -> 0

ASSUME MachineAssumption ==
  Machines \subseteq
    Seq([kind : STRING, queues : Seq(SUBSET {"graphics", "compute", "transfer"})])

\* Mutant: a dedicated compute queue will do.
Suits_ComputeOnly(flags) == "compute" \in flags

Suits(flags) == {"graphics", "compute"} \subseteq flags

\* choose_queue: the first queue family that suits, an Option.
ChooseQueue(queues) ==
  {i \in DOMAIN queues : Suits(queues[i]) /\ \A j \in 1..(i - 1) : ~Suits(queues[j])}

Usable(m) == {i \in DOMAIN m : ChooseQueue(m[i].queues) # {}}

\* The first device after the stable sort by descending rank, an Option.
Chosen(m) ==
  {i \in Usable(m) : \A j \in Usable(m) \ {i} :
     \/ DeviceRank(m[i].kind) > DeviceRank(m[j].kind)
     \/ DeviceRank(m[i].kind) = DeviceRank(m[j].kind) /\ i < j}

\* initialize: what each choice makes of a VulkanBackend::new that worked or not, and
\* of a thread pool for the CPU that could be built or not.
Selected(choice, vulkan, pool) ==
  LET cpu == IF pool THEN "cpu" ELSE "noPool"
  IN  CASE choice = "cpu"    -> cpu
        [] choice = "vulkan" -> IF vulkan THEN "vulkan" ELSE "none"
        [] choice = "auto"   -> IF vulkan THEN "vulkan" ELSE cpu
=============================================================================
