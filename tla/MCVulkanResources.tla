-------------------------- MODULE MCVulkanResources --------------------------
(***************************************************************************)
(* A small instance of VulkanResources for TLC: jobs that need more of the  *)
(* one, of the other and of both kinds of buffers, on hosts with several    *)
(* devices, with a software device, and with none that is usable.           *)
(***************************************************************************)
EXTENDS VulkanResources, TLC

CONSTANTS j1, j2, j3

Lengths == j1 :> 1 @@ j2 :> 2 @@ j3 :> 2
Counts  == j1 :> 2 @@ j2 :> 1 @@ j3 :> 3

All     == {"graphics", "compute", "transfer"}
Compute == {"compute", "transfer"}

GPU(k, q) == [kind |-> k, queues |-> q]

Hosts ==
  { <<GPU("discrete", <<Compute>>), GPU("integrated", <<Compute, All>>), GPU("integrated", <<All>>)>>,
    <<GPU("software", <<All>>), GPU("discrete", <<Compute, All>>)>>,
    <<GPU("software", <<All>>)>>,
    <<GPU("discrete", <<Compute>>)>> }
=============================================================================
