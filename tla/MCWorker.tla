------------------------------- MODULE MCWorker -------------------------------
(***************************************************************************)
(* Small instances of Worker for TLC.                                       *)
(***************************************************************************)
EXTENDS Worker, TLC

CONSTANTS u1, u2, u3, t1, t2, t3

W(p, d, w, y) == [project |-> p, dataset |-> d, workload |-> w, payload |-> y]

\* Units of the CPU-only workload that can share a batch and its download; the
\* second lacks the payload that this workload needs.
BoxWork ==
  u1 :> W("p", "d", "box", "valid") @@
  u2 :> W("p", "d", "box", "legacy")

\* Units that are submitted as soon as they are claimed.
Unsupported == [u \in Units |-> W("p", "d", "other", "valid")]

TaskSymmetry == Permutations(Tasks)

\* Unsupported units are interchangeable as well.
AllSymmetry == TaskSymmetry \cup Permutations(Units)
=============================================================================
