----------------------------- MODULE MCBatchTask -----------------------------
(***************************************************************************)
(* Small instances of BatchTask for TLC.                                    *)
(***************************************************************************)
EXTENDS BatchTask, TLC

CONSTANTS u1, u2, u3, t1, t2

Unit3 == {u1, u2, u3}

W(p, d, w, y) == [project |-> p, dataset |-> d, workload |-> w, payload |-> y]

\* u1 and u2 share a dataset download; u1 is of the time before payloads, u2's
\* payload is unusable, and u3 has the dataset id of the others in another project.
MixedWork ==
  u1 :> W("p", "d", "lomb", "legacy") @@
  u2 :> W("p", "d", "lomb", "invalid") @@
  u3 :> W("q", "d", "lomb", "valid")

\* Tasks are interchangeable; units are not.
TaskSymmetry == Permutations(Tasks)
=============================================================================
