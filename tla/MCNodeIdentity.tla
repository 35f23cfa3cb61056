---------------------------- MODULE MCNodeIdentity ----------------------------
(***************************************************************************)
(* Small instances of NodeIdentity for TLC.                                 *)
(***************************************************************************)
EXTENDS NodeIdentity, TLC

CONSTANTS s1, s2, s3, i1, i2, i3, i4

\* Start-ups are interchangeable, and so are ids.
IdentitySymmetry == Permutations(Starters) \cup Permutations(Ids)
=============================================================================
