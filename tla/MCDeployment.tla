---------------------------- MODULE MCDeployment ----------------------------
(* Instances of Deployment for TLC: two processes of any programs, with two  *)
(* green threads each.                                                       *)
EXTENDS Deployment, TLC

\* Nothing tells one process from another while all of them may be forked.
MCSymmetry == Permutations(Proc)
=============================================================================
