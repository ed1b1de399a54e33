------------------------------ MODULE MCListing ------------------------------
(* Instances of Listing for TLC: a sort column of two values, pages of one   *)
(* task or two.                                                              *)
EXTENDS Listing, TLC

MCKey == {0, 1}

MCLimits == {None, 0, 1, 3}

NoLimit == {None}

\* The tasks' names do not matter: nothing orders uuids.
MCSymmetry == Permutations(Uuid)
==============================================================================
