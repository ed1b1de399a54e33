-------------------------- MODULE MCKeystoneHelper --------------------------
(* Instances of KeystoneHelper for TLC: a user may be named like another     *)
(* one's id, a role's name is ambiguous, a domain and a project are unknown. *)
EXTENDS KeystoneHelper, TLC

MCUserId == {"u1", "u2"}

MCName == {"ann", "u1"}

MCRoles == ("r1" :> "member") @@ ("r2" :> "admin") @@ ("r3" :> "admin")

MCRoleArg == {"member", "admin"}

MCProjects == "p1" :> "demo"

MCProjectArg == {"demo", "other"}

MCDomains == ("d1" :> "default") @@ ("d2" :> "eng")

MCDomainArg == {"d1", "eng", "none"}

MCSymmetry == Permutations(Caller)
=============================================================================
