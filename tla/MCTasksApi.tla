----------------------------- MODULE MCTasksApi -----------------------------
(***************************************************************************)
(* Instances of TasksApi for TLC.  The number of requests bounds every     *)
(* behaviour.                                                              *)
(***************************************************************************)
EXTENDS TasksApi, TLC

CONSTANTS i1, i2, qcow2

MCImage == {i1, i2}

MCFormat == {qcow2}

Complete == [NoDoc EXCEPT !["image_id"] = i1, !["new_format"] = qcow2]

NoFormat == [NoDoc EXCEPT !["image_id"] = i1]

MCBodies == {Complete, NoFormat}

\* One column at a time: a legal value, a removal and an internal
\* attribute; or none.
Sets(f, v) == [NoDoc EXCEPT ![f] = v]

MCPatches ==
  {Sets("status", "INPROGRESS"), Sets("status", Null), Sets("image_id", i2),
   Sets("image_id", Null), Sets("deleted_at", Null), NoDoc}

MCShows == {FALSE, TRUE}

Symmetry == Permutations(Request) \cup Permutations(Uuid)
============================================================================
