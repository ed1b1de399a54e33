---------------------------- MODULE MCConvertor ----------------------------
(***************************************************************************)
(* Instances of Convertor for TLC: two images of different lengths that    *)
(* share a name.  The requests bound the launches.                         *)
(***************************************************************************)
EXTENDS Convertor, TLC

CONSTANTS i1, i2, qcow2, disk

MCImage == {i1, i2}

MCFormat == {qcow2}

MCName == {disk}

MCNameOf == [i \in MCImage |-> disk]

MCChunksOf == (i1 :> 2) @@ (i2 :> 1)

OfImage(i) == [NoDoc EXCEPT !["image_id"] = i, !["new_format"] = qcow2]

MCBodies == {OfImage(i1), OfImage(i2)}

OneBody == {OfImage(i1)}

\* A PATCH that asks to run the task again.
MCPatches == {[NoDoc EXCEPT !["status"] = "INPROGRESS"]}

MCShows == {FALSE}

NoEndpoint == AllNames \ EndpointNames

Symmetry ==
  Permutations(Request) \cup Permutations(Uuid) \cup Permutations(Slot)
============================================================================
