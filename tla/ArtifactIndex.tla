---------------------------- MODULE ArtifactIndex ---------------------------
(***************************************************************************)
(* What artifact_manifest.json promises its readers: an index in which     *)
(* every dump that is published replaces the entry of its own stem, at     *)
(* once, and touches no other, or, when the index could not be read, starts *)
(* it again.  ArtifactStore does it with a lock file, a temporary file and *)
(* a rename.                                                               *)
(***************************************************************************)
CONSTANTS Stems, Gens

VARIABLE index

Entries == [stem : Stems, gen : Gens]

Init == index = {}

Publish(e) == index' = {a \in index : a.stem # e.stem} \cup {e}

Rebuild(e) == index' = {e}

Next == \E e \in Entries : Publish(e) \/ Rebuild(e)

Spec == Init /\ [][Next]_index
=============================================================================
