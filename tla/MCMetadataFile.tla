---------------------------- MODULE MCMetadataFile ----------------------------
(* Model checking of MetadataFile. *)
EXTENDS MetadataFile, TLC

\* Tracers, names and fields are only compared for equality, and every property checked
\* with this symmetry is an invariant.
Interchangeable == Permutations(Tracers) \cup Permutations(Names) \cup Permutations(Fields)

\* An inode that no path leads to and nobody has open is as good as a fresh one: SaveOpen
\* resets it before it is used.  Of the slips, which only grow, the properties ask whether
\* there are any.
InUse == Inodes \ FreeInodes
LiveView ==
    <<kind, names, backing, meta_path, pc, local, slips = {}, flock, raced \cap InUse,
      [i \in InUse |-> <<text[i], saved[i]>>]>>
===============================================================================
