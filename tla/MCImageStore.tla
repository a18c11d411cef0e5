----------------------------- MODULE MCImageStore -----------------------------
(* Model checking of ImageStore. *)
EXTENDS ImageStore, TLC

CONSTANTS a, b

\* An image of one layer, and its successor, of two layers.
TwoManifests == {<<a>>, <<b, a>>}

\* Processes are only compared for equality, and every property is an invariant.
Interchangeable == Permutations(Procs)

\* Whoever began what nobody is at any more does not matter, and nobody
\* looks at a marker, or for an instance of another name.
HalfDone(f, at) ==
    [l \in Layers |-> IF f[l] \in {"none", "full"} \/ (pc[f[l]] = at /\ Current(f[l]) = l)
                      THEN f[l] ELSE "partial"]
LiveView ==
    <<manifest, index, HalfDone(tar, "tar_end"), HalfDone(layer, "unpack"),
      LOCKFILE_RUNNING \in instances,
      pc, local, sound>>
===============================================================================
