------------------------------ MODULE ImageStore ------------------------------
(***************************************************************************)
(* main/src/pocker.rs: the storage directory of pocker, under the commands *)
(* pull and run of one image.                                              *)
(*                                                                         *)
(* Several processes work on the directory at once, with no lock, and each *)
(* may be killed at any point; what is on disk stays.  A tar file or a     *)
(* layer directory is absent, complete, or was last begun by some process. *)
(* When two processes write the same one at once, only the one that began  *)
(* last has certainly written all of it.                                   *)
(***************************************************************************)
EXTENDS Integers, Sequences, FiniteSets

CONSTANTS Procs,
          Layers,            \* digests
          Manifests,         \* what the registry may serve: sequences of layers
          Names,             \* names of instances
          LOCKFILE_RUNNING   \* ".pocker-running", which is a possible name too

ASSUME StoreAssumption ==
    /\ LOCKFILE_RUNNING \in Names
    /\ Manifests # {} /\ Manifests \subseteq Seq(Layers) \ {<<>>}
    /\ Procs \cap {"none", "full"} = {}
    /\ Layers \cap {"missing", "unreadable"} = {}

VARIABLES
    manifest,   \* what the registry serves now
    index,      \* the cached digests: Missing, Unreadable, or a sequence of layers
    tar,        \* the tar files in the cache directory
    layer,      \* the layer directories
    instances,  \* the instance directories
    markers,    \* the instances with a LOCKFILE_RUNNING in their directory
    pc,         \* per process: where it is
    cmd,        \* per process: its command line
    name,       \* per process: the instance it runs
    cached,     \* per process: the index as it read it
    hashes,     \* per process: the layers of its image
    pos,        \* per process: the layer it is at
    good,       \* per process: the tar file its child unpacks was complete from the beginning
    sound       \* history, per process: see Start

disk == <<index, tar, layer, instances, markers>>
local == <<cmd, name, cached, hashes, pos, good>>
vars == <<manifest, disk, pc, local, sound>>

Missing == <<"missing">>
Unreadable == <<"unreadable">>
Commands == [run : BOOLEAN, redownload : BOOLEAN]
NoCommand == [run |-> FALSE, redownload |-> FALSE]
NoName == "none"

Active(p) == pc[p] # "idle"
Current(p) == hashes[p][pos[p]]

-------------------------------------------------------------------------------

Init ==
    /\ manifest \in Manifests
    /\ index = Missing
    /\ tar = [l \in Layers |-> "none"]
    /\ layer = [l \in Layers |-> "none"]
    /\ instances = {}
    /\ markers = {}
    /\ pc = [p \in Procs |-> "idle"]
    /\ cmd = [p \in Procs |-> NoCommand]
    /\ name = [p \in Procs |-> NoName]
    /\ cached = [p \in Procs |-> Missing]
    /\ hashes = [p \in Procs |-> <<>>]
    /\ pos = [p \in Procs |-> 1]
    /\ good = [p \in Procs |-> FALSE]
    /\ sound = [p \in Procs |-> FALSE]

Goto(p, l) == pc' = [pc EXCEPT ![p] = l]

\* The image is published anew.
Publish ==
    /\ manifest' \in Manifests \ {manifest}
    /\ UNCHANGED <<disk, pc, local, sound>>

\* Nothing on disk is left half done.
Intact == \A l \in Layers : tar[l] \in {"none", "full"} /\ layer[l] \in {"none", "full"}

\* pull, or run.  The history: a process is sound if it is alone from its beginning to its
\* end, its child does not fail, and the store is intact or to be downloaded again.
Start(p, c) ==
    /\ ~Active(p)
    /\ cmd' = [cmd EXCEPT ![p] = c]
    /\ Goto(p, "index")
    /\ sound' = [q \in Procs |-> q = p /\ (\A r \in Procs : ~Active(r)) /\ (Intact \/ c.redownload)]
    /\ UNCHANGED <<manifest, disk, name, cached, hashes, pos, good>>

\* The process is over: it has returned, failed, or been killed.
Over(p) ==
    /\ Goto(p, "idle")
    /\ cached' = [cached EXCEPT ![p] = Missing]
    /\ hashes' = [hashes EXCEPT ![p] = <<>>]
    /\ pos' = [pos EXCEPT ![p] = 1]
    /\ good' = [good EXCEPT ![p] = FALSE]
    /\ sound' = [sound EXCEPT ![p] = FALSE]
    /\ cmd' = [cmd EXCEPT ![p] = NoCommand]
    /\ name' = [name EXCEPT ![p] = NoName]

\* Killed, or an error anywhere: network, disk, ptrace.  Nothing is cleaned up.
Dies(p) ==
    /\ Active(p)
    /\ Over(p)
    /\ UNCHANGED <<manifest, disk>>

-------------------------------------------------------------------------------
(* download_image.                                                           *)

ReadIndex(p) ==
    /\ pc[p] = "index"
    /\ cached' = [cached EXCEPT ![p] = index]
    /\ Goto(p, IF index = Missing THEN "pull" ELSE "compare")
    /\ UNCHANGED <<manifest, disk, cmd, name, hashes, pos, good, sound>>

\* The cached digests are used when they are those of the registry.
CompareManifest(p) ==
    /\ pc[p] = "compare"
    /\ IF cached[p] = manifest /\ ~cmd[p].redownload
       THEN hashes' = [hashes EXCEPT ![p] = cached[p]] /\ Goto(p, "layer")
       ELSE UNCHANGED hashes /\ Goto(p, "pull")
    /\ cached' = [cached EXCEPT ![p] = Missing]
    /\ UNCHANGED <<manifest, disk, cmd, name, pos, good, sound>>

Pull(p) ==
    /\ pc[p] = "pull"
    /\ hashes' = [hashes EXCEPT ![p] = manifest]
    /\ Goto(p, "tar_begin")
    /\ UNCHANGED <<manifest, disk, cmd, name, cached, pos, good, sound>>

\* fs::write truncates the file.  A child that is unpacking it sees its end too early.
TarBegin(p) ==
    /\ pc[p] = "tar_begin"
    /\ tar' = [tar EXCEPT ![Current(p)] = p]
    /\ good' = [q \in Procs |-> good[q] /\ Current(q) # Current(p)]
    /\ Goto(p, "tar_end")
    /\ UNCHANGED <<manifest, index, layer, instances, markers, cmd, name, cached, hashes, pos, sound>>

\* Mutant: the last layer is left out.
AdvanceSkipsLast(p, again, after) ==
    IF pos[p] < Len(hashes[p]) - 1
    THEN pos' = [pos EXCEPT ![p] = @ + 1] /\ Goto(p, again)
    ELSE pos' = [pos EXCEPT ![p] = 1] /\ Goto(p, after)

\* The next layer of a loop over the layers, or what follows the loop.
Advance(p, again, after) ==
    IF pos[p] < Len(hashes[p])
    THEN pos' = [pos EXCEPT ![p] = @ + 1] /\ Goto(p, again)
    ELSE pos' = [pos EXCEPT ![p] = 1] /\ Goto(p, after)

Completed(f, l, p) == [f EXCEPT ![l] = IF @ = p THEN "full" ELSE @]

TarEnd(p) ==
    /\ pc[p] = "tar_end"
    /\ tar' = Completed(tar, Current(p), p)
    /\ Advance(p, "tar_begin", "index_create")
    /\ UNCHANGED <<manifest, index, layer, instances, markers, cmd, name, cached, hashes, good, sound>>

IndexCreate(p) ==
    /\ pc[p] = "index_create"
    /\ index' = <<>>
    /\ Goto(p, "index_write")
    /\ UNCHANGED <<manifest, tar, layer, instances, markers, local, sound>>

\* A process that writes over a longer text, written since it created the file, leaves its end.
IndexWrite(p) ==
    /\ pc[p] = "index_write"
    /\ index' = IF index # Unreadable /\ Len(index) <= Len(hashes[p]) THEN hashes[p]
                ELSE Unreadable
    /\ Goto(p, "layer")
    /\ UNCHANGED <<manifest, tar, layer, instances, markers, local, sound>>

-------------------------------------------------------------------------------
(* launch_ptrace_to_untar_layers, and untar_layer_from_tracee in its child.  *)

\* What follows the last layer.
AfterLayers(p) == IF cmd[p].run THEN "instance" ELSE "pulled"

\* Mutant: a layer directory is never removed.
CheckLayerKeeps(p) ==
    /\ pc[p] = "layer"
    /\ IF layer[Current(p)] # "none"
       THEN Advance(p, "layer", AfterLayers(p))
       ELSE Goto(p, "launch") /\ UNCHANGED pos
    /\ UNCHANGED <<manifest, disk, cmd, name, cached, hashes, good, sound>>

\* A layer directory that is there is not unpacked again, or removed first.
CheckLayer(p) ==
    /\ pc[p] = "layer"
    /\ IF layer[Current(p)] # "none" /\ ~cmd[p].redownload
       THEN Advance(p, "layer", AfterLayers(p))
       ELSE Goto(p, IF layer[Current(p)] = "none" THEN "launch" ELSE "remove") /\ UNCHANGED pos
    /\ UNCHANGED <<manifest, disk, cmd, name, cached, hashes, good, sound>>

\* remove_dir_all, which may not come to its end.
RemoveLayer(p) ==
    /\ pc[p] = "remove"
    /\ \/ /\ layer' = [layer EXCEPT ![Current(p)] = "none"]
          /\ Goto(p, "launch")
          /\ UNCHANGED <<local, sound>>
       \/ /\ layer' = [layer EXCEPT ![Current(p)] = p]
          /\ Over(p)
    /\ UNCHANGED <<manifest, index, tar, instances, markers>>

\* The child opens the tar file and begins to unpack it; without a tar file it fails, which
\* its exit code says and nobody reads.
Launch(p) ==
    /\ pc[p] = "launch"
    /\ IF tar[Current(p)] = "none"
       THEN Advance(p, "layer", AfterLayers(p)) /\ UNCHANGED <<layer, good>>
       ELSE /\ layer' = [layer EXCEPT ![Current(p)] = p]
            /\ good' = [good EXCEPT ![p] = tar[Current(p)] = "full"]
            /\ Goto(p, "unpack")
            /\ UNCHANGED pos
    /\ UNCHANGED <<manifest, index, tar, instances, markers, cmd, name, cached, hashes, sound>>

\* The child ends: all is unpacked, or it has failed or been killed; the exit code is not read.
Unpacked(p) ==
    /\ pc[p] = "unpack"
    /\ \/ /\ good[p]
          /\ layer' = Completed(layer, Current(p), p)
          /\ UNCHANGED sound
       \/ /\ sound' = [sound EXCEPT ![p] = @ /\ ~good[p]]
          /\ UNCHANGED layer
    /\ good' = [good EXCEPT ![p] = FALSE]
    /\ Advance(p, "layer", AfterLayers(p))
    /\ UNCHANGED <<manifest, index, tar, instances, markers, cmd, name, cached, hashes>>

\* pull is done.
PullReturns(p) ==
    /\ pc[p] = "pulled"
    /\ Over(p)
    /\ UNCHANGED <<manifest, disk>>

-------------------------------------------------------------------------------
(* The instance of run.                                                      *)

\* The marker is looked for in the directory of all instances.
CheckRunning(p) ==
    /\ pc[p] = "instance"
    /\ \/ LOCKFILE_RUNNING \in instances /\ Over(p)
       \/ LOCKFILE_RUNNING \notin instances /\ Goto(p, "create") /\ UNCHANGED <<local, sound>>
    /\ UNCHANGED <<manifest, disk>>

\* It is created in the directory of the instance.  The name is that of the command line;
\* it is chosen here, where it is first used.
CreateInstance(p, n) ==
    /\ pc[p] = "create"
    /\ name' = [name EXCEPT ![p] = n]
    /\ instances' = instances \cup {n}
    /\ markers' = markers \cup {n}
    /\ Goto(p, "running")
    /\ UNCHANGED <<manifest, index, tar, layer, cmd, cached, hashes, pos, good, sound>>

\* run_instance returns, with an error or not; a marker that is gone is an error.
RunReturns(p) ==
    /\ pc[p] = "running"
    /\ markers' = markers \ {name[p]}
    /\ Over(p)
    /\ UNCHANGED <<manifest, index, tar, layer, instances>>

Next ==
    \/ Publish
    \/ \E p \in Procs :
        \/ \E c \in Commands : Start(p, c)
        \/ Dies(p)
        \/ ReadIndex(p) \/ CompareManifest(p) \/ Pull(p)
        \/ TarBegin(p) \/ TarEnd(p) \/ IndexCreate(p) \/ IndexWrite(p)
        \/ CheckLayer(p) \/ RemoveLayer(p) \/ Launch(p) \/ Unpacked(p) \/ PullReturns(p)
        \/ CheckRunning(p) \/ RunReturns(p)
        \/ \E n \in Names : CreateInstance(p, n)

Spec == Init /\ [][Next]_vars

-------------------------------------------------------------------------------
(* Properties.                                                               *)

Listed(s) == {s[i] : i \in 1..Len(s)}

Places == {"idle", "index", "compare", "pull", "tar_begin", "tar_end", "index_create",
           "index_write", "layer", "remove", "launch", "unpack", "pulled", "instance",
           "create", "running"}

\* Every variable has its type; a process is at a layer of its image.
TypeOK ==
    /\ manifest \in Manifests
    /\ index \in {Missing, Unreadable, <<>>} \cup Manifests
    /\ tar \in [Layers -> {"none", "full"} \cup Procs]
    /\ layer \in [Layers -> {"none", "full"} \cup Procs]
    /\ markers \subseteq instances /\ instances \subseteq Names
    /\ pc \in [Procs -> Places]
    /\ cmd \in [Procs -> Commands]
    /\ name \in [Procs -> Names \cup {NoName}]
    /\ cached \in [Procs -> {Missing, Unreadable, <<>>} \cup Manifests]
    /\ hashes \in [Procs -> Manifests \cup {<<>>}]
    /\ pos \in [Procs -> Nat]
    /\ \A p \in Procs : pos[p] = 1 \/ pos[p] \in 1..Len(hashes[p])
    /\ good \in [Procs -> BOOLEAN] /\ sound \in [Procs -> BOOLEAN]

\* The index is written after the tar files it lists, whatever process is killed where: a
\* process that trusts it finds every tar file, complete or cut short by a later download.
IndexedTarsExist == index \in Manifests => \A l \in Listed(index) : tar[l] # "none"

\* A pull that is alone and whose child does not fail leaves all layers of the image
\* complete, and the index and the tar files with them, if nothing was half done when it
\* began; with --redownload whatever earlier processes left behind when they were killed.
PullCompletes ==
    \A p \in Procs : pc[p] \in {"pulled", "instance", "create", "running"} /\ sound[p]
        => index = hashes[p] /\ \A l \in Listed(hashes[p]) : tar[l] = "full" /\ layer[l] = "full"
===============================================================================
