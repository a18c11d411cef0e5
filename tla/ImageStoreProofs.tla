--------------------------- MODULE ImageStoreProofs ---------------------------
(***************************************************************************)
(* Proofs about ImageStore, for every number of processes, whatever layers *)
(* the manifests list, in whatever order and how often.                    *)
(***************************************************************************)
EXTENDS ImageStore, TLAPS

-------------------------------------------------------------------------------
(* The inductive invariant.                                                  *)

\* The places where a process knows the layers of its image.
Downloading == {"tar_begin", "tar_end"}
Indexing    == {"index_create", "index_write"}
Unpacking   == {"layer", "remove", "launch", "unpack"}
Final       == {"pulled", "instance", "create", "running"}

\* A process has layers, and is at one of them, once it is past the manifest.
PlaceInv(p) ==
    /\ pc[p] \in {"idle", "index", "compare", "pull"} \cup Indexing => pos[p] = 1
    /\ pc[p] \in Downloading \cup Indexing \cup Unpacking \cup Final => hashes[p] \in Manifests

\* A process writes the index after it has begun the tar files of all its layers.
TarsInv(p) ==
    /\ pc[p] \in Downloading => \A i \in 1..(pos[p] - 1) : tar[hashes[p][i]] # "none"
    /\ pc[p] = "tar_end" => tar[Current(p)] # "none"
    /\ pc[p] \in Indexing => \A i \in 1..Len(hashes[p]) : tar[hashes[p][i]] # "none"

\* What is half done is being done by p, unless p downloads everything again.
HalfInv(p) ==
    ~cmd[p].redownload => \A l \in Layers :
       /\ tar[l] \in {"none", "full"} \/ (pc[p] = "tar_end" /\ l = Current(p))
       /\ layer[l] \in {"none", "full"} \/ (pc[p] = "unpack" /\ l = Current(p))

\* How far a sound process is with the tar files.  A manifest may list a layer twice.
SoundTars(p) ==
    /\ pc[p] \in Downloading =>
          \A i \in 1..(pos[p] - 1) :
             tar[hashes[p][i]] = "full" \/ (pc[p] = "tar_end" /\ hashes[p][i] = Current(p))
    /\ pc[p] = "tar_end" => tar[Current(p)] = p
    /\ pc[p] \in Indexing \cup Unpacking \cup Final =>
          \A i \in 1..Len(hashes[p]) : tar[hashes[p][i]] = "full"

SoundIndex(p) ==
    /\ pc[p] = "compare" => cached[p] = index
    /\ pc[p] = "index_write" => index = <<>>
    /\ pc[p] \in Unpacking \cup Final => index = hashes[p]

SoundLayers(p) ==
    /\ pc[p] \in Unpacking =>
          \A i \in 1..(pos[p] - 1) :
             layer[hashes[p][i]] = "full" \/ (pc[p] \in {"launch", "unpack"} /\ hashes[p][i] = Current(p))
    /\ pc[p] = "launch" => layer[Current(p)] = "none"
    /\ pc[p] = "unpack" => layer[Current(p)] = p /\ good[p]
    /\ pc[p] \in Final => \A i \in 1..Len(hashes[p]) : layer[hashes[p][i]] = "full"

Alone(p) == Active(p) /\ \A q \in Procs \ {p} : ~Active(q)

SoundInv(p) ==
    sound[p] => Alone(p) /\ HalfInv(p) /\ SoundTars(p) /\ SoundIndex(p) /\ SoundLayers(p)

IndInv ==
    /\ TypeOK
    /\ \A p \in Procs : PlaceInv(p) /\ TarsInv(p)
    /\ IndexedTarsExist
    /\ \A p \in Procs : SoundInv(p)

USE StoreAssumption

-------------------------------------------------------------------------------
(* Sequences of layers, and the loops over them.                             *)

\* A manifest lists layers, and is none of the other contents of the index.
LEMMA ManifestFacts ==
    ASSUME NEW m \in Manifests
    PROVE  /\ m \in Seq(Layers) /\ Len(m) \in Nat \ {0} /\ m # <<>>
           /\ \A i \in 1..Len(m) : m[i] \in Layers
           /\ m # Missing /\ m # Unreadable
<1>1. m \in Seq(Layers) /\ m # <<>>
  OBVIOUS
<1>2. Len(m) \in Nat \ {0} /\ \A i \in 1..Len(m) : m[i] \in Layers
  BY <1>1
<1>3. m[1] \in Layers
  BY <1>2
<1> QED BY <1>1, <1>2, <1>3 DEF Missing, Unreadable

\* The layer a process is at.
LEMMA AtLayer ==
    ASSUME TypeOK, NEW p \in Procs, hashes[p] \in Manifests
    PROVE  /\ pos[p] \in 1..Len(hashes[p]) /\ Len(hashes[p]) \in Nat
           /\ Current(p) = hashes[p][pos[p]] /\ Current(p) \in Layers
           /\ \A i \in 1..Len(hashes[p]) : hashes[p][i] \in Layers
<1>1. Len(hashes[p]) \in Nat \ {0} /\ \A i \in 1..Len(hashes[p]) : hashes[p][i] \in Layers
  BY ManifestFacts
<1>2. pos[p] \in 1..Len(hashes[p])
  BY <1>1 DEF TypeOK
<1> QED BY <1>1, <1>2 DEF Current

\* One step of a loop over the layers.
LEMMA Advanced ==
    ASSUME TypeOK, NEW p \in Procs, hashes[p] \in Manifests,
           NEW again \in Places, NEW after \in Places, Advance(p, again, after)
    PROVE  /\ pc' \in [Procs -> Places] /\ pos' \in [Procs -> Nat]
           /\ \A q \in Procs \ {p} : pc'[q] = pc[q] /\ pos'[q] = pos[q]
           /\ \/ pos[p] < Len(hashes[p]) /\ pos'[p] = pos[p] + 1 /\ pc'[p] = again
              \/ pos[p] = Len(hashes[p]) /\ pos'[p] = 1 /\ pc'[p] = after
<1>1. pos[p] \in 1..Len(hashes[p]) /\ Len(hashes[p]) \in Nat
  BY AtLayer
<1>2. pc \in [Procs -> Places] /\ pos \in [Procs -> Nat]
  BY DEF TypeOK
<1>3. CASE pos[p] < Len(hashes[p])
  <2>1. pos' = [pos EXCEPT ![p] = pos[p] + 1] /\ pc' = [pc EXCEPT ![p] = again]
    BY <1>2, <1>3 DEF Advance, Goto
  <2> QED BY <1>1, <1>2, <1>3, <2>1
<1>4. CASE ~(pos[p] < Len(hashes[p]))
  <2>1. pos' = [pos EXCEPT ![p] = 1] /\ pc' = [pc EXCEPT ![p] = after]
    BY <1>2, <1>4 DEF Advance, Goto
  <2>2. pos[p] = Len(hashes[p])
    BY <1>1, <1>4
  <2> QED BY <1>2, <2>1, <2>2
<1> QED BY <1>3, <1>4

\* The processes that do not move: a sound one is alone, so none of them is.
LEMMA Others ==
    ASSUME IndInv, NEW p \in Procs, Active(p),
           \A q \in Procs \ {p} : /\ pc'[q] = pc[q] /\ pos'[q] = pos[q]
                                  /\ hashes'[q] = hashes[q] /\ sound'[q] = sound[q],
           \A l \in Layers : tar[l] # "none" => tar'[l] # "none"
    PROVE  \A q \in Procs \ {p} : PlaceInv(q)' /\ TarsInv(q)' /\ SoundInv(q)'
<1> SUFFICES ASSUME NEW q \in Procs \ {p}
             PROVE  PlaceInv(q)' /\ TarsInv(q)' /\ SoundInv(q)'
  OBVIOUS
<1>1. PlaceInv(q) /\ TarsInv(q) /\ SoundInv(q)
  BY DEF IndInv
<1>2. PlaceInv(q)'
  BY <1>1 DEF PlaceInv
<1>3. SoundInv(q)'
  BY <1>1 DEF SoundInv, Alone
<1>4. TarsInv(q)'
  <2>1. CASE pc[q] \notin Downloading \cup Indexing
    BY <2>1 DEF TarsInv, Downloading
  <2>2. CASE pc[q] \in Downloading \cup Indexing
    <3>1. hashes[q] \in Manifests
      BY <1>1, <2>2 DEF PlaceInv
    <3>2. /\ pos[q] \in 1..Len(hashes[q]) /\ Len(hashes[q]) \in Nat /\ Current(q) \in Layers
          /\ \A i \in 1..Len(hashes[q]) : hashes[q][i] \in Layers
      BY <3>1, AtLayer DEF IndInv
    <3>3. Current(q)' = Current(q)
      BY DEF Current
    <3> QED BY <1>1, <3>2, <3>3, SMTT(30) DEF TarsInv
  <2> QED BY <2>1, <2>2
<1> QED BY <1>2, <1>3, <1>4

\* IndexedTarsExist, by position.
LEMMA ByPosition ==
    IndexedTarsExist <=> (index \in Manifests => \A i \in 1..Len(index) : tar[index[i]] # "none")
BY DEF IndexedTarsExist, Listed

\* The invariant of the process that moves, when the others and the types are done with.
LEMMA Assemble ==
    ASSUME IndInv, NEW p \in Procs, TypeOK', IndexedTarsExist',
           \A q \in Procs \ {p} : PlaceInv(q)' /\ TarsInv(q)' /\ SoundInv(q)',
           PlaceInv(p)', TarsInv(p)', SoundInv(p)'
    PROVE  IndInv'
BY DEF IndInv

-------------------------------------------------------------------------------
(* One lemma per kind of step.                                               *)

\* A process ends, whatever it leaves of a layer directory or of its instance.
LEMMA OverStep ==
    ASSUME IndInv, NEW p \in Procs, Active(p), Over(p), UNCHANGED <<manifest, index, tar>>,
           layer' \in [Layers -> {"none", "full"} \cup Procs],
           markers' \subseteq instances', instances' \subseteq Names
    PROVE  IndInv'
<1> USE DEF Over, Goto
<1>1. TypeOK'
  <2>1. NoCommand \in Commands /\ NoName \in Names \cup {NoName} /\ "idle" \in Places
    BY DEF NoCommand, Commands, Places
  <2>2. /\ pc' \in [Procs -> Places] /\ cmd' \in [Procs -> Commands]
        /\ name' \in [Procs -> Names \cup {NoName}]
        /\ cached' \in [Procs -> {Missing, Unreadable, <<>>} \cup Manifests]
        /\ good' \in [Procs -> BOOLEAN] /\ sound' \in [Procs -> BOOLEAN]
    BY <2>1 DEF IndInv, TypeOK
  <2>3. hashes' \in [Procs -> Manifests \cup {<<>>}] /\ pos' \in [Procs -> Nat]
    BY DEF IndInv, TypeOK
  <2>4. \A q \in Procs : pos'[q] = 1 \/ pos'[q] \in 1..Len(hashes'[q])
    BY DEF IndInv, TypeOK
  <2> QED BY <2>2, <2>3, <2>4 DEF IndInv, TypeOK
<1>2. /\ pc'[p] = "idle" /\ pos'[p] = 1 /\ ~sound'[p]
      /\ \A q \in Procs \ {p} : /\ pc'[q] = pc[q] /\ pos'[q] = pos[q]
                                /\ hashes'[q] = hashes[q] /\ sound'[q] = sound[q]
  BY DEF IndInv, TypeOK
<1>3. \A q \in Procs \ {p} : PlaceInv(q)' /\ TarsInv(q)' /\ SoundInv(q)'
  BY <1>2, Others
<1>4. PlaceInv(p)' /\ TarsInv(p)' /\ SoundInv(p)'
  BY <1>2 DEF PlaceInv, TarsInv, SoundInv, Downloading, Indexing, Unpacking, Final
<1>5. IndexedTarsExist'
  BY DEF IndInv, IndexedTarsExist
<1> QED BY <1>1, <1>3, <1>4, <1>5, Assemble

\* A process begins.  It is sound only if nobody else is there.
LEMMA StartStep ==
    ASSUME IndInv, NEW p \in Procs, NEW c \in Commands, Start(p, c)
    PROVE  IndInv'
<1> USE DEF Start, Goto, disk
<1>1. TypeOK'
  BY DEF IndInv, TypeOK, Places
<1>2. /\ pc'[p] = "index" /\ pos'[p] = pos[p] /\ cmd'[p] = c
      /\ \A q \in Procs \ {p} : pc'[q] = pc[q] /\ ~sound'[q]
      /\ sound'[p] => (\A q \in Procs : ~Active(q)) /\ (Intact \/ c.redownload)
      /\ pc[p] = "idle"
  BY DEF IndInv, TypeOK, Active
<1>3. ASSUME NEW q \in Procs PROVE PlaceInv(q)' /\ TarsInv(q)'
  <2>1. PlaceInv(q) /\ TarsInv(q)
    BY DEF IndInv
  <2>2. CASE q = p
    BY <1>2, <2>1, <2>2 DEF PlaceInv, TarsInv, Downloading, Indexing, Unpacking, Final
  <2>3. CASE q # p
    BY <1>2, <2>1, <2>3 DEF PlaceInv, TarsInv, Current
  <2> QED BY <2>2, <2>3
<1>4. ASSUME NEW q \in Procs PROVE SoundInv(q)'
  <2>1. CASE q # p
    BY <1>2, <2>1 DEF SoundInv
  <2>2. CASE q = p
    <3>1. sound'[p] => Alone(p)' /\ HalfInv(p)'
      BY <1>2 DEF Alone, Active, HalfInv, Intact
    <3>2. SoundTars(p)' /\ SoundIndex(p)' /\ SoundLayers(p)'
      BY <1>2 DEF SoundTars, SoundIndex, SoundLayers, Downloading, Indexing, Unpacking, Final
    <3> QED BY <2>2, <3>1, <3>2 DEF SoundInv
  <2> QED BY <2>1, <2>2
<1>5. IndexedTarsExist'
  BY DEF IndInv, IndexedTarsExist
<1> QED BY <1>1, <1>3, <1>4, <1>5 DEF IndInv

\* The registry publishes the image anew, which changes nothing on disk.
LEMMA PublishStep ==
    ASSUME IndInv, Publish
    PROVE  IndInv'
<1> USE DEF Publish, disk, local
<1>1. TypeOK' /\ IndexedTarsExist'
  BY DEF IndInv, TypeOK, IndexedTarsExist
<1>2. \A p \in Procs : PlaceInv(p)' /\ TarsInv(p)'
  BY DEF IndInv, PlaceInv, TarsInv, Current
<1>3. \A p \in Procs : SoundInv(p)'
  BY DEF IndInv, SoundInv, Alone, Active, HalfInv, SoundTars, SoundIndex, SoundLayers, Current
<1> QED BY <1>1, <1>2, <1>3 DEF IndInv

\* The cached index is read.
LEMMA ReadIndexStep ==
    ASSUME IndInv, NEW p \in Procs, ReadIndex(p)
    PROVE  IndInv'
<1> USE DEF ReadIndex, Goto, disk
<1>1. TypeOK'
  BY DEF IndInv, TypeOK, Places
<1>2. /\ pc[p] = "index" /\ pc'[p] \in {"pull", "compare"} /\ cached'[p] = index
      /\ UNCHANGED <<index, tar, layer, hashes, pos, cmd, sound, good>>
      /\ \A q \in Procs \ {p} : pc'[q] = pc[q]
  BY DEF IndInv, TypeOK
<1>3. \A q \in Procs \ {p} : PlaceInv(q)' /\ TarsInv(q)' /\ SoundInv(q)'
  BY <1>2, Others DEF Active
<1>4. PlaceInv(p) /\ SoundInv(p)
  BY DEF IndInv
<1>5. PlaceInv(p)' /\ TarsInv(p)'
  BY <1>2, <1>4 DEF PlaceInv, TarsInv, Downloading, Indexing, Unpacking, Final
<1>6. SoundInv(p)'
  <2>1. Alone(p) /\ HalfInv(p) => Alone(p)' /\ HalfInv(p)'
    BY <1>2 DEF Alone, Active, HalfInv
  <2>2. SoundTars(p)' /\ SoundIndex(p)' /\ SoundLayers(p)'
    BY <1>2 DEF SoundTars, SoundIndex, SoundLayers, Downloading, Indexing, Unpacking, Final
  <2> QED BY <1>2, <1>4, <2>1, <2>2 DEF SoundInv
<1>7. IndexedTarsExist'
  BY <1>2 DEF IndInv, IndexedTarsExist
<1> QED BY <1>1, <1>3, <1>5, <1>6, <1>7, Assemble

\* The cached index is trusted if it is what the registry serves.
LEMMA CompareStep ==
    ASSUME IndInv, NEW p \in Procs, CompareManifest(p)
    PROVE  IndInv'
<1> USE DEF CompareManifest, Goto, disk
<1>0. /\ pc \in [Procs -> Places] /\ hashes \in [Procs -> Manifests \cup {<<>>}]
      /\ manifest \in Manifests /\ pc[p] = "compare" /\ PlaceInv(p) /\ SoundInv(p)
      /\ UNCHANGED <<manifest, index, tar, layer, cmd, pos, sound, good>> /\ pos[p] = 1
  BY DEF IndInv, TypeOK, PlaceInv
<1>1. /\ pc' \in [Procs -> Places] /\ hashes' \in [Procs -> Manifests \cup {<<>>}]
      /\ \A q \in Procs \ {p} : pc'[q] = pc[q] /\ hashes'[q] = hashes[q]
      /\ \/ pc'[p] = "pull" /\ hashes'[p] = hashes[p]
         \/ /\ pc'[p] = "layer" /\ hashes'[p] = cached[p]
            /\ cached[p] = manifest /\ ~cmd[p].redownload
  BY <1>0, SMTT(30) DEF Places
<1>2. cached' \in [Procs -> {Missing, Unreadable, <<>>} \cup Manifests]
  BY DEF IndInv, TypeOK
<1>3. \A q \in Procs : pos'[q] = 1 \/ pos'[q] \in 1..Len(hashes'[q])
  BY <1>0, <1>1 DEF IndInv, TypeOK
<1>4. TypeOK'
  BY <1>0, <1>1, <1>2, <1>3 DEF IndInv, TypeOK
<1>5. \A q \in Procs \ {p} : PlaceInv(q)' /\ TarsInv(q)' /\ SoundInv(q)'
  BY <1>0, <1>1, Others DEF Active
<1>6. PlaceInv(p)' /\ TarsInv(p)'
  BY <1>0, <1>1 DEF PlaceInv, TarsInv, Downloading, Indexing, Unpacking, Final
<1>7. SoundInv(p)'
  <2> SUFFICES ASSUME sound[p] PROVE SoundInv(p)'
    BY <1>0 DEF SoundInv
  <2>1. Alone(p) /\ HalfInv(p) /\ cached[p] = index
    BY <1>0 DEF SoundInv, SoundIndex
  <2>2. Alone(p)' /\ HalfInv(p)'
    BY <1>0, <1>1, <2>1 DEF Alone, Active, HalfInv
  <2>3. CASE pc'[p] = "pull"
    BY <2>2, <2>3
    DEF SoundInv, SoundTars, SoundIndex, SoundLayers, Downloading, Indexing, Unpacking, Final
  <2>4. CASE pc'[p] = "layer"
    <3>1. index \in Manifests /\ hashes'[p] = index /\ ~cmd[p].redownload
      BY <1>0, <1>1, <2>1, <2>4
    <3>2. \A i \in 1..Len(index) : index[i] \in Layers /\ tar[index[i]] # "none"
      BY <3>1, ByPosition, ManifestFacts DEF IndInv
    <3>3. \A l \in Layers : tar[l] \in {"none", "full"}
      BY <1>0, <2>1, <3>1 DEF HalfInv
    <3>4. SoundTars(p)' /\ SoundIndex(p)'
      BY <1>0, <2>4, <3>1, <3>2, <3>3
      DEF SoundTars, SoundIndex, Downloading, Indexing, Unpacking, Final
    <3>5. SoundLayers(p)'
      BY <1>0, <2>4 DEF SoundLayers, Unpacking, Final
    <3> QED BY <2>2, <3>4, <3>5 DEF SoundInv
  <2> QED BY <1>1, <2>3, <2>4
<1>8. IndexedTarsExist'
  BY <1>0 DEF IndInv, IndexedTarsExist
<1> QED BY <1>4, <1>5, <1>6, <1>7, <1>8, Assemble

\* The manifest is fetched.
LEMMA PullStep ==
    ASSUME IndInv, NEW p \in Procs, Pull(p)
    PROVE  IndInv'
<1> USE DEF Pull, Goto, disk
<1>0. /\ manifest \in Manifests /\ pc[p] = "pull" /\ PlaceInv(p) /\ SoundInv(p) /\ pos[p] = 1
      /\ UNCHANGED <<manifest, index, tar, layer, cmd, pos, sound, good>>
  BY DEF IndInv, TypeOK, PlaceInv
<1>1. /\ pc' \in [Procs -> Places] /\ hashes' \in [Procs -> Manifests \cup {<<>>}]
      /\ \A q \in Procs \ {p} : pc'[q] = pc[q] /\ hashes'[q] = hashes[q]
      /\ pc'[p] = "tar_begin" /\ hashes'[p] = manifest
  BY DEF IndInv, TypeOK, Places
<1>2. \A q \in Procs : pos'[q] = 1 \/ pos'[q] \in 1..Len(hashes'[q])
  BY <1>0, <1>1 DEF IndInv, TypeOK
<1>3. TypeOK'
  BY <1>0, <1>1, <1>2 DEF IndInv, TypeOK
<1>4. \A q \in Procs \ {p} : PlaceInv(q)' /\ TarsInv(q)' /\ SoundInv(q)'
  BY <1>0, <1>1, Others DEF Active
<1>5. PlaceInv(p)' /\ TarsInv(p)'
  BY <1>0, <1>1 DEF PlaceInv, TarsInv, Downloading, Indexing, Unpacking, Final
<1>6. SoundInv(p)'
  <2>1. Alone(p) /\ HalfInv(p) => Alone(p)' /\ HalfInv(p)'
    BY <1>0, <1>1 DEF Alone, Active, HalfInv
  <2>2. SoundTars(p)' /\ SoundIndex(p)' /\ SoundLayers(p)'
    BY <1>0, <1>1 DEF SoundTars, SoundIndex, SoundLayers, Downloading, Indexing, Unpacking, Final
  <2> QED BY <1>0, <2>1, <2>2 DEF SoundInv
<1>7. IndexedTarsExist'
  BY <1>0 DEF IndInv, IndexedTarsExist
<1> QED BY <1>3, <1>4, <1>5, <1>6, <1>7, Assemble

\* A tar file is truncated and written; it does not go away.
LEMMA TarBeginStep ==
    ASSUME IndInv, NEW p \in Procs, TarBegin(p)
    PROVE  IndInv'
<1>0. /\ pc[p] = "tar_begin" /\ PlaceInv(p) /\ TarsInv(p) /\ SoundInv(p) /\ TypeOK
      /\ tar \in [Layers -> {"none", "full"} \cup Procs]
      /\ tar' = [tar EXCEPT ![Current(p)] = p] /\ pc' = [pc EXCEPT ![p] = "tar_end"]
      /\ UNCHANGED <<manifest, index, layer, instances, markers, cmd, name, cached, hashes, pos, sound>>
  BY DEF IndInv, TypeOK, TarBegin, Goto
<1>1. hashes[p] \in Manifests
  BY <1>0 DEF PlaceInv, Downloading
<1>2. /\ pos[p] \in 1..Len(hashes[p]) /\ Len(hashes[p]) \in Nat
      /\ Current(p) \in Layers /\ Current(p)' = Current(p)
      /\ \A i \in 1..Len(hashes[p]) : hashes[p][i] \in Layers
  BY <1>0, <1>1, AtLayer DEF Current
<1>3. /\ tar' \in [Layers -> {"none", "full"} \cup Procs] /\ tar'[Current(p)] = p
      /\ \A l \in Layers \ {Current(p)} : tar'[l] = tar[l]
      /\ p # "none" /\ \A l \in Layers : tar[l] # "none" => tar'[l] # "none"
  BY <1>0, <1>2
<1>4. /\ pc' \in [Procs -> Places] /\ pc'[p] = "tar_end"
      /\ \A q \in Procs \ {p} : pc'[q] = pc[q]
  BY <1>0 DEF TypeOK, Places
<1>5. TypeOK'
  <2>1. good' \in [Procs -> BOOLEAN]
    BY DEF TarBegin, IndInv, TypeOK
  <2> QED BY <1>0, <1>3, <1>4, <2>1 DEF TypeOK
<1>6. \A q \in Procs \ {p} : PlaceInv(q)' /\ TarsInv(q)' /\ SoundInv(q)'
  BY <1>0, <1>3, <1>4, Others DEF Active
<1>7. PlaceInv(p)' /\ TarsInv(p)'
  BY <1>0, <1>1, <1>2, <1>3, <1>4 DEF PlaceInv, TarsInv, Downloading, Indexing, Unpacking, Final
<1>8. SoundInv(p)'
  <2> SUFFICES ASSUME sound[p] PROVE SoundInv(p)'
    BY <1>0 DEF SoundInv
  <2>1. Alone(p) /\ HalfInv(p) /\ SoundTars(p)
    BY <1>0 DEF SoundInv
  <2>2. Alone(p)' /\ HalfInv(p)'
    BY <1>0, <1>2, <1>3, <1>4, <2>1 DEF Alone, Active, HalfInv
  <2>3. SoundTars(p)'
    BY <1>0, <1>2, <1>3, <1>4, <2>1 DEF SoundTars, Downloading, Indexing, Unpacking, Final
  <2>4. SoundIndex(p)' /\ SoundLayers(p)'
    BY <1>4 DEF SoundIndex, SoundLayers, Unpacking, Final
  <2> QED BY <2>2, <2>3, <2>4 DEF SoundInv
<1>9. IndexedTarsExist'
  <2>1. index \in Manifests => \A i \in 1..Len(index) : index[i] \in Layers /\ tar[index[i]] # "none"
    BY ByPosition, ManifestFacts DEF IndInv
  <2> QED BY <1>0, <1>3, <2>1 DEF IndexedTarsExist, Listed
<1> QED BY <1>5, <1>6, <1>7, <1>8, <1>9, Assemble

\* A tar file is complete if nobody has begun it again; on to the next one.
LEMMA TarEndStep ==
    ASSUME IndInv, NEW p \in Procs, TarEnd(p)
    PROVE  IndInv'
<1>0. /\ pc[p] = "tar_end" /\ PlaceInv(p) /\ TarsInv(p) /\ SoundInv(p) /\ TypeOK
      /\ tar \in [Layers -> {"none", "full"} \cup Procs]
      /\ tar' = [tar EXCEPT ![Current(p)] = IF @ = p THEN "full" ELSE @]
      /\ Advance(p, "tar_begin", "index_create")
      /\ UNCHANGED <<manifest, index, layer, instances, markers, cmd, name, cached, hashes, good, sound>>
  BY DEF IndInv, TypeOK, TarEnd, Completed
<1>1. hashes[p] \in Manifests
  BY <1>0 DEF PlaceInv, Downloading
<1>2. /\ pos[p] \in 1..Len(hashes[p]) /\ Len(hashes[p]) \in Nat
      /\ Current(p) = hashes[p][pos[p]] /\ Current(p) \in Layers
      /\ \A i \in 1..Len(hashes[p]) : hashes[p][i] \in Layers
  BY <1>0, <1>1, AtLayer
<1>3. /\ tar' \in [Layers -> {"none", "full"} \cup Procs]
      /\ tar'[Current(p)] = (IF tar[Current(p)] = p THEN "full" ELSE tar[Current(p)])
      /\ \A l \in Layers \ {Current(p)} : tar'[l] = tar[l]
      /\ \A l \in Layers : tar[l] # "none" => tar'[l] # "none"
  BY <1>0, <1>2, SMTT(30)
<1>4. /\ pc' \in [Procs -> Places] /\ pos' \in [Procs -> Nat]
      /\ \A q \in Procs \ {p} : pc'[q] = pc[q] /\ pos'[q] = pos[q]
      /\ \/ pos[p] < Len(hashes[p]) /\ pos'[p] = pos[p] + 1 /\ pc'[p] = "tar_begin"
         \/ pos[p] = Len(hashes[p]) /\ pos'[p] = 1 /\ pc'[p] = "index_create"
  BY <1>0, <1>1, Advanced DEF Places
<1>5. TypeOK'
  <2>1. pos'[p] = 1 \/ pos'[p] \in 1..Len(hashes[p])
    BY <1>2, <1>4
  <2>2. \A q \in Procs : pos'[q] = 1 \/ pos'[q] \in 1..Len(hashes'[q])
    BY <1>0, <1>4, <2>1 DEF TypeOK
  <2> QED BY <1>0, <1>3, <1>4, <2>2 DEF TypeOK
<1>6. \A q \in Procs \ {p} : PlaceInv(q)' /\ TarsInv(q)' /\ SoundInv(q)'
  BY <1>0, <1>3, <1>4, Others DEF Active
<1>7. \A i \in 1..pos[p] : i = pos[p] \/ i \in 1..(pos[p] - 1)
  BY <1>2
<1>8. PlaceInv(p)' /\ TarsInv(p)'
  <2>1. PlaceInv(p)'
    BY <1>0, <1>1, <1>4 DEF PlaceInv, Indexing
  <2>2. \A i \in 1..pos[p] : tar'[hashes[p][i]] # "none"
    BY <1>0, <1>2, <1>3, <1>7 DEF TarsInv, Downloading
  <2> QED BY <1>0, <1>2, <1>4, <2>1, <2>2 DEF TarsInv, Downloading, Indexing
<1>9. SoundInv(p)'
  <2> SUFFICES ASSUME sound[p] PROVE SoundInv(p)'
    BY <1>0 DEF SoundInv
  <2>1. Alone(p) /\ HalfInv(p) /\ SoundTars(p)
    BY <1>0 DEF SoundInv
  <2>2. tar'[Current(p)] = "full"
    BY <1>0, <1>3, <2>1 DEF SoundTars
  <2>3. Alone(p)' /\ HalfInv(p)'
    BY <1>0, <1>2, <1>3, <1>4, <2>1, <2>2 DEF Alone, Active, HalfInv
  <2>4. \A i \in 1..pos[p] : tar'[hashes[p][i]] = "full"
    BY <1>0, <1>2, <1>3, <1>7, <2>1, <2>2 DEF SoundTars, Downloading
  <2>5. SoundTars(p)'
    BY <1>0, <1>2, <1>4, <2>4, SMTT(30) DEF SoundTars, Downloading, Indexing, Unpacking, Final
  <2>6. SoundIndex(p)' /\ SoundLayers(p)'
    BY <1>4 DEF SoundIndex, SoundLayers, Unpacking, Final
  <2> QED BY <2>3, <2>5, <2>6 DEF SoundInv
<1>10. IndexedTarsExist'
  <2>1. index \in Manifests => \A i \in 1..Len(index) : index[i] \in Layers /\ tar[index[i]] # "none"
    BY ByPosition, ManifestFacts DEF IndInv
  <2> QED BY <1>0, <1>3, <2>1 DEF IndexedTarsExist, Listed
<1> QED BY <1>5, <1>6, <1>8, <1>9, <1>10, Assemble

\* The index is truncated.
LEMMA IndexCreateStep ==
    ASSUME IndInv, NEW p \in Procs, IndexCreate(p)
    PROVE  IndInv'
<1>0. /\ pc[p] = "index_create" /\ PlaceInv(p) /\ TarsInv(p) /\ SoundInv(p) /\ TypeOK
      /\ index' = <<>> /\ pc' = [pc EXCEPT ![p] = "index_write"]
      /\ UNCHANGED <<manifest, tar, layer, instances, markers, cmd, name, cached, hashes, pos, good, sound>>
  BY DEF IndInv, IndexCreate, Goto, local
<1>1. /\ pc' \in [Procs -> Places] /\ pc'[p] = "index_write"
      /\ \A q \in Procs \ {p} : pc'[q] = pc[q]
  BY <1>0 DEF TypeOK, Places
<1>2. TypeOK'
  BY <1>0, <1>1 DEF TypeOK
<1>3. \A q \in Procs \ {p} : PlaceInv(q)' /\ TarsInv(q)' /\ SoundInv(q)'
  BY <1>0, <1>1, Others DEF Active
<1>4. PlaceInv(p)' /\ TarsInv(p)'
  BY <1>0, <1>1 DEF PlaceInv, TarsInv, Downloading, Indexing, Unpacking, Final
<1>5. SoundInv(p)'
  <2>1. Alone(p) /\ HalfInv(p) => Alone(p)' /\ HalfInv(p)'
    BY <1>0, <1>1 DEF Alone, Active, HalfInv
  <2>2. SoundTars(p) => SoundTars(p)'
    BY <1>0, <1>1 DEF SoundTars, Downloading, Indexing, Unpacking, Final
  <2>3. SoundIndex(p)' /\ SoundLayers(p)'
    BY <1>0, <1>1 DEF SoundIndex, SoundLayers, Unpacking, Final
  <2> QED BY <1>0, <2>1, <2>2, <2>3 DEF SoundInv
<1>6. IndexedTarsExist'
  BY <1>0, ManifestFacts DEF IndexedTarsExist
<1> QED BY <1>2, <1>3, <1>4, <1>5, <1>6, Assemble

\* The index is written: what it lists has been downloaded.
LEMMA IndexWriteStep ==
    ASSUME IndInv, NEW p \in Procs, IndexWrite(p)
    PROVE  IndInv'
<1>0. /\ pc[p] = "index_write" /\ PlaceInv(p) /\ TarsInv(p) /\ SoundInv(p) /\ TypeOK
      /\ index' \in {hashes[p], Unreadable} /\ pc' = [pc EXCEPT ![p] = "layer"]
      /\ index = <<>> /\ hashes[p] \in Manifests => index' = hashes[p]
      /\ UNCHANGED <<manifest, tar, layer, instances, markers, cmd, name, cached, hashes, pos, good, sound>>
  <2>1. index = <<>> /\ hashes[p] \in Manifests => index # Unreadable /\ Len(index) <= Len(hashes[p])
    BY ManifestFacts DEF Unreadable
  <2> QED BY <2>1 DEF IndInv, IndexWrite, Goto, local
<1>1. hashes[p] \in Manifests
  BY <1>0 DEF PlaceInv, Indexing
<1>2. /\ pc' \in [Procs -> Places] /\ pc'[p] = "layer"
      /\ \A q \in Procs \ {p} : pc'[q] = pc[q]
  BY <1>0 DEF TypeOK, Places
<1>3. TypeOK'
  BY <1>0, <1>1, <1>2 DEF TypeOK
<1>4. \A q \in Procs \ {p} : PlaceInv(q)' /\ TarsInv(q)' /\ SoundInv(q)'
  BY <1>0, <1>2, Others DEF Active
<1>5. PlaceInv(p)' /\ TarsInv(p)'
  BY <1>0, <1>1, <1>2 DEF PlaceInv, TarsInv, Downloading, Indexing, Unpacking, Final
<1>6. pos[p] = 1
  BY <1>0 DEF PlaceInv, Indexing
<1>7. SoundInv(p)'
  <2> SUFFICES ASSUME sound[p] PROVE SoundInv(p)'
    BY <1>0 DEF SoundInv
  <2>1. Alone(p) /\ HalfInv(p) /\ SoundTars(p) /\ index = <<>>
    BY <1>0 DEF SoundInv, SoundIndex
  <2>2. Alone(p)' /\ HalfInv(p)'
    BY <1>0, <1>2, <2>1 DEF Alone, Active, HalfInv
  <2>3. SoundTars(p)'
    BY <1>0, <1>2, <2>1 DEF SoundTars, Downloading, Indexing, Unpacking, Final
  <2>4. SoundIndex(p)'
    BY <1>0, <1>1, <1>2, <2>1 DEF SoundIndex, Unpacking, Final
  <2>5. SoundLayers(p)'
    BY <1>0, <1>2, <1>6 DEF SoundLayers, Unpacking, Final
  <2> QED BY <2>2, <2>3, <2>4, <2>5 DEF SoundInv
<1>8. IndexedTarsExist'
  <2>1. CASE index' = Unreadable
    BY <2>1, ManifestFacts DEF IndexedTarsExist
  <2>2. CASE index' = hashes[p]
    <3>1. \A i \in 1..Len(hashes[p]) : tar[hashes[p][i]] # "none"
      BY <1>0 DEF TarsInv, Indexing
    <3> QED BY <1>0, <2>2, <3>1 DEF IndexedTarsExist, Listed
  <2> QED BY <1>0, <2>1, <2>2
<1> QED BY <1>3, <1>4, <1>5, <1>7, <1>8, Assemble

\* A loop over the layers is done with the one it is at, which is complete if p is sound.
LEMMA LayerDone ==
    ASSUME IndInv, NEW p \in Procs, pc[p] \in Unpacking, Advance(p, "layer", AfterLayers(p)),
           UNCHANGED <<manifest, index, tar, instances, markers, cmd, name, cached, hashes>>,
           layer' \in [Layers -> {"none", "full"} \cup Procs],
           good' \in [Procs -> BOOLEAN], sound' \in [Procs -> BOOLEAN],
           \A q \in Procs \ {p} : sound'[q] = sound[q],
           sound'[p] => /\ sound[p] /\ layer'[Current(p)] = "full"
                        /\ \A l \in Layers \ {Current(p)} : layer'[l] = layer[l]
    PROVE  IndInv'
<1>0. PlaceInv(p) /\ SoundInv(p) /\ TypeOK
  BY DEF IndInv
<1>1. hashes[p] \in Manifests
  BY <1>0 DEF PlaceInv
<1>2. /\ pos[p] \in 1..Len(hashes[p]) /\ Len(hashes[p]) \in Nat
      /\ Current(p) = hashes[p][pos[p]] /\ Current(p) \in Layers
      /\ \A i \in 1..Len(hashes[p]) : hashes[p][i] \in Layers
  BY <1>0, <1>1, AtLayer
<1>3. AfterLayers(p) \in {"instance", "pulled"}
  BY DEF AfterLayers
<1>4. /\ pc' \in [Procs -> Places] /\ pos' \in [Procs -> Nat]
      /\ \A q \in Procs \ {p} : pc'[q] = pc[q] /\ pos'[q] = pos[q]
      /\ \/ pos[p] < Len(hashes[p]) /\ pos'[p] = pos[p] + 1 /\ pc'[p] = "layer"
         \/ pos[p] = Len(hashes[p]) /\ pos'[p] = 1 /\ pc'[p] \in {"instance", "pulled"}
  <2>1. "layer" \in Places /\ AfterLayers(p) \in Places
    BY <1>3 DEF Places
  <2> QED BY <1>0, <1>1, <1>3, <2>1, Advanced
<1>5. TypeOK'
  <2>1. pos'[p] = 1 \/ pos'[p] \in 1..Len(hashes[p])
    BY <1>2, <1>4
  <2>2. \A q \in Procs : pos'[q] = 1 \/ pos'[q] \in 1..Len(hashes'[q])
    BY <1>0, <1>4, <2>1 DEF TypeOK
  <2> QED BY <1>0, <1>4, <2>2 DEF TypeOK
<1>6. \A q \in Procs \ {p} : PlaceInv(q)' /\ TarsInv(q)' /\ SoundInv(q)'
  BY <1>4, Others DEF Active, Unpacking
<1>7. PlaceInv(p)' /\ TarsInv(p)'
  BY <1>1, <1>4 DEF PlaceInv, TarsInv, Downloading, Indexing
<1>8. SoundInv(p)'
  <2> SUFFICES ASSUME sound'[p] PROVE SoundInv(p)'
    BY DEF SoundInv
  <2>1. Alone(p) /\ HalfInv(p) /\ SoundTars(p) /\ SoundIndex(p) /\ SoundLayers(p)
    BY <1>0 DEF SoundInv
  <2>2. Alone(p)' /\ HalfInv(p)'
    BY <1>4, <2>1 DEF Alone, Active, HalfInv, Unpacking
  <2>3. SoundTars(p)' /\ SoundIndex(p)'
    BY <1>4, <2>1 DEF SoundTars, SoundIndex, Downloading, Indexing, Unpacking, Final
  <2>4. \A i \in 1..pos[p] : layer'[hashes[p][i]] = "full"
    <3>1. \A i \in 1..pos[p] : i = pos[p] \/ i \in 1..(pos[p] - 1)
      BY <1>2
    <3> QED BY <1>2, <2>1, <3>1 DEF SoundLayers
  <2>5. SoundLayers(p)'
    BY <1>2, <1>4, <2>4 DEF SoundLayers, Unpacking, Final
  <2> QED BY <2>2, <2>3, <2>5 DEF SoundInv
<1>9. IndexedTarsExist'
  BY DEF IndInv, IndexedTarsExist
<1> QED BY <1>5, <1>6, <1>7, <1>8, <1>9, Assemble

\* A process goes on with the layer it is at.
LEMMA SameLayer ==
    ASSUME IndInv, NEW p \in Procs, NEW place \in {"remove", "launch", "unpack"},
           pc[p] \in {"layer", "remove", "launch"}, pc' = [pc EXCEPT ![p] = place],
           UNCHANGED <<manifest, index, tar, instances, markers, cmd, name, cached, hashes, pos, sound>>,
           layer' \in [Layers -> {"none", "full"} \cup Procs], good' \in [Procs -> BOOLEAN],
           \A l \in Layers \ {Current(p)} : layer'[l] = layer[l],
           place = "remove" => pc[p] = "layer" /\ cmd[p].redownload /\ layer' = layer,
           place = "launch" => layer'[Current(p)] = "none",
           sound[p] /\ place = "unpack" => layer'[Current(p)] = p /\ good'[p]
    PROVE  IndInv'
<1>0. PlaceInv(p) /\ SoundInv(p) /\ TypeOK
  BY DEF IndInv
<1>1. hashes[p] \in Manifests
  BY <1>0 DEF PlaceInv, Unpacking
<1>2. /\ pos[p] \in 1..Len(hashes[p]) /\ Len(hashes[p]) \in Nat
      /\ Current(p) \in Layers /\ Current(p)' = Current(p)
      /\ \A i \in 1..Len(hashes[p]) : hashes[p][i] \in Layers
  BY <1>0, <1>1, AtLayer DEF Current
<1>3. /\ pc' \in [Procs -> Places] /\ pc'[p] = place
      /\ \A q \in Procs \ {p} : pc'[q] = pc[q]
  BY <1>0 DEF TypeOK, Places
<1>4. TypeOK'
  BY <1>0, <1>3 DEF TypeOK
<1>5. \A q \in Procs \ {p} : PlaceInv(q)' /\ TarsInv(q)' /\ SoundInv(q)'
  BY <1>3, Others DEF Active
<1>6. PlaceInv(p)' /\ TarsInv(p)'
  BY <1>1, <1>3 DEF PlaceInv, TarsInv, Downloading, Indexing
<1>7. SoundInv(p)'
  <2> SUFFICES ASSUME sound[p] PROVE SoundInv(p)'
    BY DEF SoundInv
  <2>1. Alone(p) /\ HalfInv(p) /\ SoundTars(p) /\ SoundIndex(p) /\ SoundLayers(p)
    BY <1>0 DEF SoundInv
  <2>2. Alone(p)' /\ HalfInv(p)'
    BY <1>2, <1>3, <2>1 DEF Alone, Active, HalfInv
  <2>3. SoundTars(p)' /\ SoundIndex(p)'
    BY <1>3, <2>1 DEF SoundTars, SoundIndex, Downloading, Indexing, Unpacking, Final
  <2>4. SoundLayers(p)'
    BY <1>2, <1>3, <2>1 DEF SoundLayers, Unpacking, Final
  <2> QED BY <2>2, <2>3, <2>4 DEF SoundInv
<1>8. IndexedTarsExist'
  BY DEF IndInv, IndexedTarsExist
<1> QED BY <1>4, <1>5, <1>6, <1>7, <1>8, Assemble

\* All layers are unpacked, and stay so while the instance is made.
LEMMA FinalStep ==
    ASSUME IndInv, NEW p \in Procs, NEW place \in Final,
           pc[p] \in Final, pc' = [pc EXCEPT ![p] = place],
           UNCHANGED <<manifest, index, tar, layer, cmd, cached, hashes, pos, good, sound>>,
           markers' \subseteq instances', instances' \subseteq Names,
           name' \in [Procs -> Names \cup {NoName}]
    PROVE  IndInv'
<1>0. PlaceInv(p) /\ SoundInv(p) /\ TypeOK
  BY DEF IndInv
<1>1. /\ pc' \in [Procs -> Places] /\ pc'[p] = place
      /\ \A q \in Procs \ {p} : pc'[q] = pc[q]
  BY <1>0 DEF TypeOK, Places, Final
<1>2. TypeOK'
  BY <1>0, <1>1 DEF TypeOK
<1>3. \A q \in Procs \ {p} : PlaceInv(q)' /\ TarsInv(q)' /\ SoundInv(q)'
  BY <1>1, Others DEF Active, Final
<1>4. PlaceInv(p)' /\ TarsInv(p)'
  BY <1>0, <1>1 DEF PlaceInv, TarsInv, Downloading, Indexing, Unpacking, Final
<1>5. SoundInv(p)'
  <2>1. Alone(p) /\ HalfInv(p) => Alone(p)' /\ HalfInv(p)'
    BY <1>1 DEF Alone, Active, HalfInv, Final
  <2>2. SoundTars(p) /\ SoundIndex(p) => SoundTars(p)' /\ SoundIndex(p)'
    BY <1>1 DEF SoundTars, SoundIndex, Downloading, Indexing, Unpacking, Final
  <2>3. SoundLayers(p) => SoundLayers(p)'
    BY <1>1 DEF SoundLayers, Unpacking, Final
  <2> QED BY <1>0, <2>1, <2>2, <2>3 DEF SoundInv
<1>6. IndexedTarsExist'
  BY DEF IndInv, IndexedTarsExist
<1> QED BY <1>2, <1>3, <1>4, <1>5, <1>6, Assemble

\* What is known of a process that unpacks.
LEMMA UnpackingFacts ==
    ASSUME IndInv, NEW p \in Procs, pc[p] \in Unpacking
    PROVE  /\ Current(p) \in Layers /\ layer \in [Layers -> {"none", "full"} \cup Procs]
           /\ good \in [Procs -> BOOLEAN] /\ sound \in [Procs -> BOOLEAN]
           /\ sound[p] => HalfInv(p) /\ tar[Current(p)] = "full" /\ SoundLayers(p)
<1>1. TypeOK /\ PlaceInv(p) /\ SoundInv(p)
  BY DEF IndInv
<1>2. hashes[p] \in Manifests
  BY <1>1 DEF PlaceInv
<1>3. Current(p) = hashes[p][pos[p]] /\ pos[p] \in 1..Len(hashes[p]) /\ Current(p) \in Layers
  BY <1>1, <1>2, AtLayer
<1> QED BY <1>1, <1>3 DEF TypeOK, SoundInv, SoundTars

LEMMA CheckLayerStep ==
    ASSUME IndInv, NEW p \in Procs, CheckLayer(p)
    PROVE  IndInv'
<1>0. /\ pc[p] = "layer" /\ pc[p] \in Unpacking
      /\ UNCHANGED <<manifest, index, tar, layer, instances, markers, cmd, name, cached, hashes, good, sound>>
  BY DEF CheckLayer, disk, Unpacking
<1>1. /\ Current(p) \in Layers /\ layer \in [Layers -> {"none", "full"} \cup Procs]
      /\ good \in [Procs -> BOOLEAN] /\ sound \in [Procs -> BOOLEAN] /\ (sound[p] => HalfInv(p))
  BY <1>0, UnpackingFacts
<1>2. CASE layer[Current(p)] # "none" /\ ~cmd[p].redownload
  <2>1. Advance(p, "layer", AfterLayers(p))
    BY <1>2 DEF CheckLayer
  <2>2. sound[p] => layer[Current(p)] = "full"
    BY <1>0, <1>1, <1>2 DEF HalfInv
  <2> QED BY <1>0, <1>1, <2>1, <2>2, LayerDone
<1>3. CASE ~(layer[Current(p)] # "none" /\ ~cmd[p].redownload)
  <2>1. /\ pc' = [pc EXCEPT ![p] = IF layer[Current(p)] = "none" THEN "launch" ELSE "remove"]
        /\ pos' = pos
    BY <1>3 DEF CheckLayer, Goto
  <2>2. CASE layer[Current(p)] = "none"
    <3>1. pc' = [pc EXCEPT ![p] = "launch"]
      BY <2>1, <2>2
    <3> QED BY <1>0, <1>1, <2>1, <2>2, <3>1, SameLayer
  <2>3. CASE layer[Current(p)] # "none"
    <3>1. pc' = [pc EXCEPT ![p] = "remove"]
      BY <2>1, <2>3
    <3> QED BY <1>0, <1>1, <1>3, <2>1, <2>3, <3>1, SameLayer
  <2> QED BY <2>2, <2>3
<1> QED BY <1>2, <1>3

LEMMA RemoveLayerStep ==
    ASSUME IndInv, NEW p \in Procs, RemoveLayer(p)
    PROVE  IndInv'
<1>0. /\ pc[p] = "remove" /\ pc[p] \in Unpacking /\ Active(p)
      /\ UNCHANGED <<manifest, index, tar, instances, markers>>
  BY DEF RemoveLayer, Unpacking, Active
<1>1. /\ Current(p) \in Layers /\ layer \in [Layers -> {"none", "full"} \cup Procs]
      /\ good \in [Procs -> BOOLEAN]
  BY <1>0, UnpackingFacts
<1>2. CASE layer' = [layer EXCEPT ![Current(p)] = "none"] /\ Goto(p, "launch") /\ UNCHANGED <<local, sound>>
  <2>1. /\ pc' = [pc EXCEPT ![p] = "launch"]
        /\ UNCHANGED <<cmd, name, cached, hashes, pos, good, sound>>
    BY <1>2 DEF Goto, local
  <2>2. /\ layer' \in [Layers -> {"none", "full"} \cup Procs] /\ layer'[Current(p)] = "none"
        /\ \A l \in Layers \ {Current(p)} : layer'[l] = layer[l]
    BY <1>1, <1>2
  <2> QED BY <1>0, <1>1, <2>1, <2>2, SameLayer
<1>3. CASE layer' = [layer EXCEPT ![Current(p)] = p] /\ Over(p)
  <2>1. layer' \in [Layers -> {"none", "full"} \cup Procs]
    BY <1>1, <1>3
  <2>2. markers' \subseteq instances' /\ instances' \subseteq Names
    BY <1>0 DEF IndInv, TypeOK
  <2> QED BY <1>0, <1>3, <2>1, <2>2, OverStep
<1> QED BY <1>2, <1>3 DEF RemoveLayer

LEMMA LaunchStep ==
    ASSUME IndInv, NEW p \in Procs, Launch(p)
    PROVE  IndInv'
<1>0. /\ pc[p] = "launch" /\ pc[p] \in Unpacking
      /\ UNCHANGED <<manifest, index, tar, instances, markers, cmd, name, cached, hashes, sound>>
  BY DEF Launch, Unpacking
<1>1. /\ Current(p) \in Layers /\ layer \in [Layers -> {"none", "full"} \cup Procs]
      /\ good \in [Procs -> BOOLEAN] /\ sound \in [Procs -> BOOLEAN]
      /\ sound[p] => tar[Current(p)] = "full"
  BY <1>0, UnpackingFacts
<1>2. CASE tar[Current(p)] = "none"
  <2>1. Advance(p, "layer", AfterLayers(p)) /\ UNCHANGED <<layer, good>>
    BY <1>2 DEF Launch
  <2>2. ~sound[p]
    BY <1>1, <1>2
  <2> QED BY <1>0, <1>1, <2>1, <2>2, LayerDone
<1>3. CASE tar[Current(p)] # "none"
  <2>1. /\ layer' = [layer EXCEPT ![Current(p)] = p] /\ pc' = [pc EXCEPT ![p] = "unpack"]
        /\ good' = [good EXCEPT ![p] = tar[Current(p)] = "full"] /\ pos' = pos
    BY <1>3 DEF Launch, Goto
  <2>2. /\ layer' \in [Layers -> {"none", "full"} \cup Procs] /\ layer'[Current(p)] = p
        /\ \A l \in Layers \ {Current(p)} : layer'[l] = layer[l]
    BY <1>1, <2>1
  <2>3. good' \in [Procs -> BOOLEAN] /\ (sound[p] => good'[p])
    BY <1>1, <2>1
  <2> QED BY <1>0, <2>1, <2>2, <2>3, SameLayer
<1> QED BY <1>2, <1>3

LEMMA UnpackedStep ==
    ASSUME IndInv, NEW p \in Procs, Unpacked(p)
    PROVE  IndInv'
<1>0. /\ pc[p] = "unpack" /\ pc[p] \in Unpacking /\ Advance(p, "layer", AfterLayers(p))
      /\ UNCHANGED <<manifest, index, tar, instances, markers, cmd, name, cached, hashes>>
      /\ good' = [good EXCEPT ![p] = FALSE]
  BY DEF Unpacked, Unpacking
<1>1. /\ Current(p) \in Layers /\ layer \in [Layers -> {"none", "full"} \cup Procs]
      /\ good \in [Procs -> BOOLEAN] /\ sound \in [Procs -> BOOLEAN]
      /\ sound[p] => layer[Current(p)] = p /\ good[p]
  BY <1>0, UnpackingFacts DEF SoundLayers
<1>2. good' \in [Procs -> BOOLEAN]
  BY <1>0, <1>1
<1>3. CASE layer' = Completed(layer, Current(p), p) /\ sound' = sound
  <2>1. layer' = [layer EXCEPT ![Current(p)] = IF layer[Current(p)] = p THEN "full" ELSE layer[Current(p)]]
    BY <1>3 DEF Completed
  <2>2. /\ layer' \in [Layers -> {"none", "full"} \cup Procs]
        /\ sound[p] => layer'[Current(p)] = "full"
        /\ \A l \in Layers \ {Current(p)} : layer'[l] = layer[l]
    BY <1>1, <2>1
  <2> QED BY <1>0, <1>1, <1>2, <1>3, <2>2, LayerDone
<1>4. CASE sound' = [sound EXCEPT ![p] = @ /\ ~good[p]] /\ layer' = layer
  <2>1. sound' \in [Procs -> BOOLEAN] /\ ~sound'[p] /\ \A q \in Procs \ {p} : sound'[q] = sound[q]
    BY <1>1, <1>4
  <2> QED BY <1>0, <1>1, <1>2, <1>4, <2>1, LayerDone
<1> QED BY <1>3, <1>4 DEF Unpacked

LEMMA InstanceStep ==
    ASSUME IndInv, NEW p \in Procs,
           CheckRunning(p) \/ \E n \in Names : CreateInstance(p, n)
    PROVE  IndInv'
<1>0. markers \subseteq instances /\ instances \subseteq Names /\ name \in [Procs -> Names \cup {NoName}]
      /\ layer \in [Layers -> {"none", "full"} \cup Procs]
  BY DEF IndInv, TypeOK
<1>1. CASE CheckRunning(p)
  <2>1. pc[p] = "instance" /\ Active(p) /\ UNCHANGED <<manifest, index, tar, layer, instances, markers>>
    BY <1>1 DEF CheckRunning, disk, Active
  <2>2. CASE Over(p)
    BY <1>0, <2>1, <2>2, OverStep
  <2>3. CASE Goto(p, "create") /\ UNCHANGED <<local, sound>>
    <3>1. pc' = [pc EXCEPT ![p] = "create"] /\ UNCHANGED <<cmd, name, cached, hashes, pos, good, sound>>
      BY <2>3 DEF Goto, local
    <3>2. pc[p] \in Final /\ "create" \in Final
      BY <2>1 DEF Final
    <3> QED BY <1>0, <2>1, <3>1, <3>2, FinalStep
  <2> QED BY <1>1, <2>2, <2>3 DEF CheckRunning
<1>2. CASE \E n \in Names : CreateInstance(p, n)
  <2>1. PICK n \in Names : CreateInstance(p, n)
    BY <1>2
  <2>2. /\ pc[p] \in Final /\ "running" \in Final /\ pc' = [pc EXCEPT ![p] = "running"]
        /\ UNCHANGED <<manifest, index, tar, layer, cmd, cached, hashes, pos, good, sound>>
        /\ markers' \subseteq instances' /\ instances' \subseteq Names
        /\ name' \in [Procs -> Names \cup {NoName}]
    BY <1>0, <2>1 DEF CreateInstance, Goto, Final
  <2> QED BY <2>2, FinalStep
<1> QED BY <1>1, <1>2

\* The ways a process comes to its end: it is killed, pull returns, run returns.
LEMMA EndStep ==
    ASSUME IndInv, NEW p \in Procs, Dies(p) \/ PullReturns(p) \/ RunReturns(p)
    PROVE  IndInv'
<1>1. Active(p) /\ Over(p) /\ UNCHANGED <<manifest, index, tar, layer, instances>>
  BY DEF Dies, PullReturns, RunReturns, Active, disk
<1>2. markers' \subseteq instances' /\ instances' \subseteq Names
  BY DEF Dies, PullReturns, RunReturns, disk, IndInv, TypeOK
<1>3. layer' \in [Layers -> {"none", "full"} \cup Procs]
  BY <1>1 DEF IndInv, TypeOK
<1> QED BY <1>1, <1>2, <1>3, OverStep

-------------------------------------------------------------------------------
(* The theorems.                                                             *)

LEMMA InitInv == Init => IndInv
<1> SUFFICES ASSUME Init PROVE IndInv
  OBVIOUS
<1>1. TypeOK
  BY DEF Init, TypeOK, Places, Commands, NoCommand
<1>2. IndexedTarsExist
  BY ManifestFacts DEF Init, IndexedTarsExist
<1>3. \A p \in Procs : PlaceInv(p) /\ TarsInv(p) /\ SoundInv(p)
  BY DEF Init, PlaceInv, TarsInv, SoundInv, Downloading, Indexing, Unpacking, Final
<1> QED BY <1>1, <1>2, <1>3 DEF IndInv

LEMMA NextInv == IndInv /\ [Next]_vars => IndInv'
<1> SUFFICES ASSUME IndInv, [Next]_vars PROVE IndInv'
  OBVIOUS
<1>1. CASE UNCHANGED vars
  <2> USE <1>1 DEF vars, disk, local
  <2>1. TypeOK' /\ IndexedTarsExist'
    BY DEF IndInv, TypeOK, IndexedTarsExist
  <2>2. \A p \in Procs : PlaceInv(p)' /\ TarsInv(p)'
    BY DEF IndInv, PlaceInv, TarsInv, Current
  <2>3. \A p \in Procs : SoundInv(p)'
    BY DEF IndInv, SoundInv, Alone, Active, HalfInv, SoundTars, SoundIndex, SoundLayers, Current
  <2> QED BY <2>1, <2>2, <2>3 DEF IndInv
<1>2. CASE Publish
  BY <1>2, PublishStep
<1>3. ASSUME NEW p \in Procs, NEW c \in Commands, Start(p, c) PROVE IndInv'
  BY <1>3, StartStep
<1>4. ASSUME NEW p \in Procs, ReadIndex(p) \/ CompareManifest(p) \/ Pull(p) PROVE IndInv'
  BY <1>4, ReadIndexStep, CompareStep, PullStep
<1>5. ASSUME NEW p \in Procs, TarBegin(p) \/ TarEnd(p) \/ IndexCreate(p) \/ IndexWrite(p) PROVE IndInv'
  BY <1>5, TarBeginStep, TarEndStep, IndexCreateStep, IndexWriteStep
<1>6. ASSUME NEW p \in Procs, CheckLayer(p) \/ RemoveLayer(p) \/ Launch(p) \/ Unpacked(p) PROVE IndInv'
  BY <1>6, CheckLayerStep, RemoveLayerStep, LaunchStep, UnpackedStep
<1>7. ASSUME NEW p \in Procs, CheckRunning(p) \/ \E n \in Names : CreateInstance(p, n) PROVE IndInv'
  BY <1>7, InstanceStep
<1>8. ASSUME NEW p \in Procs, Dies(p) \/ PullReturns(p) \/ RunReturns(p) PROVE IndInv'
  BY <1>8, EndStep
<1> QED BY <1>1, <1>2, <1>3, <1>4, <1>5, <1>6, <1>7, <1>8 DEF Next

\* The inductive invariant: how far download_image and launch_ptrace_to_untar_layers have
\* come, for each process, and what a process that is alone may conclude from the disk.
THEOREM Invariance == Spec => []IndInv
<1>1. Init => IndInv
  BY InitInv
<1>2. IndInv /\ [Next]_vars => IndInv'
  BY NextInv
<1> QED BY <1>1, <1>2, PTL DEF Spec

\* Type correctness: a process of pocker.rs that walks over the layers is at one of them.
THEOREM TypeCorrect == Spec => []TypeOK
<1>1. IndInv => TypeOK
  BY DEF IndInv
<1> QED BY <1>1, Invariance, PTL

\* download_image writes the digests after the tar files: however many processes work on
\* the store, and wherever they are killed, the index lists tar files that are there.
THEOREM IndexedTars == Spec => []IndexedTarsExist
<1>1. IndInv => IndexedTarsExist
  BY DEF IndInv
<1> QED BY <1>1, Invariance, PTL

\* A pull that is alone, and whose children do not fail, has the index, every tar file and
\* every layer directory complete, on a store that was intact or with --redownload.
THEOREM SoundPull == Spec => []PullCompletes
<1>1. IndInv => PullCompletes
  <2> SUFFICES ASSUME IndInv, NEW p \in Procs, pc[p] \in Final, sound[p]
               PROVE  /\ index = hashes[p]
                      /\ \A l \in Listed(hashes[p]) : tar[l] = "full" /\ layer[l] = "full"
    BY DEF PullCompletes, Final
  <2>1. SoundTars(p) /\ SoundIndex(p) /\ SoundLayers(p)
    BY DEF IndInv, SoundInv
  <2> QED BY <2>1 DEF SoundTars, SoundIndex, SoundLayers, Listed
<1> QED BY <1>1, Invariance, PTL
===============================================================================
