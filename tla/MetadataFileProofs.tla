-------------------------- MODULE MetadataFileProofs --------------------------
(***************************************************************************)
(* Proofs about MetadataFile, for every number of tracers, names, fields   *)
(* and metadata files.                                                     *)
(***************************************************************************)
EXTENDS MetadataFile, FiniteSetTheorems, TLAPS

-------------------------------------------------------------------------------
(* The inductive invariant.                                                  *)

\* What a tracer is about to write is at least what has been saved so far.
TracerInv(t) ==
    /\ pc[t] # "idle" => call[t].op # "none"
    /\ pc[t] = "idle" => call[t] = NoCall
    /\ pc[t] \in {"check_save", "remove_backing", "remove_meta", "syscall"} => Deletes(call[t])
    /\ pc[t] \in {"idle", "check", "check_save", "open", "lock", "remove_backing"} => ~should_keep[t]
    /\ should_keep[t] => Deletes(call[t])
    /\ pc[t] \in {"lock", "write"} => fd[t] \in Inodes
    /\ pc[t] = "write" =>
          /\ flock[fd[t]] = t
          /\ call[t].op = "save" => call[t].field \in data[t].fields
          /\ fd[t] \notin raced => saved[fd[t]] \subseteq data[t].fields

\* A metadata file that nobody holds is a document with all that was saved, or is new.
InodeInv(i) ==
    IF flock[i] = NoTracer
    THEN i \notin raced => \/ text[i] = Empty /\ saved[i] = {}
                           \/ text[i] \in Documents /\ saved[i] \subseteq text[i].fields
    ELSE pc[flock[i]] = "write" /\ fd[flock[i]] = i

\* The number of names that the counter has to be.
Expected == Cardinality(names) - Cardinality(Uncounted) - Cardinality(Discounted)

\* The metadata of a hard link stays where it is as long as its content exists; its counter
\* is right in the file, or in the hands of the tracer that has locked it.
LinkInv ==
    kind = "hardlink" /\ slips = {} /\ backing =>
       /\ meta_path = 1 /\ raced = {}
       /\ \A t \in Tracers : /\ pc[t] \in {"open", "lock", "write"} => exists[t]
                             /\ pc[t] \in {"lock", "write"} => fd[t] = 1
       /\ flock[1] = NoTracer => text[1] \in Documents /\ text[1].links = Expected
       /\ \A t \in Tracers : pc[t] = "write" =>
             data[t].links = IF should_keep[t] THEN Expected - 1 ELSE Expected

\* A tracer that has found the name it deletes.
Found(t) ==
    \/ Deletes(call[t]) /\ pc[t] \in {"check_save", "open", "lock", "write", "remove_backing"}
    \/ call[t].op = "rename" /\ pc[t] = "check"
    \/ t \in Discounted

\* The other names are not counted any more.
Last(t) == \A n \in names : n = call[t].name \/ \E u \in Discounted : call[u].name = n

\* Tracers on their way to the system call that removes the name.
Leaving == {t \in Deleting : pc[t] \in {"remove_meta", "syscall"}}

\* The names of a hard link and the tracers that delete them.
NamesInv ==
    kind = "hardlink" /\ slips = {} =>
       /\ \A t, u \in Deleting : call[t].name = call[u].name => t = u
       /\ backing => \A t \in Tracers : /\ pc[t] # "remove_meta"
                                        /\ Found(t) => call[t].name \in names
                                        /\ t \in AtLast => Last(t)
       /\ ~backing => \A n \in names : \E u \in Leaving : call[u].name = n

IndInv ==
    /\ TypeOK
    /\ \A t \in Tracers : TracerInv(t)
    /\ \A i \in Inodes : InodeInv(i)
    /\ LinkInv /\ NamesInv

USE MetadataAssumption

-------------------------------------------------------------------------------
(* Calls, documents and sizes of sets.                                       *)

LEMMA CallFacts ==
    ASSUME NEW c \in Calls
    PROVE  /\ c.op \in {"none", "save", "link", "unlink", "rename"}
           /\ c.op = "save" => c.field \in Fields
BY DEF Calls, NoCall

LEMMA DocumentFacts ==
    /\ Empty \notin Documents /\ Torn \notin Documents /\ Default \in Documents
    /\ \A d \in Documents : d.fields \subseteq Fields /\ d.links \in Nat
    /\ Default.fields = {} /\ Empty # Torn
<1>1. Empty \notin Documents /\ Torn \notin Documents
  <2>1. \A d \in Documents : DOMAIN d = {"fields", "links"}
    BY DEF Documents
  <2>2. DOMAIN Empty = {"torn"} /\ DOMAIN Torn = {"torn"}
    BY DEF Empty, Torn
  <2> QED BY <2>1, <2>2
<1>2. Empty # Torn
  <2>1. Empty.torn = FALSE /\ Torn.torn = TRUE
    BY DEF Empty, Torn
  <2> QED BY <2>1
<1> QED BY <1>1, <1>2 DEF Documents, Default

\* An update keeps the fields that are there, adds the one it is about, and counts.
LEMMA UpdateFacts ==
    ASSUME NEW c \in Calls, c.op # "none", NEW d \in Documents
    PROVE  /\ update_fn(c, d) \in Documents /\ d.fields \subseteq update_fn(c, d).fields
           /\ c.op = "save" => c.field \in update_fn(c, d).fields
           /\ c.op = "save" => update_fn(c, d).links = d.links
           /\ c.op = "link" => update_fn(c, d).links = d.links + 1
           /\ Deletes(c) => update_fn(c, d).links = IF d.links > 1 THEN d.links - 1 ELSE d.links
<1>1. (c.op \in {"save", "link"} \/ Deletes(c)) /\ (c.op = "save" => c.field \in Fields)
  BY CallFacts DEF Deletes
<1>2. d.fields \subseteq Fields /\ d.links \in Nat
  BY DEF Documents
<1>3. CASE c.op = "save"
  <2>1. update_fn(c, d) = [d EXCEPT !.fields = d.fields \cup {c.field}]
    BY <1>3 DEF update_fn, Deletes
  <2> QED BY <1>1, <1>2, <1>3, <2>1 DEF Documents, Deletes
<1>4. CASE c.op = "link"
  <2>1. update_fn(c, d) = [d EXCEPT !.links = d.links + 1]
    BY <1>4 DEF update_fn, Deletes
  <2> QED BY <1>2, <1>4, <2>1 DEF Documents, Deletes
<1>5. CASE Deletes(c)
  <2>1. update_fn(c, d) = [d EXCEPT !.links = IF d.links > 1 THEN d.links - 1 ELSE d.links]
    BY <1>5 DEF update_fn, Deletes
  <2> QED BY <1>2, <1>5, <2>1 DEF Documents, Deletes
<1> QED BY <1>1, <1>3, <1>4, <1>5

\* What one element adds to the size of a finite set.
LEMMA CardSplit ==
    ASSUME NEW S, IsFiniteSet(S), NEW x
    PROVE  /\ Cardinality(S) \in Nat /\ Cardinality(S \ {x}) \in Nat
           /\ Cardinality(S) = Cardinality(S \ {x}) + IF x \in S THEN 1 ELSE 0
<1>1. IsFiniteSet(S \ {x}) /\ Cardinality(S \ {x}) = IF x \in S THEN Cardinality(S) - 1 ELSE Cardinality(S)
  BY FS_RemoveElement
<1>2. Cardinality(S) \in Nat /\ Cardinality(S \ {x}) \in Nat
  BY <1>1, FS_CardinalityType
<1> QED BY <1>1, <1>2

\* The step of a tracer changes its own part of the two sets only.
LEMMA SetsSplit ==
    ASSUME NEW t \in Tracers,
           \A u \in Tracers \ {t} :
              pc'[u] = pc[u] /\ call'[u] = call[u] /\ should_keep'[u] = should_keep[u]
    PROVE  \E m, n \in Nat :
             /\ Cardinality(Uncounted)   = m + IF t \in Uncounted THEN 1 ELSE 0
             /\ Cardinality(Uncounted)'  = m + IF t \in Uncounted' THEN 1 ELSE 0
             /\ Cardinality(Discounted)  = n + IF t \in Discounted THEN 1 ELSE 0
             /\ Cardinality(Discounted)' = n + IF t \in Discounted' THEN 1 ELSE 0
<1>1. Uncounted' \ {t} = Uncounted \ {t} /\ Discounted' \ {t} = Discounted \ {t}
  BY DEF Uncounted, Discounted, Deleting
<1>2. Uncounted \subseteq Tracers /\ Discounted \subseteq Tracers
      /\ Uncounted' \subseteq Tracers /\ Discounted' \subseteq Tracers
  BY DEF Uncounted, Discounted, Deleting
<1>3. IsFiniteSet(Uncounted) /\ IsFiniteSet(Discounted) /\ IsFiniteSet(Uncounted') /\ IsFiniteSet(Discounted')
  BY <1>2, FS_Subset
<1>4. /\ Cardinality(Uncounted)   = Cardinality(Uncounted \ {t}) + IF t \in Uncounted THEN 1 ELSE 0
      /\ Cardinality(Uncounted \ {t}) \in Nat
  BY <1>3, CardSplit
<1>5. Cardinality(Uncounted') = Cardinality(Uncounted' \ {t}) + IF t \in Uncounted' THEN 1 ELSE 0
  BY <1>3, CardSplit
<1>6. /\ Cardinality(Discounted)   = Cardinality(Discounted \ {t}) + IF t \in Discounted THEN 1 ELSE 0
      /\ Cardinality(Discounted \ {t}) \in Nat
  BY <1>3, CardSplit
<1>7. Cardinality(Discounted') = Cardinality(Discounted' \ {t}) + IF t \in Discounted' THEN 1 ELSE 0
  BY <1>3, CardSplit
<1> QED BY <1>1, <1>4, <1>5, <1>6, <1>7

\* The names are finitely many.
LEMMA NamesSplit ==
    ASSUME NEW ns \in SUBSET Names, NEW x
    PROVE  /\ Cardinality(ns) \in Nat
           /\ x \in ns => Cardinality(ns \ {x}) = Cardinality(ns) - 1
           /\ x \notin ns => Cardinality(ns \cup {x}) = Cardinality(ns) + 1
<1>1. IsFiniteSet(ns)
  BY FS_Subset
<1> QED BY <1>1, FS_CardinalityType, FS_RemoveElement, FS_AddElement

-------------------------------------------------------------------------------
(* What a step of one tracer leaves alone.                                   *)

\* The other tracers keep their place, their call and what they have read.
Stays(u) ==
    /\ pc'[u] = pc[u] /\ call'[u] = call[u] /\ exists'[u] = exists[u] /\ fd'[u] = fd[u]
    /\ data'[u] = data[u] /\ should_keep'[u] = should_keep[u]

LEMMA Others ==
    ASSUME IndInv, NEW t \in Tracers, \A u \in Tracers \ {t} : Stays(u),
           \A u \in Tracers \ {t} : pc[u] = "write" =>
              /\ flock'[fd[u]] = flock[fd[u]] /\ saved'[fd[u]] = saved[fd[u]]
              /\ fd[u] \in raced => fd[u] \in raced'
    PROVE  \A u \in Tracers \ {t} : TracerInv(u)'
<1> SUFFICES ASSUME NEW u \in Tracers \ {t} PROVE TracerInv(u)'
  OBVIOUS
<1>1. TracerInv(u) /\ Stays(u)
  BY DEF IndInv
<1> QED BY <1>1 DEF TracerInv, Stays

\* An inode that a step does not touch.
LEMMA OtherInode ==
    ASSUME IndInv, NEW t \in Tracers, \A u \in Tracers \ {t} : Stays(u), NEW i \in Inodes,
           flock'[i] = flock[i], text'[i] = text[i], saved'[i] = saved[i], i \in raced => i \in raced',
           flock[i] # t
    PROVE  InodeInv(i)'
<1>1. InodeInv(i) /\ flock[i] \in Tracers \cup {NoTracer}
  BY DEF IndInv, TypeOK
<1> QED BY <1>1 DEF InodeInv, Stays

\* A tracer outside of the locked section holds no lock.
LEMMA HoldsNothing ==
    ASSUME IndInv, NEW t \in Tracers, pc[t] # "write", NEW i \in Inodes
    PROVE  flock[i] # t
<1>1. InodeInv(i)
  BY DEF IndInv
<1> QED BY <1>1 DEF InodeInv

\* A step of a hard link's tracer that neither adds nor removes a name.
LEMMA NamesKept ==
    ASSUME NamesInv, NEW t \in Tracers, \A u \in Tracers \ {t} : Stays(u),
           UNCHANGED <<kind, names, backing>>, slips \subseteq slips',
           kind = "hardlink" /\ slips' = {} =>
              /\ Deletes(call'[t]) => \/ Deletes(call[t]) /\ call'[t].name = call[t].name
                                     \/ \A u \in Deleting : call[u].name # call'[t].name
              /\ t \in Discounted \cup Leaving => call'[t] = call[t]
              /\ t \in Discounted => t \in Discounted'
              /\ t \in Leaving => t \in Leaving'
              /\ backing => /\ pc'[t] # "remove_meta"
                            /\ Found(t)' => call'[t].name \in names
                            /\ t \in AtLast' => (t \in AtLast /\ call'[t] = call[t]) \/ Last(t)'
    PROVE  NamesInv'
<1> SUFFICES ASSUME kind = "hardlink", slips' = {} PROVE NamesInv'
  BY DEF NamesInv
<1>1. slips = {}
  OBVIOUS
<1>2. \A u \in Tracers \ {t} : /\ u \in Deleting' <=> u \in Deleting
                               /\ u \in Discounted' <=> u \in Discounted
                               /\ u \in Leaving' <=> u \in Leaving
                               /\ u \in AtLast' <=> u \in AtLast
                               /\ Found(u)' <=> Found(u)
                               /\ call'[u] = call[u] /\ pc'[u] = pc[u]
  BY DEF Deleting, Discounted, Leaving, AtLast, Found, Stays
<1>3. /\ Discounted \subseteq Tracers /\ Discounted' \subseteq Tracers
      /\ Leaving \subseteq Tracers /\ Leaving' \subseteq Tracers
      /\ Deleting \subseteq Tracers /\ Deleting' \subseteq Tracers
      /\ t \in Deleting <=> Deletes(call[t])
      /\ t \in Deleting' <=> Deletes(call'[t])
  BY DEF Deleting, Discounted, Leaving
<1>4. \A u \in Discounted : u \in Discounted' /\ call'[u] = call[u]
  BY <1>2, <1>3
<1>5. \A u \in Leaving : u \in Leaving' /\ call'[u] = call[u]
  BY <1>2, <1>3
<1>6. \A u, v \in Deleting' : call'[u].name = call'[v].name => u = v
  BY <1>1, <1>2, <1>3 DEF NamesInv
<1>7. ASSUME backing, NEW u \in Tracers
      PROVE  /\ pc'[u] # "remove_meta"
             /\ Found(u)' => call'[u].name \in names
             /\ u \in AtLast' => Last(u)'
  <2>1. ASSUME NEW v \in Tracers, Last(v), call'[v] = call[v] PROVE Last(v)'
    BY <1>4, <2>1 DEF Last
  <2> QED BY <1>1, <1>2, <1>7, <2>1 DEF NamesInv
<1>8. ~backing => \A n \in names : \E u \in Leaving' : call'[u].name = n
  BY <1>1, <1>5 DEF NamesInv
<1> QED BY <1>6, <1>7, <1>8 DEF NamesInv

\* A step that does not touch the metadata files.
LEMMA QuietStep ==
    ASSUME IndInv, NEW t \in Tracers, TypeOK', \A u \in Tracers \ {t} : Stays(u), TracerInv(t)',
           pc[t] # "write", pc'[t] # "write",
           UNCHANGED <<kind, text, flock, raced, saved>>, slips \subseteq slips', NamesInv',
           kind = "hardlink" /\ slips' = {} /\ backing' =>
              /\ backing /\ meta_path' = meta_path
              /\ LinkInv /\ pc'[t] = "open" => exists'[t]
              /\ LinkInv /\ pc'[t] = "lock" => exists'[t] /\ fd'[t] = 1
              /\ Expected' = Expected
    PROVE  IndInv'
<1>1. \A u \in Tracers : TracerInv(u)'
  BY Others
<1>2. \A i \in Inodes : InodeInv(i)'
  BY OtherInode, HoldsNothing
<1>3. LinkInv'
  <2> SUFFICES ASSUME kind = "hardlink", slips' = {}, backing' PROVE LinkInv'
    BY DEF LinkInv
  <2>1. /\ meta_path' = 1 /\ raced' = {}
        /\ \A u \in Tracers : /\ pc[u] \in {"open", "lock", "write"} => exists[u]
                              /\ pc[u] \in {"lock", "write"} => fd[u] = 1
        /\ flock[1] = NoTracer => text[1] \in Documents /\ text[1].links = Expected
        /\ \A u \in Tracers : pc[u] = "write" =>
              data[u].links = IF should_keep[u] THEN Expected - 1 ELSE Expected
        /\ Expected' = Expected
    BY DEF IndInv, LinkInv
  <2>2. ASSUME NEW u \in Tracers
        PROVE  /\ pc'[u] \in {"open", "lock", "write"} => exists'[u]
               /\ pc'[u] \in {"lock", "write"} => fd'[u] = 1
    BY <2>1 DEF Stays, IndInv
  <2>3. \A u \in Tracers : pc'[u] = "write" =>
           data'[u].links = IF should_keep'[u] THEN Expected' - 1 ELSE Expected'
    BY <2>1 DEF Stays
  <2> QED BY <2>1, <2>2, <2>3 DEF LinkInv
<1> QED BY <1>1, <1>2, <1>3 DEF IndInv

-------------------------------------------------------------------------------
(* The beginning and the end of a call.                                      *)

\* Slips are only added.
LEMMA SlipFacts ==
    ASSUME TypeOK, NEW kinds, kinds \subseteq Slips, Slip(kinds)
    PROVE  /\ slips' \subseteq Slips /\ slips \subseteq slips'
           /\ kind = "hardlink" /\ slips' = {} => kinds = {}
BY DEF Slip, TypeOK

LEMMA BeginFacts ==
    ASSUME TypeOK, NEW t \in Tracers, TracerInv(t), NEW c \in Calls, c.op # "none", Begin(t, c)
    PROVE  /\ pc \in [Tracers -> Places] /\ pc' \in [Tracers -> Places]
           /\ call' \in [Tracers -> Calls]
           /\ pc[t] = "idle" /\ pc'[t] = "check" /\ call'[t] = c
           /\ ~should_keep[t] /\ should_keep' = should_keep
           /\ UNCHANGED <<exists, fd, data, raced, saved>>
           /\ \A u \in Tracers \ {t} : Stays(u)
           /\ TracerInv(t)'
<1>1. /\ pc' = [pc EXCEPT ![t] = "check"] /\ call' = [call EXCEPT ![t] = c] /\ pc[t] = "idle"
      /\ UNCHANGED <<exists, fd, data, should_keep, raced, saved>>
      /\ pc \in [Tracers -> Places] /\ call \in [Tracers -> Calls]
  BY DEF Begin, Goto, TypeOK
<1>2. /\ pc' \in [Tracers -> Places] /\ pc'[t] = "check"
      /\ \A u \in Tracers \ {t} : pc'[u] = pc[u]
  BY <1>1 DEF Places
<1>3. /\ call' \in [Tracers -> Calls] /\ call'[t] = c
      /\ \A u \in Tracers \ {t} : call'[u] = call[u]
  BY <1>1
<1>4. ~should_keep[t]
  BY <1>1 DEF TracerInv
<1>5. TracerInv(t)'
  BY <1>1, <1>2, <1>3, <1>4 DEF TracerInv
<1> QED BY <1>1, <1>2, <1>3, <1>4, <1>5 DEF Stays

LEMMA ReturnFacts ==
    ASSUME TypeOK, NEW t \in Tracers, Return(t)
    PROVE  /\ pc' \in [Tracers -> Places] /\ call' \in [Tracers -> Calls]
           /\ exists' \in [Tracers -> BOOLEAN] /\ should_keep' \in [Tracers -> BOOLEAN]
           /\ fd' \in [Tracers -> Inodes \cup {NoInode}] /\ data' \in [Tracers -> Documents]
           /\ pc'[t] = "idle" /\ call'[t] = NoCall /\ ~should_keep'[t]
           /\ \A u \in Tracers \ {t} : Stays(u)
           /\ TracerInv(t)'
<1>1. /\ pc \in [Tracers -> Places] /\ call \in [Tracers -> Calls]
      /\ exists \in [Tracers -> BOOLEAN] /\ should_keep \in [Tracers -> BOOLEAN]
      /\ fd \in [Tracers -> Inodes \cup {NoInode}] /\ data \in [Tracers -> Documents]
  BY DEF TypeOK
<1>2. NoCall \in Calls /\ Default \in Documents /\ "idle" \in Places
  BY DEF Calls, Documents, Default, Places
<1>3. /\ pc' \in [Tracers -> Places] /\ call' \in [Tracers -> Calls]
      /\ pc'[t] = "idle" /\ call'[t] = NoCall
      /\ \A u \in Tracers \ {t} : pc'[u] = pc[u] /\ call'[u] = call[u]
  BY <1>1, <1>2 DEF Return, Goto
<1>4. /\ exists' \in [Tracers -> BOOLEAN] /\ should_keep' \in [Tracers -> BOOLEAN] /\ ~should_keep'[t]
      /\ \A u \in Tracers \ {t} : exists'[u] = exists[u] /\ should_keep'[u] = should_keep[u]
  BY <1>1 DEF Return
<1>5. /\ fd' \in [Tracers -> Inodes \cup {NoInode}] /\ data' \in [Tracers -> Documents]
      /\ \A u \in Tracers \ {t} : fd'[u] = fd[u] /\ data'[u] = data[u]
  BY <1>1, <1>2 DEF Return
<1>6. TracerInv(t)'
  BY <1>3, <1>4 DEF TracerInv
<1> QED BY <1>3, <1>4, <1>5, <1>6 DEF Stays

\* A call begins: chmod or chown, a file that is created, link, unlink, rename.
LEMMA BeginStep ==
    ASSUME IndInv, NEW t \in Tracers, NEW n \in Names,
           \/ \E f \in Fields : Chmod(t, n, f) \/ Create(t, n, f)
           \/ \E old \in Names : Link(t, old, n)
           \/ Unlink(t, n) \/ Rename(t, n)
    PROVE  IndInv'
<1>0. TypeOK /\ TracerInv(t) /\ NamesInv
  BY DEF IndInv
<1>1. ASSUME NEW c \in Calls, c.op # "none", c.op # "link", Begin(t, c), names' \subseteq Names, backing' \in BOOLEAN,
             UNCHANGED <<kind, meta_path, text, flock>>,
             kind = "plain" \/ UNCHANGED <<names, backing>>,
             slips \subseteq slips', slips' \subseteq Slips,
             kind = "hardlink" /\ slips' = {} =>
                /\ Deletes(c) => \A u \in Deleting : call[u].name # c.name
                /\ c.op = "rename" => c.name \in names
      PROVE  IndInv'
  <2>1. /\ pc \in [Tracers -> Places] /\ pc' \in [Tracers -> Places]
        /\ call' \in [Tracers -> Calls]
        /\ pc[t] = "idle" /\ pc'[t] = "check" /\ call'[t] = c
        /\ ~should_keep[t] /\ should_keep' = should_keep
        /\ UNCHANGED <<exists, fd, data, raced, saved>>
        /\ \A u \in Tracers \ {t} : Stays(u)
        /\ TracerInv(t)'
    BY <1>0, <1>1, BeginFacts
  <2>2. TypeOK'
    BY <1>0, <1>1, <2>1 DEF TypeOK
  <2>3. /\ Uncounted' = Uncounted /\ Discounted' = Discounted
        /\ t \notin Discounted /\ t \notin Leaving /\ t \notin AtLast'
        /\ Found(t)' => c.op = "rename"
    BY <1>1, <2>1 DEF Uncounted, Discounted, Deleting, Leaving, AtLast, Found, Stays
  <2>4. kind # "plain" => Expected' = Expected
    BY <1>1, <2>1, <2>3 DEF Expected
  <2>5. NamesInv'
    <3>1. CASE kind = "plain"
      BY <1>1, <3>1 DEF NamesInv
    <3>2. CASE UNCHANGED <<names, backing>>
      BY <1>0, <1>1, <2>1, <2>3, <3>2, NamesKept
    <3> QED BY <1>1, <3>1, <3>2
  <2> QED BY <1>1, <2>1, <2>2, <2>4, <2>5, QuietStep
<1>2. ASSUME NEW f \in Fields, Chmod(t, n, f) \/ Create(t, n, f) PROVE IndInv'
  <2> DEFINE c == [op |-> "save", name |-> n, field |-> f]
  <2>1. c \in Calls /\ c.op = "save" /\ ~Deletes(c)
    BY DEF Calls, Deletes
  <2>2. Begin(t, c) /\ UNCHANGED <<kind, meta_path, text, flock, slips>>
    BY <1>2 DEF Chmod, Create, shared
  <2>3. names' \subseteq Names /\ backing' \in BOOLEAN /\ (kind = "plain" \/ UNCHANGED <<names, backing>>)
    BY <1>0, <1>2 DEF Chmod, Create, shared, TypeOK
  <2>4. slips' \subseteq Slips
    BY <1>0, <2>2 DEF TypeOK
  <2> HIDE DEF c
  <2> QED BY <1>1, <2>1, <2>2, <2>3, <2>4
<1>3. ASSUME NEW op \in {"unlink", "rename"}, Delete(t, op, n), op = "rename" => n \in names PROVE IndInv'
  <2> DEFINE c == [op |-> op, name |-> n]
             twice == {s \in {"twice"} : \E u \in Deleting : call[u].name = n}
  <2>1. c \in Calls /\ c.op = op /\ c.name = n
    BY DEF Calls
  <2>2. Begin(t, c) /\ UNCHANGED <<kind, meta_path, text, flock, names, backing>> /\ Slip(twice)
    BY <1>3 DEF Delete, shared
  <2>3. /\ slips' \subseteq Slips /\ slips \subseteq slips'
        /\ kind = "hardlink" /\ slips' = {} => twice = {}
    <3>1. twice \subseteq Slips
      BY DEF Slips
    <3> HIDE DEF twice
    <3> QED BY <1>0, <2>2, <3>1, SlipFacts
  <2>4. twice = {} => \A u \in Deleting : call[u].name # n
    OBVIOUS
  <2>5. names' \subseteq Names /\ backing' \in BOOLEAN
    BY <1>0, <2>2 DEF TypeOK
  <2> HIDE DEF c, twice
  <2> QED BY <1>1, <1>3, <2>1, <2>2, <2>3, <2>4, <2>5
<1>4. ASSUME NEW old \in Names, Link(t, old, n) PROVE IndInv'
  <2> DEFINE c == [op |-> "link", name |-> n]
             late == {s \in {"late"} : AtLast # {}}
  <2>1. c \in Calls /\ c.op = "link" /\ ~Deletes(c)
    BY DEF Calls, Deletes
  <2>2. /\ Begin(t, c) /\ UNCHANGED <<kind, backing, meta_path, text, flock>>
        /\ names' = names \cup {n} /\ n \notin names /\ backing /\ Slip(late)
    BY <1>4 DEF Link, PathExists
  <2>3. /\ slips' \subseteq Slips /\ slips \subseteq slips'
        /\ kind = "hardlink" /\ slips' = {} => AtLast = {}
    <3>1. late \subseteq Slips /\ (late = {} => AtLast = {})
      BY DEF Slips
    <3> HIDE DEF late
    <3> QED BY <1>0, <2>2, <3>1, SlipFacts
  <2> HIDE DEF c, late
  <2>4. /\ pc' \in [Tracers -> Places] /\ call' \in [Tracers -> Calls]
        /\ pc[t] = "idle" /\ pc'[t] = "check" /\ call'[t] = c
        /\ ~should_keep[t] /\ should_keep' = should_keep
        /\ UNCHANGED <<exists, fd, data, raced, saved>>
        /\ \A u \in Tracers \ {t} : Stays(u)
        /\ TracerInv(t)'
    BY <1>0, <2>1, <2>2, BeginFacts
  <2>5. TypeOK'
    BY <1>0, <2>2, <2>3, <2>4 DEF TypeOK
  <2>6. t \in Uncounted' /\ t \notin Uncounted /\ t \notin Discounted /\ t \notin Discounted'
    BY <2>1, <2>4 DEF Uncounted, Discounted, Deleting
  <2>7. Cardinality(names') = Cardinality(names) + 1 /\ Cardinality(names) \in Nat
    BY <1>0, <2>2, NamesSplit DEF TypeOK
  <2>8. PICK a, b \in Nat :
             /\ Cardinality(Uncounted)   = a + IF t \in Uncounted THEN 1 ELSE 0
             /\ Cardinality(Uncounted)'  = a + IF t \in Uncounted' THEN 1 ELSE 0
             /\ Cardinality(Discounted)  = b + IF t \in Discounted THEN 1 ELSE 0
             /\ Cardinality(Discounted)' = b + IF t \in Discounted' THEN 1 ELSE 0
    BY <2>4, SetsSplit DEF Stays
  <2>9. Expected' = Expected
    BY <2>6, <2>7, <2>8 DEF Expected
  <2>10. NamesInv'
    <3> SUFFICES ASSUME kind = "hardlink", slips' = {} PROVE NamesInv'
      BY <2>2 DEF NamesInv
    <3>1. /\ \A u \in Tracers \ {t} : /\ u \in Deleting' <=> u \in Deleting
                                      /\ u \in AtLast' <=> u \in AtLast
                                      /\ Found(u)' <=> Found(u)
                                      /\ call'[u] = call[u] /\ pc'[u] = pc[u]
          /\ t \notin Deleting' /\ t \notin AtLast' /\ ~Found(t)' /\ pc'[t] # "remove_meta"
          /\ Deleting' \subseteq Tracers
      BY <2>1, <2>4 DEF Deleting, Discounted, AtLast, Found, Stays
    <3>2. slips = {} /\ AtLast = {} /\ names \subseteq names' /\ backing'
      BY <2>2, <2>3
    <3> QED BY <1>0, <2>2, <3>1, <3>2 DEF NamesInv
  <2> QED BY <2>2, <2>3, <2>4, <2>5, <2>9, <2>10, QuietStep
<1>5. ASSUME Unlink(t, n) \/ Rename(t, n) PROVE IndInv'
  BY <1>3, <1>5 DEF Unlink, Rename, PathExists
<1> QED BY <1>2, <1>4, <1>5

-------------------------------------------------------------------------------
(* save_metadata_for_file.                                                   *)

\* A tracer goes on without touching the metadata file or the names.
LEMMA MoveFacts ==
    ASSUME TypeOK, NEW t \in Tracers, NEW l \in Places, Goto(t, l)
    PROVE  /\ pc' \in [Tracers -> Places] /\ pc'[t] = l
           /\ \A u \in Tracers \ {t} : pc'[u] = pc[u]
BY DEF TypeOK, Goto

LEMMA DeleteCheckStep ==
    ASSUME IndInv, NEW t \in Tracers, DeleteCheck(t)
    PROVE  IndInv'
<1>0. TypeOK /\ TracerInv(t) /\ NamesInv
  BY DEF IndInv
<1>1. /\ pc[t] = "check" /\ Deletes(call[t])
      /\ UNCHANGED <<kind, names, backing, meta_path, text, flock, call, exists, fd, data,
                     should_keep, raced, saved, slips>>
  BY DEF DeleteCheck, shared, local, history
<1>2. /\ pc' \in [Tracers -> Places] /\ pc'[t] \in {"check_save", "syscall"}
      /\ pc'[t] = "check_save" => Resolves(call[t])
      /\ \A u \in Tracers \ {t} : pc'[u] = pc[u]
  BY <1>0, MoveFacts DEF DeleteCheck, Places
<1>3. TypeOK'
  BY <1>0, <1>1, <1>2 DEF TypeOK
<1>4. TracerInv(t)'
  BY <1>0, <1>1, <1>2 DEF TracerInv
<1>5. Uncounted' = Uncounted /\ Discounted' = Discounted /\ t \notin Discounted
  BY <1>0, <1>1, <1>2 DEF Uncounted, Discounted, Deleting, Deletes, TracerInv
<1>6. Expected' = Expected
  BY <1>1, <1>5 DEF Expected
<1>7. \A u \in Tracers \ {t} : Stays(u)
  BY <1>1, <1>2 DEF Stays
<1>8. NamesInv'
  <2>1. t \notin Leaving /\ t \notin AtLast' /\ (Found(t)' => pc'[t] = "check_save")
    BY <1>1, <1>2, <1>5 DEF Leaving, AtLast, Found
  <2>2. /\ Resolves(call[t]) => call[t].op = "rename" \/ call[t].name \in names
        /\ call[t].op = "rename" => Found(t)
    BY <1>1 DEF Resolves, PathExists, Found
  <2>3. kind = "hardlink" /\ slips = {} /\ backing /\ Found(t)' => call[t].name \in names
    BY <1>0, <1>2, <2>1, <2>2 DEF NamesInv
  <2> QED BY <1>0, <1>1, <1>2, <1>5, <1>7, <2>1, <2>3, NamesKept
<1> QED BY <1>1, <1>2, <1>3, <1>4, <1>6, <1>7, <1>8, QuietStep

\* A call that ends without an update: a link is not counted.
LEMMA GivesUp ==
    ASSUME IndInv, NEW t \in Tracers, pc[t] \in {"check", "check_save", "lock"},
           Return(t), LinkUncounted(t),
           UNCHANGED <<kind, names, backing, meta_path, text, flock, raced, saved>>
    PROVE  IndInv'
<1>0. TypeOK /\ TracerInv(t) /\ NamesInv
  BY DEF IndInv
<1>1. /\ pc' \in [Tracers -> Places] /\ call' \in [Tracers -> Calls]
      /\ exists' \in [Tracers -> BOOLEAN] /\ should_keep' \in [Tracers -> BOOLEAN]
      /\ fd' \in [Tracers -> Inodes \cup {NoInode}] /\ data' \in [Tracers -> Documents]
      /\ pc'[t] = "idle" /\ call'[t] = NoCall /\ ~should_keep'[t]
      /\ \A u \in Tracers \ {t} : Stays(u)
      /\ TracerInv(t)'
  BY <1>0, ReturnFacts
<1>2. /\ slips' \subseteq Slips /\ slips \subseteq slips'
      /\ kind = "hardlink" /\ slips' = {} => call[t].op # "link"
  <2> DEFINE kinds == {s \in {"uncounted"} : call[t].op = "link"}
  <2>1. kinds \subseteq Slips /\ (kinds = {} => call[t].op # "link") /\ Slip(kinds)
    BY DEF Slips, LinkUncounted
  <2> HIDE DEF kinds
  <2> QED BY <1>0, <2>1, SlipFacts
<1>3. TypeOK'
  BY <1>0, <1>1, <1>2 DEF TypeOK
<1>4. ASSUME call[t].op # "link" PROVE Expected' = Expected
  <2>1. Uncounted' = Uncounted /\ Discounted' = Discounted
    BY <1>1, <1>4 DEF Uncounted, Discounted, Deleting, Stays
  <2> QED BY <2>1 DEF Expected
<1>5. NamesInv'
  <2>1. /\ ~Deletes(call'[t]) /\ t \notin Discounted /\ t \notin Leaving
        /\ ~Found(t)' /\ t \notin AtLast'
    BY <1>1 DEF Deletes, NoCall, Discounted, Deleting, Leaving, Found, AtLast
  <2> QED BY <1>0, <1>1, <1>2, <2>1, NamesKept
<1> QED BY <1>1, <1>2, <1>3, <1>4, <1>5, QuietStep

LEMMA SaveCheckStep ==
    ASSUME IndInv, NEW t \in Tracers, SaveCheck(t)
    PROVE  IndInv'
<1>0. /\ TypeOK /\ TracerInv(t) /\ NamesInv
      /\ pc[t] = IF Deletes(call[t]) THEN "check_save" ELSE "check"
      /\ UNCHANGED <<kind, names, backing, meta_path, text, flock, raced, saved>>
  BY DEF IndInv, SaveCheck, shared
<1>1. /\ ~should_keep[t] /\ t \notin Discounted /\ t \notin Leaving
      /\ Deletes(call[t]) => Found(t)
  BY <1>0 DEF TracerInv, Discounted, Leaving, Found
<1>2. CASE /\ exists' = [exists EXCEPT ![t] = meta_path # NoInode] /\ Goto(t, "open")
           /\ UNCHANGED <<call, fd, data, should_keep, slips>>
  <2>1. /\ pc' \in [Tracers -> Places] /\ pc'[t] = "open"
        /\ \A u \in Tracers \ {t} : pc'[u] = pc[u]
    BY <1>0, <1>2, MoveFacts DEF Places
  <2>2. /\ exists' \in [Tracers -> BOOLEAN] /\ exists'[t] = (meta_path # NoInode)
        /\ \A u \in Tracers \ {t} : exists'[u] = exists[u]
    BY <1>0, <1>2 DEF TypeOK
  <2>3. TypeOK'
    BY <1>0, <1>2, <2>1, <2>2 DEF TypeOK
  <2>4. TracerInv(t)'
    BY <1>0, <1>2, <2>1 DEF TracerInv
  <2>5. Uncounted' = Uncounted /\ Discounted' = Discounted
    BY <1>0, <1>1, <1>2, <2>1 DEF Uncounted, Discounted, Deleting, Deletes
  <2>6. Expected' = Expected
    BY <1>0, <1>2, <2>5 DEF Expected
  <2>7. \A u \in Tracers \ {t} : Stays(u)
    BY <1>2, <2>1, <2>2 DEF Stays
  <2>8. kind = "hardlink" /\ slips = {} /\ backing /\ LinkInv => exists'[t]
    BY <2>2 DEF LinkInv, NoInode
  <2>9. NamesInv'
    <3>1. t \notin AtLast' /\ (Found(t)' => Deletes(call[t]))
      BY <1>1, <1>2, <2>1, <2>5 DEF AtLast, Found
    <3>2. kind = "hardlink" /\ slips = {} /\ backing /\ Found(t)' => call[t].name \in names
      BY <1>0, <1>1, <3>1 DEF NamesInv
    <3> QED BY <1>0, <1>1, <1>2, <2>1, <2>5, <2>7, <3>1, <3>2, NamesKept
  <2> QED BY <1>0, <1>2, <2>1, <2>3, <2>4, <2>6, <2>7, <2>8, <2>9, QuietStep
<1>3. CASE Deletes(call[t]) /\ ~Resolves(call[t]) /\ Goto(t, "remove_backing") /\ UNCHANGED <<local, slips>>
  <2>1. /\ pc' \in [Tracers -> Places] /\ pc'[t] = "remove_backing"
        /\ \A u \in Tracers \ {t} : pc'[u] = pc[u]
        /\ UNCHANGED <<call, exists, fd, data, should_keep, slips>>
    BY <1>0, <1>3, MoveFacts DEF Places, local
  <2>2. TypeOK'
    BY <1>0, <2>1 DEF TypeOK
  <2>3. TracerInv(t)'
    BY <1>0, <1>3, <2>1 DEF TracerInv
  <2>4. Uncounted' = Uncounted /\ Discounted' = Discounted
    BY <1>0, <1>1, <1>3, <2>1 DEF Uncounted, Discounted, Deleting
  <2>5. Expected' = Expected
    BY <1>0, <2>1, <2>4 DEF Expected
  <2>6. \A u \in Tracers \ {t} : Stays(u)
    BY <2>1 DEF Stays
  <2>7. kind = "hardlink" /\ slips = {} => ~backing
    BY <1>0, <1>1, <1>3 DEF NamesInv, Resolves, PathExists
  <2>8. NamesInv'
    BY <1>0, <1>1, <1>3, <2>1, <2>6, <2>7, NamesKept
  <2> QED BY <1>0, <2>1, <2>2, <2>3, <2>5, <2>6, <2>8, QuietStep
<1>4. CASE ~Deletes(call[t]) /\ Return(t) /\ LinkUncounted(t)
  BY <1>0, <1>4, GivesUp
<1> QED BY <1>2, <1>3, <1>4 DEF SaveCheck

\* There is always a fresh inode: more inodes than tracers.
LEMMA FreshInode ==
    ASSUME TypeOK, meta_path = NoInode
    PROVE  FreeInodes # {}
<1> DEFINE Open == {fd[u] : u \in Tracers}
<1>1. IsFiniteSet(Open) /\ Cardinality(Open) <= Cardinality(Tracers)
  <2>1. fd \in Surjection(Tracers, Open)
    BY DEF TypeOK, Surjection
  <2> QED BY <2>1, FS_Surjection
<1>2. Cardinality(Open) \in Nat /\ Cardinality(Tracers) \in Nat /\ Cardinality(Inodes) \in Nat
  BY <1>1, FS_CardinalityType
<1>3. Inodes \subseteq Open => Cardinality(Inodes) <= Cardinality(Open)
  BY <1>1, FS_Subset
<1>4. ~(Inodes \subseteq Open)
  BY <1>1, <1>2, <1>3
<1> QED BY <1>4 DEF FreeInodes, NoInode

LEMMA SaveOpenStep ==
    ASSUME IndInv, NEW t \in Tracers, SaveOpen(t)
    PROVE  IndInv'
<1>0. /\ TypeOK /\ TracerInv(t) /\ NamesInv /\ pc[t] = "open" /\ Goto(t, "lock")
      /\ UNCHANGED <<kind, names, backing, flock, call, exists, data, should_keep, slips>>
  BY DEF IndInv, SaveOpen
<1>1. /\ pc' \in [Tracers -> Places] /\ pc'[t] = "lock"
      /\ \A u \in Tracers \ {t} : pc'[u] = pc[u]
  BY <1>0, MoveFacts DEF Places
<1>2. Uncounted' = Uncounted /\ Discounted' = Discounted /\ t \notin Discounted
  BY <1>0, <1>1 DEF Uncounted, Discounted, Deleting, TracerInv
<1>3. Expected' = Expected
  BY <1>0, <1>2 DEF Expected
<1>99. ASSUME \A u \in Tracers \ {t} : Stays(u) PROVE NamesInv'
  <2>1. /\ t \notin Leaving /\ t \notin AtLast' /\ (Found(t)' => Found(t))
    BY <1>0, <1>1, <1>2 DEF Leaving, AtLast, Found, TracerInv
  <2> QED BY <1>0, <1>1, <1>2, <1>99, <2>1, NamesKept DEF NamesInv
<1>4. CASE /\ meta_path # NoInode /\ fd' = [fd EXCEPT ![t] = meta_path]
           /\ UNCHANGED <<meta_path, text, raced, saved>>
  <2>1. /\ fd' \in [Tracers -> Inodes \cup {NoInode}] /\ fd'[t] = meta_path /\ meta_path \in Inodes
        /\ \A u \in Tracers \ {t} : fd'[u] = fd[u]
    BY <1>0, <1>4 DEF TypeOK
  <2>2. TypeOK'
    BY <1>0, <1>1, <1>4, <2>1 DEF TypeOK
  <2>3. TracerInv(t)'
    BY <1>0, <1>1, <2>1 DEF TracerInv
  <2>4. \A u \in Tracers \ {t} : Stays(u)
    BY <1>0, <1>1, <2>1 DEF Stays
  <2>5. kind = "hardlink" /\ slips = {} /\ backing /\ LinkInv => exists'[t] /\ fd'[t] = 1
    BY <1>0, <2>1 DEF LinkInv
  <2>6. NamesInv'
    BY <1>99, <2>4
  <2> QED BY <1>0, <1>1, <1>3, <1>4, <2>2, <2>3, <2>4, <2>5, <2>6, QuietStep
<1>5. CASE /\ meta_path = NoInode
           /\ meta_path' = CHOOSE j \in FreeInodes : TRUE
           /\ fd' = [fd EXCEPT ![t] = meta_path']
           /\ text' = [text EXCEPT ![meta_path'] = Empty]
           /\ raced' = raced \ {meta_path'}
           /\ saved' = [saved EXCEPT ![meta_path'] = {}]
  <2>1. PICK j \in Inodes : meta_path' = j /\ \A u \in Tracers : fd[u] # j
    BY <1>0, <1>5, FreshInode DEF FreeInodes
  <2>2. /\ fd' \in [Tracers -> Inodes \cup {NoInode}] /\ fd'[t] = j
        /\ \A u \in Tracers \ {t} : fd'[u] = fd[u]
    BY <1>0, <1>5, <2>1 DEF TypeOK
  <2>3. /\ text' \in [Inodes -> Documents \cup {Empty, Torn}] /\ text'[j] = Empty
        /\ \A i \in Inodes \ {j} : text'[i] = text[i]
    BY <1>0, <1>5, <2>1 DEF TypeOK
  <2>4. /\ saved' \in [Inodes -> SUBSET Fields] /\ saved'[j] = {}
        /\ \A i \in Inodes \ {j} : saved'[i] = saved[i]
    BY <1>0, <1>5, <2>1 DEF TypeOK
  <2>5. TypeOK'
    BY <1>0, <1>1, <1>5, <2>1, <2>2, <2>3, <2>4 DEF TypeOK
  <2>6. \A u \in Tracers \ {t} : Stays(u)
    BY <1>0, <1>1, <2>2 DEF Stays
  <2>7. TracerInv(t)'
    BY <1>0, <1>1, <2>2 DEF TracerInv
  <2>8. \A u \in Tracers \ {t} : TracerInv(u)'
    <3>1. \A u \in Tracers : pc[u] = "write" => fd[u] \in Inodes \ {j}
      BY <2>1 DEF IndInv, TracerInv
    <3>2. \A u \in Tracers \ {t} : pc[u] = "write" =>
              /\ flock'[fd[u]] = flock[fd[u]] /\ saved'[fd[u]] = saved[fd[u]]
              /\ fd[u] \in raced => fd[u] \in raced'
      BY <1>0, <1>5, <2>1, <2>4, <3>1
    <3> QED BY <2>6, <3>2, Others
  <2>9. \A i \in Inodes : InodeInv(i)'
    <3>1. flock[j] = NoTracer
      <4>1. InodeInv(j) /\ flock[j] \in Tracers \cup {NoTracer}
        BY <1>0 DEF IndInv, TypeOK
      <4> QED BY <2>1, <4>1 DEF InodeInv
    <3>2. InodeInv(j)'
      BY <1>0, <2>3, <2>4, <3>1 DEF InodeInv
    <3>3. ASSUME NEW i \in Inodes \ {j} PROVE InodeInv(i)'
      <4>1. flock[i] # t
        BY <1>0, HoldsNothing
      <4> QED BY <1>0, <1>5, <2>1, <2>3, <2>4, <2>6, <4>1, OtherInode
    <3> QED BY <3>2, <3>3
  <2>10. LinkInv'
    <3>1. ~(kind = "hardlink" /\ slips = {} /\ backing)
      BY <1>5 DEF IndInv, LinkInv, NoInode
    <3> QED BY <1>0, <3>1 DEF LinkInv
  <2>11. NamesInv'
    BY <1>99, <2>6
  <2> QED BY <2>5, <2>7, <2>8, <2>9, <2>10, <2>11 DEF IndInv
<1> QED BY <1>4, <1>5 DEF SaveOpen

\* A counter of one: every name but the tracer's own is not counted any more.
LEMMA LastName ==
    ASSUME TypeOK, NEW t \in Deleting, t \notin Discounted, call[t].name \in names,
           \A u \in Discounted : u \in Deleting /\ call[u].name \in names,
           \A u, v \in Deleting : call[u].name = call[v].name => u = v,
           Cardinality(names) <= Cardinality(Discounted) + 1
    PROVE  Last(t)
<1> SUFFICES ASSUME NEW n \in names, n # call[t].name, \A u \in Discounted : call[u].name # n
             PROVE  FALSE
  BY DEF Last
<1> DEFINE f == [u \in Discounted |-> call[u].name]
           Own == {call[u].name : u \in Discounted}
<1>1. IsFiniteSet(Discounted) /\ IsFiniteSet(names)
  BY FS_Subset DEF Discounted, Deleting, TypeOK
<1>2. f \in Bijection(Discounted, Own)
  <2>1. f \in Surjection(Discounted, Own)
    BY DEF Surjection
  <2>2. f \in Injection(Discounted, Own)
    BY DEF Injection, IsInjective
  <2> QED BY <2>1, <2>2 DEF Bijection
<1>3. IsFiniteSet(Own) /\ Cardinality(Own) = Cardinality(Discounted)
  <2> HIDE DEF f, Own
  <2> QED BY <1>1, <1>2, FS_Bijection DEF ExistsBijection
<1>4. call[t].name \notin Own /\ n \notin Own \cup {call[t].name} /\ Own \cup {call[t].name} \cup {n} \subseteq names
  OBVIOUS
<1> HIDE DEF Own
<1>5. /\ IsFiniteSet(Own \cup {call[t].name})
      /\ Cardinality(Own \cup {call[t].name}) = Cardinality(Own) + 1
  BY <1>3, <1>4, FS_AddElement
<1>6. Cardinality(Own \cup {call[t].name} \cup {n}) = Cardinality(Own \cup {call[t].name}) + 1
  BY <1>4, <1>5, FS_AddElement
<1>7. Cardinality(Own \cup {call[t].name} \cup {n}) <= Cardinality(names)
  BY <1>1, <1>4, FS_Subset
<1>8. Cardinality(Own) \in Nat /\ Cardinality(names) \in Nat
  BY <1>1, <1>3, FS_CardinalityType
<1> QED BY <1>3, <1>5, <1>6, <1>7, <1>8

\* The lock is taken and the document changed: nothing that was saved gets lost.
LEMMA UpdateStep ==
    ASSUME IndInv, NEW t \in Tracers, pc[t] = "lock", flock[fd[t]] = NoTracer, Update(t),
           flock' = [flock EXCEPT ![fd[t]] = t],
           UNCHANGED <<kind, names, backing, meta_path, call, exists, fd, saved>>
    PROVE  IndInv'
<1> DEFINE i == fd[t]
           d == Current(t)
           new == update_fn(call[t], d)
<1>0. /\ TypeOK /\ TracerInv(t) /\ i \in Inodes /\ InodeInv(i) /\ flock[i] = NoTracer
      /\ call[t] \in Calls /\ call[t].op # "none" /\ d \in Documents /\ NamesInv
      /\ d = IF exists[t] THEN text[i] ELSE Default
      /\ t # NoTracer
  BY DEF IndInv, TracerInv, TypeOK, Update, IsDocument, Current
<1>1. /\ data' = [data EXCEPT ![t] = new] /\ Goto(t, "write")
      /\ should_keep' = [should_keep EXCEPT ![t] = Deletes(call[t]) /\ d.links > 1]
      /\ text' = [text EXCEPT ![i] = Torn]
      /\ raced' = IF ~exists[t] /\ text[i] # Empty THEN raced \cup {i} ELSE raced
  BY DEF Update
<1>2. /\ new \in Documents /\ d.fields \subseteq new.fields
      /\ call[t].op = "save" => call[t].field \in new.fields
      /\ call[t].op = "save" => new.links = d.links
      /\ call[t].op = "link" => new.links = d.links + 1
      /\ Deletes(call[t]) => new.links = IF d.links > 1 THEN d.links - 1 ELSE d.links
      /\ d.links \in Nat
  BY <1>0, UpdateFacts, DocumentFacts
<1> HIDE DEF d, new
<1>3. /\ pc' \in [Tracers -> Places] /\ pc'[t] = "write"
      /\ \A u \in Tracers \ {t} : pc'[u] = pc[u]
  BY <1>0, <1>1, MoveFacts DEF Places
<1>4. /\ data' \in [Tracers -> Documents] /\ data'[t] = new
      /\ \A u \in Tracers \ {t} : data'[u] = data[u]
  BY <1>0, <1>1, <1>2 DEF TypeOK
<1>5. /\ should_keep' \in [Tracers -> BOOLEAN]
      /\ should_keep'[t] = (Deletes(call[t]) /\ d.links > 1)
      /\ \A u \in Tracers \ {t} : should_keep'[u] = should_keep[u]
  BY <1>0, <1>1 DEF TypeOK
<1>6. /\ text' \in [Inodes -> Documents \cup {Empty, Torn}] /\ text'[i] = Torn
      /\ flock' \in [Inodes -> Tracers \cup {NoTracer}] /\ flock'[i] = t
      /\ \A k \in Inodes \ {i} : text'[k] = text[k] /\ flock'[k] = flock[k]
  BY <1>0, <1>1 DEF TypeOK
<1>7. raced' \subseteq Inodes /\ raced \subseteq raced'
  BY <1>0, <1>1 DEF TypeOK
<1>88. /\ slips' \subseteq Slips /\ slips \subseteq slips'
       /\ kind = "hardlink" /\ slips' = {} /\ Deletes(call[t]) /\ ~should_keep'[t] => Uncounted = {}
  <2> DEFINE early == Deletes(call[t]) /\ ~should_keep'[t] /\ Uncounted # {}
             kinds == {s \in {"early"} : early}
  <2>1. Slip(kinds) /\ kinds \subseteq Slips /\ (kinds = {} => ~early)
    BY DEF Update, Slips
  <2> HIDE DEF kinds
  <2> QED BY <1>0, <2>1, SlipFacts
<1>8. TypeOK'
  BY <1>0, <1>3, <1>4, <1>5, <1>6, <1>7, <1>88 DEF TypeOK
<1>9. \A u \in Tracers \ {t} : Stays(u)
  BY <1>3, <1>4, <1>5 DEF Stays
<1>10. TracerInv(t)'
  <2>1. i \notin raced' => saved[i] \subseteq new.fields
    <3> SUFFICES ASSUME i \notin raced' PROVE saved[i] \subseteq new.fields
      OBVIOUS
    <3>1. i \notin raced /\ (exists[t] \/ text[i] = Empty)
      BY <1>1, <1>7
    <3>2. saved[i] = {} \/ (saved[i] \subseteq text[i].fields /\ text[i] \in Documents)
      BY <1>0, <3>1 DEF InodeInv
    <3>3. saved[i] \subseteq d.fields
      BY <1>0, <3>1, <3>2, DocumentFacts
    <3> QED BY <1>2, <3>3
  <2> QED BY <1>0, <1>2, <1>3, <1>4, <1>5, <1>6, <2>1 DEF TracerInv
<1>11. \A u \in Tracers : TracerInv(u)'
  <2>1. \A u \in Tracers \ {t} : pc[u] = "write" => fd[u] \in Inodes \ {i}
    BY <1>0 DEF IndInv, TracerInv
  <2>2. \A u \in Tracers \ {t} : TracerInv(u)'
    BY <1>6, <1>7, <1>9, <2>1, Others
  <2> QED BY <1>10, <2>2
<1>12. \A k \in Inodes : InodeInv(k)'
  <2>1. InodeInv(i)'
    BY <1>0, <1>3, <1>6 DEF InodeInv
  <2>2. ASSUME NEW k \in Inodes \ {i} PROVE InodeInv(k)'
    <3>1. flock[k] # t
      BY HoldsNothing
    <3> QED BY <1>6, <1>7, <1>9, <3>1, OtherInode
  <2> QED BY <2>1, <2>2
<1>13. LinkInv'
  <2> SUFFICES ASSUME kind = "hardlink", slips' = {}, backing PROVE LinkInv'
    BY DEF LinkInv
  <2>1. /\ meta_path = 1 /\ raced = {} /\ exists[t] /\ i = 1
        /\ \A u \in Tracers : /\ pc[u] \in {"open", "lock", "write"} => exists[u]
                              /\ pc[u] \in {"lock", "write"} => fd[u] = 1
        /\ text[1].links = Expected
    BY <1>0, <1>88 DEF IndInv, LinkInv
  <2>2. \A u \in Tracers : pc[u] # "write"
    BY <1>0, <2>1 DEF IndInv, TracerInv
  <2>3. raced' = {} /\ meta_path' = 1 /\ flock'[1] # NoTracer
    BY <1>0, <1>1, <1>6, <2>1
  <2>4. \A u \in Tracers : /\ pc'[u] \in {"open", "lock", "write"} => exists'[u]
                           /\ pc'[u] \in {"lock", "write"} => fd'[u] = 1
    BY <1>3, <2>1
  <2>5. new.links = IF should_keep'[t] THEN Expected' - 1 ELSE Expected'
    <3>1. /\ t \in Uncounted <=> call[t].op = "link"
          /\ t \notin Uncounted' /\ t \notin Discounted /\ t \notin Discounted'
      BY <1>3 DEF Uncounted, Discounted, Deleting
    <3>2. PICK a, b \in Nat :
              /\ Cardinality(Uncounted)   = a + IF t \in Uncounted THEN 1 ELSE 0
              /\ Cardinality(Uncounted)'  = a + IF t \in Uncounted' THEN 1 ELSE 0
              /\ Cardinality(Discounted)  = b + IF t \in Discounted THEN 1 ELSE 0
              /\ Cardinality(Discounted)' = b + IF t \in Discounted' THEN 1 ELSE 0
      BY <1>9, SetsSplit DEF Stays
    <3>3. Cardinality(names) \in Nat
      BY <1>0, NamesSplit DEF TypeOK
    <3>4. Expected' = IF call[t].op = "link" THEN Expected + 1 ELSE Expected
      BY <3>1, <3>2, <3>3 DEF Expected
    <3>5. d.links = Expected
      BY <1>0, <2>1
    <3>6. (call[t].op \in {"save", "link"} \/ Deletes(call[t])) /\ ~(call[t].op = "link" /\ Deletes(call[t]))
      BY <1>0, CallFacts DEF Deletes
    <3> QED BY <1>2, <1>5, <3>4, <3>5, <3>6
  <2>6. ASSUME NEW u \in Tracers, pc'[u] = "write"
        PROVE  data'[u].links = IF should_keep'[u] THEN Expected' - 1 ELSE Expected'
    <3>1. u = t
      BY <1>3, <2>2, <2>6
    <3> QED BY <1>4, <2>5, <2>6, <3>1
  <2> QED BY <2>3, <2>4, <2>6 DEF LinkInv
<1>14. NamesInv'
  <2>1. /\ t \notin Leaving /\ t \notin Discounted /\ (Found(t)' => Found(t))
        /\ Discounted' = Discounted
        /\ t \in AtLast' => Deletes(call[t]) /\ ~should_keep'[t]
    BY <1>3, <1>9 DEF Leaving, Discounted, Deleting, Found, AtLast, Stays
  <2>2. ASSUME kind = "hardlink", slips' = {}, backing, t \in AtLast' PROVE Last(t)
    <3>1. Deletes(call[t]) /\ ~should_keep'[t] /\ Uncounted = {} /\ slips = {}
      BY <1>88, <2>1, <2>2
    <3>2. d.links = Expected /\ d.links <= 1
      BY <1>0, <1>2, <1>5, <2>2, <3>1 DEF IndInv, LinkInv
    <3>3. Found(t) /\ \A u \in Discounted : Found(u)
      BY <3>1 DEF Found
    <3>4. /\ call[t].name \in names /\ t \in Deleting
          /\ \A u \in Discounted : u \in Deleting /\ call[u].name \in names
      BY <1>0, <2>2, <3>1, <3>3 DEF NamesInv, Discounted, Deleting
    <3>5. \A u, v \in Deleting : call[u].name = call[v].name => u = v
      BY <1>0, <2>2, <3>1 DEF NamesInv
    <3>6. Cardinality(names) <= Cardinality(Discounted) + 1
      <4>1. /\ Cardinality(names) \in Nat /\ Cardinality(Discounted) \in Nat
            /\ Cardinality(Uncounted) = 0
        <5>1. Cardinality(names) \in Nat
          BY <1>0, NamesSplit DEF TypeOK
        <5>2. IsFiniteSet(Discounted)
          BY FS_Subset DEF Discounted, Deleting
        <5> QED BY <3>1, <5>1, <5>2, FS_CardinalityType, FS_EmptySet
      <4> QED BY <3>2, <4>1 DEF Expected
    <3> QED BY <1>0, <2>1, <3>4, <3>5, <3>6, LastName
  <2>3. kind = "hardlink" /\ slips' = {} /\ backing /\ t \in AtLast' => Last(t)'
    BY <2>1, <2>2 DEF Last
  <2>4. pc'[t] # "remove_meta"
    BY <1>3
  <2>5. kind = "hardlink" /\ slips' = {} /\ backing /\ Found(t)' => call[t].name \in names
    BY <1>0, <1>88, <2>1 DEF NamesInv
  <2> QED BY <1>0, <1>88, <1>9, <2>1, <2>3, <2>4, <2>5, NamesKept
<1> QED BY <1>8, <1>11, <1>12, <1>13, <1>14 DEF IndInv

LEMMA SaveLockStep ==
    ASSUME IndInv, NEW t \in Tracers, SaveLock(t)
    PROVE  IndInv'
<1>1. /\ pc[t] = "lock" /\ flock[fd[t]] = NoTracer
      /\ UNCHANGED <<kind, names, backing, meta_path, saved>>
  BY DEF SaveLock
<1>2. CASE Update(t) /\ flock' = [flock EXCEPT ![fd[t]] = t] /\ UNCHANGED <<call, exists, fd>>
  BY <1>1, <1>2, UpdateStep
<1>3. CASE ~IsDocument(Current(t)) /\ Return(t) /\ LinkUncounted(t) /\ UNCHANGED <<text, flock, raced>>
  BY <1>1, <1>3, GivesUp
<1> QED BY <1>2, <1>3 DEF SaveLock

\* The document is written and the lock released.
LEMMA SaveWriteStep ==
    ASSUME IndInv, NEW t \in Tracers, SaveWrite(t)
    PROVE  IndInv'
<1> PICK i \in Inodes : i = fd[t]
  BY DEF IndInv, TracerInv, SaveWrite
<1>0. /\ TypeOK /\ TracerInv(t) /\ pc[t] = "write" /\ flock[i] = t /\ t # NoTracer
      /\ call[t] \in Calls /\ data[t] \in Documents /\ NamesInv
      /\ UNCHANGED <<kind, names, backing, meta_path, raced, slips>>
  BY DEF IndInv, TracerInv, TypeOK, SaveWrite
<1>1. /\ text' \in [Inodes -> Documents \cup {Empty, Torn}]
      /\ text'[i] \in {data[t], Torn} /\ (i \notin raced => text'[i] = data[t])
      /\ \A k \in Inodes \ {i} : text'[k] = text[k]
  BY <1>0 DEF SaveWrite, TypeOK
<1>2. /\ flock' \in [Inodes -> Tracers \cup {NoTracer}] /\ flock'[i] = NoTracer
      /\ \A k \in Inodes \ {i} : flock'[k] = flock[k]
  BY <1>0 DEF SaveWrite, TypeOK
<1>3. /\ saved' \in [Inodes -> SUBSET Fields]
      /\ saved'[i] = IF call[t].op = "save" THEN saved[i] \cup {call[t].field} ELSE saved[i]
      /\ \A k \in Inodes \ {i} : saved'[k] = saved[k]
  <2>1. saved' = [saved EXCEPT ![i] = IF call[t].op = "save" THEN saved[i] \cup {call[t].field} ELSE saved[i]]
    BY DEF SaveWrite
  <2>2. call[t].op = "save" => call[t].field \in Fields
    BY <1>0, CallFacts
  <2> QED BY <1>0, <2>1, <2>2 DEF TypeOK
<1>4. /\ pc' \in [Tracers -> Places] /\ call' \in [Tracers -> Calls]
      /\ exists' \in [Tracers -> BOOLEAN] /\ should_keep' \in [Tracers -> BOOLEAN]
      /\ fd' \in [Tracers -> Inodes \cup {NoInode}] /\ data' \in [Tracers -> Documents]
      /\ \A u \in Tracers \ {t} : Stays(u)
      /\ TracerInv(t)'
      /\ \/ ~Deletes(call[t]) /\ pc'[t] = "idle" /\ ~should_keep'[t] /\ call'[t] = NoCall
         \/ /\ Deletes(call[t]) /\ call'[t] = call[t] /\ should_keep'[t] = should_keep[t]
            /\ pc'[t] = IF should_keep[t] THEN "syscall" ELSE "remove_backing"
  <2>1. CASE ~Deletes(call[t]) /\ Return(t)
    BY <1>0, <2>1, ReturnFacts
  <2>2. CASE /\ Deletes(call[t])
             /\ Goto(t, IF should_keep[t] THEN "syscall" ELSE "remove_backing")
             /\ fd' = [fd EXCEPT ![t] = NoInode]
             /\ data' = [data EXCEPT ![t] = Default]
             /\ UNCHANGED <<call, exists, should_keep>>
    <3>1. /\ pc' \in [Tracers -> Places]
          /\ pc'[t] = IF should_keep[t] THEN "syscall" ELSE "remove_backing"
          /\ \A u \in Tracers \ {t} : pc'[u] = pc[u]
      BY <1>0, <2>2 DEF TypeOK, Goto, Places
    <3>2. /\ fd' \in [Tracers -> Inodes \cup {NoInode}]
          /\ \A u \in Tracers \ {t} : fd'[u] = fd[u]
      BY <1>0, <2>2 DEF TypeOK
    <3>3. /\ data' \in [Tracers -> Documents]
          /\ \A u \in Tracers \ {t} : data'[u] = data[u]
      BY <1>0, <2>2, DocumentFacts DEF TypeOK
    <3>4. TracerInv(t)'
      BY <1>0, <2>2, <3>1 DEF TracerInv
    <3>5. \A u \in Tracers \ {t} : Stays(u)
      BY <2>2, <3>1, <3>2, <3>3 DEF Stays
    <3> QED BY <1>0, <2>2, <3>1, <3>2, <3>3, <3>4, <3>5 DEF TypeOK
  <2> QED BY <2>1, <2>2 DEF SaveWrite
<1>5. TypeOK'
  BY <1>0, <1>1, <1>2, <1>3, <1>4 DEF TypeOK
<1>6. \A u \in Tracers : TracerInv(u)'
  <2>1. \A u \in Tracers \ {t} : pc[u] = "write" => fd[u] \in Inodes \ {i}
    BY <1>0 DEF IndInv, TracerInv
  <2>2. \A u \in Tracers \ {t} : TracerInv(u)'
    BY <1>0, <1>2, <1>3, <1>4, <2>1, Others
  <2> QED BY <1>4, <2>2
<1>7. \A k \in Inodes : InodeInv(k)'
  <2>1. InodeInv(i)'
    BY <1>0, <1>1, <1>2, <1>3 DEF InodeInv, TracerInv
  <2>2. ASSUME NEW k \in Inodes \ {i} PROVE InodeInv(k)'
    <3>1. InodeInv(k)
      BY DEF IndInv
    <3>2. flock[k] # t
      BY <1>0, <3>1 DEF InodeInv
    <3> QED BY <1>0, <1>1, <1>2, <1>3, <1>4, <3>2, OtherInode
  <2> QED BY <2>1, <2>2
<1>8. LinkInv'
  <2> SUFFICES ASSUME kind = "hardlink", slips = {}, backing PROVE LinkInv'
    BY <1>0 DEF LinkInv
  <2>1. /\ meta_path = 1 /\ raced = {} /\ i = 1
        /\ \A u \in Tracers : /\ pc[u] \in {"open", "lock", "write"} => exists[u]
                              /\ pc[u] \in {"lock", "write"} => fd[u] = 1
        /\ data[t].links = IF should_keep[t] THEN Expected - 1 ELSE Expected
    BY <1>0 DEF IndInv, LinkInv
  <2>2. \A u \in Tracers \ {t} : pc[u] # "write"
    BY <1>0, <2>1 DEF IndInv, TracerInv
  <2>3. \A u \in Tracers : pc'[u] # "write"
    BY <1>4, <2>2 DEF Stays
  <2>4. \A u \in Tracers : /\ pc'[u] \in {"open", "lock", "write"} => exists'[u]
                           /\ pc'[u] \in {"lock", "write"} => fd'[u] = 1
    BY <1>4, <2>1 DEF Stays
  <2>5. text'[1] \in Documents /\ text'[1] = data[t]
    BY <1>0, <1>1, <2>1
  <2>6. data[t].links = Expected'
    <3>1. /\ t \notin Uncounted /\ t \notin Uncounted' /\ t \notin Discounted
          /\ t \in Discounted' <=> should_keep[t]
      BY <1>0, <1>4 DEF Uncounted, Discounted, Deleting, TracerInv
    <3>2. PICK a, b \in Nat :
              /\ Cardinality(Uncounted)   = a + IF t \in Uncounted THEN 1 ELSE 0
              /\ Cardinality(Uncounted)'  = a + IF t \in Uncounted' THEN 1 ELSE 0
              /\ Cardinality(Discounted)  = b + IF t \in Discounted THEN 1 ELSE 0
              /\ Cardinality(Discounted)' = b + IF t \in Discounted' THEN 1 ELSE 0
      BY <1>4, SetsSplit DEF Stays
    <3>3. Cardinality(names) \in Nat
      BY <1>0, NamesSplit DEF TypeOK
    <3>4. Expected' = IF should_keep[t] THEN Expected - 1 ELSE Expected
      BY <1>0, <3>1, <3>2, <3>3 DEF Expected
    <3> QED BY <2>1, <3>4
  <2> QED BY <1>0, <2>1, <2>3, <2>4, <2>5, <2>6 DEF LinkInv
<1>9. NamesInv'
  <2>1. /\ t \notin Leaving /\ t \notin Discounted /\ (Found(t)' => Found(t))
        /\ Found(t)' => call'[t] = call[t]
        /\ t \in AtLast' => t \in AtLast /\ call'[t] = call[t]
        /\ pc'[t] # "remove_meta"
        /\ Deletes(call'[t]) => call'[t] = call[t]
    BY <1>0, <1>4 DEF Leaving, Discounted, Deleting, Found, AtLast, Deletes, NoCall
  <2> QED BY <1>0, <1>4, <2>1, NamesKept DEF NamesInv
<1> QED BY <1>5, <1>6, <1>7, <1>8, <1>9 DEF IndInv

-------------------------------------------------------------------------------
(* The rest of delete_metadata_for_file, and the unlink itself.              *)

LEMMA RemoveBackingStep ==
    ASSUME IndInv, NEW t \in Tracers, RemoveBacking(t)
    PROVE  IndInv'
<1>0. /\ TypeOK /\ TracerInv(t) /\ NamesInv /\ pc[t] = "remove_backing" /\ Deletes(call[t])
      /\ UNCHANGED <<kind, meta_path, text, flock, call, exists, fd, data, should_keep, raced,
                     saved, slips>>
  BY DEF IndInv, RemoveBacking, TracerInv, local, history
<1>1. /\ pc' \in [Tracers -> Places] /\ pc'[t] = "remove_meta"
      /\ \A u \in Tracers \ {t} : pc'[u] = pc[u]
  BY <1>0, MoveFacts DEF RemoveBacking, Places
<1>2. /\ names' \subseteq Names /\ backing' \in BOOLEAN /\ (backing' => backing)
      /\ kind = "hardlink" => names' = names /\ (Resolves(call[t]) => ~backing')
      /\ ~Resolves(call[t]) => backing' = backing
  BY <1>0 DEF RemoveBacking, TypeOK
<1>3. TypeOK'
  BY <1>0, <1>1, <1>2 DEF TypeOK
<1>4. TracerInv(t)'
  BY <1>0, <1>1 DEF TracerInv
<1>5. \A u \in Tracers \ {t} : Stays(u)
  BY <1>0, <1>1 DEF Stays
<1>6. ASSUME kind = "hardlink", slips = {} PROVE ~backing' /\ (backing => Last(t))
  <2>1. Found(t) /\ t \in AtLast
    BY <1>0 DEF Found, AtLast, Deleting, TracerInv
  <2>2. backing => Resolves(call[t])
    BY <1>0, <1>6, <2>1 DEF NamesInv, Resolves, PathExists
  <2> QED BY <1>0, <1>2, <1>6, <2>1, <2>2 DEF NamesInv, TypeOK
<1>7. NamesInv'
  <2> SUFFICES ASSUME kind = "hardlink", slips = {} PROVE NamesInv'
    BY <1>0 DEF NamesInv
  <2>1. Deleting' = Deleting /\ \A u \in Leaving : u \in Leaving'
    BY <1>0, <1>1 DEF Deleting, Leaving
  <2>2. t \in Leaving' /\ \A u \in Discounted : u \in Leaving'
    BY <1>0, <1>1 DEF Leaving, Deleting, Discounted
  <2>3. \A n \in names : \E u \in Leaving' : call[u].name = n
    BY <1>0, <1>6, <2>1, <2>2 DEF NamesInv, Last
  <2> QED BY <1>0, <1>2, <1>6, <2>1, <2>3 DEF NamesInv
<1> QED BY <1>0, <1>1, <1>2, <1>3, <1>4, <1>5, <1>6, <1>7, QuietStep

LEMMA RemoveMetaStep ==
    ASSUME IndInv, NEW t \in Tracers, RemoveMeta(t)
    PROVE  IndInv'
<1>0. /\ TypeOK /\ TracerInv(t) /\ NamesInv /\ pc[t] = "remove_meta" /\ meta_path' = NoInode
      /\ UNCHANGED <<kind, names, backing, text, flock, call, exists, fd, data, should_keep, raced,
                     saved, slips>>
  BY DEF IndInv, RemoveMeta, local, history
<1>1. /\ pc' \in [Tracers -> Places] /\ pc'[t] = "syscall"
      /\ \A u \in Tracers \ {t} : pc'[u] = pc[u]
  BY <1>0, MoveFacts DEF RemoveMeta, Places
<1>2. TypeOK'
  BY <1>0, <1>1 DEF TypeOK
<1>3. TracerInv(t)'
  BY <1>0, <1>1 DEF TracerInv
<1>4. \A u \in Tracers \ {t} : Stays(u)
  BY <1>0, <1>1 DEF Stays
<1>5. kind = "hardlink" /\ slips = {} => ~backing
  BY <1>0 DEF NamesInv
<1>6. NamesInv'
  <2>1. t \notin Discounted /\ (t \in Leaving => t \in Leaving')
    BY <1>0, <1>1 DEF Discounted, Leaving, Deleting
  <2> QED BY <1>0, <1>4, <1>5, <2>1, NamesKept
<1> QED BY <1>0, <1>1, <1>2, <1>3, <1>4, <1>5, <1>6, QuietStep

\* The name goes away or not; a slip tells when the counter expected otherwise.
LEMMA SyscallStep ==
    ASSUME IndInv, NEW t \in Tracers, Syscall(t)
    PROVE  IndInv'
<1> DEFINE refused == names' = names /\ (should_keep[t] \/ (~backing /\ call[t].name \in names))
           unseen == ~should_keep[t] /\ names' # names /\ backing
<1>0. /\ TypeOK /\ TracerInv(t) /\ NamesInv /\ pc[t] = "syscall" /\ Deletes(call[t])
      /\ UNCHANGED <<kind, meta_path, text, flock, raced, saved>>
      /\ should_keep[t] \in BOOLEAN /\ names \subseteq Names
  BY DEF IndInv, Syscall, TracerInv, TypeOK
<1>1. /\ pc' \in [Tracers -> Places] /\ call' \in [Tracers -> Calls]
      /\ exists' \in [Tracers -> BOOLEAN] /\ should_keep' \in [Tracers -> BOOLEAN]
      /\ fd' \in [Tracers -> Inodes \cup {NoInode}] /\ data' \in [Tracers -> Documents]
      /\ pc'[t] = "idle" /\ call'[t] = NoCall /\ ~should_keep'[t]
      /\ \A u \in Tracers \ {t} : Stays(u)
      /\ TracerInv(t)'
  BY <1>0, ReturnFacts DEF Syscall
<1>2. /\ names' = names \/ (names' = names \ {call[t].name} /\ call[t].name \in names)
      /\ names' \subseteq Names
  BY <1>0 DEF Syscall
<1>3. backing' \in BOOLEAN /\ (backing' => backing) /\ (kind = "hardlink" => backing' = backing)
  BY <1>0 DEF Syscall, TypeOK
<1>4. /\ slips' \subseteq Slips /\ slips \subseteq slips'
      /\ kind = "hardlink" /\ slips' = {} => ~refused /\ ~unseen
  <2> DEFINE kinds == {s \in {"refused"} : refused} \cup {s \in {"unseen"} : unseen}
  <2>1. Slip(kinds) /\ kinds \subseteq Slips /\ (kinds = {} => ~refused /\ ~unseen)
    BY DEF Syscall, Slips
  <2> HIDE DEF kinds
  <2> QED BY <1>0, <2>1, SlipFacts
<1>5. TypeOK'
  BY <1>0, <1>1, <1>2, <1>3, <1>4 DEF TypeOK
<1>6. ASSUME backing, ~refused, ~unseen PROVE Expected' = Expected
  <2>1. /\ t \notin Uncounted /\ t \notin Uncounted' /\ t \notin Discounted'
        /\ t \in Discounted <=> should_keep[t]
    BY <1>0, <1>1 DEF Uncounted, Discounted, Deleting
  <2>2. PICK a, b \in Nat :
            /\ Cardinality(Uncounted)   = a + IF t \in Uncounted THEN 1 ELSE 0
            /\ Cardinality(Uncounted)'  = a + IF t \in Uncounted' THEN 1 ELSE 0
            /\ Cardinality(Discounted)  = b + IF t \in Discounted THEN 1 ELSE 0
            /\ Cardinality(Discounted)' = b + IF t \in Discounted' THEN 1 ELSE 0
    BY <1>1, SetsSplit DEF Stays
  <2>3. /\ Cardinality(names) \in Nat
        /\ names' = names \/ (names' # names /\ Cardinality(names') = Cardinality(names) - 1)
    BY <1>0, <1>2, NamesSplit
  <2>4. should_keep[t] <=> names' # names
    BY <1>0, <1>6
  <2> HIDE DEF refused, unseen
  <2> QED BY <2>1, <2>2, <2>3, <2>4 DEF Expected
<1>7. NamesInv'
  <2> SUFFICES ASSUME kind = "hardlink", slips' = {} PROVE NamesInv'
    BY <1>0 DEF NamesInv
  <2>1. slips = {} /\ ~refused /\ ~unseen /\ backing' = backing
    BY <1>3, <1>4
  <2>2. /\ \A u \in Tracers \ {t} : /\ u \in Deleting' <=> u \in Deleting
                                    /\ u \in Discounted' <=> u \in Discounted
                                    /\ u \in Leaving' <=> u \in Leaving
                                    /\ u \in AtLast' <=> u \in AtLast
                                    /\ Found(u)' <=> Found(u)
                                    /\ Found(u) => u \in Deleting
                                    /\ call'[u] = call[u] /\ pc'[u] = pc[u]
        /\ Deleting' \subseteq Tracers /\ Discounted \subseteq Tracers /\ Leaving \subseteq Tracers
    BY <1>1 DEF Deleting, Discounted, Leaving, AtLast, Found, Stays, Deletes
  <2>3. /\ t \in Deleting /\ t \notin Deleting' /\ t \notin AtLast' /\ ~Found(t)'
        /\ pc'[t] # "remove_meta"
    BY <1>0, <1>1 DEF Deleting, Discounted, AtLast, Found, Deletes, NoCall
  <2>4. \A u, v \in Deleting : call[u].name = call[v].name => u = v
    BY <2>1 , <1>0 DEF NamesInv
  <2>5. call[t].name \notin names' \/ (backing /\ t \notin Discounted /\ names' = names)
    BY <1>0, <1>2, <2>1 DEF Discounted
  <2>6. ASSUME backing, NEW u \in Tracers, Found(u)' PROVE call'[u].name \in names'
    BY <1>0, <1>2, <2>1, <2>2, <2>3, <2>4, <2>6 DEF NamesInv
  <2>7. ASSUME backing, NEW u \in Tracers, u \in AtLast' PROVE Last(u)'
    <3>1. u # t /\ u \in AtLast /\ Last(u) /\ call'[u] = call[u]
      BY <1>0, <2>1, <2>2, <2>3, <2>7 DEF NamesInv
    <3>2. ASSUME NEW n \in names', n # call[u].name PROVE \E v \in Discounted' : call'[v].name = n
      <4>1. n \in names
        BY <1>2
      <4>2. PICK v \in Discounted : call[v].name = n
        BY <3>1, <3>2, <4>1 DEF Last
      <4>3. v # t
        BY <2>5, <4>2, <3>2
      <4> QED BY <2>2, <4>2, <4>3
    <3> QED BY <3>1, <3>2 DEF Last
  <2>8. ASSUME ~backing, NEW n \in names' PROVE \E u \in Leaving' : call'[u].name = n
    <3>1. n \in names
      BY <1>2
    <3>2. PICK u \in Leaving : call[u].name = n
      BY <1>0, <2>1, <2>8, <3>1 DEF NamesInv
    <3>3. u # t
      BY <2>5, <2>8, <3>2
    <3> QED BY <2>2, <3>2, <3>3
  <2>9. \A u, v \in Deleting' : call'[u].name = call'[v].name => u = v
    BY <2>2, <2>3, <2>4
  <2>10. ASSUME backing, NEW u \in Tracers PROVE pc'[u] # "remove_meta"
    BY <1>0, <2>1, <2>2, <2>3, <2>10 DEF NamesInv
  <2> HIDE DEF refused, unseen
  <2> QED BY <1>3, <2>1, <2>6, <2>7, <2>8, <2>9, <2>10 DEF NamesInv
<1> HIDE DEF refused, unseen
<1> QED BY <1>0, <1>1, <1>3, <1>4, <1>5, <1>6, <1>7, QuietStep

-------------------------------------------------------------------------------
(* The theorems.                                                             *)

LEMMA InitInv == Init => IndInv
<1> SUFFICES ASSUME Init PROVE IndInv
  OBVIOUS
<1>0. /\ \A t \in Tracers : pc[t] = "idle" /\ call[t] = NoCall /\ ~should_keep[t]
      /\ \A i \in Inodes : flock[i] = NoTracer /\ saved[i] = {}
      /\ raced = {} /\ slips = {} /\ names \subseteq Names /\ backing = TRUE
  BY DEF Init
<1>1. Cardinality(names) \in Nat
  BY <1>0, NamesSplit
<1>2. text \in [Inodes -> Documents \cup {Empty}]
  <2>1. [fields |-> {}, links |-> Cardinality(names)] \in Documents
    BY <1>1 DEF Documents
  <2> QED BY <2>1 DEF Init
<1>3. TypeOK
  <2>1. /\ pc \in [Tracers -> Places] /\ call \in [Tracers -> Calls] /\ data \in [Tracers -> Documents]
    BY DocumentFacts DEF Init, Places, Calls
  <2>2. /\ kind \in {"plain", "hardlink"} /\ meta_path \in Inodes \cup {NoInode} /\ backing \in BOOLEAN
        /\ flock \in [Inodes -> Tracers \cup {NoTracer}] /\ fd \in [Tracers -> Inodes \cup {NoInode}]
        /\ exists \in [Tracers -> BOOLEAN] /\ should_keep \in [Tracers -> BOOLEAN]
        /\ saved \in [Inodes -> SUBSET Fields] 
    BY DEF Init
  <2> QED BY <1>0, <1>2, <2>1, <2>2 DEF TypeOK
<1>4. \A t \in Tracers : TracerInv(t)
  BY <1>0 DEF TracerInv
<1>5. \A i \in Inodes : InodeInv(i)
  BY <1>0, <1>2 DEF InodeInv
<1>6. LinkInv
  <2> SUFFICES ASSUME kind = "hardlink" PROVE LinkInv
    BY DEF LinkInv
  <2>1. meta_path = 1 /\ text[1] = [fields |-> {}, links |-> Cardinality(names)]
    BY DEF Init
  <2>2. Uncounted = {} /\ Discounted = {}
    BY <1>0 DEF Uncounted, Discounted, Deleting, NoCall
  <2>3. Expected = Cardinality(names)
    BY <1>0, <1>1, <2>2, FS_EmptySet DEF Expected
  <2>4. text[1] \in Documents /\ text[1].links = Expected
    BY <1>1, <2>1, <2>3 DEF Documents
  <2> QED BY <1>0, <2>1, <2>4 DEF LinkInv
<1>7. NamesInv
  <2>1. Deleting = {} /\ \A t \in Tracers : ~Found(t) /\ t \notin AtLast
    BY <1>0 DEF Deleting, Deletes, Found, AtLast, Discounted, NoCall
  <2> QED BY <1>0, <2>1 DEF NamesInv
<1> QED BY <1>3, <1>4, <1>5, <1>6, <1>7 DEF IndInv

LEMMA NextInv == IndInv /\ [Next]_vars => IndInv'
<1> SUFFICES ASSUME IndInv, [Next]_vars PROVE IndInv'
  OBVIOUS
<1>1. CASE UNCHANGED vars
  <2> USE <1>1 DEF vars, shared, local, history
  <2>1. TypeOK'
    BY DEF IndInv, TypeOK
  <2>2. \A t \in Tracers : TracerInv(t)'
    BY DEF IndInv, TracerInv
  <2>3. \A i \in Inodes : InodeInv(i)'
    BY DEF IndInv, InodeInv
  <2>4. Expected' = Expected
    BY DEF Expected, Uncounted, Discounted, Deleting
  <2>5. LinkInv'
    BY <2>4 DEF IndInv, LinkInv
  <2>6. NamesInv'
    BY DEF IndInv, NamesInv, Deleting, Found, Last, AtLast, Discounted, Leaving
  <2> QED BY <2>1, <2>2, <2>3, <2>5, <2>6 DEF IndInv
<1>2. ASSUME NEW t \in Tracers,
             \/ \E n \in Names, f \in Fields : Chmod(t, n, f) \/ Create(t, n, f)
             \/ \E old, n \in Names : Link(t, old, n)
             \/ \E n \in Names : Unlink(t, n) \/ Rename(t, n)
      PROVE  IndInv'
  BY <1>2, BeginStep
<1>3. ASSUME NEW t \in Tracers,
             DeleteCheck(t) \/ SaveCheck(t) \/ SaveOpen(t) \/ SaveLock(t) \/ SaveWrite(t)
      PROVE  IndInv'
  BY <1>3, DeleteCheckStep, SaveCheckStep, SaveOpenStep, SaveLockStep, SaveWriteStep
<1>4. ASSUME NEW t \in Tracers, RemoveBacking(t) \/ RemoveMeta(t) \/ Syscall(t)
      PROVE  IndInv'
  BY <1>4, RemoveBackingStep, RemoveMetaStep, SyscallStep
<1> QED BY <1>1, <1>2, <1>3, <1>4 DEF Next

\* The inductive invariant: who holds the flock of save_metadata_for_file, and what the
\* file and the holder's curr_data have to contain meanwhile.
THEOREM Invariance == Spec => []IndInv
<1> QED BY InitInv, NextInv, PTL DEF Spec

\* Type correctness of the metadata files and of the tracers that handle syscalls on them.
THEOREM TypeCorrect == Spec => []TypeOK
<1>1. IndInv => TypeOK
  BY DEF IndInv
<1> QED BY <1>1, Invariance, PTL

\* save_metadata_for_file loses no update, however many tracers save, link and unlink at
\* once, but for a file that two tracers create at the same moment.
THEOREM UpdatesStay == Spec => []NoLostUpdate
<1>1. IndInv => NoLostUpdate
  <2> SUFFICES ASSUME IndInv, Settled, saved[meta_path] # {}
               PROVE  IsDocument(text[meta_path]) /\ saved[meta_path] \subseteq text[meta_path].fields
    BY DEF NoLostUpdate
  <2>1. meta_path \in Inodes /\ InodeInv(meta_path)
    BY DEF IndInv, TypeOK, Settled
  <2> QED BY <2>1 DEF InodeInv, Settled, IsDocument
<1> QED BY <1>1, Invariance, PTL

\* The counter that augment_deletion, the link and the rename augments keep is the number
\* of names of the hard link, but for the calls under way, until one of the Slips; and the
\* metadata file that holds it stays as long as the content does.
THEOREM CounterIsExact == Spec => []CountsNames
<1>1. IndInv => CountsNames
  <2> SUFFICES ASSUME IndInv, kind = "hardlink", slips = {}, backing
               PROVE  meta_path # NoInode /\ (Settled => text[meta_path].links = Expected)
    BY DEF CountsNames, Expected
  <2> QED BY DEF IndInv, LinkInv, Settled, NoInode
<1> QED BY <1>1, Invariance, PTL

\* delete_metadata_for_file removes the content of a hard link only when every name that is
\* left is being deleted, however many tracers link, unlink and rename at once, until one of
\* the Slips.
THEOREM ContentIsKept == Spec => []ContentStays
<1>1. IndInv => ContentStays
  <2> SUFFICES ASSUME IndInv, kind = "hardlink", slips = {}, ~backing, NEW n \in names
               PROVE  \E t \in Deleting : call[t].name = n
    BY DEF ContentStays
  <2> QED BY DEF IndInv, NamesInv, Leaving
<1> QED BY <1>1, Invariance, PTL
===============================================================================
