----------------------------- MODULE MetadataFile -----------------------------
(***************************************************************************)
(* sysaug/src/aug_common.rs: the metadata file of one guest file, and the  *)
(* syscalls whose augments change it (aug_paths.rs, aug_paths_links.rs).   *)
(*                                                                         *)
(* The guest file is a plain file or a hard link: then its names are       *)
(* symbolic links to a backing file in the metadata directory, and the     *)
(* metadata counts them.  Several tracer threads, one per tracee, handle   *)
(* syscalls on it at once.  A syscall is cut at every call of the tracer   *)
(* into the host's file system; what is done under the flock of the        *)
(* metadata file is cut in two, because unlink needs no lock.              *)
(***************************************************************************)
EXTENDS Integers, FiniteSets

CONSTANTS Tracers, NoTracer,
          Names,     \* paths at which the file can be
          Fields,    \* the fields of RootFsMetadata but the counter: chmod, chown_owner, ...
          Inodes,    \* metadata files that exist at once, unlinked ones that are open included
          MaxLinks   \* bound: no link begins with a larger counter

ASSUME MetadataAssumption ==
    /\ NoTracer \notin Tracers
    /\ Inodes \subseteq Nat /\ 1 \in Inodes /\ 0 \notin Inodes
    /\ IsFiniteSet(Tracers) /\ IsFiniteSet(Inodes) /\ IsFiniteSet(Names)
    /\ Cardinality(Inodes) > Cardinality(Tracers)
    /\ MaxLinks \in Nat

VARIABLES
    kind,        \* "plain" or "hardlink"
    names,       \* the names the file has
    backing,     \* its content exists
    meta_path,   \* the inode at the path of the metadata file, or NoInode
    text,        \* what is written in each inode
    flock,       \* who holds the exclusive lock of each inode
    pc,          \* where each tracer is
    call,        \* per tracer: the syscall it handles
    exists,      \* per tracer: fs::exists, as it was before the file was opened
    fd,          \* per tracer: the open metadata file
    data,        \* per tracer: curr_data after update_fn
    should_keep, \* per tracer: what update_fn returned
    raced,       \* history: inodes a tracer wrote as new though they had a content
    saved,       \* history, per inode: the fields whose update returned Ok
    slips        \* history: what has gone wrong with the names of a hard link, see Slips

shared == <<kind, names, backing, meta_path, text, flock>>
local == <<call, exists, fd, data, should_keep>>
history == <<raced, saved, slips>>
vars == <<shared, pc, local, history>>

NoInode == 0

\* A metadata file is empty, holds no complete document (torn), or holds a document.
\* A counter of 0 stands for None.
Documents == [fields : SUBSET Fields, links : Nat]
Empty == [torn |-> FALSE]
Torn == [torn |-> TRUE]
IsDocument(x) == x \in Documents
Default == [fields |-> {}, links |-> 0]

NoCall == [op |-> "none"]

\* Path::exists and Path::canonicalize follow the symbolic link.
PathExists(n) == n \in names /\ backing

\* unlink, and rename of another file onto the name of a hard link.
Deletes(c) == c.op \in {"unlink", "rename"}
Deleting == {t \in Tracers : Deletes(call[t])}

\* rename deletes by the canonical path, that of the backing file.
Resolves(c) == IF c.op = "rename" THEN backing ELSE PathExists(c.name)

\* What the augments leave unprotected between their calls:
\*   twice      a name is deleted that is being deleted already;
\*   refused    the counter was decremented, or the content removed, and then the kernel did
\*              not remove the name;
\*   unseen     the kernel removed a name that had not been there to be counted;
\*   early      a name was taken for the last one while a new one was not counted yet;
\*   late       a link was made from a name that had been taken for the last one;
\*   uncounted  the counter could not be incremented for a link that had been made.
Slips == {"twice", "refused", "unseen", "early", "late", "uncounted"}

Slip(kinds) == slips' = IF kind = "hardlink" THEN slips \cup kinds ELSE slips

-------------------------------------------------------------------------------

Init ==
    /\ \/ /\ kind = "plain"
          /\ \E n \in Names : names = {n}
          /\ meta_path = NoInode
          /\ text = [i \in Inodes |-> Empty]
       \/ /\ kind = "hardlink"
          /\ names \in {ns \in SUBSET Names : ns # {}}
          /\ meta_path = 1
          /\ text = [i \in Inodes |-> IF i = 1 THEN [fields |-> {}, links |-> Cardinality(names)]
                                      ELSE Empty]
    /\ backing = TRUE
    /\ flock = [i \in Inodes |-> NoTracer]
    /\ pc = [t \in Tracers |-> "idle"]
    /\ call = [t \in Tracers |-> NoCall]
    /\ exists = [t \in Tracers |-> FALSE]
    /\ fd = [t \in Tracers |-> NoInode]
    /\ data = [t \in Tracers |-> Default]
    /\ should_keep = [t \in Tracers |-> FALSE]
    /\ raced = {}
    /\ saved = [i \in Inodes |-> {}]
    /\ slips = {}

Goto(t, l) == pc' = [pc EXCEPT ![t] = l]

Begin(t, c) ==
    /\ pc[t] = "idle"
    /\ call' = [call EXCEPT ![t] = c]
    /\ Goto(t, "check")
    /\ UNCHANGED <<exists, fd, data, should_keep, raced, saved>>

\* The augment is over, with or without an error: an error ends the tracer, and the
\* thread may be started again for another tracee.
Return(t) ==
    /\ Goto(t, "idle")
    /\ call' = [call EXCEPT ![t] = NoCall]
    /\ exists' = [exists EXCEPT ![t] = FALSE]
    /\ fd' = [fd EXCEPT ![t] = NoInode]
    /\ data' = [data EXCEPT ![t] = Default]
    /\ should_keep' = [should_keep EXCEPT ![t] = FALSE]

\* chmod and chown: the syscall is made, then the update is saved.
Chmod(t, n, f) ==
    /\ n \in names
    /\ Begin(t, [op |-> "save", name |-> n, field |-> f])
    /\ UNCHANGED <<shared, slips>>

\* open with O_CREAT: a plain file appears, then its mode is saved.
Create(t, n, f) ==
    /\ kind = "plain" /\ names = {}
    /\ names' = {n}
    /\ backing' = TRUE
    /\ Begin(t, [op |-> "save", name |-> n, field |-> f])
    /\ UNCHANGED <<kind, meta_path, text, flock, slips>>

\* Tracers that have read the counter and found the last name.
AtLast == {t \in Deleting : pc[t] \in {"write", "remove_backing"} /\ ~should_keep[t]}

\* link of a file that is a hard link: the new symbolic link is made at the entry of the
\* syscall, the counter incremented after its exit.
Link(t, old, n) ==
    /\ meta_path # NoInode /\ IsDocument(text[meta_path]) => text[meta_path].links <= MaxLinks
    /\ kind = "hardlink" /\ PathExists(old) /\ n \notin names
    /\ names' = names \cup {n}
    /\ Begin(t, [op |-> "link", name |-> n])
    /\ Slip({s \in {"late"} : AtLast # {}})
    /\ UNCHANGED <<kind, backing, meta_path, text, flock>>

Delete(t, op, n) ==
    /\ Begin(t, [op |-> op, name |-> n])
    /\ Slip({s \in {"twice"} : \E u \in Deleting : call[u].name = n})
    /\ UNCHANGED shared

\* unlink: augment_deletion runs at the entry of the syscall.
Unlink(t, n) == Delete(t, "unlink", n)

\* rename onto a name of a hard link, of which it takes one away.
Rename(t, n) == kind = "hardlink" /\ PathExists(n) /\ Delete(t, "rename", n)

-------------------------------------------------------------------------------
(* save_metadata_for_file.                                                   *)

\* A link that exists and is not counted, for ever.
LinkUncounted(t) == Slip({s \in {"uncounted"} : call[t].op = "link"})

\* delete_metadata_for_file resolves the path before the save does.
DeleteCheck(t) ==
    /\ pc[t] = "check" /\ Deletes(call[t])
    /\ Goto(t, IF Resolves(call[t]) THEN "check_save" ELSE "syscall")
    /\ UNCHANGED <<shared, local, history>>

\* get_metadata_path returns None when the path does not exist, and nothing is saved.
SaveCheck(t) ==
    /\ pc[t] = IF Deletes(call[t]) THEN "check_save" ELSE "check"
    /\ \/ /\ Resolves(call[t])
          /\ exists' = [exists EXCEPT ![t] = meta_path # NoInode]
          /\ Goto(t, "open")
          /\ UNCHANGED <<call, fd, data, should_keep, slips>>
       \/ /\ ~Resolves(call[t])
          /\ Deletes(call[t])
          /\ Goto(t, "remove_backing")
          /\ UNCHANGED <<local, slips>>
       \/ /\ ~Resolves(call[t])
          /\ ~Deletes(call[t])
          /\ Return(t)
          /\ LinkUncounted(t)
    /\ UNCHANGED <<shared, raced, saved>>

\* An inode that nobody has open and that no path leads to can be used again.
FreeInodes == Inodes \ ({meta_path} \cup {fd[u] : u \in Tracers})

SaveOpen(t) ==
    /\ pc[t] = "open"
    /\ \/ /\ meta_path # NoInode
          /\ fd' = [fd EXCEPT ![t] = meta_path]
          /\ UNCHANGED <<meta_path, text, raced, saved>>
       \/ /\ meta_path = NoInode
          /\ meta_path' = CHOOSE j \in FreeInodes : TRUE
          /\ fd' = [fd EXCEPT ![t] = meta_path']
          /\ text' = [text EXCEPT ![meta_path'] = Empty]
          /\ raced' = raced \ {meta_path'}
          /\ saved' = [saved EXCEPT ![meta_path'] = {}]
    /\ Goto(t, "lock")
    /\ UNCHANGED <<kind, names, backing, flock, call, exists, data, should_keep, slips>>

\* The update_fn of each augment, applied to a document: what becomes of it.
update_fn(c, d) ==
    CASE c.op = "save"   -> [d EXCEPT !.fields = @ \cup {c.field}]
      [] c.op = "link"   -> [d EXCEPT !.links = @ + 1]
      [] Deletes(c)      -> [d EXCEPT !.links = IF @ > 1 THEN @ - 1 ELSE @]

\* The document the update starts from: the file's, or the default one for a new file.
Current(t) == IF exists[t] THEN text[fd[t]] ELSE Default

\* Links that are made and not counted yet, names that are not counted any more and are
\* still there.
Uncounted == {t \in Tracers : call[t].op = "link" /\ pc[t] \in {"check", "open", "lock"}}
Discounted == {t \in Deleting : pc[t] = "syscall" /\ should_keep[t]}

\* Mutant: one of two names is taken for the last.
UpdateOffByOne(t) ==
    /\ IsDocument(Current(t))
    /\ data' = [data EXCEPT ![t] = update_fn(call[t], Current(t))]
    /\ should_keep' = [should_keep EXCEPT ![t] = Deletes(call[t]) /\ Current(t).links > 2]
    /\ text' = [text EXCEPT ![fd[t]] = Torn]
    /\ raced' = IF ~exists[t] /\ text[fd[t]] # Empty THEN raced \cup {fd[t]} ELSE raced
    /\ Slip({s \in {"early"} : Deletes(call[t]) /\ ~should_keep'[t] /\ Uncounted # {}})
    /\ Goto(t, "write")

Update(t) ==
    /\ IsDocument(Current(t))
    /\ data' = [data EXCEPT ![t] = update_fn(call[t], Current(t))]
    /\ should_keep' = [should_keep EXCEPT ![t] = Deletes(call[t]) /\ Current(t).links > 1]
    /\ text' = [text EXCEPT ![fd[t]] = Torn]
    /\ raced' = IF ~exists[t] /\ text[fd[t]] # Empty THEN raced \cup {fd[t]} ELSE raced
    /\ Slip({s \in {"early"} : Deletes(call[t]) /\ ~should_keep'[t] /\ Uncounted # {}})
    /\ Goto(t, "write")

\* Mutant: a shared lock is taken instead of an exclusive one.
SaveLockShared(t) ==
    /\ pc[t] = "lock"
    /\ IsDocument(Current(t))
    /\ data' = [data EXCEPT ![t] = update_fn(call[t], Current(t))]
    /\ should_keep' = [should_keep EXCEPT ![t] = Deletes(call[t]) /\ Current(t).links > 1]
    /\ Goto(t, "write")
    /\ UNCHANGED <<shared, call, exists, fd, history>>

\* flock, then the old document is parsed unless the file was not there before, changed,
\* and the file truncated.  A file that cannot be parsed is an error.
SaveLock(t) ==
    /\ pc[t] = "lock"
    /\ flock[fd[t]] = NoTracer
    /\ \/ /\ Update(t)
          /\ flock' = [flock EXCEPT ![fd[t]] = t]
          /\ UNCHANGED <<call, exists, fd>>
       \/ /\ ~IsDocument(Current(t))
          /\ Return(t)
          /\ LinkUncounted(t)
          /\ UNCHANGED <<text, flock, raced>>
    /\ UNCHANGED <<kind, names, backing, meta_path, saved>>

\* The document is written and the lock released.  A file that was not truncated may keep
\* the end of a longer document.
SaveWrite(t) ==
    /\ pc[t] = "write"
    /\ \/ text' = [text EXCEPT ![fd[t]] = data[t]]
       \/ ~exists[t] /\ fd[t] \in raced /\ text' = [text EXCEPT ![fd[t]] = Torn]
    /\ flock' = [flock EXCEPT ![fd[t]] = NoTracer]
    /\ saved' = [saved EXCEPT ![fd[t]] = IF call[t].op = "save" THEN @ \cup {call[t].field} ELSE @]
    /\ \/ ~Deletes(call[t]) /\ Return(t)
       \/ /\ Deletes(call[t])
          /\ Goto(t, IF should_keep[t] THEN "syscall" ELSE "remove_backing")
          /\ fd' = [fd EXCEPT ![t] = NoInode]
          /\ data' = [data EXCEPT ![t] = Default]
          /\ UNCHANGED <<call, exists, should_keep>>
    /\ UNCHANGED <<kind, names, backing, meta_path, raced, slips>>

-------------------------------------------------------------------------------
(* The rest of delete_metadata_for_file, and the unlink itself.              *)

\* The file behind the name is removed; the name of a plain file is the file.
RemoveBacking(t) ==
    /\ pc[t] = "remove_backing"
    /\ IF Resolves(call[t])
       THEN backing' = FALSE /\ names' = IF kind = "plain" THEN {} ELSE names
       ELSE UNCHANGED <<backing, names>>
    /\ Goto(t, "remove_meta")
    /\ UNCHANGED <<kind, meta_path, text, flock, local, history>>

RemoveMeta(t) ==
    /\ pc[t] = "remove_meta"
    /\ meta_path' = NoInode
    /\ Goto(t, "syscall")
    /\ UNCHANGED <<kind, names, backing, text, flock, local, history>>

\* The kernel removes the name, or fails: the name is gone already, its directory may not
\* be written, ...
Syscall(t) ==
    /\ pc[t] = "syscall"
    /\ names' \in {names, names \ {call[t].name}}
    /\ backing' = (backing /\ (kind = "plain" => names' # {}))
    /\ Slip({s \in {"refused"} : /\ names' = names
                                 /\ should_keep[t] \/ (~backing /\ call[t].name \in names)}
            \cup {s \in {"unseen"} : ~should_keep[t] /\ names' # names /\ backing})
    /\ Return(t)
    /\ UNCHANGED <<kind, meta_path, text, flock, raced, saved>>

Next ==
    \E t \in Tracers :
        \/ \E n \in Names, f \in Fields : Chmod(t, n, f) \/ Create(t, n, f)
        \/ \E old, n \in Names : Link(t, old, n)
        \/ \E n \in Names : Unlink(t, n) \/ Rename(t, n)
        \/ DeleteCheck(t) \/ SaveCheck(t) \/ SaveOpen(t) \/ SaveLock(t) \/ SaveWrite(t)
        \/ RemoveBacking(t) \/ RemoveMeta(t) \/ Syscall(t)

Spec == Init /\ [][Next]_vars

-------------------------------------------------------------------------------
(* Properties.                                                               *)

Places == {"idle", "check", "check_save", "open", "lock", "write", "remove_backing",
           "remove_meta", "syscall"}

Calls == {NoCall} \cup [op : {"save"}, name : Names, field : Fields]
                  \cup [op : {"link", "unlink", "rename"}, name : Names]

\* Every variable has its type.
TypeOK ==
    /\ kind \in {"plain", "hardlink"}
    /\ names \subseteq Names
    /\ backing \in BOOLEAN
    /\ meta_path \in Inodes \cup {NoInode}
    /\ text \in [Inodes -> Documents \cup {Empty, Torn}]
    /\ flock \in [Inodes -> Tracers \cup {NoTracer}]
    /\ pc \in [Tracers -> Places]
    /\ call \in [Tracers -> Calls]
    /\ exists \in [Tracers -> BOOLEAN] /\ should_keep \in [Tracers -> BOOLEAN]
    /\ fd \in [Tracers -> Inodes \cup {NoInode}]
    /\ data \in [Tracers -> Documents]
    /\ raced \subseteq Inodes
    /\ saved \in [Inodes -> SUBSET Fields]
    /\ slips \subseteq Slips

Settled == meta_path # NoInode /\ flock[meta_path] = NoTracer /\ meta_path \notin raced

\* No update is lost: once a save has returned, the field is in the metadata for as long
\* as the metadata file exists.  The exception is a file that two tracers create at the
\* same moment: both find that it does not exist, and the second starts from an empty
\* document although it has waited for the lock.
NoLostUpdate ==
    Settled /\ saved[meta_path] # {}
        => IsDocument(text[meta_path]) /\ saved[meta_path] \subseteq text[meta_path].fields

\* The counter of a hard link is the number of its names, but for those in the hands of a
\* tracer: a link that exists and is not counted yet, a name that is not counted any more
\* and exists still.  It holds until one of the Slips, none of which the code guards
\* against: two tracers that unlink one name at once, an unlink that the kernel refuses, ...
CountsNames ==
    kind = "hardlink" /\ slips = {} /\ backing =>
        /\ meta_path # NoInode
        /\ Settled => text[meta_path].links
                        = Cardinality(names) - Cardinality(Uncounted) - Cardinality(Discounted)

\* "First, delete the file backing the hardlink": the content is removed only with the last
\* name, every other name being deleted too; again until one of the Slips.
ContentStays ==
    kind = "hardlink" /\ slips = {} /\ ~backing => names \subseteq {call[t].name : t \in Deleting}
===============================================================================
