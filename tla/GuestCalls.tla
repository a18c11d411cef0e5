------------------------------ MODULE GuestCalls -------------------------------
(***************************************************************************)
(* The syscalls of one guest process through its tracer: its view of the   *)
(* file system under --chroot, of the modes kept in the metadata, of its   *)
(* ids, and of what its execve starts, against a process under chroot(2).  *)
(*                                                                         *)
(* A syscall is one step: parse_path and the augments before it, the       *)
(* kernel's part, and the augments after it.  What stat and get*id return  *)
(* is in the properties.  The interleaving of augments is in PathAugments, *)
(* that of tracers and hard links in MetadataFile.                         *)
(***************************************************************************)
EXTENDS ExecExpansion, TLC

CONSTANTS Worlds,      \* [conf, fs]: conf also restricts what the guest passes (calls, paths,
                       \* modes, targets), what it creates (files, places) and opens (dirs)
          GuestPaths,  \* paths that the guest passes
          LinkTargets, \* contents of the links that it makes
          Modes,       \* arguments of open and chmod
          Registers,   \* arguments of set*id
          ProbeNums    \* path syscalls that ChrootView asks about

VARIABLES
    conf,    \* command line and configuration; home is the directory of the tracer
    fs,      \* the host's files
    meta,    \* the mode in the metadata of a place below the root
    cwd,     \* the directory of the guest
    ids,     \* perms_ids
    ret,     \* how the last syscall ended: "ok", "error", or "killed" if the tracer failed
    mode,    \* history: the mode that a file was given last, by chmod or when created
    astray   \* history: places that StatShowsMode says nothing of

vars == <<conf, fs, meta, cwd, ids, ret, mode, astray>>

Alive == ret # "killed"
May(call, path) == Alive /\ call \in conf.calls /\ path \in conf.paths

-------------------------------------------------------------------------------
(* Which links the kernel follows in the last name of a path.                *)

NeverFollow ==
    {"lgetxattr", "llistxattr", "readlink", "readlinkat", "rename", "renameat", "renameat2",
     "symlink", "symlinkat", "unlink", "unlinkat", "rmdir", "lstat", "lchown", "link", "linkat",
     "mkdir", "mkdirat", "mknod", "mknodat", "name_to_handle_at"}

NoFollowFlag(num) ==
    CASE num \in {"newfstatat", "statx", "utimensat", "fchmodat2", "fchownat", "faccessat2"}
             -> {AT_SYMLINK_NOFOLLOW}
      [] num \in {"open", "openat"} -> {O_NOFOLLOW}
      [] OTHER -> {}

KernelFollows(num, flags) == num \notin NeverFollow /\ NoFollowFlag(num) \cap flags = {}

\* The object at a place: that of a hard link is its content.
Object(place) ==
    LET n == Node(fs, place)
    IN IF n.kind = "link" /\ n.to.abs /\ IntoMetadata(conf, n.to.parts) THEN n.to.parts ELSE place

\* What a path syscall finds: error and object.
FindsArgument(arg, base, follow) ==
    LET w == HostLookup(fs, base, arg.reg, follow)
    IN IF arg.skip THEN [err |-> "ELOOP", at |-> <<>>, saved |-> <<>>]
       ELSE [err |-> w.err, at |-> w.at, saved |-> arg.saved]

Finds(num, position, base, path, flags) ==
    FindsArgument(path_argument(fs, conf, num, position, base, path, flags),
                  base, KernelFollows(num, flags))

-------------------------------------------------------------------------------
(* Metadata.                                                                 *)

InRoot(place) == \E r \in conf.rootfs : IsPrefix(r, place)

\* get_metadata_path, for files without hard links.
get_metadata_path(files, saved) == {p \in canonicalize(files, conf, Abs(saved)) : InRoot(p)}

\* save_metadata_for_file, of the mode.
save_mode(files, saved, m) ==
    [p \in DOMAIN meta |-> IF p \in get_metadata_path(files, saved) THEN {m} ELSE meta[p]]

\* augment_stat, of the mode: that of the metadata, or the host's (0).
augment_stat(saved) ==
    LET kept == UNION {meta[p] : p \in get_metadata_path(fs, saved) \cap DOMAIN meta}
    IN IF kept = {} THEN 0 ELSE CHOOSE m \in kept : TRUE

FilesIn(files) == {files[p].id : p \in {q \in DOMAIN files : files[q].kind = "file"}}

\* The histories forget a file that is gone.
ModesOf(files, modes) == [i \in DOMAIN modes |-> IF i \in FilesIn(files) THEN modes[i] ELSE 0]

\* Names that this model does not remove or move: directories, hard links and their contents.
IsHardlink(place) == Object(place) # place \/ IntoMetadata(conf, place)
Fixed(place) == Node(fs, place).kind = "dir" \/ IsHardlink(place)

-------------------------------------------------------------------------------
(* Path syscalls.                                                            *)

\* Whether a syscall that creates files makes a new one, which and where.
Creates(f) == f.err = "ok" /\ Node(fs, f.at).kind = "absent" /\ Node(fs, Front(f.at)).kind = "dir"
NewId == CHOOSE i \in conf.files : i \notin FilesIn(fs)
HasRoom(f) == f.at \in conf.places /\ conf.files \ FilesIn(fs) # {}
Created(f) == f.at :> File(NewId) @@ fs

\* open, with augment_chmod_on_creation, which asks neither whether the file is new nor
\* whether it was opened.
Open(path, flags, m) ==
    /\ May("open", path) /\ m \in conf.modes
    /\ \E f \in {Finds("open", 0, cwd, path, flags)} :
       LET creates == O_CREAT \in flags /\ Creates(f)
           files == IF creates THEN Created(f) ELSE fs
       IN /\ creates => HasRoom(f)
          /\ fs' = files
          /\ ret' = IF f.err # "ok" \/ Node(files, f.at).kind \in {"absent", "link"}
                    THEN "error" ELSE "ok"
          /\ meta' = IF O_CREAT \in flags /\ f.err # "ELOOP" THEN save_mode(files, f.saved, m) ELSE meta
          /\ mode' = IF creates THEN [mode EXCEPT ![NewId] = m] ELSE mode
          /\ astray' = IF creates THEN astray \ {f.at}
                       ELSE IF O_CREAT \in flags THEN astray \cup get_metadata_path(fs, f.saved)
                       ELSE astray
          /\ UNCHANGED <<conf, cwd, ids>>

\* creat, which the table has as a chown: the mode goes to the host's file and not into the
\* metadata, and stat shows the host's (0).
Creat(path) ==
    /\ May("creat", path)
    /\ \E f \in {Finds("creat", 0, cwd, path, {})} :
          /\ Creates(f) => HasRoom(f)
          /\ fs' = IF Creates(f) THEN Created(f) ELSE fs
          /\ ret' = IF f.err # "ok" \/ Node(fs', f.at).kind # "file" THEN "error" ELSE "ok"
          /\ mode' = IF Creates(f) THEN [mode EXCEPT ![NewId] = 0] ELSE mode
          /\ UNCHANGED <<conf, meta, cwd, ids, astray>>

\* chmod, with augment_chmod.
Chmod(path, m) ==
    /\ May("chmod", path) /\ m \in conf.modes
    /\ \E f \in {Finds("chmod", 0, cwd, path, {})} :
       LET node == Node(fs, f.at)
           done == f.err = "ok" /\ node.kind # "absent"
       IN /\ ret' = IF done THEN "ok" ELSE "error"
          /\ meta' = IF f.err = "ELOOP" THEN meta ELSE save_mode(fs, f.saved, m)
          /\ mode' = IF done /\ node.kind = "file" THEN [mode EXCEPT ![node.id] = m] ELSE mode
          /\ astray' = IF done THEN astray \ {f.at} ELSE astray
          /\ UNCHANGED <<conf, fs, cwd, ids>>

\* symlink: the content of the link is stored as it is.
Symlink(target, path) ==
    /\ May("symlink", path) /\ target \in conf.targets
    /\ \E f \in {Finds("symlink", 1, cwd, path, {})} :
          /\ Creates(f) => f.at \in conf.places
          /\ fs' = IF Creates(f) THEN f.at :> Link(target) @@ fs ELSE fs
          /\ ret' = IF Creates(f) THEN "ok" ELSE "error"
          /\ UNCHANGED <<conf, meta, cwd, ids, mode, astray>>

\* delete_metadata_for_file, for files without hard links: what the path resolves to goes,
\* as if it were the content of a hard link, and its metadata with it.
delete_files(saved) ==
    {p \in get_metadata_path(fs, saved) : Node(fs, p).kind = "file"}
delete_metadata_for_file(saved) ==
    [p \in DOMAIN meta |->
        IF \E c \in get_metadata_path(fs, saved) :
              p = c \/ (Node(fs, c).kind = "dir" /\ IsPrefix(c, p))
        THEN {} ELSE meta[p]]

\* Mutant: the metadata of an unlinked file stays.
augment_deletion_keeps(saved) ==
    [fs |-> [p \in DOMAIN fs \ delete_files(saved) |-> fs[p]], meta |-> meta]

augment_deletion(saved) ==
    [fs   |-> [p \in DOMAIN fs \ delete_files(saved) |-> fs[p]],
     meta |-> delete_metadata_for_file(saved)]

FilesBelow(saved) ==
    {p \in conf.places \cap DOMAIN fs : \E c \in get_metadata_path(fs, saved) : IsPrefix(c, p)}

\* unlink, after augment_deletion.
Unlink(path) ==
    /\ May("unlink", path)
    /\ \E f \in {Finds("unlink", 0, cwd, path, {})} :
       LET before == augment_deletion(f.saved)
           node == Node(before.fs, f.at)
       IN /\ f.err = "ok" => /\ ~Fixed(f.at)
                             /\ \A p \in canonicalize(fs, conf, Abs(f.saved)) : ~IsHardlink(p)
          /\ meta' = before.meta
          /\ fs' = IF f.err = "ok" THEN [p \in DOMAIN before.fs \ {f.at} |-> before.fs[p]] ELSE before.fs
          /\ mode' = ModesOf(fs', mode)
          /\ astray' = (IF Node(fs, f.at).kind = "link" THEN astray \cup FilesBelow(f.saved) ELSE astray)
                       \ delete_files(f.saved)
          /\ ret' = IF f.err = "ok" /\ node.kind # "absent" THEN "ok" ELSE "error"
          /\ UNCHANGED <<conf, cwd, ids>>

\* rename, with augment_hardlink_rename: metadata moves if both names exist afterwards, and
\* the tracer fails if there is none to move.
Rename(from, to) ==
    /\ May("rename", from) /\ to \in conf.paths
    /\ \E f \in {Finds("rename", 0, cwd, from, {})}, t \in {Finds("rename", 1, cwd, to, {})} :
       LET node == Node(fs, f.at)
           done == f.err = "ok" /\ t.err = "ok" /\ node.kind # "absent"
                   /\ Node(fs, Front(t.at)).kind = "dir"
           files == IF done THEN [p \in (DOMAIN fs \ {f.at}) \cup {t.at} |->
                                     IF p = t.at THEN node ELSE fs[p]] ELSE fs
           old == get_metadata_path(files, f.saved)
           new == get_metadata_path(files, t.saved)
           moves == done /\ old # {} /\ new # {}
           data == UNION {meta[p] : p \in old}
       IN /\ done => t.at \in conf.places /\ ~Fixed(f.at) /\ ~Fixed(t.at)
          /\ fs' = files
          /\ meta' = IF moves /\ data # {} THEN [p \in DOMAIN meta |-> IF p \in new THEN data
                                                 ELSE IF p \in old THEN {} ELSE meta[p]]
                     ELSE meta
          /\ mode' = ModesOf(fs', mode)
          /\ astray' = IF done /\ f.at # t.at THEN astray \cup {f.at, t.at} ELSE astray
          /\ ret' = IF moves /\ data = {} THEN "killed"
                    ELSE IF done THEN "ok" ELSE "error"
          /\ UNCHANGED <<conf, cwd, ids>>

Chdir(path) ==
    /\ May("chdir", path)
    /\ \E f \in {Finds("chdir", 0, cwd, path, {})} :
       LET done == f.err = "ok" /\ Node(fs, f.at).kind = "dir"
       IN /\ cwd' = IF done THEN f.at ELSE cwd
          /\ ret' = IF done THEN "ok" ELSE "error"
          /\ UNCHANGED <<conf, fs, meta, ids, mode, astray>>

-------------------------------------------------------------------------------
(* Syscalls about ids, and the others that have a row of their own.          *)

Row(num) == CHOOSE r \in get_syscall(num) : TRUE
Getters == {"getuid", "geteuid", "getgid", "getegid"}
EPERM == 1

\* The kernel's answer to a process without privileges, or what a filter of the host's
\* leaves in the register when it traps the syscall.
KernelId(num, args) ==
    CASE num \in conf.banned -> -ENOSYS
      [] num \in {"getuid", "geteuid"} -> conf.uid
      [] num \in {"getgid", "getegid"} -> conf.gid
      [] num = "getgroups" -> 0
      [] OTHER -> -EPERM

IdCall(num, args) ==
    LET r == augment_sys_perms(ids, conf.perms_mode, Row(num), args, KernelId(num, args))
    IN /\ Alive /\ "ids" \in conf.calls
       /\ num \in Traced
       /\ ids' = r.ids
       /\ ret' = IF r.ret < 0 THEN "error" ELSE "ok"
       /\ UNCHANGED <<conf, fs, meta, cwd, mode, astray>>

\* clone, seen from the child: its handler starts from the configuration.
Fork ==
    /\ Alive /\ "ids" \in conf.calls
    /\ ids' = init_perms_ids_from_config(conf.root_ids)
    /\ ret' = "ok"
    /\ UNCHANGED <<conf, fs, meta, cwd, mode, astray>>

\* augment_sys_exec.
Exec(path, argv) ==
    /\ May("exec", path)
    /\ \E result \in {expand_exec(fs, conf, path, argv, MaxScripts)} :
       LET started == HostExec(fs, conf, cwd, result)
       IN /\ ids' = set_ids(fs, conf, ids, path, MaxScripts)
          /\ ret' = IF result.res \in {"error", "overflow"} THEN "killed"
                    ELSE IF started = NotStarted THEN "error" ELSE "ok"
          /\ UNCHANGED <<conf, fs, meta, cwd, mode, astray>>

PR_SET_SECCOMP == 22
SECCOMP_SET_MODE_FILTER == 1

\* Whether the guest's own seccomp call is refused.
augment_sys_seccomp(num, args) ==
    ~(num = "prctl" /\ args[0] # PR_SET_SECCOMP)
    /\ \A p \in Row(num).seccomp_position : p < 3 => args[p] = SECCOMP_SET_MODE_FILTER

Seccomp(num, args) ==
    /\ Alive /\ "ids" \in conf.calls
    /\ ret' = IF augment_sys_seccomp(num, args) THEN "error" ELSE "ok"
    /\ UNCHANGED <<conf, fs, meta, cwd, ids, mode, astray>>

-------------------------------------------------------------------------------

Init ==
    /\ \E w \in Worlds : conf = w.conf /\ fs = w.fs
    /\ meta = [p \in conf.places |-> {}]
    /\ cwd = conf.home
    /\ ids = init_perms_ids_from_config(conf.root_ids)
    /\ ret = "ok"
    /\ mode = [i \in DOMAIN Contents |-> 0]
    /\ astray = {}

Argvs(path) == {<<path>>, <<path, Option>>}
IdCalls == {r.num : r \in PermsRows}
IdArgs == {0 :> i @@ 1 :> j @@ 2 :> j : i, j \in Registers}

Next ==
    \/ \E path \in GuestPaths :
          \/ \E flags \in {{}, {O_CREAT}, {O_CREAT, O_NOFOLLOW}}, m \in Modes : Open(path, flags, m)
          \/ \E m \in Modes : Chmod(path, m)
          \/ \E target \in LinkTargets : Symlink(target, path)
          \/ \E to \in GuestPaths : Rename(path, to)
          \/ \E argv \in Argvs(path) : Exec(path, argv)
          \/ Creat(path) \/ Unlink(path) \/ Chdir(path)
    \/ \E num \in IdCalls, args \in IdArgs : IdCall(num, args)
    \/ \E num \in {"prctl", "seccomp"}, a \in {1, PR_SET_SECCOMP}, b \in {1, 2} :
          Seccomp(num, (0 :> a @@ 1 :> b @@ 2 :> b))
    \/ Fork

Spec == Init /\ [][Next]_vars

-------------------------------------------------------------------------------
(* Properties.                                                               *)

\* The table and the kernel agree on whether the last name is followed.
Agrees(num, flags) ==
    KernelFollows(num, flags) =
        (~Row(num).dont_follow_symlink /\ Row(num).flag_dont_follow_symlink \cap flags = {})

Bases(num) ==
    IF Row(num).dirfd_position # {} \/ Row(num).dirfd_precedes_path
    THEN {cwd} \cup {p \in conf.dirs : Node(fs, p).kind = "dir"} ELSE {cwd}

\* A path syscall finds what it would find under chroot(2), with the excluded directories
\* mounted: the same object, or the same error.  This is what calc_real_path, the dirfd
\* handling and the BPF filter are for.  It is claimed for the syscalls whose row agrees with
\* the kernel on links, for relative paths only in the directory where the tracer runs (it
\* reads links there), where no absolute link lies on the way or behind a relative one, and
\* for no hidden path, which the tracer passes on as it is.
ChrootView ==
    Alive =>
    \A num \in ProbeNums, path \in conf.paths :
        \A base \in Bases(num), position \in Row(num).path_positions,
           flags \in {{}, NoFollowFlag(num), Row(num).flag_dont_follow_symlink} :
            LET follow == KernelFollows(num, flags)
                w == ChrootLookup(fs, conf, base, path, follow)
                f == Finds(num, position, base, path, flags)
            IN Agrees(num, flags) /\ ~w.mixed /\ w.err # "hidden" /\ (path.abs \/ base = conf.home)
               => f.err = w.err /\ (w.err = "ok" => Object(f.at) = Object(w.at))

\* stat shows the mode that a file below the root was last given, by chmod under any of its
\* names or by the open that created it, whatever was unlinked and created there before; one
\* that creat made shows the host's mode until the next chmod, since the table knows no mode
\* for creat.  Places where rename took or put a file, where a file was opened with O_CREAT
\* again, or in a directory one of whose links was unlinked are left out until the next chmod:
\* the tracer looks for the metadata of a renamed file under a name that is gone, takes every
\* O_CREAT for a creation, and unlinks what a link leads to.
StatShowsMode ==
    Alive =>
    \A path \in conf.paths :
        LET w == ChrootLookup(fs, conf, cwd, path, TRUE)
            f == Finds("newfstatat", 1, cwd, path, {})
            node == Node(fs, w.at)
        IN /\ w.err = "ok" /\ ~w.mixed /\ (path.abs \/ cwd = conf.home)
           /\ node.kind = "file" /\ InRoot(w.at) /\ w.at \notin astray
           => augment_stat(f.saved) = mode[node.id]

\* What a get*id syscall would return now.
Shown(getter) ==
    LET none == [i \in 0..2 |-> 0]
    IN augment_sys_perms(ids, conf.perms_mode, Row(getter), none, KernelId(getter, none)).ret

UserCalls == {"getuid", "geteuid", "setuid", "setreuid", "setresuid", "setfsuid"}

\* The getters of ids that a syscall is not about.
Foreign(num) == {g \in Getters : ~Row(num).is_setter \/ (g \in UserCalls <=> num \notin UserCalls)}

\* The getters of ids that no execve changes: real ones, and effective ones if no file has the
\* set-id bit for them.
NotBySetId ==
    {g \in Getters : \/ g \in {"getuid", "getgid"}
                      \/ \A i \in FilesIn(fs) : ~(IF g \in UserCalls THEN Contents[i].setuid
                                                                     ELSE Contents[i].setgid)}

\* An id that the guest is shown changes only by a call about ids of its kind, by the execve
\* of a set-id file, or in a new child: no call about groups touches an id of the user or the
\* other way round, whichever slots of perms_ids the table, the masks of setresuid and its
\* like, exec_setid! and the configuration number, and whether the getter runs or the host
\* traps it.  Under --chroot the set-id file is the host's of that name, which the tracer asks.
OnlyOwnIds ==
    [][LET kept(g) == Shown(g)' = Shown(g)
       IN ids' # ids /\ Alive' =>
            /\ \A num \in IdCalls, args \in IdArgs :
                  IdCall(num, args) => \A g \in Foreign(num) : kept(g)
            /\ \A path \in conf.paths : \A argv \in Argvs(path) :
                  Exec(path, argv) => \A g \in NotBySetId : kept(g)]_vars

\* The ids that a call with a mask names, by register.
Named ==
    [setreuid |-> <<"getuid", "geteuid">>, setresuid |-> <<"getuid", "geteuid">>,
     setregid |-> <<"getgid", "getegid">>, setresgid |-> <<"getgid", "getegid">>]

\* setreuid and its like, which name several ids, set each of them when they report success:
\* res_bits is a mask because one call can set several.
SetsWhatItNames ==
    [][\A num \in DOMAIN Named, args \in IdArgs :
         IdCall(num, args) /\ ret' = "ok" /\ conf.perms_mode # "Passthrough"
         => \A i \in {1, 2} : Shown(Named[num][i])' = args[i - 1]]_vars

\* execve starts the program, the loader and the arguments that it would under chroot(2),
\* through any chain of scripts: the loader that stands in for a program finds that program
\* by the path it is given.
ExecRuns ==
    Alive /\ "exec" \in conf.calls =>
    \A path \in conf.paths : \A argv \in Argvs(path) :
        LET c == ChrootExec(fs, conf, cwd, path, argv, MaxScripts)
        IN c.plain /\ (path.abs \/ (cwd = conf.home /\ absolute(conf, path) # {}))
           => HostExec(fs, conf, cwd, expand_exec(fs, conf, path, argv, MaxScripts)) = c.started

\* unlink of a name that is there removes that name, no other, and succeeds.
UnlinkRemovesTheName ==
    [][\A path \in conf.paths :
         LET w == ChrootLookup(fs, conf, cwd, path, FALSE)
         IN Unlink(path) /\ w.err = "ok" /\ ~w.mixed /\ Node(fs, w.at).kind # "absent"
            => ret' = "ok" /\ DOMAIN fs' = DOMAIN fs \ {w.at}]_vars
===============================================================================
