---------------------------- MODULE PathResolution -----------------------------
(***************************************************************************)
(* The path part of sysaug/src/aug_common.rs and aug_paths_common.rs: how  *)
(* the path in a register of the guest becomes the path that the host's    *)
(* kernel is given, and how kernels look paths up.                         *)
(*                                                                         *)
(* A path is [abs, parts]; a place is the sequence of names from the       *)
(* host's root.  A file system maps places to nodes.  There is no "..".    *)
(***************************************************************************)
EXTENDS SyscallTable, SequencesExt

CONSTANT MaxLinks   \* links followed in one lookup (40 in Linux); longer chains than the model has

Abs(parts) == [abs |-> TRUE, parts |-> parts]
Rel(parts) == [abs |-> FALSE, parts |-> parts]

Absent == [kind |-> "absent", id |-> 0, to |-> Rel(<<>>)]
Dir == [Absent EXCEPT !.kind = "dir"]
File(id) == [Absent EXCEPT !.kind = "file", !.id = id]
Link(to) == [Absent EXCEPT !.kind = "link", !.to = to]

Node(fs, place) == IF place \in DOMAIN fs THEN fs[place] ELSE Absent

\* path.join
Join(place, path) == IF path.abs THEN path.parts ELSE place \o path.parts

-------------------------------------------------------------------------------
(* PathAction and the rules of the configuration.                            *)

NoAction == [act |-> "None", path |-> Rel(<<>>)]
Override(path) == [act |-> "Override", path |-> path]
HidePath == [NoAction EXCEPT !.act = "HidePath"]
ELOOP == [NoAction EXCEPT !.act = "ELOOP"]

Excluded(conf, path) == path.abs /\ \E x \in conf.excludes : IsPrefix(x, path.parts)

\* The path that an action leaves.
Effective(action, path) == IF action.act = "Override" THEN action.path ELSE path

Apply(rule, cur) ==
    IF rule.to = {} THEN HidePath
    ELSE Override(Abs((CHOOSE t \in rule.to : TRUE) \o
                      SubSeq(cur.parts, Len(rule.from) + 1, Len(cur.parts))))

\* get_mod_path: the first rule whose pattern matches.  A pattern is the front of a place.
get_mod_path(rules, orig, initial) ==
    LET cur == Effective(initial, orig)
        matching == {i \in DOMAIN rules : cur.abs /\ IsPrefix(rules[i].from, cur.parts)}
    IN IF matching = {} THEN initial ELSE Apply(rules[Min(matching)], cur)

InChroot(conf, path) ==
    IF path.abs /\ conf.chroot # {} /\ ~Excluded(conf, path)
    THEN Override(Abs((CHOOSE r \in conf.chroot : TRUE) \o path.parts))
    ELSE NoAction

calc_real_path_simple(conf, path) ==
    get_mod_path(conf.rename_host_paths, path, InChroot(conf, path))

-------------------------------------------------------------------------------
(* Lookups.                                                                  *)

IntoMetadata(conf, place) == \E m \in conf.metadir : IsPrefix(m, place)

\* What an absolute path means: to the host, itself; to a guest under chroot(2), with
\* the excluded directories mounted and the renamed ones moved, a place below the root.
Meaning(view, parts) ==
    IF view = {} THEN {parts}
    ELSE {Effective(action, Abs(parts)).parts :
             action \in {calc_real_path_simple(c, Abs(parts)) : c \in view} \ {HidePath}}

\* A guest takes a hard link (a link into the metadata directory) for a file.
IsLink(view, node) ==
    node.kind = "link" /\ ~\E c \in view : node.to.abs /\ IntoMetadata(c, node.to.parts)

Looked(err, place) == [err |-> err, at |-> place, mixed |-> FALSE]

RECURSIVE Walk(_, _, _, _, _, _, _)

\* From the root, along an absolute path of the meaning given.
WalkFromRoot(fs, view, meaning, follow, direct, hops) ==
    IF meaning = {} THEN Looked("hidden", <<>>)
    ELSE Walk(fs, view, <<>>, CHOOSE p \in meaning : TRUE, follow, direct, hops)

\* mixed: the walk met an absolute link that the last name of a path the guest wrote is not:
\* on the way to the last name, or at the end of a relative link.  The links of an excluded
\* directory (those of /proc are no paths at all) lead to where they lead on the host.
FollowLink(fs, view, at, name, to, rest, follow, direct, hops) ==
    LET from == {c \in view : ~Excluded(c, Abs(Append(at, name)))}
    IN IF hops = 0 THEN Looked("ELOOP", <<>>)
       ELSE IF to.abs
            THEN [WalkFromRoot(fs, from, Meaning(from, to.parts \o rest), follow, direct, hops - 1)
                  EXCEPT !.mixed = @ \/ (from # {} /\ (rest # <<>> \/ ~direct))]
       ELSE Walk(fs, view, at, to.parts \o rest, follow, direct /\ rest # <<>>, hops - 1)

Walk(fs, view, at, parts, follow, direct, hops) ==
    LET here == Append(at, Head(parts))
        node == Node(fs, here)
    IN IF parts = <<>> THEN Looked("ok", at)
       ELSE IF Node(fs, at).kind # "dir" THEN Looked("ENOENT", at)
       ELSE IF IsLink(view, node) /\ (Len(parts) > 1 \/ follow)
            THEN FollowLink(fs, view, at, Head(parts), node.to, Tail(parts), follow, direct, hops)
       ELSE IF Len(parts) = 1 THEN Looked("ok", here)
       ELSE Walk(fs, view, here, Tail(parts), follow, direct, hops)

\* The kernel's lookup, and the lookup of a kernel that really has changed its root.
HostLookup(fs, base, path, follow) ==
    Walk(fs, {}, IF path.abs THEN <<>> ELSE base, path.parts, follow, TRUE, MaxLinks)

ChrootLookup(fs, conf, base, path, follow) ==
    WalkFromRoot(fs, {conf}, IF path.abs THEN Meaning({conf}, path.parts) ELSE {base \o path.parts},
                 follow, TRUE, MaxLinks)

\* canonicalize, by the tracer: the place of an object that exists.
canonicalize(fs, conf, path) ==
    {w.at : w \in {l \in {HostLookup(fs, conf.home, path, TRUE)} :
                      l.err = "ok" /\ Node(fs, l.at).kind # "absent"}}

-------------------------------------------------------------------------------
(* calc_real_path.                                                           *)

\* The tracer reads the tracee's /proc/self, wherever that stands in the path.
OwnProc(path) ==
    [path EXCEPT !.parts =
        [i \in DOMAIN path.parts |->
            IF /\ path.parts[i] = "self"
               /\ i > (IF path.abs THEN 1 ELSE 2)
               /\ path.parts[i - 1] = "proc"
            THEN "pid" ELSE path.parts[i]]]

\* _read_symlink: relative links are left to the kernel.
_read_symlink(fs, conf, path) ==
    {Node(fs, w.at).to : w \in {l \in {HostLookup(fs, conf.home, path, FALSE)} :
                                   l.err = "ok" /\ Node(fs, l.at).kind = "link"
                                   /\ Node(fs, l.at).to.abs}}

\* Mutant: a link is followed only if what it names exists on the host.
calc_follow_symlink_host(fs, conf, path, row, flags) ==
    IF row.dont_follow_symlink \/ row.flag_dont_follow_symlink \cap flags # {} THEN {}
    ELSE {l \in _read_symlink(fs, conf, OwnProc(path)) :
            \E place \in canonicalize(fs, conf, l) : ~IntoMetadata(conf, place)}

\* One link, if the syscall follows links and it does not stand for a hard link.
calc_follow_symlink(fs, conf, path, row, flags) ==
    IF row.dont_follow_symlink \/ row.flag_dont_follow_symlink \cap flags # {} THEN {}
    ELSE {l \in _read_symlink(fs, conf, OwnProc(path)) :
            ~\E place \in canonicalize(fs, conf, l) : IntoMetadata(conf, place)}

RECURSIVE calc_real_path_recurse(_, _, _, _, _, _)

\* What a path that has been moved leads to: its last name may be one of the links given.
FollowAction(fs, conf, action, links, row, flags, seen) ==
    LET link == CHOOSE l \in links : TRUE
        next == calc_real_path_recurse(fs, conf, link, row, flags, seen)
    IN IF links = {} THEN action
       ELSE IF link \in seen THEN ELOOP
       ELSE IF next.act = "None" THEN Override(link) ELSE next

calc_real_path_recurse(fs, conf, path, row, flags, visited) ==
    LET action == calc_real_path_simple(conf, path)
    IN IF action.act \notin {"Override", "None"} THEN action
       ELSE IF action.act = "None" /\ Excluded(conf, path) THEN NoAction
       ELSE FollowAction(fs, conf, action,
                         calc_follow_symlink(fs, conf, Effective(action, path), row, flags),
                         row, flags, visited \cup {path})

calc_real_path(fs, conf, path, row, flags) == calc_real_path_recurse(fs, conf, path, row, flags, {})

-------------------------------------------------------------------------------
(* One path argument of a syscall: _aug_paths_do_parse_state and            *)
(* _aug_paths_do_write_registers.                                            *)

\* The content of a hard link, if the path is one of its names.
HardlinkContent(fs, conf, place) ==
    {c \in canonicalize(fs, conf, Abs(place)) :
        IntoMetadata(conf, c) /\ (c = place \/ Node(fs, place) = Link(Abs(c)))}

\* base: the directory of the dirfd, or the tracee's.  skip: ELOOP without a syscall.
\* reg: what the kernel finds in the register.  saved: what the augments go by.
ParsedPath(action, content, base, path) ==
    LET saved == Join(base, Effective(action, path))
        hardlink == CHOOSE c \in content : TRUE
    IN [skip  |-> action.act = "ELOOP",
        reg   |-> IF content # {} THEN Abs(hardlink)
                  ELSE IF action.act = "Override" THEN Abs(saved) ELSE path,
        saved |-> IF content # {} THEN hardlink ELSE saved]

parse_path(fs, conf, row, base, path, flags) ==
    LET action == calc_real_path(fs, conf, path, row, flags)
    IN ParsedPath(action,
                  IF row.should_follow_hardlink
                  THEN HardlinkContent(fs, conf, Join(base, Effective(action, path))) ELSE {},
                  base, path)

\* The path as the filter and the table leave it: untouched, if the syscall is not traced
\* or its table has no path there.
path_argument(fs, conf, num, position, base, path, flags) ==
    IF \E r \in get_syscall(num) : num \in Traced /\ position \in r.path_positions
    THEN parse_path(fs, conf, CHOOSE r \in get_syscall(num) : TRUE, base, path, flags)
    ELSE [skip |-> FALSE, reg |-> path, saved |-> Join(base, path)]
===============================================================================
