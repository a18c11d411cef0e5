----------------------------- MODULE MCGuestCalls ------------------------------
(***************************************************************************)
(* Root file systems, command lines and programs for GuestCalls.           *)
(***************************************************************************)
EXTENDS GuestCalls

R == <<"r">>
a == <<"a">>
b == <<"b">>
d_a == <<"d", "a">>
exe == <<"proc", "self", "exe">>

Paths == {Abs(a), Abs(b), Abs(d_a), Abs(<<"b", "a">>), Rel(a), Abs(exe)}
Targets == {Abs(b), Abs(d_a), Rel(a), Rel(<<"d">>)}

\* What the files hold: 1 and 2 a script and what it names, 3 a loader, 4 a set-id program,
\* 5 a file with too long a "#!" line, 6 a program with one set-id bit, 9 the host's.
Holds(kind, interp, words) ==
    [kind |-> kind, interp |-> Abs(interp), words |-> words,
     setuid |-> FALSE, setgid |-> FALSE, uid |-> 0, gid |-> 0]
Programs ==
    1 :> Holds("script", b, 2) @@ 2 :> Holds("elf", d_a, 0) @@ 3 :> Holds("static", a, 0)
    @@ 4 :> [Holds("static", a, 0) EXCEPT !.setuid = TRUE, !.setgid = TRUE, !.uid = 2, !.gid = 3]
    @@ 5 :> Holds("script", b, 3)
    @@ 6 :> [Holds("static", a, 0) EXCEPT !.setuid = TRUE, !.uid = 2] @@ 9 :> Holds("data", a, 0)

\* The host, with a file where the guest has one too, and an empty root file system.
Host ==
    <<>> :> Dir @@ R :> Dir @@ (R \o <<"d">>) :> Dir @@ a :> File(9) @@ <<"proc">> :> Dir
    @@ <<"proc", "self">> :> Link(Rel(<<"pid">>)) @@ <<"proc", "pid">> :> Dir
    @@ <<"proc", "pid", "exe">> :> Link(Abs(a))

AllRoot == [t \in DOMAIN ResfIndex |-> 0]

\* pocker runtime --chroot R, started in R.
Chroot ==
    [chroot |-> {R}, rootfs |-> {R}, excludes |-> {<<"proc">>}, metadir |-> {<<"m">>},
     rename_host_paths |-> <<>>, use_native_loader |-> FALSE, home |-> R,
     perms_mode |-> "Passthrough", root_ids |-> AllRoot, banned |-> {}, uid |-> 1, gid |-> 1,
     places |-> {R \o a, R \o b, R \o d_a}, dirs |-> {R \o <<"d">>},
     files |-> {1}, modes |-> {1},
     paths |-> Paths, targets |-> Targets, calls |-> {}]

World(c, files) == [conf |-> c, fs |-> files @@ Host]
NoFiles == <<>> :> Dir

\* Links of every kind, in and out of the root, also with the tracer elsewhere; a hard link;
\* renamed and hidden paths; no chroot.
LinkWorlds ==
    {World([Chroot EXCEPT !.calls = {"open", "symlink", "unlink", "chdir"}], NoFiles),
     World([Chroot EXCEPT !.calls = {"open", "symlink", "chdir"}, !.home = <<>>,
                          !.targets = {Abs(b), Abs(d_a)}], NoFiles),
     World([Chroot EXCEPT !.calls = {"open", "symlink"}],
           (R \o b) :> Link(Abs(<<"m", "x">>)) @@ <<"m">> :> Dir @@ <<"m", "x">> :> File(9)),
     World([Chroot EXCEPT !.calls = {"open", "symlink", "chdir"},
                          !.rename_host_paths = <<[from |-> R \o <<"d">>, to |-> {<<"e">>}],
                                                  [from |-> R \o b, to |-> {}]>>,
                          !.places = {R \o a, <<"e", "a">>}], <<"e">> :> Dir),
     World([Chroot EXCEPT !.calls = {"open", "symlink"}, !.chroot = {}, !.rootfs = {},
                          !.metadir = {}, !.excludes = {}, !.home = <<>>, !.places = {b, d_a}],
           <<"d">> :> Dir)}

\* Modes of files that come, go and change their names.
ModeWorlds ==
    {World([Chroot EXCEPT !.calls = {"open", "creat", "chmod", "unlink", "rename"}, !.files = {1, 2},
                          !.paths = {Abs(a), Abs(b), Rel(a)},
                          !.modes = {1, 2}, !.places = {R \o a, R \o b}], (R \o b) :> Link(Rel(a)))}

\* Programs: a script or a dynamic executable, what it names, and a loader.
ExecWorlds ==
    {World([Chroot EXCEPT !.calls = {"exec", "symlink", "unlink"}, !.home = h,
                          !.targets = {Abs(b), Abs(d_a), Rel(a)}, !.places = {R \o a, R \o b}],
           (R \o a) :> File(x) @@ (R \o b) :> File(y) @@ (R \o d_a) :> File(3)) :
        <<h, x, y>> \in {<<R, 1, 2>>, <<R, 1, 1>>, <<R, 2, 5>>, <<R, 1, 3>>, <<<<>>, 1, 2>>}}

\* Ids under every mode, with a set-id program, ids of root's or each its own, also below a
\* root, and a host that traps two getters.
EachItsOwn == [t \in DOMAIN ResfIndex |-> ResfIndex[t] % 4]

IdWorlds ==
    {World([Chroot EXCEPT !.chroot = r, !.rootfs = r, !.metadir = {}, !.excludes = {}, !.home = <<>>,
                          !.places = {b}, !.perms_mode = m, !.banned = n, !.root_ids = given,
                          !.calls = {"ids", "exec"}],
           b :> File(file) @@ (R \o b) :> File(3)) :
        <<r, m, n, given, file>> \in
            {<<{}, "Passthrough", {}, AllRoot, 4>>, <<{}, "RootOnly", {}, AllRoot, 4>>,
             <<{R}, "SudoOnly", {}, EachItsOwn, 4>>, <<{}, "SudoOnly", {}, EachItsOwn, 6>>,
             <<{}, "RootOnly", {"getuid", "getegid"}, AllRoot, 6>>}}

AllWorlds == LinkWorlds \cup ModeWorlds \cup ExecWorlds \cup IdWorlds

\* One syscall for each way in which the table and the kernel treat a path.
OneOfEach ==
    {"chroot", "stat", "open", "link", "name_to_handle_at", "faccessat", "linkat", "fchownat",
     "openat", "readlinkat", "renameat", "symlinkat", "unlinkat", "lgetxattr", "statx", "rename",
     "fchmodat2", "mkdir", "lchown", "symlink"}

Treatment(r) ==
    <<r.path_positions, r.dirfd_position, r.dirfd_precedes_path, r.dont_follow_symlink,
      r.flag_dont_follow_symlink, r.should_follow_hardlink, r.num \in NeverFollow, NoFollowFlag(r.num)>>

ASSUME EveryTreatment ==
    {Treatment(r) : r \in {s \in RAW_SYSCALL_INFOS : s.path_positions # {}}}
        = {Treatment(Row(num)) : num \in OneOfEach}

\* Whether the last syscall succeeded matters to no invariant and no later step.
StateView == <<conf, fs, meta, cwd, ids, Alive, mode, astray>>

\* Ids of three bits: 0, 2, and -1 extended with zeroes and with its sign.
SomeRegisters == {0, 2, 7, 63}
===============================================================================
