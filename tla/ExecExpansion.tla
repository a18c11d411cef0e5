----------------------------- MODULE ExecExpansion -----------------------------
(***************************************************************************)
(* sysaug/src/aug_exec.rs: execve of a dynamic executable becomes execve   *)
(* of its loader, execve of a script that of its interpreter.              *)
(*                                                                         *)
(* What a file holds is [kind, interp, words, setuid, setgid, uid, gid]:   *)
(* an "elf" names its loader in interp, a "script" its interpreter, with   *)
(* so many words after "#!".  An element of argv is a path.                *)
(***************************************************************************)
EXTENDS PathResolution, Permissions

CONSTANTS Contents,    \* what the file of an id holds
          MaxScripts   \* interpreters that are scripts, one inside the other (4 in Linux)

Content(fs, place) == Contents[Node(fs, place).id]

Option == Rel(<<"option">>)   \* the second word of a "#!" line

\* argv of the interpreter of a script.
ScriptArgv(file, path, argv) ==
    <<file.interp>> \o (IF file.words = 2 THEN <<Option>> ELSE <<>>) \o <<path>> \o Tail(argv)

\* loaded: a loader stands in for the executable.
Result(res, reg, argv, loaded) == [res |-> res, reg |-> reg, argv |-> argv, loaded |-> loaded]
Refused == Result("ENOENT", Rel(<<>>), <<>>, FALSE)
TracerError == Result("error", Rel(<<>>), <<>>, FALSE)
StackOverflow == Result("overflow", Rel(<<>>), <<>>, FALSE)

\* Convert elf path to absolute path in container: by the directory of the tracer.
absolute(conf, path) ==
    IF path.abs THEN {path}
    ELSE IF conf.chroot = {} THEN {Abs(conf.home \o path.parts)}
    ELSE {Abs(SubSeq(conf.home \o path.parts, Len(r) + 1, Len(conf.home \o path.parts))) :
             r \in {c \in conf.chroot : IsPrefix(c, conf.home)}}

ExecRow == CHOOSE r \in get_syscall("execve") : TRUE

Loader(fs, conf, file) ==
    IF conf.chroot # {} /\ ~conf.use_native_loader
    THEN Effective(calc_real_path(fs, conf, file.interp, ExecRow, {}), file.interp) ELSE file.interp

\* Mutant: the loader is given the path on the host.
with_loader_host(fs, conf, new, path, argv, file) ==
    LET loader == Loader(fs, conf, file)
    IN IF absolute(conf, path) = {} THEN TracerError
       ELSE Result("run", loader, <<loader, new>> \o Tail(argv), TRUE)

\* A dynamic executable: argv becomes loader, executable, argv[1..].
with_loader(fs, conf, new, path, argv, file) ==
    LET loader == Loader(fs, conf, file)
    IN IF absolute(conf, path) = {} THEN TracerError
       ELSE Result("run", loader,
                   <<loader, CHOOSE p \in absolute(conf, path) : TRUE>> \o Tail(argv), TRUE)

RECURSIVE expand_exec(_, _, _, _, _)

\* expand_exec_with_parser, of a file that was found: the registers of the execve, or why
\* there is none.
expand_file(fs, conf, new, place, path, argv, depth) ==
    LET file == Content(fs, place)
    IN IF Node(fs, place).kind = "dir" THEN TracerError
       ELSE CASE file.kind = "elf"    -> with_loader(fs, conf, new, path, argv, file)
              [] file.kind = "static" -> Result("run", new, argv, FALSE)
              [] file.kind = "script" ->
                     IF file.words > 2 THEN Refused
                     ELSE IF depth = 0 THEN StackOverflow
                     ELSE expand_exec(fs, conf, file.interp, ScriptArgv(file, path, argv), depth - 1)
              [] file.kind = "data"   -> Refused

expand_exec(fs, conf, path, argv, depth) ==
    LET action == calc_real_path(fs, conf, path, ExecRow, {})
        new == Effective(action, path)
        found == canonicalize(fs, conf, new)
    IN IF action.act = "ELOOP" \/ found = {} THEN Refused
       ELSE expand_file(fs, conf, new, CHOOSE p \in found : TRUE, path, argv, depth)

RECURSIVE set_ids(_, _, _, _, _)

\* The ids that it sets on its way, by the file that the tracer finds at the guest's path.
set_ids(fs, conf, ids, path, depth) ==
    LET stat == canonicalize(fs, conf, path)
        now == IF stat = {} \/ \E p \in stat : Node(fs, p).kind = "dir" THEN ids
               ELSE exec_setid(ids, Content(fs, CHOOSE p \in stat : TRUE))
        action == calc_real_path(fs, conf, path, ExecRow, {})
        found == canonicalize(fs, conf, Effective(action, path))
        scripts == {p \in found : Node(fs, p).kind = "file" /\ Content(fs, p).kind = "script"
                                  /\ Content(fs, p).words <= 2}
    IN IF depth = 0 \/ scripts = {} \/ action.act = "ELOOP" THEN now
       ELSE set_ids(fs, conf, now, Content(fs, CHOOSE p \in scripts : TRUE).interp, depth - 1)

-------------------------------------------------------------------------------
(* What an execve does, for comparison: object and loader that run, and argv *)
(* from the first argument on.                                               *)

Started(prog, loader, args) == [prog |-> prog, loader |-> loader, args |-> args]
NotStarted == Started(<<>>, {}, <<>>)

\* Under chroot(2).  plain: no lookup is mixed, scripts end, and "#!" has two words at most.
RECURSIVE ChrootExec(_, _, _, _, _, _)

ChrootExec(fs, conf, base, path, argv, depth) ==
    LET w == ChrootLookup(fs, conf, base, path, TRUE)
        file == Content(fs, w.at)
        l == ChrootLookup(fs, conf, base, file.interp, TRUE)
        out(s, plain) == [started |-> s, plain |-> plain]
    IN IF w.err # "ok" \/ Node(fs, w.at).kind = "absent" THEN out(NotStarted, ~w.mixed)
       ELSE IF Node(fs, w.at).kind = "dir" THEN out(NotStarted, FALSE)
       ELSE CASE file.kind = "elf" ->
                     IF l.err # "ok" \/ Node(fs, l.at).kind # "file"
                     THEN out(NotStarted, FALSE)
                     ELSE out(Started(w.at, {l.at}, Tail(argv)), ~w.mixed /\ ~l.mixed)
              [] file.kind = "static" -> out(Started(w.at, {}, Tail(argv)), ~w.mixed)
              [] file.kind = "script" ->
                     IF file.words > 2 \/ depth = 0 THEN out(NotStarted, FALSE)
                     ELSE LET r == ChrootExec(fs, conf, base, file.interp,
                                              ScriptArgv(file, path, argv), depth - 1)
                          IN [r EXCEPT !.plain = @ /\ ~w.mixed]
              [] file.kind = "data" -> out(NotStarted, ~w.mixed)

\* What the tracer's execve starts.  A loader opens its first argument as the guest would.
HostExec(fs, conf, base, result) ==
    LET w == HostLookup(fs, base, result.reg, TRUE)
        open(path) == HostLookup(fs, base, path_argument(fs, conf, "open", 0, base, path, {}).reg, TRUE)
    IN IF result.res # "run" \/ w.err # "ok" THEN NotStarted
       ELSE IF result.loaded
            THEN Started(open(result.argv[2]).at, {w.at}, SubSeq(result.argv, 3, Len(result.argv)))
            ELSE Started(w.at, {}, Tail(result.argv))
===============================================================================
