---------------------------- MODULE MCSyscallTracer ---------------------------
(***************************************************************************)
(* Machines and command lines for SyscallTracer.                           *)
(***************************************************************************)
EXTENDS SyscallTracer

\* A recent kernel, no option; execve may fail, and the program handles signals.
Plain == [version |-> <<5, 10>>, root |-> TRUE, no_seccomp |-> FALSE, fix_mmap |-> FALSE,
          fix_sigsys |-> FALSE, gdb |-> FALSE, banned |-> {}, handlers |-> TRUE,
          execFails |-> TRUE]

\* Root and child, with and without seccomp and mmap.
PlainConfigs ==
    {[Plain EXCEPT !.root = r, !.fix_mmap = m] : r, m \in BOOLEAN}
    \cup {[Plain EXCEPT !.version = v, !.root = r, !.no_seccomp = TRUE, !.gdb = r] :
             v \in {<<3, 18>>, <<4, 4>>, <<6, 1>>}, r \in BOOLEAN}

\* Another filter of the sandbox bans a syscall, or the one that stands in for skipped ones.
BannedConfigs ==
    {[Plain EXCEPT !.no_seccomp = n, !.fix_sigsys = s, !.banned = {b}, !.handlers = FALSE] :
        n, s \in BOOLEAN, b \in {"aug", "nomod"}}

\* Kernels before 4.8, with seccomp.
Linux_4_4 == {[Plain EXCEPT !.version = <<4, 4>>, !.handlers = FALSE]}

SoundConfigs == PlainConfigs \cup BannedConfigs \cup Linux_4_4
===============================================================================
