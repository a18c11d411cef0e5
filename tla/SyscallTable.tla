----------------------------- MODULE SyscallTable ------------------------------
(***************************************************************************)
(* sysaug/src/syscalls.rs: the table of the syscalls that pocker handles,  *)
(* as compiled for x86_64, and the BPF program that makes the kernel stop  *)
(* the tracee at exactly these.                                            *)
(*                                                                         *)
(* An Option is a set of at most one element, a bit mask the set of its    *)
(* bits, and a syscall number the name of the syscall.  The order of the   *)
(* table is kept only where it is turned into a program.                   *)
(***************************************************************************)
EXTENDS Naturals, Sequences, FiniteSets, FiniteSetsExt

\* Bits of the flags that a path syscall takes; O_NOCTTY of open is the bit of AT_SYMLINK_NOFOLLOW.
O_CREAT == 6
AT_SYMLINK_NOFOLLOW == 8
O_NOFOLLOW == 17

\* The four stat_*_buf_position fields differ in the layout of the buffer only.
default_syscall_info ==
    [num |-> "", augment |-> "None", flags |-> {}, path_positions |-> {},
     dirfd_position |-> {}, filefd_position |-> {}, dirfd_precedes_path |-> FALSE,
     getdents_bits |-> {}, stat_position |-> {}, sets_file_perms |-> {},
     file_perms_position |-> {}, deletion_type |-> {}, dont_follow_symlink |-> FALSE,
     flag_dont_follow_symlink |-> {}, creates_symlink |-> {}, creates_hardlink |-> {},
     should_follow_hardlink |-> FALSE, renames_metadata |-> {}, is_setter |-> FALSE,
     res_bits |-> {}, resf_bit |-> {}, seccomp_position |-> {}]

-------------------------------------------------------------------------------
(* The define_*_syscall macros, each for a set of names.                     *)

define_syscall(nums, augment) ==
    {[default_syscall_info EXCEPT !.num = n, !.augment = augment] : n \in nums}

define_seccomp_syscall(num, position) ==
    {[r EXCEPT !.seccomp_position = {position}] : r \in define_syscall({num}, "Seccomp")}

define_perms_syscall(num, is_setter, res_bits, resf_bit) ==
    {[r EXCEPT !.is_setter = is_setter, !.res_bits = res_bits, !.resf_bit = resf_bit] :
        r \in define_syscall({num}, "Perms")}

define_paths_syscall(nums, positions) ==
    {[r EXCEPT !.path_positions = positions] : r \in define_syscall(nums, "Paths")}

define_dirfd_syscall(nums, position, dirfd) ==
    {[r EXCEPT !.dirfd_position = {dirfd}] : r \in define_paths_syscall(nums, {position})}

define_dirfd2_syscall(nums, positions) ==
    {[r EXCEPT !.dirfd_precedes_path = TRUE] : r \in define_paths_syscall(nums, positions)}

define_filefd_syscall(nums, filefd) ==
    {[r EXCEPT !.filefd_position = {filefd}] : r \in define_syscall(nums, "Paths")}

define_getdents_syscall(num, bits) ==
    {[r EXCEPT !.getdents_bits = {bits}] : r \in define_paths_syscall({num}, {})}

\* The fileperms and deletion variants of the macros above.
fileperms(rows, type, position) ==
    {[r EXCEPT !.sets_file_perms = {type}, !.file_perms_position = {position}] : r \in rows}

deletion(rows, type) == {[r EXCEPT !.deletion_type = {type}] : r \in rows}

\* What is assigned to a row after its macro.
NoFollow(rows) == {[r EXCEPT !.dont_follow_symlink = TRUE] : r \in rows}
ToContent(rows) == {[r EXCEPT !.should_follow_hardlink = TRUE] : r \in rows}
Stat(rows, position) == {[r EXCEPT !.stat_position = {position}] : r \in rows}
FlagNoFollow(rows, reg) ==
    {[r EXCEPT !.flags = {reg}, !.flag_dont_follow_symlink = {AT_SYMLINK_NOFOLLOW}] : r \in rows}
Renames(rows, pair) == {[r EXCEPT !.renames_metadata = {pair}] : r \in rows}
Symlinks(rows, pair) == {[r EXCEPT !.creates_symlink = {pair}] : r \in rows}
Hardlinks(rows, pair) == {[r EXCEPT !.creates_hardlink = {pair}] : r \in rows}

-------------------------------------------------------------------------------
(* RAW_SYSCALL_INFOS.                                                        *)

PermsRows == UNION {
    define_perms_syscall("getuid", FALSE, {}, {4}), define_perms_syscall("geteuid", FALSE, {}, {5}),
    define_perms_syscall("getgid", FALSE, {}, {0}), define_perms_syscall("getegid", FALSE, {}, {1}),
    define_perms_syscall("getgroups", FALSE, {}, {}), define_perms_syscall("setgroups", TRUE, {}, {}),
    define_perms_syscall("setuid", TRUE, {}, {4}), define_perms_syscall("setgid", TRUE, {}, {0}),
    define_perms_syscall("setregid", TRUE, {0, 1}, {}),
    define_perms_syscall("setreuid", TRUE, {0, 1, 4}, {}),
    define_perms_syscall("setresgid", TRUE, {0, 1, 2}, {}),
    define_perms_syscall("setresuid", TRUE, {0, 1, 2, 4}, {}),
    define_perms_syscall("setfsgid", TRUE, {}, {3}), define_perms_syscall("setfsuid", TRUE, {}, {7})}

TraceeRows == define_syscall({"clone"}, "Clone") \cup define_syscall({"wait4"}, "Waitpid")

SeccompRows == define_seccomp_syscall("prctl", 1) \cup define_seccomp_syscall("seccomp", 0)

\* The syscalls of every architecture: those that take a path.
PathRows ==
    define_paths_syscall({"acct", "chdir", "chroot", "getxattr", "listxattr", "removexattr",
                          "setxattr", "swapoff", "swapon", "umount2"}, {0})
    \cup define_syscall({"execve"}, "Exec")

\* Those relative to a directory, and two that never follow a link.
DirfdRows == UNION {
    define_dirfd_syscall({"name_to_handle_at", "faccessat"}, 1, 0),
    Hardlinks(FlagNoFollow(define_dirfd2_syscall({"linkat"}, {1, 3}), 4), <<1, 3>>),
    fileperms(define_dirfd_syscall({"fchmodat", "mkdirat", "mknodat"}, 1, 0), "Chmod", 2),
    fileperms(define_dirfd_syscall({"fchownat"}, 1, 0), "Chown", 2),
    ToContent(FlagNoFollow(
        fileperms(define_dirfd_syscall({"openat"}, 1, 0), "ChmodOnCreation", 3), 2)),
    ToContent(NoFollow(define_dirfd_syscall({"readlinkat"}, 1, 0))),
    Renames(NoFollow(define_dirfd2_syscall({"renameat"}, {1, 3})), <<1, 3>>),
    {[r EXCEPT !.flags = {4}] :
        r \in Renames(NoFollow(define_dirfd2_syscall({"renameat2"}, {1, 3})), <<1, 3>>)},
    Symlinks(NoFollow(define_dirfd_syscall({"symlinkat"}, 2, 1)), <<0, 2>>),
    NoFollow(deletion(define_dirfd_syscall({"unlinkat"}, 1, 0), "File")),
    ToContent(NoFollow(define_paths_syscall({"lgetxattr", "llistxattr"}, {0})))}

\* Those about a file's state, by path or by descriptor.
FileRows == UNION {
    Stat(define_filefd_syscall({"fstat"}, 0), 1),
    Stat(ToContent(FlagNoFollow(define_dirfd_syscall({"statx"}, 1, 0), 2)), 4),
    define_paths_syscall({"truncate", "statfs"}, {0}),
    ToContent(FlagNoFollow(define_dirfd_syscall({"utimensat"}, 1, 0), 3)),
    define_getdents_syscall("getdents64", 64),
    fileperms(define_filefd_syscall({"fchmod"}, 0), "Chmod", 1),
    fileperms(define_filefd_syscall({"fchown"}, 0), "Chown", 1)}

\* x86_64 alone.
X86Rows == UNION {
    define_dirfd_syscall({"faccessat2"}, 1, 0),
    Renames(NoFollow(define_paths_syscall({"rename"}, {0, 1})), <<0, 1>>),
    define_paths_syscall({"utime"}, {0}),
    define_getdents_syscall("getdents", 32),
    FlagNoFollow(fileperms(define_dirfd_syscall({"fchmodat2"}, 1, 0), "Chmod", 2), 3),
    Stat(ToContent(FlagNoFollow(define_dirfd_syscall({"newfstatat"}, 1, 0), 3)), 2)}

\* x86_64 and 32-bit arm.
OldRows == UNION {
    define_paths_syscall({"access", "uselib", "utimes"}, {0}),
    fileperms(define_paths_syscall({"chmod", "mkdir"}, {0}), "Chmod", 1),
    fileperms(define_paths_syscall({"chown", "mknod", "creat"}, {0}), "Chown", 1),
    define_dirfd_syscall({"futimesat"}, 1, 0),
    Hardlinks(define_paths_syscall({"link"}, {0, 1}), <<0, 1>>),
    ToContent(FlagNoFollow(fileperms(define_paths_syscall({"open"}, {0}), "ChmodOnCreation", 2), 1)),
    ToContent(NoFollow(define_paths_syscall({"readlink"}, {0}))),
    NoFollow(fileperms(define_paths_syscall({"lchown"}, {0}), "Chown", 1)),
    Stat(ToContent(NoFollow(define_paths_syscall({"stat", "lstat"}, {0}))), 1),
    Symlinks(NoFollow(define_paths_syscall({"symlink"}, {1})), <<0, 1>>),
    NoFollow(deletion(define_paths_syscall({"unlink"}, {0}), "File")),
    deletion(define_paths_syscall({"rmdir"}, {0}), "Dir")}

RAW_SYSCALL_INFOS ==
    UNION {TraceeRows, PermsRows, SeccompRows, PathRows, DirfdRows, FileRows, X86Rows, OldRows}

\* SyscallInfos: the rows by their numbers; a syscall has one row at most.
ByNumber(rows) == [n \in {r.num : r \in rows} |-> {r \in rows : r.num = n}]
SYSCALL_INFOS == ByNumber(RAW_SYSCALL_INFOS)
get_syscall(num) == IF num \in DOMAIN SYSCALL_INFOS THEN SYSCALL_INFOS[num] ELSE {}

-------------------------------------------------------------------------------
(* The filter.                                                               *)

Instruction(code, jt, jf, k) == [code |-> code, jt |-> jt, jf |-> jf, k |-> k]

\* SECCOMP_FILTERS: the number is loaded and compared with that of each row.
SECCOMP_FILTERS(rows) ==
    [i \in 1..2 * Len(rows) + 2 |->
        IF i = 1 THEN Instruction("LD", 0, 0, "nr")
        ELSE IF i = 2 * Len(rows) + 2 THEN Instruction("RET", 0, 0, "ALLOW")
        ELSE IF i % 2 = 0 THEN Instruction("JEQ", 0, 1, rows[i \div 2].num)
        ELSE Instruction("RET", 0, 0, "TRACE")]

\* The kernel's interpreter: what the program returns for a syscall.
RunFilter(prog, num) ==
    LET run[pc \in 1..Len(prog)] ==
            CASE prog[pc].code = "LD"  -> run[pc + 1]
              [] prog[pc].code = "JEQ" -> run[pc + 1 + IF prog[pc].k = num THEN prog[pc].jt
                                                                           ELSE prog[pc].jf]
              [] prog[pc].code = "RET" -> prog[pc].k
    IN run[1]

\* The syscalls at which the tracee is stopped.
Traced ==
    LET rows == FoldSet(LAMBDA r, seq : Append(seq, r), <<>>, RAW_SYSCALL_INFOS)
        prog == SECCOMP_FILTERS(rows)
    IN {r.num : r \in {s \in RAW_SYSCALL_INFOS : RunFilter(prog, s.num) = "TRACE"}}
===============================================================================
