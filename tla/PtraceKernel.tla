---------------------------- MODULE PtraceKernel ------------------------------
(***************************************************************************)
(* The kernel's side of one traced process, as far as the tracer in        *)
(* sysaug/src can tell it (external: Linux is not part of the repository). *)
(*                                                                         *)
(* A syscall passes a sequence of points.  Since Linux 4.8 they are entry, *)
(* seccomp, run, exit; before 4.8 seccomp comes first, then entry.  The    *)
(* entry and exit points stop the tracee only when it was resumed with     *)
(* PTRACE_SYSCALL; the seccomp point stops it when a filter is installed   *)
(* that answers SECCOMP_RET_TRACE for the syscall number.  Signals are     *)
(* reported on the way back to user mode.                                  *)
(*                                                                         *)
(* A syscall number is one of a few kinds (see Kinds).  The program is any *)
(* program.  conf describes the machine and the command line; it does not  *)
(* change.                                                                 *)
(***************************************************************************)
EXTENDS Integers, Sequences, SequencesExt

CONSTANTS Configs,    \* the values of conf
          MaxSignals, \* bound: signals sent to the tracee from outside
          MaxNest     \* bound: signal handlers that interrupt each other


VARIABLES
    conf,     \* the machine and the command line, see Machines
    at,       \* the next point the tracee reaches, or "user"
    stop,     \* what the tracer's waitpid reports, "none" while the tracee runs
    mode,     \* resumed by PTRACE_"syscall" or by PTRACE_"cont"
    cur,      \* the syscall number in the register
    failed,   \* the return value of the last syscall is an error
    asked,    \* ghost: the number the program asked for
    again,    \* set by a rewound pc: the <<number, asked, mistaken>> executed next, or <<>>
    frames,   \* what the running signal handlers interrupted
    handler,  \* the program has installed a signal handler
    filter,   \* our seccomp filter is installed
    pend,     \* pending signals
    raised,   \* counts the signals from outside
    status    \* the wait status of a tracee that is gone: 256 * exit code + signal

kvars == <<conf, at, stop, mode, cur, failed, asked, again, frames, handler, filter,
           pend, raised, status>>

\* aug: paths, perms, waitpid, prctl...; nomod: getpid; plain: no entry in the table.
Program   == {"aug", "exec", "fork", "exit", "plain", "nomod"}
Inserted  == {"mmap", "prctl", "seccomp"}
Kinds     == Program \cup Inserted \cup {"sigreturn"}
Augmented == {"aug", "exec", "fork"}
Traced    == Augmented \cup {"prctl", "seccomp"}
Signals   == {"SIGX", "SIGSEGV", "SIGSTOP", "SIGTRAP", "SIGSYS"}

\* version is that of Linux; banned are the numbers some other filter answers with
\* SECCOMP_RET_TRAP, none of which the tracer inserts; handlers: the program may install
\* signal handlers.
Machines ==
    [version : Nat \X Nat, root : BOOLEAN, no_seccomp : BOOLEAN, fix_mmap : BOOLEAN,
     fix_sigsys : BOOLEAN, gdb : BOOLEAN, banned : SUBSET (Kinds \ Inserted), handlers : BOOLEAN,
     execFails : BOOLEAN]

ASSUME KernelAssumption ==
    /\ MaxSignals \in Nat /\ MaxNest \in Nat
    /\ Configs \subseteq Machines

SIGNALLED == 9

\* A handler blocks its signal while it runs.
Deliverable == IF handler /\ Len(frames) = MaxNest THEN pend \ {"SIGX", "SIGSEGV"} ELSE pend

KernelIsLegacy == conf.version[1] < 4 \/ (conf.version[1] = 4 /\ conf.version[2] < 8)

FirstPoint == IF KernelIsLegacy THEN "seccomp" ELSE "entry"
Following(p) ==
    CASE p = "entry"   -> IF KernelIsLegacy THEN "run" ELSE "seccomp"
      [] p = "seccomp" -> IF KernelIsLegacy THEN "entry" ELSE "run"
      [] p = "run"     -> "exit"
      [] p = "exit"    -> "user"

-------------------------------------------------------------------------------
(* The tracee runs.                                                          *)

\* A stop at a point the tracee passes.
Pass(p, stops) ==
    /\ stop = "none" /\ at = p
    /\ at' = Following(p)
    /\ stop' = IF stops THEN p ELSE "none"

Issue ==
    /\ stop = "none" /\ at = "user" /\ Deliverable = {}
    /\ \/ /\ again # <<>>
          /\ cur' = again[1]
          /\ asked' = again[2]
       \/ /\ again = <<>>
          /\ cur' \in Program \cup (IF frames = <<>> THEN {} ELSE {"sigreturn"})
          /\ asked' = cur'
    /\ again' = <<>>
    /\ at' = FirstPoint
    /\ UNCHANGED <<conf, stop, mode, failed, frames, handler, filter, pend, raised, status>>

PassEntry ==
    /\ Pass("entry", mode = "syscall")
    /\ UNCHANGED <<conf, mode, cur, failed, asked, again, frames, handler, filter, pend, raised, status>>

\* A ban by somebody else's filter (SECCOMP_RET_TRAP) takes precedence over ours.
PassSeccomp ==
    /\ Pass("seccomp", filter /\ cur \in Traced \ conf.banned)
    /\ UNCHANGED <<conf, mode, cur, failed, asked, again, frames, handler, filter, pend, raised, status>>

PassExit ==
    /\ Pass("exit", mode = "syscall")
    /\ UNCHANGED <<conf, mode, cur, failed, asked, again, frames, handler, filter, pend, raised, status>>

RunBanned ==
    /\ cur \in conf.banned
    /\ Pass("run", FALSE)
    /\ pend' = pend \cup {"SIGSYS"}
    /\ UNCHANGED <<conf, mode, cur, failed, asked, again, frames, handler, filter, raised, status>>

Runs(k) == cur = k /\ k \notin conf.banned

\* A successful execve resets the handlers and posts a SIGTRAP.
RunExec ==
    /\ Runs("exec")
    /\ Pass("run", FALSE)
    /\ \/ /\ conf.execFails
          /\ failed' = TRUE
          /\ UNCHANGED <<again, frames, handler, pend>>
       \/ /\ failed' = FALSE
          /\ handler' = FALSE
          /\ frames' = <<>>
          /\ again' = <<>>
          /\ pend' = pend \cup {"SIGTRAP"}
    /\ UNCHANGED <<conf, mode, cur, asked, filter, raised, status>>

RunFork ==
    /\ Runs("fork")
    /\ stop = "none" /\ at = "run"
    /\ at' = "exit"
    /\ stop' = "forkevent"
    /\ UNCHANGED <<conf, mode, cur, failed, asked, again, frames, handler, filter, pend, raised, status>>

RunExit ==
    /\ Runs("exit")
    /\ stop = "none" /\ at = "run"
    /\ stop' = "exitevent"
    /\ status' \in {0, 256}
    /\ UNCHANGED <<conf, at, mode, cur, failed, asked, again, frames, handler, filter, pend, raised>>

RunSeccomp ==
    /\ Runs("seccomp")
    /\ Pass("run", FALSE)
    /\ failed' \in BOOLEAN
    /\ filter' = (filter \/ ~failed')
    /\ UNCHANGED <<conf, mode, cur, asked, again, frames, handler, pend, raised, status>>

RunSigreturn ==
    /\ Runs("sigreturn") /\ frames # <<>>
    /\ Pass("run", FALSE)
    /\ again' = Last(frames)
    /\ frames' = Front(frames)
    /\ UNCHANGED <<conf, mode, cur, failed, asked, handler, filter, pend, raised, status>>

\* The others; sigaction is one of the plain ones.
RunOther ==
    /\ cur \notin conf.banned \cup {"exec", "fork", "exit", "seccomp"}
    /\ cur = "sigreturn" => frames = <<>>
    /\ Pass("run", FALSE)
    /\ failed' \in IF cur \in Inserted THEN BOOLEAN ELSE {FALSE}
    /\ handler' \in {handler} \cup (IF cur = "plain" /\ conf.handlers THEN {TRUE} ELSE {})
    /\ UNCHANGED <<conf, mode, cur, asked, again, frames, filter, pend, raised, status>>

DeliverSignal ==
    /\ stop = "none" /\ at = "user"
    /\ stop' \in Deliverable
    /\ pend' = pend \ {stop'}
    /\ UNCHANGED <<conf, at, mode, cur, failed, asked, again, frames, handler, filter, raised, status>>

\* What the kernel does by itself; only Issue waits for the program.
KernelStep ==
    \/ PassEntry \/ PassSeccomp \/ PassExit
    \/ RunBanned \/ RunExec \/ RunFork \/ RunExit \/ RunSeccomp \/ RunSigreturn \/ RunOther
    \/ DeliverSignal

\* Signals from other processes; SIGKILL ends the tracee wherever it is.
Raise(s) ==
    /\ raised < MaxSignals
    /\ raised' = raised + 1
    /\ pend' = pend \cup {s}
    /\ UNCHANGED <<conf, at, stop, mode, cur, failed, asked, again, frames, handler, filter, status>>

Kill ==
    /\ raised < MaxSignals
    /\ stop # "dead"
    /\ raised' = raised + 1
    /\ stop' = "dead"
    /\ UNCHANGED <<conf, at, mode, cur, failed, asked, again, frames, handler, filter, pend, status>>

-------------------------------------------------------------------------------
(* What the tracer's requests do to a stopped tracee.                        *)

\* PTRACE_SYSCALL or PTRACE_CONT without a signal.
Resume(how) ==
    /\ mode' = how
    /\ stop' = "none"

\* The same with a signal to deliver: a group stop, a handler, or the default action.
ResumeWith(how, s) ==
    /\ mode' = how
    /\ \/ /\ s = "SIGSTOP"
          /\ stop' = "groupstop"
          /\ UNCHANGED <<again, frames, status>>
       \/ /\ s \in {"SIGX", "SIGSEGV"} /\ handler
          /\ frames' = Append(frames, again)
          /\ again' = <<>>
          /\ stop' = "none"
          /\ UNCHANGED status
       \/ /\ s = "SIGX" /\ ~handler
          /\ stop' = "none"
          /\ UNCHANGED <<again, frames, status>>
       \/ /\ s = "SIGSYS" \/ (s # "SIGSTOP" /\ ~handler)
          /\ stop' = "exitevent"
          /\ status' = SIGNALLED
          /\ UNCHANGED <<again, frames>>
===============================================================================
