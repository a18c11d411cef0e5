---------------------------- MODULE SyscallTracer -----------------------------
(***************************************************************************)
(* sysaug/src/handler_sync.rs and handler_async.rs: the tracer thread of   *)
(* one tracee.  event_loop resumes the tracee, waits for its next stop and *)
(* hands the stop to three coroutines (signals, syscalls, other events),   *)
(* of which at most one is waiting for stops of that type.                 *)
(*                                                                         *)
(* A stop is handled in one action: the tracee does not move in between.   *)
(* AsyncRuntime is used through what is proved of it: a stop wakes the     *)
(* coroutine that waits for its type, and is dropped when nobody does.     *)
(***************************************************************************)
EXTENDS PtraceKernel

VARIABLES
    co,       \* the syscalls coroutine, see Coroutine
    yielder,  \* the signals coroutine: "wait", "yield", or "unblocked" to leave yield_now
    ignored,  \* the pid is in ignore_sigstops of the parent's handler
    result,   \* of event_loop: "none" while it runs, "ok", "err" or "gdb"
    exitCode, \* the value of an "ok"
    seen,     \* ghost: the stop at which the entry of the tracee's syscall was handled, or "no"
    saved,    \* ghost: the handlers that ran when orig_syscall_num was last saved
    mistaken  \* ghost: the tracee's syscall is of a handler that started after that, and was
              \* taken for the one orig_syscall_num was saved of

tvars == <<co, yielder, ignored, result, exitCode, seen, saved, mistaken>>
vars == <<kvars, tvars>>

\* What can be left of an initialisation.
Plans == {<<>>, <<"mmap">>, <<"seccomp">>, <<"prctl", "seccomp">>, <<"mmap", "prctl", "seccomp">>}

\* pc: what the coroutine waits for: the entry or exit of a syscall, or of the syscall
\* that _insert_syscall_during_init replaces.  todo: the syscalls still to be inserted.
\* The rest are the fields and locals of those names in handler_async.rs.
Coroutine ==
    [pc: {"entry", "exit", "ins_entry", "ins_exit"},
     todo: Plans,
     is_first_loop_after_init: BOOLEAN,
     tracee_seccomp_init_complete: BOOLEAN,
     is_after_syscall_entry: BOOLEAN,
     expects_syscall_exit: BOOLEAN,
     resume_through_syscall: BOOLEAN,
     extra_round: BOOLEAN,
     orig_syscall_num: Kinds \cup {""}]

is_legacy_seccomp == conf.version[1] <= 4 /\ conf.version[2] <= 7

-------------------------------------------------------------------------------
(* wait_for_syscall.                                                         *)

\* Up to the await.
StartWait(c, pc) ==
    [c EXCEPT !.pc = pc,
              !.expects_syscall_exit = c.is_after_syscall_entry,
              !.is_after_syscall_entry = FALSE,
              !.resume_through_syscall = ~c.tracee_seccomp_init_complete \/ c.is_after_syscall_entry,
              !.extra_round = FALSE]

Awaits(c, s) ==
    IF c.resume_through_syscall THEN s \in {"entry", "exit"} ELSE s = "seccomp"

\* A kernel that is taken for legacy has one more stop between seccomp and exit.
NeedsExtraRound(c) ==
    c.tracee_seccomp_init_complete /\ c.expects_syscall_exit /\ is_legacy_seccomp /\ ~c.extra_round

\* After it: a seccomp stop is remembered as the entry.
EndWait(c) == [c EXCEPT !.is_after_syscall_entry = ~c.resume_through_syscall]

-------------------------------------------------------------------------------
(* The syscalls coroutine between two waits.                                 *)

\* Mutant: the entry after the initialisation is not remembered.
AfterEntryForgotten(c) ==
    LET e == [EndWait(c) EXCEPT !.orig_syscall_num = ""]
    IN StartWait(IF c.is_first_loop_after_init
                 THEN [e EXCEPT !.tracee_seccomp_init_complete = ~conf.no_seccomp,
                                !.is_first_loop_after_init = FALSE]
                 ELSE e, "exit")

\* Mutant: the number saved by an earlier insertion is kept.
AfterEntryKeepsOrig(c) ==
    StartWait(IF c.is_first_loop_after_init
              THEN [EndWait(c) EXCEPT !.tracee_seccomp_init_complete = ~conf.no_seccomp,
                                      !.is_after_syscall_entry = TRUE,
                                      !.is_first_loop_after_init = FALSE]
              ELSE EndWait(c), "exit")

\* loop_handle_tracee_syscalls, after the entry: the first syscall after the
\* initialisation switches the coroutine to seccomp stops.
AfterEntry(c) ==
    LET e == [EndWait(c) EXCEPT !.orig_syscall_num = ""]
    IN StartWait(IF c.is_first_loop_after_init
                 THEN [e EXCEPT !.tracee_seccomp_init_complete = ~conf.no_seccomp,
                                !.is_after_syscall_entry = TRUE,
                                !.is_first_loop_after_init = FALSE]
                 ELSE e, "exit")

\* What is inserted after an execve.
Initialisation ==
    (IF conf.fix_mmap THEN <<>> ELSE <<"mmap">>) \o
    (IF conf.root /\ ~conf.no_seccomp THEN <<"prctl", "seccomp">> ELSE <<>>)

LoopTop(c) ==
    IF c.todo # <<>> THEN StartWait(c, "ins_entry") ELSE StartWait(c, "entry")

\* Mutant: seccomp counts as initialised before the filter is installed.
AfterExitEager(c) ==
    LoopTop(IF cur = "exec"
            THEN [EndWait(c) EXCEPT !.todo = Initialisation, !.is_first_loop_after_init = TRUE,
                                    !.tracee_seccomp_init_complete = ~conf.no_seccomp]
            ELSE EndWait(c))

\* After the exit (x86_64: the number in the register decides whether it was execve).
AfterExit(c) ==
    LoopTop(IF cur = "exec"
            THEN [EndWait(c) EXCEPT !.todo = Initialisation, !.is_first_loop_after_init = TRUE]
            ELSE EndWait(c))

\* _insert_syscall_during_init, after the entry of the syscall that is replaced.
AfterInsertedEntry(c) ==
    StartWait([EndWait(c) EXCEPT !.orig_syscall_num = IF @ = "" THEN cur ELSE @], "ins_exit")

AfterInsertedExit(c) == LoopTop([EndWait(c) EXCEPT !.todo = Tail(@)])

-------------------------------------------------------------------------------

InitialCoroutine ==
    StartWait([pc |-> "entry", todo |-> <<>>, is_first_loop_after_init |-> FALSE,
               tracee_seccomp_init_complete |-> FALSE, is_after_syscall_entry |-> FALSE,
               expects_syscall_exit |-> FALSE, resume_through_syscall |-> FALSE,
               extra_round |-> FALSE, orig_syscall_num |-> ""], "entry")

\* Mutant: PTRACE_CONT whenever the filter is installed.
HowByFilter(c) == IF c.tracee_seccomp_init_complete THEN "cont" ELSE "syscall"

How(c) == IF c.resume_through_syscall THEN "syscall" ELSE "cont"

\* Attached, options set, the first step run, and resumed for the first time; the
\* SIGSTOP of PTRACE_ATTACH is still to come.  A child has its parent's filter.
Init ==
    /\ conf \in Configs
    /\ at = "user" /\ stop = "none" /\ mode = "syscall"
    /\ cur = "plain" /\ asked = "plain" /\ failed = FALSE
    /\ again = <<>> /\ frames = <<>>
    /\ handler = (conf.handlers /\ ~conf.root)
    /\ filter = (~conf.root /\ ~conf.no_seccomp)
    /\ pend = {"SIGSTOP"} /\ raised = 0 /\ status = 0
    /\ co = InitialCoroutine
    /\ yielder = "wait"
    /\ ignored = ~conf.root
    /\ result = "none" /\ exitCode = 0
    /\ seen = "no" /\ saved = 0 /\ mistaken = FALSE

\* start: an error kills the tracee and sets failed.
Finish(r) ==
    /\ result' = r
    /\ stop' = "dead"
    /\ UNCHANGED <<conf, at, mode, cur, failed, asked, again, frames, handler, filter,
                   pend, raised, status, co, yielder, ignored, seen, saved, mistaken>>

Fail == Finish("err") /\ UNCHANGED exitCode

Unblocked == IF yielder = "yield" THEN "unblocked" ELSE yielder

\* The step ends with the coroutine waiting again as c, and the tracee is resumed.
Continue(c) ==
    /\ co' = c
    /\ Resume(How(c))
    /\ UNCHANGED <<conf, at, failed, asked, frames, handler, filter, pend, raised, status,
                   ignored, result, exitCode>>

-------------------------------------------------------------------------------
(* Stops the syscalls coroutine waits for.                                   *)

\* The augment of the syscall runs up to its exit: it resumes it, skips it, or fails.
SyscallEntry ==
    /\ co.pc = "entry" /\ Awaits(co, stop)
    /\ \/ /\ \/ cur' = cur
             \/ cur \in {"aug", "exec"} /\ cur' = "nomod"  \* do_skip_syscall
          /\ seen' = stop
          /\ Continue(AfterEntry(co))
          /\ UNCHANGED <<again, yielder, saved, mistaken>>
       \/ cur \in Augmented /\ Fail
       \/ conf.gdb /\ Finish("gdb") /\ UNCHANGED exitCode  \* gdb_at

\* The augment of the syscall may fail here too.
SyscallExit ==
    /\ co.pc = "exit" /\ Awaits(co, stop) /\ ~NeedsExtraRound(co)
    /\ \/ /\ Continue(AfterExit(co))
          /\ yielder' = Unblocked
          /\ UNCHANGED <<cur, again, seen, saved, mistaken>>
       \/ Fail

InsertedEntry ==
    /\ co.pc = "ins_entry" /\ Awaits(co, stop)
    /\ cur' = Head(co.todo)
    /\ seen' = stop
    /\ Continue(AfterInsertedEntry(co))
    /\ yielder' = Unblocked
    /\ saved' = IF co.orig_syscall_num = "" THEN Len(frames) ELSE saved
    /\ mistaken' = (mistaken \/ (co.orig_syscall_num # "" /\ Len(frames) > saved))
    /\ UNCHANGED again

\* The registers are restored and the pc moved back onto the syscall instruction.
InsertedExit ==
    /\ co.pc = "ins_exit" /\ Awaits(co, stop) /\ ~NeedsExtraRound(co)
    /\ IF failed /\ cur # "mmap" THEN Fail
       ELSE /\ cur' = co.orig_syscall_num
            /\ again' = <<co.orig_syscall_num, asked, mistaken>>
            /\ Continue(AfterInsertedExit(co))
            /\ yielder' = Unblocked
            /\ UNCHANGED <<seen, saved, mistaken>>

ExtraRound ==
    /\ co.pc \in {"exit", "ins_exit"} /\ Awaits(co, stop) /\ NeedsExtraRound(co)
    /\ Continue([co EXCEPT !.extra_round = TRUE, !.is_after_syscall_entry = FALSE])
    /\ UNCHANGED <<cur, again, yielder, seen, saved, mistaken>>

\* A syscall or seccomp stop nobody waits for is dropped.
DropStop ==
    /\ stop \in {"entry", "exit", "seccomp"} /\ ~Awaits(co, stop)
    /\ Continue(co)
    /\ UNCHANGED <<cur, again, yielder, seen, saved, mistaken>>

-------------------------------------------------------------------------------
(* Signals and events.                                                       *)

Listening == yielder # "yield"

\* Mutant: fix_sigsys has no effect.
BlocksSeccompOnly(s) ==
    \/ s = "SIGSTOP" /\ ignored
    \/ s = "SIGSYS" /\ ~conf.no_seccomp

\* SIGSYS is turned into an error return: all SIGSYS of the kernel with fix_sigsys,
\* and those of seccomp unless no_seccomp.
Blocks(s) ==
    \/ s = "SIGSTOP" /\ ignored
    \/ s = "SIGSYS" /\ (conf.fix_sigsys \/ ~conf.no_seccomp)

\* SIGTRAP and group stops never reach the signals coroutine; while it has yielded, no
\* signal does.  Writing the error return into the registers may fail.
SwallowSignal ==
    /\ \/ stop \in {"SIGTRAP", "groupstop"}
       \/ stop \in Signals /\ ~Listening
       \/ stop \in Signals /\ Listening /\ Blocks(stop)
    /\ \/ /\ yielder' = CASE stop = "SIGSYS" /\ Listening /\ conf.no_seccomp /\ cur = "nomod" -> "yield"
                          [] stop \in Signals \ {"SIGTRAP"} /\ Listening -> "wait"
                          [] OTHER -> yielder
          /\ Continue(co)
          /\ UNCHANGED <<cur, again, seen, saved, mistaken>>
       \/ stop = "SIGSYS" /\ Listening /\ Fail

InjectSignal ==
    /\ stop \in Signals \ {"SIGTRAP"} /\ Listening /\ ~Blocks(stop)
    /\ ~(stop = "SIGSEGV" /\ conf.gdb)
    /\ yielder' = "wait"
    /\ ResumeWith(How(co), stop)
    /\ UNCHANGED <<conf, at, cur, failed, asked, handler, filter, pend, raised,
                   co, ignored, result, exitCode, seen, saved, mistaken>>

SegfaultToGdb ==
    /\ stop = "SIGSEGV" /\ conf.gdb /\ Listening
    /\ Finish("gdb")
    /\ UNCHANGED exitCode

\* The clone, fork and vfork events; the child is handed over to a thread of its own.
ForkEvent ==
    /\ stop = "forkevent"
    /\ \/ Continue(co) /\ UNCHANGED <<cur, again, yielder, seen, saved, mistaken>>
       \/ Fail

ExitEvent ==
    /\ stop = "exitevent"
    /\ Finish("ok")
    /\ exitCode' = status \div 256

\* waitpid reports a tracee that is gone, or the next ptrace request fails.
TraceeGone ==
    /\ stop = "dead"
    /\ Fail

\* The parent's own waitpid was answered with our SIGSTOP (aug_waitpid.rs).
ParentWaited ==
    /\ ignored
    /\ ignored' = FALSE
    /\ UNCHANGED <<kvars, co, yielder, result, exitCode, seen, saved, mistaken>>

HandleStop ==
    \/ SyscallEntry \/ SyscallExit \/ InsertedEntry \/ InsertedExit \/ ExtraRound \/ DropStop
    \/ SwallowSignal \/ InjectSignal \/ SegfaultToGdb \/ ForkEvent \/ ExitEvent \/ TraceeGone

\* A stop is handled, or a syscall the program is in moves on: what fairness is assumed
\* of.  The program need not make another syscall.
Step ==
    /\ result = "none"
    /\ \/ HandleStop
       \/ KernelStep /\ UNCHANGED tvars

NewSyscall ==
    /\ result = "none"
    /\ Issue
    /\ seen' = "no"
    /\ mistaken' = (again # <<>> /\ again[3])
    /\ UNCHANGED <<co, yielder, ignored, result, exitCode, saved>>

Outside ==
    /\ result = "none"
    /\ \/ (\E s \in {"SIGX", "SIGSEGV", "SIGSTOP"} : Raise(s)) /\ UNCHANGED tvars
       \/ Kill /\ UNCHANGED tvars
       \/ ParentWaited

Finished == result # "none" /\ UNCHANGED vars

Next == Step \/ NewSyscall \/ Outside \/ Finished

Spec == Init /\ [][Next]_vars /\ WF_vars(Step)

-------------------------------------------------------------------------------
(* Properties.                                                               *)

Stops == {"none", "entry", "exit", "seccomp", "forkevent", "exitevent", "groupstop", "dead"}

\* Every variable has its type.
TypeOK ==
    /\ conf \in Configs
    /\ at \in {"user", "entry", "seccomp", "run", "exit"}
    /\ stop \in Stops \cup Signals
    /\ mode \in {"syscall", "cont"}
    /\ {cur, asked} \subseteq Kinds
    /\ {failed, handler, filter, ignored} \subseteq BOOLEAN
    /\ pend \subseteq Signals
    /\ Len(frames) <= MaxNest /\ raised \in 0..MaxSignals
    /\ co \in Coroutine
    /\ yielder \in {"wait", "yield", "unblocked"}
    /\ result \in {"none", "ok", "err", "gdb"}
    /\ seen \in {"no", "entry", "seccomp", "exit"}
    /\ saved \in 0..MaxNest /\ mistaken \in BOOLEAN

\* The kernels on which the stops of a syscall are those wait_for_syscall counts on from
\* the first syscall after the initialisation: not the ones before 4.8 with seccomp.
Countable == ~KernelIsLegacy \/ conf.no_seccomp

StopFitsPhase ==
    co'.pc # co.pc =>
        IF co.pc \in {"entry", "ins_entry"} THEN stop \in {"entry", "seccomp"}
                                           ELSE stop = "exit" /\ seen # "no"

\* wait_for_syscall tells entries from exits only by counting stops.  It never loses
\* count: what is handled as an entry is an entry or seccomp stop, and what is handled
\* as an exit is the exit stop of the very syscall whose entry was handled last.
\* "Starts from seccomp (yields until syscall-exit-stop)": once the coroutine works from
\* seccomp stops, the number of stops from one to the exit is right on the kernels before
\* 4.8 too, if is_legacy_seccomp knows them (3.8 to 3.19 it takes for recent ones).
PhaseAgreement ==
    [][Countable \/ (is_legacy_seccomp /\ co.pc \in {"exit", "ins_exit"} /\ seen = "seccomp")
         => StopFitsPhase]_vars

\* The same on the other kernels, for which wait_for_syscall has its extra round
\* (do_resume_syscall: "But only wait for this one system call to go through").
PhaseAgreementBefore48 == [][~Countable => StopFitsPhase]_vars

\* _insert_syscall_during_init saves the number of the syscall it replaces once for all the
\* insertions after an execve: "(This won't cause a race on tracer side because:) ... both
\* tracer and tracee will see the same syscall".  A signal handler that starts between two of
\* them does cause one; only the root tracer makes more than one, when it installs the filter.
Mistakable == mistaken /\ conf.handlers /\ conf.root /\ ~conf.no_seccomp

\* No syscall with an augment runs before the tracer has handled its entry, in
\* particular not in the switch from PTRACE_SYSCALL to PTRACE_CONT after execve: neither
\* by its number nor, unless it was mistaken for another, by what the program asked for.
NoEscape ==
    Countable /\ result = "none" /\ stop = "none" /\ at = "run" /\ seen = "no" =>
        /\ cur \notin Augmented \ conf.banned
        /\ asked \in Augmented \ conf.banned => Mistakable

\* A syscall that runs is the one the program asked for, the one that stands in for a
\* skipped syscall, or the one inserted in its place (which is then run again).  The only
\* exception is a syscall of a signal handler that started between two insertions of one
\* initialisation: orig_syscall_num is then the number of the syscall it interrupted.
RunsWhatItAsked ==
    Countable /\ result = "none" /\ stop = "none" /\ at = "run" =>
        \/ cur = asked
        \/ cur = "nomod" /\ asked \in {"aug", "exec"}
        \/ co.pc = "ins_exit" /\ cur = Head(co.todo)
        \/ co.pc # "ins_exit" /\ Mistakable

\* --fix-sigsys: "If your tracee crashes due to SIGSYS, use this flag": then no SIGSYS
\* of the kernel ends the tracee, also not while the signals coroutine has yielded.
SigsysNeverKills == [][stop = "SIGSYS" /\ conf.fix_sigsys => stop' # "exitevent"]_vars

\* Every syscall whose entry was handled is brought to its exit, unless the tracer ends.
EveryEntryIsClosed ==
    Countable /\ co.pc \in {"exit", "ins_exit"} ~> co.pc \in {"entry", "ins_entry"} \/ result # "none"
===============================================================================
