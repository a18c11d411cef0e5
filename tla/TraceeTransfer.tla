---------------------------- MODULE TraceeTransfer ----------------------------
(***************************************************************************)
(* How a new child of a tracee gets a tracer thread of its own.            *)
(*                                                                         *)
(* A child is born attached to the thread that traces its parent.  Only    *)
(* the thread that attached to a process may trace it, so the parent's     *)
(* tracer detaches the child, leaving it stopped by SIGSTOP, and the       *)
(* child's own thread attaches (LocalPtraceClient).  The stop is a lie     *)
(* the real parent could see through wait4: the handler of each tracee     *)
(* keeps a set of children whose SIGSTOP is pocker's, and the augment of   *)
(* wait4 hides it.  With --fix-attach the main thread traces everybody and *)
(* nothing is transferred (MainThreadClient).                              *)
(*                                                                         *)
(* The parent is one process of several threads, each with a tracer thread *)
(* and a handler.  Kernel actions are external.                            *)
(***************************************************************************)
EXTENDS Naturals, FiniteSets

CONSTANTS Threads,   \* of the parent
          Children,  \* it may create
          Clients,   \* the kinds of PtraceClient: a subset of {"local", "main"}
          MaxWaits   \* bound on the wait4 calls of a thread

ASSUME TransferAssumption ==
    /\ Threads # {} /\ Children # {}
    /\ Clients \subseteq {"local", "main"}
    /\ MaxWaits \in Nat

VARIABLES
    client,   \* the PtraceClient of this run of pocker
    proc,     \* the kernel's record of each child
    sent,     \* the signals the guest has sent to each child
    guest,    \* per thread of the parent: what it is doing
    tracer,   \* per thread of the parent: where its tracer thread is
    ignore,   \* per thread of the parent: ignore_sigstops of its handler
    own,      \* per child: where its own tracer thread is
    waits,    \* per thread: calls of wait4 so far
    shown     \* pairs of a thread and a child whose stop wait4 reported to the thread

vars == <<client, proc, sent, guest, tracer, ignore, own, waits, shown>>

-------------------------------------------------------------------------------
(* The kernel *)

\* creator: the thread that made the child.  by: who traces it.  run: "trap" is a ptrace
\* stop at a signal or at a group stop; "stopping" is on its way into a group stop, "stopped"
\* in one without a tracer.  opts: PTRACE_SETOPTIONS is in force.  pending: the queued one of
\* SIGSTOP and SIGCONT, which cancel each other.  dequeued: JOBCTL_STOP_DEQUEUED, no SIGCONT
\* came since the trap.  group: the process counts as stopped.  notice: that has not been
\* reported to the parent.
Process == [creator : Threads, by : {"creator", "main", "none", "own"},
            run : {"unborn", "running", "trap", "stopping", "stopped", "dead", "reaped"},
            at : {"STOP", "CONT", "group"}, opts : BOOLEAN, pending : {"none", "STOP", "CONT"},
            dequeued : BOOLEAN, group : BOOLEAN, notice : BOOLEAN]

Unborn == [creator |-> CHOOSE t \in Threads : TRUE, by |-> "none", run |-> "unborn",
           at |-> "STOP", opts |-> FALSE, pending |-> "none", dequeued |-> FALSE,
           group |-> FALSE, notice |-> FALSE]

Live(c) == proc[c].run \notin {"unborn", "dead", "reaped"}

Idle == [doing |-> "run", child |-> CHOOSE c \in Children : TRUE, nohang |-> FALSE,
         retval |-> "none", status |-> "old"]

Init ==
    /\ client \in Clients
    /\ proc = [c \in Children |-> Unborn]
    /\ sent = [c \in Children |-> {}]
    /\ guest = [t \in Threads |-> Idle]
    /\ tracer = [t \in Threads |-> "loop"]
    /\ ignore = [t \in Threads |-> {}]
    /\ own = [c \in Children |-> "none"]
    /\ waits = [t \in Threads |-> 0]
    /\ shown = {}

ParentLives == \A t \in Threads : tracer[t] # "failed"

Free(t) == ParentLives /\ tracer[t] = "loop" /\ guest[t].doing = "run"

\* Traced, a child traps before a signal takes effect; untraced, SIGSTOP takes it to a group
\* stop.
Dequeue(c) ==
    /\ proc[c].run = "running" /\ proc[c].pending # "none"
    /\ proc' = [proc EXCEPT ![c].pending = "none",
                            ![c].dequeued = TRUE,
                            ![c].run = IF proc[c].by # "none" THEN "trap"
                                       ELSE IF proc[c].pending = "STOP" THEN "stopping"
                                       ELSE "running",
                            ![c].at = proc[c].pending]
    /\ UNCHANGED <<client, sent, guest, tracer, ignore, own, waits, shown>>

\* do_signal_stop.  The parent is told of the first stop only, until SIGCONT.
GroupStop(c) ==
    /\ proc[c].run = "stopping"
    /\ proc' = [proc EXCEPT ![c].run = IF proc[c].by = "none" THEN "stopped" ELSE "trap",
                            ![c].at = "group",
                            ![c].group = TRUE,
                            ![c].notice = @ \/ ~proc[c].group]
    /\ UNCHANGED <<client, sent, guest, tracer, ignore, own, waits, shown>>

\* The guest, or somebody else, sends a signal to the child.
Stop(c) ==
    /\ Live(c) /\ "STOP" \notin sent[c]
    /\ sent' = [sent EXCEPT ![c] = @ \cup {"STOP"}]
    /\ proc' = [proc EXCEPT ![c].pending = "STOP"]
    /\ UNCHANGED <<client, guest, tracer, ignore, own, waits, shown>>

Continue(c) ==
    /\ Live(c) /\ "CONT" \notin sent[c]
    /\ sent' = [sent EXCEPT ![c] = @ \cup {"CONT"}]
    /\ proc' = [proc EXCEPT ![c].pending = "CONT",
                            ![c].dequeued = FALSE,
                            ![c].group = FALSE,
                            ![c].notice = FALSE,
                            ![c].run = IF @ \in {"stopped", "stopping"} THEN "running" ELSE @]
    /\ UNCHANGED <<client, guest, tracer, ignore, own, waits, shown>>

Kill(c) ==
    /\ Live(c)
    /\ sent' = [sent EXCEPT ![c] = @ \cup {"KILL"}]
    /\ proc' = [proc EXCEPT ![c].run = "dead", ![c].notice = FALSE]
    /\ UNCHANGED <<client, guest, tracer, ignore, own, waits, shown>>

-------------------------------------------------------------------------------
(* clone *)

\* Mutant: CLONE_UNTRACED is passed on.
augment_sys_clone_untraced(flags) == flags \cup {"CLONE_PTRACE"}

augment_sys_clone(flags) == (flags \cup {"CLONE_PTRACE"}) \ {"CLONE_UNTRACED"}

\* The guest makes a child.  Unless it is CLONE_UNTRACED its creator's tracer becomes its
\* tracer, with the same options, and gets an event; the child's first stop is a SIGSTOP.
Clone(t, c, flags) ==
    LET traced == "CLONE_UNTRACED" \notin augment_sys_clone(flags) IN
    /\ Free(t)
    /\ proc[c].run = "unborn"
    /\ proc' = [proc EXCEPT
         ![c] = [Unborn EXCEPT !.creator = t,
                               !.by = IF ~traced THEN "none"
                                      ELSE IF client = "local" THEN "creator" ELSE "main",
                               !.run = "running", !.opts = traced,
                               !.pending = IF traced THEN "STOP" ELSE "none"]]
    /\ guest' = [guest EXCEPT ![t].doing = IF traced THEN "clone" ELSE "run",
                              ![t].child = IF traced THEN c ELSE @]
    /\ tracer' = [tracer EXCEPT ![t] = IF traced THEN "event" ELSE "loop"]
    /\ UNCHANGED <<client, sent, ignore, own, waits, shown>>

\* Mutant: the child is taken for stopped.
PrepWaitNot(t) ==
    /\ client = "local"
    /\ tracer[t] = "event"
    /\ tracer' = [tracer EXCEPT ![t] = "detach"]
    /\ UNCHANGED <<client, proc, sent, guest, ignore, own, waits, shown>>

\* prep_attach_to waits for the first stop of the child.  A child that was killed passes the
\* test that follows: is_still_alive knows of exits only.
PrepWait(t) ==
    /\ client = "local"
    /\ tracer[t] = "event"
    /\ proc[guest[t].child].run \in {"trap", "dead"}
    /\ tracer' = [tracer EXCEPT ![t] = "detach"]
    /\ UNCHANGED <<client, proc, sent, guest, ignore, own, waits, shown>>

\* The rest of prep_attach_to, under the lock: the child is entered into the set, then
\* detached with SIGSTOP.  If that fails the tracer ends and kills the parent.
PrepDetach(t) ==
    LET c == guest[t].child IN
    /\ tracer[t] = "detach"
    /\ ignore' = [ignore EXCEPT ![t] = @ \cup {c}]
    /\ IF proc[c].run = "trap"
       THEN /\ proc' = [proc EXCEPT ![c].by = "none", ![c].opts = FALSE,
                                    ![c].run = IF proc[c].dequeued THEN "stopping"
                                               ELSE "running"]
            /\ tracer' = [tracer EXCEPT ![t] = "start"]
       ELSE /\ tracer' = [tracer EXCEPT ![t] = "failed"]
            /\ UNCHANGED proc
    /\ UNCHANGED <<client, sent, guest, own, waits, shown>>

\* The handler of the child is created and its thread started; the parent goes on.
StartHandler(t) ==
    /\ tracer[t] = IF client = "local" THEN "start" ELSE "event"
    /\ own' = [own EXCEPT ![guest[t].child] = "attach"]
    /\ tracer' = [tracer EXCEPT ![t] = "loop"]
    /\ guest' = [guest EXCEPT ![t].doing = "run"]
    /\ UNCHANGED <<client, proc, sent, ignore, waits, shown>>

-------------------------------------------------------------------------------
(* The child's own tracer thread *)

Fail(c) == own' = [own EXCEPT ![c] = "failed"]

\* attach_to: PTRACE_ATTACH traps a stopped child and sends SIGSTOP to any.
AttachTo(c) ==
    /\ own[c] = "attach"
    /\ IF client = "main"
       THEN own' = [own EXCEPT ![c] = "options"] /\ UNCHANGED proc
       ELSE IF ~Live(c) \/ proc[c].by # "none"
       THEN Fail(c) /\ UNCHANGED proc
       ELSE /\ own' = [own EXCEPT ![c] = "options"]
            /\ proc' = [proc EXCEPT ![c].by = "own",
                                    ![c].pending = "STOP",
                                    ![c].run = IF @ = "stopped" THEN "trap" ELSE @,
                                    ![c].at = "group"]
    /\ UNCHANGED <<client, sent, guest, tracer, ignore, waits, shown>>

\* set_ptrace_options waits for a stop, whichever it is, and swallows it.
SetOptions(c) ==
    /\ own[c] = "options"
    /\ proc[c].run \in {"trap", "dead"}
    /\ IF proc[c].run = "trap"
       THEN /\ own' = [own EXCEPT ![c] = "resume"]
            /\ proc' = [proc EXCEPT ![c].opts = TRUE]
       ELSE Fail(c) /\ UNCHANGED proc
    /\ UNCHANGED <<client, sent, guest, tracer, ignore, waits, shown>>

\* _ptrace_request_next_syscall.  A SIGSTOP that is passed on stops the child unless a
\* SIGCONT came in between.
Resume(c) ==
    /\ own[c] \in {"resume", "deliver"}
    /\ IF proc[c].run = "trap"
       THEN /\ proc' = [proc EXCEPT ![c].run = IF own[c] = "deliver" /\ proc[c].dequeued
                                               THEN "stopping" ELSE "running"]
            /\ own' = [own EXCEPT ![c] = "wait"]
       ELSE Fail(c) /\ UNCHANGED proc
    /\ UNCHANGED <<client, sent, guest, tracer, ignore, waits, shown>>

\* loop_handle_tracee_signals on a SIGSTOP: one of pocker's is dropped.
Signal(c) == IF c \in ignore[proc[c].creator] THEN "resume" ELSE "deliver"

\* Mutant: the tracer waits on after a group stop.
HandleSignals(c) ==
    /\ own[c] = "wait"
    /\ proc[c].run = "dead" \/ (proc[c].run = "trap" /\ proc[c].at # "group")
    /\ own' = [own EXCEPT ![c] = IF Live(c) /\ proc[c].at = "STOP"
                                 THEN Signal(c) ELSE "resume"]
    /\ UNCHANGED <<client, proc, sent, guest, tracer, ignore, waits, shown>>

\* A stop ends waitpid.  Group stops have no siginfo and are no event anybody waits for: the
\* child is resumed.  A SIGCONT is passed on.  A dead child is resumed too, and that fails.
HandleStop(c) ==
    /\ own[c] = "wait"
    /\ proc[c].run \in {"trap", "dead"}
    /\ own' = [own EXCEPT ![c] = IF Live(c) /\ proc[c].at = "STOP"
                                 THEN Signal(c) ELSE "resume"]
    /\ UNCHANGED <<client, proc, sent, guest, tracer, ignore, waits, shown>>

-------------------------------------------------------------------------------
(* wait4 *)

\* The guest calls wait4 with WUNTRACED; its tracer reads the status word, which fails when
\* the guest passes no address, and ends the tracer.
WaitEntry(t, nohang, null) ==
    /\ Free(t)
    /\ waits[t] < MaxWaits
    /\ waits' = [waits EXCEPT ![t] = @ + 1]
    /\ IF null
       THEN tracer' = [tracer EXCEPT ![t] = "failed"] /\ UNCHANGED guest
       ELSE /\ guest' = [guest EXCEPT ![t] = [Idle EXCEPT !.doing = "wait4",
                                                          !.nohang = nohang]]
            /\ UNCHANGED tracer
    /\ UNCHANGED <<client, proc, sent, ignore, own, shown>>

Reapable(c) == proc[c].run = "dead" /\ (proc[c].by = "none" \/ own[c] = "failed")

\* The kernel reports a stop, or a death once the tracer has seen it, or nothing.
WaitExit(t) ==
    /\ guest[t].doing = "wait4"
    /\ ParentLives
    /\ \/ \E c \in Children :
             /\ proc[c].notice
             /\ proc' = [proc EXCEPT ![c].notice = FALSE]
             /\ guest' = [guest EXCEPT ![t].doing = "exit", ![t].child = c,
                                       ![t].retval = "pid", ![t].status = "stopped"]
       \/ \E c \in Children :
             /\ Reapable(c)
             /\ proc' = [proc EXCEPT ![c].run = "reaped"]
             /\ guest' = [guest EXCEPT ![t].doing = "exit", ![t].child = c,
                                       ![t].retval = "pid", ![t].status = "exited"]
       \/ /\ guest[t].nohang /\ \A c \in Children : ~proc[c].notice /\ ~Reapable(c)
          /\ guest' = [guest EXCEPT ![t].doing = "exit", ![t].retval = "zero"]
          /\ UNCHANGED proc
    /\ UNCHANGED <<client, sent, tracer, ignore, own, waits, shown>>

\* Mutant: the status word keeps the stop.
OverrideKeepsStatus(t) ==
    [guest[t] EXCEPT !.doing = "run", !.retval = IF guest[t].nohang THEN "zero" ELSE "eintr"]

\* The override: as if interrupted, or as if there were nothing to report.
Override(t) ==
    [guest[t] EXCEPT !.doing = "run", !.status = "old",
                     !.retval = IF guest[t].nohang THEN "zero" ELSE "eintr"]

\* The tracer's part after wait4.
AfterWait(t) ==
    LET c == guest[t].child
        hide == c \in ignore[t] /\ guest[t].status = "stopped" IN
    /\ guest[t].doing = "exit"
    /\ IF guest[t].retval = "pid" /\ hide
       THEN /\ guest' = [guest EXCEPT ![t] = Override(t)]
            /\ ignore' = [ignore EXCEPT ![t] = @ \ {c}]
            /\ UNCHANGED shown
       ELSE /\ guest' = [guest EXCEPT ![t].doing = "run"]
            /\ shown' = IF guest[t].status = "stopped" THEN shown \cup {<<t, c>>} ELSE shown
            /\ UNCHANGED ignore
    /\ UNCHANGED <<client, proc, sent, tracer, own, waits>>

-------------------------------------------------------------------------------

TracerStep(t) == PrepWait(t) \/ PrepDetach(t) \/ StartHandler(t)

OwnStep(c) == AttachTo(c) \/ SetOptions(c) \/ Resume(c) \/ HandleStop(c)

KernelStep(c) == Dequeue(c) \/ GroupStop(c)

Next ==
    \/ \E t \in Threads :
         \/ \E c \in Children, flags \in SUBSET {"CLONE_UNTRACED"} : Clone(t, c, flags)
         \/ \E nohang, null \in BOOLEAN : WaitEntry(t, nohang, null)
         \/ WaitExit(t)
         \/ AfterWait(t)
         \/ TracerStep(t)
    \/ \E c \in Children :
         KernelStep(c) \/ OwnStep(c) \/ Stop(c) \/ Continue(c) \/ Kill(c)

\* Threads of pocker that do not block go on, and the kernel does what it has begun.  What
\* the guest does is up to it.
Fairness ==
    /\ \A t \in Threads : WF_vars(TracerStep(t))
    /\ \A c \in Children : WF_vars(OwnStep(c)) /\ WF_vars(KernelStep(c))

Spec == Init /\ [][Next]_vars /\ Fairness

-------------------------------------------------------------------------------
(* Properties *)

\* Every variable has its type: the places of the two kinds of tracer thread (prep_attach_to,
\* attach_to and event_loop), and those of a guest's wait4.
TypeOK ==
    /\ client \in Clients
    /\ proc \in [Children -> Process]
    /\ sent \in [Children -> SUBSET {"STOP", "CONT", "KILL"}]
    /\ guest \in [Threads -> [doing : {"run", "clone", "wait4", "exit"}, child : Children,
                              nohang : BOOLEAN, retval : {"none", "pid", "zero", "eintr"},
                              status : {"old", "stopped", "exited"}]]
    /\ tracer \in [Threads -> {"loop", "event", "detach", "start", "failed"}]
    /\ ignore \in [Threads -> SUBSET Children]
    /\ own \in [Children -> {"none", "attach", "options", "resume", "wait", "deliver", "failed"}]
    /\ waits \in [Threads -> 0..MaxWaits]
    /\ shown \subseteq Threads \X Children

\* The thread that made a child never sees through wait4 (aug_waitpid.rs) the SIGSTOP of the
\* child's transfer: a stop is reported to it only if somebody sent SIGSTOP to the child, and
\* a wait4 that was overridden leaves the status word as it was.
ParentNeverSees ==
    /\ \A c \in Children : <<proc[c].creator, c>> \in shown => "STOP" \in sent[c]
    /\ \A t \in Threads :
         guest[t].doing = "run" /\ guest[t].retval \in {"eintr", "zero"}
            => guest[t].status = "old"

\* A child runs only under a tracer and with the ptrace options set, through its whole
\* transfer (prep_attach_to, attach_to, set_ptrace_options): without that its syscalls would
\* reach the host as they are.  SIGCONT ends the stop the transfer relies on.
NoUntracedRun ==
    \A c \in Children :
       proc[c].run = "running" /\ "CONT" \notin sent[c]
          => proc[c].by # "none" /\ proc[c].opts

\* No ptrace request of a transfer is refused: a tracer thread fails only if the child was
\* killed, or if wait4 was called without a status address.
FailsOnlyIfKilled ==
    /\ \A c \in Children : own[c] = "failed" => "KILL" \in sent[c]
    /\ \A t \in Threads :
         tracer[t] = "failed" /\ guest[t].doing = "clone"
            => "KILL" \in sent[guest[t].child]

\* Every child, however it is stopped, ends up running under a tracer of its own (fork events of
\* loop_handle_tracee_other_events), whatever signals and wait4 calls come in between.
EveryChildTraced ==
    \A c \in Children :
       Live(c)
          ~> \/ own[c] = "wait" /\ proc[c].run = "running" /\ proc[c].opts
             \/ "KILL" \in sent[c]
===============================================================================
