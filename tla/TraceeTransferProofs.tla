------------------------- MODULE TraceeTransferProofs -------------------------
(***************************************************************************)
(* Proofs about TraceeTransfer, for every number of threads, of children   *)
(* and of wait4 calls.                                                     *)
(***************************************************************************)
EXTENDS TraceeTransfer, TLAPS

-------------------------------------------------------------------------------
(* The inductive invariant.                                                  *)

Born(c) == proc[c].run # "unborn"

\* wait4 of t is about to return the stop of c.
Holds(t, c) ==
    guest[t].doing = "exit" /\ guest[t].status = "stopped" /\ guest[t].child = c

\* The stop of c will be reported when it takes effect.
Stopping(c) == proc[c].run = "stopping" /\ ~proc[c].group

\* What a thread of the parent does: in wait4, and in the event of its clone.
ThreadInv(t) ==
    LET c == guest[t].child IN
    /\ guest[t].retval \in {"eintr", "zero"} => guest[t].status = "old"
    /\ guest[t].doing = "wait4" => guest[t].status = "old" /\ guest[t].retval = "none"
    /\ guest[t].doing = "exit" /\ guest[t].status = "stopped" =>
          guest[t].retval = "pid" /\ Born(c)
    /\ tracer[t] \in {"event", "detach", "start"} =>
          guest[t].doing = "clone" /\ Born(c) /\ proc[c].creator = t /\ own[c] = "none"
    /\ tracer[t] \in {"detach", "start"} => client = "local"
    /\ tracer[t] \in {"event", "detach"} /\ client = "local" => proc[c].by = "creator"
    /\ tracer[t] = "detach" => proc[c].run \in {"trap", "dead"}
    /\ tracer[t] = "start" => proc[c].by = "none"
    /\ tracer[t] = "failed" /\ guest[t].doing = "clone" => "KILL" \in sent[c]

\* Who traces a child, against the place of its own tracer thread.
ByInv(c) ==
    /\ ~Born(c) => own[c] = "none" /\ ~proc[c].notice
    /\ Born(c) /\ client = "main" => proc[c].by = "main" /\ proc[c].opts
    /\ Born(c) /\ client = "local" =>
          /\ own[c] = "none" => proc[c].by \in {"creator", "none"}
          /\ own[c] = "attach" => proc[c].by = "none"
          /\ own[c] \in {"options", "resume", "wait", "deliver"} => proc[c].by = "own"
          /\ proc[c].by \in {"creator", "none", "own"}
          /\ own[c] \in {"resume", "wait", "deliver"} => proc[c].opts
    /\ proc[c].by = "creator" =>
          /\ proc[c].opts /\ ~proc[c].group /\ own[c] = "none"
          /\ proc[c].run \in {"running", "trap", "dead"}
    /\ proc[c].by = "own" => own[c] \notin {"none", "attach"}
    /\ own[c] \in {"resume", "deliver"} => proc[c].run \in {"trap", "dead"}
    /\ own[c] = "failed" => "KILL" \in sent[c] /\ proc[c].run \in {"dead", "reaped"}

\* A stop lasts until SIGCONT or until its tracer ends it.
RunInv(c) ==
    /\ proc[c].run = "stopping" => proc[c].dequeued
    /\ proc[c].run = "stopped" => proc[c].by = "none" /\ proc[c].group /\ proc[c].dequeued
    /\ proc[c].run = "trap" => proc[c].by # "none" /\ (proc[c].dequeued \/ "CONT" \in sent[c])
    /\ proc[c].run \in {"dead", "reaped"} => "KILL" \in sent[c]
    /\ proc[c].run = "reaped" => proc[c].by = "none" \/ own[c] = "failed"
    /\ proc[c].run = "running" /\ ~(proc[c].by # "none" /\ proc[c].opts) => "CONT" \in sent[c]
    /\ proc[c].notice => proc[c].group

\* While nobody has sent SIGSTOP: which of pocker's SIGSTOPs is still to come.  That of the
\* clone is swallowed at the first stop; that of the attach is swallowed too, or finds the
\* child counted as stopped.
PendInv(c) ==
    "STOP" \notin sent[c] /\ Live(c) =>
       /\ proc[c].pending = "STOP" =>
             \/ proc[c].by \in {"creator", "main"} /\ proc[c].run = "running"
                /\ own[c] \in {"none", "attach", "options"}
             \/ proc[c].by = "own"
                /\ (proc[c].group \/ (own[c] = "options" /\ proc[c].run \in {"running", "stopping"}))
       /\ proc[c].run = "trap" /\ proc[c].dequeued
             /\ (own[c] = "deliver" \/ (own[c] = "wait" /\ proc[c].at = "STOP"))
             => proc[c].group

\* While nobody has sent SIGSTOP, one stop at most is on its way to wait4 of the creator, and
\* its handler ignores it.
TokenInv(c) ==
    LET t == proc[c].creator IN
    "STOP" \notin sent[c] /\ Born(c) =>
       /\ Stopping(c) \/ proc[c].notice => c \in ignore[t] /\ ~Holds(t, c)
       /\ Holds(t, c) => c \in ignore[t]
       /\ proc[c].by = "creator" => ~Holds(t, c)

ShownInv ==
    \A t \in Threads, c \in Children :
       <<t, c>> \in shown => Born(c) /\ (t = proc[c].creator => "STOP" \in sent[c])

ChildInv(c) == ByInv(c) /\ RunInv(c) /\ PendInv(c) /\ TokenInv(c)

IndInv ==
    /\ TypeOK
    /\ \A t \in Threads : ThreadInv(t)
    /\ \A c \in Children : ChildInv(c)
    /\ ShownInv

USE TransferAssumption

-------------------------------------------------------------------------------
(* What does not change.                                                     *)

\* A child that a step leaves alone.
LEMMA ChildFrame ==
    ASSUME NEW c \in Children, ChildInv(c),
           proc'[c] = proc[c], own'[c] = own[c], sent'[c] = sent[c], client' = client,
           Holds(proc[c].creator, c)' => Holds(proc[c].creator, c),
           c \in ignore[proc[c].creator] => c \in ignore'[proc[c].creator]
    PROVE  ChildInv(c)'
<1>1. ByInv(c)' /\ RunInv(c)'
  BY DEF ChildInv, ByInv, RunInv, Born
<1>2. PendInv(c)'
  BY DEF ChildInv, PendInv, Live
<1>3. TokenInv(c)'
  BY DEF ChildInv, TokenInv, Born, Stopping, Holds
<1> QED BY <1>1, <1>2, <1>3 DEF ChildInv

\* A thread of the parent while something happens to a child.
LEMMA ThreadFrame ==
    ASSUME NEW t \in Threads, ThreadInv(t), guest'[t] = guest[t], tracer'[t] = tracer[t],
           client' = client,
           NEW c, c = guest[t].child,
           Born(c) => Born(c)' /\ proc'[c].creator = proc[c].creator,
           tracer[t] \in {"event", "detach", "start"} =>
              /\ own'[c] = own[c] /\ proc'[c].by = proc[c].by
              /\ proc[c].run \in {"trap", "dead"} => proc'[c].run \in {"trap", "dead"},
           sent[c] \subseteq sent'[c]
    PROVE  ThreadInv(t)'
BY DEF ThreadInv, Born

\* The places of a child's own tracer thread.
OwnPlaces == {"none", "attach", "options", "resume", "wait", "deliver", "failed"}

\* A step concerns the child c alone: every other one is left as it is, and c does not leave
\* the transfer that the tracer of its creator has begun.
Concerns(c) ==
    /\ UNCHANGED <<client, guest, tracer, ignore, waits, shown>>
    /\ proc' \in [Children -> Process]
    /\ own' \in [Children -> OwnPlaces]
    /\ sent' \in [Children -> SUBSET {"STOP", "CONT", "KILL"}]
    /\ \A d \in Children \ {c} : proc'[d] = proc[d] /\ own'[d] = own[d] /\ sent'[d] = sent[d]
    /\ Born(c) /\ Born(c)' /\ proc'[c].creator = proc[c].creator
    /\ sent[c] \subseteq sent'[c]
    /\ own[c] = "none" =>
          /\ own'[c] = "none" /\ proc'[c].by = proc[c].by
          /\ proc[c].run \in {"trap", "dead"} => proc'[c].run \in {"trap", "dead"}

\* A step of the kernel or of the child's own tracer thread concerns one child.
LEMMA OneChild ==
    ASSUME IndInv, NEW c \in Children, Concerns(c), ChildInv(c)'
    PROVE  IndInv'
<1> USE DEF Concerns
<1>1. TypeOK'
  BY DEF IndInv, TypeOK, OwnPlaces
<1>2. ASSUME NEW d \in Children PROVE ChildInv(d)'
  <2>1. CASE d = c
    BY <2>1
  <2>2. CASE d # c
    <3>1. ChildInv(d) /\ proc'[d] = proc[d] /\ own'[d] = own[d] /\ sent'[d] = sent[d]
      BY <2>2 DEF IndInv
    <3>2. Holds(proc[d].creator, d)' => Holds(proc[d].creator, d)
      BY <3>1 DEF Holds
    <3>3. d \in ignore[proc[d].creator] => d \in ignore'[proc[d].creator]
      OBVIOUS
    <3> QED BY <3>1, <3>2, <3>3, ChildFrame
  <2> QED BY <2>1, <2>2
<1>3. ASSUME NEW t \in Threads PROVE ThreadInv(t)'
  <2> DEFINE d == guest[t].child
  <2>1. d \in Children /\ ThreadInv(t)
    BY DEF IndInv, TypeOK
  <2>2. CASE d = c
    <3>1. tracer[t] \in {"event", "detach", "start"} => own[c] = "none"
      BY <2>1, <2>2 DEF ThreadInv
    <3>2. /\ Born(d) => Born(d)' /\ proc'[d].creator = proc[d].creator
          /\ tracer[t] \in {"event", "detach", "start"} =>
                /\ own'[d] = own[d] /\ proc'[d].by = proc[d].by
                /\ proc[d].run \in {"trap", "dead"} => proc'[d].run \in {"trap", "dead"}
          /\ sent[d] \subseteq sent'[d]
      BY <2>2, <3>1 DEF Born
    <3> HIDE DEF d
    <3> QED BY <2>1, <3>2, ThreadFrame DEF d
  <2>3. CASE d # c
    <3>1. proc'[d] = proc[d] /\ own'[d] = own[d] /\ sent'[d] = sent[d]
      BY <2>1, <2>3
    <3> QED BY <2>1, <3>1 DEF ThreadInv, Born
  <2> QED BY <2>2, <2>3
<1>4. ShownInv'
  BY DEF IndInv, ShownInv, Born
<1> QED BY <1>1, <1>2, <1>3, <1>4 DEF IndInv

-------------------------------------------------------------------------------
(* Steps of the kernel, and signals of the guest.                            *)

\* A child takes a pending signal.
LEMMA DequeueStep ==
    ASSUME IndInv, NEW c \in Children, Dequeue(c)
    PROVE  IndInv'
<1> DEFINE run == IF proc[c].by # "none" THEN "trap"
                  ELSE IF proc[c].pending = "STOP" THEN "stopping"
                  ELSE "running"
           p == [proc[c] EXCEPT !.pending = "none",
                                !.dequeued = TRUE,
                                !.run = run,
                                !.at = proc[c].pending]
<1>1. /\ proc[c] \in Process /\ proc' = [proc EXCEPT ![c] = p]
      /\ proc[c].run = "running" /\ proc[c].pending # "none"
      /\ UNCHANGED <<client, sent, guest, tracer, ignore, own, waits, shown>>
  BY DEF IndInv, TypeOK, OwnPlaces, Dequeue
<1>2. /\ p \in Process
      /\ p.pending = "none"
      /\ p.dequeued = TRUE
      /\ p.run = run
      /\ p.at = proc[c].pending
      /\ p.creator = proc[c].creator /\ p.by = proc[c].by /\ p.opts = proc[c].opts
      /\ p.group = proc[c].group /\ p.notice = proc[c].notice
  BY <1>1 DEF Process
<1> HIDE DEF p
<1>3. proc'[c] = p /\ proc' \in [Children -> Process]
  BY <1>1, <1>2 DEF IndInv, TypeOK
<1>4. ByInv(c) /\ RunInv(c) /\ PendInv(c) /\ TokenInv(c)
  BY DEF IndInv, ChildInv
<1>5. Concerns(c)
  BY <1>1, <1>2, <1>3, <1>4 DEF IndInv, TypeOK, OwnPlaces, ByInv, RunInv, Concerns, Born, Live
<1>6. ByInv(c)'
  BY <1>1, <1>2, <1>3, <1>4 DEF ByInv, RunInv, Born, Live
<1>7. RunInv(c)'
  BY <1>1, <1>2, <1>3, <1>4 DEF ByInv, RunInv, Born, Live
<1>8. PendInv(c)'
  BY <1>1, <1>2, <1>3, <1>4 DEF ByInv, RunInv, PendInv, Born, Live
<1>9. TokenInv(c)'
  BY <1>1, <1>2, <1>3, <1>4 DEF ByInv, RunInv, PendInv, TokenInv, Born, Live, Stopping, Holds
<1> QED BY <1>5, <1>6, <1>7, <1>8, <1>9, OneChild DEF ChildInv

\* A child enters a group stop.
LEMMA GroupStopStep ==
    ASSUME IndInv, NEW c \in Children, GroupStop(c)
    PROVE  IndInv'
<1> DEFINE run == IF proc[c].by = "none" THEN "stopped"
                  ELSE "trap"
           p == [proc[c] EXCEPT !.run = run,
                                !.at = "group",
                                !.group = TRUE,
                                !.notice = (proc[c].notice \/ ~proc[c].group)]
<1>1. /\ proc[c] \in Process /\ proc' = [proc EXCEPT ![c] = p]
      /\ proc[c].run = "stopping"
      /\ UNCHANGED <<client, sent, guest, tracer, ignore, own, waits, shown>>
  BY DEF IndInv, TypeOK, OwnPlaces, GroupStop
<1>2. /\ p \in Process
      /\ p.run = run
      /\ p.at = "group"
      /\ p.group = TRUE
      /\ p.notice = (proc[c].notice \/ ~proc[c].group)
      /\ p.creator = proc[c].creator /\ p.by = proc[c].by /\ p.opts = proc[c].opts
      /\ p.pending = proc[c].pending /\ p.dequeued = proc[c].dequeued
  BY <1>1 DEF Process
<1> HIDE DEF p
<1>3. proc'[c] = p /\ proc' \in [Children -> Process]
  BY <1>1, <1>2 DEF IndInv, TypeOK
<1>4. ByInv(c) /\ RunInv(c) /\ PendInv(c) /\ TokenInv(c)
  BY DEF IndInv, ChildInv
<1>5. Concerns(c)
  BY <1>1, <1>2, <1>3, <1>4 DEF IndInv, TypeOK, OwnPlaces, ByInv, RunInv, Concerns, Born, Live
<1>6. ByInv(c)'
  BY <1>1, <1>2, <1>3, <1>4 DEF ByInv, RunInv, Born, Live
<1>7. RunInv(c)'
  BY <1>1, <1>2, <1>3, <1>4 DEF ByInv, RunInv, Born, Live
<1>8. PendInv(c)'
  BY <1>1, <1>2, <1>3, <1>4 DEF ByInv, RunInv, PendInv, Born, Live
<1>9. TokenInv(c)'
  BY <1>1, <1>2, <1>3, <1>4, ZenonT(60) DEF ByInv, RunInv, PendInv, TokenInv, Born, Live, Stopping, Holds
<1> QED BY <1>5, <1>6, <1>7, <1>8, <1>9, OneChild DEF ChildInv

\* Somebody sends SIGSTOP to a child.
LEMMA StopStep ==
    ASSUME IndInv, NEW c \in Children, Stop(c)
    PROVE  IndInv'
<1> DEFINE p == [proc[c] EXCEPT !.pending = "STOP"]
<1>1. /\ proc[c] \in Process /\ proc' = [proc EXCEPT ![c] = p]
      /\ Live(c)
      /\ sent \in [Children -> SUBSET {"STOP", "CONT", "KILL"}]
      /\ sent' = [sent EXCEPT ![c] = sent[c] \cup {"STOP"}]
      /\ UNCHANGED <<client, guest, tracer, ignore, own, waits, shown>>
  BY DEF IndInv, TypeOK, OwnPlaces, Stop
<1>2. /\ p \in Process
      /\ p.pending = "STOP"
      /\ p.creator = proc[c].creator /\ p.by = proc[c].by /\ p.run = proc[c].run
      /\ p.at = proc[c].at /\ p.opts = proc[c].opts /\ p.dequeued = proc[c].dequeued
      /\ p.group = proc[c].group /\ p.notice = proc[c].notice
  BY <1>1 DEF Process
<1> HIDE DEF p
<1>3. proc'[c] = p /\ proc' \in [Children -> Process]
  BY <1>1, <1>2 DEF IndInv, TypeOK
<1>4. ByInv(c) /\ RunInv(c) /\ PendInv(c) /\ TokenInv(c)
  BY DEF IndInv, ChildInv
<1>5. Concerns(c)
  BY <1>1, <1>2, <1>3, <1>4 DEF IndInv, TypeOK, OwnPlaces, ByInv, RunInv, Concerns, Born, Live
<1>6. ByInv(c)'
  BY <1>1, <1>2, <1>3, <1>4 DEF ByInv, RunInv, Born, Live
<1>7. RunInv(c)'
  BY <1>1, <1>2, <1>3, <1>4 DEF ByInv, RunInv, Born, Live
<1>8. PendInv(c)'
  BY <1>1, <1>2, <1>3, <1>4 DEF ByInv, RunInv, PendInv, Born, Live
<1>9. TokenInv(c)'
  BY <1>1, <1>2, <1>3, <1>4 DEF ByInv, RunInv, PendInv, TokenInv, Born, Live, Stopping, Holds
<1> QED BY <1>5, <1>6, <1>7, <1>8, <1>9, OneChild DEF ChildInv

\* Somebody sends SIGCONT to a child, which ends its stop.
LEMMA ContinueStep ==
    ASSUME IndInv, NEW c \in Children, Continue(c)
    PROVE  IndInv'
<1> DEFINE run == IF proc[c].run \in {"stopped", "stopping"} THEN "running"
                  ELSE proc[c].run
           p == [proc[c] EXCEPT !.pending = "CONT",
                                !.dequeued = FALSE,
                                !.group = FALSE,
                                !.notice = FALSE,
                                !.run = run]
<1>1. /\ proc[c] \in Process /\ proc' = [proc EXCEPT ![c] = p]
      /\ Live(c)
      /\ sent \in [Children -> SUBSET {"STOP", "CONT", "KILL"}]
      /\ sent' = [sent EXCEPT ![c] = sent[c] \cup {"CONT"}]
      /\ UNCHANGED <<client, guest, tracer, ignore, own, waits, shown>>
  BY DEF IndInv, TypeOK, OwnPlaces, Continue
<1>2. /\ p \in Process
      /\ p.pending = "CONT"
      /\ p.dequeued = FALSE
      /\ p.group = FALSE
      /\ p.notice = FALSE
      /\ p.run = run
      /\ p.creator = proc[c].creator /\ p.by = proc[c].by /\ p.at = proc[c].at
      /\ p.opts = proc[c].opts
  BY <1>1 DEF Process
<1> HIDE DEF p
<1>3. proc'[c] = p /\ proc' \in [Children -> Process]
  BY <1>1, <1>2 DEF IndInv, TypeOK
<1>4. ByInv(c) /\ RunInv(c) /\ PendInv(c) /\ TokenInv(c)
  BY DEF IndInv, ChildInv
<1>5. Concerns(c)
  BY <1>1, <1>2, <1>3, <1>4 DEF IndInv, TypeOK, OwnPlaces, ByInv, RunInv, Concerns, Born, Live
<1>6. ByInv(c)'
  BY <1>1, <1>2, <1>3, <1>4 DEF ByInv, RunInv, Born, Live
<1>7. RunInv(c)'
  BY <1>1, <1>2, <1>3, <1>4 DEF ByInv, RunInv, Born, Live
<1>8. PendInv(c)'
  BY <1>1, <1>2, <1>3, <1>4 DEF ByInv, RunInv, PendInv, Born, Live
<1>9. TokenInv(c)'
  BY <1>1, <1>2, <1>3, <1>4 DEF ByInv, RunInv, PendInv, TokenInv, Born, Live, Stopping, Holds
<1> QED BY <1>5, <1>6, <1>7, <1>8, <1>9, OneChild DEF ChildInv

\* Somebody kills a child.
LEMMA KillStep ==
    ASSUME IndInv, NEW c \in Children, Kill(c)
    PROVE  IndInv'
<1> DEFINE p == [proc[c] EXCEPT !.run = "dead",
                                !.notice = FALSE]
<1>1. /\ proc[c] \in Process /\ proc' = [proc EXCEPT ![c] = p]
      /\ Live(c)
      /\ sent \in [Children -> SUBSET {"STOP", "CONT", "KILL"}]
      /\ sent' = [sent EXCEPT ![c] = sent[c] \cup {"KILL"}]
      /\ UNCHANGED <<client, guest, tracer, ignore, own, waits, shown>>
  BY DEF IndInv, TypeOK, OwnPlaces, Kill
<1>2. /\ p \in Process
      /\ p.run = "dead"
      /\ p.notice = FALSE
      /\ p.creator = proc[c].creator /\ p.by = proc[c].by /\ p.at = proc[c].at
      /\ p.opts = proc[c].opts /\ p.pending = proc[c].pending
      /\ p.dequeued = proc[c].dequeued /\ p.group = proc[c].group
  BY <1>1 DEF Process
<1> HIDE DEF p
<1>3. proc'[c] = p /\ proc' \in [Children -> Process]
  BY <1>1, <1>2 DEF IndInv, TypeOK
<1>4. ByInv(c) /\ RunInv(c) /\ PendInv(c) /\ TokenInv(c)
  BY DEF IndInv, ChildInv
<1>5. Concerns(c)
  BY <1>1, <1>2, <1>3, <1>4 DEF IndInv, TypeOK, OwnPlaces, ByInv, RunInv, Concerns, Born, Live
<1>6. ByInv(c)'
  BY <1>1, <1>2, <1>3, <1>4 DEF ByInv, RunInv, Born, Live
<1>7. RunInv(c)'
  BY <1>1, <1>2, <1>3, <1>4 DEF ByInv, RunInv, Born, Live
<1>8. PendInv(c)'
  BY <1>1, <1>2, <1>3, <1>4 DEF ByInv, RunInv, PendInv, Born, Live
<1>9. TokenInv(c)'
  BY <1>1, <1>2, <1>3, <1>4 DEF ByInv, RunInv, PendInv, TokenInv, Born, Live, Stopping, Holds
<1> QED BY <1>5, <1>6, <1>7, <1>8, <1>9, OneChild DEF ChildInv

-------------------------------------------------------------------------------
(* Steps of the child's own tracer thread.                                   *)

\* The tracer thread goes on without a change of the child: the client traces it already, a
\* stop is looked at, or a request is refused because the child is dead.
LEMMA OwnMoves ==
    ASSUME IndInv, NEW c \in Children, NEW o \in OwnPlaces, own' = [own EXCEPT ![c] = o],
           UNCHANGED <<client, proc, sent, guest, tracer, ignore, waits, shown>>,
           \/ own[c] \in {"attach", "options", "resume", "deliver"} /\ o = "failed"
              /\ proc[c].run \in {"dead", "reaped"}
           \/ own[c] = "attach" /\ client = "main" /\ o = "options"
           \/ own[c] = "wait" /\ proc[c].run \in {"trap", "dead"} /\ o = "resume"
           \/ own[c] = "wait" /\ proc[c].run = "trap" /\ proc[c].at = "STOP" /\ o = "deliver"
    PROVE  IndInv'
<1>1. proc'[c] = proc[c] /\ own'[c] = o /\ own[c] \in OwnPlaces /\ proc[c] \in Process
  BY DEF IndInv, TypeOK, OwnPlaces
<1>2. ByInv(c) /\ RunInv(c) /\ PendInv(c) /\ TokenInv(c)
  BY DEF IndInv, ChildInv
<1>3. Concerns(c)
  BY <1>1, <1>2 DEF IndInv, TypeOK, OwnPlaces, ByInv, Concerns, Born
<1>4. ByInv(c)' /\ RunInv(c)'
  BY <1>1, <1>2 DEF OwnPlaces, ByInv, RunInv, Born
<1>5. PendInv(c)'
  BY <1>1, <1>2 DEF OwnPlaces, ByInv, PendInv, Born, Live
<1>6. TokenInv(c)'
  BY <1>1, <1>2 DEF TokenInv, Born, Stopping, Holds
<1> QED BY <1>3, <1>4, <1>5, <1>6, OneChild DEF ChildInv

\* PTRACE_ATTACH takes a child that nobody traces.
LEMMA AttachStep ==
    ASSUME IndInv, NEW c \in Children, own[c] = "attach", client = "local", AttachTo(c),
           Live(c), proc[c].by = "none"
    PROVE  IndInv'
<1> DEFINE run == IF proc[c].run = "stopped" THEN "trap"
                  ELSE proc[c].run
           p == [proc[c] EXCEPT !.by = "own",
                                !.pending = "STOP",
                                !.run = run,
                                !.at = "group"]
<1>1. /\ proc[c] \in Process /\ proc' = [proc EXCEPT ![c] = p]
      /\ own[c] = "attach" /\ client = "local" /\ Live(c) /\ proc[c].by = "none"
      /\ own \in [Children -> OwnPlaces] /\ own' = [own EXCEPT ![c] = "options"]
      /\ UNCHANGED <<client, sent, guest, tracer, ignore, waits, shown>>
  BY DEF IndInv, TypeOK, OwnPlaces, AttachTo
<1>2. /\ p \in Process
      /\ p.by = "own"
      /\ p.pending = "STOP"
      /\ p.run = run
      /\ p.at = "group"
      /\ p.creator = proc[c].creator /\ p.opts = proc[c].opts
      /\ p.dequeued = proc[c].dequeued /\ p.group = proc[c].group
      /\ p.notice = proc[c].notice
  BY <1>1 DEF Process
<1> HIDE DEF p
<1>3. proc'[c] = p /\ proc' \in [Children -> Process]
  BY <1>1, <1>2 DEF IndInv, TypeOK
<1>4. ByInv(c) /\ RunInv(c) /\ PendInv(c) /\ TokenInv(c)
  BY DEF IndInv, ChildInv
<1>5. Concerns(c)
  BY <1>1, <1>2, <1>3, <1>4 DEF IndInv, TypeOK, OwnPlaces, ByInv, RunInv, Concerns, Born, Live
<1>6. ByInv(c)'
  BY <1>1, <1>2, <1>3, <1>4 DEF ByInv, RunInv, Born, Live
<1>7. RunInv(c)'
  BY <1>1, <1>2, <1>3, <1>4 DEF ByInv, RunInv, Born, Live
<1>8. PendInv(c)'
  BY <1>1, <1>2, <1>3, <1>4 DEF ByInv, RunInv, PendInv, Born, Live, Process
<1>9. TokenInv(c)'
  BY <1>1, <1>2, <1>3, <1>4 DEF ByInv, RunInv, PendInv, TokenInv, Born, Live, Stopping, Holds
<1> QED BY <1>5, <1>6, <1>7, <1>8, <1>9, OneChild DEF ChildInv

\* The options are set at the first stop the tracer sees.
LEMMA OptionsStep ==
    ASSUME IndInv, NEW c \in Children, SetOptions(c), proc[c].run = "trap"
    PROVE  IndInv'
<1> DEFINE p == [proc[c] EXCEPT !.opts = TRUE]
<1>1. /\ proc[c] \in Process /\ proc' = [proc EXCEPT ![c] = p]
      /\ own[c] = "options" /\ proc[c].run = "trap"
      /\ own \in [Children -> OwnPlaces] /\ own' = [own EXCEPT ![c] = "resume"]
      /\ UNCHANGED <<client, sent, guest, tracer, ignore, waits, shown>>
  BY DEF IndInv, TypeOK, OwnPlaces, SetOptions
<1>2. /\ p \in Process
      /\ p.opts = TRUE
      /\ p.creator = proc[c].creator /\ p.by = proc[c].by /\ p.run = proc[c].run
      /\ p.at = proc[c].at /\ p.pending = proc[c].pending /\ p.dequeued = proc[c].dequeued
      /\ p.group = proc[c].group /\ p.notice = proc[c].notice
  BY <1>1 DEF Process
<1> HIDE DEF p
<1>3. proc'[c] = p /\ proc' \in [Children -> Process]
  BY <1>1, <1>2 DEF IndInv, TypeOK
<1>4. ByInv(c) /\ RunInv(c) /\ PendInv(c) /\ TokenInv(c)
  BY DEF IndInv, ChildInv
<1>5. Concerns(c)
  BY <1>1, <1>2, <1>3, <1>4 DEF IndInv, TypeOK, OwnPlaces, ByInv, RunInv, Concerns, Born, Live
<1>6. ByInv(c)'
  BY <1>1, <1>2, <1>3, <1>4 DEF ByInv, RunInv, Born, Live
<1>7. RunInv(c)'
  BY <1>1, <1>2, <1>3, <1>4 DEF ByInv, RunInv, Born, Live
<1>8. PendInv(c)'
  BY <1>1, <1>2, <1>3, <1>4 DEF ByInv, RunInv, PendInv, Born, Live
<1>9. TokenInv(c)'
  BY <1>1, <1>2, <1>3, <1>4 DEF ByInv, RunInv, PendInv, TokenInv, Born, Live, Stopping, Holds
<1> QED BY <1>5, <1>6, <1>7, <1>8, <1>9, OneChild DEF ChildInv

\* A stopped child is resumed, with or without the signal.
LEMMA ResumedStep ==
    ASSUME IndInv, NEW c \in Children, Resume(c), proc[c].run = "trap"
    PROVE  IndInv'
<1> DEFINE run == IF own[c] = "deliver" /\ proc[c].dequeued THEN "stopping"
                  ELSE "running"
           p == [proc[c] EXCEPT !.run = run]
<1>1. /\ proc[c] \in Process /\ proc' = [proc EXCEPT ![c] = p]
      /\ own[c] \in {"resume", "deliver"} /\ proc[c].run = "trap" /\ client \in {"local", "main"}
      /\ own \in [Children -> OwnPlaces] /\ own' = [own EXCEPT ![c] = "wait"]
      /\ UNCHANGED <<client, sent, guest, tracer, ignore, waits, shown>>
  BY DEF IndInv, TypeOK, OwnPlaces, Resume
<1>2. /\ p \in Process
      /\ p.run = run
      /\ p.creator = proc[c].creator /\ p.by = proc[c].by /\ p.at = proc[c].at
      /\ p.opts = proc[c].opts /\ p.pending = proc[c].pending
      /\ p.dequeued = proc[c].dequeued /\ p.group = proc[c].group
      /\ p.notice = proc[c].notice
  BY <1>1 DEF Process
<1> HIDE DEF p
<1>3. proc'[c] = p /\ proc' \in [Children -> Process]
  BY <1>1, <1>2 DEF IndInv, TypeOK
<1>4. ByInv(c) /\ RunInv(c) /\ PendInv(c) /\ TokenInv(c)
  BY DEF IndInv, ChildInv
<1>5. Concerns(c)
  BY <1>1, <1>2, <1>3, <1>4 DEF IndInv, TypeOK, OwnPlaces, ByInv, RunInv, Concerns, Born, Live
<1>6. ByInv(c)'
  BY <1>1, <1>2, <1>3, <1>4 DEF ByInv, RunInv, Born, Live
<1>7. RunInv(c)'
  BY <1>1, <1>2, <1>3, <1>4 DEF ByInv, RunInv, Born, Live
<1>8. PendInv(c)'
  BY <1>1, <1>2, <1>3, <1>4 DEF ByInv, RunInv, PendInv, Born, Live
<1>9. TokenInv(c)'
  BY <1>1, <1>2, <1>3, <1>4 DEF ByInv, RunInv, PendInv, TokenInv, Born, Live, Stopping, Holds
<1> QED BY <1>5, <1>6, <1>7, <1>8, <1>9, OneChild DEF ChildInv

\* Every step of the child's own tracer thread.
LEMMA OwnStepInv ==
    ASSUME IndInv, NEW c \in Children, OwnStep(c)
    PROVE  IndInv'
<1>0. ByInv(c) /\ proc[c] \in Process /\ client \in {"local", "main"}
  BY DEF IndInv, ChildInv, TypeOK
<1>1. CASE AttachTo(c)
  <2>1. CASE client = "main"
    BY <1>1, <2>1, OwnMoves DEF AttachTo, OwnPlaces
  <2>2. CASE client = "local" /\ Live(c) /\ proc[c].by = "none"
    BY <1>1, <2>2, AttachStep DEF AttachTo
  <2>3. CASE client = "local" /\ ~(Live(c) /\ proc[c].by = "none")
    <3>1. proc[c].run \in {"dead", "reaped"}
      BY <1>0, <1>1, <2>3 DEF AttachTo, ByInv, Born, Live
    <3> QED BY <1>1, <2>3, <3>1, OwnMoves DEF AttachTo, Fail, OwnPlaces
  <2> QED BY <1>0, <2>1, <2>2, <2>3
<1>2. CASE SetOptions(c)
  <2>1. CASE proc[c].run = "trap"
    BY <1>2, <2>1, OptionsStep
  <2>2. CASE proc[c].run # "trap"
    BY <1>2, <2>2, OwnMoves DEF SetOptions, Fail, OwnPlaces
  <2> QED BY <2>1, <2>2
<1>3. CASE Resume(c)
  <2>1. CASE proc[c].run = "trap"
    BY <1>3, <2>1, ResumedStep
  <2>2. CASE proc[c].run # "trap"
    <3>1. proc[c].run = "dead"
      BY <1>0, <1>3, <2>2 DEF Resume, ByInv
    <3> QED BY <1>3, <2>2, <3>1, OwnMoves DEF Resume, Fail, OwnPlaces
  <2> QED BY <2>1, <2>2
<1>4. CASE HandleStop(c)
  BY <1>4, OwnMoves DEF HandleStop, Signal, Live, OwnPlaces
<1> QED BY <1>1, <1>2, <1>3, <1>4 DEF OwnStep

-------------------------------------------------------------------------------
(* Steps of the parent and of its tracer threads.                            *)

\* A thread of the parent while another one makes a step: what happens to a child that the
\* other thread has to do with is none of its business.
LEMMA OtherThreads ==
    ASSUME IndInv, NEW t \in Threads, NEW c \in Children,
           \A u \in Threads \ {t} : guest'[u] = guest[u] /\ tracer'[u] = tracer[u],
           \A d \in Children \ {c} : proc'[d] = proc[d] /\ own'[d] = own[d],
           client' = client, sent' = sent,
           Born(c) => Born(c)' /\ proc'[c].creator = proc[c].creator,
           \/ proc'[c] = proc[c] /\ own'[c] = own[c]
           \/ ~Born(c)
           \/ proc[c].creator = t
           \/ own'[c] = own[c] /\ proc'[c].by = proc[c].by
              /\ (proc[c].run \in {"trap", "dead"} /\ proc[c].by = "creator"
                    => proc'[c].run \in {"trap", "dead"})
    PROVE  \A u \in Threads \ {t} : ThreadInv(u)'
<1> SUFFICES ASSUME NEW u \in Threads \ {t} PROVE ThreadInv(u)'
  OBVIOUS
<1>1. ThreadInv(u) /\ guest[u].child \in Children
  BY DEF IndInv, TypeOK
<1>2. client \in {"local", "main"} /\ tracer[u] \in {"loop", "event", "detach", "start", "failed"}
  BY DEF IndInv, TypeOK
<1>3. CASE guest[u].child # c
  BY <1>1, <1>3 DEF ThreadInv, Born
<1>4. CASE guest[u].child = c
  BY <1>1, <1>2, <1>4 DEF ThreadInv, Born
<1> QED BY <1>3, <1>4

\* Children are left alone, wait4 returns no stop, and no child is forgotten.
LEMMA OtherChildren ==
    ASSUME IndInv, NEW t \in Threads, NEW c \in Children,
           \A u \in Threads \ {t} : guest'[u] = guest[u] /\ ignore'[u] = ignore[u],
           \A d \in Children \ {c} : proc'[d] = proc[d] /\ own'[d] = own[d],
           client' = client, sent' = sent,
           \A d \in Children \ {c} : Holds(t, d)' => Holds(t, d),
           \A d \in Children \ {c} : d \in ignore[t] => d \in ignore'[t]
    PROVE  \A d \in Children \ {c} : ChildInv(d)'
<1> SUFFICES ASSUME NEW d \in Children \ {c} PROVE ChildInv(d)'
  OBVIOUS
<1>1. ChildInv(d) /\ proc[d].creator \in Threads
  BY DEF IndInv, TypeOK, Process
<1>2. Holds(proc[d].creator, d)' => Holds(proc[d].creator, d)
  BY <1>1 DEF Holds
<1>3. d \in ignore[proc[d].creator] => d \in ignore'[proc[d].creator]
  BY <1>1
<1> QED BY <1>1, <1>2, <1>3, ChildFrame

\* A function that is changed at one point.
LEMMA Except ==
    ASSUME NEW S, NEW T, NEW f \in [S -> T], NEW x \in S, NEW y \in T,
           NEW h, h = [f EXCEPT ![x] = y]
    PROVE  h[x] = y /\ h \in [S -> T] /\ \A z \in S \ {x} : h[z] = f[z]
OBVIOUS

\* What a thread of the parent may be doing.
GuestStates ==
    [doing : {"run", "clone", "wait4", "exit"}, child : Children, nohang : BOOLEAN,
     retval : {"none", "pid", "zero", "eintr"}, status : {"old", "stopped", "exited"}]

LEMMA GuestType ==
    ASSUME IndInv
    PROVE  guest \in [Threads -> GuestStates]
BY DEF IndInv, TypeOK, GuestStates

\* The guest makes a child; whatever its flags, it is traced.
LEMMA CloneStep ==
    ASSUME IndInv, NEW t \in Threads, NEW c \in Children, NEW flags \in SUBSET {"CLONE_UNTRACED"},
           Clone(t, c, flags)
    PROVE  IndInv'
<1> DEFINE p == [Unborn EXCEPT !.creator = t,
                               !.by = IF client = "local" THEN "creator" ELSE "main",
                               !.run = "running", !.opts = TRUE, !.pending = "STOP"]
<1>1. "CLONE_UNTRACED" \notin augment_sys_clone(flags)
  BY DEF augment_sys_clone
<1>2. /\ tracer[t] = "loop" /\ proc[c].run = "unborn" /\ proc' = [proc EXCEPT ![c] = p]
      /\ guest' = [guest EXCEPT ![t].doing = "clone", ![t].child = c]
      /\ tracer' = [tracer EXCEPT ![t] = "event"]
      /\ UNCHANGED <<client, sent, ignore, own, waits, shown>>
  BY <1>1 DEF Clone, Free
<1>3. /\ p \in Process /\ p.creator = t /\ p.run = "running" /\ p.opts /\ p.pending = "STOP"
      /\ p.by = (IF client = "local" THEN "creator" ELSE "main")
      /\ ~p.dequeued /\ ~p.group /\ ~p.notice
  BY DEF Process, Unborn
<1> HIDE DEF p
<1>4. /\ proc'[c] = p /\ proc' \in [Children -> Process]
      /\ \A d \in Children \ {c} : proc'[d] = proc[d] /\ own'[d] = own[d]
      /\ \A u \in Threads \ {t} : guest'[u] = guest[u] /\ tracer'[u] = tracer[u]
      /\ tracer'[t] = "event" /\ guest'[t].doing = "clone" /\ guest'[t].child = c
      /\ guest'[t].retval = guest[t].retval /\ guest'[t].status = guest[t].status
      /\ client \in {"local", "main"}
  BY <1>2, <1>3 DEF IndInv, TypeOK
<1>5. TypeOK'
  <2>1. [guest[t] EXCEPT !.doing = "clone", !.child = c] \in GuestStates
    BY GuestType, ZenonT(60) DEF GuestStates
  <2>2. guest' \in [Threads -> GuestStates]
    BY <1>2, <2>1, GuestType
  <2> QED BY <1>2, <1>4, <2>2 DEF IndInv, TypeOK, GuestStates
<1>6. ByInv(c) /\ ThreadInv(t)
  BY DEF IndInv, ChildInv
<1>7. \A u \in Threads \ {t} : ThreadInv(u)'
  BY <1>2, <1>4, OtherThreads DEF Born
<1>8. \A d \in Children \ {c} : ChildInv(d)'
  BY <1>2, <1>4, OtherChildren, ZenonT(60) DEF Holds
<1>9. ThreadInv(t)'
  BY <1>2, <1>3, <1>4, <1>6 DEF ThreadInv, ByInv, Born
<1>10. ByInv(c)' /\ RunInv(c)'
  BY <1>2, <1>3, <1>4, <1>6 DEF ByInv, RunInv, Born
<1>11. PendInv(c)' /\ TokenInv(c)'
  BY <1>2, <1>3, <1>4, <1>6 DEF ByInv, PendInv, TokenInv, Born, Live, Stopping, Holds
<1>12. ShownInv'
  BY <1>2, <1>4 DEF IndInv, ShownInv, Born
<1> QED BY <1>5, <1>7, <1>8, <1>9, <1>10, <1>11, <1>12 DEF IndInv, ChildInv

\* prep_attach_to has seen the first stop of the child.
LEMMA PrepWaitStep ==
    ASSUME IndInv, NEW t \in Threads, PrepWait(t)
    PROVE  IndInv'
<1> USE DEF PrepWait
<1>1. TypeOK'
  BY DEF IndInv, TypeOK
<1>2. \A u \in Threads : ThreadInv(u)'
  BY DEF IndInv, TypeOK, ThreadInv, Born
<1>3. \A c \in Children : ChildInv(c)'
  BY ChildFrame DEF IndInv, Holds
<1>4. ShownInv'
  BY DEF IndInv, ShownInv, Born
<1> QED BY <1>1, <1>2, <1>3, <1>4 DEF IndInv

\* prep_attach_to enters the child into the set and detaches it.
LEMMA PrepDetachStep ==
    ASSUME IndInv, NEW t \in Threads, PrepDetach(t)
    PROVE  IndInv'
<1>0. PICK c \in Children : c = guest[t].child
  BY DEF IndInv, TypeOK
<1>1. /\ tracer[t] = "detach" /\ ignore' = [ignore EXCEPT ![t] = @ \cup {c}]
      /\ UNCHANGED <<client, sent, guest, own, waits, shown>>
  BY <1>0 DEF PrepDetach
<1>2. /\ ThreadInv(t) /\ ByInv(c) /\ RunInv(c) /\ PendInv(c) /\ TokenInv(c)
      /\ proc[c] \in Process /\ client \in {"local", "main"}
  BY DEF IndInv, TypeOK, ChildInv
<1>3. /\ client = "local" /\ guest[t].doing = "clone" /\ Born(c) /\ proc[c].creator = t
      /\ own[c] = "none" /\ proc[c].by = "creator" /\ proc[c].run \in {"trap", "dead"}
  BY <1>0, <1>1, <1>2 DEF ThreadInv
<1>4. /\ c \in ignore'[t] /\ \A d \in Children : d \in ignore[t] => d \in ignore'[t]
      /\ \A u \in Threads \ {t} : ignore'[u] = ignore[u]
      /\ ignore' \in [Threads -> SUBSET Children]
  BY <1>1 DEF IndInv, TypeOK
<1>5. CASE proc[c].run = "trap"
  <2> DEFINE p == [proc[c] EXCEPT !.by = "none", !.opts = FALSE,
                                  !.run = IF proc[c].dequeued THEN "stopping" ELSE "running"]
  <2>1. proc' = [proc EXCEPT ![c] = p] /\ tracer' = [tracer EXCEPT ![t] = "start"]
    BY <1>0, <1>2, <1>5 DEF PrepDetach, IndInv, TypeOK
  <2>2. /\ p \in Process /\ p.by = "none"
        /\ p.run = (IF proc[c].dequeued THEN "stopping" ELSE "running")
        /\ p.creator = t /\ p.pending = proc[c].pending /\ p.dequeued = proc[c].dequeued
        /\ p.group = proc[c].group /\ p.notice = proc[c].notice
    BY <1>2, <1>3 DEF Process
  <2> HIDE DEF p
  <2>3. /\ proc'[c] = p /\ proc' \in [Children -> Process]
        /\ \A d \in Children \ {c} : proc'[d] = proc[d] /\ own'[d] = own[d]
        /\ tracer'[t] = "start" /\ \A u \in Threads \ {t} : tracer'[u] = tracer[u]
    BY <1>1, <2>1, <2>2 DEF IndInv, TypeOK
  <2>4. TypeOK'
    BY <1>1, <1>4, <2>1, <2>3 DEF IndInv, TypeOK
  <2>5. \A u \in Threads \ {t} : ThreadInv(u)'
    BY <1>1, <1>3, <2>2, <2>3, OtherThreads DEF Born
  <2>6. \A d \in Children \ {c} : ChildInv(d)'
    BY <1>1, <1>4, <2>3, OtherChildren DEF Holds
  <2>7. ThreadInv(t)'
    BY <1>0, <1>1, <1>2, <1>3, <2>2, <2>3 DEF ThreadInv, Born
  <2>8. ByInv(c)' /\ RunInv(c)'
    BY <1>1, <1>2, <1>3, <1>5, <2>2, <2>3 DEF ByInv, RunInv, Born
  <2>9. PendInv(c)' /\ TokenInv(c)'
    BY <1>1, <1>2, <1>3, <1>4, <1>5, <2>2, <2>3
    DEF ByInv, RunInv, PendInv, TokenInv, Born, Live, Stopping, Holds
  <2>10. ShownInv'
    BY <1>1, <1>3, <2>2, <2>3 DEF IndInv, ShownInv, Born
  <2> QED BY <2>4, <2>5, <2>6, <2>7, <2>8, <2>9, <2>10 DEF IndInv, ChildInv
<1>6. CASE proc[c].run # "trap"
  <2>1. /\ UNCHANGED proc /\ tracer' = [tracer EXCEPT ![t] = "failed"]
        /\ "KILL" \in sent[c]
    BY <1>0, <1>2, <1>3, <1>6 DEF PrepDetach, RunInv
  <2>2. TypeOK'
    BY <1>1, <1>4, <2>1 DEF IndInv, TypeOK
  <2>3. \A u \in Threads : ThreadInv(u)'
    BY <1>0, <1>1, <2>1 DEF IndInv, TypeOK, ThreadInv, Born
  <2>4. \A d \in Children : ChildInv(d)'
    <3> SUFFICES ASSUME NEW d \in Children PROVE ChildInv(d)'
      OBVIOUS
    <3>1. ChildInv(d) /\ proc[d].creator \in Threads
      BY DEF IndInv, TypeOK, Process
    <3>2. Holds(proc[d].creator, d)' => Holds(proc[d].creator, d)
      BY <1>1, <2>1 DEF Holds
    <3>3. d \in ignore[proc[d].creator] => d \in ignore'[proc[d].creator]
      BY <1>4, <3>1
    <3> QED BY <1>1, <2>1, <3>1, <3>2, <3>3, ChildFrame
  <2>5. ShownInv'
    BY <1>1, <2>1 DEF IndInv, ShownInv, Born
  <2> QED BY <2>2, <2>3, <2>4, <2>5 DEF IndInv
<1> QED BY <1>5, <1>6

\* The child gets its own tracer thread.
LEMMA StartHandlerStep ==
    ASSUME IndInv, NEW t \in Threads, StartHandler(t)
    PROVE  IndInv'
<1>0. PICK c \in Children : c = guest[t].child
  BY DEF IndInv, TypeOK
<1>1. /\ tracer[t] = (IF client = "local" THEN "start" ELSE "event")
      /\ own' = [own EXCEPT ![c] = "attach"]
      /\ tracer' = [tracer EXCEPT ![t] = "loop"]
      /\ guest' = [guest EXCEPT ![t].doing = "run"]
      /\ UNCHANGED <<client, proc, sent, ignore, waits, shown>>
  BY <1>0 DEF StartHandler
<1>2. /\ ThreadInv(t) /\ ByInv(c) /\ RunInv(c) /\ PendInv(c) /\ TokenInv(c)
      /\ proc[c] \in Process /\ client \in {"local", "main"}
  BY DEF IndInv, TypeOK, ChildInv
<1>3. /\ guest[t].doing = "clone" /\ Born(c) /\ proc[c].creator = t /\ own[c] = "none"
      /\ client = "local" => proc[c].by = "none"
  BY <1>0, <1>1, <1>2 DEF ThreadInv
<1>4. /\ own'[c] = "attach"
      /\ \A d \in Children \ {c} : proc'[d] = proc[d] /\ own'[d] = own[d]
      /\ \A u \in Threads \ {t} : guest'[u] = guest[u] /\ tracer'[u] = tracer[u]
      /\ tracer'[t] = "loop" /\ guest'[t].doing = "run" /\ guest'[t].child = c
      /\ guest'[t].retval = guest[t].retval /\ guest'[t].status = guest[t].status
  BY <1>0, <1>1 DEF IndInv, TypeOK
<1>5. TypeOK'
  <2>1. [guest[t] EXCEPT !.doing = "run"] \in GuestStates
    BY GuestType DEF GuestStates
  <2>2. guest' \in [Threads -> GuestStates]
    BY <1>1, <2>1, GuestType
  <2> QED BY <1>1, <2>2 DEF IndInv, TypeOK, GuestStates
<1>6. \A u \in Threads \ {t} : ThreadInv(u)'
  BY <1>1, <1>3, <1>4, OtherThreads DEF Born
<1>7. \A d \in Children \ {c} : ChildInv(d)'
  BY <1>1, <1>4, OtherChildren DEF Holds
<1>8. ThreadInv(t)'
  BY <1>1, <1>2, <1>4 DEF ThreadInv
<1>9. ByInv(c)' /\ RunInv(c)'
  BY <1>1, <1>2, <1>3, <1>4 DEF ByInv, RunInv, Born
<1>10. PendInv(c)' /\ TokenInv(c)'
  BY <1>1, <1>2, <1>3, <1>4 DEF ByInv, PendInv, TokenInv, Born, Live, Stopping, Holds
<1>11. ShownInv'
  BY <1>1 DEF IndInv, ShownInv, Born
<1> QED BY <1>5, <1>6, <1>7, <1>8, <1>9, <1>10, <1>11 DEF IndInv, ChildInv

\* wait4 begins, or its entry kills the parent.
LEMMA WaitEntryStep ==
    ASSUME IndInv, NEW t \in Threads, NEW nohang \in BOOLEAN, NEW null \in BOOLEAN,
           WaitEntry(t, nohang, null)
    PROVE  IndInv'
<1> DEFINE g == [Idle EXCEPT !.doing = "wait4", !.nohang = nohang]
<1>1. /\ g \in GuestStates /\ g.doing = "wait4" /\ g.status = "old" /\ g.retval = "none"
  BY DEF Idle, GuestStates
<1> HIDE DEF g
<1>2. /\ tracer[t] = "loop" /\ guest[t].doing = "run"
      /\ waits' = [waits EXCEPT ![t] = @ + 1] /\ waits[t] < MaxWaits
      /\ UNCHANGED <<client, proc, sent, ignore, own, shown>>
      /\ \/ tracer' = [tracer EXCEPT ![t] = "failed"] /\ UNCHANGED guest
         \/ guest' = [guest EXCEPT ![t] = g] /\ UNCHANGED tracer
  BY DEF WaitEntry, Free, g
<1>3. waits' \in [Threads -> 0..MaxWaits]
  BY <1>2 DEF IndInv, TypeOK
<1>4. guest' \in [Threads -> GuestStates]
  BY <1>1, <1>2, GuestType
<1>5. TypeOK'
  BY <1>2, <1>3, <1>4 DEF IndInv, TypeOK, GuestStates
<1>6. ASSUME NEW u \in Threads PROVE ThreadInv(u)'
  <2>1. /\ ThreadInv(u) /\ guest \in [Threads -> GuestStates]
        /\ tracer \in [Threads -> {"loop", "event", "detach", "start", "failed"}]
    BY GuestType DEF IndInv, TypeOK
  <2> QED BY <1>1, <1>2, <2>1 DEF ThreadInv, Born
<1>7. ASSUME NEW d \in Children PROVE ChildInv(d)'
  <2>1. ChildInv(d) /\ proc[d].creator \in Threads /\ guest \in [Threads -> GuestStates]
    BY GuestType DEF IndInv, TypeOK, Process
  <2>2. Holds(proc[d].creator, d)' => Holds(proc[d].creator, d)
    BY <1>1, <1>2, <2>1 DEF Holds
  <2> QED BY <1>2, <2>1, <2>2, ChildFrame
<1>8. ShownInv'
  BY <1>2 DEF IndInv, ShownInv, Born
<1> QED BY <1>5, <1>6, <1>7, <1>8 DEF IndInv

\* The two ways WaitExit reports something.
ReportsStop(t, c) ==
    /\ guest[t].doing = "wait4" /\ proc[c].notice
    /\ proc' = [proc EXCEPT ![c].notice = FALSE]
    /\ guest' = [guest EXCEPT ![t].doing = "exit", ![t].child = c,
                              ![t].retval = "pid", ![t].status = "stopped"]
    /\ UNCHANGED <<client, sent, tracer, ignore, own, waits, shown>>

\* wait4 returns a stop: it is reported once.
LEMMA WaitStopStep ==
    ASSUME IndInv, NEW t \in Threads, NEW c \in Children, ReportsStop(t, c)
    PROVE  IndInv'
<1> DEFINE p == [proc[c] EXCEPT !.notice = FALSE]
           g == [guest[t] EXCEPT !.doing = "exit", !.child = c, !.retval = "pid", !.status = "stopped"]
<1>1. /\ ThreadInv(t) /\ ByInv(c) /\ RunInv(c) /\ PendInv(c) /\ TokenInv(c)
      /\ proc[c] \in Process /\ guest[t] \in GuestStates
      /\ tracer[t] \in {"loop", "event", "detach", "start", "failed"}
      /\ guest[t].doing = "wait4" /\ proc[c].notice
      /\ UNCHANGED <<client, sent, tracer, ignore, own, waits, shown>>
  BY GuestType DEF IndInv, TypeOK, ChildInv, ReportsStop
<1>2. /\ p \in Process /\ p.creator = proc[c].creator /\ p.by = proc[c].by /\ p.run = proc[c].run
      /\ p.at = proc[c].at /\ p.opts = proc[c].opts /\ p.pending = proc[c].pending
      /\ p.dequeued = proc[c].dequeued /\ p.group = proc[c].group /\ ~p.notice
  BY <1>1 DEF Process
<1>3. /\ g \in GuestStates /\ g.doing = "exit" /\ g.child = c
      /\ g.retval = "pid" /\ g.status = "stopped"
  BY <1>1 DEF GuestStates
<1>4. proc' = [proc EXCEPT ![c] = p] /\ guest' = [guest EXCEPT ![t] = g]
  BY GuestType DEF IndInv, TypeOK, ReportsStop
<1> HIDE DEF p, g
<1>5. /\ proc'[c] = p /\ proc' \in [Children -> Process]
      /\ \A d \in Children \ {c} : proc'[d] = proc[d] /\ own'[d] = own[d]
      /\ guest'[t] = g /\ guest' \in [Threads -> GuestStates]
      /\ \A u \in Threads \ {t} : guest'[u] = guest[u] /\ tracer'[u] = tracer[u]
      /\ tracer'[t] = tracer[t]
  <2>1. proc \in [Children -> Process]
    BY DEF IndInv, TypeOK
  <2>2. proc'[c] = p /\ proc' \in [Children -> Process]
        /\ \A d \in Children \ {c} : proc'[d] = proc[d]
    BY <1>2, <1>4, <2>1, Except, Zenon
  <2>3. guest'[t] = g /\ guest' \in [Threads -> GuestStates]
        /\ \A u \in Threads \ {t} : guest'[u] = guest[u]
    BY <1>3, <1>4, GuestType, Except, Zenon
  <2> QED BY <1>1, <2>2, <2>3
<1>6. TypeOK'
  BY <1>1, <1>5 DEF IndInv, TypeOK, GuestStates
<1>7. \A u \in Threads \ {t} : ThreadInv(u)'
  BY <1>1, <1>2, <1>5, OtherThreads DEF Born
<1>8. \A d \in Children \ {c} : ChildInv(d)'
  BY <1>1, <1>3, <1>5, OtherChildren DEF Holds
<1>9. ThreadInv(t)'
  BY <1>1, <1>2, <1>3, <1>5 DEF ThreadInv, ByInv, Born
<1>10. ByInv(c)' /\ RunInv(c)'
  BY <1>1, <1>2, <1>5 DEF ByInv, RunInv, Born
<1>11. PendInv(c)'
  BY <1>1, <1>2, <1>5 DEF PendInv, Live
<1>12. TokenInv(c)'
  <2>1. proc[c].creator \in Threads /\ Born(c) /\ ~Stopping(c) /\ proc[c].by # "creator"
    BY <1>1 DEF Process, ByInv, RunInv, Stopping
  <2>2. /\ ~Stopping(c)' /\ ~proc'[c].notice /\ proc'[c].by # "creator"
        /\ proc'[c].creator = proc[c].creator
    BY <1>2, <1>5, <2>1 DEF Stopping
  <2>3. "STOP" \notin sent[c] => c \in ignore[proc[c].creator]
    BY <1>1, <2>1 DEF TokenInv
  <2> QED BY <1>1, <2>2, <2>3 DEF TokenInv
<1>13. ShownInv'
  BY <1>1, <1>2, <1>5 DEF IndInv, ShownInv, Born
<1> QED BY <1>6, <1>7, <1>8, <1>9, <1>10, <1>11, <1>12, <1>13 DEF IndInv, ChildInv

ReportsDeath(t, c) ==
    /\ guest[t].doing = "wait4" /\ Reapable(c)
    /\ proc' = [proc EXCEPT ![c].run = "reaped"]
    /\ guest' = [guest EXCEPT ![t].doing = "exit", ![t].child = c,
                              ![t].retval = "pid", ![t].status = "exited"]
    /\ UNCHANGED <<client, sent, tracer, ignore, own, waits, shown>>

\* wait4 returns the death of a child.
LEMMA WaitDeathStep ==
    ASSUME IndInv, NEW t \in Threads, NEW c \in Children, ReportsDeath(t, c)
    PROVE  IndInv'
<1> DEFINE p == [proc[c] EXCEPT !.run = "reaped"]
           g == [guest[t] EXCEPT !.doing = "exit", !.child = c, !.retval = "pid", !.status = "exited"]
<1>1. /\ ThreadInv(t) /\ ByInv(c) /\ RunInv(c) /\ PendInv(c) /\ TokenInv(c)
      /\ proc[c] \in Process /\ guest[t] \in GuestStates /\ client \in {"local", "main"}
      /\ tracer[t] \in {"loop", "event", "detach", "start", "failed"}
      /\ guest[t].doing = "wait4" /\ Reapable(c)
      /\ UNCHANGED <<client, sent, tracer, ignore, own, waits, shown>>
  BY GuestType DEF IndInv, TypeOK, ChildInv, ReportsDeath
<1>2. /\ p \in Process /\ p.creator = proc[c].creator /\ p.by = proc[c].by /\ p.run = "reaped"
      /\ p.at = proc[c].at /\ p.opts = proc[c].opts /\ p.pending = proc[c].pending
      /\ p.dequeued = proc[c].dequeued /\ p.group = proc[c].group /\ p.notice = proc[c].notice
  BY <1>1 DEF Process
<1>3. /\ g \in GuestStates /\ g.doing = "exit" /\ g.child = c
      /\ g.retval = "pid" /\ g.status = "exited"
  BY <1>1 DEF GuestStates
<1>4. proc' = [proc EXCEPT ![c] = p] /\ guest' = [guest EXCEPT ![t] = g]
  BY GuestType DEF IndInv, TypeOK, ReportsDeath
<1> HIDE DEF p, g
<1>5. /\ proc'[c] = p /\ proc' \in [Children -> Process]
      /\ \A d \in Children \ {c} : proc'[d] = proc[d] /\ own'[d] = own[d]
      /\ guest'[t] = g /\ guest' \in [Threads -> GuestStates]
      /\ \A u \in Threads \ {t} : guest'[u] = guest[u] /\ tracer'[u] = tracer[u]
      /\ tracer'[t] = tracer[t]
  <2>1. proc \in [Children -> Process]
    BY DEF IndInv, TypeOK
  <2>2. proc'[c] = p /\ proc' \in [Children -> Process]
        /\ \A d \in Children \ {c} : proc'[d] = proc[d]
    BY <1>2, <1>4, <2>1, Except, Zenon
  <2>3. guest'[t] = g /\ guest' \in [Threads -> GuestStates]
        /\ \A u \in Threads \ {t} : guest'[u] = guest[u]
    BY <1>3, <1>4, GuestType, Except, Zenon
  <2> QED BY <1>1, <2>2, <2>3
<1>6. TypeOK'
  BY <1>1, <1>5 DEF IndInv, TypeOK, GuestStates
<1>7. Born(c) /\ proc[c].by # "creator" /\ proc[c].run = "dead"
  BY <1>1 DEF Reapable, ByInv, Born
<1>8. \A u \in Threads \ {t} : ThreadInv(u)'
  BY <1>1, <1>2, <1>5, <1>7, OtherThreads DEF Born
<1>9. \A d \in Children \ {c} : ChildInv(d)'
  BY <1>1, <1>3, <1>5, OtherChildren DEF Holds
<1>10. ThreadInv(t)'
  BY <1>1, <1>2, <1>3, <1>5 DEF ThreadInv
<1>11. ByInv(c)' /\ RunInv(c)'
  BY <1>1, <1>2, <1>5, <1>7 DEF ByInv, RunInv, Born, Reapable
<1>12. PendInv(c)'
  BY <1>1, <1>2, <1>5 DEF PendInv, Live
<1>13. TokenInv(c)'
  <2>1. Holds(proc[c].creator, c)' => Holds(proc[c].creator, c)
    BY <1>1, <1>2, <1>3, <1>5 DEF Holds, Process
  <2>2. ~Stopping(c)' /\ Born(c)' /\ proc'[c].notice = proc[c].notice
        /\ proc'[c].creator = proc[c].creator /\ proc'[c].by = proc[c].by
    BY <1>1, <1>2, <1>5 DEF Stopping, Born
  <2> QED BY <1>1, <1>2, <1>3, <1>5, <1>7, <2>1, <2>2 DEF TokenInv, Holds, Process
<1>14. ShownInv'
  BY <1>1, <1>2, <1>5, <1>7 DEF IndInv, ShownInv, Born
<1> QED BY <1>6, <1>8, <1>9, <1>10, <1>11, <1>12, <1>13, <1>14 DEF IndInv, ChildInv

\* wait4 returns at once.
LEMMA WaitNothingStep ==
    ASSUME IndInv, NEW t \in Threads, guest[t].doing = "wait4",
           guest' = [guest EXCEPT ![t].doing = "exit", ![t].retval = "zero"],
           UNCHANGED <<client, proc, sent, tracer, ignore, own, waits, shown>>
    PROVE  IndInv'
<1> DEFINE g == [guest[t] EXCEPT !.doing = "exit", !.retval = "zero"]
<1>1. ThreadInv(t) /\ guest[t] \in GuestStates /\ guest[t].status = "old"
  BY GuestType DEF IndInv, ThreadInv
<1>2. /\ g \in GuestStates /\ g.doing = "exit" /\ g.retval = "zero" /\ g.status = "old"
      /\ g.child = guest[t].child
  BY <1>1 DEF GuestStates
<1>3. guest' = [guest EXCEPT ![t] = g]
  BY GuestType
<1> HIDE DEF g
<1>4. /\ guest'[t] = g /\ guest' \in [Threads -> GuestStates]
      /\ \A u \in Threads \ {t} : guest'[u] = guest[u]
  BY <1>2, <1>3, GuestType
<1>5. TypeOK'
  BY <1>4 DEF IndInv, TypeOK, GuestStates
<1>6. ASSUME NEW u \in Threads PROVE ThreadInv(u)'
  <2>1. CASE u = t
    BY <1>1, <1>2, <1>4, <2>1 DEF ThreadInv
  <2>2. CASE u # t
    BY <1>4, <2>2 DEF IndInv, ThreadInv, Born
  <2> QED BY <2>1, <2>2
<1>7. ASSUME NEW d \in Children PROVE ChildInv(d)'
  <2>1. ChildInv(d) /\ proc[d].creator \in Threads
    BY DEF IndInv, TypeOK, Process
  <2>2. Holds(proc[d].creator, d)' => Holds(proc[d].creator, d)
    BY <1>2, <1>4, <2>1 DEF Holds
  <2> QED BY <2>1, <2>2, ChildFrame
<1>8. ShownInv'
  BY DEF IndInv, ShownInv, Born
<1> QED BY <1>5, <1>6, <1>7, <1>8 DEF IndInv

\* The tracer's part after wait4: what it hides, and what it shows.
LEMMA AfterWaitStep ==
    ASSUME IndInv, NEW t \in Threads, AfterWait(t)
    PROVE  IndInv'
<1>0. PICK c \in Children : c = guest[t].child
  BY DEF IndInv, TypeOK
<1> DEFINE hide == c \in ignore[t] /\ guest[t].status = "stopped"
           g == IF guest[t].retval = "pid" /\ hide THEN Override(t)
                ELSE [guest[t] EXCEPT !.doing = "run"]
<1>1. /\ ThreadInv(t) /\ TokenInv(c) /\ proc[c] \in Process /\ guest[t] \in GuestStates
      /\ guest[t].doing = "exit" /\ tracer[t] \in {"loop", "event", "detach", "start", "failed"}
      /\ UNCHANGED <<client, proc, sent, tracer, own, waits>>
  BY GuestType DEF IndInv, TypeOK, ChildInv, AfterWait
<1>2. /\ g \in GuestStates /\ g.doing = "run" /\ g.child = c
      /\ g.retval \in {"eintr", "zero"} => g.status = "old"
  BY <1>0, <1>1 DEF GuestStates, Override, ThreadInv
<1>3. guest' = [guest EXCEPT ![t] = g]
  BY <1>0, <1>1, GuestType DEF AfterWait
<1>4. /\ guest'[t] = g /\ guest' \in [Threads -> GuestStates]
      /\ \A u \in Threads \ {t} : guest'[u] = guest[u] /\ tracer'[u] = tracer[u]
  <2> HIDE DEF g
  <2> QED BY <1>1, <1>2, <1>3, GuestType
<1> HIDE DEF g
<1>5. \A u \in Threads \ {t} : ThreadInv(u)'
  BY <1>1, <1>4 DEF IndInv, ThreadInv, Born
<1>6. ThreadInv(t)'
  BY <1>1, <1>2, <1>4 DEF ThreadInv
<1>7. \A d \in Children : ~Holds(t, d)'
  BY <1>2, <1>4 DEF Holds
<1>8. CASE guest[t].retval = "pid" /\ hide
  <2>1. ignore' = [ignore EXCEPT ![t] = @ \ {c}] /\ shown' = shown
    BY <1>0, <1>8 DEF AfterWait
  <2>2. TypeOK'
    BY <1>1, <1>4, <2>1 DEF IndInv, TypeOK, GuestStates
  <2>3. \A d \in Children \ {c} : d \in ignore[t] => d \in ignore'[t]
    BY <2>1 DEF IndInv, TypeOK
  <2>4. \A u \in Threads \ {t} : ignore'[u] = ignore[u]
    BY <2>1 DEF IndInv, TypeOK
  <2>5. \A d \in Children \ {c} : ChildInv(d)'
    BY <1>1, <1>4, <1>7, <2>3, <2>4, OtherChildren
  <2>6. ChildInv(c)'
    <3>1. CASE proc[c].creator = t
      <4>1. Holds(t, c) /\ Born(c)
        BY <1>0, <1>1, <1>8 DEF Holds, ThreadInv
      <4>2. "STOP" \notin sent[c] => ~Stopping(c) /\ ~proc[c].notice
        BY <1>1, <3>1, <4>1 DEF TokenInv
      <4>3. TokenInv(c)'
        BY <1>1, <1>7, <3>1, <4>2 DEF TokenInv, Stopping, Born
      <4>4. ByInv(c)' /\ RunInv(c)' /\ PendInv(c)'
        BY <1>1 DEF IndInv, ChildInv, ByInv, RunInv, PendInv, Born, Live
      <4> QED BY <4>3, <4>4 DEF ChildInv
    <3>2. CASE proc[c].creator # t
      <4>1. /\ Holds(proc[c].creator, c)' => Holds(proc[c].creator, c)
            /\ c \in ignore[proc[c].creator] => c \in ignore'[proc[c].creator]
        BY <1>1, <1>4, <2>4, <3>2 DEF Holds, Process
      <4> QED BY <1>1, <4>1, ChildFrame DEF IndInv
    <3> QED BY <3>1, <3>2
  <2>7. ShownInv'
    BY <1>1, <2>1 DEF IndInv, ShownInv, Born
  <2> QED BY <1>5, <1>6, <2>2, <2>5, <2>6, <2>7 DEF IndInv
<1>9. CASE ~(guest[t].retval = "pid" /\ hide)
  <2>1. /\ ignore' = ignore
        /\ shown' = IF guest[t].status = "stopped" THEN shown \cup {<<t, c>>} ELSE shown
    BY <1>0, <1>9 DEF AfterWait
  <2>2. TypeOK'
    BY <1>1, <1>4, <2>1 DEF IndInv, TypeOK, GuestStates
  <2>3. ASSUME NEW d \in Children PROVE ChildInv(d)'
    <3>1. ChildInv(d) /\ proc[d].creator \in Threads
      BY DEF IndInv, TypeOK, Process
    <3>2. Holds(proc[d].creator, d)' => Holds(proc[d].creator, d)
      BY <1>1, <1>4, <1>7, <3>1 DEF Holds
    <3> QED BY <1>1, <2>1, <3>1, <3>2, ChildFrame
  <2>4. guest[t].status = "stopped" => Born(c) /\ (t = proc[c].creator => "STOP" \in sent[c])
    BY <1>0, <1>1, <1>9 DEF ThreadInv, TokenInv, Holds
  <2>5. ShownInv'
    <3> SUFFICES ASSUME NEW u \in Threads, NEW d \in Children, <<u, d>> \in shown'
                 PROVE  Born(d) /\ (u = proc[d].creator => "STOP" \in sent[d])
      BY <1>1 DEF ShownInv, Born
    <3>1. CASE <<u, d>> \in shown
      BY <3>1 DEF IndInv, ShownInv
    <3>2. CASE <<u, d>> \notin shown
      BY <2>1, <2>4, <3>2
    <3> QED BY <3>1, <3>2
  <2> QED BY <1>5, <1>6, <2>2, <2>3, <2>5 DEF IndInv
<1> QED BY <1>8, <1>9

-------------------------------------------------------------------------------

\* No child exists yet.
LEMMA InitInv == Init => IndInv
<1> SUFFICES ASSUME Init PROVE IndInv
  OBVIOUS
<1> USE DEF Init
<1>1. /\ Unborn \in Process /\ Unborn.run = "unborn" /\ Unborn.by = "none" /\ ~Unborn.notice
  BY DEF Unborn, Process
<1>2. Idle \in GuestStates /\ Idle.doing = "run" /\ Idle.retval = "none"
  BY DEF Idle, GuestStates
<1>3. TypeOK
  BY <1>1, <1>2 DEF TypeOK, GuestStates
<1>4. \A t \in Threads : ThreadInv(t)
  BY <1>2 DEF ThreadInv
<1>5. \A c \in Children : ByInv(c) /\ RunInv(c)
  BY <1>1 DEF ByInv, RunInv, Born
<1>6. \A c \in Children : PendInv(c) /\ TokenInv(c)
  BY <1>1 DEF PendInv, TokenInv, Born, Live
<1>7. ShownInv
  BY DEF ShownInv
<1> QED BY <1>3, <1>4, <1>5, <1>6, <1>7 DEF IndInv, ChildInv

\* The invariant holds of every state.
THEOREM Invariance == Spec => []IndInv
<1>1. IndInv /\ [Next]_vars => IndInv'
  <2> SUFFICES ASSUME IndInv, [Next]_vars PROVE IndInv'
    OBVIOUS
  <2>1. ASSUME NEW t \in Threads, NEW c \in Children, NEW flags \in SUBSET {"CLONE_UNTRACED"},
               Clone(t, c, flags)
        PROVE  IndInv'
    BY <2>1, CloneStep
  <2>2. ASSUME NEW t \in Threads, NEW nohang \in BOOLEAN, NEW null \in BOOLEAN,
               WaitEntry(t, nohang, null)
        PROVE  IndInv'
    BY <2>2, WaitEntryStep
  <2>3. ASSUME NEW t \in Threads, WaitExit(t) PROVE IndInv'
    BY <2>3, WaitStopStep, WaitDeathStep, WaitNothingStep DEF WaitExit, ReportsStop, ReportsDeath
  <2>4. ASSUME NEW t \in Threads, AfterWait(t) PROVE IndInv'
    BY <2>4, AfterWaitStep
  <2>5. ASSUME NEW t \in Threads, TracerStep(t) PROVE IndInv'
    BY <2>5, PrepWaitStep, PrepDetachStep, StartHandlerStep DEF TracerStep
  <2>6. ASSUME NEW c \in Children, KernelStep(c) PROVE IndInv'
    BY <2>6, DequeueStep, GroupStopStep DEF KernelStep
  <2>7. ASSUME NEW c \in Children, OwnStep(c) PROVE IndInv'
    BY <2>7, OwnStepInv
  <2>8. ASSUME NEW c \in Children, Stop(c) \/ Continue(c) \/ Kill(c) PROVE IndInv'
    BY <2>8, StopStep, ContinueStep, KillStep
  <2>9. CASE UNCHANGED vars
    <3> USE <2>9 DEF vars
    <3>1. TypeOK' /\ ShownInv'
      BY DEF IndInv, TypeOK, ShownInv, Born
    <3>2. \A t \in Threads : ThreadInv(t)'
      BY DEF IndInv, ThreadInv, Born
    <3>3. \A c \in Children : ChildInv(c)'
      BY ChildFrame DEF IndInv, Holds
    <3> QED BY <3>1, <3>2, <3>3 DEF IndInv
  <2> QED BY <2>1, <2>2, <2>3, <2>4, <2>5, <2>6, <2>7, <2>8, <2>9 DEF Next
<1> QED BY InitInv, <1>1, PTL DEF Spec

\* Every variable has its type.
THEOREM TypeCorrect == Spec => []TypeOK
<1>1. IndInv => TypeOK
  BY DEF IndInv
<1> QED BY Invariance, <1>1, PTL

\* aug_waitpid.rs hides the SIGSTOP of the transfer from wait4 of the thread that made the
\* child, however clone, signals and the wait4 calls of all threads interleave.
THEOREM TransferHidden == Spec => []ParentNeverSees
<1>1. IndInv => ParentNeverSees
  <2> SUFFICES ASSUME IndInv PROVE ParentNeverSees
    OBVIOUS
  <2>1. \A c \in Children : <<proc[c].creator, c>> \in shown => "STOP" \in sent[c]
    BY DEF IndInv, TypeOK, Process, ShownInv
  <2>2. \A t \in Threads :
          guest[t].doing = "run" /\ guest[t].retval \in {"eintr", "zero"} => guest[t].status = "old"
    BY DEF IndInv, ThreadInv
  <2> QED BY <2>1, <2>2 DEF ParentNeverSees
<1> QED BY Invariance, <1>1, PTL

\* prep_attach_to, attach_to and set_ptrace_options: a child is never let run without a
\* tracer and its options before somebody sends SIGCONT.
THEOREM AlwaysTraced == Spec => []NoUntracedRun
<1>1. IndInv => NoUntracedRun
  BY DEF IndInv, ChildInv, RunInv, NoUntracedRun
<1> QED BY Invariance, <1>1, PTL

\* No ptrace request of the transfer is refused unless the child was killed.
THEOREM RequestsSucceed == Spec => []FailsOnlyIfKilled
<1>1. IndInv => FailsOnlyIfKilled
  BY DEF IndInv, ChildInv, ByInv, ThreadInv, FailsOnlyIfKilled
<1> QED BY Invariance, <1>1, PTL
===============================================================================
