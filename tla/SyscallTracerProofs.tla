-------------------------- MODULE SyscallTracerProofs -------------------------
(***************************************************************************)
(* Proofs about SyscallTracer, for every machine and command line, any     *)
(* number of signals and any depth of signal handlers.                     *)
(***************************************************************************)
EXTENDS SyscallTracer, SequenceTheorems, TLAPS

-------------------------------------------------------------------------------
(* The inductive invariant.                                                  *)

Entries == {"entry", "ins_entry"}
Exits   == {"exit", "ins_exit"}

\* The numbers a program can ask for.
Asks == Program \cup {"sigreturn"}

\* After these stops nothing but the end of the tracer follows.
Alive == stop \notin {"exitevent", "dead"}

\* On every machine: what the coroutine has to insert, and what handlers interrupted.
BaseInv ==
    /\ TypeOK
    /\ again \in {<<>>} \cup (Kinds \X Kinds \X BOOLEAN)
    /\ frames \in Seq({<<>>} \cup (Kinds \X Kinds \X BOOLEAN))
    /\ stop \in {"SIGX", "SIGSEGV"} /\ handler => Len(frames) < MaxNest
    /\ stop = "seccomp" => at = Following("seccomp")
    /\ co.pc \in {"ins_entry", "ins_exit"} <=> co.todo # <<>>
    /\ co.pc = "ins_exit" => co.orig_syscall_num # ""
    /\ ~co.resume_through_syscall => co.tracee_seccomp_init_complete
    /\ co.tracee_seccomp_init_complete => ~conf.no_seccomp
    /\ mode = How(co)

Installs(plan) == plan \notin {<<>>, <<"mmap">>}

\* From a filter that is to be installed to one that is, and to the use of its stops.
FilterInv ==
    /\ co.tracee_seccomp_init_complete => filter
    /\ filter => ~conf.no_seccomp
    /\ ~conf.root /\ ~conf.no_seccomp => filter
    /\ Installs(co.todo) => conf.root /\ ~conf.no_seccomp
    /\ co.is_first_loop_after_init /\ ~conf.no_seccomp => filter \/ Installs(co.todo)
    /\ co.pc = "ins_exit" /\ co.todo = <<"seccomp">> /\ at \in {"exit", "user"} => failed \/ filter

\* The number in the register is one the program asked for, or the inserted one.
NumberInv ==
    /\ asked \in Asks
    /\ again \in {<<>>} \cup (Asks \X Asks \X BOOLEAN)
    /\ frames \in Seq({<<>>} \cup (Asks \X Asks \X BOOLEAN))
    /\ co.orig_syscall_num \in Asks \cup {""}
    /\ IF co.pc = "ins_exit" THEN cur = Head(co.todo) ELSE cur \in Asks

\* Where the tracee can be when the coroutine waits for an entry stop,
AwaitsEntry ==
    \/ at = "user" /\ stop \in {"none", "groupstop"} \cup Signals
    \/ at \in {FirstPoint, "entry"} /\ stop = "none"
    \/ at = Following("entry") /\ stop = "entry"

\* for a seccomp stop,
AwaitsSeccomp ==
    /\ stop \in {"none", "seccomp", "forkevent", "groupstop"} \cup Signals
    /\ stop \in {"groupstop"} \cup Signals => at = "user"
    /\ stop = "forkevent" => at = "exit"
    /\ stop = "seccomp" => at = "run" /\ cur \in Traced \ conf.banned

\* or for the exit.
AwaitsExit ==
    \/ at = "user" /\ stop = "exit"
    \/ at \in {"run", "exit"} /\ stop \in {"none", "seccomp", "forkevent"}
    \/ at = "seccomp" /\ stop = "none" /\ ~KernelIsLegacy

PositionInv ==
    /\ co.pc \in Entries =>
          IF co.tracee_seccomp_init_complete
          THEN ~co.resume_through_syscall /\ AwaitsSeccomp
          ELSE co.resume_through_syscall /\ AwaitsEntry
    /\ co.pc \in Exits => co.resume_through_syscall /\ AwaitsExit /\ seen # "no"

PhaseInv == Alive /\ Countable => FilterInv /\ NumberInv /\ PositionInv

\* The kernels before 4.8 that is_legacy_seccomp knows: from a seccomp stop to the exit.
LegacyInv ==
    Alive /\ is_legacy_seccomp /\ co.pc \in Exits /\ seen = "seccomp" =>
       /\ co.resume_through_syscall /\ co.tracee_seccomp_init_complete /\ co.expects_syscall_exit
       /\ IF co.extra_round
          THEN \/ at = "user" /\ stop = "exit"
               \/ at \in {"run", "exit"} /\ stop \in {"none", "forkevent"}
          ELSE \/ at = "entry" /\ stop = "none"
               \/ at = "run" /\ stop = "entry"

\* More than one insertion follows an execve, and a signal handler can start in between.
Disturbed == conf.handlers /\ conf.root /\ ~conf.no_seccomp

SamePair(x) == x # <<>> => IF x[3] THEN Disturbed ELSE x[1] = x[2]

\* The number in the register and the one the program asked for.
AskedInv ==
    Alive /\ Countable =>
       /\ SamePair(again) /\ \A i \in 1..Len(frames) : SamePair(frames[i])
       /\ ~conf.handlers => ~handler /\ frames = <<>>
       /\ mistaken => Disturbed
       /\ co.pc \in Entries /\ at # "user" => cur = asked \/ mistaken
       /\ co.pc \in Entries /\ at \notin {"user", "exit"} => again = <<>>
       /\ co.pc \in Entries /\ at = "run" /\ stop = "none" => cur \notin Traced \ conf.banned
       /\ co.pc = "exit" => /\ co.orig_syscall_num = ""
                            /\ mistaken \/ cur = asked \/ (cur = "nomod" /\ asked \in {"aug", "exec"})
       /\ co.pc = "ins_exit" => mistaken \/ co.orig_syscall_num = asked

\* From the first insertion to the last: every handler that started since the number was saved returns
\* to a syscall that is issued under that number, so only a new syscall of such a handler
\* can have another one.
Between == co.todo # <<>> /\ co.orig_syscall_num # ""

NestInv ==
    Alive /\ Countable /\ Between =>
       /\ co.pc = "ins_entry" => conf.root /\ ~conf.no_seccomp
       /\ co.tracee_seccomp_init_complete => co.orig_syscall_num \in Traced \ conf.banned
       /\ saved <= Len(frames)
       /\ \A i \in 1..Len(frames) : i > saved => frames[i] = <<>> \/ frames[i][1] = co.orig_syscall_num
       /\ Len(frames) > saved => frames[saved + 1] # <<>>
       /\ co.pc = "ins_entry" => again = <<>> \/ again[1] = co.orig_syscall_num
       /\ co.pc = "ins_entry" /\ again = <<>> =>
             \/ Len(frames) > saved
             \/ cur = co.orig_syscall_num /\ at \in {"entry", "seccomp"}
             \/ cur = co.orig_syscall_num /\ at = "run" /\ stop # "none"

IndInv == BaseInv /\ PhaseInv /\ LegacyInv /\ AskedInv /\ NestInv

USE KernelAssumption

-------------------------------------------------------------------------------
(* The machine, and what is inserted.                                        *)

\* The fields of the machine, and the two tests of its kernel.
LEMMA ConfFacts ==
    ASSUME TypeOK
    PROVE  /\ conf \in Machines /\ conf.banned \subseteq Kinds \ Inserted
           /\ conf.no_seccomp \in BOOLEAN /\ conf.root \in BOOLEAN
           /\ is_legacy_seccomp => KernelIsLegacy
           /\ KernelIsLegacy /\ Countable => conf.no_seccomp
<1>1. conf \in Machines
  BY DEF TypeOK
<1>2. conf.version \in Nat \X Nat /\ conf.version[1] \in Nat /\ conf.version[2] \in Nat
  BY <1>1 DEF Machines
<1> QED BY <1>1, <1>2 DEF Machines, is_legacy_seccomp, KernelIsLegacy, Countable

\* The machine does not change.
LEMMA ConfSame ==
    ASSUME BaseInv, conf' = conf
    PROVE  /\ conf \in Machines
           /\ Countable' <=> Countable
           /\ KernelIsLegacy' <=> KernelIsLegacy
           /\ is_legacy_seccomp' <=> is_legacy_seccomp
           /\ Disturbed' <=> Disturbed
           /\ is_legacy_seccomp => KernelIsLegacy
           /\ KernelIsLegacy /\ Countable => conf.no_seccomp
           /\ \A k \in Inserted : k \notin conf.banned
<1>1. /\ conf \in Machines
      /\ is_legacy_seccomp => KernelIsLegacy
      /\ KernelIsLegacy /\ Countable => conf.no_seccomp
      /\ \A k \in Inserted : k \notin conf.banned
  BY ConfFacts DEF BaseInv
<1> QED BY <1>1 DEF Countable, KernelIsLegacy, is_legacy_seccomp, Disturbed

\* One insertion after the other.
LEMMA PlanFacts ==
    ASSUME NEW p \in Plans \ {<<>>}
    PROVE  /\ Head(p) \in Inserted /\ Tail(p) \in Plans
           /\ Installs(Tail(p)) => Installs(p)
           /\ Installs(p) => Installs(Tail(p)) \/ p = <<"seccomp">>
           /\ Tail(p) # <<>> => Installs(p)
           /\ p = <<"seccomp">> => Head(p) = "seccomp"
           /\ Head(p) = "seccomp" => p = <<"seccomp">>
           /\ Head(p) # "mmap" => Installs(p)
<1>1. CASE p = <<"mmap">>
  BY <1>1 DEF Plans, Inserted, Installs
<1>2. CASE p = <<"seccomp">>
  BY <1>2 DEF Plans, Inserted, Installs
<1>3. CASE p = <<"prctl", "seccomp">>
  <2>1. Tail(p) = <<"seccomp">> /\ Head(p) = "prctl"
    BY <1>3
  <2>2. p # <<"seccomp">> /\ p # <<"mmap">>
    BY <1>3
  <2> QED BY <2>1, <2>2 DEF Plans, Inserted, Installs
<1>4. CASE p = <<"mmap", "prctl", "seccomp">>
  <2>1. Tail(p) = <<"prctl", "seccomp">> /\ Head(p) = "mmap"
    BY <1>4
  <2>2. p # <<"seccomp">> /\ p # <<"mmap">>
    BY <1>4
  <2>3. <<"prctl", "seccomp">> # <<>> /\ <<"prctl", "seccomp">> # <<"mmap">>
    OBVIOUS
  <2> QED BY <2>1, <2>2, <2>3 DEF Plans, Inserted, Installs
<1> QED BY <1>1, <1>2, <1>3, <1>4 DEF Plans

\* What is inserted after an execve: the filter only by the root tracer with seccomp.
LEMMA InitialisationFacts ==
    ASSUME TypeOK
    PROVE  /\ Initialisation \in Plans
           /\ Installs(Initialisation) <=> conf.root /\ ~conf.no_seccomp
<1>1. CASE conf.root /\ ~conf.no_seccomp /\ conf.fix_mmap
  <2>1. Initialisation = <<"prctl", "seccomp">>
    BY <1>1 DEF Initialisation
  <2>2. <<"prctl", "seccomp">> # <<>> /\ <<"prctl", "seccomp">> # <<"mmap">>
    OBVIOUS
  <2> QED BY <1>1, <2>1, <2>2 DEF Plans, Installs
<1>2. CASE conf.root /\ ~conf.no_seccomp /\ ~conf.fix_mmap
  <2>1. Initialisation = <<"mmap">> \o <<"prctl", "seccomp">>
    BY <1>2 DEF Initialisation
  <2>2. <<"mmap">> \o <<"prctl", "seccomp">> = <<"mmap", "prctl", "seccomp">>
    <3> DEFINE a == <<"mmap">>
               b == <<"prctl", "seccomp">>
               d == <<"mmap", "prctl", "seccomp">>
    <3>1. a \in Seq(Inserted) /\ b \in Seq(Inserted) /\ d \in Seq(Inserted)
      BY DEF Inserted
    <3>2. a \o b \in Seq(Inserted) /\ Len(a \o b) = 3
      BY <3>1, ConcatProperties
    <3>3. (a \o b)[1] = "mmap" /\ (a \o b)[2] = "prctl" /\ (a \o b)[3] = "seccomp"
      BY <3>1, ConcatProperties
    <3>4. Len(d) = 3 /\ d[1] = "mmap" /\ d[2] = "prctl" /\ d[3] = "seccomp"
      OBVIOUS
    <3>5. \A i \in 1..3 : i = 1 \/ i = 2 \/ i = 3
      OBVIOUS
    <3>6. \A i \in 1..Len(a \o b) : (a \o b)[i] = d[i]
      BY <3>2, <3>3, <3>4, <3>5
    <3> HIDE DEF a, b, d
    <3>7. a \o b = d
      BY <3>1, <3>2, <3>4, <3>6, SeqEqual
    <3> QED BY <3>7 DEF a, b, d
  <2>3. <<"mmap", "prctl", "seccomp">> # <<>> /\ <<"mmap", "prctl", "seccomp">> # <<"mmap">>
    OBVIOUS
  <2> QED BY <1>2, <2>1, <2>2, <2>3 DEF Plans, Installs
<1>3. CASE ~(conf.root /\ ~conf.no_seccomp) /\ conf.fix_mmap
  <2>1. Initialisation = <<>>
    BY <1>3 DEF Initialisation
  <2> QED BY <1>3, <2>1 DEF Plans, Installs
<1>4. CASE ~(conf.root /\ ~conf.no_seccomp) /\ ~conf.fix_mmap
  <2>1. Initialisation = <<"mmap">> \o <<>>
    BY <1>4 DEF Initialisation
  <2>2. <<"mmap">> \in Seq(Inserted)
    BY DEF Inserted
  <2>3. Initialisation = <<"mmap">>
    BY <2>1, <2>2, ConcatEmptySeq
  <2> QED BY <1>4, <2>3 DEF Plans, Installs
<1> QED BY <1>1, <1>2, <1>3, <1>4

-------------------------------------------------------------------------------
(* The coroutine from one wait to the next.                                  *)

\* wait_for_syscall up to its await,
LEMMA StartWaitFacts ==
    ASSUME NEW c \in Coroutine, NEW p \in {"entry", "exit", "ins_entry", "ins_exit"},
           NEW r, r = StartWait(c, p)
    PROVE  /\ r \in Coroutine /\ r.pc = p /\ r.todo = c.todo
           /\ r.is_first_loop_after_init <=> c.is_first_loop_after_init
           /\ r.tracee_seccomp_init_complete <=> c.tracee_seccomp_init_complete
           /\ r.orig_syscall_num = c.orig_syscall_num
           /\ r.resume_through_syscall <=> ~c.tracee_seccomp_init_complete \/ c.is_after_syscall_entry
           /\ r.expects_syscall_exit <=> c.is_after_syscall_entry
           /\ ~r.extra_round
BY ZenonT(60) DEF StartWait, Coroutine

\* and after it.
LEMMA EndWaitFacts ==
    ASSUME NEW c \in Coroutine
    PROVE  LET r == EndWait(c)
           IN /\ r \in Coroutine /\ r.pc = c.pc /\ r.todo = c.todo
              /\ r.is_first_loop_after_init <=> c.is_first_loop_after_init
              /\ r.tracee_seccomp_init_complete <=> c.tracee_seccomp_init_complete
              /\ r.orig_syscall_num = c.orig_syscall_num
              /\ r.is_after_syscall_entry <=> ~c.resume_through_syscall
BY DEF EndWait, Coroutine

\* The locals after the entry of a syscall,
LEMMA AfterEntryFacts ==
    ASSUME TypeOK, NEW r, r = AfterEntry(co)
    PROVE  /\ r \in Coroutine /\ r.pc = "exit" /\ r.todo = co.todo /\ r.orig_syscall_num = ""
           /\ r.tracee_seccomp_init_complete
                <=> IF co.is_first_loop_after_init THEN ~conf.no_seccomp ELSE co.tracee_seccomp_init_complete
           /\ ~r.is_first_loop_after_init
           /\ r.resume_through_syscall <=> (\/ ~r.tracee_seccomp_init_complete
                                          \/ co.is_first_loop_after_init \/ ~co.resume_through_syscall)
           /\ r.expects_syscall_exit <=> (co.is_first_loop_after_init \/ ~co.resume_through_syscall)
           /\ ~r.extra_round
<1> DEFINE e == [EndWait(co) EXCEPT !.orig_syscall_num = ""]
           f == [e EXCEPT !.tracee_seccomp_init_complete = ~conf.no_seccomp,
                          !.is_after_syscall_entry = TRUE,
                          !.is_first_loop_after_init = FALSE]
<1>0. co \in Coroutine /\ conf.no_seccomp \in BOOLEAN
  BY ConfFacts DEF TypeOK
<1>1. /\ EndWait(co) \in Coroutine /\ EndWait(co).todo = co.todo
      /\ EndWait(co).is_first_loop_after_init <=> co.is_first_loop_after_init
      /\ EndWait(co).tracee_seccomp_init_complete <=> co.tracee_seccomp_init_complete
      /\ EndWait(co).is_after_syscall_entry <=> ~co.resume_through_syscall
  BY <1>0, EndWaitFacts
<1>2. /\ e \in Coroutine /\ e.todo = co.todo /\ e.orig_syscall_num = ""
      /\ e.is_first_loop_after_init <=> co.is_first_loop_after_init
      /\ e.tracee_seccomp_init_complete <=> co.tracee_seccomp_init_complete
      /\ e.is_after_syscall_entry <=> ~co.resume_through_syscall
  BY <1>1 DEF Coroutine
<1>3. /\ f \in Coroutine /\ f.todo = co.todo /\ f.orig_syscall_num = ""
      /\ ~f.is_first_loop_after_init
      /\ f.tracee_seccomp_init_complete <=> ~conf.no_seccomp
      /\ f.is_after_syscall_entry
  BY <1>0, <1>2, ZenonT(60) DEF Coroutine
<1>4. r = StartWait(IF co.is_first_loop_after_init THEN f ELSE e, "exit")
  BY DEF AfterEntry
<1> HIDE DEF e, f
<1>5. CASE co.is_first_loop_after_init
  <2>1. r = StartWait(f, "exit")
    BY <1>4, <1>5
  <2>2. /\ r \in Coroutine /\ r.pc = "exit" /\ r.todo = f.todo
        /\ r.is_first_loop_after_init <=> f.is_first_loop_after_init
        /\ r.tracee_seccomp_init_complete <=> f.tracee_seccomp_init_complete
        /\ r.orig_syscall_num = f.orig_syscall_num
        /\ r.resume_through_syscall <=> ~f.tracee_seccomp_init_complete \/ f.is_after_syscall_entry
        /\ r.expects_syscall_exit <=> f.is_after_syscall_entry
        /\ ~r.extra_round
    BY <1>3, <2>1, StartWaitFacts
  <2> QED BY <1>3, <1>5, <2>2
<1>6. CASE ~co.is_first_loop_after_init
  <2>1. r = StartWait(e, "exit")
    BY <1>4, <1>6
  <2>2. /\ r \in Coroutine /\ r.pc = "exit" /\ r.todo = e.todo
        /\ r.is_first_loop_after_init <=> e.is_first_loop_after_init
        /\ r.tracee_seccomp_init_complete <=> e.tracee_seccomp_init_complete
        /\ r.orig_syscall_num = e.orig_syscall_num
        /\ r.resume_through_syscall <=> ~e.tracee_seccomp_init_complete \/ e.is_after_syscall_entry
        /\ r.expects_syscall_exit <=> e.is_after_syscall_entry
        /\ ~r.extra_round
    BY <1>2, <2>1, StartWaitFacts
  <2> QED BY <1>2, <1>6, <2>2
<1> QED BY <1>5, <1>6

\* at the top of the loop,
LEMMA LoopTopFacts ==
    ASSUME NEW d \in Coroutine, NEW r, r = LoopTop(d)
    PROVE  /\ r \in Coroutine /\ r.todo = d.todo
           /\ r.pc = IF d.todo # <<>> THEN "ins_entry" ELSE "entry"
           /\ r.is_first_loop_after_init <=> d.is_first_loop_after_init
           /\ r.tracee_seccomp_init_complete <=> d.tracee_seccomp_init_complete
           /\ r.orig_syscall_num = d.orig_syscall_num
           /\ r.resume_through_syscall <=> ~d.tracee_seccomp_init_complete \/ d.is_after_syscall_entry
<1>1. CASE d.todo # <<>>
  <2>1. r = StartWait(d, "ins_entry")
    BY <1>1 DEF LoopTop
  <2> QED BY <1>1, <2>1, ZenonT(60) DEF StartWait, Coroutine
<1>2. CASE d.todo = <<>>
  <2>1. r = StartWait(d, "entry")
    BY <1>2 DEF LoopTop
  <2> QED BY <1>2, <2>1, ZenonT(60) DEF StartWait, Coroutine
<1> QED BY <1>1, <1>2

\* after the exit of a syscall,
LEMMA AfterExitFacts ==
    ASSUME TypeOK, NEW r, r = AfterExit(co)
    PROVE  /\ r \in Coroutine
           /\ r.todo = IF cur = "exec" THEN Initialisation ELSE co.todo
           /\ r.pc = IF r.todo # <<>> THEN "ins_entry" ELSE "entry"
           /\ r.is_first_loop_after_init <=> cur = "exec" \/ co.is_first_loop_after_init
           /\ r.tracee_seccomp_init_complete <=> co.tracee_seccomp_init_complete
           /\ r.orig_syscall_num = co.orig_syscall_num
           /\ r.resume_through_syscall <=> (~co.tracee_seccomp_init_complete \/ ~co.resume_through_syscall)
<1> DEFINE f == [EndWait(co) EXCEPT !.todo = Initialisation, !.is_first_loop_after_init = TRUE]
<1>0. co \in Coroutine /\ Initialisation \in Plans
  BY InitialisationFacts DEF TypeOK
<1>1. /\ EndWait(co) \in Coroutine /\ EndWait(co).todo = co.todo
      /\ EndWait(co).is_first_loop_after_init <=> co.is_first_loop_after_init
      /\ EndWait(co).tracee_seccomp_init_complete <=> co.tracee_seccomp_init_complete
      /\ EndWait(co).orig_syscall_num = co.orig_syscall_num
      /\ EndWait(co).is_after_syscall_entry <=> ~co.resume_through_syscall
  BY <1>0, EndWaitFacts
<1>2. /\ f \in Coroutine /\ f.todo = Initialisation /\ f.is_first_loop_after_init
      /\ f.tracee_seccomp_init_complete <=> co.tracee_seccomp_init_complete
      /\ f.orig_syscall_num = co.orig_syscall_num
      /\ f.is_after_syscall_entry <=> ~co.resume_through_syscall
  BY <1>0, <1>1 DEF Coroutine
<1>3. r = LoopTop(IF cur = "exec" THEN f ELSE EndWait(co))
  BY DEF AfterExit
<1> HIDE DEF f
<1>4. CASE cur = "exec"
  <2>1. r = LoopTop(f)
    BY <1>3, <1>4
  <2> QED BY <1>2, <1>4, <2>1, LoopTopFacts
<1>5. CASE cur # "exec"
  <2>1. r = LoopTop(EndWait(co))
    BY <1>3, <1>5
  <2> QED BY <1>1, <1>5, <2>1, LoopTopFacts
<1> QED BY <1>4, <1>5

\* after the entry of a replaced syscall,
LEMMA AfterInsertedEntryFacts ==
    ASSUME TypeOK, NEW r, r = AfterInsertedEntry(co)
    PROVE  /\ r \in Coroutine /\ r.todo = co.todo /\ r.pc = "ins_exit"
           /\ r.is_first_loop_after_init <=> co.is_first_loop_after_init
           /\ r.tracee_seccomp_init_complete <=> co.tracee_seccomp_init_complete
           /\ r.orig_syscall_num = IF co.orig_syscall_num = "" THEN cur ELSE co.orig_syscall_num
           /\ r.resume_through_syscall <=> (~co.tracee_seccomp_init_complete \/ ~co.resume_through_syscall)
           /\ r.expects_syscall_exit <=> ~co.resume_through_syscall
           /\ ~r.extra_round
<1> DEFINE o == IF co.orig_syscall_num = "" THEN cur ELSE co.orig_syscall_num
           f == [EndWait(co) EXCEPT !.orig_syscall_num = o]
<1>0. co \in Coroutine /\ cur \in Kinds
  BY DEF TypeOK
<1>1. /\ EndWait(co) \in Coroutine /\ EndWait(co).todo = co.todo
      /\ EndWait(co).is_first_loop_after_init <=> co.is_first_loop_after_init
      /\ EndWait(co).tracee_seccomp_init_complete <=> co.tracee_seccomp_init_complete
      /\ EndWait(co).orig_syscall_num = co.orig_syscall_num
      /\ EndWait(co).is_after_syscall_entry <=> ~co.resume_through_syscall
  BY <1>0, EndWaitFacts
<1>2. o \in Kinds \cup {""}
  BY <1>0 DEF Coroutine
<1>3. r = StartWait(f, "ins_exit")
  BY <1>1 DEF AfterInsertedEntry
<1> HIDE DEF o
<1>4. /\ f \in Coroutine /\ f.todo = co.todo
      /\ f.is_first_loop_after_init <=> co.is_first_loop_after_init
      /\ f.tracee_seccomp_init_complete <=> co.tracee_seccomp_init_complete
      /\ f.orig_syscall_num = o
      /\ f.is_after_syscall_entry <=> ~co.resume_through_syscall
  BY <1>1, <1>2 DEF Coroutine
<1> HIDE DEF f
<1>5. /\ r \in Coroutine /\ r.todo = co.todo /\ r.pc = "ins_exit"
      /\ r.is_first_loop_after_init <=> co.is_first_loop_after_init
      /\ r.tracee_seccomp_init_complete <=> co.tracee_seccomp_init_complete
      /\ r.orig_syscall_num = o
      /\ r.resume_through_syscall <=> (~co.tracee_seccomp_init_complete \/ ~co.resume_through_syscall)
      /\ r.expects_syscall_exit <=> ~co.resume_through_syscall
      /\ ~r.extra_round
  <2>1. /\ r \in Coroutine /\ r.pc = "ins_exit" /\ r.todo = f.todo
        /\ r.is_first_loop_after_init <=> f.is_first_loop_after_init
        /\ r.tracee_seccomp_init_complete <=> f.tracee_seccomp_init_complete
        /\ r.orig_syscall_num = f.orig_syscall_num
        /\ r.resume_through_syscall <=> ~f.tracee_seccomp_init_complete \/ f.is_after_syscall_entry
        /\ r.expects_syscall_exit <=> f.is_after_syscall_entry
        /\ ~r.extra_round
    BY <1>3, <1>4, StartWaitFacts
  <2> QED BY <1>4, <2>1
<1> QED BY <1>5 DEF o

\* and after the exit of an inserted one.
LEMMA AfterInsertedExitFacts ==
    ASSUME TypeOK, co.todo # <<>>, NEW r, r = AfterInsertedExit(co)
    PROVE  /\ r \in Coroutine /\ r.todo = Tail(co.todo)
           /\ r.pc = IF r.todo # <<>> THEN "ins_entry" ELSE "entry"
           /\ r.is_first_loop_after_init <=> co.is_first_loop_after_init
           /\ r.tracee_seccomp_init_complete <=> co.tracee_seccomp_init_complete
           /\ r.orig_syscall_num = co.orig_syscall_num
           /\ r.resume_through_syscall <=> (~co.tracee_seccomp_init_complete \/ ~co.resume_through_syscall)
<1> DEFINE f == [EndWait(co) EXCEPT !.todo = Tail(co.todo)]
<1>0. co \in Coroutine /\ Tail(co.todo) \in Plans
  BY PlanFacts DEF TypeOK, Coroutine
<1>1. /\ EndWait(co) \in Coroutine /\ EndWait(co).todo = co.todo
      /\ EndWait(co).is_first_loop_after_init <=> co.is_first_loop_after_init
      /\ EndWait(co).tracee_seccomp_init_complete <=> co.tracee_seccomp_init_complete
      /\ EndWait(co).orig_syscall_num = co.orig_syscall_num
      /\ EndWait(co).is_after_syscall_entry <=> ~co.resume_through_syscall
  BY <1>0, EndWaitFacts
<1>2. /\ f \in Coroutine /\ f.todo = Tail(co.todo)
      /\ f.is_first_loop_after_init <=> co.is_first_loop_after_init
      /\ f.tracee_seccomp_init_complete <=> co.tracee_seccomp_init_complete
      /\ f.orig_syscall_num = co.orig_syscall_num
      /\ f.is_after_syscall_entry <=> ~co.resume_through_syscall
  BY <1>0, <1>1 DEF Coroutine
<1>3. r = LoopTop(f)
  BY <1>1 DEF AfterInsertedExit
<1> HIDE DEF f
<1> QED BY <1>2, <1>3, LoopTopFacts

-------------------------------------------------------------------------------
(* The steps of the kernel.                                                  *)

\* What the last handler interrupted.
LEMMA FrontLast ==
    ASSUME NEW S, NEW s \in Seq(S), s # <<>>
    PROVE  /\ Last(s) \in S /\ Front(s) \in Seq(S)
           /\ Len(s) \in Nat /\ Len(s) > 0 /\ Last(s) = s[Len(s)]
           /\ Len(Front(s)) = Len(s) - 1
           /\ \A i \in 1..Len(Front(s)) : i \in 1..Len(s) /\ Front(s)[i] = s[i]
<1>1. Len(s) \in Nat \ {0}
  BY EmptySeq, LenProperties
<1>2. Last(s) = s[Len(s)] /\ Last(s) \in S
  BY <1>1, ElementOfSeq DEF Last
<1>3. Front(s) = SubSeq(s, 1, Len(s) - 1) /\ \A i \in 1..(Len(s) - 1) : s[i] \in S
  BY <1>1, ElementOfSeq DEF Front
<1>4. /\ Front(s) \in Seq(S) /\ Len(Front(s)) = Len(s) - 1
      /\ \A i \in 1..(Len(s) - 1) : Front(s)[i] = s[i]
  <2> DEFINE n == Len(s) - 1
  <2>1. n \in Nat
    BY <1>1
  <2>2. /\ SubSeq(s, 1, n) \in Seq(S)
        /\ Len(SubSeq(s, 1, n)) = IF 1 <= n THEN n - 1 + 1 ELSE 0
        /\ \A i \in 1..(n - 1 + 1) : SubSeq(s, 1, n)[i] = s[1 + i - 1]
    BY <1>3, <2>1, SubSeqProperties
  <2> HIDE DEF n
  <2>3. Len(SubSeq(s, 1, n)) = n
    BY <2>1, <2>2
  <2>4. \A i \in 1..n : i \in 1..(n - 1 + 1) /\ 1 + i - 1 = i
    BY <2>1
  <2>5. \A i \in 1..n : SubSeq(s, 1, n)[i] = s[i]
    BY <2>2, <2>4
  <2> QED BY <1>3, <2>2, <2>3, <2>5 DEF n
<1> QED BY <1>1, <1>2, <1>4

\* The last inserted syscall installs the filter.
LEMMA LastInserted ==
    ASSUME NumberInv, co.pc = "ins_exit", co.todo = <<"seccomp">>
    PROVE  cur = "seccomp"
<1>1. Head(<<"seccomp">>) = "seccomp"
  OBVIOUS
<1>2. cur = Head(co.todo)
  BY DEF NumberInv
<1> QED BY <1>1, <1>2

\* The numbers of running handlers.
LEMMA SizeFacts ==
    ASSUME BaseInv
    PROVE  /\ frames \in Seq({<<>>} \cup (Kinds \X Kinds \X BOOLEAN))
           /\ Len(frames) \in Nat /\ Len(frames) <= MaxNest /\ saved \in Nat /\ saved <= MaxNest
           /\ Len(frames) > saved => frames # <<>>
<1>1. frames \in Seq({<<>>} \cup (Kinds \X Kinds \X BOOLEAN)) /\ Len(frames) <= MaxNest /\ saved \in 0..MaxNest
  BY DEF BaseInv, TypeOK
<1>2. Len(frames) \in Nat /\ saved \in Nat /\ saved <= MaxNest
  BY <1>1, LenProperties
<1>3. Len(frames) > 0 => frames # <<>>
  OBVIOUS
<1> QED BY <1>1, <1>2, <1>3

\* Between two insertions only a handler's syscall runs, and none that has a seccomp stop.
LEMMA RunsBetween ==
    ASSUME IndInv, Alive, Countable, Between, at = "run", stop = "none"
    PROVE  \/ co.pc = "ins_exit" /\ cur \in Inserted
           \/ /\ co.pc = "ins_entry" /\ cur \notin Traced \ conf.banned
              /\ again = <<>> /\ saved < Len(frames)
<1>1. co.pc \in {"ins_entry", "ins_exit"} /\ co.todo \in Plans \ {<<>>}
  BY DEF IndInv, BaseInv, TypeOK, Coroutine, Between
<1>2. CASE co.pc = "ins_exit"
  BY <1>1, <1>2, PlanFacts DEF IndInv, PhaseInv, NumberInv
<1>3. CASE co.pc = "ins_entry"
  BY <1>3 DEF IndInv, AskedInv, NestInv, Between, Entries
<1> QED BY <1>1, <1>2, <1>3

\* The entry stop: who waits for an entry gets it, who waits for a seccomp stop resumed by PTRACE_CONT.
LEMMA PassEntryInv ==
    ASSUME IndInv, PassEntry, UNCHANGED tvars
    PROVE  IndInv'
<1> USE DEF tvars, PassEntry, Pass
<1>c. /\ conf' = conf /\ co' = co /\ conf \in Machines
      /\ Countable' <=> Countable
      /\ KernelIsLegacy' <=> KernelIsLegacy
      /\ is_legacy_seccomp' <=> is_legacy_seccomp
      /\ Disturbed' <=> Disturbed
      /\ is_legacy_seccomp => KernelIsLegacy
      /\ KernelIsLegacy /\ Countable => conf.no_seccomp
      /\ \A k \in Inserted : k \notin conf.banned
  BY ConfSame DEF IndInv
<1>1. BaseInv'
  <2>1. TypeOK'
    BY <1>c, ZenonT(60) DEF IndInv, BaseInv, TypeOK, Stops, Signals, Following
  <2> QED BY <1>c, <2>1, ZenonT(60) DEF IndInv, BaseInv, TypeOK, How, Following
<1>2. PhaseInv'
  <2> SUFFICES ASSUME Alive', Countable'
               PROVE  FilterInv' /\ NumberInv' /\ PositionInv'
    BY DEF PhaseInv
  <2>0. Alive /\ Countable /\ FilterInv /\ NumberInv /\ PositionInv
    BY <1>c DEF IndInv, PhaseInv, Alive
  <2>1. FilterInv'
    <3>1. co.pc = "ins_exit" /\ co.todo = <<"seccomp">> => cur = "seccomp"
      BY <2>0, LastInserted
    <3> QED BY <1>c, <2>0, <3>1 DEF IndInv, BaseInv, FilterInv, PositionInv, AwaitsExit, Exits, Following, Alive, Inserted
  <2>2. NumberInv'
    BY <1>c, <2>0 DEF NumberInv, Asks
  <2>3. PositionInv'
    BY <1>c, <2>0 DEF IndInv, BaseInv, TypeOK, PositionInv, AwaitsEntry, AwaitsSeccomp, AwaitsExit, Entries, Exits,
                      FirstPoint, Following, How, Signals, Alive
  <2> QED BY <2>1, <2>2, <2>3
<1>3. LegacyInv'
  BY <1>c DEF IndInv, BaseInv, TypeOK, LegacyInv, Exits, Following, How, Alive
<1>4. AskedInv'
  BY <1>c DEF IndInv, BaseInv, TypeOK, PhaseInv, FilterInv, NumberInv, PositionInv, AwaitsEntry, AwaitsSeccomp,
               AwaitsExit, AskedInv, SamePair, Entries, Exits, FirstPoint, Following, How, Alive, Asks
<1>5. NestInv'
  BY <1>c, ZenonT(60) DEF IndInv, BaseInv, TypeOK, PhaseInv, FilterInv, NumberInv, PositionInv, AwaitsEntry, AwaitsSeccomp,
               AwaitsExit, AskedInv, NestInv, Between, SamePair, Entries, Exits, FirstPoint, Following, How, Alive, Asks
<1> QED BY <1>1, <1>2, <1>3, <1>4, <1>5 DEF IndInv

\* The seccomp stop comes for every traced number once the filter is installed.
LEMMA PassSeccompInv ==
    ASSUME IndInv, PassSeccomp, UNCHANGED tvars
    PROVE  IndInv'
<1> USE DEF tvars, PassSeccomp, Pass
<1>c. /\ conf' = conf /\ co' = co /\ conf \in Machines
      /\ Countable' <=> Countable
      /\ KernelIsLegacy' <=> KernelIsLegacy
      /\ is_legacy_seccomp' <=> is_legacy_seccomp
      /\ Disturbed' <=> Disturbed
      /\ is_legacy_seccomp => KernelIsLegacy
      /\ KernelIsLegacy /\ Countable => conf.no_seccomp
      /\ \A k \in Inserted : k \notin conf.banned
  BY ConfSame DEF IndInv
<1>1. BaseInv'
  <2>1. TypeOK'
    BY <1>c, ZenonT(60) DEF IndInv, BaseInv, TypeOK, Stops, Signals, Following
  <2> QED BY <1>c, <2>1 DEF IndInv, BaseInv, TypeOK, How, Following
<1>2. PhaseInv'
  <2> SUFFICES ASSUME Alive', Countable'
               PROVE  FilterInv' /\ NumberInv' /\ PositionInv'
    BY DEF PhaseInv
  <2>0. Alive /\ Countable /\ FilterInv /\ NumberInv /\ PositionInv
    BY <1>c DEF IndInv, PhaseInv, Alive
  <2>1. FilterInv'
    <3>1. co.pc = "ins_exit" /\ co.todo = <<"seccomp">> => cur = "seccomp"
      BY <2>0, LastInserted
    <3> QED BY <1>c, <2>0, <3>1 DEF IndInv, BaseInv, FilterInv, PositionInv, AwaitsExit, Exits, Following, Alive, Inserted
  <2>2. NumberInv'
    BY <1>c, <2>0 DEF NumberInv, Asks
  <2>3. PositionInv'
    <3>1. CASE co.pc \in Exits
      <4>1. ~KernelIsLegacy /\ at' = "run" /\ stop' \in {"none", "seccomp"}
        BY <2>0, <3>1 DEF PositionInv, AwaitsExit, Following
      <4> QED BY <1>c, <2>0, <3>1, <4>1 DEF PositionInv, AwaitsExit, Entries, Exits
    <3>2. CASE co.pc \in Entries /\ co.tracee_seccomp_init_complete
      <4>1. ~KernelIsLegacy
        BY <1>c, <2>0, <3>2 DEF FilterInv
      <4>2. stop' = "none" \/ (stop' = "seccomp" /\ at' = "run" /\ cur' \in Traced \ conf'.banned)
        BY <1>c, <4>1 DEF Following
      <4>3. AwaitsSeccomp'
        BY <4>2 DEF AwaitsSeccomp, Signals
      <4> QED BY <1>c, <2>0, <3>2, <4>3 DEF PositionInv, Entries, Exits
    <3>3. CASE co.pc \in Entries /\ ~co.tracee_seccomp_init_complete
      <4>1. KernelIsLegacy /\ ~filter
        BY <1>c, <2>0, <3>3 DEF PositionInv, AwaitsEntry, FirstPoint, Following, FilterInv
      <4>2. at' = "entry" /\ stop' = "none"
        BY <4>1 DEF Following
      <4> QED BY <1>c, <2>0, <3>3, <4>2 DEF PositionInv, AwaitsEntry, Entries, Exits
    <3>4. CASE co.pc \notin Entries \cup Exits
      BY <1>c, <3>4 DEF PositionInv
    <3> QED BY <3>1, <3>2, <3>3, <3>4
  <2> QED BY <2>1, <2>2, <2>3
<1>3. LegacyInv'
  BY <1>c DEF IndInv, BaseInv, TypeOK, LegacyInv, Exits, Following, How, Alive
<1>4. AskedInv'
  <2> SUFFICES ASSUME Alive', Countable'
               PROVE  AskedInv'
    BY DEF AskedInv
  <2>0. /\ Alive /\ Countable /\ at = "seccomp" /\ stop = "none"
        /\ FilterInv /\ PositionInv
    BY <1>c DEF IndInv, PhaseInv, Alive
  <2>1. co.pc \in Entries /\ at' = "run" /\ stop' = "none" => cur \notin Traced \ conf.banned
    <3>1. CASE co.pc \in Entries /\ co.tracee_seccomp_init_complete
      BY <2>0, <3>1 DEF FilterInv
    <3>2. CASE co.pc \in Entries /\ ~co.tracee_seccomp_init_complete
      BY <2>0, <3>2 DEF PositionInv, AwaitsEntry, FirstPoint, Following
    <3> QED BY <3>1, <3>2
  <2>2. at' \notin {"user", "exit"}
    BY <2>0 DEF Following
  <2> QED BY <1>c, <2>0, <2>1, <2>2 DEF IndInv, AskedInv, SamePair
<1>5. NestInv'
  <2> SUFFICES ASSUME Alive', Countable', Between'
               PROVE  NestInv'
    BY DEF NestInv, Between
  <2>0. /\ Alive /\ Countable /\ at = "seccomp" /\ stop = "none"
        /\ FilterInv /\ PositionInv
    BY <1>c DEF IndInv, PhaseInv, Alive
  <2>1. at' \in {"entry", "seccomp", "run"}
    BY <2>0 DEF Following
  <2>2. co.pc = "ins_entry" /\ at' = "run" /\ cur = co.orig_syscall_num => stop' # "none"
    <3>1. CASE co.pc = "ins_entry" /\ co.tracee_seccomp_init_complete
      BY <1>c, <2>0, <3>1 DEF IndInv, NestInv, Between, FilterInv
    <3>2. CASE co.pc = "ins_entry" /\ ~co.tracee_seccomp_init_complete
      BY <2>0, <3>2 DEF PositionInv, AwaitsEntry, FirstPoint, Following, Entries
    <3> QED BY <3>1, <3>2
  <2> QED BY <1>c, <2>0, <2>1, <2>2 DEF IndInv, NestInv, Between
<1> QED BY <1>1, <1>2, <1>3, <1>4, <1>5 DEF IndInv

\* The exit stop comes while the tracee is resumed by PTRACE_SYSCALL.
LEMMA PassExitInv ==
    ASSUME IndInv, PassExit, UNCHANGED tvars
    PROVE  IndInv'
<1> USE DEF tvars, PassExit, Pass
<1>c. /\ conf' = conf /\ co' = co /\ conf \in Machines
      /\ Countable' <=> Countable
      /\ KernelIsLegacy' <=> KernelIsLegacy
      /\ is_legacy_seccomp' <=> is_legacy_seccomp
      /\ Disturbed' <=> Disturbed
      /\ is_legacy_seccomp => KernelIsLegacy
      /\ KernelIsLegacy /\ Countable => conf.no_seccomp
      /\ \A k \in Inserted : k \notin conf.banned
  BY ConfSame DEF IndInv
<1>1. BaseInv'
  <2>1. TypeOK'
    BY <1>c DEF IndInv, BaseInv, TypeOK, Stops, Signals, Following
  <2> QED BY <1>c, <2>1 DEF IndInv, BaseInv, TypeOK, How, Following
<1>2. PhaseInv'
  <2> SUFFICES ASSUME Alive', Countable'
               PROVE  FilterInv' /\ NumberInv' /\ PositionInv'
    BY DEF PhaseInv
  <2>0. Alive /\ Countable /\ FilterInv /\ NumberInv /\ PositionInv
    BY <1>c DEF IndInv, PhaseInv, Alive
  <2>1. FilterInv'
    <3>1. co.pc = "ins_exit" /\ co.todo = <<"seccomp">> => cur = "seccomp"
      BY <2>0, LastInserted
    <3> QED BY <1>c, <2>0, <3>1 DEF IndInv, BaseInv, FilterInv, PositionInv, AwaitsExit, Exits, Following, Alive, Inserted
  <2>2. NumberInv'
    BY <1>c, <2>0 DEF NumberInv, Asks
  <2>3. PositionInv'
    BY <1>c, <2>0 DEF IndInv, BaseInv, TypeOK, PositionInv, AwaitsEntry, AwaitsSeccomp, AwaitsExit, Entries, Exits,
                      FirstPoint, Following, How, Signals, Alive
  <2> QED BY <2>1, <2>2, <2>3
<1>3. LegacyInv'
  BY <1>c DEF IndInv, BaseInv, TypeOK, LegacyInv, Exits, Following, How, Alive
<1>4. AskedInv'
  BY <1>c DEF IndInv, BaseInv, TypeOK, PhaseInv, FilterInv, NumberInv, PositionInv, AwaitsEntry, AwaitsSeccomp,
               AwaitsExit, AskedInv, SamePair, Entries, Exits, FirstPoint, Following, How, Alive, Asks
<1>5. NestInv'
  <2> SUFFICES ASSUME Alive', Countable', Between'
               PROVE  NestInv'
    BY DEF NestInv
  <2>1. Alive /\ Countable /\ Between /\ NestInv
    BY <1>c DEF IndInv, Between, Alive
  <2> QED BY <1>c, <2>1 DEF NestInv
<1> QED BY <1>1, <1>2, <1>3, <1>4, <1>5 DEF IndInv

\* A banned syscall is none that the tracer inserts.
LEMMA RunBannedInv ==
    ASSUME IndInv, RunBanned, UNCHANGED tvars
    PROVE  IndInv'
<1> USE DEF tvars, RunBanned, Pass
<1>c. /\ conf' = conf /\ co' = co /\ conf \in Machines
      /\ Countable' <=> Countable
      /\ KernelIsLegacy' <=> KernelIsLegacy
      /\ is_legacy_seccomp' <=> is_legacy_seccomp
      /\ Disturbed' <=> Disturbed
      /\ is_legacy_seccomp => KernelIsLegacy
      /\ KernelIsLegacy /\ Countable => conf.no_seccomp
      /\ \A k \in Inserted : k \notin conf.banned
  BY ConfSame DEF IndInv
<1>1. BaseInv'
  <2>1. TypeOK'
    BY <1>c DEF IndInv, BaseInv, TypeOK, Stops, Signals, Following
  <2> QED BY <1>c, <2>1 DEF IndInv, BaseInv, TypeOK, How, Following
<1>2. PhaseInv'
  <2> SUFFICES ASSUME Alive', Countable'
               PROVE  FilterInv' /\ NumberInv' /\ PositionInv'
    BY DEF PhaseInv
  <2>0. Alive /\ Countable /\ FilterInv /\ NumberInv /\ PositionInv
    BY <1>c DEF IndInv, PhaseInv, Alive
  <2>1. FilterInv'
    <3>1. co.pc = "ins_exit" /\ co.todo = <<"seccomp">> => cur = "seccomp"
      BY <2>0, LastInserted
    <3> QED BY <1>c, <2>0, <3>1 DEF IndInv, BaseInv, FilterInv, PositionInv, AwaitsExit, Exits, Following, Alive, Inserted
  <2>2. NumberInv'
    BY <1>c, <2>0 DEF NumberInv, Asks
  <2>3. PositionInv'
    BY <1>c, <2>0 DEF IndInv, BaseInv, TypeOK, PositionInv, AwaitsEntry, AwaitsSeccomp, AwaitsExit, Entries, Exits,
                      FirstPoint, Following, How, Signals, Alive
  <2> QED BY <2>1, <2>2, <2>3
<1>3. LegacyInv'
  BY <1>c DEF IndInv, BaseInv, TypeOK, LegacyInv, Exits, Following, How, Alive
<1>4. AskedInv'
  BY <1>c DEF IndInv, BaseInv, TypeOK, PhaseInv, FilterInv, NumberInv, PositionInv, AwaitsEntry, AwaitsSeccomp,
               AwaitsExit, AskedInv, SamePair, Entries, Exits, FirstPoint, Following, How, Alive, Asks
<1>5. NestInv'
  <2> SUFFICES ASSUME Alive', Countable', Between'
               PROVE  NestInv'
    BY DEF NestInv
  <2>1. Alive /\ Countable /\ Between /\ NestInv
    BY <1>c DEF IndInv, Between, Alive
  <2> QED BY <1>c, <2>1 DEF NestInv
<1> QED BY <1>1, <1>2, <1>3, <1>4, <1>5 DEF IndInv

\* A successful execve drops the handlers and what they interrupted.
LEMMA RunExecInv ==
    ASSUME IndInv, RunExec, UNCHANGED tvars
    PROVE  IndInv'
<1> USE DEF tvars, RunExec, Pass, Runs
<1>c. /\ conf' = conf /\ co' = co /\ conf \in Machines
      /\ Countable' <=> Countable
      /\ KernelIsLegacy' <=> KernelIsLegacy
      /\ is_legacy_seccomp' <=> is_legacy_seccomp
      /\ Disturbed' <=> Disturbed
      /\ is_legacy_seccomp => KernelIsLegacy
      /\ KernelIsLegacy /\ Countable => conf.no_seccomp
      /\ \A k \in Inserted : k \notin conf.banned
  BY ConfSame DEF IndInv
<1>1. BaseInv'
  <2>0. /\ <<>> \in Seq({<<>>} \cup (Kinds \X Kinds \X BOOLEAN)) /\ Len(<<>>) = 0
        /\ frames' = frames \/ (frames' = <<>> /\ again' = <<>>)
    OBVIOUS
  <2>1. TypeOK'
    <3>1. Len(frames') <= MaxNest
      <4>1. CASE frames' = frames
        BY <4>1 DEF IndInv, BaseInv, TypeOK
      <4>2. CASE frames' = <<>>
        <5>1. Len(frames') = 0
          BY <4>2
        <5> QED BY <5>1
      <4> QED BY <2>0, <4>1, <4>2
    <3>2. failed' \in BOOLEAN /\ handler' \in BOOLEAN /\ pend' \subseteq Signals
      BY DEF IndInv, BaseInv, TypeOK, Signals
    <3> QED BY <1>c, <3>1, <3>2, ZenonT(60) DEF IndInv, BaseInv, TypeOK, Stops, Signals, Following
  <2> QED BY <1>c, <2>0, <2>1 DEF IndInv, BaseInv, How, Following
<1>2. PhaseInv'
  <2> SUFFICES ASSUME Alive', Countable'
               PROVE  FilterInv' /\ NumberInv' /\ PositionInv'
    BY DEF PhaseInv
  <2>0. Alive /\ Countable /\ FilterInv /\ NumberInv /\ PositionInv
    BY <1>c DEF IndInv, PhaseInv, Alive
  <2>1. FilterInv'
    <3>1. co.pc = "ins_exit" /\ co.todo = <<"seccomp">> => cur = "seccomp"
      BY <2>0, LastInserted
    <3> QED BY <1>c, <2>0, <3>1 DEF IndInv, BaseInv, FilterInv, PositionInv, AwaitsExit, Exits, Following, Alive, Inserted
  <2>2. NumberInv'
    <3>1. <<>> \in Seq({<<>>} \cup (Asks \X Asks \X BOOLEAN))
      OBVIOUS
    <3>2. CASE frames' = frames /\ again' = again
      BY <1>c, <2>0, <3>2 DEF NumberInv
    <3>3. CASE frames' = <<>> /\ again' = <<>>
      BY <1>c, <2>0, <3>1, <3>3 DEF NumberInv
    <3> QED BY <3>2, <3>3
  <2>3. PositionInv'
    BY <1>c, <2>0, ZenonT(60) DEF IndInv, BaseInv, TypeOK, PositionInv, AwaitsEntry, AwaitsSeccomp, AwaitsExit, Entries, Exits,
                      FirstPoint, Following, How, Signals, Alive
  <2> QED BY <2>1, <2>2, <2>3
<1>3. LegacyInv'
  BY <1>c DEF IndInv, BaseInv, TypeOK, LegacyInv, Exits, Following, How, Alive
<1>4. AskedInv'
  <2> SUFFICES ASSUME Alive', Countable'
               PROVE  AskedInv'
    BY DEF AskedInv
  <2>1. CASE frames' = frames /\ again' = again /\ handler' = handler
    BY <1>c, <2>1 DEF IndInv, BaseInv, PhaseInv, PositionInv, AwaitsEntry, AwaitsSeccomp,
               AwaitsExit, AskedInv, SamePair, Entries, Exits, FirstPoint, Following, Alive
  <2>2. CASE frames' = <<>> /\ again' = <<>> /\ handler' = FALSE
    <3>1. SamePair(again') /\ \A i \in 1..Len(frames') : SamePair(frames'[i])
      BY <2>2 DEF SamePair
    <3> QED BY <1>c, <2>2, <3>1 DEF IndInv, BaseInv, PhaseInv, PositionInv, AwaitsEntry, AwaitsSeccomp,
               AwaitsExit, AskedInv, SamePair, Entries, Exits, FirstPoint, Following, Alive
  <2> QED BY <2>1, <2>2
<1>5. NestInv'
  <2> SUFFICES ASSUME Alive', Countable', Between'
               PROVE  FALSE
    BY DEF NestInv, Between
  <2>1. Alive /\ Countable /\ at = "run" /\ stop = "none" /\ cur = "exec" /\ cur \notin conf.banned
    BY <1>c DEF Alive, Runs
  <2> QED BY <1>c, <2>1, RunsBetween DEF Between, Inserted, Traced, Augmented
<1> QED BY <1>1, <1>2, <1>3, <1>4, <1>5 DEF IndInv

\* The event of a fork stops the tracee before its exit.
LEMMA RunForkInv ==
    ASSUME IndInv, RunFork, UNCHANGED tvars
    PROVE  IndInv'
<1> USE DEF tvars, RunFork, Runs
<1>c. /\ conf' = conf /\ co' = co /\ conf \in Machines
      /\ Countable' <=> Countable
      /\ KernelIsLegacy' <=> KernelIsLegacy
      /\ is_legacy_seccomp' <=> is_legacy_seccomp
      /\ Disturbed' <=> Disturbed
      /\ is_legacy_seccomp => KernelIsLegacy
      /\ KernelIsLegacy /\ Countable => conf.no_seccomp
      /\ \A k \in Inserted : k \notin conf.banned
  BY ConfSame DEF IndInv
<1>1. BaseInv'
  <2>1. TypeOK'
    BY <1>c DEF IndInv, BaseInv, TypeOK, Stops, Signals, Following
  <2> QED BY <1>c, <2>1 DEF IndInv, BaseInv, TypeOK, How, Following
<1>2. PhaseInv'
  <2> SUFFICES ASSUME Alive', Countable'
               PROVE  FilterInv' /\ NumberInv' /\ PositionInv'
    BY DEF PhaseInv
  <2>0. Alive /\ Countable /\ FilterInv /\ NumberInv /\ PositionInv
    BY <1>c DEF IndInv, PhaseInv, Alive
  <2>1. FilterInv'
    <3>1. co.pc = "ins_exit" /\ co.todo = <<"seccomp">> => cur = "seccomp"
      BY <2>0, LastInserted
    <3> QED BY <1>c, <2>0, <3>1 DEF IndInv, BaseInv, FilterInv, PositionInv, AwaitsExit, Exits, Following, Alive, Inserted
  <2>2. NumberInv'
    BY <1>c, <2>0 DEF NumberInv, Asks
  <2>3. PositionInv'
    BY <1>c, <2>0 DEF IndInv, BaseInv, TypeOK, PositionInv, AwaitsEntry, AwaitsSeccomp, AwaitsExit, Entries, Exits,
                      FirstPoint, Following, How, Signals, Alive
  <2> QED BY <2>1, <2>2, <2>3
<1>3. LegacyInv'
  BY <1>c DEF IndInv, BaseInv, TypeOK, LegacyInv, Exits, Following, How, Alive
<1>4. AskedInv'
  BY <1>c DEF IndInv, BaseInv, TypeOK, PhaseInv, FilterInv, NumberInv, PositionInv, AwaitsEntry, AwaitsSeccomp,
               AwaitsExit, AskedInv, SamePair, Entries, Exits, FirstPoint, Following, How, Alive, Asks
<1>5. NestInv'
  <2> SUFFICES ASSUME Alive', Countable', Between'
               PROVE  FALSE
    BY DEF NestInv, Between
  <2>1. Alive /\ Countable /\ at = "run" /\ stop = "none" /\ cur = "fork" /\ cur \notin conf.banned
    BY <1>c DEF Alive, Runs
  <2> QED BY <1>c, <2>1, RunsBetween DEF Between, Inserted, Traced, Augmented
<1> QED BY <1>1, <1>2, <1>3, <1>4, <1>5 DEF IndInv

\* After an exit only the end of the tracer follows.
LEMMA RunExitInv ==
    ASSUME IndInv, RunExit, UNCHANGED tvars
    PROVE  IndInv'
<1> USE DEF tvars, RunExit, Runs
<1>c. /\ conf' = conf /\ co' = co /\ conf \in Machines
      /\ Countable' <=> Countable
      /\ KernelIsLegacy' <=> KernelIsLegacy
      /\ is_legacy_seccomp' <=> is_legacy_seccomp
      /\ Disturbed' <=> Disturbed
      /\ is_legacy_seccomp => KernelIsLegacy
      /\ KernelIsLegacy /\ Countable => conf.no_seccomp
      /\ \A k \in Inserted : k \notin conf.banned
  BY ConfSame DEF IndInv
<1>1. BaseInv'
  <2>1. TypeOK'
    BY <1>c, ZenonT(60) DEF IndInv, BaseInv, TypeOK, Stops, Signals
  <2>2. again' = again /\ frames' = frames /\ mode' = mode /\ stop' = "exitevent"
    OBVIOUS
  <2> HIDE DEF RunExit, Runs, tvars
  <2> QED BY <1>c, <2>1, <2>2 DEF IndInv, BaseInv, How
<1>2. PhaseInv'
  BY DEF PhaseInv, Alive
<1>3. LegacyInv'
  BY DEF LegacyInv, Alive
<1>4. AskedInv'
  BY DEF AskedInv, Alive
<1>5. NestInv'
  BY DEF AskedInv, NestInv, Between, Alive
<1> QED BY <1>1, <1>2, <1>3, <1>4, <1>5 DEF IndInv

\* Only the inserted seccomp runs, and it installs the filter unless it fails.
LEMMA RunSeccompInv ==
    ASSUME IndInv, RunSeccomp, UNCHANGED tvars
    PROVE  IndInv'
<1> USE DEF tvars, RunSeccomp, Pass, Runs
<1>c. /\ conf' = conf /\ co' = co /\ conf \in Machines
      /\ Countable' <=> Countable
      /\ KernelIsLegacy' <=> KernelIsLegacy
      /\ is_legacy_seccomp' <=> is_legacy_seccomp
      /\ Disturbed' <=> Disturbed
      /\ is_legacy_seccomp => KernelIsLegacy
      /\ KernelIsLegacy /\ Countable => conf.no_seccomp
      /\ \A k \in Inserted : k \notin conf.banned
  BY ConfSame DEF IndInv
<1>1. BaseInv'
  <2>1. TypeOK'
    BY <1>c, ZenonT(60) DEF IndInv, BaseInv, TypeOK, Stops, Signals, Following
  <2> QED BY <1>c, <2>1, ZenonT(60) DEF IndInv, BaseInv, TypeOK, How, Following
<1>2. PhaseInv'
  <2> SUFFICES ASSUME Alive', Countable'
               PROVE  FilterInv' /\ NumberInv' /\ PositionInv'
    BY DEF PhaseInv
  <2>0. Alive /\ Countable /\ FilterInv /\ NumberInv /\ PositionInv
    BY <1>c DEF IndInv, PhaseInv, Alive
  <2>1. FilterInv'
    <3>1. co.pc = "ins_exit" /\ co.todo \in Plans \ {<<>>} /\ cur = Head(co.todo)
      BY <2>0 DEF NumberInv, Asks, Program, IndInv, BaseInv, TypeOK, Coroutine
    <3>2. Installs(co.todo)
      BY <3>1, PlanFacts
    <3>3. conf.root /\ ~conf.no_seccomp
      BY <2>0, <3>2 DEF FilterInv
    <3>4. failed' \/ filter'
      OBVIOUS
    <3>5. filter => filter'
      OBVIOUS
    <3> QED BY <1>c, <2>0, <3>3, <3>4, <3>5 DEF FilterInv
  <2>2. NumberInv'
    BY <1>c, <2>0 DEF NumberInv, Asks
  <2>3. PositionInv'
    BY <1>c, <2>0, ZenonT(60) DEF IndInv, BaseInv, TypeOK, PositionInv, AwaitsEntry, AwaitsSeccomp, AwaitsExit, Entries, Exits,
                      FirstPoint, Following, How, Signals, Alive
  <2> QED BY <2>1, <2>2, <2>3
<1>3. LegacyInv'
  BY <1>c DEF IndInv, BaseInv, TypeOK, LegacyInv, Exits, Following, How, Alive
<1>4. AskedInv'
  BY <1>c DEF IndInv, BaseInv, TypeOK, PhaseInv, FilterInv, NumberInv, PositionInv, AwaitsEntry, AwaitsSeccomp,
               AwaitsExit, AskedInv, SamePair, Entries, Exits, FirstPoint, Following, How, Alive, Asks
<1>5. NestInv'
  <2> SUFFICES ASSUME Alive', Countable', Between'
               PROVE  NestInv'
    BY DEF NestInv
  <2>1. Alive /\ Countable /\ Between /\ NestInv
    BY <1>c DEF IndInv, Between, Alive
  <2> QED BY <1>c, <2>1 DEF NestInv
<1> QED BY <1>1, <1>2, <1>3, <1>4, <1>5 DEF IndInv

\* What a handler interrupted goes on.
LEMMA RunSigreturnInv ==
    ASSUME IndInv, RunSigreturn, UNCHANGED tvars
    PROVE  IndInv'
<1> USE DEF tvars, RunSigreturn, Pass, Runs
<1>c. /\ conf' = conf /\ co' = co /\ conf \in Machines
      /\ Countable' <=> Countable
      /\ KernelIsLegacy' <=> KernelIsLegacy
      /\ is_legacy_seccomp' <=> is_legacy_seccomp
      /\ Disturbed' <=> Disturbed
      /\ is_legacy_seccomp => KernelIsLegacy
      /\ KernelIsLegacy /\ Countable => conf.no_seccomp
      /\ \A k \in Inserted : k \notin conf.banned
  BY ConfSame DEF IndInv
<1>1. BaseInv'
  <2>0. /\ again' \in {<<>>} \cup (Kinds \X Kinds \X BOOLEAN)
        /\ frames' \in Seq({<<>>} \cup (Kinds \X Kinds \X BOOLEAN)) /\ Len(frames') <= MaxNest
    <3>1. frames \in Seq({<<>>} \cup (Kinds \X Kinds \X BOOLEAN)) /\ Len(frames) <= MaxNest /\ frames # <<>>
      BY DEF IndInv, BaseInv, TypeOK
    <3>2. Len(frames) \in Nat /\ Len(Front(frames)) = Len(frames) - 1
      BY <3>1, FrontLast
    <3> QED BY <3>1, <3>2, FrontLast
  <2>1. TypeOK'
    BY <1>c, <2>0 DEF IndInv, BaseInv, TypeOK, Stops, Signals, Following
  <2> QED BY <1>c, <2>0, <2>1 DEF IndInv, BaseInv, How, Following
<1>2. PhaseInv'
  <2> SUFFICES ASSUME Alive', Countable'
               PROVE  FilterInv' /\ NumberInv' /\ PositionInv'
    BY DEF PhaseInv
  <2>0. Alive /\ Countable /\ FilterInv /\ NumberInv /\ PositionInv
    BY <1>c DEF IndInv, PhaseInv, Alive
  <2>1. FilterInv'
    <3>1. co.pc = "ins_exit" /\ co.todo = <<"seccomp">> => cur = "seccomp"
      BY <2>0, LastInserted
    <3> QED BY <1>c, <2>0, <3>1 DEF IndInv, BaseInv, FilterInv, PositionInv, AwaitsExit, Exits, Following, Alive, Inserted
  <2>2. NumberInv'
    <3>1. /\ again' \in {<<>>} \cup (Asks \X Asks \X BOOLEAN)
          /\ frames' \in Seq({<<>>} \cup (Asks \X Asks \X BOOLEAN))
      BY <2>0, FrontLast DEF NumberInv
    <3> QED BY <1>c, <2>0, <3>1 DEF NumberInv
  <2>3. PositionInv'
    BY <1>c, <2>0, ZenonT(60) DEF IndInv, BaseInv, TypeOK, PositionInv, AwaitsEntry, AwaitsSeccomp, AwaitsExit, Entries, Exits,
                      FirstPoint, Following, How, Signals, Alive
  <2> QED BY <2>1, <2>2, <2>3
<1>3. LegacyInv'
  BY <1>c DEF IndInv, BaseInv, TypeOK, LegacyInv, Exits, Following, How, Alive
<1>4. AskedInv'
  <2> SUFFICES ASSUME Alive', Countable'
               PROVE  AskedInv'
    BY DEF AskedInv
  <2>1. frames \in Seq({<<>>} \cup (Kinds \X Kinds \X BOOLEAN)) /\ Alive /\ Countable
    BY <1>c DEF IndInv, BaseInv, Alive
  <2>2. SamePair(again') /\ \A i \in 1..Len(frames') : SamePair(frames'[i])
    <3> DEFINE n == Len(frames)
    <3>1. /\ n \in Nat /\ n > 0 /\ again' = frames[n]
          /\ \A i \in 1..Len(frames') : i \in 1..n /\ frames'[i] = frames[i]
      BY <2>1, FrontLast
    <3>2. \A i \in 1..n : SamePair(frames[i])
      BY <2>1 DEF IndInv, AskedInv
    <3>3. SamePair(frames[n])
      BY <3>1, <3>2
    <3> QED BY <3>1, <3>2, <3>3 DEF SamePair
  <2>3. conf.handlers
    BY <1>c, <2>1 DEF IndInv, AskedInv
  <2>4. at = "run" /\ stop = "none"
    OBVIOUS
  <2> QED BY <1>c, <2>1, <2>2, <2>3, <2>4 DEF IndInv, PhaseInv, PositionInv, AwaitsEntry, AwaitsSeccomp,
               AwaitsExit, AskedInv, SamePair, Entries, Exits, FirstPoint, Following, Alive
<1>5. NestInv'
  <2> SUFFICES ASSUME Alive', Countable', Between'
               PROVE  NestInv'
    BY DEF NestInv, Between
  <2>a. Alive /\ Countable /\ at = "run" /\ stop = "none" /\ cur = "sigreturn"
    BY <1>c DEF Alive, Runs
  <2>b. /\ frames \in Seq({<<>>} \cup (Kinds \X Kinds \X BOOLEAN)) /\ saved \in Nat
        /\ frames # <<>> /\ frames' = Front(frames) /\ again' = Last(frames) /\ saved' = saved
    BY SizeFacts DEF IndInv
  <2> HIDE DEF RunSigreturn, Pass, tvars
  <2>1. /\ Alive /\ Countable /\ at = "run" /\ stop = "none" /\ cur = "sigreturn"
        /\ frames \in Seq({<<>>} \cup (Kinds \X Kinds \X BOOLEAN)) /\ saved \in Nat
    BY <2>a, <2>b
  <2>2. co.pc = "ins_entry" /\ again = <<>> /\ saved < Len(frames)
    BY <1>c, <2>1, RunsBetween DEF Between, Inserted
  <2> DEFINE n == Len(frames)
  <2>3. /\ n \in Nat /\ n > 0 /\ again' = frames[n] /\ Len(frames') = n - 1
        /\ \A i \in 1..Len(frames') : i \in 1..n /\ frames'[i] = frames[i]
    BY <2>b, FrontLast
  <2>n. saved \in Nat /\ saved' = saved /\ saved < n
    BY <2>b, <2>2
  <2> HIDE DEF n
  <2>4. /\ \A i \in 1..n : i > saved => frames[i] = <<>> \/ frames[i][1] = co.orig_syscall_num
        /\ frames[saved + 1] # <<>>
        /\ co.tracee_seccomp_init_complete => co.orig_syscall_num \in Traced \ conf.banned
        /\ conf.root /\ ~conf.no_seccomp
    BY <1>c, <2>1, <2>2 DEF IndInv, NestInv, Between, n
  <2>5. saved' = saved /\ saved <= Len(frames')
    BY <2>n, <2>3
  <2>6. again' = <<>> \/ again'[1] = co.orig_syscall_num
    BY <2>n, <2>3, <2>4
  <2>7. again' = <<>> => saved < Len(frames')
    <3>1. CASE saved + 1 = n
      BY <2>3, <2>4, <3>1
    <3>2. CASE saved + 1 < n
      BY <2>n, <2>3, <3>2
    <3>3. saved + 1 = n \/ saved + 1 < n
      BY <2>n, <2>3
    <3> QED BY <3>1, <3>2, <3>3
  <2>8. saved < Len(frames') => frames'[saved + 1] # <<>>
    BY <2>n, <2>3, <2>4
  <2>9. \A i \in 1..Len(frames') : i > saved => frames'[i] = <<>> \/ frames'[i][1] = co.orig_syscall_num
    BY <2>3, <2>4
  <2> QED BY <1>c, <2>4, <2>5, <2>6, <2>7, <2>8, <2>9 DEF NestInv, Between
<1> QED BY <1>1, <1>2, <1>3, <1>4, <1>5 DEF IndInv

\* The other syscalls; an inserted one installs no handler.
LEMMA RunOtherInv ==
    ASSUME IndInv, RunOther, UNCHANGED tvars
    PROVE  IndInv'
<1> USE DEF tvars, RunOther, Pass
<1>c. /\ conf' = conf /\ co' = co /\ conf \in Machines
      /\ Countable' <=> Countable
      /\ KernelIsLegacy' <=> KernelIsLegacy
      /\ is_legacy_seccomp' <=> is_legacy_seccomp
      /\ Disturbed' <=> Disturbed
      /\ is_legacy_seccomp => KernelIsLegacy
      /\ KernelIsLegacy /\ Countable => conf.no_seccomp
      /\ \A k \in Inserted : k \notin conf.banned
  BY ConfSame DEF IndInv
<1>1. BaseInv'
  <2>1. TypeOK'
    BY <1>c, ZenonT(60) DEF IndInv, BaseInv, TypeOK, Stops, Signals, Following
  <2> QED BY <1>c, <2>1, ZenonT(60) DEF IndInv, BaseInv, TypeOK, How, Following
<1>2. PhaseInv'
  <2> SUFFICES ASSUME Alive', Countable'
               PROVE  FilterInv' /\ NumberInv' /\ PositionInv'
    BY DEF PhaseInv
  <2>0. Alive /\ Countable /\ FilterInv /\ NumberInv /\ PositionInv
    BY <1>c DEF IndInv, PhaseInv, Alive
  <2>1. FilterInv'
    <3>1. co.pc = "ins_exit" /\ co.todo = <<"seccomp">> => cur = "seccomp"
      BY <2>0, LastInserted
    <3> QED BY <1>c, <2>0, <3>1 DEF IndInv, BaseInv, FilterInv, PositionInv, AwaitsExit, Exits, Following, Alive, Inserted
  <2>2. NumberInv'
    BY <1>c, <2>0 DEF NumberInv, Asks
  <2>3. PositionInv'
    BY <1>c, <2>0, ZenonT(60) DEF IndInv, BaseInv, TypeOK, PositionInv, AwaitsEntry, AwaitsSeccomp, AwaitsExit, Entries, Exits,
                      FirstPoint, Following, How, Signals, Alive
  <2> QED BY <2>1, <2>2, <2>3
<1>3. LegacyInv'
  BY <1>c DEF IndInv, BaseInv, TypeOK, LegacyInv, Exits, Following, How, Alive
<1>4. AskedInv'
  BY <1>c DEF IndInv, BaseInv, TypeOK, PhaseInv, FilterInv, NumberInv, PositionInv, AwaitsEntry, AwaitsSeccomp,
               AwaitsExit, AskedInv, SamePair, Entries, Exits, FirstPoint, Following, How, Alive, Asks
<1>5. NestInv'
  <2> SUFFICES ASSUME Alive', Countable', Between'
               PROVE  NestInv'
    BY DEF NestInv
  <2>1. Alive /\ Countable /\ Between /\ NestInv
    BY <1>c DEF IndInv, Between, Alive
  <2> QED BY <1>c, <2>1 DEF NestInv
<1> QED BY <1>1, <1>2, <1>3, <1>4, <1>5 DEF IndInv

\* A signal stops the tracee on its way back to user mode.
LEMMA DeliverSignalInv ==
    ASSUME IndInv, DeliverSignal, UNCHANGED tvars
    PROVE  IndInv'
<1> USE DEF tvars, DeliverSignal, Deliverable
<1>c. /\ conf' = conf /\ co' = co /\ conf \in Machines
      /\ Countable' <=> Countable
      /\ KernelIsLegacy' <=> KernelIsLegacy
      /\ is_legacy_seccomp' <=> is_legacy_seccomp
      /\ Disturbed' <=> Disturbed
      /\ is_legacy_seccomp => KernelIsLegacy
      /\ KernelIsLegacy /\ Countable => conf.no_seccomp
      /\ \A k \in Inserted : k \notin conf.banned
  BY ConfSame DEF IndInv
<1>1. BaseInv'
  <2>1. TypeOK'
    BY <1>c DEF IndInv, BaseInv, TypeOK, Stops, Signals
  <2>2. Len(frames) \in Nat /\ Len(frames) <= MaxNest
    BY LenProperties DEF IndInv, BaseInv, TypeOK
  <2>3. stop' \in {"SIGX", "SIGSEGV"} /\ handler' => Len(frames') < MaxNest
    BY <2>2
  <2>4. stop' # "seccomp"
    BY DEF IndInv, BaseInv, TypeOK, Signals
  <2> QED BY <1>c, <2>1, <2>3, <2>4 DEF IndInv, BaseInv, How
<1>2. PhaseInv'
  <2> SUFFICES ASSUME Alive', Countable'
               PROVE  FilterInv' /\ NumberInv' /\ PositionInv'
    BY DEF PhaseInv
  <2>0. Alive /\ Countable /\ FilterInv /\ NumberInv /\ PositionInv
    BY <1>c DEF IndInv, PhaseInv, Alive
  <2>1. FilterInv'
    <3>1. co.pc = "ins_exit" /\ co.todo = <<"seccomp">> => cur = "seccomp"
      BY <2>0, LastInserted
    <3> QED BY <1>c, <2>0, <3>1 DEF IndInv, BaseInv, FilterInv, PositionInv, AwaitsExit, Exits, Following, Alive, Inserted
  <2>2. NumberInv'
    BY <1>c, <2>0 DEF NumberInv, Asks
  <2>3. PositionInv'
    BY <1>c, <2>0 DEF IndInv, BaseInv, TypeOK, PositionInv, AwaitsEntry, AwaitsSeccomp, AwaitsExit, Entries, Exits,
                      FirstPoint, Following, How, Signals, Alive
  <2> QED BY <2>1, <2>2, <2>3
<1>3. LegacyInv'
  BY <1>c DEF IndInv, BaseInv, TypeOK, LegacyInv, Exits, Following, How, Alive
<1>4. AskedInv'
  BY <1>c DEF IndInv, BaseInv, TypeOK, PhaseInv, FilterInv, NumberInv, PositionInv, AwaitsEntry, AwaitsSeccomp,
               AwaitsExit, AskedInv, SamePair, Entries, Exits, FirstPoint, Following, How, Alive, Asks
<1>5. NestInv'
  <2> SUFFICES ASSUME Alive', Countable', Between'
               PROVE  NestInv'
    BY DEF NestInv
  <2>1. Alive /\ Countable /\ Between /\ NestInv
    BY <1>c DEF IndInv, Between, Alive
  <2> QED BY <1>c, <2>1 DEF NestInv
<1> QED BY <1>1, <1>2, <1>3, <1>4, <1>5 DEF IndInv

\* SIGKILL.
LEMMA KillInv ==
    ASSUME IndInv, Kill, UNCHANGED tvars
    PROVE  IndInv'
<1> USE DEF tvars, Kill
<1>c. /\ conf' = conf /\ co' = co /\ conf \in Machines
      /\ Countable' <=> Countable
      /\ KernelIsLegacy' <=> KernelIsLegacy
      /\ is_legacy_seccomp' <=> is_legacy_seccomp
      /\ Disturbed' <=> Disturbed
      /\ is_legacy_seccomp => KernelIsLegacy
      /\ KernelIsLegacy /\ Countable => conf.no_seccomp
      /\ \A k \in Inserted : k \notin conf.banned
  BY ConfSame DEF IndInv
<1>1. BaseInv'
  <2>1. TypeOK'
    <3>1. raised' \in 0..MaxSignals
      <4>1. raised \in 0..MaxSignals /\ raised < MaxSignals /\ raised' = raised + 1
        BY DEF IndInv, BaseInv, TypeOK
      <4> QED BY <4>1
    <3> QED BY <1>c, <3>1, ZenonT(60) DEF IndInv, BaseInv, TypeOK, Stops
  <2>2. again' = again /\ frames' = frames /\ mode' = mode /\ stop' = "dead"
    OBVIOUS
  <2> HIDE DEF tvars, Kill
  <2> QED BY <1>c, <2>1, <2>2 DEF IndInv, BaseInv, How
<1>2. PhaseInv'
  BY DEF PhaseInv, Alive
<1>3. LegacyInv'
  BY DEF LegacyInv, Alive
<1>4. AskedInv'
  BY DEF AskedInv, Alive
<1>5. NestInv'
  BY DEF AskedInv, NestInv, Between, Alive
<1> QED BY <1>1, <1>2, <1>3, <1>4, <1>5 DEF IndInv

\* A signal from outside becomes pending.
LEMMA RaiseInv ==
    ASSUME IndInv, NEW s \in {"SIGX", "SIGSEGV", "SIGSTOP"}, Raise(s), UNCHANGED tvars
    PROVE  IndInv'
<1> USE DEF tvars, Raise
<1>c. /\ conf' = conf /\ co' = co /\ conf \in Machines
      /\ Countable' <=> Countable
      /\ KernelIsLegacy' <=> KernelIsLegacy
      /\ is_legacy_seccomp' <=> is_legacy_seccomp
      /\ Disturbed' <=> Disturbed
      /\ is_legacy_seccomp => KernelIsLegacy
      /\ KernelIsLegacy /\ Countable => conf.no_seccomp
      /\ \A k \in Inserted : k \notin conf.banned
  BY ConfSame DEF IndInv
<1>1. BaseInv'
  <2>1. TypeOK'
    <3>1. raised' \in 0..MaxSignals
      <4>1. raised \in 0..MaxSignals /\ raised < MaxSignals /\ raised' = raised + 1
        BY DEF IndInv, BaseInv, TypeOK
      <4> QED BY <4>1
    <3>2. {failed', handler', filter', ignored'} \subseteq BOOLEAN /\ pend' \subseteq Signals
      BY DEF IndInv, BaseInv, TypeOK, Signals
    <3>3. /\ UNCHANGED <<conf, at, stop, mode, cur, asked, frames>>
          /\ UNCHANGED <<co, yielder, result, seen, saved, mistaken>>
      BY <1>c
    <3>4. TypeOK
      BY DEF IndInv, BaseInv
    <3> HIDE DEF tvars, Raise
    <3> QED BY <3>1, <3>2, <3>3, <3>4 DEF TypeOK, Stops
  <2> QED BY <1>c, <2>1 DEF IndInv, BaseInv, How, Following
<1>2. PhaseInv'
  <2> SUFFICES ASSUME Alive', Countable'
               PROVE  FilterInv' /\ NumberInv' /\ PositionInv'
    BY DEF PhaseInv
  <2>0. Alive /\ Countable /\ FilterInv /\ NumberInv /\ PositionInv
    BY <1>c DEF IndInv, PhaseInv, Alive
  <2>1. FilterInv'
    BY <1>c, <2>0 DEF FilterInv
  <2>2. NumberInv'
    BY <1>c, <2>0 DEF NumberInv
  <2>3. PositionInv'
    BY <1>c, <2>0 DEF PositionInv, AwaitsEntry, AwaitsSeccomp, AwaitsExit, FirstPoint, Following
  <2> QED BY <2>1, <2>2, <2>3
<1>3. LegacyInv'
  BY <1>c DEF IndInv, LegacyInv, Alive
<1>4. AskedInv'
  BY <1>c DEF IndInv, AskedInv, Alive, SamePair
<1>5. NestInv'
  BY <1>c DEF IndInv, AskedInv, NestInv, Between, Alive, SamePair
<1> QED BY <1>1, <1>2, <1>3, <1>4, <1>5 DEF IndInv

\* aug_waitpid.rs of the parent.
LEMMA ParentWaitedInv ==
    ASSUME IndInv, ParentWaited
    PROVE  IndInv'
<1> USE DEF ParentWaited, kvars
<1>c. /\ conf' = conf /\ co' = co /\ conf \in Machines
      /\ Countable' <=> Countable
      /\ KernelIsLegacy' <=> KernelIsLegacy
      /\ is_legacy_seccomp' <=> is_legacy_seccomp
      /\ Disturbed' <=> Disturbed
      /\ is_legacy_seccomp => KernelIsLegacy
      /\ KernelIsLegacy /\ Countable => conf.no_seccomp
      /\ \A k \in Inserted : k \notin conf.banned
  BY ConfSame DEF IndInv
<1>1. BaseInv'
  <2>1. TypeOK'
    <3>1. raised' \in 0..MaxSignals
      BY DEF IndInv, BaseInv, TypeOK
    <3>2. {failed', handler', filter', ignored'} \subseteq BOOLEAN /\ pend' \subseteq Signals
      BY DEF IndInv, BaseInv, TypeOK, Signals
    <3>3. /\ UNCHANGED <<conf, at, stop, mode, cur, asked, frames>>
          /\ UNCHANGED <<co, yielder, result, seen, saved, mistaken>>
      BY <1>c
    <3>4. TypeOK
      BY DEF IndInv, BaseInv
    <3> HIDE DEF ParentWaited, kvars
    <3> QED BY <3>1, <3>2, <3>3, <3>4 DEF TypeOK, Stops
  <2> QED BY <1>c, <2>1 DEF IndInv, BaseInv, How, Following
<1>2. PhaseInv'
  <2> SUFFICES ASSUME Alive', Countable'
               PROVE  FilterInv' /\ NumberInv' /\ PositionInv'
    BY DEF PhaseInv
  <2>0. Alive /\ Countable /\ FilterInv /\ NumberInv /\ PositionInv
    BY <1>c DEF IndInv, PhaseInv, Alive
  <2>1. FilterInv'
    BY <1>c, <2>0 DEF FilterInv
  <2>2. NumberInv'
    BY <1>c, <2>0 DEF NumberInv
  <2>3. PositionInv'
    BY <1>c, <2>0 DEF PositionInv, AwaitsEntry, AwaitsSeccomp, AwaitsExit, FirstPoint, Following
  <2> QED BY <2>1, <2>2, <2>3
<1>3. LegacyInv'
  BY <1>c DEF IndInv, LegacyInv, Alive
<1>4. AskedInv'
  BY <1>c DEF IndInv, AskedInv, Alive, SamePair
<1>5. NestInv'
  BY <1>c DEF IndInv, AskedInv, NestInv, Between, Alive, SamePair
<1> QED BY <1>1, <1>2, <1>3, <1>4, <1>5 DEF IndInv

\* The program is in user mode, so that no syscall is open.
LEMMA NewSyscallInv ==
    ASSUME IndInv, NewSyscall
    PROVE  IndInv'
<1> USE DEF NewSyscall, Issue
<1>c. /\ conf' = conf /\ co' = co /\ conf \in Machines
      /\ Countable' <=> Countable
      /\ KernelIsLegacy' <=> KernelIsLegacy
      /\ is_legacy_seccomp' <=> is_legacy_seccomp
      /\ Disturbed' <=> Disturbed
      /\ is_legacy_seccomp => KernelIsLegacy
      /\ KernelIsLegacy /\ Countable => conf.no_seccomp
      /\ \A k \in Inserted : k \notin conf.banned
  BY ConfSame DEF IndInv
<1>1. BaseInv'
  <2>1. TypeOK'
    <3>1. cur' \in Kinds /\ asked' \in Kinds
      BY DEF IndInv, BaseInv, TypeOK, Kinds
    <3>2. at' \in {"user", "entry", "seccomp", "run", "exit"}
      BY DEF FirstPoint
    <3> QED BY <1>c, <3>1, <3>2 DEF IndInv, BaseInv, TypeOK, Stops, Signals
  <2> QED BY <1>c, <2>1 DEF IndInv, BaseInv, How
<1>2. PhaseInv'
  <2> SUFFICES ASSUME Alive', Countable'
               PROVE  FilterInv' /\ NumberInv' /\ PositionInv'
    BY DEF PhaseInv
  <2>0. Alive /\ Countable /\ FilterInv /\ NumberInv /\ PositionInv
    BY <1>c DEF IndInv, PhaseInv, Alive
  <2>1. FilterInv'
    <3>1. co.pc = "ins_exit" /\ co.todo = <<"seccomp">> => cur = "seccomp"
      BY <2>0, LastInserted
    <3> QED BY <1>c, <2>0, <3>1 DEF IndInv, BaseInv, FilterInv, PositionInv, AwaitsExit, Exits, Following, Alive, Inserted
  <2>2. NumberInv'
    <3>1. co.pc # "ins_exit"
      BY <2>0 DEF PositionInv, AwaitsExit, Exits
    <3>2. cur' \in Asks /\ asked' \in Asks
      BY <2>0 DEF NumberInv, Asks
    <3> QED BY <1>c, <2>0, <3>1, <3>2 DEF NumberInv
  <2>3. PositionInv'
    BY <1>c, <2>0 DEF IndInv, BaseInv, TypeOK, PositionInv, AwaitsEntry, AwaitsSeccomp, AwaitsExit, Entries, Exits,
                      FirstPoint, Following, How, Signals, Alive
  <2> QED BY <2>1, <2>2, <2>3
<1>3. LegacyInv'
  BY <1>c DEF IndInv, BaseInv, TypeOK, LegacyInv, Exits, Following, How, Alive
<1>4. AskedInv'
  <2> SUFFICES ASSUME Alive', Countable'
               PROVE  AskedInv'
    BY DEF AskedInv
  <2>0. /\ Alive /\ Countable /\ at = "user" /\ stop = "none" /\ PositionInv
    BY <1>c DEF IndInv, PhaseInv, Alive
  <2>1. co.pc \notin Exits
    BY <2>0 DEF PositionInv, AwaitsExit
  <2>2. cur' = asked' \/ mistaken'
    BY <2>0 DEF IndInv, AskedInv, SamePair
  <2>3. mistaken' => Disturbed
    BY <2>0 DEF IndInv, AskedInv, SamePair
  <2>5. at' \in {"entry", "seccomp"} /\ stop' = "none" /\ again' = <<>> /\ SamePair(again')
    BY DEF FirstPoint, SamePair
  <2>6. frames' = frames /\ handler' = handler
    OBVIOUS
  <2> HIDE DEF NewSyscall, Issue
  <2> QED BY <1>c, <2>0, <2>1, <2>2, <2>3, <2>5, <2>6 DEF IndInv, AskedInv, SamePair, Exits
<1>5. NestInv'
  <2> SUFFICES ASSUME Alive', Countable', Between'
               PROVE  NestInv'
    BY DEF NestInv, Between
  <2>0. Alive /\ Countable /\ at = "user" /\ stop = "none" /\ PositionInv
    BY <1>c DEF IndInv, PhaseInv, Alive
  <2>1. co.pc \notin Exits
    BY <2>0 DEF PositionInv, AwaitsExit
  <2>2. NestInv /\ (again = <<>> => Len(frames) > saved) /\ (again # <<>> => cur' = co.orig_syscall_num)
    BY <1>c, <2>0, <2>1 DEF IndInv, BaseInv, TypeOK, Coroutine, Exits, NestInv, Between
  <2>3. at' \in {"entry", "seccomp"} /\ again' = <<>> /\ frames' = frames /\ saved' = saved
    BY DEF FirstPoint
  <2> HIDE DEF NewSyscall, Issue
  <2> QED BY <1>c, <2>0, <2>1, <2>2, <2>3 DEF NestInv, Between, Exits
<1> QED BY <1>1, <1>2, <1>3, <1>4, <1>5 DEF IndInv

-------------------------------------------------------------------------------
(* The stops the coroutine waits for.                                        *)

\* Where the tracee is at a stop that is handled as an entry,
LEMMA AtEntry ==
    ASSUME BaseInv, PositionInv, co.pc \in Entries, Awaits(co, stop)
    PROVE  /\ stop \in {"entry", "seccomp"} /\ at # "user" /\ at # "exit"
           /\ at = "run" \/ (at = "seccomp" /\ ~KernelIsLegacy)
           /\ co.resume_through_syscall <=> ~co.tracee_seccomp_init_complete
           /\ co.tracee_seccomp_init_complete => cur \in Traced \ conf.banned
BY DEF BaseInv, PositionInv, AwaitsEntry, AwaitsSeccomp, Awaits, Following, Signals

\* and as an exit.
LEMMA AtExit ==
    ASSUME PositionInv, co.pc \in Exits, Awaits(co, stop)
    PROVE  stop = "exit" /\ at = "user" /\ co.resume_through_syscall /\ seen # "no"
BY DEF PositionInv, AwaitsExit, Awaits

\* An entry that is remembered from a seccomp stop.
LEMMA AtSeccomp ==
    ASSUME BaseInv, Awaits(co, stop), stop = "seccomp"
    PROVE  /\ ~co.resume_through_syscall /\ co.tracee_seccomp_init_complete /\ ~conf.no_seccomp
           /\ at = IF KernelIsLegacy THEN "entry" ELSE "run"
BY DEF BaseInv, Awaits, Following

\* The entry of a syscall of the program, and the switch to seccomp stops.
LEMMA SyscallEntryInv ==
    ASSUME IndInv, co.pc = "entry", Awaits(co, stop), cur' = cur \/ (cur \in {"aug", "exec"} /\ cur' = "nomod"),
           seen' = stop, Continue(AfterEntry(co)), UNCHANGED <<again, yielder, saved, mistaken>>
    PROVE  IndInv'
<1> USE DEF Continue, Resume
<1>c. /\ conf' = conf /\ conf \in Machines
      /\ Countable' <=> Countable
      /\ KernelIsLegacy' <=> KernelIsLegacy
      /\ is_legacy_seccomp' <=> is_legacy_seccomp
      /\ Disturbed' <=> Disturbed
      /\ is_legacy_seccomp => KernelIsLegacy
      /\ KernelIsLegacy /\ Countable => conf.no_seccomp
      /\ \A k \in Inserted : k \notin conf.banned
  BY ConfSame DEF IndInv
<1>f. /\ co' \in Coroutine /\ co'.pc = "exit" /\ co'.todo = co.todo /\ co'.orig_syscall_num = ""
      /\ co'.tracee_seccomp_init_complete
           <=> IF co.is_first_loop_after_init THEN ~conf.no_seccomp ELSE co.tracee_seccomp_init_complete
      /\ ~co'.is_first_loop_after_init
      /\ co'.resume_through_syscall <=> (\/ ~co'.tracee_seccomp_init_complete
                                         \/ co.is_first_loop_after_init \/ ~co.resume_through_syscall)
      /\ co'.expects_syscall_exit <=> (co.is_first_loop_after_init \/ ~co.resume_through_syscall)
      /\ ~co'.extra_round
  BY AfterEntryFacts DEF IndInv, BaseInv
<1>g. co.todo = <<>> /\ mode' = How(co') /\ stop' = "none" /\ cur' \in {cur, "nomod"}
  BY DEF IndInv, BaseInv
<1>1. BaseInv'
  <2>1. TypeOK'
    <3>1. mode' \in {"syscall", "cont"} /\ stop' \in Stops /\ {cur', asked'} \subseteq Kinds
      BY <1>g DEF How, Stops, IndInv, BaseInv, TypeOK, Kinds, Program
    <3>2. seen' \in {"entry", "exit", "seccomp"}
      BY DEF Awaits
    <3> QED BY <1>c, <1>f, <3>1, <3>2 DEF IndInv, BaseInv, TypeOK
  <2> QED BY <1>c, <1>f, <1>g, <2>1 DEF IndInv, BaseInv
<1>2. PhaseInv'
  <2> SUFFICES ASSUME Alive', Countable'
               PROVE  FilterInv' /\ NumberInv' /\ PositionInv'
    BY DEF PhaseInv
  <2>0. Alive /\ Countable /\ FilterInv /\ NumberInv /\ PositionInv
    BY <1>c DEF IndInv, PhaseInv, Alive, Awaits
  <2>1. FilterInv'
    <3>1. ~Installs(co.todo)
      BY <1>g DEF Installs
    <3> QED BY <1>c, <1>f, <2>0, <3>1 DEF FilterInv
  <2>2. NumberInv'
    <3>1. cur \in Asks /\ cur' \in Asks
      BY <1>g, <2>0 DEF NumberInv, Asks, Program
    <3> QED BY <1>c, <1>f, <2>0, <3>1 DEF NumberInv
  <2>3. PositionInv'
    <3>1. /\ stop \in {"entry", "seccomp"}
          /\ at = "run" \/ (at = "seccomp" /\ ~KernelIsLegacy)
          /\ co.resume_through_syscall <=> ~co.tracee_seccomp_init_complete
      BY <2>0, AtEntry DEF IndInv, Entries
    <3>2. AwaitsExit'
      BY <1>c, <1>g, <3>1 DEF AwaitsExit
    <3>3. co'.resume_through_syscall
      BY <1>f, <3>1
    <3>4. seen' # "no"
      BY <3>1
    <3> QED BY <1>f, <3>2, <3>3, <3>4 DEF PositionInv, Entries, Exits
  <2> QED BY <2>1, <2>2, <2>3
<1>3. LegacyInv'
  <2> SUFFICES ASSUME is_legacy_seccomp, stop = "seccomp"
               PROVE  LegacyInv'
    BY <1>c DEF LegacyInv
  <2>1. /\ ~co.resume_through_syscall /\ co.tracee_seccomp_init_complete /\ ~conf.no_seccomp
        /\ at = "entry"
    BY <1>c, AtSeccomp DEF IndInv
  <2> QED BY <1>f, <1>g, <2>1 DEF LegacyInv
<1>4. AskedInv'
  <2> SUFFICES ASSUME Alive', Countable'
               PROVE  AskedInv'
    BY DEF AskedInv
  <2>0. Alive /\ Countable /\ PositionInv
    BY <1>c DEF IndInv, PhaseInv, Alive, Awaits
  <2>1. cur = asked \/ mistaken
    BY <2>0, AtEntry DEF IndInv, AskedInv, Entries
  <2>2. mistaken \/ cur' = asked \/ (cur' = "nomod" /\ asked \in {"aug", "exec"})
    BY <2>1
  <2> QED BY <1>c, <1>f, <2>0, <2>2 DEF IndInv, AskedInv, SamePair, Entries
<1>5. NestInv'
  BY <1>f DEF NestInv, Between
<1> QED BY <1>1, <1>2, <1>3, <1>4, <1>5 DEF IndInv

\* The exit of a syscall of the program, and the plan of an initialisation.
LEMMA SyscallExitInv ==
    ASSUME IndInv, co.pc = "exit", Awaits(co, stop), Continue(AfterExit(co)), yielder' = Unblocked,
           UNCHANGED <<cur, again, seen, saved, mistaken>>
    PROVE  IndInv'
<1> USE DEF Continue, Resume
<1>c. /\ conf' = conf /\ conf \in Machines
      /\ Countable' <=> Countable
      /\ KernelIsLegacy' <=> KernelIsLegacy
      /\ is_legacy_seccomp' <=> is_legacy_seccomp
      /\ Disturbed' <=> Disturbed
      /\ is_legacy_seccomp => KernelIsLegacy
      /\ KernelIsLegacy /\ Countable => conf.no_seccomp
      /\ \A k \in Inserted : k \notin conf.banned
  BY ConfSame DEF IndInv
<1>f. /\ co' \in Coroutine
      /\ co'.todo = IF cur = "exec" THEN Initialisation ELSE co.todo
      /\ co'.pc = IF co'.todo # <<>> THEN "ins_entry" ELSE "entry"
      /\ co'.is_first_loop_after_init <=> cur = "exec" \/ co.is_first_loop_after_init
      /\ co'.tracee_seccomp_init_complete <=> co.tracee_seccomp_init_complete
      /\ co'.orig_syscall_num = co.orig_syscall_num
      /\ co'.resume_through_syscall <=> (~co.tracee_seccomp_init_complete \/ ~co.resume_through_syscall)
  BY AfterExitFacts DEF IndInv, BaseInv
<1>g. /\ co.todo = <<>> /\ mode' = How(co') /\ stop' = "none"
      /\ Installs(Initialisation) <=> conf.root /\ ~conf.no_seccomp
  BY InitialisationFacts DEF IndInv, BaseInv
<1>1. BaseInv'
  <2>1. TypeOK'
    <3>1. mode' \in {"syscall", "cont"} /\ stop' \in Stops /\ yielder' \in {"wait", "yield", "unblocked"}
      BY <1>g DEF How, Stops, IndInv, BaseInv, TypeOK, Unblocked
    <3> QED BY <1>c, <1>f, <3>1 DEF IndInv, BaseInv, TypeOK
  <2> QED BY <1>c, <1>f, <1>g, <2>1 DEF IndInv, BaseInv
<1>2. PhaseInv'
  <2> SUFFICES ASSUME Alive', Countable'
               PROVE  FilterInv' /\ NumberInv' /\ PositionInv'
    BY DEF PhaseInv
  <2>0. Alive /\ Countable /\ FilterInv /\ NumberInv /\ PositionInv
    BY <1>c DEF IndInv, PhaseInv, Alive, Awaits
  <2>1. FilterInv'
    <3>1. ~Installs(co.todo)
      BY <1>g DEF Installs
    <3> QED BY <1>c, <1>f, <1>g, <2>0, <3>1 DEF FilterInv
  <2>2. NumberInv'
    BY <1>c, <1>f, <2>0 DEF NumberInv
  <2>3. PositionInv'
    <3>1. at = "user" /\ co.resume_through_syscall
      BY <2>0, AtExit DEF Exits
    <3>2. AwaitsEntry' /\ AwaitsSeccomp'
      BY <1>g, <3>1 DEF AwaitsEntry, AwaitsSeccomp, Signals
    <3> QED BY <1>f, <3>1, <3>2 DEF PositionInv, Entries, Exits
  <2> QED BY <2>1, <2>2, <2>3
<1>3. LegacyInv'
  BY <1>f DEF LegacyInv, Exits
<1>4. AskedInv'
  <2> SUFFICES ASSUME Alive', Countable'
               PROVE  AskedInv'
    BY DEF AskedInv
  <2>0. Alive /\ Countable /\ PositionInv
    BY <1>c DEF IndInv, PhaseInv, Alive, Awaits
  <2>1. at = "user" /\ co.orig_syscall_num = ""
    BY <2>0, AtExit DEF IndInv, AskedInv, Exits
  <2> QED BY <1>c, <1>f, <2>0, <2>1 DEF IndInv, AskedInv, SamePair, Entries
<1>5. NestInv'
  <2> SUFFICES ASSUME Alive', Countable', Between'
               PROVE  NestInv'
    BY DEF NestInv, Between
  <2>0. Alive /\ Countable
    BY <1>c DEF Alive, Awaits
  <2> QED BY <1>f, <2>0 DEF IndInv, AskedInv, Between
<1> QED BY <1>1, <1>2, <1>3, <1>4, <1>5 DEF IndInv

\* The entry of the syscall that is replaced.
LEMMA InsertedEntryInv ==
    ASSUME IndInv, InsertedEntry
    PROVE  IndInv'
<1> USE DEF InsertedEntry, Continue, Resume
<1>c. /\ conf' = conf /\ conf \in Machines
      /\ Countable' <=> Countable
      /\ KernelIsLegacy' <=> KernelIsLegacy
      /\ is_legacy_seccomp' <=> is_legacy_seccomp
      /\ Disturbed' <=> Disturbed
      /\ is_legacy_seccomp => KernelIsLegacy
      /\ KernelIsLegacy /\ Countable => conf.no_seccomp
      /\ \A k \in Inserted : k \notin conf.banned
  BY ConfSame DEF IndInv
<1>f. /\ co' \in Coroutine /\ co'.todo = co.todo /\ co'.pc = "ins_exit"
      /\ co'.is_first_loop_after_init <=> co.is_first_loop_after_init
      /\ co'.tracee_seccomp_init_complete <=> co.tracee_seccomp_init_complete
      /\ co'.orig_syscall_num = IF co.orig_syscall_num = "" THEN cur ELSE co.orig_syscall_num
      /\ co'.resume_through_syscall <=> (~co.tracee_seccomp_init_complete \/ ~co.resume_through_syscall)
      /\ co'.expects_syscall_exit <=> ~co.resume_through_syscall
      /\ ~co'.extra_round
  BY AfterInsertedEntryFacts DEF IndInv, BaseInv
<1>g. /\ co.todo # <<>> /\ co.todo \in Plans /\ cur' = Head(co.todo) /\ cur' \in Inserted
      /\ mode' = How(co') /\ stop' = "none" /\ cur # ""
  BY PlanFacts DEF IndInv, BaseInv, TypeOK, Coroutine, Kinds, Program, Inserted
<1>1. BaseInv'
  <2>1. TypeOK'
    <3>1. mode' \in {"syscall", "cont"} /\ stop' \in Stops /\ {cur', asked'} \subseteq Kinds
      BY <1>g DEF How, Stops, IndInv, BaseInv, TypeOK, Kinds
    <3>2. seen' \in {"entry", "exit", "seccomp"} /\ yielder' \in {"wait", "yield", "unblocked"}
      BY DEF Awaits, Unblocked, IndInv, BaseInv, TypeOK
    <3>3. saved' \in 0..MaxNest /\ mistaken' \in BOOLEAN
      <4>1. /\ Len(frames) \in Nat /\ Len(frames) <= MaxNest /\ saved \in Nat /\ saved <= MaxNest
            /\ mistaken \in BOOLEAN
        BY SizeFacts DEF IndInv, BaseInv, TypeOK
      <4>2. saved' \in {Len(frames), saved} /\ mistaken' \in BOOLEAN
        BY <4>1
      <4> HIDE DEF InsertedEntry, Continue, Resume
      <4> QED BY <4>1, <4>2
    <3> QED BY <1>c, <1>f, <3>1, <3>2, <3>3 DEF IndInv, BaseInv, TypeOK
  <2> QED BY <1>c, <1>f, <1>g, <2>1 DEF IndInv, BaseInv
<1>2. PhaseInv'
  <2> SUFFICES ASSUME Alive', Countable'
               PROVE  FilterInv' /\ NumberInv' /\ PositionInv'
    BY DEF PhaseInv
  <2>0. Alive /\ Countable /\ FilterInv /\ NumberInv /\ PositionInv
    BY <1>c DEF IndInv, PhaseInv, Alive, Awaits
  <2>1. FilterInv'
    <3>1. at' \notin {"exit", "user"}
      BY <2>0, AtEntry DEF IndInv, Entries
    <3> QED BY <1>c, <1>f, <2>0, <3>1 DEF FilterInv
  <2>2. NumberInv'
    BY <1>c, <1>f, <1>g, <2>0 DEF NumberInv
  <2>3. PositionInv'
    <3>1. /\ stop \in {"entry", "seccomp"}
          /\ at = "run" \/ (at = "seccomp" /\ ~KernelIsLegacy)
          /\ co.resume_through_syscall <=> ~co.tracee_seccomp_init_complete
      BY <2>0, AtEntry DEF IndInv, Entries
    <3>2. AwaitsExit'
      BY <1>c, <1>g, <3>1 DEF AwaitsExit
    <3>3. co'.resume_through_syscall
      BY <1>f, <3>1
    <3>4. seen' # "no"
      BY <3>1
    <3> QED BY <1>f, <3>2, <3>3, <3>4 DEF PositionInv, Entries, Exits
  <2> QED BY <2>1, <2>2, <2>3
<1>3. LegacyInv'
  <2> SUFFICES ASSUME is_legacy_seccomp, stop = "seccomp"
               PROVE  LegacyInv'
    BY <1>c DEF LegacyInv
  <2>1. ~co.resume_through_syscall /\ co.tracee_seccomp_init_complete /\ at = "entry"
    BY <1>c, AtSeccomp DEF IndInv
  <2> QED BY <1>f, <1>g, <2>1 DEF LegacyInv
<1>4. AskedInv'
  <2> SUFFICES ASSUME Alive', Countable'
               PROVE  AskedInv'
    BY DEF AskedInv
  <2>0. Alive /\ Countable /\ PositionInv
    BY <1>c DEF IndInv, PhaseInv, Alive, Awaits
  <2>1. (cur = asked \/ mistaken) /\ at # "user" /\ again = <<>>
    BY <2>0, AtEntry DEF IndInv, AskedInv, Entries
  <2>2. mistaken' \/ co'.orig_syscall_num = asked
    BY <1>f, <1>g, <2>0, <2>1 DEF IndInv, BaseInv, TypeOK, NestInv, Between
  <2>3. mistaken' => Disturbed
    <3>1. Len(frames) > saved => frames # <<>>
      BY SizeFacts DEF IndInv
    <3> QED BY <1>g, <2>0, <3>1 DEF IndInv, AskedInv, NestInv, Between, Disturbed
  <2>4. frames' = frames /\ handler' = handler /\ again' = again /\ asked' = asked
    OBVIOUS
  <2> HIDE DEF InsertedEntry
  <2> QED BY <1>c, <1>f, <2>0, <2>1, <2>2, <2>3, <2>4 DEF IndInv, AskedInv, SamePair, Entries
<1>5. NestInv'
  <2> SUFFICES ASSUME Alive', Countable', Between'
               PROVE  NestInv'
    BY DEF NestInv, Between
  <2>0. Alive /\ Countable /\ PositionInv
    BY <1>c DEF IndInv, PhaseInv, Alive, Awaits
  <2>1. co.tracee_seccomp_init_complete => cur \in Traced \ conf.banned
    BY <2>0, AtEntry DEF IndInv, Entries
  <2>2. CASE co.orig_syscall_num = ""
    <3>1. Len(frames) \in Nat /\ saved' = Len(frames) /\ frames' = frames
      BY <2>2, LenProperties DEF IndInv, BaseInv
    <3> HIDE DEF InsertedEntry, Continue, Resume
    <3> DEFINE n == Len(frames)
    <3>n. n \in Nat /\ saved' = n /\ Len(frames') = n
      BY <3>1
    <3> HIDE DEF n
    <3>2. /\ saved' <= Len(frames') /\ ~(Len(frames') > saved')
          /\ \A i \in 1..Len(frames') : ~(i > saved')
      BY <3>n
    <3> QED BY <1>c, <1>f, <2>0, <2>1, <2>2, <3>2 DEF NestInv, Between
  <2>3. CASE co.orig_syscall_num # ""
    BY <1>c, <1>f, <1>g, <2>0, <2>3 DEF IndInv, NestInv, Between
  <2> QED BY <2>2, <2>3
<1> QED BY <1>1, <1>2, <1>3, <1>4, <1>5 DEF IndInv

\* The exit of an inserted syscall; the replaced one is asked for again.
LEMMA InsertedExitInv ==
    ASSUME IndInv, co.pc = "ins_exit", Awaits(co, stop), ~(failed /\ cur # "mmap"),
           cur' = co.orig_syscall_num, again' = <<co.orig_syscall_num, asked, mistaken>>,
           Continue(AfterInsertedExit(co)), yielder' = Unblocked, UNCHANGED <<seen, saved, mistaken>>
    PROVE  IndInv'
<1> USE DEF Continue, Resume
<1>c. /\ conf' = conf /\ conf \in Machines
      /\ Countable' <=> Countable
      /\ KernelIsLegacy' <=> KernelIsLegacy
      /\ is_legacy_seccomp' <=> is_legacy_seccomp
      /\ Disturbed' <=> Disturbed
      /\ is_legacy_seccomp => KernelIsLegacy
      /\ KernelIsLegacy /\ Countable => conf.no_seccomp
      /\ \A k \in Inserted : k \notin conf.banned
  BY ConfSame DEF IndInv
<1>e. co.todo # <<>> /\ co.todo \in Plans /\ co.orig_syscall_num \in Kinds
  BY DEF IndInv, BaseInv, TypeOK, Coroutine
<1>f. /\ co' \in Coroutine /\ co'.todo = Tail(co.todo)
      /\ co'.pc = IF co'.todo # <<>> THEN "ins_entry" ELSE "entry"
      /\ co'.is_first_loop_after_init <=> co.is_first_loop_after_init
      /\ co'.tracee_seccomp_init_complete <=> co.tracee_seccomp_init_complete
      /\ co'.orig_syscall_num = co.orig_syscall_num
      /\ co'.resume_through_syscall <=> (~co.tracee_seccomp_init_complete \/ ~co.resume_through_syscall)
  BY <1>e, AfterInsertedExitFacts DEF IndInv, BaseInv
<1>g. mode' = How(co') /\ stop' = "none"
  OBVIOUS
<1>1. BaseInv'
  <2>1. TypeOK'
    <3>1. mode' \in {"syscall", "cont"} /\ stop' \in Stops /\ yielder' \in {"wait", "yield", "unblocked"}
      BY <1>g DEF How, Stops, IndInv, BaseInv, TypeOK, Unblocked
    <3> QED BY <1>c, <1>e, <1>f, <3>1 DEF IndInv, BaseInv, TypeOK
  <2>2. again' \in Kinds \X Kinds \X BOOLEAN
    BY <1>e DEF IndInv, BaseInv, TypeOK
  <2> QED BY <1>c, <1>f, <1>g, <2>1, <2>2 DEF IndInv, BaseInv
<1>2. PhaseInv'
  <2> SUFFICES ASSUME Alive', Countable'
               PROVE  FilterInv' /\ NumberInv' /\ PositionInv'
    BY DEF PhaseInv
  <2>0. Alive /\ Countable /\ FilterInv /\ NumberInv /\ PositionInv
    BY <1>c DEF IndInv, PhaseInv, Alive, Awaits
  <2>1. FilterInv'
    <3>1. at = "user"
      BY <2>0, AtExit DEF Exits
    <3>2. /\ Installs(co'.todo) => Installs(co.todo)
          /\ Installs(co.todo) => Installs(co'.todo) \/ co.todo = <<"seccomp">>
      BY <1>e, <1>f, PlanFacts
    <3>3. co.todo = <<"seccomp">> => filter
      <4>1. co.todo = <<"seccomp">> => cur = "seccomp"
        BY <2>0, LastInserted
      <4> QED BY <2>0, <3>1, <4>1 DEF FilterInv
    <3>4. co'.pc # "ins_exit"
      BY <1>f
    <3> QED BY <1>c, <1>f, <2>0, <3>2, <3>3, <3>4 DEF FilterInv
  <2>2. NumberInv'
    <3>1. co.orig_syscall_num \in Asks /\ asked \in Asks /\ mistaken \in BOOLEAN
      BY <2>0, <1>e DEF IndInv, BaseInv, TypeOK, NumberInv, Kinds, Program, Inserted
    <3>2. again' \in Asks \X Asks \X BOOLEAN /\ co'.pc # "ins_exit"
      BY <1>f, <3>1
    <3> QED BY <1>c, <1>f, <2>0, <3>1, <3>2 DEF NumberInv
  <2>3. PositionInv'
    <3>1. at = "user" /\ co.resume_through_syscall
      BY <2>0, AtExit DEF Exits
    <3>2. AwaitsEntry' /\ AwaitsSeccomp'
      BY <1>g, <3>1 DEF AwaitsEntry, AwaitsSeccomp, Signals
    <3> QED BY <1>f, <3>1, <3>2 DEF PositionInv, Entries, Exits
  <2> QED BY <2>1, <2>2, <2>3
<1>3. LegacyInv'
  BY <1>f DEF LegacyInv, Exits
<1>4. AskedInv'
  <2> SUFFICES ASSUME Alive', Countable'
               PROVE  AskedInv'
    BY DEF AskedInv
  <2>0. Alive /\ Countable /\ FilterInv /\ PositionInv
    BY <1>c DEF IndInv, PhaseInv, Alive, Awaits
  <2>1. at = "user" /\ at' = "user"
    BY <2>0, AtExit DEF Exits
  <2>2. (mistaken \/ co.orig_syscall_num = asked) /\ (mistaken => Disturbed)
    BY <2>0 DEF IndInv, AskedInv
  <2>3. again' # <<>> /\ again'[1] = co.orig_syscall_num /\ again'[2] = asked /\ again'[3] = mistaken
    OBVIOUS
  <2>4. SamePair(again)'
    BY <1>c, <2>2, <2>3 DEF SamePair
  <2>5. frames' = frames /\ handler' = handler /\ mistaken' = mistaken
    OBVIOUS
  <2> HIDE DEF Continue
  <2> QED BY <1>c, <1>f, <2>0, <2>1, <2>2, <2>4, <2>5 DEF IndInv, AskedInv, SamePair, Entries
<1>5. NestInv'
  <2> SUFFICES ASSUME Alive', Countable', Between'
               PROVE  NestInv'
    BY DEF NestInv, Between
  <2>0. Alive /\ Countable /\ FilterInv /\ PositionInv
    BY <1>c DEF IndInv, PhaseInv, Alive, Awaits
  <2>1. again' # <<>> /\ again'[1] = co.orig_syscall_num
    OBVIOUS
  <2>2. conf.root /\ ~conf.no_seccomp
    <3>1. Installs(co.todo)
      BY <1>e, <1>f, PlanFacts DEF Between
    <3> QED BY <2>0, <3>1 DEF FilterInv
  <2>3. frames' = frames /\ saved' = saved
    OBVIOUS
  <2> HIDE DEF Continue
  <2> QED BY <1>c, <1>e, <1>f, <2>0, <2>1, <2>2, <2>3 DEF IndInv, NestInv, Between
<1> QED BY <1>1, <1>2, <1>3, <1>4, <1>5 DEF IndInv

\* The extra round is taken only on kernels before 4.8 with seccomp.
LEMMA ExtraRoundInv ==
    ASSUME IndInv, ExtraRound
    PROVE  IndInv'
<1> USE DEF ExtraRound, Continue, Resume
<1>c. /\ conf' = conf /\ conf \in Machines
      /\ Countable' <=> Countable
      /\ KernelIsLegacy' <=> KernelIsLegacy
      /\ is_legacy_seccomp' <=> is_legacy_seccomp
      /\ Disturbed' <=> Disturbed
      /\ is_legacy_seccomp => KernelIsLegacy
      /\ KernelIsLegacy /\ Countable => conf.no_seccomp
      /\ \A k \in Inserted : k \notin conf.banned
  BY ConfSame DEF IndInv
<1>f. /\ co' \in Coroutine /\ co'.todo = co.todo /\ co'.pc = co.pc
      /\ co'.tracee_seccomp_init_complete <=> co.tracee_seccomp_init_complete
      /\ co'.orig_syscall_num = co.orig_syscall_num
      /\ co'.resume_through_syscall <=> co.resume_through_syscall
      /\ co'.expects_syscall_exit <=> co.expects_syscall_exit
      /\ co'.extra_round
  BY DEF IndInv, BaseInv, TypeOK, Coroutine
<1>g. mode' = How(co') /\ stop' = "none"
  OBVIOUS
<1>h. is_legacy_seccomp /\ co.tracee_seccomp_init_complete /\ ~co.extra_round
  BY DEF NeedsExtraRound
<1>i. ~Countable
  BY <1>c, <1>h DEF IndInv, BaseInv
<1>1. BaseInv'
  <2>1. TypeOK'
    <3>1. mode' \in {"syscall", "cont"} /\ stop' \in Stops /\ yielder' \in {"wait", "yield", "unblocked"}
      BY <1>g DEF How, Stops, IndInv, BaseInv, TypeOK
    <3> QED BY <1>c, <1>f, <3>1 DEF IndInv, BaseInv, TypeOK
  <2> QED BY <1>c, <1>f, <1>g, <2>1 DEF IndInv, BaseInv
<1>2. PhaseInv'
  <2> SUFFICES ASSUME Alive', Countable'
               PROVE  FilterInv' /\ NumberInv' /\ PositionInv'
    BY DEF PhaseInv
  <2>1. FilterInv'
    BY <1>c, <1>i
  <2>2. NumberInv'
    BY <1>c, <1>i
  <2>3. PositionInv'
    BY <1>c, <1>i
  <2> QED BY <2>1, <2>2, <2>3
<1>3. LegacyInv'
  <2> SUFFICES ASSUME seen = "seccomp"
               PROVE  LegacyInv'
    BY DEF LegacyInv
  <2>1. /\ co.resume_through_syscall /\ co.expects_syscall_exit
        /\ at = "run" /\ stop = "entry"
    BY <1>h DEF IndInv, LegacyInv, Alive, Exits, Awaits
  <2> QED BY <1>f, <1>g, <1>h, <2>1 DEF LegacyInv
<1>4. AskedInv'
  BY <1>c, <1>i DEF AskedInv
<1>5. NestInv'
  BY <1>c, <1>i DEF AskedInv, NestInv, Between
<1> QED BY <1>1, <1>2, <1>3, <1>4, <1>5 DEF IndInv

\* A stop nobody waits for is one on the way to the exit.
LEMMA DropStopInv ==
    ASSUME IndInv, DropStop
    PROVE  IndInv'
<1> USE DEF DropStop, Continue, Resume
<1>c. /\ conf' = conf /\ co' = co /\ conf \in Machines
      /\ Countable' <=> Countable
      /\ KernelIsLegacy' <=> KernelIsLegacy
      /\ is_legacy_seccomp' <=> is_legacy_seccomp
      /\ Disturbed' <=> Disturbed
      /\ is_legacy_seccomp => KernelIsLegacy
      /\ KernelIsLegacy /\ Countable => conf.no_seccomp
      /\ \A k \in Inserted : k \notin conf.banned
  BY ConfSame DEF IndInv
<1>g. mode' = How(co') /\ stop' = "none"
  OBVIOUS
<1>1. BaseInv'
  <2>1. TypeOK'
    <3>1. mode' \in {"syscall", "cont"} /\ stop' \in Stops /\ yielder' \in {"wait", "yield", "unblocked"}
      BY <1>g DEF How, Stops, IndInv, BaseInv, TypeOK
    <3> QED BY <1>c, <3>1 DEF IndInv, BaseInv, TypeOK
  <2> QED BY <1>c, <1>g, <2>1 DEF IndInv, BaseInv
<1>2. PhaseInv'
  <2> SUFFICES ASSUME Alive', Countable'
               PROVE  FilterInv' /\ NumberInv' /\ PositionInv'
    BY DEF PhaseInv
  <2>0. Alive /\ Countable /\ FilterInv /\ NumberInv /\ PositionInv
    BY <1>c DEF IndInv, PhaseInv, Alive
  <2>1. FilterInv'
    BY <1>c, <2>0 DEF FilterInv
  <2>2. NumberInv'
    BY <1>c, <2>0 DEF NumberInv
  <2>3. PositionInv'
    BY <1>c, <1>g, <2>0 DEF PositionInv, AwaitsEntry, AwaitsSeccomp, AwaitsExit, Awaits, Signals
  <2> QED BY <2>1, <2>2, <2>3
<1>3. LegacyInv'
  BY <1>c, <1>g DEF IndInv, LegacyInv, Alive, Awaits
<1>4. AskedInv'
  <2> SUFFICES ASSUME Alive', Countable'
               PROVE  AskedInv'
    BY DEF AskedInv
  <2>0. Alive /\ Countable /\ PositionInv
    BY <1>c DEF IndInv, PhaseInv, Alive
  <2>1. co.pc \notin Entries
    BY <2>0 DEF PositionInv, AwaitsEntry, AwaitsSeccomp, Awaits, Signals
  <2> QED BY <1>c, <2>0, <2>1 DEF IndInv, AskedInv, SamePair, Entries
<1>5. NestInv'
  <2> SUFFICES ASSUME Alive', Countable', Between'
               PROVE  NestInv'
    BY DEF NestInv, Between
  <2>0. Alive /\ Countable /\ PositionInv
    BY <1>c DEF IndInv, PhaseInv, Alive
  <2>1. co.pc \notin Entries
    BY <2>0 DEF PositionInv, AwaitsEntry, AwaitsSeccomp, Awaits, Signals
  <2> QED BY <1>c, <2>0, <2>1 DEF IndInv, NestInv, Between, Entries
<1> QED BY <1>1, <1>2, <1>3, <1>4, <1>5 DEF IndInv

\* Signal stops come in user mode, where the coroutine waits for an entry.
LEMMA SwallowSignalInv ==
    ASSUME IndInv, stop \in {"groupstop"} \cup Signals, yielder' \in {"wait", "yield", yielder}, Continue(co),
           UNCHANGED <<cur, again, seen, saved, mistaken>>
    PROVE  IndInv'
<1> USE DEF Continue, Resume
<1>c. /\ conf' = conf /\ co' = co /\ conf \in Machines
      /\ Countable' <=> Countable
      /\ KernelIsLegacy' <=> KernelIsLegacy
      /\ is_legacy_seccomp' <=> is_legacy_seccomp
      /\ Disturbed' <=> Disturbed
      /\ is_legacy_seccomp => KernelIsLegacy
      /\ KernelIsLegacy /\ Countable => conf.no_seccomp
      /\ \A k \in Inserted : k \notin conf.banned
  BY ConfSame DEF IndInv
<1>g. mode' = How(co') /\ stop' = "none"
  OBVIOUS
<1>h. stop \in {"groupstop"} \cup Signals
  BY DEF Signals
<1>1. BaseInv'
  <2>1. TypeOK'
    <3>1. mode' \in {"syscall", "cont"} /\ stop' \in Stops /\ yielder' \in {"wait", "yield", "unblocked"}
      BY <1>g DEF How, Stops, IndInv, BaseInv, TypeOK
    <3> QED BY <1>c, <3>1 DEF IndInv, BaseInv, TypeOK
  <2> QED BY <1>c, <1>g, <2>1 DEF IndInv, BaseInv
<1>2. PhaseInv'
  <2> SUFFICES ASSUME Alive', Countable'
               PROVE  FilterInv' /\ NumberInv' /\ PositionInv'
    BY DEF PhaseInv
  <2>0. Alive /\ Countable /\ FilterInv /\ NumberInv /\ PositionInv
    BY <1>c DEF IndInv, PhaseInv, Alive, Signals
  <2>1. FilterInv'
    BY <1>c, <2>0 DEF FilterInv
  <2>2. NumberInv'
    BY <1>c, <2>0 DEF NumberInv
  <2>3. PositionInv'
    BY <1>c, <1>g, <1>h, <2>0 DEF PositionInv, AwaitsEntry, AwaitsSeccomp, AwaitsExit, Signals
  <2> QED BY <2>1, <2>2, <2>3
<1>3. LegacyInv'
  BY <1>c, <1>g, <1>h DEF IndInv, LegacyInv, Alive, Signals
<1>4. AskedInv'
  <2> SUFFICES ASSUME Alive', Countable'
               PROVE  AskedInv'
    BY DEF AskedInv
  <2>0. Alive /\ Countable /\ PositionInv
    BY <1>c, <1>h DEF IndInv, PhaseInv, Alive, Signals
  <2>1. at = "user" \/ co.pc \notin Entries
    BY <1>h, <2>0 DEF PositionInv, AwaitsEntry, AwaitsSeccomp, Signals
  <2> QED BY <1>c, <2>0, <2>1 DEF IndInv, AskedInv, SamePair, Entries
<1>5. NestInv'
  <2> SUFFICES ASSUME Alive', Countable', Between'
               PROVE  NestInv'
    BY DEF NestInv, Between
  <2>0. Alive /\ Countable /\ PositionInv
    BY <1>c, <1>h DEF IndInv, PhaseInv, Alive, Signals
  <2>1. at = "user" \/ co.pc \notin Entries
    BY <1>h, <2>0 DEF PositionInv, AwaitsEntry, AwaitsSeccomp, Signals
  <2> QED BY <1>c, <2>0, <2>1 DEF IndInv, NestInv, Between, Entries
<1> QED BY <1>1, <1>2, <1>3, <1>4, <1>5 DEF IndInv

\* The tracee goes on to the exit of its fork.
LEMMA ForkEventInv ==
    ASSUME IndInv, stop = "forkevent", Continue(co), UNCHANGED <<cur, again, yielder, seen, saved, mistaken>>
    PROVE  IndInv'
<1> USE DEF Continue, Resume
<1>c. /\ conf' = conf /\ co' = co /\ conf \in Machines
      /\ Countable' <=> Countable
      /\ KernelIsLegacy' <=> KernelIsLegacy
      /\ is_legacy_seccomp' <=> is_legacy_seccomp
      /\ Disturbed' <=> Disturbed
      /\ is_legacy_seccomp => KernelIsLegacy
      /\ KernelIsLegacy /\ Countable => conf.no_seccomp
      /\ \A k \in Inserted : k \notin conf.banned
  BY ConfSame DEF IndInv
<1>g. mode' = How(co') /\ stop' = "none"
  OBVIOUS
<1>1. BaseInv'
  <2>1. TypeOK'
    <3>1. mode' \in {"syscall", "cont"} /\ stop' \in Stops /\ yielder' \in {"wait", "yield", "unblocked"}
      BY <1>g DEF How, Stops, IndInv, BaseInv, TypeOK
    <3> QED BY <1>c, <3>1 DEF IndInv, BaseInv, TypeOK
  <2> QED BY <1>c, <1>g, <2>1 DEF IndInv, BaseInv
<1>2. PhaseInv'
  <2> SUFFICES ASSUME Alive', Countable'
               PROVE  FilterInv' /\ NumberInv' /\ PositionInv'
    BY DEF PhaseInv
  <2>0. Alive /\ Countable /\ FilterInv /\ NumberInv /\ PositionInv
    BY <1>c DEF IndInv, PhaseInv, Alive
  <2>1. FilterInv'
    BY <1>c, <2>0 DEF FilterInv
  <2>2. NumberInv'
    BY <1>c, <2>0 DEF NumberInv
  <2>3. PositionInv'
    BY <1>c, <1>g, <2>0 DEF PositionInv, AwaitsEntry, AwaitsSeccomp, AwaitsExit, Signals
  <2> QED BY <2>1, <2>2, <2>3
<1>3. LegacyInv'
  BY <1>c, <1>g DEF IndInv, LegacyInv, Alive
<1>4. AskedInv'
  <2> SUFFICES ASSUME Alive', Countable'
               PROVE  AskedInv'
    BY DEF AskedInv
  <2>0. Alive /\ Countable /\ PositionInv
    BY <1>c DEF IndInv, PhaseInv, Alive
  <2>1. at = "exit" \/ co.pc \notin Entries
    BY <2>0 DEF PositionInv, AwaitsEntry, AwaitsSeccomp, Signals
  <2> QED BY <1>c, <2>0, <2>1 DEF IndInv, AskedInv, SamePair, Entries
<1>5. NestInv'
  <2> SUFFICES ASSUME Alive', Countable', Between'
               PROVE  NestInv'
    BY DEF NestInv, Between
  <2>0. Alive /\ Countable /\ PositionInv
    BY <1>c DEF IndInv, PhaseInv, Alive, Signals
  <2>1. at = "exit" \/ co.pc \notin Entries
    BY <2>0 DEF PositionInv, AwaitsEntry, AwaitsSeccomp, Signals
  <2> QED BY <1>c, <2>0, <2>1 DEF IndInv, NestInv, Between, Entries
<1> QED BY <1>1, <1>2, <1>3, <1>4, <1>5 DEF IndInv

\* The handler of a signal interrupts the program.
LEMMA InjectSignalInv ==
    ASSUME IndInv, InjectSignal
    PROVE  IndInv'
<1> USE DEF InjectSignal, ResumeWith
<1>c. /\ conf' = conf /\ co' = co /\ conf \in Machines
      /\ Countable' <=> Countable
      /\ KernelIsLegacy' <=> KernelIsLegacy
      /\ is_legacy_seccomp' <=> is_legacy_seccomp
      /\ Disturbed' <=> Disturbed
      /\ is_legacy_seccomp => KernelIsLegacy
      /\ KernelIsLegacy /\ Countable => conf.no_seccomp
      /\ \A k \in Inserted : k \notin conf.banned
  BY ConfSame DEF IndInv
<1>g. /\ mode' = How(co') /\ stop \in {"SIGX", "SIGSEGV", "SIGSTOP", "SIGSYS"}
      /\ stop' \in {"none", "groupstop", "exitevent"}
  BY DEF Signals
<1>h. \/ frames' = frames /\ again' = again
      \/ handler /\ stop \in {"SIGX", "SIGSEGV"} /\ frames' = Append(frames, again) /\ again' = <<>>
  OBVIOUS
<1>1. BaseInv'
  <2>0. Len(frames') <= MaxNest /\ frames' \in Seq({<<>>} \cup (Kinds \X Kinds \X BOOLEAN))
    <3>1. CASE frames' = frames
      BY <3>1 DEF IndInv, BaseInv, TypeOK
    <3>2. CASE handler /\ stop \in {"SIGX", "SIGSEGV"} /\ frames' = Append(frames, again)
      <4>1. /\ frames \in Seq({<<>>} \cup (Kinds \X Kinds \X BOOLEAN)) /\ Len(frames) < MaxNest
            /\ again \in {<<>>} \cup (Kinds \X Kinds \X BOOLEAN)
        BY <3>2 DEF IndInv, BaseInv
      <4>2. Len(frames) \in Nat /\ Len(frames') = Len(frames) + 1
        BY <3>2, <4>1, AppendProperties, LenProperties
      <4>3. frames' \in Seq({<<>>} \cup (Kinds \X Kinds \X BOOLEAN))
        BY <3>2, <4>1, AppendProperties
      <4> QED BY <4>1, <4>2, <4>3
    <3> QED BY <1>h, <3>1, <3>2
  <2>1. TypeOK'
    <3>1. mode' \in {"syscall", "cont"} /\ stop' \in Stops
      BY <1>g DEF How, Stops
    <3> QED BY <1>c, <2>0, <3>1 DEF IndInv, BaseInv, TypeOK
  <2>2. again' \in {<<>>} \cup (Kinds \X Kinds \X BOOLEAN)
    BY <1>h DEF IndInv, BaseInv
  <2> QED BY <1>c, <1>g, <2>0, <2>1, <2>2 DEF IndInv, BaseInv
<1>2. PhaseInv'
  <2> SUFFICES ASSUME Alive', Countable'
               PROVE  FilterInv' /\ NumberInv' /\ PositionInv'
    BY DEF PhaseInv
  <2>0. Alive /\ Countable /\ FilterInv /\ NumberInv /\ PositionInv
    BY <1>c DEF IndInv, PhaseInv, Alive, Signals
  <2>1. FilterInv'
    BY <1>c, <2>0 DEF FilterInv
  <2>2. NumberInv'
    <3>1. again' \in {<<>>} \cup (Asks \X Asks \X BOOLEAN)
      BY <1>h, <2>0 DEF NumberInv
    <3>2. frames' \in Seq({<<>>} \cup (Asks \X Asks \X BOOLEAN))
      <4>1. frames \in Seq({<<>>} \cup (Asks \X Asks \X BOOLEAN)) /\ again \in {<<>>} \cup (Asks \X Asks \X BOOLEAN)
        BY <2>0 DEF NumberInv
      <4>2. Append(frames, again) \in Seq({<<>>} \cup (Asks \X Asks \X BOOLEAN))
        BY <4>1, AppendProperties
      <4> QED BY <1>h, <4>1, <4>2
    <3>3. cur' = cur /\ asked' = asked
      OBVIOUS
    <3> HIDE DEF InjectSignal
    <3> QED BY <1>c, <2>0, <3>1, <3>2, <3>3 DEF NumberInv
  <2>3. PositionInv'
    <3>1. at' = at /\ seen' = seen /\ stop' \in {"none", "groupstop"}
      BY <1>g DEF Alive
    <3>2. co.pc \notin Exits
      BY <1>g, <2>0 DEF PositionInv, AwaitsExit
    <3>3. at = "user" \/ co.pc \notin Entries
      BY <1>g, <2>0 DEF PositionInv, AwaitsEntry, AwaitsSeccomp, Signals
    <3> HIDE DEF InjectSignal
    <3> QED BY <1>c, <2>0, <3>1, <3>2, <3>3 DEF PositionInv, AwaitsEntry, AwaitsSeccomp, Signals
  <2> QED BY <2>1, <2>2, <2>3
<1>3. LegacyInv'
  <2>1. ~(is_legacy_seccomp /\ co.pc \in Exits /\ seen = "seccomp")
    BY <1>g DEF IndInv, LegacyInv, Alive
  <2> QED BY <1>c, <2>1 DEF LegacyInv
<1>4. AskedInv'
  <2> SUFFICES ASSUME Alive', Countable'
               PROVE  AskedInv'
    BY DEF AskedInv
  <2>0. Alive /\ Countable /\ PositionInv
    BY <1>c, <1>g DEF IndInv, PhaseInv, Alive
  <2>1. co.pc \notin Exits /\ (at = "user" \/ co.pc \notin Entries)
    BY <1>g, <2>0 DEF PositionInv, AwaitsEntry, AwaitsSeccomp, AwaitsExit, Signals
  <2>2. CASE frames' = frames /\ again' = again
    BY <1>c, <2>0, <2>1, <2>2 DEF IndInv, AskedInv, SamePair, Entries, Exits
  <2>3. CASE handler /\ frames' = Append(frames, again) /\ again' = <<>>
    <3>1. conf.handlers /\ handler' = handler
      BY <2>0, <2>3 DEF IndInv, AskedInv
    <3>2. SamePair(again) /\ \A i \in 1..Len(frames) : SamePair(frames[i])
      BY <2>0 DEF IndInv, AskedInv
    <3>3. \A i \in 1..Len(frames') : SamePair(frames'[i])
      <4>1. /\ frames \in Seq({<<>>} \cup (Kinds \X Kinds \X BOOLEAN)) /\ again \in {<<>>} \cup (Kinds \X Kinds \X BOOLEAN)
        BY DEF IndInv, BaseInv
      <4>2. /\ Len(frames) \in Nat /\ Len(frames') = Len(frames) + 1
            /\ \A i \in 1..Len(frames) : frames'[i] = frames[i]
            /\ frames'[Len(frames) + 1] = again
        BY <2>3, <4>1, AppendProperties, LenProperties
      <4> HIDE DEF InjectSignal, ResumeWith
      <4>3. \A i \in 1..(Len(frames) + 1) : i \in 1..Len(frames) \/ i = Len(frames) + 1
        BY <4>2
      <4> QED BY <3>2, <4>2, <4>3
    <3>4. SamePair(again')
      BY <2>3 DEF SamePair
    <3>5. \A i \in 1..Len(frames') : SamePair(frames[i]')
      BY <3>3 DEF SamePair
    <3>6. at' = at /\ mistaken' = mistaken
      OBVIOUS
    <3> HIDE DEF InjectSignal, ResumeWith
    <3> QED BY <1>c, <2>0, <2>1, <3>1, <3>4, <3>5, <3>6 DEF IndInv, AskedInv, SamePair, Entries, Exits
  <2> QED BY <1>h, <2>2, <2>3
<1>5. NestInv'
  <2> SUFFICES ASSUME Alive', Countable', Between'
               PROVE  NestInv'
    BY DEF NestInv, Between
  <2>0. Alive /\ Countable /\ PositionInv
    BY <1>c, <1>g DEF IndInv, PhaseInv, Alive
  <2>1. co.pc \notin Exits /\ (at = "user" \/ co.pc \notin Entries)
    BY <1>g, <2>0 DEF PositionInv, AwaitsEntry, AwaitsSeccomp, AwaitsExit, Signals
  <2>2. co.pc = "ins_entry" /\ at = "user" /\ NestInv /\ saved' = saved
    BY <1>c, <2>0, <2>1 DEF IndInv, BaseInv, TypeOK, Coroutine, Entries, Exits, Between
  <2>3. CASE frames' = frames /\ again' = again
    BY <1>c, <2>0, <2>2, <2>3 DEF NestInv, Between
  <2>4. CASE handler /\ frames' = Append(frames, again) /\ again' = <<>>
    <3> DEFINE n == Len(frames)
    <3>1. n \in Nat /\ saved \in Nat
      BY SizeFacts DEF IndInv
    <3>2. /\ Len(frames') = n + 1
          /\ \A i \in 1..n : frames'[i] = frames[i]
          /\ frames'[n + 1] = again
      <4>1. again \in {<<>>} \cup (Kinds \X Kinds \X BOOLEAN)
        BY DEF IndInv, BaseInv
      <4> HIDE DEF InjectSignal, ResumeWith
      <4> QED BY <2>4, <4>1, SizeFacts, AppendProperties DEF IndInv
    <3>a. at' = at
      OBVIOUS
    <3> HIDE DEF InjectSignal, ResumeWith
    <3>3. /\ saved <= n
          /\ \A i \in 1..n : i > saved => frames[i] = <<>> \/ frames[i][1] = co.orig_syscall_num
          /\ again = <<>> \/ again[1] = co.orig_syscall_num
          /\ again = <<>> => n > saved
          /\ n > saved => frames[saved + 1] # <<>>
      BY <1>c, <2>0, <2>2 DEF NestInv, Between
    <3> HIDE DEF n
    <3>4. \A i \in 1..Len(frames') : i > saved => frames'[i] = <<>> \/ frames'[i][1] = co.orig_syscall_num
      <4>1. \A i \in 1..(n + 1) : i \in 1..n \/ i = n + 1
        BY <3>1
      <4> QED BY <3>2, <3>3, <4>1
    <3>5. frames'[saved + 1] # <<>>
      <4>1. CASE saved = n
        <5>1. again # <<>>
          BY <3>1, <3>3, <4>1
        <5> QED BY <3>2, <4>1, <5>1
      <4>2. CASE saved < n
        <5>1. saved + 1 \in 1..n
          BY <3>1, <4>2
        <5> QED BY <3>2, <3>3, <4>2, <5>1
      <4> QED BY <3>1, <3>3, <4>1, <4>2
    <3>6. saved < Len(frames') /\ saved <= Len(frames')
      BY <3>1, <3>2, <3>3
    <3>7. NestInv /\ Between
      BY <1>c, <2>2 DEF Between
    <3> QED BY <1>c, <2>0, <2>2, <2>4, <3>4, <3>5, <3>6, <3>7 DEF NestInv, Between
  <2> QED BY <1>h, <2>3, <2>4
<1> QED BY <1>1, <1>2, <1>3, <1>4, <1>5 DEF IndInv

\* The tracer ends and kills the tracee.
LEMMA FinishInv ==
    ASSUME IndInv, NEW r \in {"ok", "err", "gdb"}, Finish(r)
    PROVE  IndInv'
<1> USE DEF Finish
<1>c. /\ conf' = conf /\ co' = co /\ conf \in Machines
      /\ Countable' <=> Countable
      /\ KernelIsLegacy' <=> KernelIsLegacy
      /\ is_legacy_seccomp' <=> is_legacy_seccomp
      /\ Disturbed' <=> Disturbed
      /\ is_legacy_seccomp => KernelIsLegacy
      /\ KernelIsLegacy /\ Countable => conf.no_seccomp
      /\ \A k \in Inserted : k \notin conf.banned
  BY ConfSame DEF IndInv
<1>1. BaseInv'
  <2>1. TypeOK'
    <3>1. result' \in {"none", "ok", "err", "gdb"} /\ stop' \in Stops
      BY DEF Stops
    <3> QED BY <1>c, <3>1 DEF IndInv, BaseInv, TypeOK
  <2>2. again' = again /\ frames' = frames /\ mode' = mode /\ stop' = "dead"
    OBVIOUS
  <2> HIDE DEF Finish
  <2> QED BY <1>c, <2>1, <2>2 DEF IndInv, BaseInv, How
<1>2. PhaseInv'
  BY DEF PhaseInv, Alive
<1>3. LegacyInv'
  BY DEF LegacyInv, Alive
<1>4. AskedInv'
  BY DEF AskedInv, Alive
<1>5. NestInv'
  BY DEF AskedInv, NestInv, Between, Alive
<1> QED BY <1>1, <1>2, <1>3, <1>4, <1>5 DEF IndInv

-------------------------------------------------------------------------------
(* All steps together.                                                       *)

\* The first state.
LEMMA InitInv ==
    ASSUME Init
    PROVE  IndInv
<1> DEFINE c == [pc |-> "entry", todo |-> <<>>, is_first_loop_after_init |-> FALSE,
                 tracee_seccomp_init_complete |-> FALSE, is_after_syscall_entry |-> FALSE,
                 expects_syscall_exit |-> FALSE, resume_through_syscall |-> FALSE,
                 extra_round |-> FALSE, orig_syscall_num |-> ""]
<1>1. c \in Coroutine
  BY DEF Coroutine, Plans
<1>2. co = StartWait(c, "entry")
  BY DEF Init, InitialCoroutine
<1>3. /\ co \in Coroutine /\ co.pc = "entry" /\ co.todo = <<>> /\ ~co.is_first_loop_after_init
      /\ ~co.tracee_seccomp_init_complete /\ co.resume_through_syscall /\ co.orig_syscall_num = ""
  BY <1>1, <1>2 DEF StartWait, Coroutine
<1>4. conf \in Machines
  BY DEF Init
<1>5. filter \in BOOLEAN /\ handler \in BOOLEAN /\ ignored \in BOOLEAN
  BY <1>4 DEF Init, Machines
<1>6. Len(frames) = 0 /\ frames = <<>> /\ frames \in Seq({<<>>} \cup (Kinds \X Kinds \X BOOLEAN))
      /\ frames \in Seq({<<>>} \cup (Asks \X Asks \X BOOLEAN))
  BY DEF Init
<1>7. TypeOK
  <2>1. Len(frames) <= MaxNest /\ raised \in 0..MaxSignals /\ saved \in 0..MaxNest
    BY <1>6 DEF Init
  <2> QED BY <1>3, <1>5, <2>1 DEF Init, TypeOK, Stops, Signals, Kinds, Program
<1>8. BaseInv
  BY <1>3, <1>6, <1>7 DEF Init, BaseInv, How
<1>9. PhaseInv
  <2>1. FilterInv
    <3>1. ~Installs(co.todo)
      BY <1>3 DEF Installs
    <3>2. filter <=> ~conf.root /\ ~conf.no_seccomp
      BY DEF Init
    <3> QED BY <1>3, <3>1, <3>2 DEF FilterInv
  <2>2. NumberInv
    BY <1>3, <1>6 DEF Init, NumberInv, Asks, Program
  <2>3. PositionInv
    BY <1>3 DEF Init, PositionInv, AwaitsEntry, Entries, Exits
  <2> QED BY <2>1, <2>2, <2>3 DEF PhaseInv
<1>10. LegacyInv
  BY <1>3 DEF LegacyInv, Exits
<1>11. AskedInv
  <2>1. ~conf.handlers => ~handler
    BY DEF Init
  <2>2. SamePair(again) /\ \A i \in 1..Len(frames) : SamePair(frames[i])
    BY <1>6 DEF Init, SamePair
  <2>3. at = "user"
    BY DEF Init
  <2>4. ~mistaken
    BY DEF Init
  <2> QED BY <1>3, <1>6, <2>1, <2>2, <2>3, <2>4 DEF AskedInv
<1>12. NestInv
  BY <1>3 DEF NestInv, Between
<1> QED BY <1>8, <1>9, <1>10, <1>11, <1>12 DEF IndInv

\* event_loop hands a stop to the coroutines.
LEMMA HandleStopInv ==
    ASSUME IndInv, HandleStop
    PROVE  IndInv'
<1>1. CASE SyscallEntry
  BY <1>1, SyscallEntryInv, FinishInv DEF SyscallEntry, Fail
<1>2. CASE SyscallExit
  BY <1>2, SyscallExitInv, FinishInv DEF SyscallExit, Fail
<1>3. CASE InsertedEntry
  BY <1>3, InsertedEntryInv
<1>4. CASE InsertedExit
  BY <1>4, InsertedExitInv, FinishInv DEF InsertedExit, Fail
<1>5. CASE ExtraRound
  BY <1>5, ExtraRoundInv
<1>6. CASE DropStop
  BY <1>6, DropStopInv
<1>7. CASE SwallowSignal
  <2>1. stop \in {"groupstop"} \cup Signals
    BY <1>7 DEF SwallowSignal, Signals
  <2>2. CASE Fail
    BY <2>2, FinishInv DEF Fail
  <2>3. CASE ~Fail
    <3>1. /\ Continue(co) /\ UNCHANGED <<cur, again, seen, saved, mistaken>>
          /\ yielder' \in {"wait", "yield", yielder}
      BY <1>7, <2>3 DEF SwallowSignal
    <3> QED BY <2>1, <3>1, SwallowSignalInv
  <2> QED BY <2>2, <2>3
<1>8. CASE InjectSignal
  BY <1>8, InjectSignalInv
<1>9. CASE SegfaultToGdb \/ ExitEvent \/ TraceeGone
  BY <1>9, FinishInv DEF SegfaultToGdb, ExitEvent, TraceeGone, Fail
<1>10. CASE ForkEvent
  BY <1>10, ForkEventInv, FinishInv DEF ForkEvent, Fail
<1> QED BY <1>1, <1>2, <1>3, <1>4, <1>5, <1>6, <1>7, <1>8, <1>9, <1>10 DEF HandleStop

\* Every step keeps the invariant.
LEMMA NextInv ==
    ASSUME IndInv, [Next]_vars
    PROVE  IndInv'
<1>1. CASE HandleStop
  BY <1>1, HandleStopInv
<1>2. CASE KernelStep /\ UNCHANGED tvars
  BY <1>2, PassEntryInv, PassSeccompInv, PassExitInv, RunBannedInv, RunExecInv, RunForkInv, RunExitInv,
     RunSeccompInv, RunSigreturnInv, RunOtherInv, DeliverSignalInv DEF KernelStep
<1>3. CASE NewSyscall
  BY <1>3, NewSyscallInv
<1>4. CASE Outside
  BY <1>4, RaiseInv, KillInv, ParentWaitedInv DEF Outside
<1>5. CASE UNCHANGED vars
  <2>1. /\ conf' = conf /\ at' = at /\ stop' = stop /\ mode' = mode /\ cur' = cur /\ failed' = failed
        /\ asked' = asked /\ again' = again /\ frames' = frames /\ handler' = handler /\ filter' = filter
        /\ pend' = pend /\ raised' = raised /\ co' = co /\ yielder' = yielder /\ ignored' = ignored
        /\ result' = result /\ seen' = seen /\ saved' = saved /\ mistaken' = mistaken
    BY <1>5 DEF vars, kvars, tvars
  <2>2. /\ Countable' <=> Countable
        /\ KernelIsLegacy' <=> KernelIsLegacy
        /\ is_legacy_seccomp' <=> is_legacy_seccomp
        /\ Disturbed' <=> Disturbed
    BY <2>1, ConfSame DEF IndInv
  <2>3. BaseInv'
    <3>1. TypeOK'
      BY <2>1, ZenonT(60) DEF IndInv, BaseInv, TypeOK
    <3> QED BY <2>1, <2>2, <3>1 DEF IndInv, BaseInv, How, Following
  <2>4. PhaseInv'
    BY <2>1, <2>2 DEF IndInv, PhaseInv, Alive, FilterInv, NumberInv, PositionInv, AwaitsEntry, AwaitsSeccomp,
                      AwaitsExit, FirstPoint, Following
  <2>5. LegacyInv'
    BY <2>1, <2>2 DEF IndInv, LegacyInv, Alive
  <2>6. AskedInv'
    BY <2>1, <2>2 DEF IndInv, AskedInv, Alive, SamePair
  <2>7. NestInv'
    BY <2>1, <2>2 DEF IndInv, NestInv, Between, Alive
  <2> QED BY <2>3, <2>4, <2>5, <2>6, <2>7 DEF IndInv
<1> QED BY <1>1, <1>2, <1>3, <1>4, <1>5 DEF Next, Step, Finished

\* The inductive invariant holds in every reachable state.
THEOREM Invariance == Spec => []IndInv
<1>1. Init => IndInv
  BY InitInv
<1>2. IndInv /\ [Next]_vars => IndInv'
  BY NextInv
<1> QED BY <1>1, <1>2, PTL DEF Spec

\* Every variable keeps its type, with at most MaxNest interrupted handlers.
THEOREM TypeCorrect == Spec => []TypeOK
<1>1. IndInv => TypeOK
  BY DEF IndInv, BaseInv
<1> QED BY <1>1, Invariance, PTL

\* A step that moves the coroutine on is one of the four between two waits.
LEMMA StepFitsPhase ==
    ASSUME IndInv, Next,
           Countable \/ (is_legacy_seccomp /\ co.pc \in {"exit", "ins_exit"} /\ seen = "seccomp")
    PROVE  StopFitsPhase
<1> SUFFICES ASSUME co'.pc # co.pc
             PROVE  IF co.pc \in {"entry", "ins_entry"} THEN stop \in {"entry", "seccomp"}
                                                       ELSE stop = "exit" /\ seen # "no"
  BY DEF StopFitsPhase
<1>1. \/ co.pc \in Entries /\ Awaits(co, stop)
      \/ co.pc \in Exits /\ Awaits(co, stop) /\ ~NeedsExtraRound(co)
  <2>1. Step /\ HandleStop
    BY DEF Next, Step, NewSyscall, Outside, ParentWaited, Finished, vars, tvars
  <2>2. SyscallEntry \/ SyscallExit \/ InsertedEntry \/ InsertedExit
    <3>1. ~ExtraRound
      BY DEF ExtraRound, Continue, IndInv, BaseInv, TypeOK, Coroutine
    <3> QED BY <2>1, <3>1 DEF HandleStop, DropStop, SwallowSignal, InjectSignal, SegfaultToGdb, ForkEvent,
                  ExitEvent, TraceeGone, Fail, Finish, Continue
  <2> QED BY <2>2 DEF SyscallEntry, SyscallExit, InsertedEntry, InsertedExit, Entries, Exits
<1>2. Alive
  BY <1>1 DEF Awaits, Alive
<1>3. CASE co.pc \in Entries
  <2>1. Countable
    BY <1>3 DEF Entries
  <2>2. stop \in {"entry", "seccomp"}
    BY <1>1, <1>2, <1>3, <2>1, AtEntry DEF IndInv, PhaseInv, Entries, Exits
  <2> QED BY <1>3, <2>2 DEF Entries
<1>4. CASE co.pc \in Exits /\ Countable
  BY <1>1, <1>2, <1>4, AtExit DEF IndInv, PhaseInv, Entries, Exits
<1>5. CASE co.pc \in Exits /\ is_legacy_seccomp /\ seen = "seccomp"
  BY <1>1, <1>2, <1>5 DEF IndInv, LegacyInv, Entries, Exits, Awaits, NeedsExtraRound
<1> QED BY <1>1, <1>3, <1>4, <1>5

\* wait_for_syscall never loses count: every stop handled as an entry is an entry or a
\* seccomp stop and every stop handled as an exit is the exit of the syscall whose entry was
\* handled last; on the kernels before 4.8 with seccomp, from a seccomp stop to its exit.
THEOREM NeverLosesCount == Spec => PhaseAgreement
<1>1. IndInv /\ [Next]_vars =>
        [Countable \/ (is_legacy_seccomp /\ co.pc \in {"exit", "ins_exit"} /\ seen = "seccomp")
           => StopFitsPhase]_vars
  BY StepFitsPhase
<1> QED BY <1>1, Invariance, PTL DEF Spec, PhaseAgreement

\* No syscall with an augment runs before the tracer has handled its entry, on every machine:
\* none by its number, and none the program asked for unless it was mistaken for another.
THEOREM NothingEscapes == Spec => []NoEscape
<1>1. IndInv => NoEscape
  <2> SUFFICES ASSUME IndInv, Countable, result = "none", stop = "none", at = "run", seen = "no"
               PROVE  /\ cur \notin Augmented \ conf.banned
                      /\ asked \in Augmented \ conf.banned => Mistakable
    BY DEF NoEscape
  <2>1. co.pc \notin Exits
    BY DEF IndInv, PhaseInv, PositionInv, Alive
  <2>2. co.pc \in Entries
    BY <2>1 DEF IndInv, BaseInv, TypeOK, Coroutine, Entries, Exits
  <2> QED BY <2>2 DEF IndInv, AskedInv, Alive, Traced, Mistakable, Disturbed
<1> QED BY <1>1, Invariance, PTL

\* What runs is what the program asked for, what stands in for it, or what is inserted, on
\* every machine; only a syscall of a signal handler that started between two insertions can
\* run under another number, which needs handlers and a root tracer that installs the filter.
THEOREM RunsTheRightOne == Spec => []RunsWhatItAsked
<1>1. IndInv => RunsWhatItAsked
  <2> SUFFICES ASSUME IndInv, Countable, result = "none", stop = "none", at = "run"
               PROVE  \/ cur = asked
                      \/ cur = "nomod" /\ asked \in {"aug", "exec"}
                      \/ co.pc = "ins_exit" /\ cur = Head(co.todo)
                      \/ co.pc # "ins_exit" /\ Mistakable
    BY DEF RunsWhatItAsked
  <2>1. CASE co.pc \in Entries
    BY <2>1 DEF IndInv, AskedInv, Alive, Mistakable, Disturbed, Entries
  <2>2. CASE co.pc = "exit"
    BY <2>2 DEF IndInv, AskedInv, Alive, Mistakable, Disturbed
  <2>3. CASE co.pc = "ins_exit"
    BY <2>3 DEF IndInv, PhaseInv, NumberInv, Alive
  <2>4. co.pc \in {"entry", "exit", "ins_entry", "ins_exit"}
    BY DEF IndInv, BaseInv, TypeOK, Coroutine
  <2> QED BY <2>1, <2>2, <2>3, <2>4 DEF Entries
<1> QED BY <1>1, Invariance, PTL

\* --fix-sigsys: no SIGSYS of the kernel ends the tracee, whatever the coroutines wait for.
THEOREM SigsysIsCaught == Spec => SigsysNeverKills
<1>1. [Next]_vars => [stop = "SIGSYS" /\ conf.fix_sigsys => stop' # "exitevent"]_vars
  <2> SUFFICES ASSUME Next, stop = "SIGSYS", conf.fix_sigsys
               PROVE  stop' # "exitevent"
    OBVIOUS
  <2>1. CASE Step /\ HandleStop
    <3>1. ~InjectSignal
      BY DEF InjectSignal, Blocks
    <3> QED BY <2>1, <3>1 DEF HandleStop, SyscallEntry, SyscallExit, InsertedEntry, InsertedExit, ExtraRound,
                  DropStop, SwallowSignal, SegfaultToGdb, ForkEvent, ExitEvent, TraceeGone, Fail, Finish,
                  Continue, Resume
  <2>2. CASE KernelStep
    BY <2>2 DEF KernelStep, PassEntry, PassSeccomp, PassExit, RunBanned, RunExec, RunFork, RunExit, RunSeccomp,
                RunSigreturn, RunOther, DeliverSignal, Pass
  <2>3. CASE NewSyscall
    BY <2>3 DEF NewSyscall, Issue
  <2>4. CASE Outside
    BY <2>4 DEF Outside, Raise, Kill, ParentWaited, kvars
  <2>5. CASE UNCHANGED vars
    BY <2>5 DEF vars, kvars
  <2> QED BY <2>1, <2>2, <2>3, <2>4, <2>5 DEF Next, Step, Finished
<1> QED BY <1>1, PTL DEF Spec, SigsysNeverKills
===============================================================================
