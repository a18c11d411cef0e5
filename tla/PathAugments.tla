----------------------------- MODULE PathAugments -----------------------------
(***************************************************************************)
(* The augments of one path syscall (sysaug/src/aug_paths.rs), blended     *)
(* with the strong and weak futures of krsm/src/futures.rs.                *)
(*                                                                         *)
(* augment_sys_paths zips the augments of chmod, chown, rename, link,      *)
(* stat, ...  Each is cut in two by the await of a weak future: the part   *)
(* before it edits the arguments, the part after it sees the result of the *)
(* syscall.  StrongFuture::poll drives them and the syscall itself (the    *)
(* future "timing"); it is called again whenever the tracee has stopped.   *)
(* Every poll of one augment, and of timing, is a step here.               *)
(***************************************************************************)
EXTENDS Integers

CONSTANTS N,      \* the number of augments; they are polled in the order 1..N
          Always  \* those that await every syscall: symlink_creation and getdents

ASSUME AugmentAssumption == N \in Nat /\ Always \subseteq 1..N /\ Always # {}

Augments == 1..N

\* What an augment does with this syscall: nothing; its first part may fail; the part
\* after the syscall may fail, may ignore the outcome of the syscall future, or may give up
\* when it is an error (Err(None)).
Plans == {"absent", "fails_early", "awaits", "reads", "fails_late"}

VARIABLES
    plan,         \* per augment
    st,           \* per augment: how far its future is
    timing,       \* the syscall future: "new", "pending", "done"
    result,       \* StrongWeakBuilder::result: "none", "ok", "err"
    weak_result,  \* the local variable of StrongFuture::poll
    pc,           \* where augment_sys_paths is
    cursor,       \* the augment the zipped future polls next
    second        \* the zipped future is polled for the second time in this poll

augment_vars == <<plan, st, timing, result, weak_result, pc, cursor, second>>

-------------------------------------------------------------------------------

AugmentInit ==
    /\ plan \in {f \in [Augments -> Plans] :
                  \A b \in Always : f[b] \notin {"absent", "fails_early"}}
    /\ st = [b \in Augments |-> "new"]
    /\ timing = "new"
    /\ result = "none"
    /\ weak_result = "none"
    /\ pc = "start"
    /\ cursor = 1
    /\ second = FALSE

\* ELOOP: the paths cannot be resolved and the syscall is skipped.
SkipEloop ==
    /\ pc = "start"
    /\ pc' \in {"ok", "err"}
    /\ UNCHANGED <<plan, st, timing, result, weak_result, cursor, second>>

\* Parsing the arguments, augment_deletion or augment_hardlink_following fails.
SyncAugmentFails ==
    /\ pc = "start"
    /\ pc' = "err"
    /\ UNCHANGED <<plan, st, timing, result, weak_result, cursor, second>>

Build ==
    /\ pc = "start"
    /\ pc' = "suspended"
    /\ UNCHANGED <<plan, st, timing, result, weak_result, cursor, second>>

\* Mutant: the syscall is polled before the augments.
BeginPollTimingFirst ==
    /\ pc = "suspended"
    /\ pc' = "timing"
    /\ weak_result' = "none"
    /\ cursor' = 1
    /\ second' = FALSE
    /\ UNCHANGED <<plan, st, timing, result>>

\* StrongFuture::poll panics on re-entry after completion, and else begins with the
\* augments.
BeginPoll ==
    /\ pc = "suspended"
    /\ pc' = IF result # "none" THEN "panicked" ELSE "weak"
    /\ weak_result' = "none"
    /\ cursor' = 1
    /\ second' = FALSE
    /\ UNCHANGED <<plan, st, timing, result>>

-------------------------------------------------------------------------------
(* One poll of the zipped future: its branches, in order.                    *)

\* WeakFuture::poll.
WeakReady == result # "none"

\* The part of an augment after the await of its weak future.
AfterPart(b) ==
    IF plan[b] = "fails_late" \/ (plan[b] = "reads" /\ result = "err") THEN "err" ELSE "ok"

\* One poll of the future of an augment; an async fn that has returned panics.
PollAugment(b) ==
    CASE st[b] = "new" /\ plan[b] = "absent"      -> "ok"
      [] st[b] = "new" /\ plan[b] = "fails_early" -> "err"
      [] st[b] = "new"                            -> IF WeakReady THEN AfterPart(b) ELSE "waiting"
      [] st[b] = "waiting"                        -> IF WeakReady THEN AfterPart(b) ELSE "waiting"
      [] st[b] = "returned"                       -> "panic"
      [] OTHER                                    -> st[b]

\* Where augment_sys_paths is when StrongFuture::poll ends with r.  Err(None) is not an
\* error of augment_sys_paths.
Outcome(r) == CASE r = "none" -> "suspended" [] r = "err" -> "err" [] OTHER -> "ok"

\* What follows a poll of the augments that ends with r.
Zipped(r) ==
    IF second THEN pc' = Outcome(r) /\ UNCHANGED weak_result
              ELSE pc' = "timing" /\ weak_result' = r

\* The error an augment returns; "quiet" is Err(None).
ErrorOf(b) == IF st[b] = "waiting" /\ plan[b] = "reads" THEN "quiet" ELSE "err"

\* The zip is complete once every branch has returned Ok: it gives its outputs away, and
\* the branches must not be polled again.
WeakStep ==
    /\ pc = "weak"
    /\ LET b == cursor
           new == PollAugment(b)
           all == \A c \in Augments \ {b} : st[c] = "ok"
       IN \/ /\ new = "panic"
             /\ pc' = "panicked"
             /\ UNCHANGED <<st, weak_result, cursor>>
          \/ /\ new = "err"
             /\ st' = [st EXCEPT ![b] = "returned"]
             /\ cursor' = 1
             /\ Zipped(ErrorOf(b))
          \/ /\ new \in {"ok", "waiting"}
             /\ b < N
             /\ st' = [st EXCEPT ![b] = new]
             /\ cursor' = b + 1
             /\ UNCHANGED <<pc, weak_result>>
          \/ /\ new = "ok"
             /\ b = N /\ all
             /\ st' = [c \in Augments |-> "returned"]
             /\ cursor' = 1
             /\ Zipped("ok")
          \/ /\ new \in {"ok", "waiting"}
             /\ b = N /\ ~(new = "ok" /\ all)
             /\ st' = [st EXCEPT ![b] = new]
             /\ cursor' = 1
             /\ Zipped("none")
    /\ UNCHANGED <<plan, timing, result, second>>

\* Timing is polled: the registers are written and the syscall resumed or skipped, which
\* waits for a stop of the tracee; or this stop is not the one it waits for.
\* weak_result is lost.
TimingPending ==
    /\ pc = "timing"
    /\ timing' = "pending"
    /\ pc' = "suspended"
    /\ UNCHANGED <<plan, st, result, weak_result, cursor, second>>

\* Mutant: the augments are left to the next poll.
TimingReadyNextPoll ==
    /\ pc = "timing"
    /\ timing' = "done"
    /\ result' \in IF timing = "new" THEN {"err"} ELSE {"ok", "err"}
    /\ pc' = "suspended"
    /\ UNCHANGED <<plan, st, weak_result, cursor, second>>

\* Mutant: the poll returns as soon as the syscall is over.
TimingReadyReturns ==
    /\ pc = "timing"
    /\ timing' = "done"
    /\ result' \in IF timing = "new" THEN {"err"} ELSE {"ok", "err"}
    /\ pc' = "ok"
    /\ UNCHANGED <<plan, st, weak_result, cursor, second>>

\* Mutant: the result is not stored.
TimingReadyUnstored ==
    /\ pc = "timing"
    /\ timing' = "done"
    /\ IF weak_result # "none"
       THEN pc' = Outcome(weak_result) /\ UNCHANGED second
       ELSE pc' = "weak" /\ second' = TRUE
    /\ UNCHANGED <<plan, st, result, weak_result, cursor>>

\* The syscall is over, or writing the registers or waiting for it failed.  The augments
\* go on in the same poll.
TimingReady ==
    /\ pc = "timing"
    /\ timing' = "done"
    /\ result' \in IF timing = "new" THEN {"err"} ELSE {"ok", "err"}
    /\ IF weak_result # "none"
       THEN pc' = Outcome(weak_result) /\ UNCHANGED second
       ELSE pc' = "weak" /\ second' = TRUE
    /\ UNCHANGED <<plan, st, weak_result, cursor>>

Over == pc \in {"ok", "err", "panicked"}

\* The augment has returned: the next syscall begins with new futures.
Returned == Over /\ UNCHANGED augment_vars

AugmentNext ==
    \/ SkipEloop \/ SyncAugmentFails \/ Build
    \/ BeginPoll \/ WeakStep \/ TimingPending \/ TimingReady
    \/ Returned

\* A tracee that runs stops again, and the stop the syscall waits for comes (SyscallTracer
\* shows that every entry is closed): polls do not end, and not all of them are in vain.
AugmentFairness ==
    /\ WF_augment_vars(Build \/ BeginPoll \/ WeakStep \/ TimingPending)
    /\ SF_augment_vars(TimingReady)

AugmentSpec == AugmentInit /\ [][AugmentNext]_augment_vars /\ AugmentFairness

-------------------------------------------------------------------------------
(* Properties.                                                               *)

\* Every variable has its type.
AugmentTypeOK ==
    /\ plan \in [Augments -> Plans]
    /\ st \in [Augments -> {"new", "waiting", "ok", "returned"}]
    /\ timing \in {"new", "pending", "done"}
    /\ result \in {"none", "ok", "err"}
    /\ weak_result \in {"none", "ok", "err", "quiet"}
    /\ pc \in {"start", "suspended", "weak", "timing", "ok", "err", "panicked"}
    /\ cursor \in Augments
    /\ second \in BOOLEAN

FailedEarly(b) == plan[b] = "fails_early" /\ st[b] = "returned"

\* "Run weak wrapper first so they reach weak futures": when the syscall is resumed every
\* augment has done its part before it, unless an augment polled earlier has failed.  And
\* no augment does its part after the syscall while the syscall is not over.
PartsInOrder ==
    /\ timing # "new" =>
          \A b \in Augments : st[b] # "new" \/ \E c \in 1..(b - 1) : FailedEarly(c)
    /\ \A b \in Augments :
          plan[b] \notin {"absent", "fails_early"} /\ st[b] \in {"ok", "returned"}
              => result # "none"

\* An augment_sys_paths that returns Ok has run every augment to its end, or the syscall
\* future itself has failed.
AllPartsRun ==
    pc = "ok" /\ timing # "new" => result = "err" \/ \A b \in Augments : st[b] = "returned"

\* "Run weak wrappers in the same poll to avoid another run_async_step": a strong future
\* that is over is not left suspended, so that nothing is polled after its completion.  The
\* futures panic only when an augment failed before the syscall was over: its error is
\* forgotten, the syscall resumed, and the augment polled again.
PanicsOnlyIfFailedEarly == pc = "panicked" => \E b \in Augments : FailedEarly(b)

\* The augment of a syscall comes to an end.
AugmentEnds == <>Over

\* A weak_wrapper that awaits nothing but weak futures does not make build().await panic.
NeverPanics == pc # "panicked"
===============================================================================
