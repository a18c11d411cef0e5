----------------------------- MODULE AsyncRuntime -----------------------------
(***************************************************************************)
(* krsm/src/runtime.rs: the waker-less async runtime under the tracer.     *)
(*                                                                         *)
(* The synchronous caller alternates run_async_step, which polls the async *)
(* program once, with unblock_futures, which hands in one response.  The   *)
(* async program is any program: while it is polled it may call            *)
(* new_pending_future (a handle of Handles stands for one such call), poll *)
(* the calls that are pending in any order, and drop them.  The            *)
(* combinators of futures_lite give the one contract used here: a step     *)
(* ends only after every call that was pending when it began has been      *)
(* polled or dropped.                                                      *)
(*                                                                         *)
(* The step is one call in the code; here it is cut at every entry into    *)
(* the runtime, so that the order of those entries is free.                *)
(***************************************************************************)
EXTENDS Integers, FiniteSets

CONSTANTS Reasons,      \* the type YieldReason
          NoReason,     \* "no guard is alive"
          Handles,      \* calls of new_pending_future that may be alive at once
          MAX_PENDING,  \* the capacity of pending_futures
          MaxResponses  \* bound: how many responses the caller ever hands in

ASSUME RuntimeAssumption ==
    /\ NoReason \notin Reasons
    /\ IsFiniteSet(Handles)
    /\ MAX_PENDING \in Nat \ {0}
    /\ MaxResponses \in Nat

VARIABLES
    has_unblock,     \* the response handed in and not yet taken, or NoUnblock
    has_new_future,  \* new_pending_future was called since the step began
    pending,         \* pending_futures: how many futures wait, per reason
    live,            \* the reason of the FutureDropGuard each handle keeps alive
    outcome,         \* how the last call of each handle ended
    polling,         \* run_async_step is on the stack
    unpolled,        \* pending at the beginning of this step, not polled yet
    panicked,        \* unblock_futures was called twice between two steps
    responses,       \* how many responses were handed in; also their identities
    delivered        \* history: which call took which response

vars == <<has_unblock, has_new_future, pending, live, outcome, polling, unpolled,
          panicked, responses, delivered>>

NoUnblock == <<>>
IsFor(u, r) == u # NoUnblock /\ u[1] = r

-------------------------------------------------------------------------------
(* pending_futures, as the bounded map that FixedSizedMap implements.        *)

\* set_default(r, 0), then edit(r, v + 1).
Tally(p, r) == [x \in DOMAIN p \cup {r} |->
                   IF x # r THEN p[x] ELSE IF r \in DOMAIN p THEN p[r] + 1 ELSE 1]

\* Mutant: a reason without an entry is decremented as if it had one.
UntallyMissing(p, r) ==
    IF r \notin DOMAIN p THEN [x \in DOMAIN p \cup {r} |-> IF x = r THEN -1 ELSE p[x]]
    ELSE IF p[r] > 1 THEN [p EXCEPT ![r] = @ - 1]
    ELSE [x \in DOMAIN p \ {r} |-> p[x]]

\* Mutant: the last guard leaves an entry that counts 0.
UntallyKeepsZero(p, r) ==
    IF r \notin DOMAIN p \/ p[r] = 0 THEN p ELSE [p EXCEPT ![r] = @ - 1]

\* FutureDropGuard::drop: one less, never below 0, and no entry that counts 0.
Untally(p, r) ==
    IF r \notin DOMAIN p THEN p
    ELSE IF p[r] > 1 THEN [p EXCEPT ![r] = @ - 1]
    ELSE [x \in DOMAIN p \ {r} |-> p[x]]

\* Mutant: a full map refuses the keys it has.
FullForAll(p, r) == Cardinality(DOMAIN p) = MAX_PENDING

\* set_default fails with TooManyPending.
Full(p, r) == r \notin DOMAIN p /\ Cardinality(DOMAIN p) = MAX_PENDING

-------------------------------------------------------------------------------

Init ==
    /\ has_unblock = NoUnblock
    /\ has_new_future = FALSE
    /\ pending = [r \in {} |-> 0]
    /\ live = [h \in Handles |-> NoReason]
    /\ outcome = [h \in Handles |-> "none"]
    /\ polling = FALSE
    /\ unpolled = {}
    /\ panicked = FALSE
    /\ responses = 0
    /\ delivered = {}

\* run_async_step: up to the call of poll, and after it has returned.
BeginStep ==
    /\ ~panicked /\ ~polling
    /\ polling' = TRUE
    /\ has_new_future' = FALSE
    /\ unpolled' = {h \in Handles : live[h] # NoReason}
    /\ UNCHANGED <<has_unblock, pending, live, outcome, panicked, responses, delivered>>

EndStep ==
    /\ polling
    /\ unpolled = {}
    /\ polling' = FALSE
    /\ has_unblock' = NoUnblock
    /\ UNCHANGED <<has_new_future, pending, live, outcome, unpolled, panicked,
                   responses, delivered>>

\* unblock_futures: panics when the previous response has not been consumed by a step.
unblock_futures(r) ==
    /\ ~panicked /\ ~polling
    /\ responses < MaxResponses
    /\ IF has_unblock # NoUnblock
       THEN panicked' = TRUE /\ UNCHANGED <<has_unblock, responses>>
       ELSE /\ has_unblock' = <<r, responses + 1>>
            /\ responses' = responses + 1
            /\ UNCHANGED panicked
    /\ UNCHANGED <<has_new_future, pending, live, outcome, polling, unpolled, delivered>>

\* Mutant: the response is cloned instead of taken.
TakeClones(h, r) ==
    /\ UNCHANGED has_unblock
    /\ outcome' = [outcome EXCEPT ![h] = "Ok"]
    /\ delivered' = delivered \cup {[response |-> has_unblock[2], submitted |-> has_unblock[1],
                                     handle |-> h, awaited |-> r]}

\* BasicFuture::poll returns Ready: the response is taken, the call returns Ok(it).
Take(h, r) ==
    /\ has_unblock' = NoUnblock
    /\ outcome' = [outcome EXCEPT ![h] = "Ok"]
    /\ delivered' = delivered \cup {[response |-> has_unblock[2], submitted |-> has_unblock[1],
                                     handle |-> h, awaited |-> r]}

\* Mutant: the new future is left for the next step.
new_pending_future_unpolled(h, r) ==
    /\ ~panicked /\ polling
    /\ live[h] = NoReason
    /\ has_new_future' = TRUE
    /\ ~Full(pending, r)
    /\ pending' = Tally(pending, r)
    /\ live' = [live EXCEPT ![h] = r]
    /\ outcome' = [outcome EXCEPT ![h] = "none"]
    /\ UNCHANGED <<has_unblock, delivered, polling, unpolled, panicked, responses>>

\* new_pending_future: the guard exists before the counters are touched, so it is
\* dropped when set_default fails; the new BasicFuture is polled at once.
new_pending_future(h, r) ==
    /\ ~panicked /\ polling
    /\ live[h] = NoReason
    /\ has_new_future' = TRUE
    /\ \/ /\ Full(pending, r)
          /\ outcome' = [outcome EXCEPT ![h] = "TooManyPending"]
          /\ pending' = Untally(pending, r)
          /\ UNCHANGED <<has_unblock, live, delivered>>
       \/ /\ ~Full(pending, r)
          /\ IsFor(has_unblock, r)
          /\ Take(h, r)
          /\ pending' = Untally(Tally(pending, r), r)
          /\ UNCHANGED live
       \/ /\ ~Full(pending, r)
          /\ ~IsFor(has_unblock, r)
          /\ pending' = Tally(pending, r)
          /\ live' = [live EXCEPT ![h] = r]
          /\ outcome' = [outcome EXCEPT ![h] = "none"]
          /\ UNCHANGED <<has_unblock, delivered>>
    /\ UNCHANGED <<polling, unpolled, panicked, responses>>

\* BasicFuture::poll of a call that is pending.
poll(h) ==
    /\ ~panicked /\ polling
    /\ live[h] # NoReason
    /\ \/ /\ IsFor(has_unblock, live[h])
          /\ Take(h, live[h])
          /\ pending' = Untally(pending, live[h])
          /\ live' = [live EXCEPT ![h] = NoReason]
       \/ /\ ~IsFor(has_unblock, live[h])
          /\ UNCHANGED <<has_unblock, outcome, delivered, pending, live>>
    /\ unpolled' = unpolled \ {h}
    /\ UNCHANGED <<has_new_future, polling, panicked, responses>>

\* The async program, or the caller that owns it, drops a call that is pending: the
\* losing branch of or(), or the whole program between two steps.
drop(h) ==
    /\ ~panicked
    /\ live[h] # NoReason
    /\ pending' = Untally(pending, live[h])
    /\ live' = [live EXCEPT ![h] = NoReason]
    /\ outcome' = [outcome EXCEPT ![h] = "dropped"]
    /\ unpolled' = unpolled \ {h}
    /\ UNCHANGED <<has_unblock, has_new_future, polling, panicked, responses, delivered>>

Next ==
    \/ BeginStep
    \/ EndStep
    \/ \E r \in Reasons : unblock_futures(r)
    \/ \E h \in Handles, r \in Reasons : new_pending_future(h, r)
    \/ \E h \in Handles : poll(h)
    \/ \E h \in Handles : drop(h)

Spec == Init /\ [][Next]_vars

-------------------------------------------------------------------------------
(* Properties.                                                               *)

Waiting(r) == {h \in Handles : live[h] = r}

\* Every variable has its type.
TypeOK ==
    /\ has_unblock \in {NoUnblock} \cup (Reasons \X Nat)
    /\ has_new_future \in BOOLEAN
    /\ DOMAIN pending \subseteq Reasons
    /\ pending = [r \in DOMAIN pending |-> pending[r]]
    /\ \A r \in DOMAIN pending : pending[r] \in Nat
    /\ live \in [Handles -> Reasons \cup {NoReason}]
    /\ outcome \in [Handles -> {"none", "Ok", "TooManyPending", "dropped"}]
    /\ polling \in BOOLEAN
    /\ unpolled \in SUBSET Handles
    /\ panicked \in BOOLEAN
    /\ responses \in Nat
    /\ delivered \in SUBSET [response: Nat, submitted: Reasons, handle: Handles, awaited: Reasons]

\* pending_futures counts exactly the guards that are alive, reason by reason, through
\* every interleaving of calls, answers and drops; a reason nobody waits for has no
\* entry (check_pending_reasons would report it to the caller), and the capacity holds.
PendingCountsGuards ==
    /\ DOMAIN pending = {r \in Reasons : Waiting(r) # {}}
    /\ \A r \in DOMAIN pending : pending[r] = Cardinality(Waiting(r))
    /\ Cardinality(DOMAIN pending) <= MAX_PENDING

\* A response answers at most one call, and one that awaited its reason.
AnsweredOnce ==
    \A d, e \in delivered :
        /\ d.submitted = d.awaited
        /\ d.response = e.response => d = e

\* has_unblock is cleared at the end of a step; a response is lost there only when no
\* future waits for its reason.
LostOnlyIfUnwanted ==
    [][\A r \in Reasons : polling /\ ~polling' /\ IsFor(has_unblock, r) => Waiting(r) = {}]_vars

\* A call is refused only when MAX_PENDING other reasons are waited for at that moment:
\* no history of answers, drops and refusals uses the capacity up.
RefusedOnlyWhenFull ==
    [][\A h \in Handles, r \in Reasons :
          new_pending_future(h, r) /\ outcome'[h] = "TooManyPending"
             => /\ Waiting(r) = {}
                /\ Cardinality({q \in Reasons : Waiting(q) # {}}) = MAX_PENDING]_vars

\* With at most MAX_PENDING reasons (the tracer has 4 and 4) no call ever fails.
NeverTooMany ==
    IsFiniteSet(Reasons) /\ Cardinality(Reasons) <= MAX_PENDING
        => \A h \in Handles : outcome[h] # "TooManyPending"
===============================================================================
