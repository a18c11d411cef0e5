------------------------------ MODULE KrsmProofs ------------------------------
(***************************************************************************)
(* Theorems about the crate krsm and its users: AsyncRuntime, for any set  *)
(* of reasons, any finite number of calls and any capacity; TaskTracker,   *)
(* on top of what FixedSizedMapProofs shows of the map it keeps; and       *)
(* PathAugments, the strong and weak futures, for every number of augments *)
(* and whatever each of them does with the syscall.                        *)
(***************************************************************************)
EXTENDS AsyncRuntime, TaskTracker, PathAugments, FiniteSetTheorems, TLAPS

-------------------------------------------------------------------------------
(* The runtime.                                                              *)

\* Every response has its own identity, and one that waits in has_unblock has not been
\* taken by anybody: with it AnsweredOnce is inductive.
ResponsesFresh ==
    /\ \A d \in delivered : d.response \in 1..responses
    /\ has_unblock # NoUnblock =>
          /\ has_unblock[2] \in 1..responses
          /\ \A d \in delivered : d.response # has_unblock[2]

\* During a step, a future that waits for the reason still in has_unblock has not had
\* its turn: a new future is polled as soon as it exists, so it cannot be left waiting
\* behind the response it wants.
WaitersHaveTheirTurn ==
    polling => \A h \in Handles : live[h] # NoReason /\ IsFor(has_unblock, live[h])
                                     => h \in unpolled

-------------------------------------------------------------------------------
(* Typing.                                                                   *)

\* Counting one more future keeps pending_futures a function from reasons to numbers.
LEMMA TallyType ==
    ASSUME NEW p, DOMAIN p \subseteq Reasons, \A x \in DOMAIN p : p[x] \in Nat,
           NEW r \in Reasons
    PROVE  /\ DOMAIN Tally(p, r) = DOMAIN p \cup {r}
           /\ Tally(p, r) = [x \in DOMAIN Tally(p, r) |-> Tally(p, r)[x]]
           /\ \A x \in DOMAIN Tally(p, r) : Tally(p, r)[x] \in Nat
BY DEF Tally

\* So does counting one less.
LEMMA UntallyType ==
    ASSUME NEW p, DOMAIN p \subseteq Reasons, \A x \in DOMAIN p : p[x] \in Nat,
           p = [x \in DOMAIN p |-> p[x]],
           NEW r \in Reasons
    PROVE  /\ DOMAIN Untally(p, r) \subseteq DOMAIN p
           /\ Untally(p, r) = [x \in DOMAIN Untally(p, r) |-> Untally(p, r)[x]]
           /\ \A x \in DOMAIN Untally(p, r) : Untally(p, r)[x] \in Nat
BY DEF Untally

\* A new runtime is well typed.
LEMMA InitType == Init => TypeOK
<1> SUFFICES ASSUME Init PROVE TypeOK
  OBVIOUS
<1>1. /\ DOMAIN pending = {}
      /\ pending = [r \in DOMAIN pending |-> pending[r]]
  BY DEF Init
<1>2. /\ live \in [Handles -> Reasons \cup {NoReason}]
      /\ outcome \in [Handles -> {"none", "Ok", "TooManyPending", "dropped"}]
  BY DEF Init
<1>3. responses \in Nat
  BY DEF Init
<1> QED BY <1>1, <1>2, <1>3, Zenon DEF Init, TypeOK

\* The type invariant of the runtime.
THEOREM TypeCorrect == Spec => []TypeOK
<1>1. Init => TypeOK
  BY InitType
<1>2. TypeOK /\ [Next]_vars => TypeOK'
  <2> SUFFICES ASSUME TypeOK, [Next]_vars PROVE TypeOK'
    OBVIOUS
  <2>1. CASE BeginStep
    BY <2>1 DEF TypeOK, BeginStep
  <2>2. CASE EndStep
    BY <2>2 DEF TypeOK, EndStep
  <2>3. ASSUME NEW r \in Reasons, unblock_futures(r) PROVE TypeOK'
    <3>1. has_unblock' \in {NoUnblock} \cup (Reasons \X Nat) /\ responses' \in Nat
      BY <2>3 DEF TypeOK, unblock_futures
    <3>2. panicked' \in BOOLEAN
      BY <2>3 DEF TypeOK, unblock_futures
    <3> QED BY <2>3, <3>1, <3>2 DEF TypeOK, unblock_futures
  <2>4. ASSUME NEW h \in Handles, NEW r \in Reasons, new_pending_future(h, r) PROVE TypeOK'
    <3>1. /\ DOMAIN Tally(pending, r) = DOMAIN pending \cup {r}
          /\ Tally(pending, r) = [x \in DOMAIN Tally(pending, r) |-> Tally(pending, r)[x]]
          /\ \A x \in DOMAIN Tally(pending, r) : Tally(pending, r)[x] \in Nat
      BY TallyType DEF TypeOK
    <3>2. pending' \in {Untally(pending, r), Untally(Tally(pending, r), r), Tally(pending, r)}
      BY <2>4 DEF new_pending_future
    <3>3. /\ DOMAIN pending' \subseteq Reasons
          /\ pending' = [x \in DOMAIN pending' |-> pending'[x]]
          /\ \A x \in DOMAIN pending' : pending'[x] \in Nat
      <4>1. CASE pending' = Untally(pending, r)
        BY <4>1, UntallyType DEF TypeOK
      <4>2. CASE pending' = Untally(Tally(pending, r), r)
        <5> DEFINE q == Tally(pending, r)
        <5>1. DOMAIN q \subseteq Reasons /\ (\A x \in DOMAIN q : q[x] \in Nat)
              /\ q = [x \in DOMAIN q |-> q[x]]
          BY <3>1 DEF TypeOK
        <5> HIDE DEF q
        <5>2. /\ DOMAIN Untally(q, r) \subseteq DOMAIN q
              /\ Untally(q, r) = [x \in DOMAIN Untally(q, r) |-> Untally(q, r)[x]]
              /\ \A x \in DOMAIN Untally(q, r) : Untally(q, r)[x] \in Nat
          BY <5>1, UntallyType
        <5>3. pending' = Untally(q, r)
          BY <4>2 DEF q
        <5> QED BY <5>1, <5>2, <5>3
      <4>3. CASE pending' = Tally(pending, r)
        BY <4>3, <3>1 DEF TypeOK
      <4> QED BY <3>2, <4>1, <4>2, <4>3
    <3>4. /\ has_unblock' \in {NoUnblock} \cup (Reasons \X Nat)
          /\ live' \in [Handles -> Reasons \cup {NoReason}]
          /\ outcome' \in [Handles -> {"none", "Ok", "TooManyPending", "dropped"}]
      BY <2>4 DEF TypeOK, new_pending_future, Take
    <3>5. delivered' \in SUBSET [response: Nat, submitted: Reasons, handle: Handles,
                                 awaited: Reasons]
      BY <2>4 DEF TypeOK, new_pending_future, Take, IsFor
    <3> QED
      BY <2>4, <3>3, <3>4, <3>5 DEF TypeOK, new_pending_future
  <2>5. ASSUME NEW h \in Handles, poll(h) PROVE TypeOK'
    <3>1. live[h] \in Reasons
      BY <2>5 DEF TypeOK, poll
    <3>2. /\ DOMAIN pending' \subseteq Reasons
          /\ pending' = [x \in DOMAIN pending' |-> pending'[x]]
          /\ \A x \in DOMAIN pending' : pending'[x] \in Nat
      <4>1. pending' \in {pending, Untally(pending, live[h])}
        BY <2>5 DEF poll
      <4> QED BY <3>1, <4>1, UntallyType DEF TypeOK
    <3>3. delivered' \in SUBSET [response: Nat, submitted: Reasons, handle: Handles,
                                 awaited: Reasons]
      BY <2>5, <3>1 DEF TypeOK, poll, Take, IsFor
    <3>4. /\ has_unblock' \in {NoUnblock} \cup (Reasons \X Nat)
          /\ live' \in [Handles -> Reasons \cup {NoReason}]
          /\ outcome' \in [Handles -> {"none", "Ok", "TooManyPending", "dropped"}]
      BY <2>5 DEF TypeOK, poll, Take
    <3> QED BY <2>5, <3>2, <3>3, <3>4 DEF TypeOK, poll
  <2>6. ASSUME NEW h \in Handles, drop(h) PROVE TypeOK'
    <3>1. live[h] \in Reasons
      BY <2>6 DEF TypeOK, drop
    <3>2. /\ DOMAIN pending' \subseteq Reasons
          /\ pending' = [x \in DOMAIN pending' |-> pending'[x]]
          /\ \A x \in DOMAIN pending' : pending'[x] \in Nat
      BY <2>6, <3>1, UntallyType DEF TypeOK, drop
    <3> QED BY <2>6, <3>2 DEF TypeOK, drop
  <2>7. CASE UNCHANGED vars
    BY <2>7 DEF TypeOK, vars
  <2> QED
    BY <2>1, <2>2, <2>3, <2>4, <2>5, <2>6, <2>7 DEF Next
<1> QED
  BY <1>1, <1>2, PTL DEF Spec

-------------------------------------------------------------------------------
(* pending_futures counts the guards that are alive.                         *)

\* The strengthening: the set of reasons is only known to be finite where pending.
CountInv == TypeOK /\ PendingCountsGuards /\ IsFiniteSet(DOMAIN pending)

\* Waiting(r) is finite because Handles is.
LEMMA WaitingFinite == \A r : IsFiniteSet(Waiting(r))
<1> SUFFICES ASSUME NEW r PROVE IsFiniteSet(Waiting(r))
  OBVIOUS
<1>1. Waiting(r) \subseteq Handles
  BY DEF Waiting
<1> QED BY <1>1, FS_Subset, RuntimeAssumption

\* A new guard: new_pending_future registers a call.
LEMMA GuardAdded ==
    ASSUME CountInv, NEW h \in Handles, NEW r \in Reasons,
           live[h] = NoReason, ~Full(pending, r),
           pending' = Tally(pending, r), live' = [live EXCEPT ![h] = r]
    PROVE  PendingCountsGuards' /\ IsFiniteSet(DOMAIN pending)'
<1>0. live \in [Handles -> Reasons \cup {NoReason}] /\ NoReason \notin Reasons
      /\ MAX_PENDING \in Nat
  BY RuntimeAssumption DEF CountInv, TypeOK
<1>1. /\ DOMAIN pending' = DOMAIN pending \cup {r}
      /\ \A x \in DOMAIN pending' :
            pending'[x] = IF x # r THEN pending[x]
                          ELSE IF r \in DOMAIN pending THEN pending[r] + 1 ELSE 1
  BY DEF Tally
<1>2. Waiting(r)' = Waiting(r) \cup {h} /\ h \notin Waiting(r)
  BY <1>0 DEF Waiting
<1>3. \A x \in Reasons : x # r => Waiting(x)' = Waiting(x)
  BY <1>0 DEF Waiting
<1>4. Cardinality(Waiting(r)') = Cardinality(Waiting(r)) + 1
  BY <1>2, WaitingFinite, FS_AddElement
<1>5. DOMAIN pending' = {x \in Reasons : Waiting(x)' # {}}
  BY <1>1, <1>2, <1>3 DEF CountInv, PendingCountsGuards
<1>6. \A x \in DOMAIN pending' : pending'[x] = Cardinality(Waiting(x)')
  <2> SUFFICES ASSUME NEW x \in DOMAIN pending' PROVE pending'[x] = Cardinality(Waiting(x)')
    OBVIOUS
  <2>1. CASE x # r
    BY <2>1, <1>1, <1>3, <1>5 DEF CountInv, PendingCountsGuards
  <2>2. CASE x = r /\ r \in DOMAIN pending
    BY <2>2, <1>1, <1>4 DEF CountInv, PendingCountsGuards
  <2>3. CASE x = r /\ r \notin DOMAIN pending
    <3>1. Waiting(r) = {}
      BY <2>3 DEF CountInv, PendingCountsGuards
    <3>2. Cardinality(Waiting(r)') = 1
      BY <3>1, <1>4, FS_EmptySet
    <3> QED BY <2>3, <3>2, <1>1
  <2> QED BY <2>1, <2>2, <2>3
<1>7. IsFiniteSet(DOMAIN pending') /\ Cardinality(DOMAIN pending') <= MAX_PENDING
  <2>1. IsFiniteSet(DOMAIN pending) /\ Cardinality(DOMAIN pending) <= MAX_PENDING
        /\ Cardinality(DOMAIN pending) \in Nat
    BY FS_CardinalityType DEF CountInv, PendingCountsGuards
  <2>2. CASE r \in DOMAIN pending
    <3>1. DOMAIN pending' = DOMAIN pending
      BY <2>2, <1>1
    <3> QED BY <3>1, <2>1
  <2>3. CASE r \notin DOMAIN pending
    <3>1. Cardinality(DOMAIN pending) # MAX_PENDING
      BY <2>3 DEF Full
    <3>2. /\ IsFiniteSet(DOMAIN pending \cup {r})
          /\ Cardinality(DOMAIN pending \cup {r}) = Cardinality(DOMAIN pending) + 1
      BY <2>1, <2>3, FS_AddElement
    <3> QED BY <3>1, <3>2, <2>1, <1>0, <1>1
  <2> QED BY <2>2, <2>3
<1> QED
  BY <1>5, <1>6, <1>7 DEF PendingCountsGuards

\* A guard is dropped: a call is answered, or abandoned.
LEMMA GuardDropped ==
    ASSUME CountInv, NEW h \in Handles, NEW r, live[h] = r, r # NoReason,
           pending' = Untally(pending, r), live' = [live EXCEPT ![h] = NoReason]
    PROVE  PendingCountsGuards' /\ IsFiniteSet(DOMAIN pending)'
<1>0. live \in [Handles -> Reasons \cup {NoReason}] /\ NoReason \notin Reasons
      /\ MAX_PENDING \in Nat /\ r \in Reasons
  BY RuntimeAssumption DEF CountInv, TypeOK
<1>1. h \in Waiting(r) /\ Waiting(r)' = Waiting(r) \ {h}
  BY <1>0 DEF Waiting
<1>2. \A x \in Reasons : x # r => Waiting(x)' = Waiting(x)
  BY <1>0 DEF Waiting
<1>3. Cardinality(Waiting(r)') = Cardinality(Waiting(r)) - 1
      /\ Cardinality(Waiting(r)) \in Nat
  BY <1>1, WaitingFinite, FS_RemoveElement, FS_CardinalityType
<1>4. r \in DOMAIN pending /\ pending[r] = Cardinality(Waiting(r))
  BY <1>0, <1>1 DEF CountInv, PendingCountsGuards
<1>5. IsFiniteSet(Waiting(r)')
  BY <1>1, WaitingFinite, FS_RemoveElement
<1>6. IsFiniteSet(DOMAIN pending) /\ Cardinality(DOMAIN pending) <= MAX_PENDING
      /\ Cardinality(DOMAIN pending) \in Nat
  BY FS_CardinalityType DEF CountInv, PendingCountsGuards
<1>7. CASE pending[r] > 1
  <2>1. /\ DOMAIN pending' = DOMAIN pending
        /\ pending'[r] = pending[r] - 1
        /\ \A x \in DOMAIN pending : x # r => pending'[x] = pending[x]
    BY <1>7, <1>4 DEF Untally, CountInv, TypeOK
  <2>2. Waiting(r)' # {}
    <3>1. Cardinality(Waiting(r)') # 0
      BY <1>7, <1>3, <1>4
    <3> QED BY <3>1, FS_EmptySet
  <2>3. DOMAIN pending' = {x \in Reasons : Waiting(x)' # {}}
    BY <2>1, <2>2, <1>0, <1>1, <1>2 DEF CountInv, PendingCountsGuards
  <2>4. \A x \in DOMAIN pending' : pending'[x] = Cardinality(Waiting(x)')
    <3> SUFFICES ASSUME NEW x \in DOMAIN pending'
                 PROVE  pending'[x] = Cardinality(Waiting(x)')
      OBVIOUS
    <3>1. CASE x = r
      BY <3>1, <2>1, <1>3, <1>4
    <3>2. CASE x # r
      BY <3>2, <2>1, <2>3, <1>2 DEF CountInv, PendingCountsGuards
    <3> QED BY <3>1, <3>2
  <2> QED
    BY <2>1, <2>3, <2>4, <1>6 DEF PendingCountsGuards
<1>8. CASE ~(pending[r] > 1)
  <2>1. /\ DOMAIN pending' = DOMAIN pending \ {r}
        /\ \A x \in DOMAIN pending' : pending'[x] = pending[x]
    BY <1>8, <1>4 DEF Untally
  <2>2. Waiting(r)' = {}
    <3>1. Cardinality(Waiting(r)') <= 0 /\ Cardinality(Waiting(r)') \in Nat
      BY <1>8, <1>3, <1>4, <1>5, FS_CardinalityType
    <3>2. Cardinality(Waiting(r)') = 0
      BY <3>1
    <3> QED BY <3>2, <1>5, FS_EmptySet
  <2>3. DOMAIN pending' = {x \in Reasons : Waiting(x)' # {}}
    BY <2>1, <2>2, <1>0, <1>2 DEF CountInv, PendingCountsGuards
  <2>4. \A x \in DOMAIN pending' : pending'[x] = Cardinality(Waiting(x)')
    BY <2>1, <2>3, <1>2 DEF CountInv, PendingCountsGuards
  <2>5. IsFiniteSet(DOMAIN pending') /\ Cardinality(DOMAIN pending') <= MAX_PENDING
    <3>1. /\ IsFiniteSet(DOMAIN pending \ {r})
          /\ Cardinality(DOMAIN pending \ {r}) = Cardinality(DOMAIN pending) - 1
      BY <1>4, <1>6, FS_RemoveElement
    <3> QED BY <3>1, <2>1, <1>6, <1>0
  <2> QED
    BY <2>3, <2>4, <2>5 DEF PendingCountsGuards
<1> QED BY <1>7, <1>8

\* A call that is answered by its first poll leaves the counters as they were.
LEMMA TallyUntally ==
    ASSUME CountInv, NEW r \in Reasons
    PROVE  Untally(Tally(pending, r), r) = pending
<1>1. pending = [x \in DOMAIN pending |-> pending[x]]
  BY DEF CountInv, TypeOK
<1>2. CASE r \in DOMAIN pending
  <2>1. pending[r] \in Nat /\ pending[r] # 0
    <3>1. Waiting(r) # {} /\ pending[r] = Cardinality(Waiting(r))
      BY <1>2 DEF CountInv, PendingCountsGuards
    <3> QED BY <3>1, WaitingFinite, FS_EmptySet, FS_CardinalityType
  <2>2. DOMAIN Tally(pending, r) = DOMAIN pending
    BY <1>2 DEF Tally
  <2>3. Tally(pending, r)[r] = pending[r] + 1
    BY <1>2 DEF Tally
  <2>4. Untally(Tally(pending, r), r) = [Tally(pending, r) EXCEPT ![r] = @ - 1]
    BY <2>1, <2>2, <2>3, <1>2 DEF Untally
  <2>5. \A x \in DOMAIN pending : [Tally(pending, r) EXCEPT ![r] = @ - 1][x] = pending[x]
    BY <2>1, <2>2, <2>3 DEF Tally
  <2> QED BY <2>2, <2>4, <2>5, <1>1
<1>3. CASE r \notin DOMAIN pending
  <2>1. DOMAIN Tally(pending, r) = DOMAIN pending \cup {r} /\ Tally(pending, r)[r] = 1
    BY <1>3 DEF Tally
  <2>2. Untally(Tally(pending, r), r)
          = [x \in (DOMAIN pending \cup {r}) \ {r} |-> Tally(pending, r)[x]]
    BY <2>1 DEF Untally
  <2>3. (DOMAIN pending \cup {r}) \ {r} = DOMAIN pending
    BY <1>3
  <2>4. \A x \in DOMAIN pending : Tally(pending, r)[x] = pending[x]
    BY <1>3 DEF Tally
  <2> QED BY <2>2, <2>3, <2>4, <1>1
<1> QED BY <1>2, <1>3

\* pending_futures counts exactly the guards alive and never exceeds its capacity,
\* whatever the async program and its caller do.
THEOREM PendingCorrect == Spec => []PendingCountsGuards
<1>1. Init => CountInv
  <2> SUFFICES ASSUME Init PROVE CountInv
    OBVIOUS
  <2>1. TypeOK
    BY InitType
  <2>2. \A r \in Reasons : Waiting(r) = {}
    BY RuntimeAssumption DEF Init, Waiting
  <2>3. DOMAIN pending = {} /\ IsFiniteSet({}) /\ Cardinality({}) = 0
    BY FS_EmptySet DEF Init
  <2> QED
    BY <2>1, <2>2, <2>3, RuntimeAssumption DEF CountInv, PendingCountsGuards
<1>2. CountInv /\ TypeOK' /\ [Next]_vars => CountInv'
  <2> SUFFICES ASSUME CountInv, TypeOK', [Next]_vars
               PROVE  PendingCountsGuards' /\ IsFiniteSet(DOMAIN pending)'
    BY DEF CountInv
  <2>0. ASSUME UNCHANGED <<pending, live>>
        PROVE  PendingCountsGuards' /\ IsFiniteSet(DOMAIN pending)'
    BY <2>0 DEF CountInv, PendingCountsGuards, Waiting
  <2>1. CASE BeginStep
    BY <2>0, <2>1 DEF BeginStep
  <2>2. CASE EndStep
    BY <2>0, <2>2 DEF EndStep
  <2>3. ASSUME NEW r \in Reasons, unblock_futures(r)
        PROVE  PendingCountsGuards' /\ IsFiniteSet(DOMAIN pending)'
    BY <2>0, <2>3 DEF unblock_futures
  <2>4. ASSUME NEW h \in Handles, NEW r \in Reasons, new_pending_future(h, r)
        PROVE  PendingCountsGuards' /\ IsFiniteSet(DOMAIN pending)'
    <3>1. CASE Full(pending, r)
      BY <2>0, <2>4, <3>1 DEF new_pending_future, Untally, Full
    <3>2. CASE ~Full(pending, r) /\ IsFor(has_unblock, r)
      BY <2>0, <2>4, <3>2, TallyUntally DEF new_pending_future
    <3>3. CASE ~Full(pending, r) /\ ~IsFor(has_unblock, r)
      BY <2>4, <3>3, GuardAdded DEF new_pending_future
    <3> QED BY <3>1, <3>2, <3>3
  <2>5. ASSUME NEW h \in Handles, poll(h)
        PROVE  PendingCountsGuards' /\ IsFiniteSet(DOMAIN pending)'
    <3>1. CASE IsFor(has_unblock, live[h])
      BY <2>5, <3>1, GuardDropped DEF poll
    <3>2. CASE ~IsFor(has_unblock, live[h])
      BY <2>0, <2>5, <3>2 DEF poll
    <3> QED BY <3>1, <3>2
  <2>6. ASSUME NEW h \in Handles, drop(h)
        PROVE  PendingCountsGuards' /\ IsFiniteSet(DOMAIN pending)'
    BY <2>6, GuardDropped DEF drop
  <2>7. CASE UNCHANGED vars
    BY <2>0, <2>7 DEF vars
  <2> QED
    BY <2>1, <2>2, <2>3, <2>4, <2>5, <2>6, <2>7 DEF Next
<1>3. CountInv => PendingCountsGuards
  BY DEF CountInv
<1> QED
  BY <1>1, <1>2, <1>3, TypeCorrect, PTL DEF Spec

-------------------------------------------------------------------------------
(* Who gets a response.                                                      *)

\* AnsweredOnce made inductive.
AnswerInv == AnsweredOnce /\ ResponsesFresh

\* Taking the response in has_unblock for a call that awaits its reason.
LEMMA TakeAnswers ==
    ASSUME TypeOK, AnswerInv, NEW h \in Handles, NEW r \in Reasons,
           IsFor(has_unblock, r), Take(h, r), UNCHANGED responses
    PROVE  AnswerInv'
<1> DEFINE d0 == [response |-> has_unblock[2], submitted |-> has_unblock[1],
                  handle |-> h, awaited |-> r]
<1>1. has_unblock # NoUnblock /\ has_unblock[1] = r
  BY DEF IsFor
<1>2. has_unblock' = NoUnblock /\ delivered' = delivered \cup {d0}
  BY DEF Take
<1>3. d0.submitted = d0.awaited /\ d0.response = has_unblock[2]
  BY <1>1
<1>4. has_unblock[2] \in 1..responses /\ \A d \in delivered : d.response # has_unblock[2]
  BY <1>1 DEF AnswerInv, ResponsesFresh
<1> HIDE DEF d0
<1>5. AnsweredOnce'
  <2> SUFFICES ASSUME NEW d \in delivered', NEW e \in delivered'
               PROVE  d.submitted = d.awaited /\ (d.response = e.response => d = e)
    BY DEF AnsweredOnce
  <2>1. CASE d \in delivered /\ e \in delivered
    BY <2>1 DEF AnswerInv, AnsweredOnce
  <2>2. CASE d = d0 /\ e = d0
    BY <2>2, <1>3
  <2>3. CASE d = d0 /\ e \in delivered
    BY <2>3, <1>3, <1>4
  <2>4. CASE d \in delivered /\ e = d0
    BY <2>4, <1>3, <1>4 DEF AnswerInv, AnsweredOnce
  <2> QED BY <1>2, <2>1, <2>2, <2>3, <2>4
<1>6. ResponsesFresh'
  BY <1>2, <1>3, <1>4 DEF AnswerInv, ResponsesFresh
<1> QED BY <1>5, <1>6 DEF AnswerInv

\* No response answers two calls, and none answers a call that awaits another reason.
THEOREM AnsweredOnceCorrect == Spec => []AnsweredOnce
<1>1. Init => AnswerInv
  BY DEF Init, AnswerInv, AnsweredOnce, ResponsesFresh
<1>2. TypeOK /\ AnswerInv /\ [Next]_vars => AnswerInv'
  <2> SUFFICES ASSUME TypeOK, AnswerInv, [Next]_vars PROVE AnswerInv'
    OBVIOUS
  <2>0. ASSUME UNCHANGED <<delivered, responses>>, has_unblock' \in {has_unblock, NoUnblock}
        PROVE  AnswerInv'
    BY <2>0 DEF AnswerInv, AnsweredOnce, ResponsesFresh
  <2>1. CASE BeginStep
    BY <2>0, <2>1 DEF BeginStep
  <2>2. CASE EndStep
    BY <2>0, <2>2 DEF EndStep
  <2>3. ASSUME NEW r \in Reasons, unblock_futures(r) PROVE AnswerInv'
    <3>1. CASE has_unblock # NoUnblock
      BY <2>0, <2>3, <3>1 DEF unblock_futures
    <3>2. CASE has_unblock = NoUnblock
      <4>1. /\ has_unblock' = <<r, responses + 1>>
            /\ responses' = responses + 1
            /\ delivered' = delivered
            /\ responses \in Nat
        BY <2>3, <3>2 DEF unblock_futures, TypeOK
      <4>2. \A d \in delivered : d.response \in 1..responses
        BY DEF AnswerInv, ResponsesFresh
      <4> QED BY <4>1, <4>2 DEF AnswerInv, AnsweredOnce, ResponsesFresh
    <3> QED BY <3>1, <3>2
  <2>4. ASSUME NEW h \in Handles, NEW r \in Reasons, new_pending_future(h, r) PROVE AnswerInv'
    <3>1. CASE IsFor(has_unblock, r) /\ Take(h, r)
      BY <2>4, <3>1, TakeAnswers DEF new_pending_future
    <3>2. CASE UNCHANGED <<has_unblock, delivered>>
      BY <2>0, <2>4, <3>2 DEF new_pending_future
    <3> QED BY <2>4, <3>1, <3>2 DEF new_pending_future
  <2>5. ASSUME NEW h \in Handles, poll(h) PROVE AnswerInv'
    <3>1. CASE IsFor(has_unblock, live[h]) /\ Take(h, live[h])
      <4>1. live[h] \in Reasons
        BY <2>5 DEF poll, TypeOK
      <4> QED BY <2>5, <3>1, <4>1, TakeAnswers DEF poll
    <3>2. CASE UNCHANGED <<has_unblock, delivered>>
      BY <2>0, <2>5, <3>2 DEF poll
    <3> QED BY <2>5, <3>1, <3>2 DEF poll
  <2>6. ASSUME NEW h \in Handles, drop(h) PROVE AnswerInv'
    BY <2>0, <2>6 DEF drop
  <2>7. CASE UNCHANGED vars
    BY <2>0, <2>7 DEF vars
  <2> QED
    BY <2>1, <2>2, <2>3, <2>4, <2>5, <2>6, <2>7 DEF Next
<1>3. AnswerInv => AnsweredOnce
  BY DEF AnswerInv
<1> QED
  BY <1>1, <1>2, <1>3, TypeCorrect, PTL DEF Spec

\* During a step every future that wants the response at hand still has its turn.
THEOREM TurnCorrect == Spec => []WaitersHaveTheirTurn
<1>1. Init => WaitersHaveTheirTurn
  BY DEF Init, WaitersHaveTheirTurn
<1>2. TypeOK /\ WaitersHaveTheirTurn /\ [Next]_vars => WaitersHaveTheirTurn'
  <2> SUFFICES ASSUME TypeOK, WaitersHaveTheirTurn, [Next]_vars, polling',
                      NEW h \in Handles, live'[h] # NoReason, IsFor(has_unblock', live'[h])
               PROVE  h \in unpolled'
    BY DEF WaitersHaveTheirTurn
  <2>0. ~IsFor(NoUnblock, live'[h])
    BY DEF IsFor
  <2>1. CASE BeginStep
    BY <2>1 DEF BeginStep
  <2>2. CASE EndStep
    BY <2>2 DEF EndStep
  <2>3. ASSUME NEW r \in Reasons, unblock_futures(r) PROVE h \in unpolled'
    BY <2>3 DEF unblock_futures
  <2>4. ASSUME NEW g \in Handles, NEW r \in Reasons, new_pending_future(g, r)
        PROVE  h \in unpolled'
    BY <2>0, <2>4 DEF new_pending_future, Take, TypeOK, WaitersHaveTheirTurn
  <2>5. ASSUME NEW g \in Handles, poll(g) PROVE h \in unpolled'
    BY <2>0, <2>5 DEF poll, Take, TypeOK, WaitersHaveTheirTurn
  <2>6. ASSUME NEW g \in Handles, drop(g) PROVE h \in unpolled'
    BY <2>6 DEF drop, TypeOK, WaitersHaveTheirTurn
  <2>7. CASE UNCHANGED vars
    BY <2>7 DEF vars, WaitersHaveTheirTurn
  <2> QED
    BY <2>1, <2>2, <2>3, <2>4, <2>5, <2>6, <2>7 DEF Next
<1> QED
  BY <1>1, <1>2, TypeCorrect, PTL DEF Spec

\* run_async_step clears a response only when no future waits for its reason.
THEOREM LostOnlyIfUnwantedCorrect == Spec => LostOnlyIfUnwanted
<1>1. TypeOK /\ WaitersHaveTheirTurn /\ [Next]_vars
        => [\A r \in Reasons : polling /\ ~polling' /\ IsFor(has_unblock, r)
                => Waiting(r) = {}]_vars
  <2> SUFFICES ASSUME TypeOK, WaitersHaveTheirTurn, Next, NEW r \in Reasons,
                      polling, ~polling', IsFor(has_unblock, r)
               PROVE  Waiting(r) = {}
    OBVIOUS
  <2>1. EndStep
    BY DEF Next, BeginStep, unblock_futures, new_pending_future, poll, drop
  <2>2. \A h \in Handles : live[h] # r
    BY <2>1, RuntimeAssumption DEF EndStep, WaitersHaveTheirTurn
  <2> QED BY <2>2 DEF Waiting
<1> QED
  BY <1>1, TypeCorrect, TurnCorrect, PTL DEF Spec, LostOnlyIfUnwanted

\* A refusal means that the capacity is in use by as many other reasons.
THEOREM RefusedOnlyWhenFullCorrect == Spec => RefusedOnlyWhenFull
<1>1. ASSUME TypeOK, PendingCountsGuards, NEW h \in Handles, NEW r \in Reasons,
             new_pending_future(h, r), outcome'[h] = "TooManyPending"
      PROVE  /\ Waiting(r) = {}
             /\ Cardinality({q \in Reasons : Waiting(q) # {}}) = MAX_PENDING
  <2>1. Full(pending, r)
    BY <1>1 DEF new_pending_future, Take, TypeOK
  <2> QED BY <1>1, <2>1 DEF Full, PendingCountsGuards
<1>2. ASSUME TypeOK, PendingCountsGuards
      PROVE  \A h \in Handles, r \in Reasons :
                new_pending_future(h, r) /\ outcome'[h] = "TooManyPending"
                   => /\ Waiting(r) = {}
                      /\ Cardinality({q \in Reasons : Waiting(q) # {}}) = MAX_PENDING
  BY <1>1, <1>2
<1> QED BY <1>2, TypeCorrect, PendingCorrect, PTL DEF RefusedOnlyWhenFull

\* A runtime with room for every reason never answers TooManyPending.
THEOREM NeverTooManyCorrect == Spec => []NeverTooMany
<1>1. CASE ~(IsFiniteSet(Reasons) /\ Cardinality(Reasons) <= MAX_PENDING)
  <2>1. NeverTooMany
    BY <1>1 DEF NeverTooMany
  <2> QED BY <2>1, PTL
<1>2. CASE IsFiniteSet(Reasons) /\ Cardinality(Reasons) <= MAX_PENDING
  <2>1. Init => NeverTooMany
    BY DEF Init, NeverTooMany
  <2>2. TypeOK /\ PendingCountsGuards /\ NeverTooMany /\ [Next]_vars => NeverTooMany'
    <3> SUFFICES ASSUME TypeOK, PendingCountsGuards, NeverTooMany, [Next]_vars,
                        NEW h \in Handles
                 PROVE  outcome'[h] # "TooManyPending"
      BY DEF NeverTooMany
    <3>0. outcome[h] # "TooManyPending" /\ h \in DOMAIN outcome
      BY <1>2 DEF NeverTooMany, TypeOK
    <3>1. \A r \in Reasons : ~Full(pending, r)
      <4> SUFFICES ASSUME NEW r \in Reasons, r \notin DOMAIN pending
                   PROVE  Cardinality(DOMAIN pending) # MAX_PENDING
        BY DEF Full
      <4>1. DOMAIN pending \subseteq Reasons \ {r}
        BY DEF TypeOK
      <4>2. /\ IsFiniteSet(Reasons \ {r})
            /\ Cardinality(Reasons \ {r}) = Cardinality(Reasons) - 1
            /\ Cardinality(Reasons) \in Nat
        BY <1>2, FS_RemoveElement, FS_CardinalityType
      <4>3. /\ Cardinality(DOMAIN pending) <= Cardinality(Reasons \ {r})
            /\ Cardinality(DOMAIN pending) \in Nat
        BY <4>1, <4>2, FS_Subset, FS_CardinalityType
      <4> QED BY <4>2, <4>3, <1>2, RuntimeAssumption
    <3>2. CASE BeginStep \/ EndStep \/ UNCHANGED vars
      BY <3>0, <3>2 DEF BeginStep, EndStep, vars
    <3>3. ASSUME NEW r \in Reasons, unblock_futures(r) PROVE outcome'[h] # "TooManyPending"
      BY <3>0, <3>3 DEF unblock_futures
    <3>4. ASSUME NEW g \in Handles, NEW r \in Reasons, new_pending_future(g, r)
          PROVE  outcome'[h] # "TooManyPending"
      BY <3>0, <3>1, <3>4 DEF new_pending_future, Take, TypeOK
    <3>5. ASSUME NEW g \in Handles, poll(g) PROVE outcome'[h] # "TooManyPending"
      BY <3>0, <3>5 DEF poll, Take, TypeOK
    <3>6. ASSUME NEW g \in Handles, drop(g) PROVE outcome'[h] # "TooManyPending"
      BY <3>0, <3>6 DEF drop, TypeOK
    <3> QED
      BY <3>2, <3>3, <3>4, <3>5, <3>6 DEF Next
  <2> QED
    BY <2>1, <2>2, TypeCorrect, PendingCorrect, PTL DEF Spec
<1> QED BY <1>1, <1>2

-------------------------------------------------------------------------------
(* The task tracker, for any set of reasons that fits into it.               *)

M == INSTANCE FixedSizedMapProofs WITH N <- MAX_TASKS, Keys <- TaskReasons, Vals <- {0, 1},
                                       ordered <- TRUE

\* The tracker's own instance of the map is the one that FixedSizedMapProofs is about: each
\* operator of it has the same definition in both.
LEMMA SameMap ==
    /\ tasks!TypeOK /\ tasks!SortedPrefix <=> M!MapInv
    /\ (tasks!TypeOK /\ tasks!SortedPrefix)' <=> M!MapInv'
BY DEF tasks!TypeOK, tasks!SortedPrefix, tasks!InOrder, M!MapInv, M!TypeOK, M!InOrder,
       tasks!Slots, M!Slots, tasks!Empty, M!Empty, None, Done

\* _search.
LEMMA SameSearch == \A a, k : tasks!search(a, k) = M!search(a, k)
BY DEF tasks!search, M!search, tasks!probed, M!probed, tasks!Halve, M!Halve,
       tasks!Greater, M!Greater, tasks!Less, M!Less, tasks!Empty, M!Empty

\* move_within.
LEMMA SameMove ==
    \A a, from, to, start :
        tasks!move_within(a, from, to, start) = M!move_within(a, from, to, start)
BY DEF tasks!move_within, M!move_within, tasks!leftwards, M!leftwards, tasks!rightwards,
       M!rightwards, tasks!swap, M!swap

\* remove.
LEMMA SameRemove ==
    ASSUME NEW k PROVE tasks!remove(k) <=> M!remove(k)
BY SameSearch, SameMove DEF tasks!remove, M!remove,
    tasks!Empty, M!Empty, tasks!A!Some, M!A!Some, tasks!A!None, M!A!None

\* set_default.
LEMMA SameSet ==
    ASSUME NEW k, NEW v PROVE tasks!set_default(k, v) <=> M!set_default(k, v)
BY SameSearch, SameMove DEF tasks!set_default, M!set_default,
    tasks!A!Ok, M!A!Ok, tasks!A!TooManyPending, M!A!TooManyPending

\* map_edit.
LEMMA SameMapEdit ==
    ASSUME NEW n, NEW new PROVE tasks!map_edit(n, new) <=> M!map_edit(n, new)
BY DEF tasks!map_edit, M!map_edit, tasks!EditPrefix, M!EditPrefix, tasks!Slots, M!Slots,
    tasks!A!Unit, M!A!Unit, tasks!StopsAfter, M!StopsAfter, tasks!Panicked, M!Panicked,
    tasks!Empty, M!Empty

\* One round of inner_join_keys.
LEMMA SameTake == \A p, k : tasks!TakeInto(p, k) = M!TakeInto(p, k)
BY SameSearch DEF tasks!TakeInto, M!TakeInto, tasks!Empty, M!Empty

\* All its rounds.
LEMMA SameJoined == \A a, S : tasks!joined(a, S) = M!joined(a, S)
BY SameSearch DEF tasks!joined, M!joined, tasks!TakeInto, M!TakeInto, tasks!Empty, M!Empty,
  tasks!search, M!search, tasks!probed, M!probed, tasks!Halve, M!Halve,
       tasks!Greater, M!Greater, tasks!Less, M!Less,
  tasks!other_item, M!other_item, tasks!Slots, M!Slots, tasks!EmptyArray, M!EmptyArray,
  tasks!Cardinality, M!Cardinality

\* inner_join_keys.
LEMMA SameJoin ==
    ASSUME NEW S PROVE tasks!inner_join_keys(S) <=> M!inner_join_keys(S)
BY SameJoined DEF tasks!inner_join_keys, M!inner_join_keys, tasks!Slots, M!Slots,
    tasks!A!Unit, M!A!Unit, tasks!Empty, M!Empty

\* The tracker is a map.
MapOk == tasks!TypeOK /\ tasks!SortedPrefix

\* The keys and the completed keys of a sorted array, by the map it stands for.
LEMMA Held ==
    ASSUME NEW a \in M!Arrays({0, 1}), NEW n \in 0..MAX_TASKS,
           M!Sorted(a, n)
    PROVE  /\ {a[i][1] : i \in 0..n - 1} = DOMAIN M!MapOf(a, n)
           /\ {a[i][1] : i \in {j \in 0..n - 1 : a[j][2] = 1}}
                 = {k \in DOMAIN M!MapOf(a, n) : M!MapOf(a, n)[k] = 1}
<1>1. MAX_TASKS \in Nat \ {0} /\ TaskReasons \subseteq Int
  BY TrackerAssumption
<1>2. /\ DOMAIN M!MapOf(a, n) = M!KeysOf(a, n)
      /\ \A i \in 0..n - 1 : M!MapOf(a, n)[a[i][1]] = a[i][2]
  BY <1>1, M!MapFacts
<1>3. {a[i][1] : i \in 0..n - 1} = M!KeysOf(a, n)
  BY DEF M!KeysOf
<1> QED BY <1>2, <1>3

\* What the tracker holds, before and after a step, as the map that its array implements.
LEMMA TrackedIs ==
    /\ MapOk =>
          /\ Tracked = DOMAIN M!MapOf(items, size)
          /\ Completed = {k \in Tracked : M!MapOf(items, size)[k] = Done}
    /\ MapOk' =>
          /\ Tracked' = DOMAIN M!MapOf(items', size')
          /\ Completed' = {k \in Tracked' : M!MapOf(items', size')[k] = Done}
<1>1. MAX_TASKS \in Nat \ {0} /\ TaskReasons \subseteq Int /\ Done = 1
  BY TrackerAssumption DEF Done
<1>2. ASSUME MapOk
      PROVE  items \in M!Arrays({0, 1}) /\ size \in 0..MAX_TASKS /\ M!Sorted(items, size)
  BY <1>1, <1>2, SameMap, M!MapInvIs DEF MapOk
<1>3. ASSUME MapOk'
      PROVE  items' \in M!Arrays({0, 1}) /\ size' \in 0..MAX_TASKS /\ M!Sorted(items', size')
  BY <1>1, <1>3, SameMap, M!MapInvIs DEF MapOk
<1>4. ASSUME MapOk
      PROVE  /\ Tracked = DOMAIN M!MapOf(items, size)
             /\ Completed = {k \in Tracked : M!MapOf(items, size)[k] = Done}
  <2>1. /\ {items[i][1] : i \in 0..size - 1} = DOMAIN M!MapOf(items, size)
        /\ {items[i][1] : i \in {j \in 0..size - 1 : items[j][2] = 1}}
              = {k \in DOMAIN M!MapOf(items, size) : M!MapOf(items, size)[k] = 1}
    BY <1>2, <1>4, Held
  <2> QED BY <1>1, <2>1 DEF Tracked, Completed
<1>5. ASSUME MapOk'
      PROVE  /\ Tracked' = DOMAIN M!MapOf(items', size')
             /\ Completed' = {k \in Tracked' : M!MapOf(items', size')[k] = Done}
  <2>1. /\ {items'[i][1] : i \in 0..size' - 1} = DOMAIN M!MapOf(items', size')
        /\ {items'[i][1] : i \in {j \in 0..size' - 1 : items'[j][2] = 1}}
              = {k \in DOMAIN M!MapOf(items', size') : M!MapOf(items', size')[k] = 1}
    BY <1>3, <1>5, Held
  <2> QED BY <1>1, <2>1 DEF Tracked, Completed
<1> QED BY <1>4, <1>5

\* take of a response removes its task.
LEMMA Taken ==
    ASSUME MapOk, NEW r \in TaskReasons, tasks!remove(r)
    PROVE  MapOk' /\ Tracked' = Tracked \ {r}
<1>1. M!MapInv /\ M!remove(r) /\ MAX_TASKS \in Nat \ {0} /\ TaskReasons \subseteq Int
  BY SameMap, SameRemove, TrackerAssumption DEF MapOk
<1>2. M!MapInv'
  BY <1>1, M!RemoveSorts
<1>3. MapOk'
  BY <1>2, SameMap DEF MapOk
<1>4. M!A!Remove(r)
  BY <1>1, M!RemoveImplements
<1>5. DOMAIN M!MapOf(items', size') = DOMAIN M!MapOf(items, size) \ {r}
  BY <1>4 DEF M!A!Remove, M!A!Restrict
<1> QED BY <1>3, <1>5, TrackedIs

\* register adds a task without a response.
LEMMA Registered ==
    ASSUME MapOk, NEW r \in TaskReasons, r \notin Tracked,
           tasks!set_default(r, None)
    PROVE  MapOk' /\ Tracked' \subseteq Tracked \cup {r} /\ Completed' = Completed
<1> DEFINE map == M!MapOf(items, size)
<1>0. None = 0 /\ Done = 1
  BY DEF None, Done
<1>1. M!MapInv /\ M!set_default(r, 0) /\ MAX_TASKS \in Nat \ {0} /\ TaskReasons \subseteq Int
  BY <1>0, SameMap, SameSet, TrackerAssumption DEF MapOk
<1>2. M!MapInv'
  BY <1>1, M!SetDefaultSorts
<1>3. MapOk'
  BY <1>2, SameMap DEF MapOk
<1>4. M!A!SetDefault(r, 0)
  BY <1>1, M!SetDefaultImplements
<1>5. \/ M!MapOf(items', size') = map
      \/ M!MapOf(items', size') = [j \in DOMAIN map \cup {r} |-> IF j = r THEN 0 ELSE map[j]]
  BY <1>4 DEF M!A!SetDefault
<1> HIDE DEF map
<1>6. Tracked = DOMAIN map /\ Completed = {k \in DOMAIN map : map[k] = 1}
  BY <1>0, TrackedIs DEF map
<1>7. /\ Tracked' = DOMAIN M!MapOf(items', size')
      /\ Completed' = {k \in Tracked' : M!MapOf(items', size')[k] = 1}
  BY <1>0, <1>3, TrackedIs
<1> QED BY <1>3, <1>5, <1>6, <1>7

\* work keeps the tracker a map.
LEMMA Worked ==
    ASSUME MapOk, tasks!map_edit(size, [i \in 0..size - 1 |-> <<items[i][1], Done>>])
    PROVE  MapOk'
<1> DEFINE new == [i \in 0..size - 1 |-> <<items[i][1], Done>>]
<1>1. M!MapInv /\ M!map_edit(size, new) /\ MAX_TASKS \in Nat \ {0} /\ TaskReasons \subseteq Int
  <2> HIDE DEF new
  <2> QED BY SameMap, SameMapEdit, TrackerAssumption DEF MapOk, new
<1>2. size \in 0..size /\ M!EditPrefix(size, new)
  BY <1>1, M!MapInvIs DEF M!map_edit
<1>3. M!MapInv'
  BY <1>1, <1>2, M!ValueEditSorts DEF Done
<1> QED BY <1>3, SameMap DEF MapOk

\* After the join only what the program waits for is tracked.
LEMMA Synced ==
    ASSUME MapOk, waiting \in SUBSET TaskReasons, tasks!inner_join_keys(waiting)
    PROVE  MapOk' /\ Tracked' \subseteq waiting
<1>1. M!MapInv /\ M!inner_join_keys(waiting) /\ MAX_TASKS \in Nat \ {0} /\ TaskReasons \subseteq Int
  BY SameMap, SameJoin, TrackerAssumption DEF MapOk
<1>2. waiting \in M!OtherMaps
  <2>1. IsFiniteSet(TaskReasons) /\ Cardinality(TaskReasons) \in Nat /\ Cardinality(TaskReasons) <= MAX_TASKS
    BY TrackerAssumption, FS_CardinalityType
  <2>2. IsFiniteSet(waiting) /\ Cardinality(waiting) \in Nat /\ Cardinality(waiting) <= MAX_TASKS
    <3>1. IsFiniteSet(waiting) /\ Cardinality(waiting) <= Cardinality(TaskReasons)
      BY <2>1, FS_Subset
    <3>2. Cardinality(waiting) \in Nat /\ MAX_TASKS \in Nat
      BY <1>1, <3>1, FS_CardinalityType
    <3> QED BY <2>1, <3>1, <3>2
  <2> QED BY <2>2 DEF M!OtherMaps, M!IsFiniteSet, IsFiniteSet, M!Cardinality, Cardinality
<1>3. M!MapInv' /\ M!JoinsWithin(waiting)
  BY <1>1, <1>2, M!JoinSorts, M!JoinWithin
<1>4. MapOk'
  BY <1>3, SameMap DEF MapOk
<1>5. DOMAIN M!MapOf(items', size') \subseteq waiting
  BY <1>3 DEF M!JoinsWithin
<1> QED BY <1>4, <1>5, TrackedIs

-------------------------------------------------------------------------------
(* The inductive invariant of the tracker.                                   *)

\* Who has the tracker where the driver is, and what the driver has already done with it.
DriverInv ==
    /\ unblocked # NoTask => driver = "step" /\ owner = "main"
    /\ driver \in {"join", "answer", "register"} => owner = "main"
    /\ driver = "exited" => owner = "worker"
    /\ driver \in {"answer", "register"} => Tracked \subseteq waiting
    /\ driver = "register" => Completed = {}

TrackerInv == TrackerTypeOK /\ AnswersPending /\ DriverInv

\* A step that leaves the tracker alone leaves alone what it holds.
LEMMA TrackerFrame ==
    ASSUME MapOk, UNCHANGED <<items, size>>
    PROVE  MapOk' /\ Tracked' = Tracked /\ Completed' = Completed
BY DEF MapOk, Tracked, Completed, tasks!TypeOK, tasks!SortedPrefix, tasks!InOrder, tasks!Slots,
       tasks!Empty, None, Done

\* The driver starts with an empty tracker.
LEMMA TrackerStarts ==
    ASSUME TrackerInit
    PROVE  TrackerInv
<1>1. items = [i \in 0..MAX_TASKS - 1 |-> << >>] /\ size = 0 /\ MAX_TASKS \in Nat
  BY TrackerAssumption DEF TrackerInit, tasks!Init, tasks!EmptyArray, tasks!Slots, tasks!Empty
<1>2. tasks!TypeOK /\ tasks!SortedPrefix
  BY <1>1 DEF tasks!TypeOK, tasks!SortedPrefix, tasks!InOrder, tasks!Slots, tasks!Empty
<1>3. TrackerTypeOK
  BY <1>2, TrackerAssumption DEF TrackerTypeOK, TrackerInit
<1> QED BY <1>3 DEF TrackerInv, AnswersPending, DriverInv, TrackerInit

\* run_async_step uses up the response it was given.
LEMMA StepKeeps ==
    ASSUME TrackerInv, run_async_step
    PROVE  TrackerInv'
<1>1. MapOk' /\ Tracked' = Tracked /\ Completed' = Completed
  BY TrackerFrame DEF TrackerInv, TrackerTypeOK, MapOk, run_async_step
<1>2. waiting' \in SUBSET TaskReasons
  BY DEF TrackerInv, TrackerTypeOK, run_async_step
<1>3. /\ unblocked' = NoTask /\ owner' = owner
      /\ driver' = IF owner = "main" THEN "join" ELSE "recv"
  BY DEF run_async_step
<1>4. TrackerTypeOK'
  BY <1>1, <1>2, <1>3 DEF TrackerInv, TrackerTypeOK, MapOk
<1> QED BY <1>3, <1>4 DEF TrackerInv, AnswersPending, DriverInv

\* The tracker may come back through the channel.
LEMMA RecvKeeps ==
    ASSUME TrackerInv, try_recv
    PROVE  TrackerInv'
<1>1. MapOk' /\ Tracked' = Tracked /\ Completed' = Completed
  BY TrackerFrame DEF TrackerInv, TrackerTypeOK, MapOk, try_recv
<1>2. TrackerTypeOK'
  BY <1>1 DEF TrackerInv, TrackerTypeOK, MapOk, try_recv
<1> QED BY <1>2 DEF TrackerInv, AnswersPending, DriverInv, try_recv

\* sync drops the tasks nobody waits for.
LEMMA JoinKeeps ==
    ASSUME TrackerInv, SyncJoin
    PROVE  TrackerInv'
<1>1. MapOk' /\ Tracked' \subseteq waiting
  BY Synced DEF TrackerInv, TrackerTypeOK, MapOk, SyncJoin
<1>2. TrackerTypeOK'
  BY <1>1 DEF TrackerInv, TrackerTypeOK, MapOk, SyncJoin
<1> QED BY <1>1, <1>2 DEF TrackerInv, AnswersPending, DriverInv, SyncJoin

\* sync answers the first complete one, whose task it removes, or leaves an empty tracker to
\* be filled.
LEMMA AnswerKeeps ==
    ASSUME TrackerInv, SyncAnswer
    PROVE  TrackerInv'
<1> DEFINE complete == waiting \cap Completed
<1>0. MapOk /\ waiting \in SUBSET TaskReasons /\ size \in Nat
  BY DEF TrackerInv, TrackerTypeOK, MapOk, tasks!TypeOK
<1>1. driver = "answer" /\ owner = "main" /\ unblocked = NoTask
  BY DEF SyncAnswer, TrackerInv, DriverInv
<1>2. CASE \E r \in complete : tasks!remove(r) /\ unblocked' = r /\ driver' = "step"
  <2>1. PICK r \in complete : tasks!remove(r) /\ unblocked' = r /\ driver' = "step"
    BY <1>2
  <2>2. MapOk' /\ Tracked' = Tracked \ {r} /\ r \in TaskReasons
    BY <1>0, <2>1, Taken
  <2>3. TrackerTypeOK'
    BY <2>1, <2>2 DEF TrackerInv, TrackerTypeOK, MapOk, SyncAnswer
  <2>4. AnswersPending'
    BY <2>1, <2>2 DEF AnswersPending, SyncAnswer
  <2>5. DriverInv'
    BY <1>1, <2>1 DEF DriverInv, SyncAnswer
  <2> QED BY <2>3, <2>4, <2>5 DEF TrackerInv
<1>3. CASE /\ complete = {}
           /\ driver' = IF size = 0 THEN "register" ELSE "step"
           /\ UNCHANGED <<items, size, ret, unblocked>>
  <2>1. MapOk' /\ Tracked' = Tracked /\ Completed' = Completed
    BY <1>0, <1>3, TrackerFrame
  <2>2. TrackerTypeOK'
    BY <1>3, <2>1 DEF TrackerInv, TrackerTypeOK, MapOk, SyncAnswer
  <2>3. size = 0 => Completed = {} /\ Tracked = {}
    BY DEF Completed, Tracked
  <2>4. AnswersPending'
    BY <1>1, <1>3 DEF AnswersPending
  <2>5. DriverInv'
    BY <1>1, <1>3, <2>1, <2>3 DEF TrackerInv, DriverInv, SyncAnswer
  <2> QED BY <2>2, <2>4, <2>5 DEF TrackerInv
<1> QED BY <1>2, <1>3 DEF SyncAnswer

\* register_if adds tasks without a response, and only for what the program waits for.
LEMMA RegisterKeeps ==
    ASSUME TrackerInv, register_if
    PROVE  TrackerInv'
<1> DEFINE left == waiting \ Tracked
<1>0. MapOk /\ waiting \in SUBSET TaskReasons
  BY DEF TrackerInv, TrackerTypeOK, MapOk
<1>1. /\ driver = "register" /\ owner = "main" /\ unblocked = NoTask
      /\ Tracked \subseteq waiting /\ Completed = {}
  BY DEF register_if, TrackerInv, DriverInv
<1>2. CASE \E r \in left : tasks!set_default(r, None) /\ UNCHANGED <<driver, owner>>
  <2>1. PICK r \in left : tasks!set_default(r, None) /\ UNCHANGED <<driver, owner>>
    BY <1>2
  <2>2. MapOk' /\ Tracked' \subseteq Tracked \cup {r} /\ Completed' = Completed
    BY <1>0, <2>1, Registered
  <2>3. TrackerTypeOK'
    BY <2>1, <2>2 DEF TrackerInv, TrackerTypeOK, MapOk, register_if
  <2>4. AnswersPending'
    BY <1>1 DEF AnswersPending, register_if
  <2>5. DriverInv'
    BY <1>1, <2>1, <2>2 DEF DriverInv, register_if
  <2> QED BY <2>3, <2>4, <2>5 DEF TrackerInv
<1>3. CASE left = {} /\ owner' = "worker" /\ driver' = "step" /\ UNCHANGED <<items, size, ret>>
  <2>1. MapOk' /\ Tracked' = Tracked /\ Completed' = Completed
    BY <1>0, <1>3, TrackerFrame
  <2>2. TrackerTypeOK'
    BY <1>3, <2>1 DEF TrackerInv, TrackerTypeOK, MapOk, register_if
  <2> QED BY <1>1, <1>3, <2>2 DEF TrackerInv, AnswersPending, DriverInv, register_if
<1> QED BY <1>2, <1>3 DEF register_if

\* The worker has the tracker, so that the driver has neither joined nor answered with it.
LEMMA WorkKeeps ==
    ASSUME TrackerInv, Worker
    PROVE  TrackerInv'
<1>1. /\ tasks!map_edit(size, [i \in 0..size - 1 |-> <<items[i][1], Done>>])
      /\ owner = "worker" /\ owner' = "channel" /\ driver # "exited"
      /\ UNCHANGED <<driver, waiting, unblocked>>
  BY DEF Worker, work
<1>2. MapOk'
  BY <1>1, Worked DEF TrackerInv, TrackerTypeOK, MapOk
<1>3. unblocked = NoTask /\ driver \notin {"join", "answer", "register"}
  BY <1>1 DEF TrackerInv, DriverInv
<1>4. TrackerTypeOK'
  BY <1>1, <1>2 DEF TrackerInv, TrackerTypeOK, MapOk
<1> QED BY <1>1, <1>3, <1>4 DEF TrackerInv, AnswersPending, DriverInv

\* The process ends while the worker has the tracker.
LEMMA FailKeeps ==
    ASSUME TrackerInv, WorkerFails
    PROVE  TrackerInv'
<1>1. MapOk' /\ Tracked' = Tracked /\ Completed' = Completed
  BY TrackerFrame DEF TrackerInv, TrackerTypeOK, MapOk, WorkerFails
<1>2. TrackerTypeOK'
  BY <1>1 DEF TrackerInv, TrackerTypeOK, MapOk, WorkerFails
<1> QED BY <1>2 DEF TrackerInv, AnswersPending, DriverInv, WorkerFails

\* The invariant holds of every state.
LEMMA TrackerInvariance == TrackerSpec => []TrackerInv
<1>1. TrackerInit => TrackerInv
  BY TrackerStarts
<1>2. TrackerInv /\ [TrackerNext]_tracker_vars => TrackerInv'
  <2> SUFFICES ASSUME TrackerInv, [TrackerNext]_tracker_vars PROVE TrackerInv'
    OBVIOUS
  <2>1. CASE Main
    BY <2>1, StepKeeps, RecvKeeps, JoinKeeps, AnswerKeeps, RegisterKeeps DEF Main
  <2>2. CASE Worker
    BY <2>2, WorkKeeps
  <2>3. CASE WorkerFails
    BY <2>3, FailKeeps
  <2>4. CASE UNCHANGED tracker_vars
    <3>1. UNCHANGED <<items, size, owner, driver, waiting, unblocked>>
      BY <2>4 DEF tracker_vars
    <3>2. MapOk' /\ Tracked' = Tracked /\ Completed' = Completed
      BY <3>1, TrackerFrame DEF TrackerInv, TrackerTypeOK, MapOk
    <3> QED BY <3>1, <3>2 DEF TrackerInv, TrackerTypeOK, MapOk, AnswersPending, DriverInv
  <2> QED BY <2>1, <2>2, <2>3, <2>4 DEF TrackerNext, Exited
<1> QED BY <1>1, <1>2, PTL DEF TrackerSpec

\* sync answers only a future that waits, and no task for it is left in the tracker: no
\* response is given twice, and the tracker stays a map.
THEOREM AnswersPendingCorrect ==
    TrackerSpec => [](TrackerTypeOK /\ AnswersPending)
<1>1. TrackerInv => TrackerTypeOK /\ AnswersPending
  BY DEF TrackerInv
<1> QED BY <1>1, TrackerInvariance, PTL

\* The batch that register_if hands to the worker is exactly what the program waits for, and
\* holds no response that work would overwrite.  It holds although inner_join_keys may drop
\* common keys: the tracker is empty when register_if begins.
THEOREM BatchIsPendingCorrect ==
    TrackerSpec => BatchIsPending
<1> DEFINE HandedOver == owner = "main" /\ owner' = "worker"
                             => Tracked = waiting /\ Completed = {}
<1>1. TrackerInv /\ [TrackerNext]_tracker_vars => [HandedOver]_tracker_vars
  <2> SUFFICES ASSUME TrackerInv, [TrackerNext]_tracker_vars, owner = "main", owner' = "worker"
               PROVE  Tracked = waiting /\ Completed = {}
    OBVIOUS
  <2>1. register_if
    BY DEF TrackerNext, Main, Worker, work, WorkerFails, Exited, tracker_vars, run_async_step,
           try_recv, SyncJoin, SyncAnswer
  <2>2. waiting \ Tracked = {} /\ driver = "register"
    BY <2>1 DEF register_if
  <2> QED BY <2>2 DEF TrackerInv, DriverInv
<1> QED BY <1>1, TrackerInvariance, PTL DEF TrackerSpec, BatchIsPending

-------------------------------------------------------------------------------
(* The augments of a path syscall: the inductive invariant.                  *)

\* symlink_creation and getdents reach their weak future.
PlanInv == \A b \in Always : plan[b] \notin {"absent", "fails_early"}

\* The result is stored when the syscall is over.  The augments are polled a second time
\* then, and only then; a strong future that is over is not left suspended.
ResultInv ==
    /\ result # "none" <=> timing = "done"
    /\ pc \in {"start", "suspended", "timing"} => result = "none"
    /\ pc = "weak" => (second <=> result # "none")
    /\ weak_result \in {"none", "err"}
    /\ pc = "timing" => ~second

\* No augment has its part after the syscall behind it while the syscall is not over.
AfterInv ==
    \A b \in Augments :
       plan[b] \notin {"absent", "fails_early"} /\ st[b] \in {"ok", "returned"}
           => result # "none"

\* Every augment has done its part before the syscall, or one polled earlier has failed.
Reached ==
    \A b \in Augments : st[b] # "new" \/ \E c \in 1..(b - 1) : FailedEarly(c)

\* How far one poll of the zipped future is: the first makes every augment begin, the second
\* makes every augment end.
CursorInv ==
    /\ pc = "start" => timing = "new"
    /\ timing # "new" \/ pc = "timing" => Reached
    /\ pc = "weak" => \A c \in 1..(cursor - 1) : st[c] # "new"
    /\ pc = "weak" /\ second => \A c \in 1..(cursor - 1) : st[c] = "ok"
    /\ pc \in {"start", "suspended", "timing"} => cursor = 1

\* While the strong future goes on, an augment has returned only by failing early.
ReturnedInv ==
    ~Over => \A b \in Augments : st[b] = "returned" => plan[b] = "fails_early"

PathsInv ==
    /\ AugmentTypeOK /\ PlanInv /\ ResultInv /\ AfterInv /\ CursorInv /\ ReturnedInv
    /\ AllPartsRun /\ PanicsOnlyIfFailedEarly

USE AugmentAssumption

\* There is an augment, so that the cursor has a place to be.
LEMMA SomeAugment ==
    N \in Nat \ {0} /\ 1 \in Augments /\ N \in Augments
<1>1. PICK b : b \in Always
  OBVIOUS
<1>2. b \in 1..N
  BY <1>1
<1> QED BY <1>2 DEF Augments

\* A new call of augment_sys_paths.
LEMMA PathsInit == AugmentInit => PathsInv
<1> SUFFICES ASSUME AugmentInit PROVE PathsInv
  OBVIOUS
<1> USE DEF AugmentInit
<1>1. AugmentTypeOK
  BY SomeAugment DEF AugmentTypeOK
<1>2. PlanInv /\ ResultInv /\ AfterInv
  BY DEF PlanInv, ResultInv, AfterInv
<1>3. CursorInv /\ ReturnedInv
  BY DEF CursorInv, ReturnedInv, Over
<1>4. AllPartsRun /\ PanicsOnlyIfFailedEarly
  BY DEF AllPartsRun, PanicsOnlyIfFailedEarly
<1> QED BY <1>1, <1>2, <1>3, <1>4 DEF PathsInv

-------------------------------------------------------------------------------
(* One lemma per kind of step.                                               *)

\* The steps of augment_sys_paths around the strong future: an early end, the building of
\* the future, and the beginning of a poll, which finds the future not over.
LEMMA OuterStep ==
    ASSUME PathsInv,
           SkipEloop \/ SyncAugmentFails \/ Build \/ BeginPoll
    PROVE  PathsInv'
<1> USE DEF SkipEloop, SyncAugmentFails, Build, BeginPoll
<1>1. AugmentTypeOK'
  BY SomeAugment DEF PathsInv, AugmentTypeOK, ResultInv
<1>2. PlanInv' /\ ResultInv' /\ AfterInv'
  BY DEF PathsInv, AugmentTypeOK, PlanInv, ResultInv, AfterInv
<1>3. CursorInv'
  BY DEF PathsInv, AugmentTypeOK, ResultInv, CursorInv, Reached, FailedEarly
<1>4. ReturnedInv'
  BY DEF PathsInv, AugmentTypeOK, ResultInv, ReturnedInv, Over
<1>5. AllPartsRun' /\ PanicsOnlyIfFailedEarly'
  BY DEF PathsInv, ResultInv, CursorInv, AllPartsRun, PanicsOnlyIfFailedEarly, FailedEarly
<1> QED BY <1>1, <1>2, <1>3, <1>4, <1>5 DEF PathsInv

\* The poll of the syscall future: it goes on, or its end is stored and the augments follow.
LEMMA TimingStep ==
    ASSUME PathsInv, TimingPending \/ TimingReady
    PROVE  PathsInv'
<1> USE DEF TimingPending, TimingReady, Outcome
<1>1. AugmentTypeOK'
  BY DEF PathsInv, AugmentTypeOK, ResultInv
<1>2. PlanInv' /\ ResultInv' /\ AfterInv'
  BY DEF PathsInv, AugmentTypeOK, PlanInv, ResultInv, AfterInv
<1>3. CursorInv'
  BY DEF PathsInv, AugmentTypeOK, ResultInv, CursorInv, Reached, FailedEarly
<1>4. ReturnedInv'
  BY DEF PathsInv, AugmentTypeOK, ResultInv, ReturnedInv, Over
<1>5. AllPartsRun' /\ PanicsOnlyIfFailedEarly'
  BY DEF PathsInv, ResultInv, CursorInv, AllPartsRun, PanicsOnlyIfFailedEarly
<1> QED BY <1>1, <1>2, <1>3, <1>4, <1>5 DEF PathsInv

\* What one poll of an augment gives, in the first and in the second poll of the zip.
LEMMA Polled ==
    ASSUME PathsInv, pc = "weak", NEW b \in Augments
    PROVE  /\ PollAugment(b) = "panic" => st[b] = "returned"
           /\ PollAugment(b) = "err" /\ ~second =>
                 plan[b] = "fails_early" /\ st[b] = "new" /\ ErrorOf(b) = "err"
           /\ PollAugment(b) = "err" => ErrorOf(b) = "err" \/ result = "err"
           /\ PollAugment(b) = "waiting" => ~second
           /\ PollAugment(b) = "ok" /\ ~second => plan[b] \in {"absent", "fails_early"}
           /\ PollAugment(b) \in {"ok", "waiting"} => st[b] # "returned"
           /\ ErrorOf(b) \in {"err", "quiet"}
BY DEF PathsInv, AugmentTypeOK, ResultInv, AfterInv, PollAugment, ErrorOf, AfterPart,
       WeakReady, Plans

\* The poll of one augment, and what follows the last one.
LEMMA WeakStepInv ==
    ASSUME PathsInv, WeakStep
    PROVE  PathsInv'
<1> DEFINE b == cursor
           new == PollAugment(b)
           all == \A c \in Augments \ {b} : st[c] = "ok"
<1>0. b \in Augments /\ b \in 1..N /\ pc = "weak" /\ PathsInv
  BY DEF PathsInv, AugmentTypeOK, WeakStep, Augments
<1>a. UNCHANGED <<plan, timing, result, second>>
  BY DEF WeakStep
<1>p. /\ new = "panic" => st[b] = "returned"
      /\ new = "err" /\ ~second =>
            plan[b] = "fails_early" /\ st[b] = "new" /\ ErrorOf(b) = "err"
      /\ new = "err" => ErrorOf(b) = "err" \/ result = "err"
      /\ new = "waiting" => ~second
      /\ new = "ok" /\ ~second => plan[b] \in {"absent", "fails_early"}
      /\ new \in {"ok", "waiting"} => st[b] # "returned"
      /\ ErrorOf(b) \in {"err", "quiet"}
  BY <1>0, Polled
<1>1. CASE /\ new = "panic" /\ pc' = "panicked" /\ UNCHANGED <<st, weak_result, cursor>>
  <2>1. AugmentTypeOK' /\ PlanInv' /\ ResultInv' /\ AfterInv'
    BY <1>0, <1>1, <1>a DEF PathsInv, AugmentTypeOK, PlanInv, ResultInv, AfterInv
  <2>2. CursorInv' /\ ReturnedInv'
    BY <1>0, <1>1, <1>a DEF PathsInv, CursorInv, ReturnedInv, Over, Reached, FailedEarly
  <2>3. plan[b] = "fails_early" /\ st[b] = "returned"
    BY <1>0, <1>1, <1>p DEF PathsInv, ReturnedInv, Over
  <2>4. AllPartsRun' /\ PanicsOnlyIfFailedEarly'
    BY <1>0, <1>1, <1>a, <2>3 DEF AllPartsRun, PanicsOnlyIfFailedEarly, FailedEarly
  <2> QED BY <2>1, <2>2, <2>4 DEF PathsInv
<1>2. CASE /\ new = "err"
           /\ st' = [st EXCEPT ![b] = "returned"]
           /\ cursor' = 1
           /\ Zipped(ErrorOf(b))
  <2>1. CASE ~second
    <3>1. /\ pc' = "timing" /\ weak_result' = "err"
          /\ plan[b] = "fails_early" /\ st[b] = "new"
      BY <1>p, <1>2, <2>1 DEF Zipped
    <3>2. AugmentTypeOK' /\ PlanInv' /\ ResultInv' /\ AfterInv'
      BY <1>0, <1>2, <1>a, <2>1, <3>1, SomeAugment
      DEF PathsInv, AugmentTypeOK, PlanInv, ResultInv, AfterInv
    <3>3. Reached'
      <4> SUFFICES ASSUME NEW d \in Augments, ~(st'[d] # "new")
                   PROVE  \E c \in 1..(d - 1) : FailedEarly(c)'
        BY DEF Reached
      <4>1. d # b /\ st[d] = "new" /\ d \in 1..N
        BY <1>0, <1>2 DEF PathsInv, AugmentTypeOK, Augments
      <4>2. ~(d \in 1..(b - 1))
        BY <1>0, <4>1 DEF PathsInv, CursorInv
      <4>3. b \in 1..(d - 1)
        BY <1>0, <4>1, <4>2
      <4>4. plan'[b] = "fails_early" /\ st'[b] = "returned"
        BY <1>0, <1>2, <1>a, <3>1 DEF PathsInv, AugmentTypeOK
      <4> QED BY <4>3, <4>4 DEF FailedEarly
    <3>4. CursorInv' /\ ReturnedInv'
      BY <1>0, <1>2, <1>a, <3>1, <3>3
      DEF PathsInv, AugmentTypeOK, CursorInv, ReturnedInv, Over, ResultInv
    <3>5. AllPartsRun' /\ PanicsOnlyIfFailedEarly'
      BY <3>1 DEF AllPartsRun, PanicsOnlyIfFailedEarly
    <3> QED BY <3>2, <3>4, <3>5 DEF PathsInv
  <2>2. CASE second
    <3>1. /\ pc' \in {"ok", "err"} /\ UNCHANGED weak_result
          /\ pc' = "ok" => result = "err"
      BY <1>p, <1>2, <2>2 DEF Zipped, Outcome
    <3>2. AugmentTypeOK' /\ PlanInv' /\ ResultInv' /\ AfterInv'
      BY <1>0, <1>2, <1>a, <2>2, <3>1, SomeAugment
      DEF PathsInv, AugmentTypeOK, PlanInv, ResultInv, AfterInv
    <3>3. Reached'
      BY <1>0, <1>2, <1>a, <2>2 DEF PathsInv, AugmentTypeOK, CursorInv, ResultInv, Reached,
             FailedEarly, Augments
    <3>4. CursorInv' /\ ReturnedInv'
      BY <1>0, <1>a, <3>1, <3>3 DEF PathsInv, CursorInv, ReturnedInv, Over
    <3>5. AllPartsRun' /\ PanicsOnlyIfFailedEarly'
      BY <1>a, <3>1 DEF AllPartsRun, PanicsOnlyIfFailedEarly
    <3> QED BY <3>2, <3>4, <3>5 DEF PathsInv
  <2> QED BY <2>1, <2>2
<1>3. CASE /\ new \in {"ok", "waiting"}
           /\ b < N
           /\ st' = [st EXCEPT ![b] = new]
           /\ cursor' = b + 1
           /\ UNCHANGED <<pc, weak_result>>
  <2>1. AugmentTypeOK' /\ PlanInv' /\ ResultInv'
    BY <1>0, <1>3, <1>a DEF PathsInv, AugmentTypeOK, PlanInv, ResultInv, Augments
  <2>2. AfterInv' /\ ReturnedInv'
    BY <1>0, <1>3, <1>a, <1>p DEF PathsInv, AugmentTypeOK, AfterInv, ResultInv, ReturnedInv, Over
  <2>3. Reached => Reached'
    BY <1>0, <1>3, <1>a, <1>p DEF PathsInv, AugmentTypeOK, Reached, FailedEarly, Augments
  <2>4. \A c \in 1..b : c = b \/ c \in 1..(b - 1)
    BY <1>0
  <2>5. CursorInv'
    BY <1>0, <1>3, <1>a, <1>p, <2>3, <2>4 DEF PathsInv, AugmentTypeOK, CursorInv, Augments
  <2>6. AllPartsRun' /\ PanicsOnlyIfFailedEarly'
    BY <1>0, <1>3 DEF AllPartsRun, PanicsOnlyIfFailedEarly
  <2> QED BY <2>1, <2>2, <2>5, <2>6 DEF PathsInv
<1>4. CASE /\ new = "ok"
           /\ b = N /\ all
           /\ st' = [c \in Augments |-> "returned"]
           /\ cursor' = 1
           /\ Zipped("ok")
  <2>1. second
    <3> SUFFICES ASSUME ~second PROVE FALSE
      OBVIOUS
    <3>1. PICK a \in Always : TRUE
      OBVIOUS
    <3>2. a \in Augments /\ plan[a] \notin {"absent", "fails_early"}
      BY DEF PathsInv, PlanInv, Augments
    <3>3. a # b
      BY <1>4, <1>p, <3>2
    <3>4. st[a] = "ok"
      BY <1>4, <3>2, <3>3
    <3> QED BY <1>0, <3>2, <3>4 DEF PathsInv, AfterInv, ResultInv
  <2>2. pc' = "ok" /\ UNCHANGED weak_result
    BY <1>4, <2>1 DEF Zipped, Outcome
  <2>3. AugmentTypeOK' /\ PlanInv' /\ ResultInv' /\ AfterInv'
    BY <1>0, <1>4, <1>a, <2>1, <2>2, SomeAugment
    DEF PathsInv, AugmentTypeOK, PlanInv, ResultInv, AfterInv
  <2>4. CursorInv' /\ ReturnedInv'
    BY <1>0, <1>4, <1>a, <2>2 DEF PathsInv, CursorInv, ReturnedInv, Reached, Over
  <2>5. AllPartsRun' /\ PanicsOnlyIfFailedEarly'
    BY <1>4, <2>2 DEF AllPartsRun, PanicsOnlyIfFailedEarly
  <2> QED BY <2>3, <2>4, <2>5 DEF PathsInv
<1>5. CASE /\ new \in {"ok", "waiting"}
           /\ b = N /\ ~(new = "ok" /\ all)
           /\ st' = [st EXCEPT ![b] = new]
           /\ cursor' = 1
           /\ Zipped("none")
  <2>1. ~second
    <3> SUFFICES ASSUME second PROVE FALSE
      OBVIOUS
    <3>1. new = "ok" /\ ~all
      BY <1>5, <1>p
    <3>2. PICK c \in Augments \ {b} : st[c] # "ok"
      BY <3>1
    <3>3. c \in 1..(cursor - 1)
      BY <1>0, <1>5, <3>2 DEF Augments
    <3> QED BY <1>0, <3>2, <3>3 DEF PathsInv, CursorInv
  <2>2. pc' = "timing" /\ weak_result' = "none"
    BY <1>5, <2>1 DEF Zipped
  <2>3. AugmentTypeOK' /\ PlanInv' /\ ResultInv'
    BY <1>0, <1>5, <1>a, <2>1, <2>2, SomeAugment DEF PathsInv, AugmentTypeOK, PlanInv, ResultInv
  <2>4. AfterInv' /\ ReturnedInv'
    BY <1>0, <1>5, <1>a, <1>p, <2>1, <2>2
    DEF PathsInv, AugmentTypeOK, AfterInv, ResultInv, ReturnedInv, Over
  <2>5. \A c \in Augments : c = b \/ c \in 1..(b - 1)
    BY <1>0, <1>5 DEF Augments
  <2>6. Reached'
    BY <1>0, <1>5, <2>5 DEF PathsInv, AugmentTypeOK, CursorInv, Reached
  <2>7. CursorInv'
    BY <2>2, <2>6, <1>5 DEF CursorInv
  <2>8. AllPartsRun' /\ PanicsOnlyIfFailedEarly'
    BY <2>2 DEF AllPartsRun, PanicsOnlyIfFailedEarly
  <2> QED BY <2>3, <2>4, <2>7, <2>8 DEF PathsInv
<1> QED BY <1>1, <1>2, <1>3, <1>4, <1>5 DEF WeakStep

\* The invariant holds of every state.
THEOREM PathsInvariance == AugmentSpec => []PathsInv
<1>1. PathsInv /\ [AugmentNext]_augment_vars => PathsInv'
  <2> SUFFICES ASSUME PathsInv, [AugmentNext]_augment_vars PROVE PathsInv'
    OBVIOUS
  <2>1. CASE SkipEloop \/ SyncAugmentFails \/ Build \/ BeginPoll
    BY <2>1, OuterStep
  <2>2. CASE WeakStep
    BY <2>2, WeakStepInv
  <2>3. CASE TimingPending \/ TimingReady
    BY <2>3, TimingStep
  <2>4. CASE UNCHANGED augment_vars
    BY <2>4 DEF augment_vars, PathsInv, AugmentTypeOK, PlanInv, ResultInv, AfterInv, CursorInv, ReturnedInv,
       Reached, FailedEarly, Over, AllPartsRun, PanicsOnlyIfFailedEarly
  <2> QED BY <2>1, <2>2, <2>3, <2>4 DEF AugmentNext, Returned
<1> QED BY PathsInit, <1>1, PTL DEF AugmentSpec

\* Every variable of augment_sys_paths has its type.
THEOREM PathsTypeCorrect == AugmentSpec => []AugmentTypeOK
<1>1. PathsInv => AugmentTypeOK
  BY DEF PathsInv
<1> QED BY PathsInvariance, <1>1, PTL

\* StrongFuture::poll keeps the order of the parts around the syscall: every augment has
\* done its part before the syscall when it is resumed, unless one polled earlier has
\* failed, and none does its part after the syscall too early.
THEOREM KeepsOrder == AugmentSpec => []PartsInOrder
<1>1. PathsInv => PartsInOrder
  BY DEF PathsInv, AfterInv, CursorInv, Reached, PartsInOrder
<1> QED BY PathsInvariance, <1>1, PTL

\* An augment_sys_paths that returns Ok has run every part of every augment, or the syscall
\* future itself has failed.
THEOREM RunsAllParts == AugmentSpec => []AllPartsRun
<1>1. PathsInv => AllPartsRun
  BY DEF PathsInv
<1> QED BY PathsInvariance, <1>1, PTL

\* StrongFuture::poll is never entered again after its completion; the futures it polls
\* panic only if an augment failed before its weak future.
THEOREM PanicIsEarlyFailure ==
    AugmentSpec => []PanicsOnlyIfFailedEarly
<1>1. PathsInv => PanicsOnlyIfFailedEarly
  BY DEF PathsInv
<1> QED BY PathsInvariance, <1>1, PTL
===============================================================================
