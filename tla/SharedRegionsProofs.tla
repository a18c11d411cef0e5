------------------------- MODULE SharedRegionsProofs --------------------------
(***************************************************************************)
(* Proofs about SharedRegions, for every number of regions, threads and    *)
(* pids.  All of them assume that the kernel does not give out a pid       *)
(* before its last tracer has closed (~PromptReuse): otherwise closing the *)
(* old tracee removes the entry of the new one.                            *)
(***************************************************************************)
EXTENDS SharedRegions, TLAPS

\* What a thread's place says about its thread locals.
PlaceInv ==
    \A t \in Threads :
        /\ pc[t] = "none" <=> pid[t] = NoPid
        /\ pc[t] \in {"none", "get_by_pid", "get_pop"} => region_id[t] = NoRegion
        /\ pc[t] \in {"get_insert", "mmap"} \cup ClosePcs => region_id[t] # NoRegion
        /\ direct[t] => region_id[t] # NoRegion
        /\ pc[t] = "running" /\ ~direct[t] => region_id[t] = NoRegion
        /\ pc[t] \in {"close_fill", "close_push"} => closing[t] = region_id[t]

\* No two threads trace the same pid.
PidInv == \A t, u \in Threads : pid[t] = pid[u] /\ pid[t] # NoPid => t = u

\* The entry of a pid is its tracee's region, also of a thread that is about to remove its entry.
EntryInv ==
    \A t \in Threads :
        /\ pc[t] \in {"mmap", "running", "close", "close_by_pid", "close_remove"}
        /\ region_id[t] # NoRegion
        => REGION_IDS_BY_PID[pid[t]] = region_id[t]

\* FreeIsZero, also of the region that is about to become free.
ZeroInv ==
    /\ \A i \in 1..Len(AVAILABLE_REGION_IDS) : content[AVAILABLE_REGION_IDS[i]] = Zero
    /\ \A t \in Threads : pc[t] = "close_push" => content[closing[t]] = Zero

Exclusive ==
    /\ \A t, u \in Threads : region_id[t] = region_id[u] /\ region_id[t] # NoRegion => t = u
    /\ \A t \in Threads, i \in 1..Len(AVAILABLE_REGION_IDS) : region_id[t] # AVAILABLE_REGION_IDS[i]
    /\ \A i, j \in 1..Len(AVAILABLE_REGION_IDS) :
          AVAILABLE_REGION_IDS[i] = AVAILABLE_REGION_IDS[j] => i = j

Inv == TypeOK /\ PlaceInv /\ PidInv /\ EntryInv /\ ZeroInv /\ Exclusive

USE RegionsAssumption

-------------------------------------------------------------------------------

\* Initially every region is free, once, and no thread has one.
LEMMA InitInv == Init => Inv
<1> SUFFICES ASSUME Init PROVE Inv
  OBVIOUS
<1>1. TypeOK
  <2>1. AVAILABLE_REGION_IDS \in Seq(Regions)
    BY DEF Init, Regions
  <2> QED BY <2>1 DEF Init, TypeOK, Regions, NoRegion, Zero, ClosePcs
<1>2. PlaceInv /\ PidInv /\ EntryInv
  BY DEF Init, PlaceInv, PidInv, EntryInv, ClosePcs, NoRegion
<1>3. Len(AVAILABLE_REGION_IDS) = MAX_NUM_TRACEES
  BY DEF Init
<1>4. ZeroInv
  BY <1>3 DEF Init, ZeroInv, Regions, Zero
<1>5. Exclusive
  BY <1>3 DEF Init, Exclusive, NoRegion
<1> QED BY <1>1, <1>2, <1>4, <1>5 DEF Inv

-------------------------------------------------------------------------------
(* One lemma per kind of step.                                               *)

\* A step that only moves a thread between places of the same standing and changes
\* locks: the two lock acquisitions of get_own_region_id and of close_tracee.
LEMMA LockStep ==
    ASSUME Inv, abandoned' \subseteq Regions, NEW t \in Threads,
           GetBegin(t) \/ GetLock(t) \/ CloseBegin(t) \/ CloseLock(t)
    PROVE  Inv'
<1> USE DEF GetBegin, GetLock, CloseBegin, CloseLock, LockAvailable, LockByPid, Goto
<1>1. TypeOK'
  BY DEF Inv, TypeOK, ClosePcs
<1>2. PlaceInv'
  BY DEF Inv, TypeOK, PlaceInv, ClosePcs
<1>3. PidInv' /\ EntryInv'
  BY DEF Inv, TypeOK, PidInv, EntryInv, ClosePcs
<1>4. ZeroInv' /\ Exclusive'
  BY DEF Inv, TypeOK, ZeroInv, Exclusive, ClosePcs
<1> QED BY <1>1, <1>2, <1>3, <1>4 DEF Inv

\* A thread starts for a pid that no other thread has.
LEMMA StartStep ==
    ASSUME Inv, abandoned' \subseteq Regions, ~PromptReuse, NEW t \in Threads, NEW p \in Pids, Start(t, p)
    PROVE  Inv'
<1> USE DEF Start, Goto
<1>1. TypeOK'
  BY DEF Inv, TypeOK
<1>2. PlaceInv'
  BY DEF Inv, TypeOK, PlaceInv, ClosePcs
<1>3. PidInv'
  BY DEF Inv, TypeOK, PidInv, PidTaken
<1>4. EntryInv'
  BY DEF Inv, TypeOK, EntryInv, PlaceInv
<1>5. ZeroInv' /\ Exclusive'
  BY DEF Inv, TypeOK, ZeroInv, Exclusive
<1> QED BY <1>1, <1>2, <1>3, <1>4, <1>5 DEF Inv

\* A thread that ends without touching the regions leaves the invariant alone.
LEMMA EndStep ==
    ASSUME Inv, abandoned' \subseteq Regions, NEW t \in Threads, End(t),
           UNCHANGED <<AVAILABLE_REGION_IDS, REGION_IDS_BY_PID, content>>,
           available_lock' \in Threads \cup {NoThread}, by_pid_lock' \in Threads \cup {NoThread}
    PROVE  Inv'
<1> USE DEF End, Goto
<1>1. TypeOK'
  BY DEF Inv, TypeOK
<1>2. PlaceInv'
  BY DEF Inv, TypeOK, PlaceInv, ClosePcs
<1>3. PidInv' /\ EntryInv'
  BY DEF Inv, TypeOK, PidInv, EntryInv
<1>4. ZeroInv'
  BY DEF Inv, TypeOK, ZeroInv
<1>5. Exclusive'
  BY DEF Inv, TypeOK, Exclusive, Regions, NoRegion
<1> QED BY <1>1, <1>2, <1>3, <1>4, <1>5 DEF Inv

\* A prefix of a sequence.
LEMMA Prefix ==
    ASSUME NEW S, NEW s \in Seq(S), NEW n \in Nat, n <= Len(s)
    PROVE  /\ SubSeq(s, 1, n) \in Seq(S)
           /\ Len(SubSeq(s, 1, n)) = n
           /\ \A i \in 1..n : SubSeq(s, 1, n)[i] = s[i]
<1>1. SubSeq(s, 1, n) \in Seq(S)
  OBVIOUS
<1>2. Len(SubSeq(s, 1, n)) = n
  OBVIOUS
<1>3. \A i \in 1..n : SubSeq(s, 1, n)[i] = s[i]
  OBVIOUS
<1> QED BY <1>1, <1>2, <1>3

\* What pop leaves and takes.
LEMMA Popped ==
    ASSUME NEW S, NEW s \in Seq(S), s # <<>>
    PROVE  /\ Len(s) \in Nat \ {0}
           /\ s[Len(s)] \in S
           /\ SubSeq(s, 1, Len(s) - 1) \in Seq(S)
           /\ Len(SubSeq(s, 1, Len(s) - 1)) = Len(s) - 1
           /\ \A i \in 1..Len(s) - 1 : SubSeq(s, 1, Len(s) - 1)[i] = s[i]
<1>1. Len(s) \in Nat \ {0}
  OBVIOUS
<1>2. s[Len(s)] \in S
  BY <1>1
<1>3. Len(s) - 1 \in Nat /\ Len(s) - 1 <= Len(s)
  BY <1>1
<1> QED BY <1>1, <1>2, <1>3, Prefix, Zenon

\* The popped region was free, so it has no other owner, and it is free no longer.
LEMMA PopStep ==
    ASSUME Inv, abandoned' \subseteq Regions, NEW t \in Threads, GetPop(t)
    PROVE  Inv'
<1>1. CASE AVAILABLE_REGION_IDS = <<>>
  BY <1>1, EndStep DEF GetPop, Unlock
<1>2. CASE AVAILABLE_REGION_IDS # <<>>
  <2> DEFINE n == Len(AVAILABLE_REGION_IDS)
  <2>1. /\ n \in Nat \ {0}
        /\ AVAILABLE_REGION_IDS[n] \in Regions
        /\ AVAILABLE_REGION_IDS' \in Seq(Regions)
        /\ Len(AVAILABLE_REGION_IDS') = n - 1
        /\ \A i \in 1..n - 1 : AVAILABLE_REGION_IDS'[i] = AVAILABLE_REGION_IDS[i]
    <3>1. /\ AVAILABLE_REGION_IDS \in Seq(Regions)
          /\ AVAILABLE_REGION_IDS' = SubSeq(AVAILABLE_REGION_IDS, 1, n - 1)
      BY <1>2 DEF Inv, TypeOK, GetPop
    <3> QED BY <1>2, <3>1, Popped
  <2>2. /\ pc[t] = "get_pop"
        /\ region_id' = [region_id EXCEPT ![t] = AVAILABLE_REGION_IDS[n]]
        /\ pc' = [pc EXCEPT ![t] = "get_insert"]
        /\ UNCHANGED <<REGION_IDS_BY_PID, content, available_lock, by_pid_lock, pid, direct, closing>>
    BY <1>2 DEF GetPop, Goto
  <2> HIDE DEF n
  <2>3. TypeOK'
    BY <2>1, <2>2 DEF Inv, TypeOK
  <2>4. PlaceInv'
    BY <2>1, <2>2 DEF Inv, TypeOK, PlaceInv, ClosePcs, Regions, NoRegion
  <2>5. PidInv' /\ EntryInv'
    BY <2>2 DEF Inv, TypeOK, PidInv, EntryInv
  <2>6. ZeroInv'
    <3>1. \A i \in 1..n - 1 : i \in 1..n
      BY <2>1
    <3> QED BY <2>1, <2>2, <3>1 DEF Inv, TypeOK, ZeroInv, n
  <2>7. Exclusive'
    <3>1. /\ \A i \in 1..n - 1 : i \in 1..n /\ i # n
          /\ n \in 1..n
      BY <2>1
    <3>2. \A u, v \in Threads : region_id'[u] = region_id'[v] /\ region_id'[u] # NoRegion => u = v
      BY <2>2, <3>1 DEF Inv, TypeOK, Exclusive, n
    <3>3. \A u \in Threads, i \in 1..n - 1 : region_id'[u] # AVAILABLE_REGION_IDS'[i]
      BY <2>1, <2>2, <3>1 DEF Inv, TypeOK, Exclusive, n
    <3>4. \A i, j \in 1..n - 1 : AVAILABLE_REGION_IDS'[i] = AVAILABLE_REGION_IDS'[j] => i = j
      BY <2>1, <3>1 DEF Inv, Exclusive, n
    <3> QED BY <2>1, <3>2, <3>3, <3>4 DEF Exclusive
  <2> QED BY <2>3, <2>4, <2>5, <2>6, <2>7 DEF Inv
<1> QED BY <1>1, <1>2

\* The other threads have other pids, so their entries stay.
LEMMA InsertStep ==
    ASSUME Inv, abandoned' \subseteq Regions, NEW t \in Threads, GetInsert(t)
    PROVE  Inv'
<1> USE DEF GetInsert, Goto, Unlock
<1>1. pid[t] \in Pids /\ region_id[t] \in Regions
  BY DEF Inv, TypeOK, PlaceInv
<1>2. TypeOK'
  BY <1>1 DEF Inv, TypeOK
<1>3. PlaceInv'
  BY DEF Inv, TypeOK, PlaceInv, ClosePcs
<1>4. PidInv'
  BY DEF Inv, PidInv
<1>5. EntryInv'
  <2> SUFFICES ASSUME NEW u \in Threads,
                      pc'[u] \in {"mmap", "running", "close", "close_by_pid", "close_remove"},
                      region_id'[u] # NoRegion
               PROVE  REGION_IDS_BY_PID'[pid'[u]] = region_id'[u]
    BY DEF EntryInv
  <2>1. CASE u = t
    BY <1>1, <2>1 DEF Inv, TypeOK
  <2>2. CASE u # t
    <3>1. pc[u] = pc'[u] /\ pid[u] \in Pids
      BY <2>2 DEF Inv, TypeOK, PlaceInv
    <3>2. pid[u] # pid[t]
      BY <1>1, <2>2 DEF Inv, PidInv
    <3> QED BY <1>1, <2>2, <3>1, <3>2 DEF Inv, TypeOK, EntryInv
  <2> QED BY <2>1, <2>2
<1>6. ZeroInv' /\ Exclusive'
  BY DEF Inv, TypeOK, ZeroInv, Exclusive
<1> QED BY <1>2, <1>3, <1>4, <1>5, <1>6 DEF Inv

\* The tracee is mapped and its tracer may write.
LEMMA MmapStep ==
    ASSUME Inv, abandoned' \subseteq Regions, NEW t \in Threads, MmapReturns(t)
    PROVE  Inv'
<1> USE DEF MmapReturns, Goto
<1>1. TypeOK'
  BY DEF Inv, TypeOK
<1>2. PlaceInv'
  BY DEF Inv, TypeOK, PlaceInv, ClosePcs
<1>3. PidInv' /\ EntryInv'
  BY DEF Inv, TypeOK, PidInv, EntryInv
<1>4. ZeroInv' /\ Exclusive'
  BY DEF Inv, TypeOK, ZeroInv, Exclusive
<1> QED BY <1>1, <1>2, <1>3, <1>4 DEF Inv

\* A write goes to the writer's own region: not a free one, nor one being closed.
LEMMA WriteStep ==
    ASSUME Inv, abandoned' \subseteq Regions, NEW t \in Threads, Write(t)
    PROVE  Inv'
<1> USE DEF Write
<1>1. region_id[t] \in Regions
  BY DEF Inv, TypeOK, PlaceInv
<1>2. TypeOK'
  BY <1>1 DEF Inv, TypeOK
<1>3. PlaceInv' /\ PidInv' /\ EntryInv' /\ Exclusive'
  BY DEF Inv, PlaceInv, PidInv, EntryInv, Exclusive
<1>4. ZeroInv'
  <2>1. \A i \in 1..Len(AVAILABLE_REGION_IDS) : AVAILABLE_REGION_IDS[i] \in Regions
    BY DEF Inv, TypeOK
  <2>2. \A i \in 1..Len(AVAILABLE_REGION_IDS) : content'[AVAILABLE_REGION_IDS[i]] = Zero
    BY <1>1, <2>1 DEF Inv, TypeOK, ZeroInv, Exclusive
  <2>3. ASSUME NEW u \in Threads, pc[u] = "close_push"
        PROVE  content'[closing[u]] = Zero
    <3>1. closing[u] = region_id[u] /\ region_id[u] # NoRegion /\ u # t
      BY <2>3 DEF Inv, PlaceInv, ClosePcs
    <3>2. region_id[u] # region_id[t] /\ region_id[u] \in Regions
      BY <3>1 DEF Inv, TypeOK, Exclusive
    <3> QED BY <1>1, <2>3, <3>1, <3>2 DEF Inv, TypeOK, ZeroInv
  <2> QED BY <2>2, <2>3 DEF ZeroInv
<1> QED BY <1>2, <1>3, <1>4 DEF Inv

\* The loops have returned: the thread ends, or keeps its region while it closes.
LEMMA ReturnStep ==
    ASSUME Inv, abandoned' \subseteq Regions, NEW t \in Threads, LoopsReturn(t)
    PROVE  Inv'
<1>1. CASE ~direct[t] /\ End(t)
  <2>1. available_lock' \in Threads \cup {NoThread} /\ by_pid_lock' \in Threads \cup {NoThread}
    BY DEF Inv, TypeOK, LoopsReturn
  <2> QED BY <1>1, <2>1, EndStep DEF LoopsReturn
<1>2. CASE direct[t] /\ Goto(t, "close") /\ UNCHANGED <<pid, region_id, direct, closing>>
  <2> USE <1>2 DEF LoopsReturn, Goto
  <2>1. TypeOK'
    BY DEF Inv, TypeOK, ClosePcs
  <2>2. PlaceInv'
    BY DEF Inv, TypeOK, PlaceInv, ClosePcs
  <2>3. PidInv' /\ EntryInv'
    BY DEF Inv, TypeOK, PidInv, EntryInv
  <2>4. ZeroInv' /\ Exclusive'
    BY DEF Inv, TypeOK, ZeroInv, Exclusive
  <2> QED BY <2>1, <2>2, <2>3, <2>4 DEF Inv
<1> QED BY <1>1, <1>2 DEF LoopsReturn

\* The entry removed is the thread's own, so it exists, and the others keep theirs.
LEMMA RemoveStep ==
    ASSUME Inv, abandoned' \subseteq Regions, NEW t \in Threads, CloseRemove(t)
    PROVE  Inv'
<1>1. /\ pc[t] = "close_remove"
      /\ pid[t] \in Pids
      /\ region_id[t] \in Regions
      /\ region_id[t] # NoRegion
      /\ REGION_IDS_BY_PID[pid[t]] = region_id[t]
  BY DEF CloseRemove, Inv, TypeOK, PlaceInv, EntryInv, ClosePcs
<1>2. /\ REGION_IDS_BY_PID' = [REGION_IDS_BY_PID EXCEPT ![pid[t]] = NoRegion]
      /\ closing' = [closing EXCEPT ![t] = region_id[t]]
      /\ pc' = [pc EXCEPT ![t] = "close_fill"]
      /\ UNCHANGED <<AVAILABLE_REGION_IDS, content, available_lock, by_pid_lock, pid,
                     region_id, direct>>
  BY <1>1 DEF CloseRemove, Goto
<1>3. TypeOK'
  BY <1>1, <1>2 DEF Inv, TypeOK, ClosePcs
<1>4. PlaceInv'
  BY <1>1, <1>2 DEF Inv, TypeOK, PlaceInv, ClosePcs
<1>5. PidInv'
  BY <1>2 DEF Inv, PidInv
<1>6. EntryInv'
  <2> SUFFICES ASSUME NEW u \in Threads,
                      pc'[u] \in {"mmap", "running", "close", "close_by_pid", "close_remove"},
                      region_id'[u] # NoRegion
               PROVE  REGION_IDS_BY_PID'[pid'[u]] = region_id'[u]
    BY DEF EntryInv
  <2>1. u # t /\ pc[u] = pc'[u]
    BY <1>1, <1>2 DEF Inv, TypeOK
  <2>2. pid[u] \in Pids /\ pid[u] # pid[t]
    BY <1>1, <2>1 DEF Inv, TypeOK, PlaceInv, PidInv
  <2> QED BY <1>1, <1>2, <2>1, <2>2 DEF Inv, TypeOK, EntryInv
<1>7. ZeroInv' /\ Exclusive'
  BY <1>1, <1>2 DEF Inv, TypeOK, ZeroInv, Exclusive
<1> QED BY <1>3, <1>4, <1>5, <1>6, <1>7 DEF Inv

\* Only the region being closed is filled.
LEMMA FillStep ==
    ASSUME Inv, abandoned' \subseteq Regions, NEW t \in Threads, CloseFill(t)
    PROVE  Inv'
<1> USE DEF CloseFill, Goto
<1>1. closing[t] = region_id[t] /\ region_id[t] \in Regions
  BY DEF Inv, TypeOK, PlaceInv, ClosePcs
<1>2. TypeOK'
  BY DEF Inv, TypeOK, ClosePcs, Zero
<1>3. PlaceInv' /\ PidInv' /\ EntryInv'
  BY DEF Inv, TypeOK, PlaceInv, PidInv, EntryInv, ClosePcs
<1>4. ZeroInv'
  BY <1>1 DEF Inv, TypeOK, ZeroInv
<1>5. Exclusive'
  BY DEF Inv, Exclusive
<1> QED BY <1>2, <1>3, <1>4, <1>5 DEF Inv

\* What push adds.
LEMMA Pushed ==
    ASSUME NEW s \in Seq(Regions), NEW r \in Regions
    PROVE  /\ Append(s, r) \in Seq(Regions)
           /\ Len(s) \in Nat
           /\ Len(Append(s, r)) = Len(s) + 1
           /\ \A i \in 1..Len(s) : Append(s, r)[i] = s[i]
           /\ Append(s, r)[Len(s) + 1] = r
OBVIOUS

\* The region pushed was the thread's own: it was not free, and it has no owner now.
LEMMA PushStep ==
    ASSUME Inv, abandoned' \subseteq Regions, NEW t \in Threads, ClosePush(t)
    PROVE  Inv'
<1> DEFINE n == Len(AVAILABLE_REGION_IDS)
           r == region_id[t]
<1>1. /\ pc[t] = "close_push"
      /\ closing[t] = r
      /\ r \in Regions
      /\ content[r] = Zero
  BY DEF ClosePush, Inv, TypeOK, PlaceInv, ZeroInv, ClosePcs
<1>2. /\ AVAILABLE_REGION_IDS' \in Seq(Regions)
      /\ n \in Nat
      /\ Len(AVAILABLE_REGION_IDS') = n + 1
      /\ \A i \in 1..n : AVAILABLE_REGION_IDS'[i] = AVAILABLE_REGION_IDS[i]
      /\ AVAILABLE_REGION_IDS'[n + 1] = r
  BY <1>1, Pushed DEF ClosePush, Inv, TypeOK
<1>3. /\ End(t)
      /\ UNCHANGED <<REGION_IDS_BY_PID, content>>
      /\ available_lock' = NoThread /\ by_pid_lock' = NoThread
  BY DEF ClosePush, Unlock
<1>4. TypeOK'
  BY <1>2, <1>3 DEF Inv, TypeOK, End, Goto
<1>5. PlaceInv' /\ PidInv' /\ EntryInv'
  BY <1>3 DEF Inv, TypeOK, PlaceInv, PidInv, EntryInv, End, Goto, ClosePcs
<1>6. \A i \in 1..n + 1 : i \in 1..n \/ i = n + 1
  BY <1>2
<1>7. ZeroInv'
  <2>1. \A i \in 1..n + 1 : content'[AVAILABLE_REGION_IDS'[i]] = Zero
    BY <1>1, <1>2, <1>3, <1>6 DEF Inv, ZeroInv
  <2>2. \A u \in Threads : pc'[u] = "close_push" => content'[closing'[u]] = Zero
    BY <1>3 DEF Inv, TypeOK, ZeroInv, End, Goto
  <2> QED BY <1>2, <2>1, <2>2 DEF ZeroInv
<1>8. Exclusive'
  <2>1. \A u \in Threads : region_id'[u] = IF u = t THEN NoRegion ELSE region_id[u]
    BY <1>3 DEF Inv, TypeOK, End
  <2>2. r # NoRegion /\ \A u \in Threads : u # t => region_id[u] # r
    BY <1>1 DEF Inv, Exclusive, Regions, NoRegion
  <2>3. \A u, v \in Threads : region_id'[u] = region_id'[v] /\ region_id'[u] # NoRegion => u = v
    BY <2>1 DEF Inv, Exclusive
  <2>4. \A i \in 1..n + 1 : AVAILABLE_REGION_IDS'[i] # NoRegion
    BY <1>2 DEF Regions, NoRegion
  <2>5. \A u \in Threads, i \in 1..n + 1 : region_id'[u] # AVAILABLE_REGION_IDS'[i]
    <3> SUFFICES ASSUME NEW u \in Threads, NEW i \in 1..n + 1
                 PROVE  region_id'[u] # AVAILABLE_REGION_IDS'[i]
      OBVIOUS
    <3>1. CASE u = t
      BY <2>1, <2>4, <3>1
    <3>2. CASE u # t /\ i \in 1..n
      BY <1>2, <2>1, <3>2 DEF Inv, Exclusive
    <3>3. CASE u # t /\ i = n + 1
      BY <1>2, <2>1, <2>2, <3>3
    <3> QED BY <1>6, <3>1, <3>2, <3>3
  <2>6. \A i, j \in 1..n + 1 : AVAILABLE_REGION_IDS'[i] = AVAILABLE_REGION_IDS'[j] => i = j
    <3>1. \A i \in 1..n : AVAILABLE_REGION_IDS'[i] # r
      BY <1>2 DEF Inv, Exclusive
    <3>2. \A i, j \in 1..n : AVAILABLE_REGION_IDS'[i] = AVAILABLE_REGION_IDS'[j] => i = j
      BY <1>2 DEF Inv, Exclusive
    <3> QED BY <1>2, <1>6, <3>1, <3>2
  <2> QED BY <1>2, <2>3, <2>5, <2>6 DEF Exclusive
<1> QED BY <1>4, <1>5, <1>7, <1>8 DEF Inv

-------------------------------------------------------------------------------
(* The theorems.                                                             *)

\* The invariant is inductive.
LEMMA Inductive == ASSUME Inv, ~PromptReuse, [Next]_vars PROVE Inv'
<1>1. CASE UNCHANGED vars
  BY <1>1 DEF vars, Inv, TypeOK, PlaceInv, PidInv, EntryInv, ZeroInv, Exclusive
<1>2. CASE Next
  <2>0. UNCHANGED abandoned => abandoned' \subseteq Regions
    BY DEF Inv, TypeOK
  <2>1. ASSUME NEW t \in Threads, NEW p \in Pids, Start(t, p), UNCHANGED abandoned PROVE Inv'
    BY <2>0, <2>1, StartStep
  <2>2. ASSUME NEW t \in Threads, UNCHANGED abandoned,
               GetBegin(t) \/ GetLock(t) \/ CloseBegin(t) \/ CloseLock(t)
        PROVE Inv'
    BY <2>0, <2>2, LockStep
  <2>3. ASSUME NEW t \in Threads, UNCHANGED abandoned,
               GetPop(t) \/ GetInsert(t) \/ MmapReturns(t) \/ Write(t)
        PROVE Inv'
    BY <2>0, <2>3, PopStep, InsertStep, MmapStep, WriteStep
  <2>4. ASSUME NEW t \in Threads, UNCHANGED abandoned,
               LoopsReturn(t) \/ CloseRemove(t) \/ CloseFill(t) \/ ClosePush(t)
        PROVE Inv'
    BY <2>0, <2>4, ReturnStep, RemoveStep, FillStep, PushStep
  <2>5. ASSUME NEW t \in Threads, Leave(t) PROVE Inv'
    <3>1. available_lock' \in Threads \cup {NoThread} /\ by_pid_lock' \in Threads \cup {NoThread}
      BY <2>5 DEF Inv, TypeOK, Leave
    <3>2. abandoned' \subseteq Regions
      BY <2>5 DEF Inv, TypeOK, Leave
    <3> QED BY <2>5, <3>1, <3>2, EndStep DEF Leave
  <2> QED BY <1>2, <2>1, <2>2, <2>3, <2>4, <2>5 DEF Next
<1> QED BY <1>1, <1>2

\* Every variable keeps its type.
THEOREM TypeCorrect == ASSUME ~PromptReuse PROVE Spec => []TypeOK
<1>1. Inv => TypeOK
  BY DEF Inv
<1> QED BY <1>1, InitInv, Inductive, PTL DEF Spec

\* get_own_region_id and close_tracee never give one region to two tracees, and never
\* keep one both in use and free.
THEOREM NoSharingCorrect == ASSUME ~PromptReuse PROVE Spec => []NoSharing
<1>1. Inv => NoSharing
  BY DEF Inv, Exclusive, NoSharing, Free
<1> QED BY <1>1, InitInv, Inductive, PTL DEF Spec

\* A region on the free stack is zero, so no tracee reads what another one left.
THEOREM FreeIsZeroCorrect == ASSUME ~PromptReuse PROVE Spec => []FreeIsZero
<1>1. Inv => FreeIsZero
  BY DEF Inv, ZeroInv, FreeIsZero, Free
<1> QED BY <1>1, InitInv, Inductive, PTL DEF Spec

\* A step that leaves the stack, the owners and the abandoned regions alone loses none.
LEMMA NoneLostUnchanged ==
    ASSUME NoneLost, UNCHANGED <<AVAILABLE_REGION_IDS, region_id, abandoned>>
    PROVE  NoneLost'
BY DEF NoneLost, Free, Owners

\* A thread without a region ends, and none is lost.
LEMMA NoneLostEnd ==
    ASSUME Inv, NoneLost, NEW t \in Threads, End(t), region_id[t] = NoRegion,
           UNCHANGED <<AVAILABLE_REGION_IDS, abandoned>>
    PROVE  NoneLost'
<1>1. region_id' = region_id
  BY DEF End, Inv, TypeOK
<1> QED BY <1>1, NoneLostUnchanged

\* get_own_region_id moves a region from the stack to its new owner.
LEMMA NoneLostPop ==
    ASSUME Inv, NoneLost, NEW t \in Threads, GetPop(t), UNCHANGED abandoned
    PROVE  NoneLost'
<1>0. region_id[t] = NoRegion
  BY DEF GetPop, Inv, PlaceInv
<1>1. CASE AVAILABLE_REGION_IDS = <<>>
  BY <1>0, <1>1, NoneLostEnd DEF GetPop
<1>2. CASE AVAILABLE_REGION_IDS # <<>>
  <2> DEFINE n == Len(AVAILABLE_REGION_IDS)
  <2>1. /\ n \in Nat \ {0}
        /\ Len(AVAILABLE_REGION_IDS') = n - 1
        /\ \A i \in 1..n - 1 : AVAILABLE_REGION_IDS'[i] = AVAILABLE_REGION_IDS[i]
    BY <1>2, Popped DEF Inv, TypeOK, GetPop
  <2>2. region_id' = [region_id EXCEPT ![t] = AVAILABLE_REGION_IDS[n]]
    BY <1>2 DEF GetPop
  <2> HIDE DEF n
  <2> SUFFICES ASSUME NEW r \in Regions
               PROVE  (r \in Free \/ Owners(r) # {} \/ r \in abandoned)'
    BY DEF NoneLost
  <2>3. CASE r \in Free
    <3>1. PICK i \in 1..n : r = AVAILABLE_REGION_IDS[i]
      BY <2>3 DEF Free, n
    <3>2. CASE i = n
      BY <2>2, <3>1, <3>2 DEF Owners, Inv, TypeOK
    <3>3. CASE i # n
      <4>1. i \in 1..n - 1
        BY <2>1, <3>3
      <4> QED BY <2>1, <3>1, <4>1 DEF Free
    <3> QED BY <3>2, <3>3
  <2>4. CASE Owners(r) # {}
    <3>1. PICK u \in Threads : region_id[u] = r
      BY <2>4 DEF Owners
    <3>2. u # t
      BY <1>0, <3>1 DEF Regions, NoRegion
    <3> QED BY <2>2, <3>1, <3>2 DEF Owners, Inv, TypeOK
  <2>5. CASE r \in abandoned
    BY <2>5
  <2> QED BY <2>3, <2>4, <2>5 DEF NoneLost
<1> QED BY <1>1, <1>2

\* A region that stops being owned when its thread ends is free or abandoned.
LEMMA NoneLostGivenUp ==
    ASSUME Inv, NoneLost, NEW t \in Threads, End(t),
           Free \subseteq Free', abandoned \subseteq abandoned',
           region_id[t] \in Free' \/ region_id[t] \in abandoned' \/ region_id[t] = NoRegion
    PROVE  NoneLost'
<1> SUFFICES ASSUME NEW r \in Regions
             PROVE  (r \in Free \/ Owners(r) # {} \/ r \in abandoned)'
  BY DEF NoneLost
<1>1. CASE r \in Free \/ r \in abandoned
  BY <1>1
<1>2. CASE Owners(r) # {}
  <2>1. PICK u \in Threads : region_id[u] = r
    BY <1>2 DEF Owners
  <2>2. CASE u = t
    BY <2>1, <2>2 DEF Regions, NoRegion
  <2>3. CASE u # t
    BY <2>1, <2>3 DEF End, Owners, Inv, TypeOK
  <2> QED BY <2>2, <2>3
<1> QED BY <1>1, <1>2 DEF NoneLost

\* close_tracee gives back the region its thread had.
LEMMA NoneLostPush ==
    ASSUME Inv, NoneLost, NEW t \in Threads, ClosePush(t), UNCHANGED abandoned
    PROVE  NoneLost'
<1>1. closing[t] = region_id[t] /\ region_id[t] \in Regions
  BY DEF ClosePush, Inv, TypeOK, PlaceInv, ClosePcs
<1>2. /\ Len(AVAILABLE_REGION_IDS) \in Nat
      /\ Len(AVAILABLE_REGION_IDS') = Len(AVAILABLE_REGION_IDS) + 1
      /\ \A i \in 1..Len(AVAILABLE_REGION_IDS) : AVAILABLE_REGION_IDS'[i] = AVAILABLE_REGION_IDS[i]
      /\ AVAILABLE_REGION_IDS'[Len(AVAILABLE_REGION_IDS) + 1] = region_id[t]
  BY <1>1, Pushed DEF ClosePush, Inv, TypeOK
<1>3. Free \subseteq Free' /\ region_id[t] \in Free'
  <2>1. \A i \in 1..Len(AVAILABLE_REGION_IDS) : i \in 1..Len(AVAILABLE_REGION_IDS')
    BY <1>2
  <2>2. Len(AVAILABLE_REGION_IDS) + 1 \in 1..Len(AVAILABLE_REGION_IDS')
    BY <1>2
  <2> QED BY <1>2, <2>1, <2>2 DEF Free
<1>4. End(t)
  BY DEF ClosePush
<1> QED BY <1>3, <1>4, NoneLostGivenUp

\* close_tracee never loses a region and never closes somebody else's: only a tracer that
\* leaves event_loop with an error keeps one from being used again.
THEOREM NoneLostCorrect == ASSUME ~PromptReuse PROVE Spec => []NoneLost
<1>1. Init => NoneLost
  <2> SUFFICES ASSUME Init, NEW r \in Regions PROVE r \in Free
    BY DEF NoneLost
  <2>1. r + 1 \in 1..MAX_NUM_TRACEES /\ (r + 1) - 1 = r
    BY DEF Regions
  <2>2. Len(AVAILABLE_REGION_IDS) = MAX_NUM_TRACEES
    BY DEF Init
  <2>3. AVAILABLE_REGION_IDS[r + 1] = r
    BY <2>1 DEF Init
  <2> QED BY <2>1, <2>2, <2>3 DEF Free
<1>2. ASSUME Inv, NoneLost, [Next]_vars PROVE NoneLost'
  <2>1. CASE UNCHANGED vars
    BY <1>2, <2>1, NoneLostUnchanged DEF vars
  <2>2. CASE Next
    <3>1. PICK t \in Threads :
              \/ /\ \/ \E p \in Pids : Start(t, p)
                    \/ GetBegin(t) \/ GetLock(t) \/ GetInsert(t) \/ MmapReturns(t) \/ Write(t)
                    \/ CloseBegin(t) \/ CloseLock(t) \/ CloseFill(t)
                 /\ UNCHANGED abandoned
              \/ GetPop(t) /\ UNCHANGED abandoned
              \/ LoopsReturn(t) /\ UNCHANGED abandoned
              \/ CloseRemove(t) /\ UNCHANGED abandoned
              \/ ClosePush(t) /\ UNCHANGED abandoned
              \/ Leave(t)
      BY <2>2 DEF Next
    <3>2. CASE /\ \/ \E p \in Pids : Start(t, p)
                  \/ GetBegin(t) \/ GetLock(t) \/ GetInsert(t) \/ MmapReturns(t) \/ Write(t)
                  \/ CloseBegin(t) \/ CloseLock(t) \/ CloseFill(t)
               /\ UNCHANGED abandoned
      BY <1>2, <3>2, NoneLostUnchanged
      DEF Start, GetBegin, GetLock, LockAvailable, LockByPid, GetInsert, MmapReturns, Write,
          CloseBegin, CloseLock, CloseFill
    <3>3. CASE GetPop(t) /\ UNCHANGED abandoned
      BY <1>2, <3>3, NoneLostPop
    <3>4. CASE LoopsReturn(t) /\ UNCHANGED abandoned
      <4>1. CASE direct[t]
        BY <1>2, <3>4, <4>1, NoneLostUnchanged DEF LoopsReturn
      <4>2. CASE ~direct[t]
        <5>1. region_id[t] = NoRegion
          BY <1>2, <3>4, <4>2 DEF LoopsReturn, Inv, PlaceInv
        <5> QED BY <1>2, <3>4, <4>2, <5>1, NoneLostEnd DEF LoopsReturn
      <4> QED BY <4>1, <4>2
    <3>5. CASE CloseRemove(t) /\ UNCHANGED abandoned
      <4>1. REGION_IDS_BY_PID[pid[t]] # NoRegion
        BY <1>2, <3>5 DEF CloseRemove, Inv, PlaceInv, EntryInv, ClosePcs
      <4> QED BY <1>2, <3>5, <4>1, NoneLostUnchanged DEF CloseRemove
    <3>6. CASE ClosePush(t) /\ UNCHANGED abandoned
      BY <1>2, <3>6, NoneLostPush
    <3>7. CASE Leave(t)
      BY <1>2, <3>7, NoneLostGivenUp DEF Leave, Free
    <3> QED BY <3>1, <3>2, <3>3, <3>4, <3>5, <3>6, <3>7
  <2> QED BY <1>2, <2>1, <2>2
<1> QED BY <1>1, <1>2, InitInv, Inductive, PTL DEF Spec
===============================================================================
