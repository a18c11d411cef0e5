---------------------------- MODULE SharedRegions -----------------------------
(***************************************************************************)
(* ptrace/src/mem_direct.rs and the statics of ptrace/src/common.rs: how   *)
(* the tracer threads share the memory file through which they write into  *)
(* their tracees.  Every tracee has one region of it, allocated at its     *)
(* first execve and given back by close_tracee.                            *)
(*                                                                         *)
(* One tracer thread per tracee; a thread that has ended may be started    *)
(* again for a later tracee.  The calls are cut where a lock is taken or a *)
(* shared structure changes.  A region's content is "zero" or the thread   *)
(* that wrote to it last.                                                  *)
(***************************************************************************)
EXTENDS Integers, Sequences, FiniteSets

CONSTANTS Threads, NoThread, Pids, NoPid,
          MAX_NUM_TRACEES, \* the number of regions
          PromptReuse      \* the kernel gives out a pid again before its last tracer has closed

ASSUME RegionsAssumption ==
    /\ NoThread \notin Threads /\ NoPid \notin Pids
    /\ MAX_NUM_TRACEES \in Nat
    /\ PromptReuse \in BOOLEAN

VARIABLES
    AVAILABLE_REGION_IDS,  \* the free regions, a stack
    REGION_IDS_BY_PID,     \* the region of each pid, or NoRegion
    available_lock,        \* who holds the lock of AVAILABLE_REGION_IDS
    by_pid_lock,           \* who holds the lock of REGION_IDS_BY_PID
    content,               \* SHARED_REGIONS
    pc,                    \* where each thread is
    pid,                   \* whose tracer it is
    region_id,             \* thread local: TRACEE_WRITE_REGION_ID
    direct,                \* thread local: MEM is DIRECT_MEM_HELPERS
    closing,               \* the region close_tracee removed, while it runs
    abandoned              \* history: the regions whose owners left without close_tracee

vars == <<AVAILABLE_REGION_IDS, REGION_IDS_BY_PID, available_lock, by_pid_lock, content,
          pc, pid, region_id, direct, closing, abandoned>>

Regions == 0..MAX_NUM_TRACEES - 1
NoRegion == -1
Zero == NoThread

\* Between the exit of the tracee and the end of its thread.
ClosePcs == {"close", "close_by_pid", "close_remove", "close_fill", "close_push"}

\* The kernel gives no pid to two processes at once.
PidTaken(p) == \E t \in Threads : pid[t] = p /\ (PromptReuse => pc[t] \notin ClosePcs)

-------------------------------------------------------------------------------

Init ==
    /\ AVAILABLE_REGION_IDS = [i \in 1..MAX_NUM_TRACEES |-> i - 1]
    /\ REGION_IDS_BY_PID = [p \in Pids |-> NoRegion]
    /\ available_lock = NoThread
    /\ by_pid_lock = NoThread
    /\ content = [r \in Regions |-> Zero]
    /\ pc = [t \in Threads |-> "none"]
    /\ pid = [t \in Threads |-> NoPid]
    /\ region_id = [t \in Threads |-> NoRegion]
    /\ direct = [t \in Threads |-> FALSE]
    /\ closing = [t \in Threads |-> NoRegion]
    /\ abandoned = {}

Goto(t, l) == pc' = [pc EXCEPT ![t] = l]

\* A tracer thread starts; its thread locals are empty.
Start(t, p) ==
    /\ pc[t] = "none"
    /\ ~PidTaken(p)
    /\ Goto(t, "running")
    /\ pid' = [pid EXCEPT ![t] = p]
    /\ UNCHANGED <<AVAILABLE_REGION_IDS, REGION_IDS_BY_PID, available_lock, by_pid_lock,
                   content, region_id, direct, closing>>

\* The thread ends, and its thread locals with it.
End(t) ==
    /\ Goto(t, "none")
    /\ pid' = [pid EXCEPT ![t] = NoPid]
    /\ region_id' = [region_id EXCEPT ![t] = NoRegion]
    /\ direct' = [direct EXCEPT ![t] = FALSE]
    /\ closing' = [closing EXCEPT ![t] = NoRegion]

-------------------------------------------------------------------------------
(* get_own_region_id, called by initialize_tracee_mmaps after an execve.     *)

LockAvailable(t, from, to) ==
    /\ pc[t] = from
    /\ available_lock = NoThread
    /\ available_lock' = t
    /\ Goto(t, to)
    /\ UNCHANGED <<AVAILABLE_REGION_IDS, REGION_IDS_BY_PID, by_pid_lock, content, pid,
                   region_id, direct, closing>>

LockByPid(t, from, to) ==
    /\ pc[t] = from
    /\ by_pid_lock = NoThread
    /\ by_pid_lock' = t
    /\ Goto(t, to)
    /\ UNCHANGED <<AVAILABLE_REGION_IDS, REGION_IDS_BY_PID, available_lock, content, pid,
                   region_id, direct, closing>>

Unlock == available_lock' = NoThread /\ by_pid_lock' = NoThread

\* Only when the cache is empty: later execves keep the region.
GetBegin(t) == region_id[t] = NoRegion /\ LockAvailable(t, "running", "get_by_pid")

GetLock(t) == LockByPid(t, "get_by_pid", "get_pop")

\* Mutant: the top of the stack is read and not popped.
GetPeek(t) ==
    /\ pc[t] = "get_pop"
    /\ AVAILABLE_REGION_IDS # <<>>
    /\ region_id' = [region_id EXCEPT ![t] = AVAILABLE_REGION_IDS[Len(AVAILABLE_REGION_IDS)]]
    /\ Goto(t, "get_insert")
    /\ UNCHANGED <<AVAILABLE_REGION_IDS, REGION_IDS_BY_PID, content, available_lock, by_pid_lock,
                   pid, direct, closing>>

\* MaxTracee: the error ends the thread; MEM is not direct yet, so nothing is closed.
GetPop(t) ==
    /\ pc[t] = "get_pop"
    /\ IF AVAILABLE_REGION_IDS = <<>>
       THEN Unlock /\ End(t) /\ UNCHANGED AVAILABLE_REGION_IDS
       ELSE LET n == Len(AVAILABLE_REGION_IDS)
            IN /\ region_id' = [region_id EXCEPT ![t] = AVAILABLE_REGION_IDS[n]]
               /\ AVAILABLE_REGION_IDS' = SubSeq(AVAILABLE_REGION_IDS, 1, n - 1)
               /\ Goto(t, "get_insert")
               /\ UNCHANGED <<available_lock, by_pid_lock, pid, direct, closing>>
    /\ UNCHANGED <<REGION_IDS_BY_PID, content>>

GetInsert(t) ==
    /\ pc[t] = "get_insert"
    /\ REGION_IDS_BY_PID' = [REGION_IDS_BY_PID EXCEPT ![pid[t]] = region_id[t]]
    /\ Unlock
    /\ Goto(t, "mmap")
    /\ UNCHANGED <<AVAILABLE_REGION_IDS, content, pid, region_id, direct, closing>>

\* The inserted mmap has returned an address.
MmapReturns(t) ==
    /\ pc[t] = "mmap"
    /\ direct' = [direct EXCEPT ![t] = TRUE]
    /\ Goto(t, "running")
    /\ UNCHANGED <<AVAILABLE_REGION_IDS, REGION_IDS_BY_PID, available_lock, by_pid_lock,
                   content, pid, region_id, closing>>

\* write_bytes_to_tracee, under the lock of the one region.
Write(t) ==
    /\ pc[t] = "running" /\ direct[t]
    /\ content' = [content EXCEPT ![region_id[t]] = t]
    /\ UNCHANGED <<AVAILABLE_REGION_IDS, REGION_IDS_BY_PID, available_lock, by_pid_lock,
                   pc, pid, region_id, direct, closing>>

-------------------------------------------------------------------------------
(* The end of the thread.                                                    *)

\* all_tracee_loops has a result.  Without direct memory close_tracee does nothing.
LoopsReturn(t) ==
    /\ pc[t] = "running"
    /\ \/ /\ direct[t]
          /\ Goto(t, "close")
          /\ UNCHANGED <<pid, region_id, direct, closing>>
       \/ ~direct[t] /\ End(t)
    /\ UNCHANGED <<AVAILABLE_REGION_IDS, REGION_IDS_BY_PID, available_lock, by_pid_lock, content>>

\* event_loop leaves with `?`: the future is dropped and close_tracee never called; or
\* the coroutine fails between the allocation and the switch to direct memory.
Leave(t) ==
    /\ pc[t] \in {"running", "mmap"}
    /\ abandoned' = abandoned \cup ({region_id[t]} \ {NoRegion})
    /\ End(t)
    /\ UNCHANGED <<AVAILABLE_REGION_IDS, REGION_IDS_BY_PID, available_lock, by_pid_lock, content>>

CloseBegin(t) == LockAvailable(t, "close", "close_by_pid")

CloseLock(t) == LockByPid(t, "close_by_pid", "close_remove")

\* No entry for the pid is an error that ends the thread.
CloseRemove(t) ==
    /\ pc[t] = "close_remove"
    /\ LET id == REGION_IDS_BY_PID[pid[t]]
       IN IF id = NoRegion
          THEN Unlock /\ End(t) /\ UNCHANGED REGION_IDS_BY_PID
          ELSE /\ REGION_IDS_BY_PID' = [REGION_IDS_BY_PID EXCEPT ![pid[t]] = NoRegion]
               /\ closing' = [closing EXCEPT ![t] = id]
               /\ Goto(t, "close_fill")
               /\ UNCHANGED <<available_lock, by_pid_lock, pid, region_id, direct>>
    /\ UNCHANGED <<AVAILABLE_REGION_IDS, content>>

\* Mutant: the region is given back as it is.
CloseWithoutFill(t) ==
    /\ pc[t] = "close_fill"
    /\ Goto(t, "close_push")
    /\ UNCHANGED <<AVAILABLE_REGION_IDS, REGION_IDS_BY_PID, available_lock, by_pid_lock, content,
                   pid, region_id, direct, closing>>

CloseFill(t) ==
    /\ pc[t] = "close_fill"
    /\ content' = [content EXCEPT ![closing[t]] = Zero]
    /\ Goto(t, "close_push")
    /\ UNCHANGED <<AVAILABLE_REGION_IDS, REGION_IDS_BY_PID, available_lock, by_pid_lock, pid,
                   region_id, direct, closing>>

\* Mutant: the pid is closed, its region not given back.
CloseWithoutPush(t) ==
    /\ pc[t] = "close_push"
    /\ Unlock
    /\ End(t)
    /\ UNCHANGED <<AVAILABLE_REGION_IDS, REGION_IDS_BY_PID, content>>

ClosePush(t) ==
    /\ pc[t] = "close_push"
    /\ AVAILABLE_REGION_IDS' = Append(AVAILABLE_REGION_IDS, closing[t])
    /\ Unlock
    /\ End(t)
    /\ UNCHANGED <<REGION_IDS_BY_PID, content>>

Next ==
    \E t \in Threads :
        \/ /\ \/ \E p \in Pids : Start(t, p)
              \/ GetBegin(t) \/ GetLock(t) \/ GetPop(t) \/ GetInsert(t) \/ MmapReturns(t)
              \/ Write(t)
              \/ LoopsReturn(t)
              \/ CloseBegin(t) \/ CloseLock(t) \/ CloseRemove(t) \/ CloseFill(t) \/ ClosePush(t)
           /\ UNCHANGED abandoned
        \/ Leave(t)

Spec == Init /\ [][Next]_vars

-------------------------------------------------------------------------------
(* Properties.                                                               *)

Free == {AVAILABLE_REGION_IDS[i] : i \in 1..Len(AVAILABLE_REGION_IDS)}
Owners(r) == {t \in Threads : region_id[t] = r}

\* Every variable has its type.
TypeOK ==
    /\ AVAILABLE_REGION_IDS \in Seq(Regions)
    /\ REGION_IDS_BY_PID \in [Pids -> Regions \cup {NoRegion}]
    /\ available_lock \in Threads \cup {NoThread}
    /\ by_pid_lock \in Threads \cup {NoThread}
    /\ content \in [Regions -> Threads \cup {Zero}]
    /\ pc \in [Threads -> {"none", "running", "get_by_pid", "get_pop", "get_insert", "mmap"}
                            \cup ClosePcs]
    /\ pid \in [Threads -> Pids \cup {NoPid}]
    /\ region_id \in [Threads -> Regions \cup {NoRegion}]
    /\ direct \in [Threads -> BOOLEAN]
    /\ closing \in [Threads -> Regions \cup {NoRegion}]
    /\ abandoned \subseteq Regions

\* A region has at most one owner, and a free one has none: a tracer never writes into
\* memory another tracee reads its arguments from.  This needs ~PromptReuse: close_tracee looks
\* its region up by pid, and would free that of a new tracee with the same pid.
NoSharing ==
    /\ \A t, u \in Threads : region_id[t] = region_id[u] /\ region_id[t] # NoRegion => t = u
    /\ \A t \in Threads : region_id[t] \notin Free
    /\ \A i, j \in 1..Len(AVAILABLE_REGION_IDS) :
          AVAILABLE_REGION_IDS[i] = AVAILABLE_REGION_IDS[j] => i = j

\* A tracee gets a region without anything another tracee left there.
FreeIsZero == \A r \in Free : content[r] = Zero

\* "and releases it back into the vec + hashmap when tracee exits": no region disappears but
\* through a tracer that leaves with an error, which closes nothing; close_tracee finds the
\* entry of its own tracee and gives back the region the tracee had.
NoneLost == \A r \in Regions : r \in Free \/ Owners(r) # {} \/ r \in abandoned
===============================================================================
