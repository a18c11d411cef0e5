----------------------------- MODULE TaskTracker ------------------------------
(***************************************************************************)
(* krsm/src/tasks.rs: tasks that an async program offloads to a worker     *)
(* thread.  The tracker is a FixedSizedMap from a YieldReason to the       *)
(* response of the worker, or None; the main thread and the worker own it  *)
(* in turn.  The driver is the loop its doc comment describes, as written  *)
(* in krsm/examples/http_openjev_client.rs.                                *)
(*                                                                         *)
(* The runtime is reduced to the reasons in its pending_futures.  A call   *)
(* of sync or register_if takes one action per call it makes on the map;   *)
(* nothing else runs on the main thread in between.                        *)
(***************************************************************************)
EXTENDS Integers, FiniteSets

CONSTANTS TaskReasons,  \* the type YieldReason, ordered
          MAX_TASKS     \* MAX_PENDING of the tracker and of its runtime

None == 0
Done == 1   \* Some(response)
NoTask == 0

ASSUME TrackerAssumption ==
    /\ TaskReasons \subseteq Nat \ {NoTask} /\ IsFiniteSet(TaskReasons)
    /\ MAX_TASKS \in Nat \ {0} /\ Cardinality(TaskReasons) <= MAX_TASKS

VARIABLES
    items, size, ret,  \* tasks
    owner,             \* of the tracker: "main", "worker", or "channel" on its way back
    driver,            \* where its loop is: "step", "recv", "join", "answer", "register", "exited"
    waiting,           \* the keys of runtime.pending_futures
    unblocked          \* the reason unblock_futures was called with

tracker_vars == <<items, size, ret, owner, driver, waiting, unblocked>>

\* work, the one edit function here, changes values only.
tasks == INSTANCE FixedSizedMap WITH N <- MAX_TASKS, Keys <- TaskReasons, Vals <- {None, Done},
                                     ordered <- TRUE

Tracked == {items[i][1] : i \in 0..size - 1}
Completed == {items[i][1] : i \in {j \in 0..size - 1 : items[j][2] = Done}}

TrackerInit ==
    /\ tasks!Init
    /\ owner = "main"
    /\ driver = "step"
    /\ waiting = {}
    /\ unblocked = NoTask

\* run_async_step: the future that was answered is done; the program drops some of the
\* others (the losing branch of or()) and starts any number of new ones.
run_async_step ==
    /\ driver = "step"
    /\ waiting' \in SUBSET TaskReasons
    /\ unblocked' = NoTask
    /\ driver' = IF owner = "main" THEN "join" ELSE "recv"
    /\ UNCHANGED <<items, size, ret, owner>>

\* try_recv, then around the loop.
try_recv ==
    /\ driver = "recv"
    /\ owner' = IF owner = "channel" THEN "main" ELSE owner
    /\ driver' = "step"
    /\ UNCHANGED <<items, size, ret, waiting, unblocked>>

-------------------------------------------------------------------------------
(* sync.                                                                     *)

\* Mutant: tasks nobody waits for are kept.
SyncWithoutJoin ==
    /\ driver = "join"
    /\ driver' = "answer"
    /\ UNCHANGED <<items, size, ret, owner, waiting, unblocked>>

\* self.tasks.inner_join_keys(&runtime.pending_futures)
SyncJoin ==
    /\ driver = "join"
    /\ tasks!inner_join_keys(waiting)
    /\ driver' = "answer"
    /\ UNCHANGED <<owner, waiting, unblocked>>

\* Mutant: the response is read and its task not removed.
SyncAnswerKeepsTask ==
    /\ driver = "answer"
    /\ \/ \E r \in waiting \cap Completed : unblocked' = r /\ driver' = "step"
       \/ /\ waiting \cap Completed = {}
          /\ driver' = IF size = 0 THEN "register" ELSE "step"
          /\ UNCHANGED unblocked
    /\ UNCHANGED <<items, size, ret, owner, waiting>>

\* The first pending reason whose task is complete is unblocked, else sync returns
\* whether the tracker is empty.
SyncAnswer ==
    /\ driver = "answer"
    /\ LET complete == waiting \cap Completed
       IN \/ \E r \in complete :
                /\ \A q \in complete : r <= q
                /\ tasks!remove(r)
                /\ unblocked' = r
                /\ driver' = "step"
          \/ /\ complete = {}
             /\ driver' = IF size = 0 THEN "register" ELSE "step"
             /\ UNCHANGED <<items, size, ret, unblocked>>
    /\ UNCHANGED <<owner, waiting>>

-------------------------------------------------------------------------------

\* Mutant: register_if stops at the first match.
register_first ==
    /\ driver = "register"
    /\ \/ \E r \in waiting : tasks!set_default(r, None)
       \/ waiting = {} /\ UNCHANGED <<items, size, ret>>
    /\ owner' = "worker"
    /\ driver' = "step"
    /\ UNCHANGED <<waiting, unblocked>>

\* register_if, whose match_fn accepts every reason: one register per pending reason.
\* After the last one the worker thread is spawned with the tracker.
register_if ==
    /\ driver = "register"
    /\ LET left == waiting \ Tracked
       IN \/ \E r \in left :
                /\ \A q \in left : r <= q
                /\ tasks!set_default(r, None)
                /\ UNCHANGED <<driver, owner>>
          \/ /\ left = {}
             /\ owner' = "worker"
             /\ driver' = "step"
             /\ UNCHANGED <<items, size, ret>>
    /\ UNCHANGED <<waiting, unblocked>>

\* work: worker_fn once per entry, each with a response; the tracker is sent back.
work ==
    /\ owner = "worker"
    /\ tasks!map_edit(size, [i \in 0..size - 1 |-> <<items[i][1], Done>>])
    /\ owner' = "channel"
    /\ UNCHANGED <<driver, waiting, unblocked>>

\* worker_fn fails: its thread ends the process.
WorkerFails ==
    /\ owner = "worker" /\ size > 0 /\ driver # "exited"
    /\ driver' = "exited"
    /\ UNCHANGED <<items, size, ret, owner, waiting, unblocked>>

Main == driver # "exited" /\ (run_async_step \/ try_recv \/ SyncJoin \/ SyncAnswer \/ register_if)
Worker == driver # "exited" /\ work

Exited == driver = "exited" /\ UNCHANGED tracker_vars

TrackerNext == Main \/ Worker \/ WorkerFails \/ Exited

\* Both threads are scheduled: weak fairness of Main and of Worker, with ENABLED written out
\* (Main can always move, Worker whenever it has the tracker, until the process exits).
TrackerFairness ==
    /\ []<>(driver = "exited") \/ []<><<Main>>_tracker_vars
    /\ []<>(driver = "exited" \/ owner # "worker") \/ []<><<Worker>>_tracker_vars

TrackerSpec == TrackerInit /\ [][TrackerNext]_tracker_vars /\ TrackerFairness

-------------------------------------------------------------------------------
(* Properties.                                                               *)

\* Every variable has its type, and the tracker is a map.
TrackerTypeOK ==
    /\ tasks!TypeOK /\ tasks!SortedPrefix
    /\ owner \in {"main", "worker", "channel"}
    /\ driver \in {"step", "recv", "join", "answer", "register", "exited"}
    /\ waiting \subseteq TaskReasons
    /\ unblocked \in TaskReasons \cup {NoTask}

\* Only a future that waits is answered, with a response the worker has computed, and
\* its task is gone: no response is given twice.
AnswersPending == unblocked # NoTask => unblocked \in waiting \ Tracked

\* When the worker is handed the tracker, its batch is exactly what the program waits for,
\* and no response is left in it to be delivered, which work would overwrite.
BatchIsPending ==
    [][owner = "main" /\ owner' = "worker" => Tracked = waiting /\ Completed = {}]_tracker_vars

\* The program starts no further future, from some time on: not in place of the one that was
\* answered either.
StartsEnd == <>[][driver = "step" => waiting' \subseteq waiting \ {unblocked}]_tracker_vars

\* Once the program starts nothing new, every future that waits is answered, unless the
\* program drops it, although each join may lose finished tasks, which are then registered
\* and worked on again.  A program that goes on starting futures can keep another one
\* waiting for ever.
EveryTaskAnswered ==
    StartsEnd =>
        \A r \in TaskReasons :
            r \in waiting ~> r \notin waiting \/ unblocked = r \/ driver = "exited"
===============================================================================
