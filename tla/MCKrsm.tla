-------------------------------- MODULE MCKrsm --------------------------------
(***************************************************************************)
(* Model checking of the futures of krsm: AsyncRuntime, PathAugments and   *)
(* TaskTracker.  They share no state; a behaviour is one of the runtime,   *)
(* of the augments of one syscall, or of a task tracker, with the others   *)
(* at rest.                                                                *)
(***************************************************************************)
EXTENDS AsyncRuntime, PathAugments, TaskTracker

VARIABLE part  \* what moves

Parts == {"runtime", "augments", "tracker"}
krsm_vars == <<vars, augment_vars, tracker_vars, part>>

\* Augments at rest: nothing to do, and returned.
AtRest == plan = [b \in Augments |-> IF b \in Always THEN "awaits" ELSE "absent"]

KrsmInit ==
    /\ part \in Parts
    /\ Init /\ TrackerInit
    /\ \/ part = "augments" /\ AugmentInit
       \/ /\ part # "augments"
          /\ AtRest
          /\ st = [b \in Augments |-> "new"] /\ timing = "new"
          /\ result = "none" /\ weak_result = "none"
          /\ pc = "ok" /\ cursor = 1 /\ second = FALSE

RuntimeStep == part = "runtime" /\ Next /\ UNCHANGED <<augment_vars, tracker_vars, part>>

\* The program may wait for a response that never comes.
RuntimeRests == part = "runtime" /\ UNCHANGED krsm_vars

AugmentStep == part = "augments" /\ AugmentNext /\ UNCHANGED <<vars, tracker_vars, part>>

TrackerStep == part = "tracker" /\ TrackerNext /\ UNCHANGED <<vars, augment_vars, part>>

KrsmNext == RuntimeStep \/ RuntimeRests \/ AugmentStep \/ TrackerStep

KrsmSpec ==
    /\ KrsmInit /\ [][KrsmNext]_krsm_vars
    /\ AugmentFairness
    /\ part = "tracker" => TrackerFairness
===============================================================================
