------------------------------ MODULE BoundedMap ------------------------------
(***************************************************************************)
(* What krsm's lookup map promises to its users: a finite map of at most N *)
(* entries.  FixedSizedMap, the sorted array of krsm/src/common.rs, is     *)
(* shown to implement this module.                                         *)
(*                                                                         *)
(* map is the content; ret is what the last call returned.  The promise is *)
(* made to lawful callers: those whose edit functions keep the order of    *)
(* the entries.                                                            *)
(***************************************************************************)
EXTENDS Integers, FiniteSets, Functions

CONSTANTS N,     \* the capacity, the const generic parameter N
          Keys,  \* the ordered key type (integers here)
          Vals   \* the value type

VARIABLES map, ret, lawful

vars == <<map, ret, lawful>>

\* What the calls return: Result<bool, AsyncRuntimeError>, Option<..>, bool.
Ok(b) == <<"Ok", b>>
TooManyPending == <<"Err", "TooManyPending">>
None == <<>>
Some(x) == <<"Some", x>>
Flag(b) == <<"bool", b>>
Unit == <<"unit">>

Init ==
    /\ map = << >>
    /\ ret = Unit
    /\ lawful = TRUE

\* The last call stored a fresh entry, met the key, or met the capacity.
SetDefault(k, v) ==
    \/ /\ k \in DOMAIN map
       /\ ret' = Ok(FALSE)
       /\ UNCHANGED map
    \/ /\ k \notin DOMAIN map
       /\ Cardinality(DOMAIN map) = N
       /\ ret' = TooManyPending
       /\ UNCHANGED map
    \/ /\ k \notin DOMAIN map
       /\ Cardinality(DOMAIN map) < N
       /\ ret' = Ok(TRUE)
       /\ map' = [j \in DOMAIN map \cup {k} |-> IF j = k THEN v ELSE map[j]]

Edit(k, v) ==
    /\ ret' = Flag(k \in DOMAIN map)
    /\ map' = [j \in DOMAIN map |-> IF j = k THEN v ELSE map[j]]

Read(k) ==
    /\ ret' = IF k \in DOMAIN map THEN Some(map[k]) ELSE None
    /\ UNCHANGED map

Remove(k) ==
    /\ ret' = IF k \in DOMAIN map THEN Some(map[k]) ELSE None
    /\ map' = Restrict(map, DOMAIN map \ {k})

\* The matching entry with the smallest key.
Find(v) ==
    LET hits == {k \in DOMAIN map : map[k] = v}
    IN /\ ret' = IF hits = {} THEN None
                 ELSE Some(CHOOSE k \in hits : \A j \in hits : k <= j)
       /\ UNCHANGED map

\* A lawful edit function changes the entries below some key: their values, and their keys
\* too, as long as there are as many as before and the rest (untouched) still lies above.
EditFirst ==
    /\ ret' = Unit
    /\ DOMAIN map' \subseteq Keys /\ map' \in [DOMAIN map' -> Vals]
    /\ Cardinality(DOMAIN map') = Cardinality(DOMAIN map)
    /\ \E rest \in SUBSET (DOMAIN map \cap DOMAIN map') :
         \A k \in rest :
             /\ map'[k] = map[k]
             /\ \A j \in (DOMAIN map \cup DOMAIN map') \ rest : j < k

InnerJoinKeys(other) ==
    /\ ret' = Unit
    /\ map' = Restrict(map, DOMAIN map \cap other)

Calls ==
    \/ \E k \in Keys, v \in Vals : SetDefault(k, v) \/ Edit(k, v)
    \/ \E k \in Keys : Read(k) \/ Remove(k)
    \/ \E v \in Vals : Find(v)
    \/ EditFirst
    \/ \E other \in SUBSET Keys : InnerJoinKeys(other)

\* Once an edit function has broken the order nothing is promised any more.
Next == lawful' => lawful /\ Calls

Spec == Init /\ [][Next]_vars
===============================================================================
