---------------------------- MODULE FixedSizedMap -----------------------------
(***************************************************************************)
(* krsm/src/common.rs: the lookup map of krsm, a sorted array of N slots.  *)
(* Slots are numbered from 0 as in the code; an empty slot (Rust's None)   *)
(* is <<>>, a full one is <<key, value>>.                                  *)
(*                                                                         *)
(* The two calls that edit many entries lend the array to a closure of the *)
(* caller, which may do to the keys whatever it likes.  The map's side of  *)
(* the contract is stated as long as the callers keep theirs (ordered).    *)
(*                                                                         *)
(* Bounds: the keys, the values and N are small sets; every array the      *)
(* operations can produce over them is reached.                            *)
(***************************************************************************)
EXTENDS Integers, FiniteSets, FiniteSetsExt

CONSTANTS N, Keys, Vals

VARIABLES items,  \* the array
          size,   \* the number of full slots
          ret,    \* what the last call returned
          ordered \* history: every edit function so far has left the array in order

vars == <<items, size, ret, ordered>>

\* What the first n slots of an array hold, as a map.
KeysOf(a, n) == {a[i][1] : i \in 0..n - 1}
MapOf(a, n) == [k \in KeysOf(a, n) |-> (CHOOSE p \in {a[i] : i \in 0..n - 1} : p[1] = k)[2]]

A == INSTANCE BoundedMap WITH map <- MapOf(items, size), lawful <- ordered

ASSUME ArrayAssumption == N \in Nat \ {0} /\ Keys \subseteq Int

Slots == 0..N - 1
Empty == <<>>
EmptyArray == [i \in Slots |-> Empty]

-------------------------------------------------------------------------------
(* The helpers.                                                              *)

swap(s, i, j) == [s EXCEPT ![i] = s[j], ![j] = s[i]]

\* Swaps the range from..to-1 onto the slots d away, from the end that does not
\* overwrite what is still to be moved.
leftwards(slice, from, to, d) ==
    LET done[i \in from..to] == IF i = from THEN slice ELSE swap(done[i - 1], i - 1, i - 1 + d)
    IN done[to]

rightwards(slice, from, to, d) ==
    LET done[i \in from..to] == IF i = to THEN slice ELSE swap(done[i + 1], i, i + d)
    IN done[from]

move_within(slice, from, to, newStart) ==
    LET d == newStart - from
    IN CASE d < 0 -> leftwards(slice, from, to, d)
         [] d > 0 -> rightwards(slice, from, to, d)
         [] OTHER -> slice

\* _search: the whole array is searched, empty slots comparing Greater, with
\* slice::binary_search_by of the standard library (the branch-free version of Rust 1.88):
\* Ok(i) at a slot that compares Equal, else Err(the insertion point).
Greater(slot, key) == slot = Empty \/ slot[1] > key
Less(slot, key) == slot # Empty /\ slot[1] < key

\* One round of its loop on the len slots from base, while more than one is left.
Halve(slice, key, p) ==
    LET half == p.len \div 2
    IN IF p.len = 1 THEN p
       ELSE [base |-> IF Greater(slice[p.base + half], key) THEN p.base ELSE p.base + half,
             len |-> p.len - half]

\* N rounds are more than enough to leave one slot.
probed(slice, key) ==
    LET after[n \in 0..N] == IF n = 0 THEN [base |-> 0, len |-> N]
                             ELSE Halve(slice, key, after[n - 1])
    IN after[N].base

search(slice, key) ==
    LET found == probed(slice, key)
    IN CASE Greater(slice[found], key) -> [ok |-> FALSE, index |-> found]
         [] Less(slice[found], key)    -> [ok |-> FALSE, index |-> found + 1]
         [] OTHER                      -> [ok |-> TRUE, index |-> found]

-------------------------------------------------------------------------------
(* The operations.                                                           *)

Init ==
    /\ items = EmptyArray
    /\ size = 0
    /\ ret = A!Unit
    /\ ordered = TRUE

\* Mutant: the entries behind the new one are not moved.
set_default_unmoved(key, val) ==
    LET r == search(items, key)
    IN /\ ~r.ok /\ size # N
       /\ items' = [items EXCEPT ![r.index] = <<key, val>>]
       /\ size' = size + 1
       /\ ret' = A!Ok(TRUE)

\* Mutant: a present key gets the default value.
set_default_overwrites(key, val) ==
    LET r == search(items, key)
    IN \/ /\ r.ok
          /\ items' = [items EXCEPT ![r.index] = <<key, val>>]
          /\ ret' = A!Ok(FALSE)
          /\ UNCHANGED size
       \/ /\ ~r.ok /\ size # N
          /\ items' = [move_within(items, r.index, size, r.index + 1)
                           EXCEPT ![r.index] = <<key, val>>]
          /\ size' = size + 1
          /\ ret' = A!Ok(TRUE)

set_default(key, val) ==
    LET r == search(items, key)
    IN \/ /\ r.ok
          /\ ret' = A!Ok(FALSE)
          /\ UNCHANGED <<items, size>>
       \/ /\ ~r.ok
          /\ size = N
          /\ ret' = A!TooManyPending
          /\ UNCHANGED <<items, size>>
       \/ /\ ~r.ok
          /\ size # N
          /\ items' = [move_within(items, r.index, size, r.index + 1)
                           EXCEPT ![r.index] = <<key, val>>]
          /\ size' = size + 1
          /\ ret' = A!Ok(TRUE)

\* edit_fn is any function of the old value: the new value is any value.
edit(key, new) ==
    LET r == search(items, key)
    IN /\ items' = IF r.ok THEN [items EXCEPT ![r.index] = <<items[r.index][1], new>>]
                           ELSE items
       /\ ret' = A!Flag(r.ok)
       /\ UNCHANGED size

read(key) ==
    LET r == search(items, key)
    IN /\ ret' = IF r.ok THEN A!Some(items[r.index][2]) ELSE A!None
       /\ UNCHANGED <<items, size>>

remove(key) ==
    LET r == search(items, key)
        taken == [items EXCEPT ![r.index] = Empty]
    IN \/ /\ r.ok
          /\ ret' = A!Some(items[r.index][2])
          /\ items' = [move_within(taken, r.index + 1, size, r.index)
                           EXCEPT ![size - 1] = Empty]
          /\ size' = size - 1
       \/ /\ ~r.ok
          /\ ret' = A!None
          /\ UNCHANGED <<items, size>>

\* find_fn selects full slots by value; result_fn returns the key.
find(val) ==
    LET hits == {i \in 0..size - 1 : items[i] # Empty /\ items[i][2] = val}
    IN /\ ret' = IF hits = {} THEN A!None ELSE A!Some(items[Min(hits)][1])
       /\ UNCHANGED <<items, size>>

\* edit_fn has left new in the first n slots.
EditPrefix(n, new) ==
    /\ items' = [i \in Slots |-> IF i < n THEN new[i] ELSE items[i]]
    /\ UNCHANGED size

\* Where a loop over batches ends: behind the last entry, or behind a batch for which
\* edit_fn has returned true.
StopsAfter(batch_size) == {n \in 0..size : n = size \/ (n > 0 /\ n % batch_size = 0)}

\* edit_fn gets a mutable reference to each entry, key and value, until it returns true.
\* A slot that an earlier batched edit has emptied ends the loop with a panic.
Panicked == <<"panic">>

map_edit(n, new) ==
    /\ n \in 0..size
    /\ \A i \in 0..n - 1 : items[i] # Empty
    /\ EditPrefix(n, new)
    /\ \/ n \in StopsAfter(1) /\ ret' = A!Unit
       \/ n < size /\ items[n] = Empty /\ ret' = Panicked

\* edit_fn gets mutable slices of batch_size slots (the last one may be shorter) until it
\* returns true: it may empty slots, too.
map_edit_batches(n, new) ==
    /\ n \in UNION {StopsAfter(batch_size) : batch_size \in 1..N}
    /\ EditPrefix(n, new)
    /\ ret' = A!Unit

\* other is the array of another map, in order, with the keys in otherKeys: its i-th key.
other_item(otherKeys, i) ==
    CHOOSE k \in otherKeys : Cardinality({j \in otherKeys : j < k}) = i

\* Mutant: the position in the result does not move on.
TakeIntoSameSlot(p, key) ==
    LET r == search(p.ours, key)
    IN IF r.ok THEN [ours |-> [p.ours EXCEPT ![r.index] = Empty],
                     result |-> [p.result EXCEPT ![0] = p.ours[r.index]],
                     written |-> 1]
               ELSE p

\* A key of other is looked up in what is left of our array, and the entry found is taken
\* out and put into the result.
TakeInto(p, key) ==
    LET r == search(p.ours, key)
    IN IF r.ok THEN [ours |-> [p.ours EXCEPT ![r.index] = Empty],
                     result |-> [p.result EXCEPT ![p.written] = p.ours[r.index]],
                     written |-> p.written + 1]
               ELSE p

\* All keys of other in turn; the later lookups see the slots already emptied.
joined(slice, otherKeys) ==
    LET after[i \in 0..Cardinality(otherKeys)] ==
            IF i = 0 THEN [ours |-> slice, result |-> EmptyArray, written |-> 0]
            ELSE TakeInto(after[i - 1], other_item(otherKeys, i - 1))
    IN after[Cardinality(otherKeys)]

inner_join_keys(otherKeys) ==
    LET final == joined(items, otherKeys)
    IN /\ items' = [i \in Slots |-> CASE i < final.written -> final.result[i]
                                      [] i >= final.written /\ i < size -> Empty
                                      [] OTHER -> final.ours[i]]
       /\ size' = final.written
       /\ ret' = A!Unit

OtherMaps == {ks \in SUBSET Keys : IsFiniteSet(ks) /\ Cardinality(ks) <= N}

Calls ==
    \/ \E k \in Keys, v \in Vals : set_default(k, v)
    \/ \E k \in Keys, v \in Vals : edit(k, v)
    \/ \E k \in Keys : read(k)
    \/ \E k \in Keys : remove(k)
    \/ \E v \in Vals : find(v)
    \/ \E other \in OtherMaps : inner_join_keys(other)

EditCalls ==
    \E n \in 0..N :
        \/ \E new \in [0..n - 1 -> Keys \X Vals] : map_edit(n, new)
        \/ \E new \in [0..n - 1 -> {Empty} \cup (Keys \X Vals)] : map_edit_batches(n, new)

\* The order the comment of _search relies on: the first size slots are full with
\* strictly ascending keys (no key twice), and every later slot is empty.
InOrder ==
    /\ \A i \in Slots : items[i] # Empty <=> i < size
    /\ \A i, j \in 0..size - 1 : i < j => items[i][1] < items[j][1]

Next ==
    \/ Calls /\ UNCHANGED ordered
    \/ EditCalls /\ ordered' = (ordered /\ InOrder')

Spec == Init /\ [][Next]_vars

-------------------------------------------------------------------------------
(* Properties.                                                               *)

\* The array, its length and the results have their types.
TypeOK ==
    /\ items \in [Slots -> {Empty} \cup (Keys \X Vals)]
    /\ size \in 0..N

\* As long as the callers' edit functions leave the array in order, every call finds it in
\* order and leaves it so: the moves of set_default and remove, and the join, which fills the
\* array anew from what it took out of it.
SortedPrefix == ordered => InOrder

\* Under the same condition every call returns, and leaves, what a map of at most N entries
\* would, except inner_join_keys: see the next two.
ImplementsBoundedMap ==
    A!Init /\ [][A!Next \/ \E other \in OtherMaps : inner_join_keys(other)]_vars

\* inner_join_keys keeps nothing outside the intersection, keeps values, and keeps the
\* smallest common key: a join with a common key is not empty.
JoinsWithin(other) ==
    LET map == MapOf(items, size)
        kept == KeysOf(items', size')
        common == KeysOf(items, size) \cap other
    IN /\ kept \subseteq common
       /\ \A k \in common : (\A j \in common : k <= j) => k \in kept
       /\ MapOf(items', size') = [k \in kept |-> map[k]]

JoinKeepsSmallest ==
    [][\A other \in OtherMaps : ordered' /\ inner_join_keys(other) => JoinsWithin(other)]_vars

\* inner_join_keys keeps exactly the common keys, as the comment above it says:
\* "self.keys = intersect(self.keys, other.keys)".
JoinIsIntersection ==
    [][\A other \in OtherMaps : ordered' /\ inner_join_keys(other) => A!InnerJoinKeys(other)]_vars
===============================================================================
