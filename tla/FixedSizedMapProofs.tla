------------------------- MODULE FixedSizedMapProofs --------------------------
(***************************************************************************)
(* Proofs about FixedSizedMap, for every capacity, every set of integer    *)
(* keys and every set of values: the array stays sorted, the binary search *)
(* finds what is there, and the whole implements BoundedMap.               *)
(*                                                                         *)
(* The loops are recursive functions, so that what they compute is shown   *)
(* by induction over the number of rounds.  The induction is one over sets *)
(* of numbers (Ascend); that a recursive function exists at all follows    *)
(* from it (Iterates).                                                     *)
(***************************************************************************)
EXTENDS FixedSizedMap, FiniteSetTheorems, WellFoundedInduction, TLAPS

-------------------------------------------------------------------------------
(* Induction.                                                                *)

\* A set of numbers has a smallest one: of the sets 0..m, one contains no other.
LEMMA LeastNumber ==
    ASSUME NEW T, T \subseteq Nat, T # {}
    PROVE  \E m \in T : \A k \in T : m <= k
<1> DEFINE R == StrictSubsetOrdering(Nat)
           U == {0..m : m \in T}
<1>1. IsWellFoundedOn(R, FiniteSubsetsOf(Nat))
  BY FS_StrictSubsetOrderingWellFounded
<1>2. U \subseteq FiniteSubsetsOf(Nat)
  <2>1. \A m \in Nat : 0..m \subseteq Nat /\ IsFiniteSet(0..m)
    BY FS_Interval
  <2> QED BY <2>1 DEF FiniteSubsetsOf
<1>3. PICK s \in U : \A t \in U : <<t, s>> \notin R
  <2>1. U # {}
    OBVIOUS
  <2> HIDE DEF U, R
  <2> QED BY <1>1, <1>2, <2>1, WFMin
<1>4. PICK m \in T : s = 0..m
  BY <1>3
<1>5. ASSUME NEW k \in T, k < m PROVE FALSE
  <2>1. 0..k \in U /\ m \in Nat /\ k \in Nat
    BY <1>5
  <2>2. 0..k \subseteq 0..m /\ 0..k # 0..m
    <3>1. m \in 0..m /\ m \notin 0..k
      BY <1>5, <2>1
    <3> QED BY <1>5, <2>1, <3>1
  <2>3. <<0..k, 0..m>> \in R
    BY <2>1, <2>2 DEF StrictSubsetOrdering
  <2> QED BY <1>3, <1>4, <2>1, <2>3
<1> QED BY <1>5

\* A set with 0, and with i + 1 whenever it has i, has every number up to n.
LEMMA Ascend ==
    ASSUME NEW n \in Nat, NEW T, 0 \in T, \A i \in 0..n - 1 : i \in T => i + 1 \in T
    PROVE  \A i \in 0..n : i \in T
<1> DEFINE B == {i \in 0..n : i \notin T}
<1> SUFFICES ASSUME B # {} PROVE FALSE
  OBVIOUS
<1>1. B \subseteq Nat
  OBVIOUS
<1>2. PICK m \in B : \A k \in B : m <= k
  <2> HIDE DEF B
  <2> QED BY <1>1, LeastNumber
<1>3. m \in 1..n /\ m - 1 \notin B
  BY <1>2
<1>4. m - 1 \in 0..n-1 /\ m - 1 \in T
  BY <1>3
<1>5. m - 1 + 1 = m
  BY <1>3
<1> QED BY <1>2, <1>4, <1>5

\* n steps on the elements of S, and the states they go through from a.
Steps(n, S) == [1..n -> [S -> S]]
IsRun(g, n, S, a, F) ==
    g \in [0..n -> S] /\ g[0] = a /\ \A i \in 1..n : g[i] = F[i][g[i - 1]]

\* Such a run exists: a function defined by primitive recursion has its values.
LEMMA Iterates ==
    ASSUME NEW n \in Nat, NEW S, NEW a \in S, NEW F \in Steps(n, S)
    PROVE  \E g : IsRun(g, n, S, a, F)
<1>0. F \in [1..n -> [S -> S]]
  BY DEF Steps
<1> DEFINE T == {k \in 0..n : \E g \in [0..k -> S] :
                                 g[0] = a /\ \A i \in 1..k : g[i] = F[i][g[i - 1]]}
<1>1. 0 \in T
  <2> DEFINE g == [i \in 0..0 |-> a]
  <2>1. g \in [0..0 -> S] /\ g[0] = a /\ \A i \in 1..0 : FALSE
    OBVIOUS
  <2> HIDE DEF g
  <2> QED BY <2>1
<1>2. ASSUME NEW k \in 0..n - 1, k \in T PROVE k + 1 \in T
  <2>1. PICK g \in [0..k -> S] : g[0] = a /\ \A i \in 1..k : g[i] = F[i][g[i - 1]]
    BY <1>2
  <2> DEFINE h == [i \in 0..k + 1 |-> IF i = k + 1 THEN F[k + 1][g[k]] ELSE g[i]]
  <2>2. h \in [0..k + 1 -> S]
    <3>1. F[k + 1] \in [S -> S] /\ g[k] \in S
      BY <1>0, <2>1
    <3>2. F[k + 1][g[k]] \in S
      BY <3>1
    <3> QED BY <3>2, <2>1
  <2>3. h[0] = a
    BY <2>1
  <2>4. ASSUME NEW i \in 1..k + 1 PROVE h[i] = F[i][h[i - 1]]
    <3>1. CASE i = k + 1
      <4>1. i - 1 = k /\ k \in 0..k + 1 /\ k # k + 1 /\ i \in 0..k + 1
        BY <3>1
      <4> QED BY <3>1, <4>1
    <3>2. CASE i # k + 1
      <4>1. i \in 1..k /\ i \in 0..k + 1 /\ i - 1 \in 0..k + 1 /\ i - 1 # k + 1
        BY <3>2
      <4> QED BY <2>1, <3>2, <4>1
    <3> QED BY <3>1, <3>2
  <2>5. k + 1 \in 0..n
    OBVIOUS
  <2> HIDE DEF h
  <2> QED BY <2>2, <2>3, <2>4, <2>5
<1>3. \A i \in 0..n : i \in T
  <2> HIDE DEF T
  <2> QED BY <1>1, <1>2, Ascend
<1>4. n \in T
  <2> HIDE DEF T
  <2> QED BY <1>3
<1> QED BY <1>4 DEF IsRun

-------------------------------------------------------------------------------
(* _search.                                                                  *)

\* What binary_search_by still has to look at: at least one slot.
Ranges == {p \in [base : Slots, len : 1..N] : p.base + p.len <= N}

\* A round leaves a range that is smaller, down to one slot.
LEMMA HalveType ==
    ASSUME NEW slice, NEW key, NEW p \in Ranges
    PROVE  /\ Halve(slice, key, p) \in Ranges
           /\ p.len = 1 => Halve(slice, key, p) = p
           /\ p.len # 1 => Halve(slice, key, p).len < p.len
BY ArrayAssumption DEF Ranges, Halve, Slots

\* The rounds of the loop: probed is where the last of them ends.
LEMMA Rounds ==
    ASSUME NEW slice, NEW key
    PROVE  \E f : /\ f[0] = [base |-> 0, len |-> N]
                  /\ \A n \in 1..N : f[n] = Halve(slice, key, f[n - 1])
                  /\ probed(slice, key) = f[N].base
<1> DEFINE Round(f) == [n \in 0..N |-> IF n = 0 THEN [base |-> 0, len |-> N]
                                       ELSE Halve(slice, key, f[n - 1])]
           a == [base |-> 0, len |-> N]
           F == [n \in 1..N |-> [p \in Ranges |-> Halve(slice, key, p)]]
<1>1. a \in Ranges /\ F \in Steps(N, Ranges)
  <2>1. a \in Ranges
    BY ArrayAssumption DEF Ranges, Slots
  <2>2. \A p \in Ranges : Halve(slice, key, p) \in Ranges
    BY HalveType
  <2> QED BY <2>1, <2>2 DEF Steps
<1>2. PICK g : IsRun(g, N, Ranges, a, F)
  <2>1. N \in Nat
    BY ArrayAssumption
  <2> HIDE DEF a, F
  <2> QED BY <1>1, <2>1, Iterates
<1>3. g = Round(g)
  <2>1. \A n \in 0..N : g[n] = IF n = 0 THEN a ELSE Halve(slice, key, g[n - 1])
    <3>1. \A n \in 0..N : n # 0 => n \in 1..N /\ n - 1 \in 0..N
      BY ArrayAssumption
    <3>2. \A n \in 1..N, p \in Ranges : F[n][p] = Halve(slice, key, p)
      OBVIOUS
    <3> HIDE DEF F, a
    <3> QED BY <1>2, <3>1, <3>2 DEF IsRun
  <2> QED BY <1>2, <2>1 DEF IsRun
<1> DEFINE h == CHOOSE f : f = Round(f)
<1>4. h = Round(h)
  <2> HIDE DEF Round
  <2> QED BY <1>3
<1>5. probed(slice, key) = h[N].base
  BY DEF probed
<1>6. h[0] = a /\ \A n \in 1..N : h[n] = Halve(slice, key, h[n - 1])
  <2> HIDE DEF h
  <2> QED BY <1>4, ArrayAssumption
<1> HIDE DEF h
<1> QED BY <1>5, <1>6

\* The loop stays in the array, whatever is in it.
LEMMA ProbedRange ==
    ASSUME NEW slice, NEW key
    PROVE  probed(slice, key) \in Slots
<1>1. PICK f : /\ f[0] = [base |-> 0, len |-> N]
               /\ \A n \in 1..N : f[n] = Halve(slice, key, f[n - 1])
               /\ probed(slice, key) = f[N].base
  BY Rounds
<1> DEFINE T == {n \in 0..N : f[n] \in Ranges}
<1>2. 0 \in T
  BY <1>1, ArrayAssumption DEF Ranges, Slots
<1>3. ASSUME NEW n \in 0..N - 1, n \in T PROVE n + 1 \in T
  <2>1. n + 1 \in 1..N /\ n + 1 - 1 = n
    BY ArrayAssumption
  <2>2. f[n + 1] = Halve(slice, key, f[n])
    BY <1>1, <2>1
  <2> QED BY <1>3, <2>1, <2>2, HalveType
<1>4. N \in T
  <2>1. N \in Nat
    BY ArrayAssumption
  <2> HIDE DEF T
  <2>2. \A n \in 0..N : n \in T
    BY <1>2, <1>3, <2>1, Ascend
  <2> QED BY <2>1, <2>2
<1> QED BY <1>1, <1>4 DEF Ranges

\* Arrays of entries with values in V, and the order SortedPrefix asks for.
Arrays(V) == [Slots -> {Empty} \cup (Keys \X V)]
Sorted(a, n) ==
    /\ \A i \in Slots : a[i] # Empty <=> i < n
    /\ \A i, j \in 0..n - 1 : i < j => a[i][1] < a[j][1]

\* A full slot holds a key and a value.
LEMMA FullSlot ==
    ASSUME NEW V, NEW a \in Arrays(V), NEW i \in Slots, a[i] # Empty
    PROVE  a[i][1] \in Keys /\ a[i][1] \in Int /\ a[i][2] \in V /\ a[i] = <<a[i][1], a[i][2]>>
<1>1. a[i] \in Keys \X V
  BY DEF Arrays
<1>2. \A x \in Keys \X V : x[1] \in Keys /\ x[2] \in V /\ x = <<x[1], x[2]>>
  OBVIOUS
<1> HIDE DEF Empty
<1> QED BY <1>1, <1>2, ArrayAssumption

\* And such a pair is no empty slot.
LEMMA EntryFull == \A k, v : <<k, v>> # Empty
BY DEF Empty

\* A key found is there, even in an array that is not sorted.
LEMMA SearchHit ==
    ASSUME NEW V, NEW a \in Arrays(V), NEW key \in Keys
    PROVE  /\ search(a, key).ok \in BOOLEAN
           /\ search(a, key).ok => /\ search(a, key).index \in Slots
                                   /\ a[search(a, key).index] # Empty
                                   /\ a[search(a, key).index][1] = key
<1> DEFINE i == probed(a, key)
<1>1. i \in Slots
  BY ProbedRange
<1>2. key \in Int /\ (a[i] # Empty => a[i][1] \in Int)
  BY <1>1, FullSlot, ArrayAssumption
<1> HIDE DEF i
<1>3. search(a, key) = CASE Greater(a[i], key) -> [ok |-> FALSE, index |-> i]
                         [] Less(a[i], key)    -> [ok |-> FALSE, index |-> i + 1]
                         [] OTHER              -> [ok |-> TRUE, index |-> i]
  BY DEF search, i
<1> QED BY <1>1, <1>2, <1>3 DEF Greater, Less

\* What the loop of binary_search_by keeps on a sorted array: the slots behind the range
\* are Greater, the first one of the range is not, unless it is slot 0.
Bracketed(a, key, p) ==
    /\ p \in Ranges
    /\ \A i \in Slots : i >= p.base + p.len => Greater(a[i], key)
    /\ p.base = 0 \/ ~Greater(a[p.base], key)

\* On a sorted array, what is behind a slot that is Greater is Greater.
LEMMA GreaterUpwards ==
    ASSUME NEW V, NEW a \in Arrays(V), NEW n \in 0..N, Sorted(a, n), NEW key \in Keys,
           NEW i \in Slots, NEW j \in Slots, i <= j, Greater(a[i], key)
    PROVE  Greater(a[j], key)
<1> SUFFICES ASSUME a[j] # Empty PROVE a[j][1] > key
  BY DEF Greater
<1>1. i < n /\ j < n /\ a[i] # Empty
  BY ArrayAssumption DEF Sorted, Slots
<1>2. a[i][1] > key
  BY <1>1 DEF Greater
<1>3. i = j \/ a[i][1] < a[j][1]
  BY <1>1, ArrayAssumption DEF Sorted, Slots
<1>4. a[i][1] \in Int /\ a[j][1] \in Int /\ key \in Int
  BY <1>1, FullSlot, ArrayAssumption
<1> QED BY <1>2, <1>3, <1>4

\* A round keeps it.
LEMMA HalveBrackets ==
    ASSUME NEW V, NEW a \in Arrays(V), NEW n \in 0..N, Sorted(a, n), NEW key \in Keys,
           NEW p, Bracketed(a, key, p)
    PROVE  Bracketed(a, key, Halve(a, key, p))
<1> DEFINE q == Halve(a, key, p)
           mid == p.base + p.len \div 2
<1>1. p \in Ranges /\ q \in Ranges /\ (p.len = 1 => q = p)
  BY HalveType DEF Bracketed
<1>2. CASE p.len = 1
  BY <1>1, <1>2
<1>3. CASE p.len # 1
  <2>1. mid \in Slots /\ mid > p.base
    BY <1>1, <1>3, ArrayAssumption DEF Ranges, Slots
  <2>2. CASE Greater(a[mid], key)
    <3>1. q = [base |-> p.base, len |-> p.len - p.len \div 2]
      BY <1>3, <2>2 DEF Halve
    <3>2. q.base = p.base /\ q.base + q.len >= mid
      BY <1>1, <3>1 DEF Ranges, Slots
    <3>3. \A i \in Slots : i >= mid => Greater(a[i], key)
      BY <2>1, <2>2, GreaterUpwards DEF Slots
    <3>4. \A i \in Slots : i >= q.base + q.len => i >= mid
      BY <1>1, <2>1, <3>2 DEF Slots, Ranges
    <3> QED BY <1>1, <3>2, <3>3, <3>4 DEF Bracketed
  <2>3. CASE ~Greater(a[mid], key)
    <3>1. q = [base |-> mid, len |-> p.len - p.len \div 2]
      BY <1>3, <2>3 DEF Halve
    <3>2. q.base = mid /\ q.base + q.len = p.base + p.len
      BY <1>1, <3>1 DEF Ranges, Slots
    <3> QED BY <1>1, <3>2, <2>3 DEF Bracketed
  <2> QED BY <2>2, <2>3
<1> QED BY <1>2, <1>3

\* The search ends at the last slot that is not Greater, or at slot 0.
LEMMA ProbedSorted ==
    ASSUME NEW V, NEW a \in Arrays(V), NEW n \in 0..N, Sorted(a, n), NEW key \in Keys
    PROVE  /\ probed(a, key) \in Slots
           /\ \A i \in Slots : i > probed(a, key) => Greater(a[i], key)
           /\ probed(a, key) = 0 \/ ~Greater(a[probed(a, key)], key)
<1>1. PICK f : /\ f[0] = [base |-> 0, len |-> N]
               /\ \A k \in 1..N : f[k] = Halve(a, key, f[k - 1])
               /\ probed(a, key) = f[N].base
  BY Rounds
<1> DEFINE T == {k \in 0..N : Bracketed(a, key, f[k]) /\ (f[k].len = 1 \/ f[k].len <= N - k)}
<1>2. 0 \in T
  <2>1. f[0] \in Ranges
    BY <1>1, ArrayAssumption DEF Ranges, Slots
  <2>2. f[0].base = 0 /\ f[0].len = N
    BY <1>1
  <2>3. \A i \in Slots : ~ (i >= 0 + N)
    BY ArrayAssumption DEF Slots
  <2>4. Bracketed(a, key, f[0])
    BY <2>1, <2>2, <2>3 DEF Bracketed
  <2> QED BY <2>2, <2>4, ArrayAssumption
<1>3. ASSUME NEW k \in 0..N - 1, k \in T PROVE k + 1 \in T
  <2>1. k + 1 \in 1..N /\ k + 1 - 1 = k /\ k + 1 \in 0..N
    BY ArrayAssumption
  <2>2. f[k + 1] = Halve(a, key, f[k])
    BY <1>1, <2>1
  <2>3. Bracketed(a, key, f[k + 1])
    BY <1>3, <2>2, HalveBrackets
  <2>4. f[k] \in Ranges
    BY <1>3 DEF Bracketed
  <2>5. f[k + 1] \in Ranges
    BY <2>3 DEF Bracketed
  <2>6. /\ f[k].len = 1 => f[k + 1].len = 1
        /\ f[k].len # 1 => f[k + 1].len < f[k].len
    BY <2>2, <2>4, HalveType
  <2>7. f[k + 1].len = 1 \/ f[k + 1].len <= N - (k + 1)
    BY <1>3, <2>4, <2>5, <2>6, ArrayAssumption DEF Ranges
  <2> QED BY <2>1, <2>3, <2>7
<1>4. N \in T
  <2>1. N \in Nat
    BY ArrayAssumption
  <2> HIDE DEF T
  <2>2. \A k \in 0..N : k \in T
    BY <1>2, <1>3, <2>1, Ascend
  <2> QED BY <2>1, <2>2
<1>5. Bracketed(a, key, f[N]) /\ f[N] \in Ranges
  BY <1>4 DEF Bracketed
<1>6. f[N].len = 1
  BY <1>4, <1>5, ArrayAssumption DEF Ranges
<1> QED BY <1>1, <1>5, <1>6 DEF Bracketed, Ranges, Slots

\* What _search promises on a sorted array, for every capacity: the slot of the key if it is
\* there, and else the place where it belongs, behind the smaller keys and before the greater.
THEOREM SearchSorted ==
    ASSUME NEW V, NEW a \in Arrays(V), NEW n \in 0..N, Sorted(a, n), NEW key \in Keys
    PROVE  LET r == search(a, key)
           IN /\ r.ok \in BOOLEAN
              /\ r.ok => r.index \in 0..n - 1 /\ a[r.index][1] = key
              /\ ~r.ok => /\ r.index \in 0..n
                          /\ \A i \in 0..n - 1 : i < r.index => a[i][1] < key
                          /\ \A i \in 0..n - 1 : i >= r.index => a[i][1] > key
<1> DEFINE i == probed(a, key)
<1>1. /\ i \in Slots
      /\ \A j \in Slots : j > i => Greater(a[j], key)
      /\ i = 0 \/ ~Greater(a[i], key)
  BY ProbedSorted
<1>2. /\ key \in Int
      /\ \A j \in Slots : j < n => a[j] # Empty /\ a[j][1] \in Int
      /\ \A j \in Slots : a[j] # Empty => j < n
      /\ \A j \in 0..n - 1 : j \in Slots
  BY FullSlot, ArrayAssumption DEF Sorted, Slots
<1> HIDE DEF i
<1>3. search(a, key) = CASE Greater(a[i], key) -> [ok |-> FALSE, index |-> i]
                         [] Less(a[i], key)    -> [ok |-> FALSE, index |-> i + 1]
                         [] OTHER              -> [ok |-> TRUE, index |-> i]
  BY DEF search, i
<1>4. CASE Greater(a[i], key)
  <2>1. search(a, key).ok = FALSE /\ search(a, key).index = 0 /\ i = 0
    <3>1. ~Less(a[i], key)
      BY <1>1, <1>2, <1>4 DEF Greater, Less
    <3> QED BY <1>1, <1>3, <1>4, <3>1
  <2>2. \A j \in 0..n - 1 : Greater(a[j], key)
    BY <1>1, <1>2, <1>4, <2>1 DEF Slots
  <2>3. \A j \in 0..n - 1 : a[j][1] > key
    BY <1>2, <2>2 DEF Greater, Slots
  <2>4. 0 \in 0..n /\ \A j \in 0..n - 1 : ~ (j < 0)
    BY ArrayAssumption
  <2> QED BY <2>1, <2>3, <2>4
<1>5. CASE ~Greater(a[i], key)
  <2>1. i < n /\ a[i] # Empty /\ a[i][1] <= key /\ a[i][1] \in Int /\ i \in 0..n - 1
    BY <1>1, <1>2, <1>5 DEF Greater, Slots
  <2>2. \A j \in 0..n - 1 : j >= i + 1 => a[j][1] > key
    BY <1>1, <1>2, <2>1 DEF Greater, Slots
  <2>3. \A j \in 0..n - 1 : j < i => a[j][1] < a[i][1]
    BY <2>1 DEF Sorted
  <2>4. CASE Less(a[i], key)
    <3>1. search(a, key).ok = FALSE /\ search(a, key).index = i + 1
      BY <1>3, <1>5, <2>4
    <3>2. a[i][1] < key
      BY <2>4 DEF Less
    <3>3. \A j \in 0..n - 1 : j < i + 1 => a[j][1] < key
      BY <1>2, <2>1, <2>3, <3>2
    <3>4. i + 1 \in 0..n
      BY <2>1
    <3> QED BY <2>2, <3>1, <3>3, <3>4
  <2>5. CASE ~Less(a[i], key)
    <3>1. search(a, key).ok = TRUE /\ search(a, key).index = i
      BY <1>3, <1>5, <2>5
    <3>2. a[i][1] = key
      BY <1>2, <2>1, <2>5 DEF Less
    <3> QED BY <2>1, <3>1, <3>2
  <2> QED BY <2>4, <2>5
<1> QED BY <1>4, <1>5

-------------------------------------------------------------------------------
(* _move_within by one slot, the two ways it is called.                      *)

\* swap, slot by slot.
LEMMA SwapIs ==
    ASSUME NEW s, s = [j \in Slots |-> s[j]], NEW x \in Slots, NEW y \in Slots
    PROVE  swap(s, x, y) = [j \in Slots |-> IF j = y THEN s[x] ELSE IF j = x THEN s[y] ELSE s[j]]
BY DEF swap

\* Moving from..to-1 one slot to the left puts what was before the range behind it.
LEMMA MoveLeft ==
    ASSUME NEW V, NEW a \in Arrays(V), NEW from \in 1..N, NEW to \in from..N
    PROVE  move_within(a, from, to, from - 1) =
             [j \in Slots |-> IF j < from - 1 \/ j >= to THEN a[j]
                              ELSE IF j = to - 1 THEN a[from - 1] ELSE a[j + 1]]
<1> DEFINE L(i) == [j \in Slots |-> IF j < from - 1 \/ j >= i THEN a[j]
                                    ELSE IF j = i - 1 THEN a[from - 1] ELSE a[j + 1]]
           Swaps(f) == [i \in from..to |-> IF i = from THEN a
                                           ELSE swap(f[i - 1], i - 1, i - 1 + (0 - 1))]
           g == [i \in from..to |-> L(i)]
           h == CHOOSE f : f = Swaps(f)
<1>0. from \in Nat /\ to \in Nat /\ N \in Nat /\ from - 1 - from = 0 - 1
  BY ArrayAssumption
<1>1. L(from) = a
  BY <1>0 DEF Arrays, Slots
<1>2. \A i \in from + 1..to : L(i) = swap(L(i - 1), i - 1, i - 1 + (0 - 1))
  <2> SUFFICES ASSUME NEW i \in from + 1..to
               PROVE  L(i) = swap(L(i - 1), i - 1, i - 1 + (0 - 1))
    OBVIOUS
  <2>1. i - 1 \in Slots /\ i - 1 + (0 - 1) \in Slots /\ i - 1 + (0 - 1) = i - 2 /\ i \in Nat
    BY <1>0 DEF Slots
  <2>2. L(i - 1) = [j \in Slots |-> L(i - 1)[j]]
    OBVIOUS
  <2>3. swap(L(i - 1), i - 1, i - 2) =
          [j \in Slots |-> IF j = i - 2 THEN L(i - 1)[i - 1]
                           ELSE IF j = i - 1 THEN L(i - 1)[i - 2] ELSE L(i - 1)[j]]
    <3> DEFINE s == L(i - 1)
               k == i - 1
               l == i - 2
    <3>1. s = [j \in Slots |-> s[j]] /\ k \in Slots /\ l \in Slots
      BY <2>1, <2>2
    <3> HIDE DEF s, k, l
    <3>2. swap(s, k, l) = [j \in Slots |-> IF j = l THEN s[k] ELSE IF j = k THEN s[l] ELSE s[j]]
      BY <3>1, SwapIs
    <3> QED BY <3>2 DEF s, k, l
  <2>4. L(i - 1)[i - 1] = a[i - 1] /\ L(i - 1)[i - 2] = a[from - 1]
    BY <1>0, <2>1 DEF Slots
  <2>5. \A j \in Slots : L(i)[j] = IF j = i - 2 THEN a[i - 1]
                           ELSE IF j = i - 1 THEN a[from - 1] ELSE L(i - 1)[j]
    BY <1>0, <2>1 DEF Slots
  <2>6. L(i) = [j \in Slots |-> L(i)[j]]
    OBVIOUS
  <2> HIDE DEF L
  <2> QED BY <2>1, <2>3, <2>4, <2>5, <2>6
<1>3. g = Swaps(g)
  <2>1. \A i \in from..to : i # from => i \in from + 1..to /\ i - 1 \in from..to
    BY <1>0
  <2>2. \A i \in from..to : g[i] = L(i)
    OBVIOUS
  <2> HIDE DEF L
  <2> QED BY <1>1, <1>2, <2>1, <2>2
<1>4. h = Swaps(h)
  <2> HIDE DEF Swaps, g
  <2> QED BY <1>3
<1>5. move_within(a, from, to, from - 1) = h[to]
  <2>1. leftwards(a, from, to, 0 - 1) = h[to]
    BY DEF leftwards
  <2>2. from - 1 - from < 0 /\ ~ (from - 1 - from > 0)
    BY <1>0
  <2>3. move_within(a, from, to, from - 1) = leftwards(a, from, to, from - 1 - from)
    BY <2>2 DEF move_within
  <2> QED BY <1>0, <2>1, <2>3
<1>6. h[to] = L(to)
  <2> DEFINE T == {n \in 0..to - from : h[from + n] = L(from + n)}
  <2> HIDE DEF h, L
  <2>1. 0 \in T
    <3>1. from + 0 = from /\ from \in from..to /\ 0 \in 0..to - from
      BY <1>0
    <3>2. h[from] = a
      BY <1>4, <3>1
    <3> QED BY <1>1, <3>1, <3>2
  <2>2. ASSUME NEW n \in 0..to - from - 1, n \in T PROVE n + 1 \in T
    <3> DEFINE i == from + (n + 1)
    <3>1. i \in from + 1..to /\ i \in from..to /\ i # from /\ i - 1 = from + n /\ n + 1 \in 0..to - from
      BY <1>0
    <3> HIDE DEF i
    <3>2. h[i] = swap(h[i - 1], i - 1, i - 1 + (0 - 1))
      BY <1>4, <3>1
    <3>3. L(i) = swap(L(i - 1), i - 1, i - 1 + (0 - 1))
      BY <1>2, <3>1
    <3>4. h[i] = L(i)
      BY <2>2, <3>1, <3>2, <3>3
    <3> QED BY <3>1, <3>4 DEF i
  <2>3. to - from \in T
    <3>1. to - from \in Nat
      BY <1>0
    <3> HIDE DEF T
    <3>2. \A n \in 0..to - from : n \in T
      BY <2>1, <2>2, <3>1, Ascend
    <3> QED BY <3>1, <3>2
  <2> QED BY <1>0, <2>3
<1> QED BY <1>5, <1>6

\* Moving from..to-1 one slot to the right puts what was behind the range before it.
LEMMA MoveRight ==
    ASSUME NEW V, NEW a \in Arrays(V), NEW to \in 0..N - 1, NEW from \in 0..to
    PROVE  move_within(a, from, to, from + 1) =
             [j \in Slots |-> IF j < from \/ j > to THEN a[j]
                              ELSE IF j = from THEN a[to] ELSE a[j - 1]]
<1> DEFINE R(i) == [j \in Slots |-> IF j < i \/ j > to THEN a[j]
                                    ELSE IF j = i THEN a[to] ELSE a[j - 1]]
           Swaps(f) == [i \in from..to |-> IF i = to THEN a ELSE swap(f[i + 1], i, i + 1)]
           g == [i \in from..to |-> R(i)]
           h == CHOOSE f : f = Swaps(f)
<1>0. from \in Nat /\ to \in Nat /\ N \in Nat /\ from + 1 - from = 1
  BY ArrayAssumption
<1>1. R(to) = a
  BY <1>0 DEF Arrays, Slots
<1>2. \A i \in from..to - 1 : R(i) = swap(R(i + 1), i, i + 1)
  <2> SUFFICES ASSUME NEW i \in from..to - 1
               PROVE  R(i) = swap(R(i + 1), i, i + 1)
    OBVIOUS
  <2>1. i \in Slots /\ i + 1 \in Slots /\ i \in Nat
    BY <1>0 DEF Slots
  <2>2. R(i + 1) = [j \in Slots |-> R(i + 1)[j]]
    OBVIOUS
  <2>3. swap(R(i + 1), i, i + 1) =
          [j \in Slots |-> IF j = i + 1 THEN R(i + 1)[i]
                           ELSE IF j = i THEN R(i + 1)[i + 1] ELSE R(i + 1)[j]]
    <3> DEFINE s == R(i + 1)
               k == i + 1
    <3>1. s = [j \in Slots |-> s[j]] /\ i \in Slots /\ k \in Slots
      BY <2>1, <2>2
    <3> HIDE DEF s, k
    <3>2. swap(s, i, k) = [j \in Slots |-> IF j = k THEN s[i] ELSE IF j = i THEN s[k] ELSE s[j]]
      BY <3>1, SwapIs
    <3> QED BY <3>2 DEF s, k
  <2>4. R(i + 1)[i] = a[i] /\ R(i + 1)[i + 1] = a[to]
    BY <1>0, <2>1 DEF Slots
  <2>5. \A j \in Slots : R(i)[j] = IF j = i + 1 THEN a[i]
                           ELSE IF j = i THEN a[to] ELSE R(i + 1)[j]
    BY <1>0, <2>1 DEF Slots
  <2>6. R(i) = [j \in Slots |-> R(i)[j]]
    OBVIOUS
  <2> HIDE DEF R
  <2> QED BY <2>1, <2>3, <2>4, <2>5, <2>6
<1>3. g = Swaps(g)
  <2>1. \A i \in from..to : i # to => i \in from..to - 1 /\ i + 1 \in from..to
    BY <1>0
  <2>2. \A i \in from..to : g[i] = R(i)
    OBVIOUS
  <2> HIDE DEF R
  <2> QED BY <1>1, <1>2, <2>1, <2>2
<1>4. h = Swaps(h)
  <2> HIDE DEF Swaps, g
  <2> QED BY <1>3
<1>5. move_within(a, from, to, from + 1) = h[from]
  <2>1. rightwards(a, from, to, 1) = h[from]
    BY DEF rightwards
  <2>2. from + 1 - from > 0 /\ ~ (from + 1 - from < 0)
    BY <1>0
  <2>3. move_within(a, from, to, from + 1) = rightwards(a, from, to, from + 1 - from)
    BY <2>2 DEF move_within
  <2> QED BY <1>0, <2>1, <2>3
<1>6. h[from] = R(from)
  <2> DEFINE T == {n \in 0..to - from : h[to - n] = R(to - n)}
  <2> HIDE DEF h, R
  <2>1. 0 \in T
    <3>1. to - 0 = to /\ to \in from..to /\ 0 \in 0..to - from
      BY <1>0
    <3>2. h[to] = a
      BY <1>4, <3>1
    <3> QED BY <1>1, <3>1, <3>2
  <2>2. ASSUME NEW n \in 0..to - from - 1, n \in T PROVE n + 1 \in T
    <3> DEFINE i == to - (n + 1)
    <3>1. i \in from..to - 1 /\ i \in from..to /\ i # to /\ i + 1 = to - n /\ n + 1 \in 0..to - from
      BY <1>0
    <3> HIDE DEF i
    <3>2. h[i] = swap(h[i + 1], i, i + 1)
      BY <1>4, <3>1
    <3>3. R(i) = swap(R(i + 1), i, i + 1)
      BY <1>2, <3>1
    <3>4. h[i] = R(i)
      BY <2>2, <3>1, <3>2, <3>3
    <3> QED BY <3>1, <3>4 DEF i
  <2>3. to - from \in T
    <3>1. to - from \in Nat
      BY <1>0
    <3> HIDE DEF T
    <3>2. \A n \in 0..to - from : n \in T
      BY <2>1, <2>2, <3>1, Ascend
    <3> QED BY <3>1, <3>2
  <2> QED BY <1>0, <2>3
<1> QED BY <1>5, <1>6

-------------------------------------------------------------------------------
(* The array after an insertion and after a removal.                         *)

\* set_default stores the entry at the insertion point, and the array stays sorted.
LEMMA Inserted ==
    ASSUME NEW V, NEW a \in Arrays(V), NEW n \in 0..N - 1, Sorted(a, n),
           NEW key \in Keys, NEW val \in V, ~search(a, key).ok,
           NEW b, b = [move_within(a, search(a, key).index, n, search(a, key).index + 1)
                          EXCEPT ![search(a, key).index] = <<key, val>>]
    PROVE  /\ search(a, key).index \in 0..n
           /\ b = [j \in Slots |-> IF j < search(a, key).index THEN a[j]
                                   ELSE IF j = search(a, key).index THEN <<key, val>>
                                   ELSE IF j <= n THEN a[j - 1] ELSE a[j]]
           /\ b \in Arrays(V)
           /\ Sorted(b, n + 1)
<1> DEFINE x == search(a, key).index
           c == [j \in Slots |-> IF j < x THEN a[j] ELSE IF j = x THEN <<key, val>>
                                   ELSE IF j <= n THEN a[j - 1] ELSE a[j]]
<1>0. N \in Nat /\ n \in 0..N /\ n \in Nat
  BY ArrayAssumption
<1>1. /\ x \in 0..n
      /\ \A i \in 0..n - 1 : i < x => a[i][1] < key
      /\ \A i \in 0..n - 1 : i >= x => a[i][1] > key
  BY <1>0, SearchSorted
<1> HIDE DEF x
<1>2. b = c
  <2>1. move_within(a, x, n, x + 1) =
             [j \in Slots |-> IF j < x \/ j > n THEN a[j]
                              ELSE IF j = x THEN a[n] ELSE a[j - 1]]
    BY <1>1, MoveRight
  <2>2. b = [move_within(a, x, n, x + 1) EXCEPT ![x] = <<key, val>>]
    BY DEF x
  <2>3. x \in Slots /\ x \in Nat
    BY <1>0, <1>1 DEF Slots
  <2> DEFINE m == move_within(a, x, n, x + 1)
  <2>4. m = [j \in Slots |-> m[j]] /\ \A j \in Slots : j # x => m[j] = c[j]
    <3>1. m = [j \in Slots |-> IF j < x \/ j > n THEN a[j]
                              ELSE IF j = x THEN a[n] ELSE a[j - 1]]
      BY <2>1
    <3>2. x \in Int /\ n \in Int /\ \A j \in Slots : j \in Int
      BY <1>0, <2>3 DEF Slots
    <3> HIDE DEF m
    <3>3. \A j \in Slots : j # x => m[j] = c[j]
      BY <1>1, <3>1, <3>2
    <3> QED BY <3>1, <3>3
  <2> HIDE DEF m
  <2>5. b = [j \in Slots |-> IF j = x THEN <<key, val>> ELSE m[j]]
    BY <2>2, <2>3, <2>4 DEF m
  <2>6. c[x] = <<key, val>>
    BY <2>3
  <2>7. c = [j \in Slots |-> c[j]]
    OBVIOUS
  <2> HIDE DEF c
  <2> QED BY <2>3, <2>4, <2>5, <2>6, <2>7
<1>3. c \in Arrays(V)
  <2>1. \A j \in Slots : j > x => j - 1 \in Slots
    BY <1>0, <1>1 DEF Slots
  <2>2. <<key, val>> \in Keys \X V
    OBVIOUS
  <2>3. x \in Int /\ \A j \in Slots : j \in Int
    BY <1>1 DEF Slots
  <2> QED BY <2>1, <2>2, <2>3 DEF Arrays
<1>4. Sorted(c, n + 1)
  <2>1. \A j \in Slots : c[j] # Empty <=> j < n + 1
    <3>1. \A j \in Slots : a[j] # Empty <=> j < n
      BY DEF Sorted
    <3>2. <<key, val>> # Empty
      BY EntryFull
    <3> QED BY <1>0, <1>1, <3>1, <3>2 DEF Slots
  <2>2. \A i, j \in 0..n : i < j => c[i][1] < c[j][1]
    <3>1. \A i, j \in 0..n - 1 : i < j => a[i][1] < a[j][1]
      BY DEF Sorted
    <3>2. \A i \in 0..n : i \in Slots
      BY <1>0 DEF Slots
    <3>3. \A i \in 0..n : c[i][1] = IF i < x THEN a[i][1] ELSE IF i = x THEN key ELSE a[i - 1][1]
      BY <1>0, <1>1, <3>2
    <3> HIDE DEF c
    <3> QED BY <1>0, <1>1, <3>1, <3>3
  <2>3. 0..n + 1 - 1 = 0..n
    BY <1>0
  <2> HIDE DEF c
  <2> QED BY <2>1, <2>2, <2>3 DEF Sorted
<1> QED BY <1>1, <1>2, <1>3, <1>4 DEF x

\* The array of n entries without the one in slot x.
CloseGap(a, n, x) ==
    [j \in Slots |-> IF j < x THEN a[j] ELSE IF j < n - 1 THEN a[j + 1] ELSE Empty]

\* remove closes the gap, and the array stays sorted.
LEMMA Removed ==
    ASSUME NEW V, NEW a \in Arrays(V), NEW n \in 0..N, Sorted(a, n), NEW x \in 0..n - 1,
           NEW b, b = [move_within([a EXCEPT ![x] = Empty], x + 1, n, x)
                          EXCEPT ![n - 1] = Empty]
    PROVE  /\ b = CloseGap(a, n, x)
           /\ b \in Arrays(V)
           /\ Sorted(b, n - 1)
<1> DEFINE c == [j \in Slots |-> IF j < x THEN a[j] ELSE IF j < n - 1 THEN a[j + 1] ELSE Empty]
           t == [a EXCEPT ![x] = Empty]
<1>0. N \in Nat /\ n \in Nat /\ x \in Slots /\ x \in Nat /\ n - 1 \in Slots /\ x + 1 - 1 = x
  BY ArrayAssumption DEF Slots
<1>1. t \in Arrays(V) /\ \A j \in Slots : t[j] = IF j = x THEN Empty ELSE a[j]
  BY <1>0 DEF Arrays
<1>2. b = c
  <2>1. move_within(t, x + 1, n, x + 1 - 1) =
             [j \in Slots |-> IF j < x + 1 - 1 \/ j >= n THEN t[j]
                              ELSE IF j = n - 1 THEN t[x + 1 - 1] ELSE t[j + 1]]
    <3> HIDE DEF t
    <3>1. x + 1 \in 1..N /\ n \in x + 1..N
      BY <1>0
    <3> QED BY <1>1, <3>1, MoveLeft
  <2>2. \A j \in Slots : j >= n => a[j] = Empty
    BY <1>0 DEF Sorted, Slots
  <2>3. b = [move_within(t, x + 1, n, x) EXCEPT ![n - 1] = Empty]
    OBVIOUS
  <2> DEFINE m == move_within(t, x + 1, n, x)
  <2> HIDE DEF t
  <2>4. m = [j \in Slots |-> m[j]] /\ \A j \in Slots : j # n - 1 => m[j] = c[j]
    <3>1. m = [j \in Slots |-> IF j < x \/ j >= n THEN t[j]
                              ELSE IF j = n - 1 THEN t[x] ELSE t[j + 1]]
      BY <1>0, <2>1
    <3>2. \A j \in Slots : j < n - 1 => j + 1 \in Slots
      BY <1>0 DEF Slots
    <3> HIDE DEF m
    <3> QED BY <1>0, <1>1, <2>2, <3>1, <3>2 DEF Slots
  <2> HIDE DEF m
  <2>5. b = [j \in Slots |-> IF j = n - 1 THEN Empty ELSE m[j]]
    BY <1>0, <2>3, <2>4 DEF m
  <2>6. c[n - 1] = Empty
    BY <1>0
  <2>7. c = [j \in Slots |-> c[j]]
    OBVIOUS
  <2> HIDE DEF c
  <2> QED BY <1>0, <2>4, <2>5, <2>6, <2>7
<1>3. c \in Arrays(V)
  <2>1. \A j \in Slots : j < n - 1 => j + 1 \in Slots
    BY <1>0 DEF Slots
  <2> QED BY <1>0, <2>1 DEF Arrays
<1>4. Sorted(c, n - 1)
  <2>1. \A j \in Slots : c[j] # Empty <=> j < n - 1
    <3>1. \A j \in Slots : a[j] # Empty <=> j < n
      BY DEF Sorted
    <3> QED BY <1>0, <3>1 DEF Slots
  <2>2. \A i, j \in 0..n - 2 : i < j => c[i][1] < c[j][1]
    <3>1. \A i, j \in 0..n - 1 : i < j => a[i][1] < a[j][1]
      BY DEF Sorted
    <3>2. \A i \in 0..n - 2 : i \in Slots
      BY <1>0 DEF Slots
    <3>3. \A i \in 0..n - 2 : c[i][1] = IF i < x THEN a[i][1] ELSE a[i + 1][1]
      BY <1>0, <3>2
    <3> HIDE DEF c
    <3> QED BY <1>0, <3>1, <3>3
  <2>3. n - 1 - 1 = n - 2
    BY <1>0
  <2> QED BY <2>1, <2>2, <2>3 DEF Sorted
<1> QED BY <1>2, <1>3, <1>4 DEF CloseGap

-------------------------------------------------------------------------------
(* inner_join_keys.                                                          *)

\* The keys of the other map, numbered in ascending order.
LEMMA OtherItems ==
    ASSUME NEW S \in SUBSET Keys, IsFiniteSet(S)
    PROVE  /\ Cardinality(S) \in Nat
           /\ \A i \in 0..Cardinality(S) - 1 : other_item(S, i) \in S
           /\ \A i, j \in 0..Cardinality(S) - 1 : i < j => other_item(S, i) < other_item(S, j)
           /\ \A k \in S : \E i \in 0..Cardinality(S) - 1 : other_item(S, i) = k
<1> DEFINE Below(k) == {j \in S : j < k}
           n == Cardinality(S)
           rank == [k \in S |-> Cardinality(Below(k))]
<1>0. n \in Nat /\ S \subseteq Int
  BY FS_CardinalityType, ArrayAssumption
<1>1. \A k \in S : IsFiniteSet(Below(k)) /\ Cardinality(Below(k)) \in 0..n - 1
  <2> SUFFICES ASSUME NEW k \in S
               PROVE  IsFiniteSet(Below(k)) /\ Cardinality(Below(k)) \in 0..n - 1
    OBVIOUS
  <2>1. Below(k) \in SUBSET S /\ Below(k) # S
    BY <1>0
  <2> HIDE DEF Below
  <2>2. /\ IsFiniteSet(Below(k)) /\ Cardinality(Below(k)) <= n
        /\ n = Cardinality(Below(k)) => S = Below(k)
    BY <2>1, FS_Subset
  <2>3. Cardinality(Below(k)) \in Nat
    BY <2>2, FS_CardinalityType
  <2> QED BY <1>0, <2>1, <2>2, <2>3
<1>2. \A k, l \in S : k < l => Cardinality(Below(k)) < Cardinality(Below(l))
  <2> SUFFICES ASSUME NEW k \in S, NEW l \in S, k < l
               PROVE  Cardinality(Below(k)) < Cardinality(Below(l))
    OBVIOUS
  <2>1. Below(k) \in SUBSET Below(l) /\ k \in Below(l) /\ k \notin Below(k)
    <3>1. k \in Int /\ l \in Int /\ \A j \in S : j \in Int
      BY <1>0
    <3>2. \A j \in S : j < k => j < l
      BY <3>1
    <3>3. Below(k) \subseteq Below(l)
      BY <3>2
    <3>4. k \in Below(l) /\ k \notin Below(k)
      BY <3>1
    <3> QED BY <3>3, <3>4
  <2> HIDE DEF Below, n
  <2>2. /\ Cardinality(Below(k)) <= Cardinality(Below(l))
        /\ Cardinality(Below(l)) = Cardinality(Below(k)) => Below(l) = Below(k)
    BY <1>1, <2>1, FS_Subset
  <2>3. Cardinality(Below(k)) \in Int /\ Cardinality(Below(l)) \in Int
    BY <1>1
  <2> QED BY <2>1, <2>2, <2>3
<1>3. rank \in [S -> 0..n - 1] /\ \A k, l \in S : rank[k] = rank[l] => k = l
  <2>1. \A k, l \in S : k = l \/ k < l \/ l < k
    BY <1>0
  <2>2. \A k \in S : rank[k] = Cardinality(Below(k)) /\ rank[k] \in 0..n - 1
    BY <1>1
  <2> HIDE DEF Below, n
  <2>3. \A k, l \in S : k < l => rank[k] < rank[l]
    BY <1>2, <2>2
  <2>4. rank \in [S -> 0..n - 1]
    BY <2>2
  <2> HIDE DEF rank
  <2>5. \A k, l \in S : rank[k] = rank[l] => ~ (k < l)
    BY <1>0, <2>2, <2>3
  <2> QED BY <2>1, <2>4, <2>5
<1>4. rank \in Surjection(S, 0..n - 1)
  <2>1. rank \in Injection(S, 0..n - 1)
    <3> HIDE DEF rank, n
    <3> QED BY <1>3 DEF Injection, IsInjective
  <2>2. IsFiniteSet(0..n - 1) /\ Cardinality(0..n - 1) = n
    <3>1. 0 \in Int /\ n - 1 \in Int
      BY <1>0
    <3>2. /\ IsFiniteSet(0..n - 1)
          /\ Cardinality(0..n - 1) = IF 0 > n - 1 THEN 0 ELSE n - 1 - 0 + 1
      <4> HIDE DEF n
      <4> QED BY <3>1, FS_Interval
    <3> QED BY <1>0, <3>2
  <2> HIDE DEF rank
  <2> QED BY <2>1, <2>2, FS_Injection
<1>5. \A i \in 0..n - 1 : \E k \in S : Cardinality(Below(k)) = i
  <2>1. \A i \in 0..n - 1 : \E k \in S : rank[k] = i
    <3> HIDE DEF rank, n
    <3> QED BY <1>4 DEF Surjection
  <2> HIDE DEF Below
  <2> QED BY <2>1
<1>6. \A i \in 0..n - 1 : other_item(S, i) \in S /\ Cardinality(Below(other_item(S, i))) = i
  <2> SUFFICES ASSUME NEW i \in 0..n - 1
               PROVE  other_item(S, i) \in S /\ Cardinality(Below(other_item(S, i))) = i
    OBVIOUS
  <2>1. other_item(S, i) = CHOOSE k \in S : Cardinality(Below(k)) = i
    BY DEF other_item
  <2> HIDE DEF Below
  <2> QED BY <1>5, <2>1
<1> HIDE DEF Below, n
<1>7. \A i, j \in 0..n - 1 : i < j => other_item(S, i) < other_item(S, j)
  <2> SUFFICES ASSUME NEW i \in 0..n - 1, NEW j \in 0..n - 1, i < j
               PROVE  other_item(S, i) < other_item(S, j)
    OBVIOUS
  <2>1. /\ other_item(S, i) \in S /\ Cardinality(Below(other_item(S, i))) = i
        /\ other_item(S, j) \in S /\ Cardinality(Below(other_item(S, j))) = j
    BY <1>6
  <2>2. ~ (other_item(S, j) < other_item(S, i)) /\ other_item(S, j) # other_item(S, i)
    <3>1. ~ (j < i) /\ i # j
      BY <1>0
    <3> QED BY <1>2, <2>1, <3>1
  <2>3. other_item(S, i) \in Int /\ other_item(S, j) \in Int
    BY <1>0, <2>1
  <2> QED BY <2>2, <2>3
<1>8. \A k \in S : \E i \in 0..n - 1 : other_item(S, i) = k
  <2> SUFFICES ASSUME NEW k \in S PROVE \E i \in 0..n - 1 : other_item(S, i) = k
    OBVIOUS
  <2> DEFINE i == Cardinality(Below(k))
  <2>1. i \in 0..n - 1
    BY <1>1
  <2>2. other_item(S, i) \in S /\ Cardinality(Below(other_item(S, i))) = i
    BY <1>6, <2>1
  <2>3. ~ (other_item(S, i) < k) /\ ~ (k < other_item(S, i))
    <3>1. ~ (i < i)
      BY <1>0, <2>1
    <3> QED BY <1>2, <2>2, <3>1
  <2>4. other_item(S, i) \in Int /\ k \in Int
    BY <1>0, <2>2
  <2>5. other_item(S, i) = k
    BY <2>3, <2>4
  <2> QED BY <2>1, <2>5
<1> QED BY <1>0, <1>6, <1>7, <1>8 DEF n

\* After the first i keys of other: entries have only been taken out of our array, and
\* the result holds entries of ours under keys of other, in ascending order.  As long as
\* the result is empty nothing was taken out, so that no common key has been missed.
Joining(a, n, S, V, i, p) ==
    /\ p \in [ours : Arrays(V), result : Arrays(V), written : 0..i]
    /\ \A s \in Slots : p.ours[s] \in {Empty, a[s]}
    /\ \A s \in Slots : p.result[s] # Empty <=> s < p.written
    /\ \A s \in 0..p.written - 1 : /\ \E t \in 0..n - 1 : p.result[s] = a[t]
                                   /\ \E l \in 0..i - 1 : p.result[s][1] = other_item(S, l)
    /\ \A s, t \in 0..p.written - 1 : s < t => p.result[s][1] < p.result[t][1]
    /\ p.written = 0 => p.ours = a
    /\ \A l \in 0..i - 1 : (\E t \in 0..n - 1 : a[t][1] = other_item(S, l))
                               => p.written > 0 /\ p.result[0][1] <= other_item(S, l)

\* The steps of the loop are functions from states of it to states of it.
LEMMA TakeIntoType ==
    ASSUME NEW V, NEW p \in [ours : Arrays(V), result : Arrays(V), written : Nat],
           NEW key \in Keys
    PROVE  /\ TakeInto(p, key) \in [ours : Arrays(V), result : Arrays(V), written : Nat]
           /\ ~search(p.ours, key).ok => TakeInto(p, key) = p
           /\ search(p.ours, key).ok =>
                /\ TakeInto(p, key).ours = [p.ours EXCEPT ![search(p.ours, key).index] = Empty]
                /\ TakeInto(p, key).result =
                      [p.result EXCEPT ![p.written] = p.ours[search(p.ours, key).index]]
                /\ TakeInto(p, key).written = p.written + 1
<1> DEFINE r == search(p.ours, key)
<1>1. CASE ~r.ok
  BY <1>1 DEF TakeInto
<1>2. CASE r.ok
  <2>1. r.index \in Slots
    BY <1>2, SearchHit
  <2>2. TakeInto(p, key) = [ours |-> [p.ours EXCEPT ![r.index] = Empty],
                     result |-> [p.result EXCEPT ![p.written] = p.ours[r.index]],
                     written |-> p.written + 1]
    BY <1>2 DEF TakeInto
  <2> HIDE DEF r
  <2>3. [p.ours EXCEPT ![r.index] = Empty] \in Arrays(V)
    BY DEF Arrays
  <2>4. [p.result EXCEPT ![p.written] = p.ours[r.index]] \in Arrays(V)
    BY <2>1 DEF Arrays
  <2>5. TakeInto(p, key) \in [ours : Arrays(V), result : Arrays(V), written : Nat]
    BY <2>2, <2>3, <2>4
  <2> QED BY <1>2, <2>2, <2>5 DEF r
<1> QED BY <1>1, <1>2

\* One more key of other.
LEMMA JoinStep ==
    ASSUME NEW V, NEW a \in Arrays(V), NEW n \in 0..N, Sorted(a, n),
           NEW S \in SUBSET Keys, IsFiniteSet(S), Cardinality(S) <= N,
           NEW i \in 0..Cardinality(S) - 1,
           NEW p, Joining(a, n, S, V, i, p)
    PROVE  Joining(a, n, S, V, i + 1, TakeInto(p, other_item(S, i)))
<1> DEFINE key == other_item(S, i)
           q == TakeInto(p, key)
           r == search(p.ours, key)
<1>0. /\ N \in Nat /\ n \in Nat /\ i \in Nat /\ i < N
      /\ key \in S /\ key \in Keys /\ key \in Int
      /\ \A l \in 0..i - 1 : other_item(S, l) < key /\ other_item(S, l) \in Int
  <2>1. Cardinality(S) \in Nat /\ N \in Nat
    BY OtherItems, ArrayAssumption
  <2>2. key \in S /\ \A l \in 0..i - 1 : other_item(S, l) < key /\ other_item(S, l) \in S
    BY <2>1, OtherItems
  <2>3. i \in Nat /\ i < N /\ n \in Nat
    BY <2>1
  <2>4. \A k \in S : k \in Keys /\ k \in Int
    BY ArrayAssumption
  <2> HIDE DEF key
  <2> QED BY <2>1, <2>2, <2>3, <2>4
<1>1. /\ p.ours \in Arrays(V) /\ p.result \in Arrays(V) /\ p.written \in 0..i
      /\ p \in [ours : Arrays(V), result : Arrays(V), written : Nat]
  BY <1>0 DEF Joining
<1>2. q \in [ours : Arrays(V), result : Arrays(V), written : Nat]
  BY <1>0, <1>1, TakeIntoType
<1> DEFINE Common(l) == \E t \in 0..n - 1 : a[t][1] = other_item(S, l)
<1>3. /\ \A s \in Slots : p.ours[s] \in {Empty, a[s]}
      /\ \A s \in Slots : p.result[s] # Empty <=> s < p.written
      /\ \A s \in 0..p.written - 1 : \E t \in 0..n - 1 : p.result[s] = a[t]
      /\ \A s \in 0..p.written - 1 : \E l \in 0..i - 1 : p.result[s][1] = other_item(S, l)
      /\ \A s, t \in 0..p.written - 1 : s < t => p.result[s][1] < p.result[t][1]
      /\ p.written = 0 => p.ours = a
      /\ \A l \in 0..i - 1 : Common(l) => p.written > 0 /\ p.result[0][1] <= other_item(S, l)
  BY DEF Joining
<1>4. \A s \in 0..p.written - 1 : p.result[s][1] < key /\ p.result[s][1] \in Int
  BY <1>0, <1>3
<1>5. 0..i + 1 - 1 = 0..i /\ \A l \in 0..i : l = i \/ l \in 0..i - 1
  BY <1>0
<1>6. \A l \in 0..i - 1 : l \in 0..i
  BY <1>0
<1> SUFFICES Joining(a, n, S, V, i + 1, q)
  OBVIOUS
<1>7. CASE ~r.ok
  <2>1. q = p
    BY <1>0, <1>1, <1>7, TakeIntoType
  <2>2. Common(i) => p.written > 0
    <3>1. ASSUME p.written = 0, NEW t \in 0..n - 1, a[t][1] = key PROVE FALSE
      <4>1. ~search(a, key).ok
        BY <1>3, <1>7, <3>1
      <4>2. a[t][1] < key \/ a[t][1] > key
        BY <1>0, <4>1, SearchSorted
      <4> QED BY <1>0, <3>1, <4>2
    <3> QED BY <1>1, <3>1
  <2>3. p.written > 0 => p.result[0][1] <= key
    BY <1>0, <1>1, <1>4
  <2>4. \A l \in 0..i : Common(l) => p.written > 0 /\ p.result[0][1] <= other_item(S, l)
    BY <1>3, <1>5, <2>2, <2>3
  <2>5. p \in [ours : Arrays(V), result : Arrays(V), written : 0..i + 1]
    BY <1>0, <1>1
  <2> HIDE DEF q, key
  <2> QED BY <1>3, <1>5, <1>6, <2>1, <2>4, <2>5 DEF Joining
<1>8. CASE r.ok
  <2> DEFINE x == r.index
             w == p.written
  <2>1. /\ q.ours = [p.ours EXCEPT ![x] = Empty]
        /\ q.result = [p.result EXCEPT ![w] = p.ours[x]]
        /\ q.written = w + 1
    BY <1>0, <1>1, <1>8, TakeIntoType
  <2>2. x \in Slots /\ p.ours[x] # Empty /\ p.ours[x][1] = key
    BY <1>0, <1>1, <1>8, SearchHit
  <2> HIDE DEF r, x, q, key
  <2>3. p.ours[x] = a[x] /\ a[x][1] = key /\ x \in 0..n - 1
    <3>1. p.ours[x] = a[x]
      BY <1>3, <2>2
    <3> QED BY <1>0, <2>2, <3>1 DEF Sorted, Slots
  <2>4. w \in Slots /\ w \in Nat /\ w <= i
    BY <1>0, <1>1 DEF Slots
  <2>5. \A s \in Slots : q.result[s] = IF s = w THEN a[x] ELSE p.result[s]
    BY <1>1, <2>1, <2>3, <2>4 DEF Arrays
  <2>6. \A s \in Slots : q.ours[s] = IF s = x THEN Empty ELSE p.ours[s]
    BY <1>1, <2>1 DEF Arrays
  <2>7. 0..w + 1 - 1 = 0..w /\ \A s \in 0..w : s \in Slots /\ (s = w \/ s \in 0..w - 1)
    BY <1>0, <2>4 DEF Slots
  <2>8. \A s \in 0..w - 1 : s # w /\ s \in 0..w
    BY <2>4
  <2> HIDE DEF w
  <2>9. \A s \in Slots : q.result[s] # Empty <=> s < w + 1
    <3>1. a[x] # Empty
      BY <2>2, <2>3
    <3> QED BY <1>3, <2>4, <2>5, <3>1 DEF Slots, w
  <2>10. \A s \in 0..w : \E t \in 0..n - 1 : q.result[s] = a[t]
    BY <1>3, <2>3, <2>5, <2>7 DEF w
  <2>11. \A s \in 0..w : \E l \in 0..i : q.result[s][1] = other_item(S, l)
    <3>1. i \in 0..i
      BY <1>0
    <3> QED BY <1>3, <1>6, <2>3, <2>5, <2>7, <2>8, <3>1 DEF w, key
  <2>12. \A s, t \in 0..w : s < t => q.result[s][1] < q.result[t][1]
    <3> SUFFICES ASSUME NEW s \in 0..w, NEW t \in 0..w, s < t
                 PROVE  q.result[s][1] < q.result[t][1]
      OBVIOUS
    <3>1. s \in 0..w - 1
      BY <2>4
    <3>2. q.result[s] = p.result[s]
      BY <2>5, <2>7, <2>8, <3>1
    <3>3. CASE t = w
      <4>1. q.result[t][1] = key
        BY <2>3, <2>4, <2>5, <3>3
      <4> QED BY <1>4, <3>1, <3>2, <4>1 DEF w
    <3>4. CASE t \in 0..w - 1
      <4>1. q.result[t] = p.result[t]
        BY <2>5, <2>7, <2>8, <3>4
      <4> QED BY <1>3, <3>1, <3>2, <3>4, <4>1 DEF w
    <3> QED BY <2>7, <3>3, <3>4
  <2>13. \A l \in 0..i : Common(l) => q.result[0][1] <= other_item(S, l)
    <3>1. CASE w = 0
      <4>1. q.result[0][1] = key /\ key <= key
        BY <1>0, <2>3, <2>4, <2>5, <3>1
      <4>2. \A l \in 0..i - 1 : ~Common(l)
        BY <1>3, <3>1 DEF w
      <4> QED BY <1>5, <4>1, <4>2 DEF key
    <3>2. CASE w # 0
      <4>1. w > 0 /\ 0 \in 0..w - 1 /\ 0 \in Slots
        BY <1>0, <2>4, <3>2 DEF Slots
      <4>2. q.result[0] = p.result[0]
        BY <2>5, <3>2, <4>1
      <4>3. p.result[0][1] <= key
        BY <1>0, <1>4, <4>1 DEF w
      <4> QED BY <1>3, <1>5, <4>2, <4>3 DEF key
    <3> QED BY <3>1, <3>2
  <2>14. q \in [ours : Arrays(V), result : Arrays(V), written : 0..i + 1]
    <3>1. q.written \in 0..i + 1
      BY <1>0, <2>1, <2>4
    <3> QED BY <1>2, <3>1 DEF q
  <2>15. \A s \in Slots : q.ours[s] \in {Empty, a[s]}
    BY <1>3, <2>6
  <2>16. q.written > 0 /\ q.written # 0
    BY <2>1, <2>4
  <2>17. 0..q.written - 1 = 0..w /\ \A s \in Slots : q.result[s] # Empty <=> s < q.written
    <3>1. q.written = w + 1 /\ w + 1 - 1 = w
      BY <2>1, <2>4 DEF w
    <3>2. q.written - 1 = w
      BY <2>4, <3>1
    <3> HIDE DEF Empty
    <3> QED BY <2>9, <3>1, <3>2
  <2> HIDE DEF Common
  <2>18. \A s \in 0..q.written - 1 : /\ \E t \in 0..n - 1 : q.result[s] = a[t]
                                   /\ \E l \in 0..i + 1 - 1 : q.result[s][1] = other_item(S, l)
    BY <1>5, <2>10, <2>11, <2>17
  <2>19. \A l \in 0..i + 1 - 1 : Common(l) => q.written > 0 /\ q.result[0][1] <= other_item(S, l)
    BY <1>5, <2>13, <2>16
  <2>20. \A s, t \in 0..q.written - 1 : s < t => q.result[s][1] < q.result[t][1]
    BY <2>12, <2>17
  <2> QED BY <2>14, <2>15, <2>16, <2>17, <2>18, <2>19, <2>20 DEF Joining, Common
<1> QED BY <1>7, <1>8

\* What inner_join_keys has collected in the end.
LEMMA JoinedAll ==
    ASSUME NEW V, NEW a \in Arrays(V), NEW n \in 0..N, Sorted(a, n),
           NEW S \in SUBSET Keys, IsFiniteSet(S), Cardinality(S) <= N
    PROVE  Joining(a, n, S, V, Cardinality(S), joined(a, S))
<1> DEFINE m == Cardinality(S)
           P == [ours : Arrays(V), result : Arrays(V), written : Nat]
           z == [ours |-> a, result |-> EmptyArray, written |-> 0]
           F == [i \in 1..m |-> [p \in P |-> TakeInto(p, other_item(S, i - 1))]]
           Round(f) == [i \in 0..m |-> IF i = 0 THEN z
                                       ELSE TakeInto(f[i - 1], other_item(S, i - 1))]
           h == CHOOSE f : f = Round(f)
<1>0. m \in Nat /\ EmptyArray \in Arrays(V) /\ \A s \in Slots : EmptyArray[s] = Empty
  BY OtherItems DEF EmptyArray, Arrays
<1>1. z \in P /\ F \in Steps(m, P)
  <2>1. \A i \in 1..m, p \in P : TakeInto(p, other_item(S, i - 1)) \in P
    <3> SUFFICES ASSUME NEW i \in 1..m, NEW p \in P
                 PROVE  TakeInto(p, other_item(S, i - 1)) \in P
      OBVIOUS
    <3>1. i - 1 \in 0..m - 1
      BY <1>0
    <3>2. other_item(S, i - 1) \in Keys
      BY <3>1, OtherItems
    <3> QED BY <3>2, TakeIntoType
  <2> HIDE DEF P
  <2>2. F \in Steps(m, P)
    BY <2>1 DEF Steps
  <2> QED BY <1>0, <2>2 DEF P
<1>2. PICK g : IsRun(g, m, P, z, F)
  <2> HIDE DEF P, z, F, m
  <2> QED BY <1>0, <1>1, Iterates
<1>3. g = Round(g)
  <2>1. \A i \in 0..m : g[i] = IF i = 0 THEN z ELSE TakeInto(g[i - 1], other_item(S, i - 1))
    <3>1. \A i \in 0..m : i # 0 => i \in 1..m /\ i - 1 \in 0..m
      BY <1>0
    <3>2. \A i \in 1..m, p \in P : F[i][p] = TakeInto(p, other_item(S, i - 1))
      OBVIOUS
    <3> HIDE DEF F, z, P, m
    <3> QED BY <1>2, <3>1, <3>2 DEF IsRun
  <2> HIDE DEF F, z, P, m
  <2> QED BY <1>2, <2>1 DEF IsRun
<1>4. h = Round(h)
  <2> HIDE DEF Round
  <2> QED BY <1>3
<1>5. joined(a, S) = h[m]
  BY DEF joined
<1> HIDE DEF h
<1>6. h[0] = z /\ \A i \in 1..m : h[i] = TakeInto(h[i - 1], other_item(S, i - 1))
  <2> HIDE DEF z
  <2> QED BY <1>0, <1>4
<1> DEFINE T == {i \in 0..m : Joining(a, n, S, V, i, h[i])}
<1>7. 0 \in T
  <2>1. \A s \in Slots : ~ (s < 0)
    BY DEF Slots
  <2>2. Joining(a, n, S, V, 0, z)
    BY <1>0, <2>1 DEF Joining
  <2> QED BY <1>0, <1>6, <2>2
<1>8. ASSUME NEW i \in 0..m - 1, i \in T PROVE i + 1 \in T
  <2>1. i + 1 \in 1..m /\ i + 1 - 1 = i /\ i + 1 \in 0..m
    BY <1>0
  <2>2. h[i + 1] = TakeInto(h[i], other_item(S, i))
    BY <1>6, <2>1
  <2>3. Joining(a, n, S, V, i + 1, h[i + 1])
    BY <1>8, <2>2, JoinStep
  <2> QED BY <2>1, <2>3
<1>9. m \in T
  <2> HIDE DEF T, m
  <2>1. \A i \in 0..m : i \in T
    BY <1>0, <1>7, <1>8, Ascend
  <2> QED BY <1>0, <2>1
<1> QED BY <1>5, <1>9

\* The first w entries of b are entries of a under keys of S, the smallest common key among
\* them.
JoinedFrom(a, n, S, b, w) ==
    /\ \A s \in 0..w - 1 : b[s][1] \in S /\ \E t \in 0..n - 1 : b[s] = a[t]
    /\ \A t \in 0..n - 1 : a[t][1] \in S => w > 0 /\ b[0][1] <= a[t][1]

\* inner_join_keys leaves a sorted array of entries it had before, under keys of other,
\* and the smallest key in both is among them.
LEMMA Joined ==
    ASSUME NEW V, NEW a \in Arrays(V), NEW n \in 0..N, Sorted(a, n),
           NEW S \in SUBSET Keys, IsFiniteSet(S), Cardinality(S) <= N,
           NEW b, b = [i \in Slots |->
                         CASE i < joined(a, S).written -> joined(a, S).result[i]
                           [] i >= joined(a, S).written /\ i < n -> Empty
                           [] OTHER -> joined(a, S).ours[i]]
    PROVE  /\ joined(a, S).written \in 0..N
           /\ b \in Arrays(V)
           /\ Sorted(b, joined(a, S).written)
           /\ JoinedFrom(a, n, S, b, joined(a, S).written)
<1> DEFINE p == joined(a, S)
           w == p.written
<1>0. N \in Nat /\ n \in Nat /\ Cardinality(S) \in Nat
  BY ArrayAssumption, OtherItems
<1>1. Joining(a, n, S, V, Cardinality(S), p)
  BY JoinedAll
<1> HIDE DEF p
<1>2. /\ p.ours \in Arrays(V) /\ p.result \in Arrays(V) /\ w \in 0..N /\ w \in Nat
      /\ \A s \in Slots : p.ours[s] \in {Empty, a[s]}
      /\ \A s \in Slots : p.result[s] # Empty <=> s < w
      /\ \A s \in 0..w - 1 : \E t \in 0..n - 1 : p.result[s] = a[t]
      /\ \A s \in 0..w - 1 : \E l \in 0..Cardinality(S) - 1 : p.result[s][1] = other_item(S, l)
      /\ \A s, t \in 0..w - 1 : s < t => p.result[s][1] < p.result[t][1]
      /\ \A l \in 0..Cardinality(S) - 1 : (\E t \in 0..n - 1 : a[t][1] = other_item(S, l))
                               => w > 0 /\ p.result[0][1] <= other_item(S, l)
  BY <1>0, <1>1 DEF Joining
<1>3. b = [i \in Slots |-> CASE i < w -> p.result[i]
                             [] i >= w /\ i < n -> Empty
                             [] OTHER -> p.ours[i]]
  BY DEF p
<1>4. \A i \in Slots : b[i] = IF i < w THEN p.result[i] ELSE Empty
  <2> SUFFICES ASSUME NEW i \in Slots PROVE b[i] = IF i < w THEN p.result[i] ELSE Empty
    OBVIOUS
  <2>1. i \in Int /\ w \in Int /\ n \in Int
    BY <1>0, <1>2 DEF Slots
  <2>2. CASE i < w
    <3>1. ~ (i >= w)
      BY <2>1, <2>2
    <3> QED BY <1>3, <2>2, <3>1
  <2>3. CASE ~ (i < w) /\ i < n
    <3>1. i >= w
      BY <2>1, <2>3
    <3> QED BY <1>3, <2>3, <3>1
  <2>4. CASE ~ (i < w) /\ ~ (i < n)
    <3>1. a[i] = Empty
      BY <2>4 DEF Sorted
    <3>2. b[i] = p.ours[i]
      BY <1>3, <2>4
    <3> QED BY <1>2, <2>4, <3>1, <3>2
  <2> QED BY <2>2, <2>3, <2>4
<1> HIDE DEF w
<1>5. \A s \in 0..w - 1 : s \in Slots /\ s < w
  BY <1>0, <1>2 DEF Slots
<1>6. b \in Arrays(V)
  <2>1. b = [i \in Slots |-> b[i]]
    BY <1>3
  <2>2. \A i \in Slots : p.result[i] \in {Empty} \cup (Keys \X V)
    BY <1>2 DEF Arrays
  <2> QED BY <1>4, <2>1, <2>2 DEF Arrays
<1>7. Sorted(b, w)
  BY <1>2, <1>4, <1>5 DEF Sorted
<1>8. \A s \in 0..w - 1 : b[s][1] \in S /\ \E t \in 0..n - 1 : b[s] = a[t]
  <2>1. \A l \in 0..Cardinality(S) - 1 : other_item(S, l) \in S
    BY OtherItems
  <2> QED BY <1>2, <1>4, <1>5, <2>1
<1>9. \A t \in 0..n - 1 : a[t][1] \in S => w > 0 /\ b[0][1] <= a[t][1]
  <2> SUFFICES ASSUME NEW t \in 0..n - 1, a[t][1] \in S
               PROVE  w > 0 /\ b[0][1] <= a[t][1]
    OBVIOUS
  <2>1. PICK l \in 0..Cardinality(S) - 1 : other_item(S, l) = a[t][1]
    BY OtherItems
  <2>2. w > 0 /\ p.result[0][1] <= a[t][1]
    BY <1>2, <2>1
  <2>3. 0 \in Slots /\ 0 < w
    BY <1>0, <1>2, <2>2 DEF Slots
  <2> QED BY <1>4, <2>2, <2>3
<1>10. JoinedFrom(a, n, S, b, w)
  BY <1>8, <1>9 DEF JoinedFrom
<1> QED BY <1>2, <1>6, <1>7, <1>10 DEF p, w

-------------------------------------------------------------------------------
(* SortedPrefix is an invariant.                                             *)

MapInv == TypeOK /\ InOrder

\* The same for the array and the length of any state.
LEMMA MapInvIs ==
    /\ MapInv <=> items \in Arrays(Vals) /\ size \in 0..N /\ Sorted(items, size)
    /\ MapInv' <=> items' \in Arrays(Vals) /\ size' \in 0..N /\ Sorted(items', size')
BY DEF MapInv, TypeOK, InOrder, Arrays, Sorted

\* The entries in the slots X get the value v.
WithValue(a, X, v) == [i \in Slots |-> IF i \in X THEN <<a[i][1], v>> ELSE a[i]]

\* edit_fn changes values, never a key or the place of an entry.
LEMMA Edited ==
    ASSUME NEW V, NEW a \in Arrays(V), NEW n \in 0..N, Sorted(a, n), NEW X \in SUBSET (0..n - 1),
           NEW v \in V
    PROVE  WithValue(a, X, v) \in Arrays(V) /\ Sorted(WithValue(a, X, v), n)
<1> DEFINE b == [i \in Slots |-> IF i \in X THEN <<a[i][1], v>> ELSE a[i]]
<1>0. n \in Nat /\ N \in Nat /\ \A i \in 0..n - 1 : i \in Slots /\ i < n
  BY ArrayAssumption DEF Slots
<1>1. \A i \in X : a[i] # Empty /\ a[i][1] \in Keys /\ a[i][1] \in Int
  BY <1>0, FullSlot DEF Sorted
<1>2. b \in Arrays(V)
  BY <1>0, <1>1 DEF Arrays
<1>3. \A i \in Slots : b[i] # Empty <=> a[i] # Empty
  BY <1>1, EntryFull
<1>4. \A i \in 0..n - 1 : b[i][1] = a[i][1]
  BY <1>0
<1>5. WithValue(a, X, v) = b
  BY DEF WithValue
<1> HIDE DEF Empty, b
<1> QED BY <1>2, <1>3, <1>4, <1>5 DEF Sorted

\* set_default, whatever it returns.
LEMMA SetDefaultSorts ==
    ASSUME MapInv, NEW k \in Keys, NEW v \in Vals, set_default(k, v)
    PROVE  MapInv'
<1>1. items \in Arrays(Vals) /\ size \in 0..N /\ Sorted(items, size) /\ N \in Nat
  BY MapInvIs, ArrayAssumption
<1>2. CASE UNCHANGED <<items, size>>
  BY <1>1, <1>2, MapInvIs
<1>3. CASE /\ ~search(items, k).ok
           /\ size # N
           /\ items' = [move_within(items, search(items, k).index, size, search(items, k).index + 1)
                           EXCEPT ![search(items, k).index] = <<k, v>>]
           /\ size' = size + 1
  <2>1. size \in 0..N - 1
    BY <1>1, <1>3
  <2>2. items' \in Arrays(Vals) /\ Sorted(items', size + 1)
    BY <1>1, <1>3, <2>1, Inserted
  <2>3. size' \in 0..N
    BY <1>1, <1>3, <2>1
  <2> QED BY <1>3, <2>2, <2>3, MapInvIs
<1> QED BY <1>2, <1>3 DEF set_default

\* edit.
LEMMA EditSorts ==
    ASSUME MapInv, NEW k \in Keys, NEW v \in Vals, edit(k, v)
    PROVE  MapInv'
<1>1. items \in Arrays(Vals) /\ size \in 0..N /\ Sorted(items, size) /\ N \in Nat
  BY MapInvIs, ArrayAssumption
<1> DEFINE x == search(items, k).index
<1>2. CASE search(items, k).ok
  <2>1. x \in 0..size - 1 /\ x \in Slots
    BY <1>1, <1>2, SearchSorted DEF Slots
  <2> HIDE DEF x
  <2>2. items' = [items EXCEPT ![x] = <<items[x][1], v>>] /\ size' = size
    BY <1>2 DEF edit, x
  <2> DEFINE X == {x}
  <2>3. X \in SUBSET (0..size - 1)
    BY <2>1
  <2>4. items' = WithValue(items, X, v)
    BY <1>1, <2>1, <2>2 DEF Arrays, WithValue
  <2> HIDE DEF X
  <2>5. items' \in Arrays(Vals) /\ Sorted(items', size)
    BY <1>1, <2>3, <2>4, Edited
  <2> QED BY <1>1, <2>2, <2>5, MapInvIs
<1>3. CASE ~search(items, k).ok
  <2>1. UNCHANGED <<items, size>>
    BY <1>3 DEF edit
  <2> QED BY <1>1, <2>1, MapInvIs
<1> QED BY <1>2, <1>3

\* remove.
LEMMA RemoveSorts ==
    ASSUME MapInv, NEW k \in Keys, remove(k)
    PROVE  MapInv'
<1>1. items \in Arrays(Vals) /\ size \in 0..N /\ Sorted(items, size) /\ N \in Nat
  BY MapInvIs, ArrayAssumption
<1> DEFINE x == search(items, k).index
<1>2. CASE search(items, k).ok
  <2>1. x \in 0..size - 1
    BY <1>1, <1>2, SearchSorted
  <2>2. /\ items' = [move_within([items EXCEPT ![x] = Empty], x + 1, size, x)
                        EXCEPT ![size - 1] = Empty]
        /\ size' = size - 1
    BY <1>2 DEF remove
  <2> HIDE DEF x
  <2>3. items' \in Arrays(Vals) /\ Sorted(items', size - 1)
    BY <1>1, <2>1, <2>2, Removed
  <2>4. size' \in 0..N
    BY <1>1, <2>1, <2>2
  <2> QED BY <2>2, <2>3, <2>4, MapInvIs
<1>3. CASE ~search(items, k).ok
  <2>1. UNCHANGED <<items, size>>
    BY <1>3 DEF remove
  <2> QED BY <1>1, <2>1, MapInvIs
<1> QED BY <1>2, <1>3

\* map_edit and map_edit_batches: the order is the edit function's business.
LEMMA EditPrefixSorts ==
    ASSUME MapInv, NEW n \in 0..size, NEW new \in [0..n - 1 -> {Empty} \cup (Keys \X Vals)],
           EditPrefix(n, new), InOrder'
    PROVE  MapInv'
<1>1. items \in Arrays(Vals) /\ size \in 0..N /\ N \in Nat /\ n \in Nat
  BY MapInvIs, ArrayAssumption
<1>2. \A i \in Slots : i < n => i \in 0..n - 1
  BY <1>1 DEF Slots
<1>3. items' \in Arrays(Vals) /\ size' = size
  BY <1>1, <1>2 DEF EditPrefix, Arrays
<1> QED BY <1>1, <1>3 DEF MapInv, TypeOK, Arrays

\* One that stores v in every entry it is given keeps the order.
LEMMA ValueEditSorts ==
    ASSUME MapInv, NEW n \in 0..size, NEW v \in Vals,
           EditPrefix(n, [i \in 0..n - 1 |-> <<items[i][1], v>>])
    PROVE  MapInv'
<1>1. items \in Arrays(Vals) /\ size \in 0..N /\ Sorted(items, size) /\ N \in Nat
  BY MapInvIs, ArrayAssumption
<1> DEFINE X == 0..n - 1
<1>2. items' = WithValue(items, X, v)
  <2>1. \A i \in Slots : i < n <=> i \in 0..n - 1
    BY <1>1 DEF Slots
  <2> QED BY <2>1 DEF EditPrefix, WithValue
<1>3. X \in SUBSET (0..size - 1)
  BY <1>1
<1> HIDE DEF X
<1>4. items' \in Arrays(Vals) /\ Sorted(items', size)
  BY <1>1, <1>2, <1>3, Edited
<1>5. size' = size
  BY DEF EditPrefix
<1> QED BY <1>1, <1>4, <1>5, MapInvIs

\* A call of map_edit or of map_edit_batches that keeps the order does not panic.
LEMMA EditCallIs ==
    ASSUME MapInv, EditCalls
    PROVE  \E n \in 0..size : \E new \in [0..n - 1 -> {Empty} \cup (Keys \X Vals)] :
              EditPrefix(n, new) /\ ret' = A!Unit
<1>1. size \in 0..N /\ N \in Nat /\ size \in Nat /\ \A i \in Slots : i < size => items[i] # Empty
  BY ArrayAssumption DEF MapInv, TypeOK, InOrder
<1>2. PICK n \in 0..N :
        \/ \E new \in [0..n - 1 -> Keys \X Vals] : map_edit(n, new)
        \/ \E new \in [0..n - 1 -> {Empty} \cup (Keys \X Vals)] : map_edit_batches(n, new)
  BY DEF EditCalls
<1>3. ASSUME NEW new \in [0..n - 1 -> Keys \X Vals], map_edit(n, new)
      PROVE  n \in 0..size /\ EditPrefix(n, new) /\ ret' = A!Unit
  <2>1. n < size => items[n] # Empty
    BY <1>1 DEF Slots
  <2> QED BY <1>3, <2>1 DEF map_edit
<1>4. ASSUME NEW new \in [0..n - 1 -> {Empty} \cup (Keys \X Vals)], map_edit_batches(n, new)
      PROVE  n \in 0..size /\ EditPrefix(n, new) /\ ret' = A!Unit
  <2>1. \A b : StopsAfter(b) \subseteq 0..size
    BY DEF StopsAfter
  <2> QED BY <1>4, <2>1 DEF map_edit_batches
<1>5. \A f : f \in [0..n - 1 -> Keys \X Vals] => f \in [0..n - 1 -> {Empty} \cup (Keys \X Vals)]
  OBVIOUS
<1> QED BY <1>2, <1>3, <1>4, <1>5

\* inner_join_keys.
LEMMA JoinSorts ==
    ASSUME MapInv, NEW S \in OtherMaps, inner_join_keys(S)
    PROVE  MapInv'
<1>1. items \in Arrays(Vals) /\ size \in 0..N /\ Sorted(items, size) /\ N \in Nat
  BY MapInvIs, ArrayAssumption
<1>2. S \in SUBSET Keys /\ IsFiniteSet(S) /\ Cardinality(S) <= N
  BY DEF OtherMaps
<1>3. /\ items' = [i \in Slots |->
                         CASE i < joined(items, S).written -> joined(items, S).result[i]
                           [] i >= joined(items, S).written /\ i < size -> Empty
                           [] OTHER -> joined(items, S).ours[i]]
      /\ size' = joined(items, S).written
  BY DEF inner_join_keys
<1>4. items' \in Arrays(Vals) /\ size' \in 0..N /\ Sorted(items', size')
  BY <1>1, <1>2, <1>3, Joined
<1> QED BY <1>4, MapInvIs

\* A call that lends no entry to an edit function.
LEMMA CallSorts ==
    ASSUME MapInv, Calls
    PROVE  MapInv'
<1>1. ASSUME UNCHANGED <<items, size>> PROVE MapInv'
  BY <1>1, MapInvIs
<1>2. CASE \E k \in Keys, v \in Vals : set_default(k, v)
  BY <1>2, SetDefaultSorts
<1>3. CASE \E k \in Keys, v \in Vals : edit(k, v)
  BY <1>3, EditSorts
<1>4. CASE \E k \in Keys : read(k)
  BY <1>1, <1>4 DEF read
<1>5. CASE \E k \in Keys : remove(k)
  BY <1>5, RemoveSorts
<1>6. CASE \E v \in Vals : find(v)
  BY <1>1, <1>6 DEF find
<1>7. CASE \E other \in OtherMaps : inner_join_keys(other)
  BY <1>7, JoinSorts
<1> QED BY <1>2, <1>3, <1>4, <1>5, <1>6, <1>7 DEF Calls

\* The invariant: up to the first edit function that breaks the order.
LawInv == ordered \in BOOLEAN /\ (ordered => MapInv)

LEMMA LawInvariance == Spec => []LawInv
<1>1. Init => LawInv
  <2> SUFFICES ASSUME Init
               PROVE  items \in Arrays(Vals) /\ size \in 0..N /\ Sorted(items, size)
    BY MapInvIs DEF Init, LawInv
  <2>1. items = [i \in Slots |-> Empty] /\ size = 0
    BY DEF Init, EmptyArray
  <2>2. 0 \in 0..N /\ \A i \in Slots : ~ (i < 0)
    BY ArrayAssumption DEF Slots
  <2> QED BY <2>1, <2>2 DEF Arrays, Sorted
<1>2. LawInv /\ [Next]_vars => LawInv'
  <2> SUFFICES ASSUME LawInv, [Next]_vars PROVE LawInv'
    OBVIOUS
  <2>1. CASE Calls /\ UNCHANGED ordered
    BY <2>1, CallSorts DEF LawInv
  <2>2. CASE EditCalls /\ ordered' = (ordered /\ InOrder')
    <3>1. ordered' \in BOOLEAN
      BY <2>2
    <3>2. ASSUME ordered' PROVE MapInv'
      <4>1. ordered /\ InOrder' /\ MapInv
        BY <2>2, <3>2 DEF LawInv
      <4> QED BY <2>2, <4>1, EditCallIs, EditPrefixSorts
    <3> QED BY <3>1, <3>2 DEF LawInv
  <2>3. CASE UNCHANGED vars
    <3>1. UNCHANGED <<items, size, ordered>>
      BY <2>3 DEF vars
    <3> QED BY <3>1, MapInvIs DEF LawInv
  <2> QED BY <2>1, <2>2, <2>3 DEF Next
<1> QED BY <1>1, <1>2, PTL DEF Spec

\* As long as no edit function has broken the order the array is a sorted prefix of entries
\* of its type: the binary search, the moves by one slot and the join rest on it and keep it,
\* whatever the keys, the values and the capacity are.
THEOREM SortedCorrect == Spec => []((ordered => TypeOK) /\ SortedPrefix)
<1>1. LawInv => (ordered => TypeOK) /\ SortedPrefix
  BY DEF LawInv, MapInv, SortedPrefix
<1> QED BY <1>1, LawInvariance, PTL

-------------------------------------------------------------------------------
(* The array implements BoundedMap.                                          *)

\* No key is there twice: the map of a sorted array gives every entry's value.
LEMMA MapFacts ==
    ASSUME NEW V, NEW a \in Arrays(V), NEW n \in 0..N, Sorted(a, n)
    PROVE  /\ DOMAIN MapOf(a, n) = KeysOf(a, n)
           /\ MapOf(a, n) = [k \in KeysOf(a, n) |-> MapOf(a, n)[k]]
           /\ KeysOf(a, n) \subseteq Keys
           /\ \A i \in 0..n - 1 : /\ a[i][1] \in KeysOf(a, n)
                                  /\ MapOf(a, n)[a[i][1]] = a[i][2]
<1>0. /\ N \in Nat /\ n \in Nat
      /\ \A i \in 0..n - 1 : i \in Slots /\ a[i] # Empty
      /\ \A i \in 0..n - 1 : a[i][1] \in Int /\ a[i][1] \in Keys
  <2>1. N \in Nat /\ n \in Nat /\ \A i \in 0..n - 1 : i \in Slots /\ i < n
    BY ArrayAssumption DEF Slots
  <2>2. \A i \in 0..n - 1 : a[i] # Empty
    BY <2>1 DEF Sorted
  <2> QED BY <2>1, <2>2, FullSlot
<1> DEFINE E == {a[i] : i \in 0..n - 1}
<1>1. \A p, q \in E : p[1] = q[1] => p = q
  <2> SUFFICES ASSUME NEW i \in 0..n - 1, NEW j \in 0..n - 1, a[i][1] = a[j][1]
               PROVE  a[i] = a[j]
    OBVIOUS
  <2>1. i = j \/ i < j \/ j < i
    BY <1>0
  <2>2. /\ i < j => a[i][1] < a[j][1]
        /\ j < i => a[j][1] < a[i][1]
    BY DEF Sorted
  <2>3. ~ (i < j) /\ ~ (j < i)
    BY <1>0, <2>2
  <2> QED BY <2>1, <2>3
<1>2. /\ MapOf(a, n) = [k \in KeysOf(a, n) |-> (CHOOSE p \in E : p[1] = k)[2]]
  BY DEF MapOf
<1>3. \A i \in 0..n - 1 : a[i][1] \in KeysOf(a, n) /\ a[i] \in E
  BY DEF KeysOf
<1>4. KeysOf(a, n) \subseteq Keys
  BY <1>0 DEF KeysOf
<1> HIDE DEF E
<1>5. \A i \in 0..n - 1 : (CHOOSE p \in E : p[1] = a[i][1]) = a[i]
  BY <1>1, <1>3
<1>6. \A i \in 0..n - 1 : MapOf(a, n)[a[i][1]] = a[i][2]
  <2> SUFFICES ASSUME NEW i \in 0..n - 1 PROVE MapOf(a, n)[a[i][1]] = a[i][2]
    OBVIOUS
  <2>1. MapOf(a, n)[a[i][1]] = (CHOOSE p \in E : p[1] = a[i][1])[2]
    BY <1>2, <1>3
  <2> QED BY <1>5, <2>1
<1> QED BY <1>2, <1>3, <1>4, <1>6

\* It is the only map that does.
LEMMA MapUnique ==
    ASSUME NEW V, NEW a \in Arrays(V), NEW n \in 0..N, Sorted(a, n),
           NEW f, f = [k \in KeysOf(a, n) |-> f[k]], \A i \in 0..n - 1 : f[a[i][1]] = a[i][2]
    PROVE  MapOf(a, n) = f
<1>1. \A k \in KeysOf(a, n) : \E i \in 0..n - 1 : k = a[i][1]
  BY DEF KeysOf
<1>2. \A k \in KeysOf(a, n) : MapOf(a, n)[k] = f[k]
  BY <1>1, MapFacts
<1> QED BY <1>2, MapFacts

\* The search finds exactly the keys of the map.
LEMMA KeyFound ==
    ASSUME NEW V, NEW a \in Arrays(V), NEW n \in 0..N, Sorted(a, n), NEW key \in Keys
    PROVE  /\ search(a, key).ok <=> key \in KeysOf(a, n)
           /\ search(a, key).ok => MapOf(a, n)[key] = a[search(a, key).index][2]
<1> DEFINE r == search(a, key)
<1>1. /\ r.ok \in BOOLEAN
      /\ r.ok => r.index \in 0..n - 1 /\ a[r.index][1] = key
      /\ ~r.ok => \A i \in 0..n - 1 : a[i][1] < key \/ a[i][1] > key
  <2>1. /\ r.ok \in BOOLEAN
        /\ r.ok => r.index \in 0..n - 1 /\ a[r.index][1] = key
        /\ ~r.ok => /\ r.index \in 0..n
                    /\ \A i \in 0..n - 1 : i < r.index => a[i][1] < key
                    /\ \A i \in 0..n - 1 : i >= r.index => a[i][1] > key
    BY SearchSorted
  <2> QED BY <2>1
<1> HIDE DEF r
<1>2. key \in Int /\ \A i \in 0..n - 1 : a[i][1] \in Int
  BY MapFacts, ArrayAssumption
<1>3. ~r.ok => key \notin KeysOf(a, n)
  BY <1>1, <1>2 DEF KeysOf
<1> QED BY <1>1, <1>3, MapFacts DEF r

\* len is the number of keys.
LEMMA KeyCount ==
    ASSUME NEW V, NEW a \in Arrays(V), NEW n \in 0..N, Sorted(a, n)
    PROVE  IsFiniteSet(KeysOf(a, n)) /\ Cardinality(KeysOf(a, n)) = n
<1> DEFINE f == [i \in 0..n - 1 |-> a[i][1]]
<1>0. N \in Nat /\ n \in Nat /\ \A i \in 0..n - 1 : a[i][1] \in Int
  BY ArrayAssumption, MapFacts
<1>1. f \in [0..n - 1 -> KeysOf(a, n)] /\ \A k \in KeysOf(a, n) : \E i \in 0..n - 1 : f[i] = k
  BY DEF KeysOf
<1>2. \A i, j \in 0..n - 1 : f[i] = f[j] => i = j
  <2> SUFFICES ASSUME NEW i \in 0..n - 1, NEW j \in 0..n - 1, a[i][1] = a[j][1] PROVE i = j
    OBVIOUS
  <2>1. /\ i < j => a[i][1] < a[j][1]
        /\ j < i => a[j][1] < a[i][1]
    BY DEF Sorted
  <2>2. ~ (i < j) /\ ~ (j < i)
    BY <1>0, <2>1
  <2> QED BY <1>0, <2>2
<1> HIDE DEF f
<1>3. f \in Bijection(0..n - 1, KeysOf(a, n))
  BY <1>1, <1>2 DEF Bijection, Injection, Surjection, IsInjective
<1>4. ExistsBijection(0..n - 1, KeysOf(a, n))
  BY <1>3 DEF ExistsBijection
<1>5. IsFiniteSet(0..n - 1) /\ Cardinality(0..n - 1) = n
  <2>1. 0 \in Int /\ n - 1 \in Int
    BY <1>0
  <2>2. /\ IsFiniteSet(0..n - 1)
        /\ Cardinality(0..n - 1) = IF 0 > n - 1 THEN 0 ELSE n - 1 - 0 + 1
    BY <2>1, FS_Interval
  <2> QED BY <1>0, <2>2
<1> QED BY <1>4, <1>5, FS_Bijection

-------------------------------------------------------------------------------
(* Every call is a call of BoundedMap.                                       *)

\* Cardinality in BoundedMap is that of FiniteSets.
LEMMA SameCardinality == \A S : A!Cardinality(S) = Cardinality(S)
BY DEF Cardinality, A!Cardinality

\* read.
LEMMA ReadImplements ==
    ASSUME MapInv, NEW k \in Keys, read(k)
    PROVE  A!Read(k)
<1>1. items \in Arrays(Vals) /\ size \in 0..N /\ Sorted(items, size)
  BY MapInvIs
<1>2. /\ search(items, k).ok <=> k \in DOMAIN MapOf(items, size)
      /\ search(items, k).ok => MapOf(items, size)[k] = items[search(items, k).index][2]
  BY <1>1, KeyFound, MapFacts
<1>3. MapOf(items, size)' = MapOf(items, size)
  BY DEF read
<1> QED BY <1>2, <1>3 DEF read, A!Read

\* set_default: it meets the key, a full map, or stores the entry.
LEMMA SetDefaultImplements ==
    ASSUME MapInv, NEW k \in Keys, NEW v \in Vals, set_default(k, v)
    PROVE  A!SetDefault(k, v)
<1>1. /\ items \in Arrays(Vals) /\ size \in 0..N /\ Sorted(items, size) /\ N \in Nat
      /\ items' \in Arrays(Vals) /\ size' \in 0..N /\ Sorted(items', size')
  BY SetDefaultSorts, MapInvIs, ArrayAssumption
<1>2. /\ search(items, k).ok <=> k \in DOMAIN MapOf(items, size)
      /\ DOMAIN MapOf(items, size) = KeysOf(items, size)
      /\ Cardinality(DOMAIN MapOf(items, size)) = size
  BY <1>1, KeyFound, MapFacts, KeyCount
<1> DEFINE x == search(items, k).index
           map == MapOf(items, size)
<1>3. CASE search(items, k).ok /\ ret' = A!Ok(FALSE) /\ UNCHANGED <<items, size>>
  BY <1>2, <1>3 DEF A!SetDefault
<1>4. CASE ~search(items, k).ok /\ size = N /\ ret' = A!TooManyPending /\ UNCHANGED <<items, size>>
  <2>1. MapOf(items, size)' = MapOf(items, size)
    BY <1>4
  <2>2. k \notin DOMAIN map /\ Cardinality(DOMAIN map) = N
    BY <1>2, <1>4
  <2> QED BY <1>4, <2>1, <2>2, SameCardinality DEF A!SetDefault
<1>5. CASE /\ ~search(items, k).ok
           /\ size # N
           /\ items' = [move_within(items, x, size, x + 1) EXCEPT ![x] = <<k, v>>]
           /\ size' = size + 1
           /\ ret' = A!Ok(TRUE)
  <2>1. size \in 0..N - 1 /\ size < N /\ size \in Nat
    BY <1>1, <1>5
  <2>2. /\ x \in 0..size
        /\ items' = [j \in Slots |-> IF j < x THEN items[j] ELSE IF j = x THEN <<k, v>>
                                     ELSE IF j <= size THEN items[j - 1] ELSE items[j]]
    BY <1>1, <1>5, <2>1, Inserted
  <2> HIDE DEF x
  <2>3. \A j \in 0..size : j \in Slots /\ j \in Int
    BY <1>1, <2>1 DEF Slots
  <2>4. /\ \A j \in 0..size : items'[j] = IF j < x THEN items[j] ELSE IF j = x THEN <<k, v>>
                                           ELSE items[j - 1]
        /\ 0..size' - 1 = 0..size
    BY <1>5, <2>1, <2>2, <2>3
  <2> DEFINE f == [j \in DOMAIN map \cup {k} |-> IF j = k THEN v ELSE map[j]]
  <2>5. \A i \in 0..size - 1 : items[i][1] \in KeysOf(items, size) /\ map[items[i][1]] = items[i][2]
    BY <1>1, MapFacts
  <2>6. \A i \in 0..size : i < x => i \in 0..size - 1
    BY <2>1, <2>2
  <2>7. \A i \in 0..size : ~ (i < x) /\ i # x => i - 1 \in 0..size - 1
    BY <2>1, <2>2
  <2>8. \A i \in 0..size - 1 : \/ i \in 0..size /\ i < x
                               \/ i + 1 \in 0..size /\ ~ (i + 1 < x) /\ i + 1 # x /\ i + 1 - 1 = i
    BY <2>1, <2>2
  <2>9. KeysOf(items', size') = DOMAIN map \cup {k}
    <3>1. \A i \in 0..size : items'[i][1] \in KeysOf(items, size) \cup {k}
      BY <2>4, <2>5, <2>6, <2>7
    <3>2. \A i \in 0..size - 1 : \E j \in 0..size : items[i][1] = items'[j][1]
      <4> SUFFICES ASSUME NEW i \in 0..size - 1
                   PROVE  \E j \in 0..size : items[i][1] = items'[j][1]
        OBVIOUS
      <4>1. CASE i \in 0..size /\ i < x
        BY <2>4, <4>1
      <4>2. CASE i + 1 \in 0..size /\ ~ (i + 1 < x) /\ i + 1 # x /\ i + 1 - 1 = i
        BY <2>4, <4>2
      <4> QED BY <2>8, <4>1, <4>2
    <3>3. items'[x][1] = k /\ x \in 0..size
      BY <2>2, <2>3, <2>4
    <3>4. KeysOf(items', size') = {items'[i][1] : i \in 0..size}
      BY <2>4 DEF KeysOf
    <3>5. \A y \in KeysOf(items, size) : \E i \in 0..size - 1 : y = items[i][1]
      BY DEF KeysOf
    <3> HIDE DEF map
    <3> QED BY <1>2, <3>1, <3>2, <3>3, <3>4, <3>5 DEF map
  <2>10. \A i \in 0..size : f[items'[i][1]] = items'[i][2]
    <3> SUFFICES ASSUME NEW i \in 0..size PROVE f[items'[i][1]] = items'[i][2]
      OBVIOUS
    <3> HIDE DEF map
    <3>0. k \notin KeysOf(items, size) /\ DOMAIN map = KeysOf(items, size)
      BY <1>2, <1>5 DEF map
    <3>1. CASE i = x
      BY <2>3, <2>4, <3>1
    <3>2. CASE i < x
      BY <2>4, <2>5, <2>6, <3>0, <3>2
    <3>3. CASE ~ (i < x) /\ i # x
      BY <2>4, <2>5, <2>7, <3>0, <3>3
    <3> QED BY <3>1, <3>2, <3>3
  <2>11. f = [j \in KeysOf(items', size') |-> f[j]]
    <3> HIDE DEF map
    <3> QED BY <2>9
  <2> HIDE DEF f
  <2>12. MapOf(items', size') = f
    BY <1>1, <2>4, <2>10, <2>11, MapUnique
  <2>13. MapOf(items, size)' = MapOf(items', size')
    OBVIOUS
  <2>14. k \notin DOMAIN map /\ Cardinality(DOMAIN map) < N
    BY <1>2, <1>5, <2>1
  <2>15. MapOf(items, size)' = [j \in DOMAIN map \cup {k} |-> IF j = k THEN v ELSE map[j]]
    BY <2>12, <2>13 DEF f
  <2> QED BY <1>5, <2>14, <2>15, SameCardinality DEF A!SetDefault
<1> QED BY <1>3, <1>4, <1>5 DEF set_default

\* edit.
LEMMA EditImplements ==
    ASSUME MapInv, NEW k \in Keys, NEW v \in Vals, edit(k, v)
    PROVE  A!Edit(k, v)
<1>1. /\ items \in Arrays(Vals) /\ size \in 0..N /\ Sorted(items, size) /\ N \in Nat
      /\ items' \in Arrays(Vals) /\ size' \in 0..N /\ Sorted(items', size')
      /\ size' = size
  BY EditSorts, MapInvIs, ArrayAssumption DEF edit
<1>2. /\ search(items, k).ok <=> k \in DOMAIN MapOf(items, size)
      /\ DOMAIN MapOf(items, size) = KeysOf(items, size)
      /\ search(items, k).ok \in BOOLEAN
      /\ search(items, k).ok => /\ search(items, k).index \in 0..size - 1
                                /\ items[search(items, k).index][1] = k
  BY <1>1, KeyFound, MapFacts, SearchSorted
<1> DEFINE x == search(items, k).index
           map == MapOf(items, size)
           f == [j \in DOMAIN map |-> IF j = k THEN v ELSE map[j]]
<1>3. \A i \in 0..size - 1 : items[i][1] \in KeysOf(items, size) /\ map[items[i][1]] = items[i][2]
  BY <1>1, MapFacts
<1>4. \A i \in 0..size - 1 : items'[i] = IF items[i][1] = k THEN <<items[i][1], v>> ELSE items[i]
  <2>0. \A i \in 0..size - 1 : i \in Slots
    BY <1>1 DEF Slots
  <2>1. CASE search(items, k).ok
    <3>1. items' = [items EXCEPT ![x] = <<items[x][1], v>>] /\ x \in Slots
      BY <1>2, <2>0, <2>1 DEF edit
    <3>2. \A i \in Slots : items'[i] = IF i = x THEN <<items[x][1], v>> ELSE items[i]
      BY <1>1, <3>1 DEF Arrays
    <3>3. \A i \in 0..size - 1 : items[i][1] = k <=> i = x
      <4>1. \A i \in 0..size - 1 : items[i][1] \in Int
        BY <1>1, MapFacts, ArrayAssumption
      <4>2. \A i, j \in 0..size - 1 : i < j => items[i][1] < items[j][1]
        BY <1>1 DEF Sorted
      <4> HIDE DEF x
      <4>3. x \in 0..size - 1 /\ items[x][1] = k
        BY <1>2, <2>1 DEF x
      <4>4. \A i \in 0..size - 1 : i = x \/ i < x \/ x < i
        BY <1>1, <4>3
      <4> QED BY <4>1, <4>2, <4>3, <4>4
    <3> HIDE DEF x
    <3> QED BY <2>0, <3>2, <3>3
  <2>2. CASE ~search(items, k).ok
    <3>1. items' = items
      BY <2>2 DEF edit
    <3> QED BY <1>2, <1>3, <2>2, <3>1
  <2> QED BY <2>1, <2>2
<1>5. KeysOf(items', size') = DOMAIN map
  <2>1. \A i \in 0..size - 1 : items'[i][1] = items[i][1]
    <3>1. \A y : <<y, v>>[1] = y
      OBVIOUS
    <3> QED BY <1>4, <3>1
  <2>2. KeysOf(items', size') = KeysOf(items, size)
    BY <1>1, <2>1 DEF KeysOf
  <2> QED BY <1>2, <2>2
<1>6. \A i \in 0..size' - 1 : f[items'[i][1]] = items'[i][2]
  <2> HIDE DEF map
  <2>1. DOMAIN map = KeysOf(items, size)
    BY <1>2 DEF map
  <2>2. ASSUME NEW i \in 0..size - 1 PROVE f[items'[i][1]] = items'[i][2]
    <3>1. CASE items[i][1] = k
      <4>1. items'[i] = <<k, v>>
        BY <1>4, <3>1
      <4>2. k \in DOMAIN map
        BY <1>3, <2>1, <3>1
      <4> QED BY <4>1, <4>2
    <3>2. CASE items[i][1] # k
      <4>1. items'[i] = items[i]
        BY <1>4, <3>2
      <4> QED BY <1>3, <2>1, <3>2, <4>1
    <3> QED BY <3>1, <3>2
  <2> QED BY <1>1, <2>2
<1>7. f = [j \in KeysOf(items', size') |-> f[j]]
  <2> HIDE DEF map
  <2> QED BY <1>5
<1> HIDE DEF f
<1>8. MapOf(items', size') = f
  BY <1>1, <1>6, <1>7, MapUnique
<1>9. ret' = A!Flag(search(items, k).ok)
  BY DEF edit
<1>10. (k \in DOMAIN map) = search(items, k).ok
  BY <1>2
<1> QED BY <1>8, <1>9, <1>10 DEF A!Edit, A!Flag, f

\* Restrict in BoundedMap, written out.
LEMMA SameRestrict == \A f, S : A!Restrict(f, S) = [x \in S |-> f[x]]
BY DEF A!Restrict

\* remove.
LEMMA RemoveImplements ==
    ASSUME MapInv, NEW k \in Keys, remove(k)
    PROVE  A!Remove(k)
<1>1. /\ items \in Arrays(Vals) /\ size \in 0..N /\ Sorted(items, size) /\ N \in Nat
      /\ items' \in Arrays(Vals) /\ size' \in 0..N /\ Sorted(items', size')
  BY RemoveSorts, MapInvIs, ArrayAssumption
<1> DEFINE x == search(items, k).index
           map == MapOf(items, size)
           f == [j \in DOMAIN map \ {k} |-> map[j]]
<1>2. /\ search(items, k).ok <=> k \in DOMAIN map
      /\ search(items, k).ok => map[k] = items[x][2]
      /\ DOMAIN map = KeysOf(items, size)
      /\ search(items, k).ok => x \in 0..size - 1 /\ items[x][1] = k
  BY <1>1, KeyFound, MapFacts, SearchSorted
<1>3. \A i \in 0..size - 1 : items[i][1] \in DOMAIN map /\ map[items[i][1]] = items[i][2]
  BY <1>1, MapFacts
<1>4. ret' = IF k \in DOMAIN map THEN A!Some(map[k]) ELSE A!None
  BY <1>2 DEF remove
<1>5. MapOf(items', size') = f
  <2>1. CASE search(items, k).ok
    <3>0. x \in 0..size - 1 /\ items[x][1] = k /\ size \in Nat
      BY <1>1, <1>2, <2>1
    <3>1. /\ items' = [move_within([items EXCEPT ![x] = Empty], x + 1, size, x)
                          EXCEPT ![size - 1] = Empty]
          /\ size' = size - 1
      BY <2>1 DEF remove
    <3> HIDE DEF x
    <3>2. items' = CloseGap(items, size, x)
      <4> SUFFICES ASSUME NEW b, b = items' PROVE b = CloseGap(items, size, x)
        OBVIOUS
      <4>1. b = [move_within([items EXCEPT ![x] = Empty], x + 1, size, x) EXCEPT ![size - 1] = Empty]
        BY <3>1
      <4> QED BY <1>1, <3>0, <4>1, Removed, ZenonT(30)
    <3>3. /\ \A j \in 0..size - 2 : items'[j] = IF j < x THEN items[j] ELSE items[j + 1]
          /\ 0..size' - 1 = 0..size - 2
      <4>1. \A j \in 0..size - 2 : j \in Slots /\ j < size - 1
        BY <1>1, <3>0 DEF Slots
      <4>2. size' - 1 = size - 2
        BY <3>0, <3>1
      <4> QED BY <3>2, <4>1, <4>2 DEF CloseGap
    <3>4. \A i \in 0..size - 1 : items[i][1] = k <=> i = x
      <4>1. \A i \in 0..size - 1 : items[i][1] \in Int
        BY <1>1, MapFacts, ArrayAssumption
      <4>2. \A i, j \in 0..size - 1 : i < j => items[i][1] < items[j][1]
        BY <1>1 DEF Sorted
      <4>3. \A i \in 0..size - 1 : i = x \/ i < x \/ x < i
        BY <3>0
      <4> QED BY <3>0, <4>1, <4>2, <4>3
    <3>5. /\ \A j \in 0..size - 2 : j \in 0..size - 1 /\ j + 1 \in 0..size - 1 /\ (j < x => j # x)
          /\ \A j \in 0..size - 2 : ~ (j < x) => j + 1 # x
      BY <3>0
    <3>6. \A i \in 0..size - 1 : i # x => \/ i \in 0..size - 2 /\ i < x
                                          \/ i - 1 \in 0..size - 2 /\ ~ (i - 1 < x) /\ i - 1 + 1 = i
      BY <3>0
    <3>7. \A j \in 0..size - 2 : \E i \in 0..size - 1 : i # x /\ items'[j] = items[i]
      <4> SUFFICES ASSUME NEW j \in 0..size - 2
                   PROVE  \E i \in 0..size - 1 : i # x /\ items'[j] = items[i]
        OBVIOUS
      <4>1. CASE j < x
        BY <3>3, <3>5, <4>1
      <4>2. CASE ~ (j < x)
        BY <3>3, <3>5, <4>2
      <4> QED BY <4>1, <4>2
    <3>8. \A i \in 0..size - 1 : i # x => \E j \in 0..size - 2 : items'[j] = items[i]
      <4> SUFFICES ASSUME NEW i \in 0..size - 1, i # x
                   PROVE  \E j \in 0..size - 2 : items'[j] = items[i]
        OBVIOUS
      <4>1. CASE i \in 0..size - 2 /\ i < x
        BY <3>3, <4>1
      <4>2. CASE i - 1 \in 0..size - 2 /\ ~ (i - 1 < x) /\ i - 1 + 1 = i
        BY <3>3, <4>2
      <4> QED BY <3>6, <4>1, <4>2
    <3>9. KeysOf(items', size') = DOMAIN map \ {k}
      <4>1. KeysOf(items', size') = {items'[j][1] : j \in 0..size - 2}
        BY <3>3 DEF KeysOf
      <4>2. \A y \in DOMAIN map : \E i \in 0..size - 1 : y = items[i][1]
        BY <1>2 DEF KeysOf
      <4> HIDE DEF map
      <4> QED BY <1>3, <3>4, <3>7, <3>8, <4>1, <4>2
    <3>10. ASSUME NEW j \in 0..size' - 1 PROVE f[items'[j][1]] = items'[j][2]
      <4> HIDE DEF map
      <4>1. PICK i \in 0..size - 1 : i # x /\ items'[j] = items[i]
        BY <3>3, <3>7
      <4>2. items[i][1] \in DOMAIN map \ {k} /\ map[items[i][1]] = items[i][2]
        BY <1>3, <3>4, <4>1
      <4> QED BY <4>1, <4>2
    <3>11. f = [j \in KeysOf(items', size') |-> f[j]]
      <4> HIDE DEF map
      <4> QED BY <3>9
    <3> HIDE DEF f
    <3> QED BY <1>1, <3>10, <3>11, MapUnique
  <2>2. CASE ~search(items, k).ok
    <3>1. UNCHANGED <<items, size>>
      BY <2>2 DEF remove
    <3>2. DOMAIN map \ {k} = DOMAIN map /\ map = [j \in DOMAIN map |-> map[j]]
      BY <1>1, <1>2, <2>2, MapFacts
    <3> QED BY <3>1, <3>2
  <2> QED BY <2>1, <2>2
<1>6. MapOf(items, size)' = A!Restrict(map, DOMAIN map \ {k})
  BY <1>5, SameRestrict
<1> QED BY <1>4, <1>6 DEF A!Remove

\* find: the first slot that matches has the smallest key that matches.
LEMMA FindImplements ==
    ASSUME MapInv, NEW v \in Vals, find(v)
    PROVE  A!Find(v)
<1>1. items \in Arrays(Vals) /\ size \in 0..N /\ Sorted(items, size) /\ N \in Nat
  BY MapInvIs, ArrayAssumption
<1> DEFINE map == MapOf(items, size)
           hits == {i \in 0..size - 1 : items[i] # Empty /\ items[i][2] = v}
           found == {k \in DOMAIN map : map[k] = v}
<1>2. /\ DOMAIN map = KeysOf(items, size)
      /\ \A i \in 0..size - 1 : items[i][1] \in DOMAIN map /\ map[items[i][1]] = items[i][2]
      /\ \A i \in 0..size - 1 : items[i][1] \in Int
  BY <1>1, MapFacts, ArrayAssumption
<1>3. /\ \A k \in found : \E i \in hits : k = items[i][1]
      /\ \A i \in hits : items[i][1] \in found
  <2>1. \A k \in DOMAIN map : \E i \in 0..size - 1 : k = items[i][1]
    BY <1>2 DEF KeysOf
  <2>2. \A i \in 0..size - 1 : items[i] # Empty
    BY <1>1 DEF Sorted, Slots
  <2> HIDE DEF map, Empty
  <2> QED BY <1>2, <2>1, <2>2
<1>4. UNCHANGED <<items, size>> /\ ret' = IF hits = {} THEN A!None ELSE A!Some(items[Min(hits)][1])
  BY DEF find
<1>5. MapOf(items, size)' = MapOf(items, size)
  BY <1>4
<1>6. hits \subseteq Nat /\ \A i \in hits : i \in 0..size - 1
  OBVIOUS
<1> HIDE DEF map, hits, found
<1>7. hits = {} <=> found = {}
  BY <1>3
<1>8. ASSUME hits # {}
      PROVE  (CHOOSE k \in found : \A j \in found : k <= j) = items[Min(hits)][1]
  <2> DEFINE m == Min(hits)
  <2>1. \E i \in hits : \A j \in hits : i <= j
    BY <1>6, <1>8, LeastNumber
  <2>2. m \in hits /\ \A j \in hits : m <= j
    BY <2>1 DEF Min
  <2> HIDE DEF m
  <2>3. \A j \in hits : items[m][1] <= items[j][1]
    <3> SUFFICES ASSUME NEW j \in hits PROVE items[m][1] <= items[j][1]
      OBVIOUS
    <3>1. m \in 0..size - 1 /\ j \in 0..size - 1 /\ m <= j
      BY <1>6, <2>2
    <3>2. m = j \/ items[m][1] < items[j][1]
      BY <1>1, <3>1 DEF Sorted
    <3> QED BY <1>2, <3>1, <3>2
  <2>4. items[m][1] \in found /\ \A j \in found : items[m][1] <= j
    BY <1>3, <2>2, <2>3
  <2>5. \A k \in found : k \in Int
    BY <1>2, <1>3, <1>6
  <2>6. \A k \in found : (\A j \in found : k <= j) => k = items[m][1]
    BY <2>4, <2>5
  <2>7. (CHOOSE k \in found : \A j \in found : k <= j) = items[m][1]
    BY <2>4, <2>6
  <2> QED BY <2>7 DEF m
<1>9. ret' = IF found = {} THEN A!None ELSE A!Some(CHOOSE k \in found : \A j \in found : k <= j)
  BY <1>4, <1>7, <1>8
<1> QED BY <1>5, <1>9 DEF A!Find, found, map

\* map_edit and map_edit_batches: behind the prefix nothing changes.
LEMMA EditPrefixImplements ==
    ASSUME MapInv, MapInv', NEW n \in 0..size, NEW new, EditPrefix(n, new), ret' = A!Unit
    PROVE  A!EditFirst
<1>1. /\ items \in Arrays(Vals) /\ size \in 0..N /\ Sorted(items, size) /\ N \in Nat
      /\ items' \in Arrays(Vals) /\ size' \in 0..N /\ Sorted(items', size')
      /\ size' = size /\ n \in Nat /\ size \in Nat
  BY MapInvIs, ArrayAssumption DEF EditPrefix
<1> DEFINE map == MapOf(items, size)
           after == MapOf(items', size')
           rest == {items[i][1] : i \in n..size - 1}
<1>2. /\ DOMAIN map = KeysOf(items, size)
      /\ \A i \in 0..size - 1 : items[i][1] \in DOMAIN map /\ map[items[i][1]] = items[i][2]
      /\ \A i \in 0..size - 1 : items[i][1] \in Int
  BY <1>1, MapFacts, ArrayAssumption
<1>3. /\ DOMAIN after = KeysOf(items', size')
      /\ after = [k \in KeysOf(items', size') |-> after[k]]
      /\ \A i \in 0..size - 1 : /\ items'[i][1] \in DOMAIN after
                                /\ after[items'[i][1]] = items'[i][2]
      /\ \A i \in 0..size - 1 : items'[i][1] \in Int /\ items'[i][1] \in Keys
  BY <1>1, MapFacts, ArrayAssumption
<1>4. \A i \in n..size - 1 : i \in 0..size - 1 /\ items'[i] = items[i]
  <2>1. \A i \in n..size - 1 : i \in Slots /\ ~ (i < n)
    BY <1>1 DEF Slots
  <2> QED BY <1>1, <2>1 DEF EditPrefix
<1>5. DOMAIN after \subseteq Keys
  BY <1>1, <1>3 DEF KeysOf
<1>6. A!Cardinality(DOMAIN after) = A!Cardinality(DOMAIN map)
  BY <1>1, <1>2, <1>3, KeyCount, SameCardinality
<1>7. /\ \A k \in DOMAIN map : \E i \in 0..size - 1 : k = items[i][1]
      /\ \A k \in DOMAIN after : \E i \in 0..size - 1 : k = items'[i][1]
  BY <1>1, <1>2, <1>3 DEF KeysOf
<1> HIDE DEF map, after
<1>8. after \in [DOMAIN after -> Vals]
  <2>1. \A i \in 0..size - 1 : items'[i] \in Keys \X Vals
    <3>1. \A i \in 0..size - 1 : i \in Slots /\ items'[i] # Empty
      BY <1>1 DEF Sorted, Slots
    <3> QED BY <1>1, <3>1 DEF Arrays
  <2>2. \A k \in DOMAIN after : after[k] \in Vals
    BY <1>3, <1>7, <2>1
  <2> QED BY <1>3, <2>2
<1>9. rest \in SUBSET (DOMAIN map \cap DOMAIN after)
  BY <1>2, <1>3, <1>4
<1>10. ASSUME NEW k \in rest
      PROVE  /\ after[k] = map[k]
             /\ \A j \in (DOMAIN map \cup DOMAIN after) \ rest : j < k
  <2>1. PICK t \in n..size - 1 : k = items[t][1]
    OBVIOUS
  <2>2. after[k] = map[k]
    BY <1>2, <1>3, <1>4, <2>1
  <2>3. ASSUME NEW j \in (DOMAIN map \cup DOMAIN after) \ rest PROVE j < k
    <3>1. CASE j \in DOMAIN map
      <4>1. PICK i \in 0..size - 1 : j = items[i][1]
        BY <1>7, <3>1
      <4>2. i \notin n..size - 1
        BY <2>3, <4>1
      <4>3. i < t /\ t \in 0..size - 1
        BY <1>1, <2>1, <4>1, <4>2
      <4> QED BY <1>1, <2>1, <4>1, <4>3 DEF Sorted
    <3>2. CASE j \in DOMAIN after
      <4>1. PICK i \in 0..size - 1 : j = items'[i][1]
        BY <1>7, <3>2
      <4>2. i \notin n..size - 1
        BY <1>4, <2>3, <4>1
      <4>3. i < t /\ t \in 0..size - 1
        BY <1>1, <2>1, <4>1, <4>2
      <4>4. items'[i][1] < items'[t][1]
        BY <1>1, <4>1, <4>3 DEF Sorted
      <4> QED BY <1>4, <2>1, <4>1, <4>4
    <3> QED BY <2>3, <3>1, <3>2
  <2> QED BY <2>2, <2>3
<1> HIDE DEF rest
<1>11. MapOf(items, size)' = after
  BY DEF after
<1> QED BY <1>5, <1>6, <1>8, <1>9, <1>10, <1>11 DEF A!EditFirst, map

\* A map that is not empty has a first slot.
LEMMA FirstSlot == \A n \in Nat : n > 0 => 0 \in 0..n - 1
OBVIOUS

\* inner_join_keys: what is kept has its values, and the smallest common key is kept.
LEMMA JoinWithin ==
    ASSUME MapInv, NEW S \in OtherMaps, inner_join_keys(S)
    PROVE  JoinsWithin(S)
<1>1. /\ items \in Arrays(Vals) /\ size \in 0..N /\ Sorted(items, size) /\ N \in Nat
      /\ items' \in Arrays(Vals) /\ size' \in 0..N /\ Sorted(items', size')
      /\ ret' = A!Unit
  BY JoinSorts, MapInvIs, ArrayAssumption DEF inner_join_keys
<1>2. S \in SUBSET Keys /\ IsFiniteSet(S) /\ Cardinality(S) <= N
  BY DEF OtherMaps
<1>3. /\ items' = [i \in Slots |->
                         CASE i < joined(items, S).written -> joined(items, S).result[i]
                           [] i >= joined(items, S).written /\ i < size -> Empty
                           [] OTHER -> joined(items, S).ours[i]]
      /\ size' = joined(items, S).written
  BY DEF inner_join_keys
<1>4. /\ \A s \in 0..size' - 1 : items'[s][1] \in S /\ \E t \in 0..size - 1 : items'[s] = items[t]
      /\ \A t \in 0..size - 1 : items[t][1] \in S => size' > 0 /\ items'[0][1] <= items[t][1]
  <2>1. JoinedFrom(items, size, S, items', joined(items, S).written)
    BY <1>1, <1>2, <1>3, Joined
  <2> QED BY <1>3, <2>1 DEF JoinedFrom
<1> DEFINE map == MapOf(items, size)
           kept == KeysOf(items', size')
           common == DOMAIN map \cap S
           f == [x \in kept |-> map[x]]
<1>5. /\ DOMAIN map = KeysOf(items, size)
      /\ \A i \in 0..size - 1 : items[i][1] \in DOMAIN map /\ map[items[i][1]] = items[i][2]
      /\ \A i \in 0..size - 1 : items[i][1] \in Int
      /\ \A s \in 0..size' - 1 : items'[s][1] \in kept
  BY <1>1, MapFacts, ArrayAssumption
<1>6. kept \in SUBSET common
  <2>1. \A y \in kept : \E s \in 0..size' - 1 : y = items'[s][1]
    BY DEF KeysOf
  <2> HIDE DEF map, kept
  <2> QED BY <1>4, <1>5, <2>1
<1>7. \A k \in common : (\A j \in common : k <= j) => k \in kept
  <2> SUFFICES ASSUME NEW k \in common, \A j \in common : k <= j PROVE k \in kept
    OBVIOUS
  <2>1. PICK t \in 0..size - 1 : k = items[t][1]
    BY <1>5 DEF KeysOf
  <2>2. size' > 0 /\ items'[0][1] <= k
    BY <1>4, <2>1
  <2>3. 0 \in 0..size' - 1 /\ items'[0][1] \in kept
    <3>1. size' \in Nat
      BY <1>1
    <3>2. 0 \in 0..size' - 1
      BY <2>2, <3>1, FirstSlot, Zenon
    <3> QED BY <1>5, <3>2
  <2>4. items'[0][1] \in common /\ k <= items'[0][1]
    BY <1>6, <2>3
  <2>5. k \in Int /\ items'[0][1] \in Int
    BY <1>4, <1>5, <2>1, <2>3
  <2>6. k = items'[0][1]
    BY <2>2, <2>4, <2>5
  <2> QED BY <2>3, <2>6
<1>8. MapOf(items', size') = f
  <2>1. \A s \in 0..size' - 1 : f[items'[s][1]] = items'[s][2]
    <3> HIDE DEF map, kept
    <3> QED BY <1>4, <1>5
  <2>2. f = [x \in KeysOf(items', size') |-> f[x]]
    <3> HIDE DEF map
    <3> QED OBVIOUS
  <2> HIDE DEF f
  <2> QED BY <1>1, <2>1, <2>2, MapUnique
<1> QED BY <1>5, <1>6, <1>7, <1>8 DEF JoinsWithin

\* A call that lends no entry to an edit function, other than the join.
LEMMA CallImplements ==
    ASSUME MapInv, Calls
    PROVE  A!Calls \/ \E other \in OtherMaps : inner_join_keys(other)
<1>1. CASE \E k \in Keys, v \in Vals : set_default(k, v)
  BY <1>1, SetDefaultImplements DEF A!Calls
<1>2. CASE \E k \in Keys, v \in Vals : edit(k, v)
  BY <1>2, EditImplements DEF A!Calls
<1>3. CASE \E k \in Keys : read(k)
  BY <1>3, ReadImplements DEF A!Calls
<1>4. CASE \E k \in Keys : remove(k)
  BY <1>4, RemoveImplements DEF A!Calls
<1>5. CASE \E v \in Vals : find(v)
  BY <1>5, FindImplements DEF A!Calls
<1> QED BY <1>1, <1>2, <1>3, <1>4, <1>5 DEF Calls

\* To callers whose edit functions keep the order the sorted array is a map of at most N
\* entries: every call but the join leaves and returns what BoundedMap says, for every
\* capacity, every set of integer keys and every set of values.
THEOREM MapRefinement == Spec => ImplementsBoundedMap
<1> DEFINE Join == \E other \in OtherMaps : inner_join_keys(other)
<1>1. Init => A!Init
  <2> SUFFICES ASSUME Init PROVE A!Init
    OBVIOUS
  <2>1. size = 0 /\ ret = A!Unit /\ ordered = TRUE
    BY DEF Init
  <2>2. MapOf(items, size) = << >>
    <3>1. KeysOf(items, size) = {}
      BY <2>1 DEF KeysOf
    <3> QED BY <3>1 DEF MapOf
  <2> QED BY <2>1, <2>2 DEF A!Init
<1>2. LawInv /\ LawInv' /\ [Next]_vars => [A!Next \/ Join]_vars
  <2> SUFFICES ASSUME LawInv, LawInv', Next, ordered' PROVE (ordered /\ A!Calls) \/ Join
    BY DEF A!Next
  <2>1. CASE Calls /\ UNCHANGED ordered
    <3>1. ordered /\ MapInv
      BY <2>1 DEF LawInv
    <3> QED BY <2>1, <3>1, CallImplements
  <2>2. CASE EditCalls /\ ordered' = (ordered /\ InOrder')
    <3>1. ordered /\ MapInv /\ MapInv'
      BY <2>2 DEF LawInv
    <3>2. A!EditFirst
      BY <2>2, <3>1, EditCallIs, EditPrefixImplements
    <3> QED BY <3>1, <3>2 DEF A!Calls
  <2> QED BY <2>1, <2>2 DEF Next
<1> QED BY <1>1, <1>2, LawInvariance, PTL DEF Spec, ImplementsBoundedMap

\* inner_join_keys keeps a part of the intersection, with its values, and never loses the
\* smallest common key, for every capacity and all keys.
THEOREM JoinCorrect == Spec => JoinKeepsSmallest
<1> DEFINE Keeps == \A other \in OtherMaps : ordered' /\ inner_join_keys(other) => JoinsWithin(other)
<1>1. LawInv /\ [Next]_vars => [Keeps]_vars
  <2> SUFFICES ASSUME LawInv, Next, ordered', NEW other \in OtherMaps, inner_join_keys(other)
               PROVE  JoinsWithin(other)
    OBVIOUS
  <2>1. ordered
    BY DEF Next
  <2> QED BY <2>1, JoinWithin DEF LawInv
<1> QED BY <1>1, LawInvariance, PTL DEF Spec, JoinKeepsSmallest
===============================================================================
