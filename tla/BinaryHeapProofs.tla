-------------------------- MODULE BinaryHeapProofs --------------------------
(***************************************************************************)
(* The binary heap is a queue, for any keys and values and however its     *)
(* arrays grow and shrink.                                                 *)
(*                                                                         *)
(* That the entry on top is the least follows from the order of each with  *)
(* its parent by an argument on the least place of which it would be       *)
(* wrong; that there is a slot for each place when the arrays are halved,  *)
(* from the fact that a set of places has as many members as that of their *)
(* slots.                                                                  *)
(***************************************************************************)
EXTENDS BinaryHeap, FiniteSetTheorems, FunctionTheorems, WellFoundedInduction, TLAPS

-----------------------------------------------------------------------------
(* The invariant.                                                           *)

Slots == 0 .. reserved_ - 1

\* How many places have entries: the one that is inserted is not yet counted.
Held == IF loop = "insert" THEN size_ + 1 ELSE size_

Types ==
    /\ size_ \in Nat /\ reserved_ \in Nat \ {0} /\ index \in Nat /\ si \in Nat
    /\ loop \in {"none", "insert", "up", "down", "shrink"}
    /\ heap_ \in [Slots -> Slots] /\ map_ \in [Slots -> Slots]
    /\ store_ \in [DOMAIN store_ -> Keys] /\ DOMAIN store_ \subseteq Slots
    /\ keymap_ \in [DOMAIN keymap_ -> DOMAIN store_] /\ DOMAIN keymap_ \subseteq Keys

\* There is room for one more, and a loop is at one of its places.
Room ==
    /\ size_ < reserved_
    /\ loop \in {"insert", "up", "down"} => index < Held
    /\ loop = "shrink" => /\ index <= Kept /\ 4 * size_ < reserved_ /\ reserved_ > 1

\* keymap_ is the inverse of store_.
Linked ==
    /\ \A k \in DOMAIN keymap_ : store_[keymap_[k]] = k
    /\ \A p \in DOMAIN store_ : store_[p] \in DOMAIN keymap_ /\ keymap_[store_[p]] = p

\* The slots with entries are those of the first places.
Placed ==
    /\ \A i \in 0 .. Held - 1 : heap_[i] \in DOMAIN store_
    /\ \A p \in DOMAIN store_ : map_[p] < Held /\ heap_[map_[p]] = p

\* heap_ and map_ are inverse; while they are halved, as far as what stays goes.
AreInverse(f, g) == \A i \in DOMAIN f : g[f[i]] = i

Paired ==
    IF loop # "shrink"
    THEN AreInverse(heap_, map_) /\ AreInverse(map_, heap_)
    ELSE /\ \A i \in 0 .. Kept - 1 : map_[heap_[i]] = i
         /\ \A j \in 0 .. Kept - 1 : map_[j] < Kept => heap_[map_[j]] = j
         /\ \A i \in 0 .. index - 1 : heap_[i] < Kept
         /\ \A j \in 0 .. si - 1 : map_[j] < Kept

\* The values are in order but for one place: above and below it a rising entry
\* and its children may be wrong, or only what it has to pass.
Values == [i \in 0 .. Held - 1 |-> At(i)]

IsOrdered(w, i) == w[Parent(i)] <= w[i]
Bridged(w, n, x) == \A i \in 1 .. n - 1 : Parent(i) = x /\ x > 0 => w[Parent(x)] <= w[i]

AllOrdered(w, n)  == \A i \in 1 .. n - 1 : IsOrdered(w, i)
AllButOne(w, n, x) == Bridged(w, n, x) /\ \A i \in 1 .. n - 1 : i # x => IsOrdered(w, i)
AllButAround(w, n, x) ==
    Bridged(w, n, x) /\ \A i \in 1 .. n - 1 : i # x /\ Parent(i) # x => IsOrdered(w, i)
AllButBelow(w, n, x) ==
    Bridged(w, n, x) /\ \A i \in 1 .. n - 1 : Parent(i) # x => IsOrdered(w, i)

Order ==
    CASE loop = "insert" -> AllButOne(Values, Held, index)
      [] loop = "up"     -> AllButAround(Values, Held, index)
      [] loop = "down"   -> AllButBelow(Values, Held, index)
      [] OTHER           -> AllOrdered(Values, Held)

Inv == Types /\ Room /\ Linked /\ Placed /\ Paired /\ Order

-----------------------------------------------------------------------------
(* Numbers.                                                                 *)

LEMMA Smallest ==
    ASSUME NEW T \in SUBSET Nat, T # {}
    PROVE  \E m \in T : \A k \in T : m <= k
  <1>1. PICK m \in T : \A k \in T : <<k, m>> \notin OpToRel(<, Nat)
    BY WFMin, NatLessThanWellFounded, Zenon
  <1>2. \A k \in T : ~ (k < m)
    BY <1>1, Zenon DEF OpToRel
  <1>. QED BY <1>2

LEMMA ParentIsBefore ==
    ASSUME NEW i \in Nat \ {0}
    PROVE  /\ Parent(i) \in Nat /\ Parent(i) < i
           /\ i = 2 * Parent(i) + 1 \/ i = 2 * Parent(i) + 2
  BY DEF Parent

LEMMA ChildrenAre ==
    ASSUME NEW x \in Nat
    PROVE  /\ 2 * x + 1 \in Nat \ {0} /\ 2 * x + 2 \in Nat \ {0}
           /\ Parent(2 * x + 1) = x /\ Parent(2 * x + 2) = x
  BY DEF Parent

\* What is one to one from a range into itself leaves out nothing of it.
LEMMA OneToOneIsOnto ==
    ASSUME NEW n \in Nat, NEW f \in [0 .. n - 1 -> 0 .. n - 1],
           \A i, j \in 0 .. n - 1 : f[i] = f[j] => i = j
    PROVE  \A j \in 0 .. n - 1 : \E i \in 0 .. n - 1 : f[i] = j
  <1>. DEFINE S == 0 .. n - 1
  <1>1. f \in Injection(S, S)
    BY DEF Injection, IsInjective
  <1>2. IsFiniteSet(S)
    BY FS_Interval
  <1>3. f \in Surjection(S, S)
    BY <1>1, <1>2, FS_Injection
  <1>. QED BY <1>3 DEF Surjection

-----------------------------------------------------------------------------
(* The order of values.                                                     *)

Swapped(w, x, y) == [w EXCEPT ![x] = w[y], ![y] = w[x]]

LEMMA TopIsSmallest ==
    ASSUME NEW n \in Nat, NEW w \in [0 .. n - 1 -> Int], AllOrdered(w, n)
    PROVE  \A i \in 0 .. n - 1 : w[0] <= w[i]
  <1>. DEFINE Wrong == {i \in 0 .. n - 1 : ~ (w[0] <= w[i])}
  <1>1. SUFFICES ASSUME Wrong # {} PROVE FALSE
    OBVIOUS
  <1>2. PICK m \in Wrong : \A k \in Wrong : m <= k
    <2>1. Wrong \in SUBSET Nat
      OBVIOUS
    <2>. HIDE DEF Wrong
    <2>. QED BY <1>1, <2>1, Smallest
  <1>3. m \in 0 .. n - 1 /\ ~ (w[0] <= w[m]) /\ 0 \in 0 .. n - 1
    BY <1>2
  <1>4. m # 0
    BY <1>3
  <1>5. Parent(m) \in 0 .. n - 1 /\ Parent(m) < m
    BY <1>3, <1>4, ParentIsBefore
  <1>6. Parent(m) \notin Wrong
    BY <1>2, <1>3, <1>5
  <1>7. w[0] <= w[Parent(m)]
    BY <1>5, <1>6
  <1>8. w[Parent(m)] <= w[m]
    BY <1>3, <1>4 DEF AllOrdered, IsOrdered
  <1>. QED BY <1>3, <1>5, <1>7, <1>8

LEMMA AllSwapped ==
    ASSUME NEW n \in Nat, NEW w \in [0 .. n - 1 -> Int], NEW x \in 0 .. n - 1, NEW y \in 0 .. n - 1,
           x # y
    PROVE  /\ Swapped(w, x, y) \in [0 .. n - 1 -> Int]
           /\ Swapped(w, x, y)[x] = w[y] /\ Swapped(w, x, y)[y] = w[x]
           /\ \A i \in 0 .. n - 1 : i # x /\ i # y => Swapped(w, x, y)[i] = w[i]
  BY DEF Swapped

\* A value that is less than its parent's changes places with it.
LEMMA OneRises ==
    ASSUME NEW n \in Nat, NEW w \in [0 .. n - 1 -> Int], NEW x \in 1 .. n - 1,
           AllButOne(w, n, x), w[x] < w[Parent(x)]
    PROVE  AllButOne(Swapped(w, x, Parent(x)), n, Parent(x))
  <1>. DEFINE y == Parent(x)
              u == Swapped(w, x, y)
  <1>1. y \in 0 .. n - 1 /\ y < x /\ x \in 0 .. n - 1
    BY ParentIsBefore
  <1>2. /\ u \in [0 .. n - 1 -> Int] /\ u[x] = w[y] /\ u[y] = w[x]
        /\ \A i \in 0 .. n - 1 : i # x /\ i # y => u[i] = w[i]
    BY <1>1, AllSwapped
  <1>. HIDE DEF u
  <1>3. ASSUME NEW i \in 1 .. n - 1
        PROVE  Parent(i) \in 0 .. n - 1 /\ Parent(i) < i /\ i \in 0 .. n - 1
    BY ParentIsBefore
  <1>4. ASSUME NEW i \in 1 .. n - 1, i # x
        PROVE  w[Parent(i)] <= w[i]
    BY <1>4 DEF AllButOne, IsOrdered
  <1>5. ASSUME NEW i \in 1 .. n - 1, Parent(i) = x
        PROVE  w[y] <= w[i]
    BY <1>1, <1>5 DEF AllButOne, Bridged
  <1>6. ASSUME NEW i \in 1 .. n - 1, i # y
        PROVE  u[Parent(i)] <= u[i]
    <2>1. CASE i = x
      BY <1>1, <1>2, <2>1
    <2>2. CASE i # x /\ Parent(i) = x
      BY <1>1, <1>2, <1>3, <1>5, <1>6, <2>2
    <2>3. CASE i # x /\ Parent(i) = y
      BY <1>1, <1>2, <1>3, <1>4, <1>6, <2>3
    <2>4. CASE i # x /\ Parent(i) # x /\ Parent(i) # y
      BY <1>1, <1>2, <1>3, <1>4, <1>6, <2>4
    <2>. QED BY <2>1, <2>2, <2>3, <2>4
  <1>7. ASSUME NEW i \in 1 .. n - 1, Parent(i) = y, y > 0
        PROVE  u[Parent(y)] <= u[i]
    <2>1. y \in 1 .. n - 1
      BY <1>1, <1>7
    <2>2. Parent(y) \in 0 .. n - 1 /\ Parent(y) < y
      BY <1>3, <2>1
    <2>3. u[Parent(y)] = w[Parent(y)] /\ w[Parent(y)] <= w[y]
      <3>1. Parent(y) # x /\ Parent(y) # y /\ y # x
        BY <1>1, <2>2
      <3>2. w[Parent(y)] <= w[y]
        BY <1>4, <2>1, <3>1
      <3>. QED BY <1>2, <2>2, <3>1, <3>2
    <2>4. w[y] <= u[i]
      <3>1. CASE i = x
        BY <1>1, <1>2, <3>1
      <3>2. CASE i # x
        <4>1. w[Parent(i)] <= w[i]
          BY <1>4, <3>2
        <4>2. u[i] = w[i]
          BY <1>2, <1>3, <1>7, <3>2
        <4>. QED BY <1>7, <4>1, <4>2
      <3>. QED BY <3>1, <3>2
    <2>5. u[Parent(y)] \in Int /\ u[i] \in Int /\ w[y] \in Int
      BY <1>1, <1>2, <1>3, <2>2
    <2>. QED BY <2>3, <2>4, <2>5
  <1>8. AllButOne(u, n, y)
    BY <1>6, <1>7 DEF AllButOne, Bridged, IsOrdered
  <1>. QED BY <1>8 DEF u

LEMMA OneRisesAround ==
    ASSUME NEW n \in Nat, NEW w \in [0 .. n - 1 -> Int], NEW x \in 1 .. n - 1,
           AllButAround(w, n, x), w[x] < w[Parent(x)]
    PROVE  AllButAround(Swapped(w, x, Parent(x)), n, Parent(x))
  <1>. DEFINE y == Parent(x)
              u == Swapped(w, x, y)
  <1>1. y \in 0 .. n - 1 /\ y < x /\ x \in 0 .. n - 1
    BY ParentIsBefore
  <1>2. /\ u \in [0 .. n - 1 -> Int] /\ u[x] = w[y] /\ u[y] = w[x]
        /\ \A i \in 0 .. n - 1 : i # x /\ i # y => u[i] = w[i]
    BY <1>1, AllSwapped
  <1>. HIDE DEF u
  <1>3. ASSUME NEW i \in 1 .. n - 1
        PROVE  Parent(i) \in 0 .. n - 1 /\ Parent(i) < i /\ i \in 0 .. n - 1
    BY ParentIsBefore
  <1>4. ASSUME NEW i \in 1 .. n - 1, i # x, Parent(i) # x
        PROVE  w[Parent(i)] <= w[i]
    BY <1>4 DEF AllButAround, IsOrdered
  <1>5. ASSUME NEW i \in 1 .. n - 1, Parent(i) = x
        PROVE  w[y] <= w[i]
    BY <1>1, <1>5 DEF AllButAround, Bridged
  <1>6. ASSUME NEW i \in 1 .. n - 1, i # y, Parent(i) # y
        PROVE  u[Parent(i)] <= u[i]
    <2>1. i # x
      BY <1>6
    <2>2. CASE Parent(i) = x
      BY <1>1, <1>2, <1>3, <1>5, <1>6, <2>1, <2>2
    <2>3. CASE Parent(i) # x
      BY <1>1, <1>2, <1>3, <1>4, <1>6, <2>1, <2>3
    <2>. QED BY <2>2, <2>3
  <1>7. ASSUME NEW i \in 1 .. n - 1, Parent(i) = y, y > 0
        PROVE  u[Parent(y)] <= u[i]
    <2>1. y \in 1 .. n - 1
      BY <1>1, <1>7
    <2>2. Parent(y) \in 0 .. n - 1 /\ Parent(y) < y
      BY <1>3, <2>1
    <2>3. u[Parent(y)] = w[Parent(y)] /\ w[Parent(y)] <= w[y]
      <3>1. Parent(y) # x /\ Parent(y) # y /\ y # x
        BY <1>1, <2>2
      <3>2. w[Parent(y)] <= w[y]
        BY <1>4, <2>1, <3>1
      <3>. QED BY <1>2, <2>2, <3>1, <3>2
    <2>4. w[y] <= u[i]
      <3>1. CASE i = x
        BY <1>1, <1>2, <3>1
      <3>2. CASE i # x
        <4>1. w[Parent(i)] <= w[i]
          BY <1>1, <1>4, <1>7, <3>2
        <4>2. u[i] = w[i]
          BY <1>2, <1>3, <1>7, <3>2
        <4>. QED BY <1>7, <4>1, <4>2
      <3>. QED BY <3>1, <3>2
    <2>5. u[Parent(y)] \in Int /\ u[i] \in Int /\ w[y] \in Int
      BY <1>1, <1>2, <1>3, <2>2
    <2>. QED BY <2>3, <2>4, <2>5
  <1>8. AllButAround(u, n, y)
    BY <1>6, <1>7 DEF AllButAround, Bridged, IsOrdered
  <1>. QED BY <1>8 DEF u

\* A value changes places with the lesser of its children.
LEMMA OneSinks ==
    ASSUME NEW n \in Nat, NEW w \in [0 .. n - 1 -> Int], NEW x \in 0 .. n - 1, NEW c \in 1 .. n - 1,
           Parent(c) = x, AllButBelow(w, n, x), w[c] <= w[x],
           \A i \in 1 .. n - 1 : Parent(i) = x => w[c] <= w[i]
    PROVE  AllButBelow(Swapped(w, x, c), n, c)
  <1>. DEFINE u == Swapped(w, x, c)
  <1>1. x < c /\ c \in 0 .. n - 1
    BY ParentIsBefore
  <1>2. /\ u \in [0 .. n - 1 -> Int] /\ u[x] = w[c] /\ u[c] = w[x]
        /\ \A i \in 0 .. n - 1 : i # x /\ i # c => u[i] = w[i]
    BY <1>1, AllSwapped
  <1>. HIDE DEF u
  <1>3. ASSUME NEW i \in 1 .. n - 1
        PROVE  Parent(i) \in 0 .. n - 1 /\ Parent(i) < i /\ i \in 0 .. n - 1
    BY ParentIsBefore
  <1>4. ASSUME NEW i \in 1 .. n - 1, Parent(i) # x
        PROVE  w[Parent(i)] <= w[i]
    BY <1>4 DEF AllButBelow, IsOrdered
  <1>5. ASSUME NEW i \in 1 .. n - 1, Parent(i) # c
        PROVE  u[Parent(i)] <= u[i]
    <2>1. CASE i = c
      BY <1>1, <1>2, <2>1
    <2>2. CASE i = x
      <3>1. w[Parent(x)] <= w[c]
        BY <2>2, <1>1 DEF AllButBelow, Bridged
      <3>2. u[Parent(x)] = w[Parent(x)]
        BY <1>1, <1>2, <1>3, <2>2
      <3>. QED BY <1>2, <2>2, <3>1, <3>2
    <2>3. CASE i # c /\ i # x /\ Parent(i) = x
      BY <1>2, <1>3, <2>3
    <2>4. CASE i # c /\ i # x /\ Parent(i) # x
      BY <1>2, <1>3, <1>4, <1>5, <2>4
    <2>. QED BY <2>1, <2>2, <2>3, <2>4
  <1>6. ASSUME NEW i \in 1 .. n - 1, Parent(i) = c
        PROVE  u[Parent(c)] <= u[i]
    BY <1>1, <1>2, <1>3, <1>4, <1>6
  <1>7. AllButBelow(u, n, c)
    BY <1>5, <1>6 DEF AllButBelow, Bridged, IsOrdered
  <1>. QED BY <1>7 DEF u

\* A value that does not rise any more.
LEMMA RisenIsOrdered ==
    ASSUME NEW n \in Nat, NEW w \in [0 .. n - 1 -> Int], NEW x \in 0 .. n - 1,
           ~ (x > 0 /\ w[x] < w[Parent(x)])
    PROVE  /\ AllButOne(w, n, x) => AllOrdered(w, n)
           /\ AllButAround(w, n, x) => AllButBelow(w, n, x)
  <1>1. x \in 1 .. n - 1 => IsOrdered(w, x)
    <2>1. x \in 1 .. n - 1 => Parent(x) \in 0 .. n - 1
      BY ParentIsBefore
    <2>. QED BY <2>1 DEF IsOrdered
  <1>. QED BY <1>1 DEF AllButOne, AllButAround, AllOrdered, AllButBelow

\* A value that sinks no further.
LEMMA SunkIsOrdered ==
    ASSUME NEW n \in Nat, NEW w \in [0 .. n - 1 -> Int], NEW x \in 0 .. n - 1,
           AllButBelow(w, n, x), \A i \in 1 .. n - 1 : Parent(i) = x => w[x] <= w[i]
    PROVE  AllOrdered(w, n)
  BY DEF AllButBelow, AllOrdered, IsOrdered

\* A value comes last, the last one replaces another, and the last one goes.
LEMMA LastIsAdded ==
    ASSUME NEW n \in Nat, NEW w \in [0 .. n - 1 -> Int], NEW u \in [0 .. n -> Int],
           AllOrdered(w, n), \A i \in 0 .. n - 1 : u[i] = w[i]
    PROVE  AllButOne(u, n + 1, n)
  <1>1. ASSUME NEW i \in 1 .. n + 1 - 1
        PROVE  /\ Parent(i) \in 0 .. n - 1 /\ Parent(i) # n
               /\ i # n => u[Parent(i)] <= u[i]
    <2>1. i \in Nat \ {0} /\ i <= n
      OBVIOUS
    <2>2. Parent(i) \in 0 .. n - 1 /\ Parent(i) # n
      BY <2>1, ParentIsBefore
    <2>3. CASE i # n
      <3>1. i \in 1 .. n - 1 /\ i \in 0 .. n - 1
        BY <2>1, <2>3
      <3>2. w[Parent(i)] <= w[i]
        BY <3>1 DEF AllOrdered, IsOrdered
      <3>. QED BY <2>2, <3>1, <3>2
    <2>. QED BY <2>2, <2>3
  <1>. QED BY <1>1 DEF AllButOne, Bridged, IsOrdered

LEMMA LastReplaces ==
    ASSUME NEW n \in Nat, NEW w \in [0 .. n -> Int], NEW u \in [0 .. n - 1 -> Int],
           NEW x \in 0 .. n - 1,
           AllOrdered(w, n + 1), \A i \in 0 .. n - 1 : i # x => u[i] = w[i]
    PROVE  AllButAround(u, n, x)
  <1>1. ASSUME NEW i \in 1 .. n - 1
        PROVE  Parent(i) \in 0 .. n - 1 /\ Parent(i) < i /\ w[Parent(i)] <= w[i]
    <2>1. Parent(i) \in Nat /\ Parent(i) < i
      BY ParentIsBefore
    <2>2. i \in 1 .. n + 1 - 1
      OBVIOUS
    <2>. QED BY <2>1, <2>2 DEF AllOrdered, IsOrdered
  <1>2. ASSUME NEW i \in 1 .. n - 1, i # x, Parent(i) # x
        PROVE  u[Parent(i)] <= u[i]
    <2>1. i \in 0 .. n - 1 /\ Parent(i) \in 0 .. n - 1
      BY <1>1
    <2>2. u[i] = w[i]
      BY <1>2, <2>1
    <2>3. u[Parent(i)] = w[Parent(i)]
      BY <1>2, <2>1
    <2>. QED BY <1>1, <2>2, <2>3
  <1>3. ASSUME NEW i \in 1 .. n - 1, Parent(i) = x, x > 0
        PROVE  u[Parent(x)] <= u[i]
    <2>1. x \in 1 .. n - 1
      BY <1>3
    <2>2. /\ Parent(x) \in 0 .. n - 1 /\ Parent(x) < x /\ w[Parent(x)] <= w[x]
          /\ x < i /\ w[x] <= w[i]
      BY <1>1, <1>3, <2>1
    <2>3. w[Parent(x)] \in Int /\ w[x] \in Int /\ w[i] \in Int
      BY <2>1, <2>2
    <2>. QED BY <2>2, <2>3
  <1>. QED BY <1>2, <1>3 DEF AllButAround, Bridged, IsOrdered

LEMMA LastGoes ==
    ASSUME NEW n \in Nat, NEW w \in [0 .. n -> Int], NEW u \in [0 .. n - 1 -> Int],
           AllOrdered(w, n + 1), \A i \in 0 .. n - 1 : u[i] = w[i]
    PROVE  AllOrdered(u, n)
  <1>1. ASSUME NEW i \in 1 .. n - 1
        PROVE  u[Parent(i)] <= u[i]
    <2>1. Parent(i) \in 0 .. n - 1 /\ i \in 0 .. n - 1
      BY ParentIsBefore
    <2>2. i \in 1 .. n + 1 - 1
      OBVIOUS
    <2>3. w[Parent(i)] <= w[i]
      BY <2>2 DEF AllOrdered, IsOrdered
    <2>. QED BY <2>1, <2>3
  <1>. QED BY <1>1 DEF AllOrdered, IsOrdered

-----------------------------------------------------------------------------
(* The steps keep the invariant.                                            *)

LEMMA ValuesAre ==
    ASSUME BinaryHeapAssumption, Types, Room, Placed
    PROVE  /\ Held \in Nat /\ Held <= reserved_
           /\ Values \in [0 .. Held - 1 -> Int]
           /\ \A i \in 0 .. Held - 1 : Values[i] = At(i) /\ At(i) \in Int /\ heap_[i] \in DOMAIN store_
  <1>1. Held \in Nat /\ Held <= reserved_
    BY DEF Types, Room, Held
  <1>2. ASSUME NEW i \in 0 .. Held - 1
        PROVE  At(i) \in Int /\ heap_[i] \in DOMAIN store_
    <2>1. heap_[i] \in DOMAIN store_
      BY DEF Placed
    <2>2. store_[heap_[i]] \in Keys
      BY <2>1 DEF Types
    <2>. QED BY <2>1, <2>2 DEF BinaryHeapAssumption, At
  <1>. QED BY <1>1, <1>2 DEF Values

LEMMA ValuesAreThen ==
    ASSUME BinaryHeapAssumption, Types', Room', Placed'
    PROVE  /\ Values' \in [0 .. Held' - 1 -> Int]
           /\ \A i \in 0 .. Held' - 1 : Values'[i] = At(i)'
  <1>1. /\ (Held \in Nat /\ Held <= reserved_)'
        /\ (Values \in [0 .. Held - 1 -> Int])'
        /\ (\A i \in 0 .. Held - 1 : Values[i] = At(i) /\ At(i) \in Int /\ heap_[i] \in DOMAIN store_)'
    BY ValuesAre, PTL
  <1>. QED BY <1>1

THEOREM StartIsWhole == BinaryHeapAssumption /\ Init => Inv
  <1>. SUFFICES ASSUME BinaryHeapAssumption, Init PROVE Inv
    OBVIOUS
  <1>. USE DEF BinaryHeapAssumption, Init, Identity, Nothing
  <1>1. Types
    BY DEF Types, Slots
  <1>2. Room
    BY DEF Room
  <1>3. Linked
    BY DEF Linked
  <1>4. Placed
    BY DEF Placed, Held
  <1>5. Paired
    BY DEF Paired, AreInverse
  <1>6. Order
    BY DEF Order, AllOrdered, Held
  <1>. QED BY <1>1, <1>2, <1>3, <1>4, <1>5, <1>6 DEF Inv

LEMMA InsertKeeps ==
    ASSUME BinaryHeapAssumption, Inv, NEW k \in Keys, Insert(k)
    PROVE  Inv'
  <1>. DEFINE p == heap_[size_]
  <1>1. /\ loop = "none" /\ k \notin DOMAIN keymap_ /\ loop' = "insert" /\ index' = size_
        /\ UNCHANGED <<size_, reserved_, heap_, map_, si>>
        /\ store_' = Put(store_, p, k) /\ keymap_' = Put(keymap_, k, p)
    BY DEF Insert
  <1>2. Types /\ Room /\ Linked /\ Placed /\ Paired /\ Order /\ Held = size_ /\ Held' = size_ + 1
    BY <1>1 DEF Inv, Held
  <1>3. size_ \in Slots /\ p \in Slots /\ map_[p] = size_ /\ p \notin DOMAIN store_
    <2>1. size_ \in Slots
      BY <1>2 DEF Types, Room, Slots
    <2>2. p \in Slots /\ map_[p] = size_
      BY <2>1, <1>1, <1>2 DEF Types, Paired, AreInverse
    <2>. QED BY <2>1, <2>2, <1>2 DEF Placed, Types
  <1>. HIDE DEF p
  <1>4. /\ DOMAIN store_' = DOMAIN store_ \cup {p} /\ store_'[p] = k
        /\ \A q \in DOMAIN store_ : store_'[q] = store_[q]
        /\ store_' \in [DOMAIN store_' -> Keys]
    <2>1. /\ DOMAIN store_' = DOMAIN store_ \cup {p} /\ store_'[p] = k
          /\ \A q \in DOMAIN store_ : store_'[q] = store_[q]
      BY <1>1, <1>3 DEF Put
    <2>2. \A q \in DOMAIN store_ : store_[q] \in Keys
      BY <1>2 DEF Types
    <2>. QED BY <2>1, <2>2, <1>1 DEF Put
  <1>5. /\ DOMAIN keymap_' = DOMAIN keymap_ \cup {k} /\ keymap_'[k] = p
        /\ \A j \in DOMAIN keymap_ : keymap_'[j] = keymap_[j]
        /\ keymap_' \in [DOMAIN keymap_' -> DOMAIN store_']
    <2>1. /\ DOMAIN keymap_' = DOMAIN keymap_ \cup {k} /\ keymap_'[k] = p
          /\ \A j \in DOMAIN keymap_ : keymap_'[j] = keymap_[j]
      BY <1>1 DEF Put
    <2>2. \A j \in DOMAIN keymap_ : keymap_[j] \in DOMAIN store_
      BY <1>2 DEF Types
    <2>. QED BY <2>1, <2>2, <1>1, <1>4 DEF Put
  <1>6. Types'
    BY <1>1, <1>2, <1>3, <1>4, <1>5 DEF Types, Slots
  <1>7. Room'
    BY <1>1, <1>2 DEF Types, Room, Held
  <1>8. Linked'
    <2>1. \A j \in DOMAIN keymap_ : keymap_[j] \in DOMAIN store_ /\ store_[keymap_[j]] = j
      BY <1>2 DEF Types, Linked
    <2>2. \A q \in DOMAIN store_ : store_[q] \in DOMAIN keymap_ /\ keymap_[store_[q]] = q
      BY <1>2 DEF Linked
    <2>. QED BY <1>4, <1>5, <2>1, <2>2 DEF Linked
  <1>9. Placed'
    <2>1. ASSUME NEW i \in 0 .. size_ PROVE heap_[i] \in DOMAIN store_'
      <3>1. CASE i = size_
        BY <3>1, <1>4 DEF p
      <3>2. CASE i # size_
        BY <3>2, <1>2, <1>4 DEF Types, Placed
      <3>. QED BY <3>1, <3>2
    <2>2. ASSUME NEW q \in DOMAIN store_' PROVE map_[q] < size_ + 1 /\ heap_[map_[q]] = q
      <3>1. CASE q = p
        BY <3>1, <1>2, <1>3 DEF p, Types
      <3>2. CASE q # p
        BY <3>2, <1>2, <1>4 DEF Types, Placed, Slots
      <3>. QED BY <3>1, <3>2
    <2>. QED BY <1>1, <1>2, <2>1, <2>2 DEF Placed, Types
  <1>10. Paired'
    BY <1>1, <1>2 DEF Paired, AreInverse
  <1>11. Order'
    <2>1. /\ Values \in [0 .. size_ - 1 -> Int]
          /\ \A i \in 0 .. size_ - 1 : Values[i] = At(i) /\ heap_[i] \in DOMAIN store_
      BY <1>2, ValuesAre
    <2>2. Values' \in [0 .. size_ -> Int] /\ \A i \in 0 .. size_ : Values'[i] = At(i)'
      <3>1. Values' \in [0 .. Held' - 1 -> Int] /\ \A i \in 0 .. Held' - 1 : Values'[i] = At(i)'
        BY <1>6, <1>7, <1>9, ValuesAreThen
      <3>. QED BY <3>1, <1>2 DEF Types
    <2>3. ASSUME NEW i \in 0 .. size_ - 1 PROVE Values'[i] = Values[i]
      <3>1. i \in 0 .. size_ /\ heap_' = heap_ /\ store_'[heap_[i]] = store_[heap_[i]]
        BY <1>1, <1>2, <1>4, <2>1 DEF Types
      <3>2. At(i)' = At(i)
        BY <3>1 DEF At
      <3>. QED BY <2>1, <2>2, <3>1, <3>2
    <2>4. AllOrdered(Values, size_)
      BY <1>1, <1>2 DEF Order
    <2>5. AllButOne(Values', size_ + 1, size_)
      <3>. DEFINE w == Values
                  u == Values'
      <3>. HIDE DEF w, u
      <3>1. size_ \in Nat /\ w \in [0 .. size_ - 1 -> Int] /\ u \in [0 .. size_ -> Int]
            /\ AllOrdered(w, size_) /\ \A i \in 0 .. size_ - 1 : u[i] = w[i]
        BY <1>2, <2>1, <2>2, <2>3, <2>4 DEF w, u, Types
      <3>2. AllButOne(u, size_ + 1, size_)
        BY <3>1, LastIsAdded
      <3>. QED BY <3>2 DEF u
    <2>. QED BY <1>1, <1>2, <2>5 DEF Order
  <1>. QED BY <1>6, <1>7, <1>8, <1>9, <1>10, <1>11 DEF Inv

\* Two places change their slots.
LEMMA SlotsSwap ==
    ASSUME Types, Paired, loop # "shrink", NEW x \in Slots, NEW y \in Slots, SwapElements(x, y)
    PROVE  /\ heap_' \in [Slots -> Slots] /\ map_' \in [Slots -> Slots]
           /\ heap_'[x] = heap_[y] /\ heap_'[y] = heap_[x]
           /\ \A i \in Slots : i # x /\ i # y => heap_'[i] = heap_[i]
           /\ \A p \in Slots : map_'[p] \in {map_[p], x, y}
           /\ AreInverse(heap_', map_') /\ AreInverse(map_', heap_')
  <1>1. heap_ \in [Slots -> Slots] /\ map_ \in [Slots -> Slots] /\ x \in Slots /\ y \in Slots
    BY DEF Types
  <1>2. \A i \in Slots : map_[heap_[i]] = i /\ heap_[map_[i]] = i
    BY <1>1 DEF Paired, AreInverse
  <1>3. /\ heap_' \in [Slots -> Slots] /\ heap_'[x] = heap_[y] /\ heap_'[y] = heap_[x]
        /\ \A i \in Slots : i # x /\ i # y => heap_'[i] = heap_[i]
    BY <1>1 DEF SwapElements
  <1>4. /\ map_' \in [Slots -> Slots] /\ map_'[heap_[y]] = x /\ map_'[heap_[x]] = y
        /\ \A p \in Slots : p # heap_[x] /\ p # heap_[y] => map_'[p] = map_[p]
    BY <1>1, <1>2 DEF SwapElements
  <1>5. ASSUME NEW i \in Slots PROVE map_'[heap_'[i]] = i
    <2>1. CASE i = x
      BY <1>3, <1>4, <2>1
    <2>2. CASE i = y
      BY <1>3, <1>4, <2>2
    <2>3. CASE i # x /\ i # y
      <3>1. heap_[i] # heap_[x] /\ heap_[i] # heap_[y] /\ heap_[i] \in Slots
        BY <1>1, <1>2, <2>3
      <3>2. heap_'[i] = heap_[i] /\ map_'[heap_[i]] = map_[heap_[i]]
        BY <1>3, <1>4, <2>3, <3>1
      <3>. QED BY <1>2, <3>2
    <2>. QED BY <2>1, <2>2, <2>3
  <1>6. ASSUME NEW p \in Slots PROVE heap_'[map_'[p]] = p /\ map_'[p] \in {map_[p], x, y}
    <2>1. CASE p = heap_[x]
      BY <1>3, <1>4, <2>1
    <2>2. CASE p = heap_[y]
      BY <1>3, <1>4, <2>2
    <2>3. CASE p # heap_[x] /\ p # heap_[y]
      <3>1. map_[p] # x /\ map_[p] # y /\ map_[p] \in Slots
        BY <1>1, <1>2, <2>3
      <3>2. map_'[p] = map_[p] /\ heap_'[map_[p]] = heap_[map_[p]]
        BY <1>3, <1>4, <2>3, <3>1
      <3>. QED BY <1>2, <3>2
    <2>. QED BY <2>1, <2>2, <2>3
  <1>7. AreInverse(heap_', map_') /\ AreInverse(map_', heap_')
    BY <1>3, <1>4, <1>5, <1>6 DEF AreInverse
  <1>. QED BY <1>3, <1>4, <1>6, <1>7

\* Two places of entries change their slots.
LEMMA SwapKeeps ==
    ASSUME BinaryHeapAssumption, Types, Room, Linked, Placed, Paired,
           loop \in {"insert", "up", "down"}, loop' = loop,
           NEW x \in 0 .. Held - 1, NEW y \in 0 .. Held - 1, x # y, SwapElements(x, y), index' = y,
           UNCHANGED <<size_, reserved_, store_, keymap_, si>>
    PROVE  /\ Types' /\ Room' /\ Linked' /\ Placed' /\ Paired'
           /\ Held' = Held /\ Values' = Swapped(Values, x, y)
  <1>1. Held \in Nat /\ Held <= reserved_ /\ Held' = Held /\ reserved_' = reserved_ /\ reserved_ \in Nat
    BY ValuesAre DEF Held, Types
  <1>2. x \in 0 .. reserved_ - 1 /\ y \in 0 .. reserved_ - 1
    BY <1>1
  <1>3. /\ heap_ \in [0 .. reserved_ - 1 -> 0 .. reserved_ - 1]
        /\ map_ \in [0 .. reserved_ - 1 -> 0 .. reserved_ - 1]
        /\ AreInverse(heap_, map_) /\ AreInverse(map_, heap_)
    BY DEF Types, Slots, Paired
  <1>4. /\ heap_' \in [0 .. reserved_ - 1 -> 0 .. reserved_ - 1]
        /\ map_' \in [0 .. reserved_ - 1 -> 0 .. reserved_ - 1]
        /\ heap_'[x] = heap_[y] /\ heap_'[y] = heap_[x]
        /\ \A i \in 0 .. reserved_ - 1 : i # x /\ i # y => heap_'[i] = heap_[i]
        /\ \A p \in 0 .. reserved_ - 1 : map_'[p] \in {map_[p], x, y}
        /\ AreInverse(heap_', map_') /\ AreInverse(map_', heap_')
    BY <1>2, <1>3, SlotsSwap DEF Slots
  <1>5. ASSUME NEW i \in 0 .. Held - 1
        PROVE  /\ i \in 0 .. reserved_ - 1 /\ heap_'[i] \in DOMAIN store_
    <2>1. i \in 0 .. reserved_ - 1
      BY <1>1
    <2>2. heap_[i] \in DOMAIN store_ /\ heap_[x] \in DOMAIN store_ /\ heap_[y] \in DOMAIN store_
      BY DEF Placed
    <2>. QED BY <1>4, <2>1, <2>2
  <1>6. Types'
    BY <1>1, <1>4 DEF Types, Slots
  <1>7. Room'
    BY <1>1 DEF Room
  <1>8. Linked'
    BY DEF Linked
  <1>9. Placed'
    <2>1. ASSUME NEW p \in DOMAIN store_ PROVE map_'[p] < Held /\ heap_'[map_'[p]] = p
      <3>1. p \in 0 .. reserved_ - 1
        BY DEF Types, Slots
      <3>2. map_[p] < Held
        BY DEF Placed
      <3>3. map_'[p] < Held
        <4>1. map_'[p] \in {map_[p], x, y}
          BY <1>4, <3>1
        <4>2. x < Held /\ y < Held
          BY <1>1
        <4>. QED BY <3>2, <4>1, <4>2
      <3>. QED BY <1>4, <3>1, <3>3 DEF AreInverse
    <2>. QED BY <1>1, <1>5, <2>1 DEF Placed
  <1>10. Paired'
    BY <1>4 DEF Paired
  <1>11. Values' = Swapped(Values, x, y)
    <2>1. /\ Values \in [0 .. Held - 1 -> Int]
          /\ \A i \in 0 .. Held - 1 : Values[i] = At(i)
      BY ValuesAre
    <2>2. Values' \in [0 .. Held - 1 -> Int] /\ \A i \in 0 .. Held - 1 : Values'[i] = At(i)'
      BY <1>1, <1>6, <1>7, <1>9, ValuesAreThen
    <2>3. /\ Swapped(Values, x, y) \in [0 .. Held - 1 -> Int]
          /\ Swapped(Values, x, y)[x] = Values[y] /\ Swapped(Values, x, y)[y] = Values[x]
          /\ \A i \in 0 .. Held - 1 : i # x /\ i # y => Swapped(Values, x, y)[i] = Values[i]
      <3>. DEFINE w == Values
      <3>. HIDE DEF w
      <3>1. w \in [0 .. Held - 1 -> Int]
        BY <2>1 DEF w
      <3>2. /\ Swapped(w, x, y) \in [0 .. Held - 1 -> Int]
            /\ Swapped(w, x, y)[x] = w[y] /\ Swapped(w, x, y)[y] = w[x]
            /\ \A i \in 0 .. Held - 1 : i # x /\ i # y => Swapped(w, x, y)[i] = w[i]
        BY <1>1, <3>1 DEF Swapped
      <3>. QED BY <3>2 DEF w
    <2>4. ASSUME NEW i \in 0 .. Held - 1, NEW j \in 0 .. Held - 1, heap_'[i] = heap_[j]
          PROVE  Values'[i] = Values[j]
      <3>1. At(i)' = At(j)
        BY <2>4 DEF At
      <3>. QED BY <2>1, <2>2, <3>1
    <2>5. ASSUME NEW i \in 0 .. Held - 1 PROVE Values'[i] = Swapped(Values, x, y)[i]
      <3>1. CASE i = x
        BY <1>4, <2>3, <2>4, <3>1
      <3>2. CASE i = y
        BY <1>4, <2>3, <2>4, <3>2
      <3>3. CASE i # x /\ i # y
        <4>1. heap_'[i] = heap_[i]
          BY <1>4, <1>5, <3>3
        <4>2. Values'[i] = Values[i]
          BY <2>4, <4>1
        <4>. QED BY <2>3, <3>3, <4>2
      <3>. QED BY <3>1, <3>2, <3>3
    <2>. DEFINE S == 0 .. Held - 1
                u == Values'
                v == Swapped(Values, x, y)
    <2>. HIDE DEF S, u, v
    <2>6. u \in [S -> Int] /\ v \in [S -> Int] /\ \A i \in S : u[i] = v[i]
      BY <2>2, <2>3, <2>5 DEF S, u, v
    <2>7. u = v
      BY <2>6
    <2>. QED BY <2>7 DEF u, v
  <1>. QED BY <1>1, <1>6, <1>7, <1>8, <1>9, <1>10, <1>11

LEMMA HeapUpKeeps ==
    ASSUME BinaryHeapAssumption, Inv, HeapUp
    PROVE  Inv'
  <1>. DEFINE y == Parent(index)
              w == Values
  <1>1. /\ loop \in {"insert", "up"} /\ loop' = loop /\ index' = y
        /\ index > 0 /\ At(index) < At(y) /\ SwapElements(index, y)
        /\ UNCHANGED <<size_, reserved_, store_, keymap_, si>>
    BY DEF HeapUp, Rises
  <1>2. Types /\ Room /\ Linked /\ Placed /\ Paired /\ Order
    BY DEF Inv
  <1>3. /\ Held \in Nat /\ w \in [0 .. Held - 1 -> Int]
        /\ \A i \in 0 .. Held - 1 : w[i] = At(i)
    BY <1>2, ValuesAre
  <1>4. index \in 1 .. Held - 1 /\ y \in 0 .. Held - 1 /\ y # index
    <2>1. index \in Nat /\ index < Held
      BY <1>1, <1>2 DEF Types, Room
    <2>2. y \in Nat /\ y < index
      BY <1>1, <2>1, ParentIsBefore
    <2>. QED BY <1>1, <1>3, <2>1, <2>2
  <1>5. /\ Types' /\ Room' /\ Linked' /\ Placed' /\ Paired'
        /\ Held' = Held /\ Values' = Swapped(w, index, y)
    <2>1. index \in 0 .. Held - 1 /\ loop \in {"insert", "up", "down"}
      BY <1>1, <1>3, <1>4
    <2>. QED BY <1>1, <1>2, <1>4, <2>1, SwapKeeps
  <1>. HIDE DEF w
  <1>6. w[index] < w[Parent(index)]
    BY <1>1, <1>3, <1>4
  <1>7. CASE loop = "insert"
    <2>1. AllButOne(w, Held, index)
      BY <1>2, <1>7 DEF Order, w
    <2>2. AllButOne(Swapped(w, index, y), Held, y)
      BY <1>3, <1>4, <1>6, <2>1, OneRises
    <2>3. Order'
      BY <1>1, <1>5, <1>7, <2>2 DEF Order
    <2>. QED BY <1>5, <2>3 DEF Inv
  <1>8. CASE loop = "up"
    <2>1. AllButAround(w, Held, index)
      BY <1>2, <1>8 DEF Order, w
    <2>2. AllButAround(Swapped(w, index, y), Held, y)
      BY <1>3, <1>4, <1>6, <2>1, OneRisesAround
    <2>3. Order'
      BY <1>1, <1>5, <1>8, <2>2 DEF Order
    <2>. QED BY <1>5, <2>3 DEF Inv
  <1>. QED BY <1>1, <1>7, <1>8


LEMMA InsertedKeeps ==
    ASSUME BinaryHeapAssumption, Inv, Inserted
    PROVE  Inv'
  <1>1. /\ loop = "insert" /\ ~ Rises /\ size_' = size_ + 1 /\ TryGrow(size_ + 1) /\ loop' = "none"
        /\ UNCHANGED <<store_, keymap_, index, si>>
    BY DEF Inserted
  <1>2. /\ Types /\ Room /\ Linked /\ Placed /\ Paired /\ Order
        /\ Held = size_ + 1 /\ Held' = Held
    BY <1>1 DEF Inv, Held
  <1>3. /\ Held \in Nat /\ Held <= reserved_ /\ Values \in [0 .. Held - 1 -> Int]
        /\ \A i \in 0 .. Held - 1 : Values[i] = At(i) /\ heap_[i] \in DOMAIN store_
    BY <1>2, ValuesAre
  <1>4. /\ reserved_' \in Nat \ {0} /\ reserved_ <= reserved_' /\ size_' < reserved_'
        /\ heap_' \in [0 .. reserved_' - 1 -> 0 .. reserved_' - 1]
        /\ map_' \in [0 .. reserved_' - 1 -> 0 .. reserved_' - 1]
        /\ \A i \in 0 .. reserved_ - 1 : heap_'[i] = heap_[i] /\ map_'[i] = map_[i]
        /\ AreInverse(heap_', map_') /\ AreInverse(map_', heap_')
    <2>1. /\ heap_ \in [0 .. reserved_ - 1 -> 0 .. reserved_ - 1]
          /\ map_ \in [0 .. reserved_ - 1 -> 0 .. reserved_ - 1]
          /\ reserved_ \in Nat \ {0} /\ size_ \in Nat /\ size_ < reserved_
      BY <1>2 DEF Types, Room, Slots
    <2>2. \A i \in 0 .. reserved_ - 1 : map_[heap_[i]] = i /\ heap_[map_[i]] = i
      BY <1>1, <1>2, <2>1 DEF Paired, AreInverse
    <2>3. CASE size_ + 1 = reserved_
      <3>1. /\ reserved_' = 2 * reserved_
            /\ heap_' = [i \in 0 .. 2 * reserved_ - 1 |-> IF i < reserved_ THEN heap_[i] ELSE i]
            /\ map_' = [i \in 0 .. 2 * reserved_ - 1 |-> IF i < reserved_ THEN map_[i] ELSE i]
        BY <1>1, <2>3 DEF TryGrow
      <3>. DEFINE S == 0 .. reserved_ - 1
                  T == 0 .. 2 * reserved_ - 1
      <3>2. S \subseteq T /\ \A i \in T : i < reserved_ <=> i \in S
        <4>1. ASSUME NEW r \in Nat, NEW i \in 0 .. 2 * r - 1
              PROVE  i < r <=> i \in 0 .. r - 1
          OBVIOUS
        <4>2. ASSUME NEW r \in Nat, NEW i \in 0 .. r - 1
              PROVE  i \in 0 .. 2 * r - 1
          OBVIOUS
        <4>. QED BY <2>1, <4>1, <4>2
      <3>3. heap_ \in [S -> S] /\ map_ \in [S -> S] /\ \A i \in S : map_[heap_[i]] = i /\ heap_[map_[i]] = i
        BY <2>1, <2>2
      <3>4. /\ heap_' = [i \in T |-> IF i < reserved_ THEN heap_[i] ELSE i]
            /\ map_' = [i \in T |-> IF i < reserved_ THEN map_[i] ELSE i]
        BY <3>1
      <3>. HIDE DEF S, T
      <3>5. /\ \A i \in S : heap_'[i] = heap_[i] /\ map_'[i] = map_[i]
            /\ \A i \in T : i \notin S => heap_'[i] = i /\ map_'[i] = i
        BY <3>2, <3>4
      <3>6. heap_' \in [T -> T] /\ map_' \in [T -> T]
        BY <3>2, <3>3, <3>4
      <3>7. ASSUME NEW i \in T PROVE map_'[heap_'[i]] = i /\ heap_'[map_'[i]] = i
        <4>1. CASE i \in S
          BY <3>3, <3>5, <4>1
        <4>2. CASE i \notin S
          BY <3>5, <4>2
        <4>. QED BY <4>1, <4>2
      <3>8. AreInverse(heap_', map_') /\ AreInverse(map_', heap_')
        BY <3>6, <3>7 DEF AreInverse
      <3>9. reserved_' \in Nat \ {0} /\ reserved_ <= reserved_' /\ size_' < reserved_'
        BY <1>1, <2>1, <2>3, <3>1
      <3>. QED BY <3>1, <3>5, <3>6, <3>8, <3>9 DEF S, T
    <2>4. CASE size_ + 1 # reserved_
      <3>1. reserved_' = reserved_ /\ heap_' = heap_ /\ map_' = map_
        BY <1>1, <2>4 DEF TryGrow
      <3>2. AreInverse(heap_', map_') /\ AreInverse(map_', heap_')
        BY <3>1, <1>1, <1>2 DEF Paired
      <3>3. reserved_' \in Nat \ {0} /\ reserved_ <= reserved_' /\ size_' < reserved_'
        BY <1>1, <2>1, <2>4, <3>1
      <3>. QED BY <2>1, <3>1, <3>2, <3>3
    <2>. QED BY <2>3, <2>4
  <1>5. ASSUME NEW p \in DOMAIN store_ PROVE p \in 0 .. reserved_ - 1
    BY <1>2 DEF Types, Slots
  <1>6. Types'
    <2>1. DOMAIN store_ \subseteq 0 .. reserved_' - 1
      BY <1>2, <1>4, <1>5 DEF Types
    <2>. QED BY <1>1, <1>2, <1>4, <2>1 DEF Types, Slots
  <1>7. Room'
    BY <1>1, <1>4 DEF Room
  <1>8. Linked'
    BY <1>1, <1>2 DEF Linked
  <1>9. Placed'
    <2>1. ASSUME NEW i \in 0 .. Held - 1 PROVE heap_'[i] \in DOMAIN store_
      BY <1>2, <1>3, <1>4 DEF Types
    <2>2. ASSUME NEW p \in DOMAIN store_ PROVE map_'[p] < Held /\ heap_'[map_'[p]] = p
      <3>1. map_'[p] = map_[p] /\ map_[p] < Held
        BY <1>2, <1>4, <1>5 DEF Placed
      <3>2. p \in DOMAIN map_'
        BY <1>2, <1>4, <1>5 DEF Types
      <3>. QED BY <1>4, <3>1, <3>2 DEF AreInverse
    <2>. QED BY <1>1, <1>2, <2>1, <2>2 DEF Placed
  <1>10. Paired'
    BY <1>1, <1>4 DEF Paired
  <1>11. Order'
    <2>1. Values' \in [0 .. Held - 1 -> Int] /\ \A i \in 0 .. Held - 1 : Values'[i] = At(i)'
      BY <1>2, <1>6, <1>7, <1>9, ValuesAreThen
    <2>2. ASSUME NEW i \in 0 .. Held - 1 PROVE Values'[i] = Values[i]
      <3>1. heap_'[i] = heap_[i]
        BY <1>2, <1>3, <1>4 DEF Types
      <3>2. At(i)' = At(i)
        BY <1>1, <3>1 DEF At
      <3>. QED BY <1>3, <2>1, <3>2
    <2>. DEFINE w == Values
                u == Values'
                S == 0 .. Held - 1
    <2>. HIDE DEF w, u, S
    <2>3. u = w
      <3>1. u \in [S -> Int] /\ w \in [S -> Int] /\ \A i \in S : u[i] = w[i]
        BY <1>3, <2>1, <2>2 DEF u, w, S
      <3>. QED BY <3>1
    <2>4. w \in [0 .. Held - 1 -> Int] /\ AllButOne(w, Held, index)
      BY <1>1, <1>2, <1>3 DEF Order, w
    <2>5. index \in 0 .. Held - 1
      BY <1>1, <1>2, <1>3 DEF Types, Room
    <2>6. ~ (index > 0 /\ w[index] < w[Parent(index)])
      <3>1. CASE index > 0
        <4>1. Parent(index) \in 0 .. Held - 1
          BY <1>3, <2>5, <3>1, ParentIsBefore
        <4>. QED BY <1>1, <1>3, <2>5, <3>1, <4>1 DEF Rises, w
      <3>. QED BY <3>1
    <2>7. AllOrdered(w, Held)
      BY <1>3, <2>4, <2>5, <2>6, RisenIsOrdered
    <2>8. AllOrdered(Values', Held')
      BY <1>2, <2>3, <2>7 DEF u
    <2>. QED BY <1>1, <2>8 DEF Order
  <1>. QED BY <1>6, <1>7, <1>8, <1>9, <1>10, <1>11 DEF Inv

LEMMA RaisedKeeps ==
    ASSUME BinaryHeapAssumption, Inv, Raised
    PROVE  Inv'
  <1>1. loop = "up" /\ ~ Rises /\ loop' = "down" /\ UNCHANGED <<arrays, index, si>>
    BY DEF Raised
  <1>2. Types /\ Room /\ Linked /\ Placed /\ Paired /\ Order /\ Held = size_ /\ Held' = Held
    BY <1>1 DEF Inv, Held, arrays
  <1>3. /\ Held \in Nat /\ Values \in [0 .. Held - 1 -> Int]
        /\ \A i \in 0 .. Held - 1 : Values[i] = At(i)
    BY <1>2, ValuesAre
  <1>4. Types' /\ Room' /\ Linked' /\ Placed' /\ Paired'
    BY <1>1, <1>2 DEF arrays, Types, Slots, Room, Linked, Placed, Paired, AreInverse
  <1>5. Order'
    <2>1. Values' = Values
      BY <1>1, <1>2 DEF arrays, Values, At
    <2>2. index \in 0 .. Held - 1
      BY <1>1, <1>2, <1>3 DEF Types, Room
    <2>. DEFINE w == Values
    <2>. HIDE DEF w
    <2>3. ~ (index > 0 /\ w[index] < w[Parent(index)])
      <3>1. CASE index > 0
        <4>1. Parent(index) \in 0 .. Held - 1
          BY <1>3, <2>2, <3>1, ParentIsBefore
        <4>. QED BY <1>1, <1>3, <2>2, <3>1, <4>1 DEF Rises, w
      <3>. QED BY <3>1
    <2>4. w \in [0 .. Held - 1 -> Int] /\ AllButAround(w, Held, index)
      BY <1>1, <1>2, <1>3 DEF Order, w
    <2>5. AllButBelow(w, Held, index)
      BY <1>3, <2>2, <2>3, <2>4, RisenIsOrdered
    <2>6. AllButBelow(Values', Held', index')
      BY <1>1, <1>2, <2>1, <2>5 DEF w
    <2>. QED BY <1>1, <2>6 DEF Order
  <1>. QED BY <1>4, <1>5 DEF Inv


LEMMA HeapDownKeeps ==
    ASSUME BinaryHeapAssumption, Inv, HeapDown
    PROVE  Inv'
  <1>. DEFINE c == Child
              w == Values
  <1>1. /\ loop = "down" /\ loop' = loop /\ index' = c /\ SwapElements(index, c)
        /\ 2 * index + 1 < size_ /\ ~ (At(index) < At(c))
        /\ UNCHANGED <<size_, reserved_, store_, keymap_, si>>
    BY DEF HeapDown, Sinks, Left
  <1>2. Types /\ Room /\ Linked /\ Placed /\ Paired /\ Order /\ Held = size_ /\ index \in Nat
    BY <1>1 DEF Inv, Held, Types
  <1>3. /\ Held \in Nat /\ w \in [0 .. Held - 1 -> Int]
        /\ \A i \in 0 .. Held - 1 : w[i] = At(i)
    BY <1>2, ValuesAre
  <1>4. index \in 0 .. Held - 1 /\ 2 * index + 1 \in 0 .. Held - 1
    BY <1>1, <1>2, <1>3 DEF Room
  <1>5. /\ c \in {2 * index + 1, 2 * index + 2} /\ c \in 1 .. Held - 1 /\ Parent(c) = index
        /\ At(c) <= At(2 * index + 1)
        /\ 2 * index + 2 < size_ => At(c) <= At(2 * index + 2)
    <2>1. At(2 * index + 1) \in Int
      BY <1>3, <1>4
    <2>2. CASE 2 * index + 2 < size_
      <3>1. 2 * index + 2 \in 1 .. Held - 1 /\ At(2 * index + 2) \in Int
        BY <1>2, <1>3, <2>2
      <3>2. 2 * index + 1 + 1 = 2 * index + 2
        BY <1>2
      <3>3. CASE At(2 * index + 2) < At(2 * index + 1)
        <4>1. c = 2 * index + 2
          BY <2>2, <3>2, <3>3 DEF Child, Left
        <4>. QED BY <1>2, <2>1, <3>1, <3>3, <4>1, ChildrenAre
      <3>4. CASE ~ (At(2 * index + 2) < At(2 * index + 1))
        <4>1. c = 2 * index + 1
          BY <3>2, <3>4 DEF Child, Left
        <4>. QED BY <1>2, <1>4, <2>1, <3>1, <3>4, <4>1, ChildrenAre
      <3>. QED BY <3>3, <3>4
    <2>3. CASE ~ (2 * index + 2 < size_)
      <3>1. 2 * index + 1 + 1 = 2 * index + 2
        BY <1>2
      <3>2. c = 2 * index + 1
        BY <2>3, <3>1 DEF Child, Left
      <3>. QED BY <1>2, <1>4, <2>1, <2>3, <3>2, ChildrenAre
    <2>. QED BY <2>2, <2>3
  <1>. HIDE DEF c
  <1>6. c \in 0 .. Held - 1 /\ c # index
    BY <1>5, ParentIsBefore
  <1>7. /\ Types' /\ Room' /\ Linked' /\ Placed' /\ Paired'
        /\ Held' = Held /\ Values' = Swapped(w, index, c)
    BY <1>1, <1>2, <1>4, <1>6, SwapKeeps
  <1>. HIDE DEF w
  <1>8. w[c] <= w[index]
    BY <1>1, <1>3, <1>4, <1>6
  <1>9. ASSUME NEW i \in 1 .. Held - 1, Parent(i) = index PROVE w[c] <= w[i]
    <2>1. i \in 0 .. Held - 1 /\ i < size_
      BY <1>2, <1>3
    <2>2. i = 2 * index + 1 \/ i = 2 * index + 2
      BY <1>9, ParentIsBefore
    <2>3. At(c) <= At(i)
      BY <1>5, <2>1, <2>2
    <2>. QED BY <1>3, <1>6, <2>1, <2>3
  <1>10. AllButBelow(w, Held, index)
    BY <1>1, <1>2 DEF Order, w
  <1>11. AllButBelow(Swapped(w, index, c), Held, c)
    BY <1>3, <1>4, <1>5, <1>8, <1>9, <1>10, OneSinks
  <1>12. Order'
    BY <1>1, <1>7, <1>11 DEF Order
  <1>. QED BY <1>7, <1>12 DEF Inv

LEMMA ShrinkBegins ==
    ASSUME BinaryHeapAssumption, reserved_ \in Nat, index \in Nat, si \in Nat, NEW n, TryShrink(n)
    PROVE  /\ loop' \in {"none", "shrink"} /\ index' \in Nat /\ si' \in Nat
           /\ loop' = "shrink" => index' = 0 /\ si' = 0 /\ 4 * n < reserved_ /\ reserved_ > 1
  BY DEF TryShrink, BinaryHeapAssumption

LEMMA LoweredKeeps ==
    ASSUME BinaryHeapAssumption, Inv, Lowered
    PROVE  Inv'
  <1>. DEFINE w == Values
  <1>1. loop = "down" /\ ~ Sinks /\ TryShrink(size_) /\ UNCHANGED arrays
    BY DEF Lowered
  <1>2. Types /\ Room /\ Linked /\ Placed /\ Paired /\ Order /\ Held = size_
    BY <1>1 DEF Inv, Held
  <1>3. /\ loop' \in {"none", "shrink"} /\ index' \in Nat /\ si' \in Nat
        /\ loop' = "shrink" => index' = 0 /\ si' = 0 /\ 4 * size_ < reserved_ /\ reserved_ > 1
    BY <1>1, <1>2, ShrinkBegins DEF Types
  <1>4. Held' = Held
    BY <1>1, <1>2, <1>3 DEF Held, arrays
  <1>5. /\ Held \in Nat /\ w \in [0 .. Held - 1 -> Int]
        /\ \A i \in 0 .. Held - 1 : w[i] = At(i)
    BY <1>2, ValuesAre
  <1>6. Types' /\ Linked'
    BY <1>1, <1>2, <1>3 DEF arrays, Types, Slots, Linked
  <1>7. Room'
    BY <1>1, <1>2, <1>3 DEF arrays, Types, Room, Kept
  <1>8. Placed'
    BY <1>1, <1>2, <1>4 DEF arrays, Placed
  <1>9. Paired'
    <2>1. AreInverse(heap_, map_) /\ AreInverse(map_, heap_)
      BY <1>1, <1>2 DEF Paired
    <2>2. CASE loop' = "none"
      BY <1>1, <2>1, <2>2 DEF arrays, Paired
    <2>3. CASE loop' = "shrink"
      <3>1. ASSUME NEW i \in 0 .. Kept - 1 PROVE map_[heap_[i]] = i /\ heap_[map_[i]] = i
        <4>1. i \in Slots
          BY <1>2 DEF Types, Slots, Kept
        <4>. QED BY <1>2, <2>1, <4>1 DEF Types, AreInverse
      <3>. QED BY <1>1, <1>3, <2>3, <3>1 DEF arrays, Paired, Kept
    <2>. QED BY <1>3, <2>2, <2>3
  <1>10. Order'
    <2>1. Values' = w
      BY <1>1, <1>4 DEF arrays, Values, At
    <2>2. index \in 0 .. Held - 1
      BY <1>1, <1>2, <1>5 DEF Types, Room
    <2>3. ASSUME NEW i \in 1 .. Held - 1, Parent(i) = index PROVE w[index] <= w[i]
      <3>1. i \in 0 .. Held - 1 /\ i < size_ /\ index \in Nat
        BY <1>2, <1>5, <2>2
      <3>2. i = 2 * index + 1 \/ i = 2 * index + 2
        BY <2>3, ParentIsBefore
      <3>3. 2 * index + 1 < size_ /\ 2 * index + 1 \in 0 .. Held - 1
        BY <1>2, <1>5, <3>1, <3>2
      <3>4. At(index) < At(Child)
        BY <1>1, <3>3 DEF Sinks, Left
      <3>5. At(index) \in Int /\ At(2 * index + 1) \in Int /\ At(i) \in Int
        BY <1>5, <2>2, <3>1, <3>3
      <3>6. 2 * index + 1 + 1 = 2 * index + 2
        BY <3>1
      <3>7. CASE 2 * index + 2 < size_ /\ At(2 * index + 2) < At(2 * index + 1)
        <4>1. Child = 2 * index + 2
          BY <3>6, <3>7 DEF Child, Left
        <4>2. At(2 * index + 2) \in Int
          BY <1>2, <1>5, <3>1, <3>7
        <4>3. At(index) <= At(i)
          BY <3>2, <3>4, <3>5, <3>7, <4>1, <4>2
        <4>. QED BY <1>5, <2>2, <3>1, <4>3
      <3>8. CASE ~ (2 * index + 2 < size_ /\ At(2 * index + 2) < At(2 * index + 1))
        <4>1. Child = 2 * index + 1
          BY <3>6, <3>8 DEF Child, Left
        <4>2. At(index) <= At(i)
          <5>1. CASE i = 2 * index + 1
            BY <3>4, <3>5, <4>1, <5>1
          <5>2. CASE i = 2 * index + 2
            BY <3>1, <3>4, <3>5, <3>8, <4>1, <5>2
          <5>. QED BY <3>2, <5>1, <5>2
        <4>. QED BY <1>5, <2>2, <3>1, <4>2
      <3>. QED BY <3>7, <3>8
    <2>. HIDE DEF w
    <2>4. AllButBelow(w, Held, index)
      BY <1>1, <1>2 DEF Order, w
    <2>5. AllOrdered(w, Held)
      BY <1>5, <2>2, <2>3, <2>4, SunkIsOrdered
    <2>6. AllOrdered(Values', Held')
      BY <1>4, <2>1, <2>5
    <2>. QED BY <1>3, <2>6 DEF Order
  <1>. QED BY <1>6, <1>7, <1>8, <1>9, <1>10 DEF Inv


LEMMA EraseAtKeeps ==
    ASSUME BinaryHeapAssumption, Inv, loop = "none", NEW pos \in DOMAIN store_, EraseAt(pos)
    PROVE  Inv' /\ DOMAIN keymap_' = DOMAIN keymap_ \ {store_[pos]}
  <1>. DEFINE hp == map_[pos]
              n  == size_ - 1
              k  == store_[pos]
  <1>1. /\ keymap_' = Without(keymap_, k) /\ store_' = Without(store_, pos) /\ size_' = n
        /\ reserved_' = reserved_
        /\ \/ hp < n /\ SwapElements(hp, n) /\ loop' = "up" /\ index' = hp /\ si' = si
           \/ ~ (hp < n) /\ TryShrink(n) /\ heap_' = heap_ /\ map_' = map_
    BY DEF EraseAt
  <1>2. Types /\ Room /\ Linked /\ Placed /\ Paired /\ Order /\ Held = size_
    BY DEF Inv, Held
  <1>3. /\ Held \in Nat /\ Held <= reserved_ /\ Values \in [0 .. Held - 1 -> Int]
        /\ \A i \in 0 .. Held - 1 : Values[i] = At(i) /\ heap_[i] \in DOMAIN store_
    BY <1>2, ValuesAre
  <1>4. /\ heap_ \in [Slots -> Slots] /\ map_ \in [Slots -> Slots]
        /\ AreInverse(heap_, map_) /\ AreInverse(map_, heap_)
    BY <1>2 DEF Types, Paired
  <1>5. /\ pos \in Slots /\ hp \in 0 .. size_ - 1 /\ hp \in Slots /\ heap_[hp] = pos
        /\ n \in Nat /\ n < size_ /\ n \in 0 .. size_ - 1 /\ n \in Slots
        /\ hp < n \/ hp = n
    <2>1. pos \in Slots
      BY <1>2 DEF Types
    <2>2. hp \in Slots /\ hp < size_ /\ heap_[hp] = pos
      BY <1>2, <2>1 DEF Types, Placed
    <2>. QED BY <1>2, <1>3, <2>1, <2>2 DEF Slots, Types
  <1>6. k \in DOMAIN keymap_ /\ keymap_[k] = pos
    BY <1>2 DEF Linked
  <1>. HIDE DEF hp, n, k
  <1>7. /\ DOMAIN store_' = DOMAIN store_ \ {pos}
        /\ \A q \in DOMAIN store_ \ {pos} : store_'[q] = store_[q]
        /\ store_' \in [DOMAIN store_' -> Keys] /\ DOMAIN store_' \subseteq Slots
    <2>1. \A q \in DOMAIN store_ : store_[q] \in Keys /\ q \in Slots
      BY <1>2 DEF Types
    <2>. QED BY <1>1, <2>1 DEF Without
  <1>8. /\ DOMAIN keymap_' = DOMAIN keymap_ \ {k}
        /\ \A j \in DOMAIN keymap_ \ {k} : keymap_'[j] = keymap_[j]
        /\ keymap_' \in [DOMAIN keymap_' -> DOMAIN store_'] /\ DOMAIN keymap_' \subseteq Keys
    <2>1. /\ DOMAIN keymap_' = DOMAIN keymap_ \ {k}
          /\ \A j \in DOMAIN keymap_ \ {k} : keymap_'[j] = keymap_[j]
          /\ keymap_' = [j \in DOMAIN keymap_' |-> keymap_'[j]]
      BY <1>1 DEF Without
    <2>2. DOMAIN keymap_ \subseteq Keys
      BY <1>2 DEF Types
    <2>3. ASSUME NEW j \in DOMAIN keymap_ \ {k} PROVE keymap_[j] \in DOMAIN store_ \ {pos}
      <3>1. keymap_[j] \in DOMAIN store_ /\ store_[keymap_[j]] = j
        BY <1>2 DEF Types, Linked
      <3>. QED BY <3>1 DEF k
    <2>. QED BY <1>7, <2>1, <2>2, <2>3
  <1>9. Linked'
    <2>1. ASSUME NEW j \in DOMAIN keymap_' PROVE store_'[keymap_'[j]] = j
      <3>1. j \in DOMAIN keymap_ /\ keymap_'[j] = keymap_[j] /\ keymap_[j] \in DOMAIN store_ \ {pos}
        BY <1>7, <1>8
      <3>. QED BY <1>2, <1>7, <3>1 DEF Linked
    <2>2. ASSUME NEW q \in DOMAIN store_' PROVE store_'[q] \in DOMAIN keymap_' /\ keymap_'[store_'[q]] = q
      <3>1. q \in DOMAIN store_ /\ q # pos /\ store_'[q] = store_[q]
        BY <1>7
      <3>2. store_[q] \in DOMAIN keymap_ /\ keymap_[store_[q]] = q
        BY <1>2, <3>1 DEF Linked
      <3>3. store_[q] # k
        BY <1>6, <3>1, <3>2
      <3>. QED BY <1>8, <3>1, <3>2, <3>3
    <2>. QED BY <2>1, <2>2 DEF Linked
  <1>10. loop' # "insert" /\ Held' = n
    <2>1. TryShrink(n) => loop' \in {"none", "shrink"}
      BY DEF TryShrink
    <2>. QED BY <1>1, <2>1 DEF Held
  <1>11. CASE hp < n
    <2>1. SwapElements(hp, n) /\ loop' = "up" /\ index' = hp /\ si' = si
      BY <1>1, <1>11, <1>5
    <2>2. /\ heap_' \in [Slots -> Slots] /\ map_' \in [Slots -> Slots]
          /\ heap_'[hp] = heap_[n] /\ heap_'[n] = heap_[hp]
          /\ \A i \in Slots : i # hp /\ i # n => heap_'[i] = heap_[i]
          /\ \A p \in Slots : map_'[p] \in {map_[p], hp, n}
          /\ AreInverse(heap_', map_') /\ AreInverse(map_', heap_')
      BY <1>2, <1>5, <2>1, SlotsSwap
    <2>3. Types'
      <3>1. /\ size_' \in Nat /\ reserved_' \in Nat \ {0} /\ index' \in Nat /\ si' \in Nat
            /\ loop' \in {"none", "insert", "up", "down", "shrink"} /\ Slots' = Slots
        BY <1>1, <1>2, <1>5, <2>1 DEF Types, Slots
      <3>2. heap_' \in [Slots' -> Slots'] /\ map_' \in [Slots' -> Slots']
        BY <2>2, <3>1
      <3>. QED BY <1>7, <1>8, <3>1, <3>2 DEF Types
    <2>4. Room'
      BY <1>1, <1>2, <1>5, <1>10, <1>11, <2>1 DEF Types, Room
    <2>5. ASSUME NEW i \in 0 .. n - 1
          PROVE  /\ i \in Slots /\ i \in 0 .. size_ - 1 /\ i # n
                 /\ i # hp => heap_'[i] = heap_[i]
                 /\ heap_'[i] \in DOMAIN store_'
      <3>1. i \in Slots /\ i \in 0 .. size_ - 1 /\ i # n
        BY <1>2, <1>3, <1>5 DEF Slots, Types
      <3>2. heap_[i] \in DOMAIN store_ /\ heap_[n] \in DOMAIN store_
        BY <1>2, <1>3, <1>5, <3>1
      <3>3. \A a, b \in Slots : heap_[a] = heap_[b] => a = b
        BY <1>4 DEF AreInverse
      <3>4. heap_[n] # pos /\ (i # hp => heap_[i] # pos)
        BY <1>5, <1>11, <3>1, <3>3
      <3>. QED BY <1>7, <2>2, <3>1, <3>2, <3>4
    <2>6. Placed'
      <3>1. ASSUME NEW p \in DOMAIN store_' PROVE map_'[p] < n /\ heap_'[map_'[p]] = p
        <4>1. p \in Slots /\ p \in DOMAIN store_ /\ p # pos
          BY <1>7
        <4>2. heap_'[map_'[p]] = p /\ map_'[p] \in Slots
          BY <2>2, <4>1 DEF AreInverse
        <4>3. map_'[p] # n
          BY <1>5, <2>2, <4>1, <4>2
        <4>4. map_[p] < size_
          BY <1>2, <4>1 DEF Placed
        <4>5. map_'[p] < size_ /\ map_'[p] \in Nat
          <5>1. map_'[p] \in {map_[p], hp, n}
            BY <2>2, <4>1
          <5>2. map_'[p] \in Nat
            BY <4>2 DEF Slots
          <5>3. hp < size_ /\ n < size_
            BY <1>2, <1>5 DEF Types
          <5>. QED BY <4>4, <5>1, <5>2, <5>3
        <4>. QED BY <1>2, <1>5, <4>2, <4>3, <4>5 DEF n, Types
      <3>. QED BY <1>10, <2>5, <3>1 DEF Placed
    <2>7. Paired'
      BY <2>1, <2>2 DEF Paired
    <2>8. Order'
      <3>1. Values' \in [0 .. n - 1 -> Int] /\ \A i \in 0 .. n - 1 : Values'[i] = At(i)'
        BY <1>10, <2>3, <2>4, <2>6, ValuesAreThen
      <3>2. ASSUME NEW i \in 0 .. n - 1, i # hp PROVE Values'[i] = Values[i]
        <4>1. heap_'[i] = heap_[i] /\ store_'[heap_[i]] = store_[heap_[i]]
          BY <1>7, <2>5, <3>2
        <4>2. At(i)' = At(i)
          BY <4>1 DEF At
        <4>. QED BY <1>2, <1>3, <2>5, <3>1, <4>2
      <3>. DEFINE w == Values
                  u == Values'
      <3>. HIDE DEF w, u
      <3>3. w \in [0 .. n -> Int] /\ u \in [0 .. n - 1 -> Int]
        <4>1. Held - 1 = n
          BY <1>2 DEF n
        <4>. QED BY <1>3, <3>1, <4>1 DEF u, w
      <3>4. AllOrdered(w, n + 1)
        <4>1. Held = n + 1
          BY <1>2, <1>3 DEF n
        <4>. QED BY <1>2, <4>1 DEF Order, w
      <3>5. hp \in 0 .. n - 1
        BY <1>5, <1>11
      <3>6. \A i \in 0 .. n - 1 : i # hp => u[i] = w[i]
        BY <3>2 DEF u, w
      <3>7. AllButAround(u, n, hp)
        BY <1>5, <3>3, <3>4, <3>5, <3>6, LastReplaces
      <3>. QED BY <1>10, <2>1, <3>7 DEF Order, u
    <2>. QED BY <1>8, <1>9, <2>3, <2>4, <2>6, <2>7, <2>8 DEF Inv, k
  <1>12. CASE hp = n
    <2>1. TryShrink(n) /\ heap_' = heap_ /\ map_' = map_
      BY <1>1, <1>12, <1>5
    <2>2. /\ loop' \in {"none", "shrink"} /\ index' \in Nat /\ si' \in Nat
          /\ loop' = "shrink" => index' = 0 /\ si' = 0 /\ 4 * n < reserved_ /\ reserved_ > 1
      BY <1>2, <2>1, ShrinkBegins DEF Types
    <2>3. Types'
      <3>1. /\ size_' \in Nat /\ reserved_' \in Nat \ {0} /\ index' \in Nat /\ si' \in Nat
            /\ loop' \in {"none", "insert", "up", "down", "shrink"} /\ Slots' = Slots
        BY <1>1, <1>2, <1>5, <2>1, <2>2 DEF Types, Slots
      <3>2. heap_' \in [Slots' -> Slots'] /\ map_' \in [Slots' -> Slots']
        BY <1>2, <2>1, <3>1 DEF Types
      <3>. QED BY <1>7, <1>8, <3>1, <3>2 DEF Types
    <2>4. Room'
      BY <1>1, <1>2, <1>5, <2>2 DEF Types, Room, Kept
    <2>5. ASSUME NEW i \in 0 .. n - 1
          PROVE  /\ i \in Slots /\ i \in 0 .. size_ - 1
                 /\ heap_[i] \in DOMAIN store_'
      <3>1. i \in Slots /\ i \in 0 .. size_ - 1 /\ i # n
        BY <1>2, <1>3, <1>5 DEF Slots, Types
      <3>2. heap_[i] \in DOMAIN store_
        BY <1>2, <1>3, <3>1
      <3>3. heap_[i] # pos
        BY <1>4, <1>5, <1>12, <3>1 DEF AreInverse
      <3>. QED BY <1>7, <3>1, <3>2, <3>3
    <2>6. Placed'
      <3>1. ASSUME NEW p \in DOMAIN store_' PROVE map_[p] < n /\ heap_[map_[p]] = p
        <4>1. p \in Slots /\ p \in DOMAIN store_ /\ p # pos
          BY <1>7
        <4>2. map_[p] < size_ /\ heap_[map_[p]] = p /\ map_[p] \in Nat
          BY <1>2, <1>4, <4>1 DEF Placed, Slots
        <4>3. map_[p] # n
          BY <1>5, <1>12, <4>1, <4>2
        <4>. QED BY <1>2, <1>5, <4>2, <4>3 DEF n, Types
      <3>. QED BY <1>10, <2>1, <2>5, <3>1 DEF Placed
    <2>7. Paired'
      <3>1. CASE loop' = "none"
        BY <1>4, <2>1, <3>1 DEF Paired
      <3>2. CASE loop' = "shrink"
        <4>1. ASSUME NEW i \in 0 .. Kept - 1 PROVE map_[heap_[i]] = i /\ heap_[map_[i]] = i
          <5>1. i \in Slots
            BY <1>2 DEF Types, Slots, Kept
          <5>. QED BY <1>4, <5>1 DEF AreInverse
        <4>. QED BY <1>1, <2>1, <2>2, <3>2, <4>1 DEF Paired, Kept
      <3>. QED BY <2>2, <3>1, <3>2
    <2>8. Order'
      <3>1. Values' \in [0 .. n - 1 -> Int] /\ \A i \in 0 .. n - 1 : Values'[i] = At(i)'
        BY <1>10, <2>3, <2>4, <2>6, ValuesAreThen
      <3>2. ASSUME NEW i \in 0 .. n - 1 PROVE Values'[i] = Values[i]
        <4>1. heap_'[i] = heap_[i] /\ store_'[heap_[i]] = store_[heap_[i]]
          BY <1>7, <2>1, <2>5
        <4>2. At(i)' = At(i)
          BY <4>1 DEF At
        <4>. QED BY <1>2, <1>3, <2>5, <3>1, <4>2
      <3>. DEFINE w == Values
                  u == Values'
      <3>. HIDE DEF w, u
      <3>3. w \in [0 .. n -> Int] /\ u \in [0 .. n - 1 -> Int]
        <4>1. Held - 1 = n
          BY <1>2 DEF n
        <4>. QED BY <1>3, <3>1, <4>1 DEF u, w
      <3>4. AllOrdered(w, n + 1)
        <4>1. Held = n + 1
          BY <1>2, <1>3 DEF n
        <4>. QED BY <1>2, <4>1 DEF Order, w
      <3>5. \A i \in 0 .. n - 1 : u[i] = w[i]
        BY <3>2 DEF u, w
      <3>6. AllOrdered(u, n)
        BY <1>5, <3>3, <3>4, <3>5, LastGoes
      <3>. QED BY <1>10, <2>2, <3>6 DEF Order, u
    <2>. QED BY <1>8, <1>9, <2>3, <2>4, <2>6, <2>7, <2>8 DEF Inv, k
  <1>. QED BY <1>5, <1>11, <1>12


LEMMA KeptIs ==
    ASSUME Types, Room, loop = "shrink"
    PROVE  /\ Kept \in Nat \ {0} /\ Kept < reserved_ /\ size_ < Kept /\ Held = size_
           /\ \A i \in 0 .. Kept - 1 : i \in Slots
  BY DEF Types, Room, Kept, Held, Slots

\* While a place has a slot that goes, there is one that stays and is free.
LEMMA ThereIsRoom ==
    ASSUME Types, Room, Paired, loop = "shrink", index < Kept, heap_[index] >= Kept
    PROVE  /\ FreeSlot \in 0 .. Kept - 1 /\ si <= FreeSlot /\ map_[FreeSlot] >= Kept
           /\ \A i \in 0 .. FreeSlot - 1 : map_[i] < Kept
  <1>. DEFINE S == 0 .. Kept - 1
              T == {j \in S : map_[j] >= Kept}
  <1>1. /\ Kept \in Nat /\ si \in Nat /\ index \in S /\ heap_[index] \in Nat
        /\ \A i \in S : i \in Slots /\ map_[i] \in Nat
    BY KeptIs DEF Types, Slots
  <1>2. /\ \A j \in S : map_[j] < Kept => heap_[map_[j]] = j
        /\ \A j \in 0 .. si - 1 : map_[j] < Kept
    BY DEF Paired
  <1>3. T # {}
    <2>1. SUFFICES ASSUME \A j \in S : ~ (map_[j] >= Kept) PROVE FALSE
      OBVIOUS
    <2>2. ASSUME NEW j \in S PROVE map_[j] \in S /\ heap_[map_[j]] = j
      <3>1. map_[j] < Kept
        BY <1>1, <2>1
      <3>. QED BY <1>1, <1>2, <3>1
    <2>. DEFINE g == [j \in S |-> map_[j]]
    <2>3. g \in [S -> S] /\ \A i, j \in S : g[i] = g[j] => i = j
      BY <2>2
    <2>. HIDE DEF g
    <2>4. \A j \in S : \E i \in S : g[i] = j
      BY <1>1, <2>3, OneToOneIsOnto
    <2>5. PICK i \in S : g[i] = index
      BY <1>1, <2>4
    <2>6. map_[i] = index
      BY <2>5 DEF g
    <2>7. heap_[index] = i
      BY <2>2, <2>6
    <2>. QED BY <1>1, <2>7
  <1>4. PICK m \in T : \A j \in T : m <= j
    <2>1. T \in SUBSET Nat
      OBVIOUS
    <2>. HIDE DEF T
    <2>. QED BY <1>3, <2>1, Smallest
  <1>5. m \in S /\ m \in Nat /\ map_[m] >= Kept
    BY <1>4
  <1>6. si <= m
    BY <1>1, <1>2, <1>5
  <1>7. ASSUME NEW i \in 0 .. m - 1 PROVE map_[i] < Kept
    <2>1. i \in S /\ ~ (m <= i)
      BY <1>1, <1>5
    <2>2. i \notin T
      BY <1>4, <2>1
    <2>. QED BY <1>1, <2>1, <2>2
  <1>8. m \in si .. Kept - 1 /\ IsFree(m)
    <2>1. m \in si .. Kept - 1
      BY <1>1, <1>5, <1>6
    <2>2. \A i \in si .. m - 1 : map_[i] < Kept
      BY <1>1, <1>5, <1>7
    <2>. QED BY <1>5, <2>1, <2>2 DEF IsFree
  <1>. HIDE DEF T
  <1>9. FreeSlot \in si .. Kept - 1 /\ IsFree(FreeSlot)
    BY <1>8 DEF FreeSlot
  <1>. DEFINE f == FreeSlot
  <1>10. f \in si .. Kept - 1 /\ map_[f] >= Kept /\ \A i \in si .. f - 1 : map_[i] < Kept
    BY <1>9 DEF IsFree
  <1>. HIDE DEF f
  <1>11. f \in 0 .. Kept - 1 /\ si <= f
    BY <1>1, <1>10
  <1>12. ASSUME NEW i \in 0 .. f - 1 PROVE map_[i] < Kept
    <2>1. i \in 0 .. si - 1 \/ i \in si .. f - 1
      BY <1>1, <1>11
    <2>. QED BY <1>2, <1>10, <2>1
  <1>. QED BY <1>10, <1>11, <1>12 DEF f

LEMMA MovePlaceKeeps ==
    ASSUME BinaryHeapAssumption, Inv, MovePlace
    PROVE  Inv' /\ DOMAIN keymap_' = DOMAIN keymap_
  <1>1. /\ loop = "shrink" /\ index < Kept /\ index' = index + 1 /\ loop' = loop
        /\ size_' = size_ /\ reserved_' = reserved_
    BY DEF MovePlace, Moved
  <1>2. Types /\ Room /\ Linked /\ Placed /\ Paired /\ Order
    BY DEF Inv
  <1>3. /\ Kept \in Nat \ {0} /\ Kept < reserved_ /\ size_ < Kept /\ Held = size_ /\ size_ \in Nat
        /\ \A i \in 0 .. Kept - 1 : i \in Slots
        /\ Kept' = Kept /\ Slots' = Slots /\ Held' = size_
    BY <1>1, <1>2, KeptIs DEF Types, Kept, Slots, Held
  <1>4. /\ index \in Nat /\ index \in 0 .. Kept - 1 /\ index \in Slots
        /\ heap_[index] \in Slots /\ heap_[index] \in Nat
        /\ heap_ \in [Slots -> Slots] /\ map_ \in [Slots -> Slots]
    BY <1>1, <1>2, <1>3 DEF Types, Slots
  <1>5. /\ \A i \in 0 .. Kept - 1 : map_[heap_[i]] = i
        /\ \A j \in 0 .. Kept - 1 : map_[j] < Kept => heap_[map_[j]] = j
        /\ \A i \in 0 .. index - 1 : heap_[i] < Kept
        /\ \A j \in 0 .. si - 1 : map_[j] < Kept
    BY <1>1, <1>2 DEF Paired
  <1>6. Room'
    BY <1>1, <1>2, <1>3, <1>4 DEF Room
  <1>7. /\ \A i \in 0 .. size_ - 1 : Values[i] = At(i) /\ heap_[i] \in DOMAIN store_
        /\ Values \in [0 .. size_ - 1 -> Int]
    BY <1>2, <1>3, ValuesAre
  <1>8. CASE KeepSlot
    <2>1. heap_[index] < Kept /\ UNCHANGED <<heap_, map_, store_, keymap_, si>>
      BY <1>8 DEF KeepSlot
    <2>2. Types' /\ Linked' /\ Placed'
      BY <1>1, <1>2, <1>3, <1>4, <2>1 DEF Types, Linked, Placed
    <2>3. Paired'
      <3>1. ASSUME NEW i \in 0 .. index' - 1 PROVE heap_[i] < Kept
        <4>1. i \in 0 .. index - 1 \/ i = index
          BY <1>1, <1>4
        <4>. QED BY <1>5, <2>1, <4>1
      <3>. QED BY <1>1, <1>3, <1>5, <2>1, <3>1 DEF Paired
    <2>4. Order'
      <3>1. Values' = Values
        BY <1>3, <2>1 DEF Values, At
      <3>2. AllOrdered(Values, Held)
        BY <1>1, <1>2 DEF Order
      <3>3. AllOrdered(Values', Held')
        BY <1>3, <3>1, <3>2
      <3>. QED BY <1>1, <3>3 DEF Order
    <2>. QED BY <1>6, <2>1, <2>2, <2>3, <2>4 DEF Inv
  <1>9. CASE Rehouse
    <2>. DEFINE old == heap_[index]
                f   == FreeSlot
                k   == store_[old]
    <2>1. /\ old >= Kept /\ si' = f
          /\ heap_' = [heap_ EXCEPT ![index] = f] /\ map_' = [map_ EXCEPT ![f] = index]
          /\ \/ /\ index < size_ /\ keymap_' = [keymap_ EXCEPT ![k] = f]
                /\ store_' = Put(Without(store_, old), f, k)
             \/ ~ (index < size_) /\ keymap_' = keymap_ /\ store_' = store_
      BY <1>9 DEF Rehouse
    <2>2. /\ f \in 0 .. Kept - 1 /\ si <= f /\ map_[f] >= Kept
          /\ \A i \in 0 .. f - 1 : map_[i] < Kept
      BY <1>1, <1>2, <2>1, ThereIsRoom
    <2>. HIDE DEF f
    <2>3. f \in Slots /\ f \in Nat /\ f # old /\ map_[old] = index /\ f \notin DOMAIN store_
      <3>1. f \in Slots /\ f \in Nat /\ f # old /\ map_[old] = index
        BY <1>3, <1>4, <1>5, <2>1, <2>2
      <3>2. map_[f] \in Nat /\ ~ (map_[f] < size_)
        BY <1>3, <1>4, <2>2, <3>1 DEF Slots
      <3>. QED BY <1>2, <1>3, <3>1, <3>2 DEF Placed
    <2>. HIDE DEF old, k
    <2>4. /\ heap_' \in [Slots -> Slots] /\ heap_'[index] = f
          /\ \A i \in Slots : i # index => heap_'[i] = heap_[i]
      BY <1>4, <2>1, <2>3
    <2>5. /\ map_' \in [Slots -> Slots] /\ map_'[f] = index
          /\ \A p \in Slots : p # f => map_'[p] = map_[p]
      BY <1>4, <2>1, <2>3
    <2>6. ASSUME NEW p \in DOMAIN store_
          PROVE  /\ p \in Slots /\ p # f /\ map_[p] \in Slots /\ map_[p] < size_ /\ heap_[map_[p]] = p
                 /\ p # old => map_[p] # index
      BY <1>2, <1>3, <1>4, <2>3 DEF Types, Placed, old
    <2>7. ASSUME NEW i \in 0 .. size_ - 1
          PROVE  /\ i \in Slots /\ i \in 0 .. Kept - 1 /\ heap_[i] \in DOMAIN store_
                 /\ i # index => heap_[i] # old
      <3>1. i \in Slots /\ i \in 0 .. Kept - 1 /\ heap_[i] \in DOMAIN store_
        BY <1>3, <1>7
      <3>. QED BY <1>5, <2>3, <3>1
    <2>8. Paired'
      <3>1. ASSUME NEW i \in 0 .. Kept - 1 PROVE map_'[heap_'[i]] = i
        <4>1. CASE i = index
          BY <2>4, <2>5, <4>1
        <4>2. CASE i # index
          <5>1. heap_'[i] = heap_[i] /\ heap_[i] \in Slots /\ map_[heap_[i]] = i
            BY <1>3, <1>4, <1>5, <2>4, <4>2
          <5>2. heap_[i] # f
            BY <1>3, <2>2, <5>1
          <5>. QED BY <2>5, <5>1, <5>2
        <4>. QED BY <4>1, <4>2
      <3>2. ASSUME NEW j \in 0 .. Kept - 1, map_'[j] < Kept PROVE heap_'[map_'[j]] = j
        <4>1. CASE j = f
          BY <2>4, <2>5, <4>1
        <4>2. CASE j # f
          <5>1. map_'[j] = map_[j] /\ map_[j] \in Slots /\ heap_[map_[j]] = j
            BY <1>3, <1>4, <1>5, <2>5, <3>2, <4>2
          <5>2. map_[j] # index
            BY <1>3, <2>1, <5>1 DEF old
          <5>. QED BY <2>4, <5>1, <5>2
        <4>. QED BY <4>1, <4>2
      <3>3. ASSUME NEW i \in 0 .. index' - 1 PROVE heap_'[i] < Kept
        <4>1. CASE i = index
          BY <1>3, <2>2, <2>4, <4>1
        <4>2. CASE i # index
          <5>1. i \in 0 .. index - 1 /\ i \in Slots
            BY <1>1, <1>3, <1>4, <4>2
          <5>. QED BY <1>5, <2>4, <4>2, <5>1
        <4>. QED BY <4>1, <4>2
      <3>4. ASSUME NEW j \in 0 .. f - 1 PROVE map_'[j] < Kept
        <4>1. j # f /\ j \in Slots
          BY <1>3, <2>2
        <4>. QED BY <2>2, <2>5, <4>1
      <3>. QED BY <1>1, <1>3, <2>1, <3>1, <3>2, <3>3, <3>4 DEF Paired
    <2>9. CASE index < size_
      <3>1. keymap_' = [keymap_ EXCEPT ![k] = f] /\ store_' = Put(Without(store_, old), f, k)
        BY <2>1, <2>9
      <3>2. old \in DOMAIN store_ /\ k \in DOMAIN keymap_ /\ keymap_[k] = old /\ k \in Keys
        <4>1. index \in 0 .. size_ - 1
          BY <1>3, <1>4, <2>9
        <4>2. old \in DOMAIN store_
          BY <2>7, <4>1 DEF old
        <4>. QED BY <1>2, <4>2 DEF Linked, Types, k
      <3>3. /\ DOMAIN store_' = (DOMAIN store_ \ {old}) \cup {f} /\ store_'[f] = k
            /\ \A p \in DOMAIN store_ \ {old} : store_'[p] = store_[p]
            /\ store_' \in [DOMAIN store_' -> Keys] /\ DOMAIN store_' \subseteq Slots
        <4>1. /\ DOMAIN store_' = (DOMAIN store_ \ {old}) \cup {f} /\ store_'[f] = k
              /\ \A p \in DOMAIN store_ \ {old} : store_'[p] = store_[p]
              /\ store_' = [p \in DOMAIN store_' |-> store_'[p]]
          BY <2>3, <3>1 DEF Put, Without
        <4>2. \A p \in DOMAIN store_ : store_[p] \in Keys /\ p \in Slots
          BY <1>2 DEF Types
        <4>. QED BY <2>3, <3>2, <4>1, <4>2
      <3>4. /\ DOMAIN keymap_' = DOMAIN keymap_ /\ keymap_'[k] = f
            /\ \A j \in DOMAIN keymap_ : j # k => keymap_'[j] = keymap_[j]
            /\ keymap_' = [j \in DOMAIN keymap_' |-> keymap_'[j]]
        BY <1>2, <3>1, <3>2 DEF Types
      <3>5. ASSUME NEW j \in DOMAIN keymap_, j # k
            PROVE  /\ keymap_'[j] = keymap_[j] /\ keymap_[j] \in DOMAIN store_ \ {old}
                   /\ store_[keymap_[j]] = j
        <4>1. keymap_[j] \in DOMAIN store_ /\ store_[keymap_[j]] = j
          BY <1>2 DEF Types, Linked
        <4>. QED BY <3>4, <3>5, <4>1 DEF k
      <3>6. Types'
        <4>1. \A j \in DOMAIN keymap_ : keymap_'[j] \in DOMAIN store_'
          BY <3>3, <3>4, <3>5
        <4>2. keymap_' \in [DOMAIN keymap_' -> DOMAIN store_'] /\ DOMAIN keymap_' \subseteq Keys
          BY <1>2, <3>4, <4>1 DEF Types
        <4>3. index' \in Nat /\ si' \in Nat
          BY <1>1, <1>4, <2>1, <2>3
        <4>. QED BY <1>1, <1>2, <1>3, <2>4, <2>5, <3>3, <4>2, <4>3 DEF Types
      <3>7. Linked'
        <4>1. \A j \in DOMAIN keymap_' : store_'[keymap_'[j]] = j
          BY <3>3, <3>4, <3>5
        <4>2. ASSUME NEW p \in DOMAIN store_' PROVE store_'[p] \in DOMAIN keymap_' /\ keymap_'[store_'[p]] = p
          <5>1. CASE p = f
            BY <3>2, <3>3, <3>4, <5>1
          <5>2. CASE p # f
            <6>1. p \in DOMAIN store_ /\ p # old /\ store_'[p] = store_[p]
              BY <3>3, <5>2
            <6>2. store_[p] \in DOMAIN keymap_ /\ keymap_[store_[p]] = p
              BY <1>2, <6>1 DEF Linked
            <6>3. store_[p] # k
              BY <3>2, <6>1, <6>2
            <6>. QED BY <3>4, <6>1, <6>2, <6>3
          <5>. QED BY <5>1, <5>2
        <4>. QED BY <4>1, <4>2 DEF Linked
      <3>8. Placed'
        <4>1. ASSUME NEW i \in 0 .. size_ - 1 PROVE heap_'[i] \in DOMAIN store_'
          BY <2>4, <2>7, <3>3
        <4>2. ASSUME NEW p \in DOMAIN store_' PROVE map_'[p] < size_ /\ heap_'[map_'[p]] = p
          <5>1. CASE p = f
            BY <2>4, <2>5, <2>9, <5>1
          <5>2. CASE p # f
            <6>1. p \in DOMAIN store_ /\ p # old
              BY <3>3, <5>2
            <6>2. map_'[p] = map_[p]
              BY <2>5, <2>6, <6>1
            <6>. QED BY <2>4, <2>6, <6>1, <6>2
          <5>. QED BY <5>1, <5>2
        <4>. QED BY <1>1, <1>3, <4>1, <4>2 DEF Placed
      <3>9. Order'
        <4>1. ASSUME NEW i \in 0 .. size_ - 1 PROVE At(i)' = At(i)
          <5>1. store_'[heap_'[i]] = store_[heap_[i]]
            <6>1. CASE i = index
              BY <2>4, <3>3, <6>1 DEF k, old
            <6>2. CASE i # index
              BY <2>4, <2>7, <3>3, <6>2
            <6>. QED BY <6>1, <6>2
          <5>. QED BY <5>1 DEF At
        <4>2. Values' = Values
          BY <1>3, <4>1 DEF Values
        <4>3. AllOrdered(Values, Held)
          BY <1>1, <1>2 DEF Order
        <4>4. AllOrdered(Values', Held')
          BY <1>3, <4>2, <4>3
        <4>. QED BY <1>1, <4>4 DEF Order
      <3>. QED BY <1>6, <2>8, <3>4, <3>6, <3>7, <3>8, <3>9 DEF Inv
    <2>10. CASE ~ (index < size_)
      <3>1. keymap_' = keymap_ /\ store_' = store_
        BY <2>1, <2>10
      <3>2. Types'
        <4>1. index' \in Nat /\ si' \in Nat
          BY <1>1, <1>4, <2>1, <2>3
        <4>. QED BY <1>1, <1>2, <1>3, <2>4, <2>5, <3>1, <4>1 DEF Types
      <3>3. Linked'
        BY <1>2, <3>1 DEF Linked
      <3>4. ASSUME NEW i \in 0 .. size_ - 1 PROVE heap_'[i] = heap_[i]
        <4>1. i # index /\ i \in Slots
          BY <1>3, <1>4, <2>7, <2>10
        <4>. QED BY <2>4, <4>1
      <3>5. Placed'
        <4>1. ASSUME NEW i \in 0 .. size_ - 1 PROVE heap_'[i] \in DOMAIN store_'
          BY <2>7, <3>1, <3>4
        <4>2. ASSUME NEW p \in DOMAIN store_' PROVE map_'[p] < size_ /\ heap_'[map_'[p]] = p
          <5>1. p \in DOMAIN store_ /\ p \in Slots /\ p # f /\ map_[p] < size_ /\ map_[p] \in Slots
            BY <2>6, <3>1
          <5>2. map_'[p] = map_[p]
            BY <2>5, <5>1
          <5>3. map_[p] # index
            BY <2>10, <5>1
          <5>. QED BY <2>4, <2>6, <5>1, <5>2, <5>3
        <4>. QED BY <1>1, <1>3, <4>1, <4>2 DEF Placed
      <3>6. Order'
        <4>1. ASSUME NEW i \in 0 .. size_ - 1 PROVE At(i)' = At(i)
          BY <3>1, <3>4 DEF At
        <4>2. Values' = Values
          BY <1>3, <4>1 DEF Values
        <4>3. AllOrdered(Values, Held)
          BY <1>1, <1>2 DEF Order
        <4>4. AllOrdered(Values', Held')
          BY <1>3, <4>2, <4>3
        <4>. QED BY <1>1, <4>4 DEF Order
      <3>. QED BY <1>6, <2>8, <3>1, <3>2, <3>3, <3>5, <3>6 DEF Inv
    <2>. QED BY <2>9, <2>10
  <1>. QED BY <1>8, <1>9 DEF MovePlace


LEMMA ShrunkKeeps ==
    ASSUME BinaryHeapAssumption, Inv, Shrunk
    PROVE  Inv'
  <1>. DEFINE S == 0 .. Kept - 1
  <1>1. /\ loop = "shrink" /\ index = Kept /\ loop' = "none" /\ reserved_' = Kept
        /\ heap_' = [i \in S |-> heap_[i]] /\ map_' = [i \in S |-> map_[i]]
        /\ UNCHANGED <<size_, store_, keymap_, index, si>>
    BY DEF Shrunk, Moved
  <1>2. Types /\ Room /\ Linked /\ Placed /\ Paired /\ Order
    BY DEF Inv
  <1>3. /\ Kept \in Nat \ {0} /\ Kept < reserved_ /\ size_ < Kept /\ Held = size_ /\ size_ \in Nat
        /\ \A i \in S : i \in Slots /\ heap_[i] \in Nat /\ map_[i] \in Nat
        /\ Slots' = S /\ Held' = size_
        /\ \A i \in 0 .. size_ - 1 : i \in S
    BY <1>1, <1>2, KeptIs DEF Types, Slots, Held
  <1>4. /\ \A i \in S : map_[heap_[i]] = i
        /\ \A j \in S : map_[j] < Kept => heap_[map_[j]] = j
        /\ \A i \in 0 .. index - 1 : heap_[i] < Kept
    BY <1>1, <1>2 DEF Paired
  <1>5. ASSUME NEW i \in S PROVE heap_[i] \in S /\ heap_'[i] = heap_[i] /\ map_'[i] = map_[i]
    BY <1>1, <1>3, <1>4
  <1>6. ASSUME NEW j \in S PROVE map_[j] \in S /\ heap_[map_[j]] = j
    <2>. DEFINE g == [i \in S |-> heap_[i]]
    <2>1. g \in [S -> S] /\ \A a, b \in S : g[a] = g[b] => a = b
      BY <1>4, <1>5
    <2>. HIDE DEF g
    <2>2. \A b \in S : \E a \in S : g[a] = b
      BY <1>3, <2>1, OneToOneIsOnto
    <2>3. PICK a \in S : g[a] = j
      BY <2>2
    <2>4. heap_[a] = j
      BY <2>3 DEF g
    <2>. QED BY <1>4, <2>4
  <1>7. DOMAIN heap_' = S /\ DOMAIN map_' = S
    BY <1>1
  <1>8. heap_' \in [S -> S] /\ map_' \in [S -> S] /\ AreInverse(heap_', map_') /\ AreInverse(map_', heap_')
    <2>. HIDE DEF S
    <2>1. heap_' \in [S -> S] /\ map_' \in [S -> S]
      BY <1>1, <1>5, <1>6
    <2>. QED BY <1>4, <1>5, <1>6, <1>7, <2>1 DEF AreInverse
  <1>9. ASSUME NEW p \in DOMAIN store_ PROVE p \in S /\ map_[p] < size_
    <2>1. map_[p] < size_ /\ heap_[map_[p]] = p /\ p \in Slots
      BY <1>2, <1>3 DEF Placed, Types
    <2>2. map_[p] \in S
      BY <1>2, <1>3, <2>1 DEF Types, Slots
    <2>. QED BY <1>5, <2>1, <2>2
  <1>10. Types'
    BY <1>1, <1>2, <1>3, <1>8, <1>9 DEF Types
  <1>11. Room'
    BY <1>1, <1>3 DEF Room
  <1>12. Linked'
    BY <1>1, <1>2 DEF Linked
  <1>13. Placed'
    <2>1. ASSUME NEW i \in 0 .. size_ - 1 PROVE heap_'[i] \in DOMAIN store_
      BY <1>2, <1>3, <1>5 DEF Placed
    <2>2. ASSUME NEW p \in DOMAIN store_ PROVE map_'[p] < size_ /\ heap_'[map_'[p]] = p
      <3>1. p \in S /\ map_[p] < size_ /\ map_[p] \in S /\ heap_[map_[p]] = p
        BY <1>6, <1>9
      <3>. QED BY <1>5, <3>1
    <2>3. Held' = size_ /\ store_' = store_
      BY <1>1, <1>3
    <2>. QED BY <2>1, <2>2, <2>3 DEF Placed
  <1>14. Paired'
    BY <1>1, <1>8 DEF Paired
  <1>15. Order'
    <2>1. ASSUME NEW i \in 0 .. size_ - 1 PROVE At(i)' = At(i)
      <3>1. heap_'[i] = heap_[i]
        BY <1>3, <1>5
      <3>. QED BY <1>1, <3>1 DEF At
    <2>2. Values' = Values
      BY <1>3, <2>1 DEF Values
    <2>3. AllOrdered(Values, Held)
      BY <1>1, <1>2 DEF Order
    <2>4. AllOrdered(Values', Held')
      BY <1>3, <2>2, <2>3
    <2>. QED BY <1>1, <2>4 DEF Order
  <1>. QED BY <1>10, <1>11, <1>12, <1>13, <1>14, <1>15 DEF Inv

LEMMA ClearKeeps ==
    ASSUME BinaryHeapAssumption, Inv, Clear
    PROVE  Inv' /\ DOMAIN keymap_' = {}
  <1>1. /\ loop = "none" /\ loop' = "none" /\ index' = index /\ si' = si
        /\ size_' = 0 /\ store_' = Nothing /\ keymap_' = Nothing
        /\ \/ /\ reserved_' = Reserve
              /\ heap_' = [i \in 0 .. Reserve - 1 |-> i] /\ map_' = [i \in 0 .. Reserve - 1 |-> i]
           \/ UNCHANGED <<reserved_, heap_, map_>>
    BY DEF Clear, Identity
  <1>2. Types /\ Paired /\ Reserve \in Nat \ {0}
    BY DEF Inv, BinaryHeapAssumption
  <1>3. /\ reserved_' \in Nat \ {0}
        /\ heap_' \in [Slots' -> Slots'] /\ map_' \in [Slots' -> Slots']
        /\ AreInverse(heap_', map_') /\ AreInverse(map_', heap_')
    <2>1. CASE UNCHANGED <<reserved_, heap_, map_>>
      BY <1>1, <1>2, <2>1 DEF Types, Slots, Paired
    <2>2. CASE /\ reserved_' = Reserve
               /\ heap_' = [i \in 0 .. Reserve - 1 |-> i] /\ map_' = [i \in 0 .. Reserve - 1 |-> i]
      BY <1>2, <2>2 DEF Slots, AreInverse
    <2>. QED BY <1>1, <2>1, <2>2
  <1>4. DOMAIN store_' = {} /\ DOMAIN keymap_' = {} /\ Held' = 0
    BY <1>1 DEF Nothing, Held
  <1>5. Types'
    BY <1>1, <1>2, <1>3, <1>4 DEF Types, Nothing
  <1>6. Room' /\ Linked' /\ Placed' /\ Paired'
    BY <1>1, <1>3, <1>4 DEF Room, Linked, Placed, Paired
  <1>7. Order'
    BY <1>1, <1>4 DEF Order, AllOrdered
  <1>. QED BY <1>4, <1>5, <1>6, <1>7 DEF Inv

-----------------------------------------------------------------------------
(* The theorems.                                                            *)

LEMMA PopIsEraseAt ==
    ASSUME Inv, Pop
    PROVE  /\ loop = "none" /\ size_ > 0 /\ heap_[0] \in DOMAIN store_ /\ EraseAt(heap_[0])
  <1>1. loop = "none" /\ size_ > 0 /\ EraseAt(keymap_[store_[heap_[0]]])
    BY DEF Pop
  <1>2. heap_[0] \in DOMAIN store_
    BY <1>1 DEF Inv, Types, Held, Placed
  <1>3. keymap_[store_[heap_[0]]] = heap_[0]
    BY <1>2 DEF Inv, Linked
  <1>. QED BY <1>1, <1>2, <1>3

LEMMA EraseKeyIsEraseAt ==
    ASSUME Inv, NEW k \in Keys, EraseKey(k)
    PROVE  /\ loop = "none" /\ k \in DOMAIN keymap_ /\ keymap_[k] \in DOMAIN store_
           /\ store_[keymap_[k]] = k /\ EraseAt(keymap_[k])
  BY DEF EraseKey, Inv, Types, Linked

\* What an operation does before its loops, each round of them, and what it does
\* after them, keep the two orders of the slots each other's inverse and the
\* entries in order but for the one that rises or sinks
\* (binary_heap_impl.hpp, insert_ to clear_).
THEOREM StepsKeepOrder == BinaryHeapAssumption /\ Inv /\ [Next]_queueVars => Inv'
  <1>. SUFFICES ASSUME BinaryHeapAssumption, Inv, [Next]_queueVars PROVE Inv'
    OBVIOUS
  <1>1. ASSUME NEW k \in Keys, Insert(k) PROVE Inv'
    BY <1>1, InsertKeeps
  <1>2. ASSUME NEW k \in Keys, EraseKey(k) PROVE Inv'
    BY <1>2, EraseKeyIsEraseAt, EraseAtKeeps
  <1>3. CASE Pop
    BY <1>3, PopIsEraseAt, EraseAtKeeps
  <1>4. CASE Clear
    BY <1>4, ClearKeeps
  <1>5. CASE HeapUp
    BY <1>5, HeapUpKeeps
  <1>6. CASE Inserted
    BY <1>6, InsertedKeeps
  <1>7. CASE Raised
    BY <1>7, RaisedKeeps
  <1>8. CASE HeapDown
    BY <1>8, HeapDownKeeps
  <1>9. CASE Lowered
    BY <1>9, LoweredKeeps
  <1>10. CASE MovePlace
    BY <1>10, MovePlaceKeeps
  <1>11. CASE Shrunk
    BY <1>11, ShrunkKeeps
  <1>12. CASE UNCHANGED queueVars
    <2>1. UNCHANGED <<size_, reserved_, heap_, map_, store_, keymap_, loop, index, si>>
      BY <1>12 DEF queueVars, arrays
    <2>2. Types' /\ Room' /\ Linked' /\ Placed' /\ Paired'
      BY <2>1 DEF Inv, Types, Slots, Room, Kept, Linked, Placed, Held, Paired, AreInverse
    <2>3. Values' = Values /\ Held' = Held /\ loop' = loop /\ index' = index
      BY <2>1 DEF Values, At, Held
    <2>4. /\ AllOrdered(Values, Held) => AllOrdered(Values', Held')
          /\ AllButOne(Values, Held, index) => AllButOne(Values', Held', index')
          /\ AllButAround(Values, Held, index) => AllButAround(Values', Held', index')
          /\ AllButBelow(Values, Held, index) => AllButBelow(Values', Held', index')
      BY <2>3
    <2>5. Order'
      BY <2>3, <2>4 DEF Inv, Order
    <2>. QED BY <2>2, <2>5 DEF Inv
  <1>. QED BY <1>1, <1>2, <1>3, <1>4, <1>5, <1>6, <1>7, <1>8, <1>9, <1>10, <1>11, <1>12
           DEF Next, Operation, GoesOn


\* Between operations the heap is whole: the entry on top is the least.
LEMMA InvIsWhole == BinaryHeapAssumption /\ Inv => IsWhole
  <1>. SUFFICES ASSUME BinaryHeapAssumption, Inv, loop = "none" PROVE IsWhole
    BY DEF IsWhole
  <1>1. Types /\ Room /\ Linked /\ Placed /\ Paired /\ Order /\ Held = size_
    BY DEF Inv, Held
  <1>2. /\ size_ \in Nat /\ Values \in [0 .. size_ - 1 -> Int]
        /\ \A i \in 0 .. size_ - 1 : Values[i] = At(i) /\ heap_[i] \in DOMAIN store_
    BY <1>1, ValuesAre
  <1>3. size_ < reserved_
    BY <1>1 DEF Room
  <1>4. ASSUME NEW i \in 0 .. reserved_ - 1 PROVE heap_[i] \in 0 .. reserved_ - 1 /\ map_[heap_[i]] = i
    BY <1>1 DEF Types, Slots, Paired, AreInverse
  <1>5. ASSUME NEW i \in 0 .. size_ - 1
        PROVE  /\ heap_[i] \in DOMAIN store_
               /\ store_[heap_[i]] \in DOMAIN keymap_ /\ keymap_[store_[heap_[i]]] = heap_[i]
    BY <1>1, <1>2 DEF Linked
  <1>6. ASSUME NEW i \in 0 .. size_ - 1 PROVE At(0) <= At(i)
    <2>. DEFINE w == Values
    <2>. HIDE DEF w
    <2>1. AllOrdered(w, size_) /\ w \in [0 .. size_ - 1 -> Int]
      BY <1>1, <1>2 DEF Order, w
    <2>2. w[0] <= w[i]
      BY <1>2, <2>1, TopIsSmallest
    <2>3. 0 \in 0 .. size_ - 1
      BY <1>2
    <2>. QED BY <1>2, <2>2, <2>3 DEF w
  <1>7. ASSUME NEW k \in DOMAIN keymap_ PROVE \E i \in 0 .. size_ - 1 : store_[heap_[i]] = k
    <2>1. keymap_[k] \in DOMAIN store_ /\ store_[keymap_[k]] = k
      BY <1>1 DEF Types, Linked
    <2>2. map_[keymap_[k]] < size_ /\ heap_[map_[keymap_[k]]] = keymap_[k] /\ map_[keymap_[k]] \in Nat
      BY <1>1, <2>1 DEF Placed, Types, Slots
    <2>3. map_[keymap_[k]] \in 0 .. size_ - 1
      BY <1>2, <2>2
    <2>. QED BY <2>1, <2>2, <2>3
  <1>. QED BY <1>3, <1>4, <1>5, <1>6, <1>7 DEF IsWhole

\* An operation adds or takes away the entry it is meant to, and the rounds of its
\* loops none.
LEMMA OperationsAreOfAQueue ==
    ASSUME BinaryHeapAssumption, Inv
    PROVE  /\ \A k \in Keys : /\ Insert(k) => Queue!Insert(k, Value[k])
                              /\ EraseKey(k) => Queue!EraseKey(k)
           /\ Pop => Queue!Pop
           /\ Clear => Queue!Clear
           /\ GoesOn => DOMAIN keymap_' = DOMAIN keymap_
  <1>1. ASSUME NEW k \in Keys, Insert(k) PROVE Queue!Insert(k, Value[k])
    <2>1. k \notin DOMAIN keymap_ /\ DOMAIN keymap_' = DOMAIN keymap_ \cup {k}
      BY <1>1 DEF Insert, Put
    <2>. QED BY <2>1 DEF Queue!Insert
  <1>2. ASSUME NEW k \in Keys, EraseKey(k) PROVE Queue!EraseKey(k)
    <2>1. k \in DOMAIN keymap_ /\ DOMAIN keymap_' = DOMAIN keymap_ \ {k}
      BY <1>2, EraseKeyIsEraseAt, EraseAtKeeps
    <2>. QED BY <2>1 DEF Queue!EraseKey
  <1>3. ASSUME Pop PROVE Queue!Pop
    <2>. DEFINE k == store_[heap_[0]]
    <2>1. loop = "none" /\ size_ > 0 /\ heap_[0] \in DOMAIN store_ /\ EraseAt(heap_[0])
      BY <1>3, PopIsEraseAt
    <2>2. IsWhole /\ size_ \in Nat
      BY InvIsWhole DEF Inv, Types
    <2>3. k \in DOMAIN keymap_
      BY <2>1, <2>2 DEF IsWhole
    <2>4. DOMAIN keymap_' = DOMAIN keymap_ \ {k}
      BY <2>1, EraseAtKeeps
    <2>5. ASSUME NEW j \in DOMAIN keymap_ PROVE Value[k] <= Value[j]
      <3>1. PICK i \in 0 .. size_ - 1 : store_[heap_[i]] = j
        BY <2>1, <2>2 DEF IsWhole
      <3>2. At(0) <= At(i)
        BY <2>1, <2>2 DEF IsWhole
      <3>. QED BY <3>1, <3>2 DEF At
    <2>. HIDE DEF k
    <2>. QED BY <2>3, <2>4, <2>5 DEF Queue!Pop, Queue!EraseKey
  <1>4. ASSUME Clear PROVE Queue!Clear
    <2>1. DOMAIN keymap_' = {}
      BY <1>4, ClearKeeps
    <2>. QED BY <2>1 DEF Queue!Clear
  <1>5. ASSUME GoesOn PROVE DOMAIN keymap_' = DOMAIN keymap_
    <2>1. CASE MovePlace
      BY <2>1, MovePlaceKeeps
    <2>2. CASE HeapUp \/ Inserted \/ Raised \/ HeapDown \/ Lowered \/ Shrunk
      BY <2>2 DEF HeapUp, Inserted, Raised, HeapDown, Lowered, Shrunk, arrays
    <2>. QED BY <1>5, <2>1, <2>2 DEF GoesOn
  <1>. QED BY <1>1, <1>2, <1>3, <1>4, <1>5

\* Whatever is inserted and erased, in whatever order, of any keys and values, and
\* however the arrays double and halve meanwhile, the heap is a priority queue
\* (binary_heap_impl.hpp, insert_, erase_at_, try_grow, try_shrink, clear_).
THEOREM HeapKeepsItsPromise == BinaryHeapAssumption /\ Spec => HeapIsAQueue
  <1>. SUFFICES ASSUME BinaryHeapAssumption PROVE Spec => HeapIsAQueue
    OBVIOUS
  <1>. DEFINE Step == /\ IsWhole'
                      /\ \A k \in Keys : /\ Insert(k) => Queue!Insert(k, Value[k])
                                         /\ EraseKey(k) => Queue!EraseKey(k)
                      /\ Pop => Queue!Pop
                      /\ Clear => Queue!Clear
                      /\ GoesOn => DOMAIN keymap_' = DOMAIN keymap_
  <1>1. Init => Inv
    BY StartIsWhole
  <1>2. Inv /\ [Next]_queueVars => Inv'
    BY StepsKeepOrder
  <1>3. Inv => IsWhole
    BY InvIsWhole
  <1>4. Inv /\ IsWhole' => Step
    BY OperationsAreOfAQueue
  <1>. HIDE DEF Step
  <1>5. Spec => IsWhole /\ [][Step]_queueVars
    BY <1>1, <1>2, <1>3, <1>4, PTL DEF Spec
  <1>. QED BY <1>5 DEF HeapIsAQueue, Step


\* The heap implements the queue: each operation is a step of it, and the rounds of
\* its loops are stutters (binary_heap_impl.hpp, insert_, erase_at_, clear_).
THEOREM HeapImplementsQueue == BinaryHeapAssumption /\ Spec => Queue!Spec
  <1>. SUFFICES ASSUME BinaryHeapAssumption PROVE Spec => Queue!Spec
    OBVIOUS
  <1>1. Init => Inv
    BY StartIsWhole
  <1>2. Inv /\ [Next]_queueVars => Inv'
    BY StepsKeepOrder
  <1>3. Init => Queue!Init
    BY DEF Init, Nothing, Queue!Init
  <1>4. ASSUME Inv, [Next]_queueVars
        PROVE  Queue!Next \/ UNCHANGED [k \in DOMAIN keymap_ |-> Value[k]]
    <2>1. CASE \E k \in Keys : Insert(k)
      <3>1. PICK k \in Keys : Insert(k)
        BY <2>1
      <3>2. Queue!Insert(k, Value[k])
        BY <1>4, <3>1, OperationsAreOfAQueue
      <3>. QED BY <3>2 DEF Queue!Next
    <2>2. CASE \E k \in Keys : EraseKey(k)
      <3>1. PICK k \in Keys : EraseKey(k)
        BY <2>2
      <3>2. Queue!EraseKey(k)
        BY <1>4, <3>1, OperationsAreOfAQueue
      <3>. QED BY <3>2 DEF Queue!Next
    <2>3. CASE Pop
      <3>1. Queue!Pop
        BY <1>4, <2>3, OperationsAreOfAQueue
      <3>. QED BY <3>1 DEF Queue!Next
    <2>4. CASE Clear
      <3>1. Queue!Clear
        BY <1>4, <2>4, OperationsAreOfAQueue
      <3>. QED BY <3>1 DEF Queue!Next
    <2>5. CASE GoesOn
      <3>1. DOMAIN keymap_' = DOMAIN keymap_
        BY <1>4, <2>5, OperationsAreOfAQueue
      <3>. QED BY <3>1
    <2>6. CASE UNCHANGED queueVars
      BY <2>6 DEF queueVars, arrays
    <2>. QED BY <1>4, <2>1, <2>2, <2>3, <2>4, <2>5, <2>6 DEF Next, Operation
  <1>. QED BY <1>1, <1>2, <1>3, <1>4, PTL DEF Spec, Queue!Spec

=============================================================================
