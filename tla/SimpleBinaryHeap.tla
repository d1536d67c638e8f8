-------------------------- MODULE SimpleBinaryHeap --------------------------
(***************************************************************************)
(* zi/heap/simple_binary_heap.hpp: a binary heap of distinct elements in a *)
(* vector, with the place of each in hash_map_.                            *)
(***************************************************************************)
EXTENDS Integers, SequencesExt

CONSTANT Elements   \* numbers, for their own value

VARIABLES
    storage,    \* storage_, counted from 1
    hash_map

vars == <<storage, hash_map>>

\* Both of them, while an operation is at work.
Heap(s, m) == [storage |-> s, map |-> m]

SwapElements(g, x, y) ==
    Heap([g.storage EXCEPT ![x] = g.storage[y], ![y] = g.storage[x]],
         [g.map EXCEPT ![g.storage[y]] = x, ![g.storage[x]] = y])

RECURSIVE HeapUp(_, _)
HeapUp(g, index) ==
    LET parent == index \div 2
    IN  IF index > 1 /\ g.storage[index] < g.storage[parent]
          THEN HeapUp(SwapElements(g, index, parent), parent)
          ELSE g

RECURSIVE HeapDown(_, _)
HeapDown(g, index) ==
    LET n     == Len(g.storage)
        left  == 2 * index
        child == IF left + 1 <= n /\ g.storage[left + 1] < g.storage[left] THEN left + 1 ELSE left
    IN  IF left <= n /\ ~(g.storage[index] < g.storage[child])
          THEN HeapDown(SwapElements(g, index, child), child)
          ELSE g

Insert(v) ==
    LET g == HeapUp(Heap(Append(storage, v), hash_map @@ (v :> Len(storage) + 1)), Len(storage) + 1)
    IN  /\ v \notin DOMAIN hash_map
        /\ storage' = g.storage /\ hash_map' = g.map

\* erase_: the last element takes the place of the erased one, and goes down
\* from there.
Erase(v) ==
    LET pos  == hash_map[v]
        last == Len(storage)
        g0   == SwapElements(Heap(storage, hash_map), pos, last)
        g1   == Heap(Front(g0.storage), [e \in DOMAIN hash_map \ {v} |-> g0.map[e]])
        g    == IF pos = last THEN g1 ELSE HeapDown(g1, pos)
    IN  /\ v \in DOMAIN hash_map
        /\ storage' = g.storage /\ hash_map' = g.map

Pop == storage # <<>> /\ Erase(storage[1])

Init == storage = <<>> /\ hash_map = <<>>

Next == (\E v \in Elements : Insert(v) \/ Erase(v)) \/ Pop

Spec == Init /\ [][Next]_vars

-----------------------------------------------------------------------------
\* Whatever has been erased, the element on top is the least
\* (simple_binary_heap_test.cpp:57-71, which erases and pops).
TopIsLeast == storage # <<>> => \A i \in DOMAIN storage : storage[1] <= storage[i]
=============================================================================
