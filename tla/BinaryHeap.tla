----------------------------- MODULE BinaryHeap -----------------------------
(***************************************************************************)
(* zi/heap/detail/binary_heap_impl.hpp: a binary heap whose entries lie in *)
(* an array of slots and never move there.  heap_ orders the slots, map_   *)
(* is its inverse, and keymap_ finds the slot of a key; the arrays double  *)
(* and halve.                                                              *)
(*                                                                         *)
(* An entry is its key; Value gives the keys their values.  A slot that    *)
(* holds nothing is not in the domain of store_.  Each round of a loop is  *)
(* a step, and what an operation does before, between and after its loops  *)
(* is part of the step that enters or leaves them.                         *)
(***************************************************************************)
EXTENDS Integers

CONSTANTS
    Value,        \* the value of each key
    Reserve,      \* what is reserved at first, 16 in the code
    ShrinkAbove   \* arrays no longer than this are not halved, 4096 in the code

Keys == DOMAIN Value

BinaryHeapAssumption ==
    /\ Value \in [Keys -> Int]
    /\ Reserve \in Nat \ {0} /\ ShrinkAbove \in Nat \ {0}

VARIABLES
    size_, reserved_, heap_, map_, store_, keymap_,
    loop,   \* heap_up in insert_ ("insert") or in erase_at_ ("up"), heap_down ("down"),
            \* try_shrink ("shrink"); "none" between operations
    index,  \* the place the loop has reached
    si      \* the slot from which try_shrink looks on

arrays == <<size_, reserved_, heap_, map_, store_, keymap_>>
queueVars == <<arrays, loop, index, si>>

-----------------------------------------------------------------------------
Nothing    == [x \in {} |-> x]
Put(f, x, y)  == [z \in DOMAIN f \cup {x} |-> IF z = x THEN y ELSE f[z]]
Without(f, x) == [z \in DOMAIN f \ {x} |-> f[z]]

Identity(n) == [i \in 0 .. n - 1 |-> i]

At(i)     == Value[store_[heap_[i]]]
Parent(i) == (i - 1) \div 2

SwapElements(x, y) ==
    /\ heap_' = [heap_ EXCEPT ![x] = heap_[y], ![y] = heap_[x]]
    /\ map_'  = [map_ EXCEPT ![heap_[y]] = x, ![heap_[x]] = y]

\* The arrays double when n entries fill them.
TryGrow(n) ==
    LET s == 2 * reserved_
        Extended(f) == [i \in 0 .. s - 1 |-> IF i < reserved_ THEN f[i] ELSE i]
    IN  IF n = reserved_
        THEN reserved_' = s /\ heap_' = Extended(heap_) /\ map_' = Extended(map_)
        ELSE UNCHANGED <<reserved_, heap_, map_>>

\* They are to be halved when n entries leave most of them empty.
TryShrink(n) ==
    IF 4 * n < reserved_ /\ reserved_ > ShrinkAbove
    THEN loop' = "shrink" /\ index' = 0 /\ si' = 0
    ELSE loop' = "none" /\ UNCHANGED <<index, si>>

-----------------------------------------------------------------------------
(* insert(): an entry whose key is there is left out.                      *)

Insert(k) ==
    /\ loop = "none" /\ k \notin DOMAIN keymap_
    /\ store_'  = Put(store_, heap_[size_], k)
    /\ keymap_' = Put(keymap_, k, heap_[size_])
    /\ loop' = "insert" /\ index' = size_
    /\ UNCHANGED <<size_, reserved_, heap_, map_, si>>

Rises == index > 0 /\ At(index) < At(Parent(index))

HeapUp ==
    /\ loop \in {"insert", "up"} /\ Rises
    /\ SwapElements(index, Parent(index)) /\ index' = Parent(index)
    /\ UNCHANGED <<size_, reserved_, store_, keymap_, loop, si>>

Inserted ==
    /\ loop = "insert" /\ ~Rises
    /\ size_' = size_ + 1 /\ TryGrow(size_ + 1) /\ loop' = "none"
    /\ UNCHANGED <<store_, keymap_, index, si>>

-----------------------------------------------------------------------------
(* erase_at_(): the last entry takes the place of the one that goes, and   *)
(* rises or sinks from there.                                              *)

EraseAt(pos) ==
    LET hp == map_[pos]
    IN  /\ keymap_' = Without(keymap_, store_[pos])
        /\ store_'  = Without(store_, pos)
        /\ size_'   = size_ - 1
        /\ IF hp < size_ - 1
           THEN SwapElements(hp, size_ - 1) /\ loop' = "up" /\ index' = hp /\ UNCHANGED si
           ELSE TryShrink(size_ - 1) /\ UNCHANGED <<heap_, map_>>
        /\ UNCHANGED reserved_

EraseKey(k) == loop = "none" /\ k \in DOMAIN keymap_ /\ EraseAt(keymap_[k])

\* pop(): by way of the key of the entry on top.
Pop == loop = "none" /\ size_ > 0 /\ EraseAt(keymap_[store_[heap_[0]]])

Raised == loop = "up" /\ ~Rises /\ loop' = "down" /\ UNCHANGED <<arrays, index, si>>

Left  == 2 * index + 1
Child == IF Left + 1 < size_ /\ At(Left + 1) < At(Left) THEN Left + 1 ELSE Left
Sinks == Left < size_ /\ ~(At(index) < At(Child))

HeapDown ==
    /\ loop = "down" /\ Sinks
    /\ SwapElements(index, Child) /\ index' = Child
    /\ UNCHANGED <<size_, reserved_, store_, keymap_, loop, si>>

Lowered == loop = "down" /\ ~Sinks /\ TryShrink(size_) /\ UNCHANGED arrays

-----------------------------------------------------------------------------
(* try_shrink(): the places that stay take slots that stay.                *)

Kept == reserved_ \div 2

\* Broken: places without an entry keep slots that are gone.
Entries == size_

\* How many places are looked at.
Moved == Kept

\* The first slot from si on that stays and belongs to a place that goes.
IsFree(j)   == j \in si .. Kept - 1 /\ map_[j] >= Kept /\ \A i \in si .. j - 1 : map_[i] < Kept
FreeSlot == CHOOSE j \in si .. Kept - 1 : IsFree(j)

KeepSlot == heap_[index] < Kept /\ UNCHANGED <<heap_, map_, store_, keymap_, si>>

Rehouse ==
    LET old == heap_[index]
    IN  /\ old >= Kept
        /\ heap_' = [heap_ EXCEPT ![index] = FreeSlot]
        /\ map_'  = [map_ EXCEPT ![FreeSlot] = index]
        /\ si' = FreeSlot
        /\ IF index < size_
           THEN /\ keymap_' = [keymap_ EXCEPT ![store_[old]] = FreeSlot]
                /\ store_'  = Put(Without(store_, old), FreeSlot, store_[old])
           ELSE UNCHANGED <<keymap_, store_>>

MovePlace ==
    /\ loop = "shrink" /\ index < Moved /\ index' = index + 1
    /\ KeepSlot \/ Rehouse
    /\ UNCHANGED <<size_, reserved_, loop>>

Shrunk ==
    /\ loop = "shrink" /\ index = Moved
    /\ heap_' = [i \in 0 .. Kept - 1 |-> heap_[i]]
    /\ map_'  = [i \in 0 .. Kept - 1 |-> map_[i]]
    /\ reserved_' = Kept /\ loop' = "none"
    /\ UNCHANGED <<size_, store_, keymap_, index, si>>

-----------------------------------------------------------------------------
\* clear(): arrays longer than at first are replaced, others stay as they are.
Clear ==
    /\ loop = "none"
    /\ size_' = 0 /\ store_' = Nothing /\ keymap_' = Nothing
    /\ IF reserved_ > Reserve
       THEN reserved_' = Reserve /\ heap_' = Identity(Reserve) /\ map_' = Identity(Reserve)
       ELSE UNCHANGED <<reserved_, heap_, map_>>
    /\ UNCHANGED <<loop, index, si>>

Init ==
    /\ size_ = 0 /\ reserved_ = Reserve
    /\ heap_ = Identity(Reserve) /\ map_ = Identity(Reserve)
    /\ store_ = Nothing /\ keymap_ = Nothing
    /\ loop = "none" /\ index = 0 /\ si = 0

\* What an operation goes on with.
GoesOn ==
    HeapUp \/ Inserted \/ Raised \/ HeapDown \/ Lowered \/ MovePlace \/ Shrunk

Operation == (\E k \in Keys : Insert(k) \/ EraseKey(k)) \/ Pop \/ Clear

Next == Operation \/ GoesOn

Spec == Init /\ [][Next]_queueVars

-----------------------------------------------------------------------------
Queue == INSTANCE PriorityQueue
           WITH entries <- [k \in DOMAIN keymap_ |-> Value[k]], Values <- {Value[k] : k \in Keys}

\* Between operations heap_ and map_ are inverse, each entry has a place, keymap_
\* finds its slot, there is room for one more, and the one on top is the least.
IsWhole ==
    loop = "none" =>
        /\ size_ < reserved_
        /\ \A i \in 0 .. reserved_ - 1 : heap_[i] \in 0 .. reserved_ - 1 /\ map_[heap_[i]] = i
        /\ \A i \in 0 .. size_ - 1 :
              /\ heap_[i] \in DOMAIN store_
              /\ store_[heap_[i]] \in DOMAIN keymap_ /\ keymap_[store_[heap_[i]]] = heap_[i]
              /\ At(0) <= At(i)
        /\ \A k \in DOMAIN keymap_ : \E i \in 0 .. size_ - 1 : store_[heap_[i]] = k

\* Whatever is inserted and erased, in whatever order, and however the arrays
\* grow and shrink meanwhile, the heap is a queue: an operation adds or takes
\* away the entry it is meant to and no other, the one that is popped is the
\* least, and the loops of an operation only put in order what it has left
\* (binary_heap_impl.hpp, insert_, erase_at_, try_grow, try_shrink, clear_).
HeapIsAQueue ==
    /\ IsWhole
    /\ [][/\ IsWhole'
          /\ \A k \in Keys : /\ Insert(k) => Queue!Insert(k, Value[k])
                             /\ EraseKey(k) => Queue!EraseKey(k)
          /\ Pop => Queue!Pop
          /\ Clear => Queue!Clear
          /\ GoesOn => DOMAIN keymap_' = DOMAIN keymap_]_queueVars
=============================================================================
