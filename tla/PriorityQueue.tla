--------------------------- MODULE PriorityQueue ----------------------------
(***************************************************************************)
(* What a heap of zi/heap promises: it holds a set of entries, one for     *)
(* each key, and pop() takes away an entry of the least value.             *)
(***************************************************************************)
EXTENDS Integers

CONSTANTS Keys, Values

VARIABLE entries   \* a value for each key that is in

Init == entries = <<>>

\* An entry with the key of another one is not taken in.
Insert(k, v) ==
    /\ k \notin DOMAIN entries
    /\ entries' = [j \in DOMAIN entries \cup {k} |-> IF j = k THEN v ELSE entries[j]]

EraseKey(k) ==
    /\ k \in DOMAIN entries
    /\ entries' = [j \in DOMAIN entries \ {k} |-> entries[j]]

Pop ==
    \E k \in DOMAIN entries :
        /\ \A j \in DOMAIN entries : entries[k] <= entries[j]
        /\ EraseKey(k)

Clear == entries' = <<>>

Next == (\E k \in Keys : EraseKey(k) \/ \E v \in Values : Insert(k, v)) \/ Pop \/ Clear

Spec == Init /\ [][Next]_entries
=============================================================================
