--------------------------- MODULE GraphAlgorithms ---------------------------
(***************************************************************************)
(* Two algorithms of zi/graph over graphs of a few vertices, which are the *)
(* numbers the constructors give them, and over edges that are sets of     *)
(* pairs, looked through in order: the largest matching of Hopcroft and    *)
(* Karp (bipartite_matching.hpp) and the strongly connected components of  *)
(* Tarjan (strongly_connected_components.hpp).  And the disjoint sets of   *)
(* zi/disjoint_sets.                                                       *)
(***************************************************************************)
EXTENDS Integers, SequencesExt, FiniteSets

CONSTANTS
    Left, Right,    \* how many vertices there are on either side
    Size,           \* how many vertices the other graph has
    SetSize         \* size_ of the disjoint sets

VARIABLES
    stage,          \* "bfs", "dfs" or "done"
    e,              \* the edges from left to right
    pair_, dist_,
    turn,           \* the left vertex whose turn it is
    matching,       \* how many searches have succeeded
    arcs,           \* the edges of the other graph
    scc,            \* indexi_, lowlink_, comps_, stack_, index_ and comp_
    root,           \* the vertex its execute() looks at next
    p_, r_, sets_,  \* the disjoint sets
    together        \* not in the code: the set that each element has been joined to

bmVars  == <<stage, e, pair_, dist_, turn, matching>>
sccVars == <<arcs, scc, root>>
dsVars  == <<p_, r_, sets_, together>>

-----------------------------------------------------------------------------
(* Matching.  The left vertices are counted from 1 on, the right ones after *)
(* them; nil is 0, where the search for a path that makes the matching      *)
(* larger ends.                                                             *)

nil == 0
inf == 99

LeftOnes  == 1 .. Left
RightOnes == Left + 1 .. Left + Right

\* The right ends of the edges at v, in the order of the sorted vector.
Partners(v) == SetToSortSeq({w \in RightOnes : <<v, w>> \in e}, <)

\* The edges of the vertex at the head of the queue: who is paired with their
\* other end, and has not been reached before, is one step further away.
RECURSIVE Reach(_, _, _)
Reach(dist, v, queue) ==
    LET Step(s, w) ==
            IF s.dist[pair_[w]] # inf THEN s
            ELSE [dist  |-> [s.dist EXCEPT ![pair_[w]] = s.dist[v] + 1],
                  queue |-> Append(s.queue, pair_[w])]
        s == IF v = nil THEN [dist |-> dist, queue |-> queue]
             ELSE FoldLeft(Step, [dist |-> dist, queue |-> queue], Partners(v))
    IN  IF s.queue = <<>> THEN s.dist ELSE Reach(s.dist, Head(s.queue), Tail(s.queue))

\* dfs(v): the pairs and distances after it, and whether it has found a path.
RECURSIVE Dfs(_, _), TryPartners(_, _, _)
TryPartners(s, v, ws) ==
    IF ws = <<>> THEN [s EXCEPT !.dist[v] = inf, !.found = FALSE]
    ELSE LET w == Head(ws)
             t == Dfs(s, s.pair[w])
         IN  IF s.dist[s.pair[w]] # s.dist[v] + 1 THEN TryPartners(s, v, Tail(ws))
             ELSE IF t.found THEN [t EXCEPT !.pair[w] = v, !.pair[v] = w]
             ELSE TryPartners(t, v, Tail(ws))
Dfs(s, v) == IF v = nil THEN [s EXCEPT !.found = TRUE] ELSE TryPartners(s, v, Partners(v))

MatchingInit ==
    /\ stage = "bfs" /\ e \in SUBSET (LeftOnes \X RightOnes)
    /\ pair_ = [v \in {nil} \cup LeftOnes \cup RightOnes |-> nil]
    /\ dist_ = [v \in {nil} \cup LeftOnes |-> 0]
    /\ turn = 1 /\ matching = 0

Bfs ==
    LET free  == {v \in LeftOnes : pair_[v] = nil}
        first == [v \in {nil} \cup LeftOnes |-> IF v \in free THEN 0 ELSE inf]
        queue == SetToSortSeq(free, <)
    IN  /\ stage = "bfs"
        /\ dist_' = IF queue = <<>> THEN first ELSE Reach(first, Head(queue), Tail(queue))
        /\ stage' = IF dist_'[nil] # inf THEN "dfs" ELSE "done"
        /\ turn' = 1
        /\ UNCHANGED <<e, pair_, matching>>

\* Broken: the search gives up once every vertex has had its turn.
DfsFromOnce ==
    LET s == Dfs([pair |-> pair_, dist |-> dist_, found |-> FALSE], turn)
    IN  /\ stage = "dfs"
        /\ IF pair_[turn] = nil
             THEN /\ pair_' = s.pair /\ dist_' = s.dist
                  /\ matching' = IF s.found THEN matching + 1 ELSE matching
             ELSE UNCHANGED <<pair_, dist_, matching>>
        /\ IF turn < Left THEN turn' = turn + 1 /\ UNCHANGED stage
           ELSE stage' = "done" /\ UNCHANGED turn
        /\ UNCHANGED e

DfsFrom ==
    LET s == Dfs([pair |-> pair_, dist |-> dist_, found |-> FALSE], turn)
    IN  /\ stage = "dfs"
        /\ IF pair_[turn] = nil
             THEN /\ pair_' = s.pair /\ dist_' = s.dist
                  /\ matching' = IF s.found THEN matching + 1 ELSE matching
             ELSE UNCHANGED <<pair_, dist_, matching>>
        /\ IF turn < Left THEN turn' = turn + 1 /\ UNCHANGED stage
           ELSE stage' = "bfs" /\ UNCHANGED turn
        /\ UNCHANGED e

MatchingNext == Bfs \/ DfsFrom

-----------------------------------------------------------------------------
\* res: the edges that are in the matching.
Result == {d \in e : pair_[d[1]] = d[2]}

IsMatching(m) == \A c, d \in m : c # d => c[1] # d[1] /\ c[2] # d[2]

\* In the end the edges that are marked are a matching, as many as were counted,
\* and no matching of the graph has more; on the way every path found has made
\* the matching larger by one and both ends of a pair agree
\* (execute, bipartite_matching.hpp:163-188).
MatchingIsLargest ==
    /\ IsMatching(Result) /\ Cardinality(Result) = matching
    /\ \A v \in LeftOnes : pair_[v] # nil => pair_[pair_[v]] = v
    /\ stage = "done" => \A m \in SUBSET e : IsMatching(m) => Cardinality(m) <= matching

-----------------------------------------------------------------------------
(* Components.  A vertex is on the stack while its component is inf.        *)

Unseen == 99   \* inf

Vertices == 0 .. Size - 1

Least(a, b) == IF a < b THEN a ELSE b

Targets(v) == SetToSortSeq({w \in Vertices : <<v, w>> \in arcs}, <)

\* Broken: the components are not told apart.
CloseWithoutCount(s, v) ==
    LET from == CHOOSE i \in DOMAIN s.stack : s.stack[i] = v
        top  == {s.stack[i] : i \in from .. Len(s.stack)}
    IN  IF s.indexi[v] # s.lowlink[v] THEN s
        ELSE [s EXCEPT !.comps = [w \in Vertices |-> IF w \in top THEN s.comp ELSE @[w]],
                       !.stack = SubSeq(@, 1, from - 1)]

\* The component of v is what lies above it on the stack.
Close(s, v) ==
    LET from == CHOOSE i \in DOMAIN s.stack : s.stack[i] = v
        top  == {s.stack[i] : i \in from .. Len(s.stack)}
    IN  IF s.indexi[v] # s.lowlink[v] THEN s
        ELSE [s EXCEPT !.comps = [w \in Vertices |-> IF w \in top THEN s.comp ELSE @[w]],
                       !.stack = SubSeq(@, 1, from - 1),
                       !.comp  = @ + 1]

RECURSIVE Tarjan(_, _), Scan(_, _, _)
Scan(s, v, ws) ==
    IF ws = <<>> THEN Close(s, v)
    ELSE LET w == Head(ws)
             t == Tarjan(s, w)
         IN  IF s.indexi[w] = Unseen
               THEN Scan([t EXCEPT !.lowlink[v] = Least(@, t.lowlink[w])], v, Tail(ws))
             ELSE IF s.comps[w] = Unseen
               THEN Scan([s EXCEPT !.lowlink[v] = Least(@, s.indexi[w])], v, Tail(ws))
             ELSE Scan(s, v, Tail(ws))
Tarjan(s, v) ==
    Scan([s EXCEPT !.indexi[v] = s.index, !.lowlink[v] = s.index, !.index = @ + 1,
                   !.stack = Append(@, v), !.comps[v] = Unseen],
         v, Targets(v))

ComponentsInit ==
    /\ arcs \in SUBSET (Vertices \X Vertices)
    /\ scc = [indexi  |-> [v \in Vertices |-> Unseen], lowlink |-> [v \in Vertices |-> 0],
              comps   |-> [v \in Vertices |-> 0], stack |-> <<>>, index |-> 0, comp |-> 0]
    /\ root = 0

\* The loop of execute().
Visit ==
    /\ root < Size /\ root' = root + 1
    /\ scc' = IF scc.indexi[root] = Unseen THEN Tarjan(scc, root) ELSE scc
    /\ UNCHANGED arcs

ComponentsNext == Visit

-----------------------------------------------------------------------------
\* The vertices that some path leads to from v.
RECURSIVE From(_)
From(vs) ==
    LET more == vs \cup {a[2] : a \in {b \in arcs : b[1] \in vs}}
    IN  IF more = vs THEN vs ELSE From(more)

\* Two vertices are in the same component exactly if paths lead from each to the
\* other; the components are numbered without a gap, none before one it leads to
\* (execute, strongly_connected_components.hpp:133-151).
ComponentsAreRight ==
    root = Size =>
        /\ \A v, w \in Vertices :
              (scc.comps[v] = scc.comps[w]) <=> (w \in From({v}) /\ v \in From({w}))
        /\ {scc.comps[v] : v \in Vertices} = 0 .. scc.comp - 1
        /\ \A a \in arcs : scc.comps[a[1]] >= scc.comps[a[2]]

-----------------------------------------------------------------------------
(* Disjoint sets: a forest in which every element leads to the one that     *)
(* stands for its set.  join() takes two of those that stand for sets;      *)
(* clients call it with what find_set() returns.                            *)

Elements == 0 .. SetSize - 1

RECURSIVE RootOf(_, _)
RootOf(p, n) == IF n = p[n] THEN n ELSE RootOf(p, p[n])

Roots == {n \in Elements : p_[n] = n}

SetsInit ==
    /\ p_ = [i \in Elements |-> i] /\ r_ = [i \in Elements |-> 0] /\ sets_ = SetSize
    /\ together = [i \in Elements |-> {i}]

\* find_set(id): of the way to the root only id's own step is shortened.
FindSet(id) ==
    /\ p_' = [p_ EXCEPT ![id] = RootOf(p_, id)]
    /\ UNCHANGED <<r_, sets_, together>>

\* Broken: the ranks never change.
JoinUnranked(x, y) ==
    /\ x \in Roots /\ y \in Roots /\ x # y
    /\ sets_' = sets_ - 1
    /\ p_' = [p_ EXCEPT ![y] = x]
    /\ UNCHANGED r_
    /\ together' = [i \in Elements |->
                      IF i \in together[x] \cup together[y] THEN together[x] \cup together[y]
                      ELSE together[i]]

\* join(x, y) for two elements that stand for sets.
Join(x, y) ==
    /\ x \in Roots /\ y \in Roots /\ x # y
    /\ sets_' = sets_ - 1
    /\ IF r_[x] >= r_[y]
         THEN /\ p_' = [p_ EXCEPT ![y] = x]
              /\ r_' = IF r_[x] = r_[y] THEN [r_ EXCEPT ![x] = @ + 1] ELSE r_
         ELSE p_' = [p_ EXCEPT ![x] = y] /\ UNCHANGED r_
    /\ together' = [i \in Elements |->
                      IF i \in together[x] \cup together[y] THEN together[x] \cup together[y]
                      ELSE together[i]]

\* clear(), and resize() to the size there is.
ClearSets ==
    /\ p_' = [i \in Elements |-> i] /\ r_' = [i \in Elements |-> 0] /\ sets_' = SetSize
    /\ together' = [i \in Elements |-> {i}]

SetsNext == (\E x \in Elements : FindSet(x) \/ \E y \in Elements : Join(x, y)) \/ ClearSets

-----------------------------------------------------------------------------
RECURSIVE Depth(_)
Depth(n) == IF p_[n] = n THEN 0 ELSE 1 + Depth(p_[n])

\* Whatever is joined and however ways are shortened, two elements find the same
\* one exactly if they have been joined, set_count() counts the sets, and no way
\* is longer than the binary logarithm of its set's size (join and find_set,
\* disjoint_sets.hpp:84-133).
SetsAreAsJoined ==
    /\ \A x, y \in Elements : (RootOf(p_, x) = RootOf(p_, y)) <=> (y \in together[x])
    /\ sets_ = Cardinality({together[x] : x \in Elements})
    /\ \A x \in Elements : 2 ^ Depth(x) <= Cardinality(together[x])
=============================================================================
