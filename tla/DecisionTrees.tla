--------------------------- MODULE DecisionTrees ----------------------------
(* zi/ai: the decision trees, the three splitters that choose how a node is *)
(* divided, and the forest of trees that are made of random draws.  A step  *)
(* divides a node; what std::random_shuffle and std::rand give is a choice. *)
(* The trees of a forest are tasks of a pool, but each is made apart and    *)
(* appended under a lock: here they are made one after the other.           *)
(*                                                                           *)
(* Fractions are numbers of 2520ths: they are exact, as nothing is divided  *)
(* but by the (weighted) number of patterns of a node, which is ten at most. *)
EXTENDS Integers, Sequences, FiniteSets, TLC

Seqs == INSTANCE SequencesExt

CONSTANT Samples    \* what create() is called with: see SampleFields

SampleFields == {"patterns", "positives", "negatives", "splitter", "sub", "weight", "trees"}

VARIABLES
    sample,
    tree,       \* the nodes of the tree that is made, the root first
    trees       \* trees_ of the forest

treeVars == <<sample, tree, trees>>

Fractions == 2520

\* entropy.hpp, in thousandths of a bit, for shares of up to six patterns.
Entropy(a, b) ==
    LET table == {<<1, 2, 1000>>, <<1, 3, 918>>, <<1, 4, 811>>, <<1, 5, 722>>, <<2, 5, 971>>, <<1, 6, 650>>}
        less  == IF a < b THEN a ELSE b
    IN  IF a = 0 \/ b = 0 THEN 0
        ELSE (CHOOSE row \in table : row[1] * (a + b) = row[2] * less)[3]

-----------------------------------------------------------------------------
(* The splitters gini_maximizing and information_gain: of pt positives and  *)
(* nt negatives p and n lie below a threshold.  Both measures are times the *)
(* weight of all.                                                            *)

Impurity(p, n, w) == (2 * Fractions * n * w * p) \div (w * p + n)
GiniOf(p, n, pt, nt, w) == Impurity(p, n, w) + Impurity(pt - p, nt - n, w)

Information(p, n, w) == Entropy(w * p, n) * (w * p + n)
GainOf(p, n, pt, nt, w) ==
    Entropy(pt, nt) * (w * pt + nt) - Information(p, n, w) - Information(pt - p, nt - n, w)

\* How good a threshold is; of the impurity less is better.
Score(kind, p, n, pt, nt, w) ==
    IF kind = "gini" THEN GiniOf(p, n, pt, nt, w) ELSE GainOf(p, n, pt, nt, w)
Better(kind, x, y) == IF kind = "gini" THEN x < y ELSE y < x

\* The values of a column in order.
Column(patterns, members, c) ==
    SortSeq([k \in 1 .. Len(members) |-> patterns[members[k]][c]], <)

\* Broken: a threshold is looked at again for every pattern that equals it.
SweepTies(kind, best, c, pos, neg, w) ==
    LET P == Len(pos)
        N == Len(neg)
        Advance(s, k) ==
            LET negative  == s.p = P \/ (s.n < N /\ neg[s.n + 1] < pos[s.p + 1])
                threshold == IF negative THEN neg[s.n + 1] ELSE pos[s.p + 1]
                score     == Score(kind, s.p, s.n, P, N, w)
            IN  [p |-> IF negative THEN s.p ELSE s.p + 1,
                 n |-> IF negative THEN s.n + 1 ELSE s.n,
                 threshold |-> threshold,
                 best |-> IF s.p + s.n > 0 /\ Better(kind, score, s.best.score)
                          THEN [index |-> c, threshold |-> threshold, score |-> score]
                          ELSE s.best]
    IN  Seqs!FoldLeft(Advance, [p |-> 0, n |-> 0, best |-> best,
                                threshold |-> IF neg[1] < pos[1] THEN neg[1] ELSE pos[1]],
                      [k \in 1 .. P + N |-> k]).best

\* The sorted values are merged; where a new one comes, it may be the threshold.
Sweep(kind, best, c, pos, neg, w) ==
    LET P == Len(pos)
        N == Len(neg)
        Advance(s, k) ==
            LET negative  == s.p = P \/ (s.n < N /\ neg[s.n + 1] < pos[s.p + 1])
                threshold == IF negative THEN neg[s.n + 1] ELSE pos[s.p + 1]
                score     == Score(kind, s.p, s.n, P, N, w)
            IN  [p |-> IF negative THEN s.p ELSE s.p + 1,
                 n |-> IF negative THEN s.n + 1 ELSE s.n,
                 threshold |-> threshold,
                 best |-> IF threshold # s.threshold /\ Better(kind, score, s.best.score)
                          THEN [index |-> c, threshold |-> threshold, score |-> score]
                          ELSE s.best]
    IN  Seqs!FoldLeft(Advance, [p |-> 0, n |-> 0, best |-> best,
                                threshold |-> IF neg[1] < pos[1] THEN neg[1] ELSE pos[1]],
                      [k \in 1 .. P + N |-> k]).best

ThresholdSplit(kind, worst, patterns, positives, negatives, columns, w) ==
    LET start == [index |-> columns[1], threshold |-> patterns[positives[1]][columns[1]],
                  score |-> worst]
        Try(best, c) == Sweep(kind, best, c, Column(patterns, positives, c),
                              Column(patterns, negatives, c), w)
    IN  Seqs!FoldLeft(Try, start, columns)

GiniSplit(patterns, positives, negatives, columns, w) ==
    ThresholdSplit("gini", 1000 * Fractions, patterns, positives, negatives, columns, w)
GainSplit(patterns, positives, negatives, columns, w) ==
    ThresholdSplit("gain", 0, patterns, positives, negatives, columns, w)

\* mmdt_splitter.hpp: the plane in the middle between the means.
Mean(patterns, members) ==
    [c \in DOMAIN patterns[1] |->
        (Fractions * Seqs!FoldLeft(LAMBDA sum, i : sum + patterns[i][c], 0, members)) \div Len(members)]
MmdtSplit(patterns, positives, negatives) ==
    LET mu_t == Mean(patterns, positives)
        mu_f == Mean(patterns, negatives)
    IN  [mu |-> [c \in DOMAIN mu_t |-> (mu_t[c] + mu_f[c]) \div 2],
         ni |-> [c \in DOMAIN mu_t |-> mu_t[c] - mu_f[c]]]

\* get_split_fn(): with patterns of one sort only everything is on the left.
Everything == [all_same |-> TRUE]
SplitFn(s, positives, negatives, columns) ==
    IF positives = <<>> \/ negatives = <<>> THEN Everything
    ELSE CASE s.splitter = "gini" -> GiniSplit(s.patterns, positives, negatives, columns, s.weight)
           [] s.splitter = "gain" -> GainSplit(s.patterns, positives, negatives, columns, s.weight)
           [] s.splitter = "mmdt" -> MmdtSplit(s.patterns, positives, negatives)

\* split_fn::operator(), of the splitters with a threshold and of mmdt.
Below(split, pattern) == pattern[split.index] < split.threshold
BeforePlane(split, v) ==
    Seqs!FoldLeft(LAMBDA sum, c : sum + (v[c] - split.mu[c]) * split.ni[c], 0,
                  Seqs!SetToSeq(DOMAIN v)) >= 0
GoesLeft(split, pattern) ==
    CASE split = Everything -> TRUE
      [] "index" \in DOMAIN split -> Below(split, pattern)
      [] OTHER -> BeforePlane(split, [c \in DOMAIN pattern |-> Fractions * pattern[c]])

-----------------------------------------------------------------------------
(* decision_tree.hpp.  A node remembers here what it was made of; it is     *)
(* open until its constructor has divided that, a leaf if it was not.       *)

LeafProbability(np, nn, w) ==
    (Fractions * w * np) \div (w * np + nn)

OpenNode(positives, negatives) ==
    [kind |-> "open", positives |-> positives, negatives |-> negatives]

RootNode(positives, negatives) ==
    IF positives = <<>> \/ negatives = <<>>
    THEN [kind |-> "leaf", positives |-> positives, negatives |-> negatives, depth |-> 0,
          probability |-> LeafProbability(Len(positives), Len(negatives), 1)]
    ELSE OpenNode(positives, negatives)

\* The first columns of a shuffled list of them.
Shuffles(s) ==
    IF s.splitter = "mmdt" THEN {<<>>}
    ELSE {c \in [1 .. s.sub -> DOMAIN s.patterns[1]] : \A i, j \in 1 .. s.sub : c[i] = c[j] => i = j}

DivideNode ==
    \E id \in DOMAIN tree, columns \in Shuffles(sample) :
        /\ tree[id].kind = "open" /\ \A j \in 1 .. id - 1 : tree[j].kind # "open"
        /\ LET node     == tree[id]
               split    == SplitFn(sample, node.positives, node.negatives, columns)
               Left(m)  == SelectSeq(m, LAMBDA i : GoesLeft(split, sample.patterns[i]))
               Right(m) == SelectSeq(m, LAMBDA i : ~ GoesLeft(split, sample.patterns[i]))
               left     == OpenNode(Left(node.positives), Left(node.negatives))
               right    == OpenNode(Right(node.positives), Right(node.negatives))
               Total(n) == Len(n.positives) + Len(n.negatives)
           IN  tree' = IF Total(left) = 0 \/ Total(right) = 0
                       THEN [tree EXCEPT ![id] =
                               [kind |-> "leaf", positives |-> node.positives,
                                negatives |-> node.negatives, depth |-> 1, columns |-> columns,
                                probability |-> LeafProbability(Len(node.positives),
                                                  Len(node.negatives), sample.weight)]]
                       ELSE [tree EXCEPT ![id] =
                               [kind |-> "inner", positives |-> node.positives,
                                negatives |-> node.negatives, columns |-> columns, split |-> split,
                                left |-> Len(tree) + 1, right |-> Len(tree) + 2]]
                            \o <<left, right>>
        /\ UNCHANGED <<sample, trees>>

IsMade(t) == t # <<>> /\ \A id \in DOMAIN t : t[id].kind # "open"

Depth(t) ==
    LET d[id \in 1 .. Len(t)] ==
            IF t[id].kind = "leaf" THEN t[id].depth
            ELSE 1 + IF d[t[id].left] < d[t[id].right] THEN d[t[id].right] ELSE d[t[id].left]
    IN  d[1]

\* eval(), and the leaf that it comes to.
LeafOf(t, pattern) ==
    LET walk[id \in 1 .. Len(t)] ==
            IF t[id].kind = "leaf" THEN id
            ELSE walk[IF GoesLeft(t[id].split, pattern) THEN t[id].left ELSE t[id].right]
    IN  walk[1]
Eval(t, pattern) == t[LeafOf(t, pattern)].probability

-----------------------------------------------------------------------------
(* random_forest.hpp                                                        *)

\* create_single_tree(): as many draws as there are patterns, each of a positive
\* or of a negative one.
DrawBag ==
    /\ tree = <<>> /\ Len(trees) < sample.trees
    /\ \E np \in 0 .. Len(sample.positives) + Len(sample.negatives) :
         LET total == Len(sample.positives) + Len(sample.negatives)
         IN  \E ps \in [1 .. np -> DOMAIN sample.positives],
                ns \in [1 .. total - np -> DOMAIN sample.negatives] :
               tree' = <<RootNode([k \in 1 .. np |-> sample.positives[ps[k]]],
                              [k \in 1 .. total - np |-> sample.negatives[ns[k]]])>>
    /\ UNCHANGED <<sample, trees>>

AppendTree ==
    /\ IsMade(tree) /\ Len(trees) < sample.trees
    /\ trees' = Append(trees, tree) /\ tree' = <<>> /\ UNCHANGED sample

EvalForest(pattern) ==
    IF trees = <<>> THEN -Fractions
    ELSE Seqs!FoldLeft(LAMBDA sum, t : sum + Eval(t, pattern), 0, trees) \div Len(trees)

TreeInit ==
    /\ sample \in Samples /\ trees = <<>>
    /\ tree = IF sample.trees = 0 THEN <<RootNode(sample.positives, sample.negatives)>> ELSE <<>>

TreeNext == DivideNode \/ DrawBag \/ AppendTree

-----------------------------------------------------------------------------
Members(node) == {node.positives[k] : k \in DOMAIN node.positives}
                     \cup {node.negatives[k] : k \in DOMAIN node.negatives}
IsMixed(node) == node.positives # <<>> /\ node.negatives # <<>>

\* The thresholds that part the members of a node, in the columns that were tried.
Partings(s, node) ==
    LET Feature(i, c) == s.patterns[i][c]
    IN  {d \in [index : {node.columns[k] : k \in DOMAIN node.columns},
                threshold : {Feature(i, c) : i \in Members(node), c \in DOMAIN s.patterns[1]}] :
            /\ \E i \in Members(node) : Feature(i, d.index) = d.threshold
            /\ \E i \in Members(node) : Feature(i, d.index) < d.threshold}
ScoreOf(s, node, d) ==
    LET Under(m) == Len(SelectSeq(m, LAMBDA i : Below(d, s.patterns[i])))
    IN  Score(s.splitter, Under(node.positives), Under(node.negatives),
              Len(node.positives), Len(node.negatives), s.weight)

\* A node is divided as well as the columns that were tried allow, and left
\* undivided only where that improves nothing (mmdt: only where the means agree).
DividesWell(s, node) ==
    LET scores == {ScoreOf(s, node, d) : d \in Partings(s, node)}
    IN  IsMixed(node) =>
        CASE s.splitter = "gini" ->
               IF node.kind = "leaf" THEN scores = {}
               ELSE \A x \in scores : ScoreOf(s, node, node.split) <= x
          [] s.splitter = "gain" ->
               IF node.kind = "leaf" THEN \A x \in scores : x <= 0
               ELSE \A x \in scores : x <= ScoreOf(s, node, node.split)
          [] s.splitter = "mmdt" ->
               LET positive == Mean(s.patterns, node.positives)
                   negative == Mean(s.patterns, node.negatives)
               IN  IF node.kind = "leaf" THEN positive = negative
                   ELSE BeforePlane(node.split, positive) /\ ~ BeforePlane(node.split, negative)

\* What a tree says of a pattern that it was made of is the weighted share of
\* positives among those that come to the same leaf; with all columns at hand
\* gini_maximizing takes apart all patterns that differ.
SaysTheShare(s, t) ==
    \A i \in Members(t[1]) :
        LET Same(m)  == SelectSeq(m, LAMBDA j : LeafOf(t, s.patterns[j]) = LeafOf(t, s.patterns[i]))
            Alike(m) == SelectSeq(m, LAMBDA j : s.patterns[j] = s.patterns[i])
            Share(part(_)) ==
                LeafProbability(Len(part(t[1].positives)), Len(part(t[1].negatives)), s.weight)
        IN  /\ Eval(t, s.patterns[i]) = Share(Same)
            /\ s.splitter = "gini" /\ s.sub = Cardinality(DOMAIN s.patterns[1]) =>
                   Eval(t, s.patterns[i]) = Share(Alike)

\* decision_tree.hpp, random_forest.hpp and the splitters.
TreesDecideWell ==
    /\ \A id \in DOMAIN tree :
         "columns" \in DOMAIN tree[id] => DividesWell(sample, tree[id])
    /\ IsMade(tree) => /\ SaysTheShare(sample, tree)
                       /\ Depth(tree) <= Cardinality(Members(tree[1]))
    /\ trees # <<>> /\ Len(trees) = sample.trees =>
         \A i \in DOMAIN sample.patterns :
             LET says == {Eval(trees[k], sample.patterns[i]) : k \in DOMAIN trees}
             IN  /\ \E x \in says : x <= EvalForest(sample.patterns[i])
                 /\ \E x \in says : x >= EvalForest(sample.patterns[i])
=============================================================================
