---------------------------- MODULE TriStripper -----------------------------
(***************************************************************************)
(* zi/mesh/tri_stripper.hpp: the faces of a mesh are joined, two at a time,*)
(* over the edge they share, into paths; the paths are written down as     *)
(* triangle strips.                                                        *)
(*                                                                         *)
(* Index 4f + i of pair_ and meta_ is the pair <<f, i>>: for i in 1 .. 3   *)
(* the edge of face f opposite its vertex i, for 0 the face itself, whose  *)
(* pair_ is the other end of the path it is an end of.  meta_ comes apart  *)
(* into the valid words, the edges a face uses, and how many they are.     *)
(***************************************************************************)
EXTENDS Integers, SequencesExt, FiniteSets

VARIABLES
    strip_stage,  \* "idle", "join" or "extract"
    face_data,    \* the vertices of each face
    pair,
    valid, used, degree,   \* meta_
    strip_heap,   \* a value for each face in heap_
    next,         \* the face extract_strip() is called for next
    strips        \* the strips written down

stripVars ==
    <<strip_stage, face_data, pair, valid, used, degree, strip_heap, next, strips>>

Words(n) == (0 .. n - 1) \X (0 .. 3)

\* next_cw, next_ccw
Cw(i)  == <<3, 1, 2>>[i]
Ccw(i) == <<2, 3, 1>>[i]

\* The edges of a face, from the one opposite its third vertex on.
EdgeOf(vs, i) == CASE i = 3 -> <<vs[1], vs[2]>> [] i = 1 -> <<vs[2], vs[3]>> [] i = 2 -> <<vs[3], vs[1]>>

Opposite(faces, w) ==
    {u \in Words(Len(faces)) :
        /\ w[2] # 0 /\ u[2] # 0
        /\ LET a == EdgeOf(faces[w[1] + 1], w[2])
           IN  EdgeOf(faces[u[1] + 1], u[2]) = <<a[2], a[1]>>}

\* What changes while faces are joined: the words' fields and the heap.
Stripper(p, v, u, d, h) == [pair |-> p, valid |-> v, used |-> u, degree |-> d, heap |-> h]

\* A face counts for each edge it may yet be joined over, and once more if it
\* is the end of a longer path.
ValueOf(s, f) ==
    LET v == 2 * Cardinality({i \in 1 .. 3 : <<f, i>> \in s.valid})
    IN  IF s.pair[<<f, 0>>] # <<f, 0>> /\ v > 0 THEN v + 1 ELSE v

\* update_heap, for a word: an edge, where detach_face calls it, is in no heap
\* and no longer valid, so that nothing happens then.
UpdateHeap(s, w) ==
    LET rest == IF w[2] = 0 THEN [f \in DOMAIN s.heap \ {w[1]} |-> s.heap[f]] ELSE s.heap
    IN  IF w \in s.valid /\ ValueOf(s, w[1]) > 0
          THEN [s EXCEPT !.heap = [f \in DOMAIN rest \cup {w[1]} |->
                                      IF f = w[1] THEN ValueOf(s, f) ELSE rest[f]]]
          ELSE [s EXCEPT !.heap = rest]

DetachFace(s, f) ==
    LET Detach(t, i) ==
            IF <<f, i>> \in t.valid
              THEN UpdateHeap([t EXCEPT !.valid = @ \ {<<f, i>>, t.pair[<<f, i>>]}],
                              t.pair[<<f, i>>])
              ELSE t
    IN  FoldLeft(Detach, [s EXCEPT !.valid = @ \ {<<f, 0>>}], <<1, 2, 3>>)

UseEdge(s, w) == [s EXCEPT !.used[w[1]] = @ \cup {w[2]}, !.degree[w[1]] = @ + 1]

\* Broken: the ends of the joined path do not learn of one another.
ApplyEdgeForgetsEnds(s, e1) ==
    LET e2 == s.pair[e1]
        f1 == <<e1[1], 0>>
        f2 == <<e2[1], 0>>
        s1 == UseEdge(UseEdge(s, e1), e2)
        s2 == [s1 EXCEPT !.valid = @ \ {e1, e2}]
        s3 == IF s2.pair[f1] # f1 THEN DetachFace(s2, f1[1]) ELSE s2
        s4 == IF s3.pair[f2] # f2 THEN DetachFace(s3, f2[1]) ELSE s3
        s5 == [s4 EXCEPT !.pair[f1] = f2, !.pair[f2] = f1]
    IN  UpdateHeap(UpdateHeap(s5, f1), f2)

\* The two faces at edge e1 become neighbours in a path; one that was the end
\* of a path already is an end no more.
ApplyEdge(s, e1) ==
    LET e2 == s.pair[e1]
        f1 == <<e1[1], 0>>
        f2 == <<e2[1], 0>>
        s1 == UseEdge(UseEdge(s, e1), e2)
        s2 == [s1 EXCEPT !.valid = @ \ {e1, e2}]
        s3 == IF s2.pair[f1] # f1 THEN DetachFace(s2, f1[1]) ELSE s2
        s4 == IF s3.pair[f2] # f2 THEN DetachFace(s3, f2[1]) ELSE s3
        s5 == [s4 EXCEPT !.pair[s4.pair[f2]] = s4.pair[f1]]
        s6 == [s5 EXCEPT !.pair[s5.pair[f1]] = s4.pair[f2]]
    IN  UpdateHeap(UpdateHeap(s6, f1), f2)

\* The edges of a face in turn: one that would close the path to a ring is
\* given up, over the first other one the face is joined.
RECURSIVE TryEdges(_, _, _)
TryEdges(s, f, i) ==
    IF i > 3 THEN s
    ELSE IF <<f, i>> \notin s.valid THEN TryEdges(s, f, i + 1)
    ELSE IF s.pair[<<f, 0>>] # <<s.pair[<<f, i>>][1], 0>> THEN ApplyEdge(s, <<f, i>>)
    ELSE TryEdges([s EXCEPT !.valid = @ \ {<<f, i>>, s.pair[<<f, i>>]}], f, i + 1)

\* Where edge w of a path leads on to, until the path's other end: the vertices.
RECURSIVE Follow(_, _, _)
Follow(written, entr, ccw) ==
    LET f     == entr[1]
        Turn(c) == IF c = 0 THEN Cw(entr[2]) ELSE Ccw(entr[2])
        swap  == Turn(1 - ccw) \notin used[f]
        c     == IF swap THEN ccw ELSE 1 - ccw
        more  == (IF swap THEN <<written[Len(written) - 1]>> ELSE <<>>)
                     \o <<face_data[f + 1][entr[2]]>>
    IN  IF degree[f] = 1
          THEN [vertices |-> Append(written, face_data[f + 1][entr[2]]), end |-> f]
          ELSE Follow(written \o more, pair[<<f, Turn(c)>>], c)

Init ==
    /\ strip_stage = "idle" /\ face_data = <<>> /\ pair = <<>> /\ valid = {}
    /\ used = <<>> /\ degree = <<>> /\ strip_heap = <<>> /\ next = 0 /\ strips = <<>>

\* The constructor, for the faces in the order in which the mesh lists them,
\* and the heap execute() starts from.
Strip(faces) ==
    LET n  == Len(faces)
        p  == [w \in Words(n) |->
                  IF w[2] = 0 THEN w
                  ELSE IF Opposite(faces, w) = {} THEN <<0, 0>>
                  ELSE CHOOSE u \in Opposite(faces, w) : TRUE]
        v  == {w \in Words(n) : w[2] = 0 \/ Opposite(faces, w) # {}}
        s  == Stripper(p, v, [f \in 0 .. n - 1 |-> {}], [f \in 0 .. n - 1 |-> 0], <<>>)
        h  == {f \in 0 .. n - 1 : ValueOf(s, f) > 0}
    IN  /\ strip_stage = "idle" /\ strip_stage' = "join"
        /\ face_data' = faces /\ pair' = p /\ valid' = v
        /\ used' = s.used /\ degree' = s.degree
        /\ strip_heap' = [f \in h |-> ValueOf(s, f)]
        /\ next' = 0 /\ strips' = <<>>

\* iteration() with any of the faces of the least value on top.
Iteration ==
    /\ strip_stage = "join"
    /\ \E f \in DOMAIN strip_heap :
          /\ \A g \in DOMAIN strip_heap : strip_heap[f] <= strip_heap[g]
          /\ LET rest == [g \in DOMAIN strip_heap \ {f} |-> strip_heap[g]]
                 s == TryEdges(Stripper(pair, valid, used, degree, rest), f, 1)
             IN  /\ pair' = s.pair /\ valid' = s.valid
                 /\ used' = s.used /\ degree' = s.degree /\ strip_heap' = s.heap
    /\ UNCHANGED <<strip_stage, face_data, next, strips>>

Extract ==
    /\ \/ strip_stage = "join" /\ strip_heap = <<>> /\ strip_stage' = "extract"
       \/ strip_stage = "extract" /\ next < Len(face_data) /\ UNCHANGED strip_stage
    /\ IF strip_stage = "join" THEN UNCHANGED <<degree, next, strips>>
       ELSE /\ next' = next + 1
            /\ CASE degree[next] = 0 ->
                      LET v == face_data[next + 1]
                      IN  /\ strips' = Append(strips, <<v[1], v[3], v[2], v[3]>>)
                          /\ UNCHANGED degree
                 [] degree[next] = 1 ->
                      LET e == CHOOSE i \in used[next] : TRUE
                          v == face_data[next + 1]
                          s == Follow(<<v[e], v[Cw(e)], v[Cw(Cw(e))]>>, pair[<<next, e>>], 0)
                      IN  /\ strips' = Append(strips, s.vertices)
                          /\ degree' = [degree EXCEPT ![next] = 2, ![s.end] = 2]
                 [] OTHER -> UNCHANGED <<degree, strips>>
    /\ UNCHANGED <<face_data, pair, valid, used, strip_heap>>

Next == Iteration \/ Extract

-----------------------------------------------------------------------------
\* simplifier::stripify numbers the points anew, as the strips come to them.
Reduced(indices) ==
    LET Number(points, v) == IF Contains(points, v) THEN points ELSE Append(points, v)
        points == FoldLeft(Number, <<>>, indices)
    IN  [points |-> points,
         indices |-> [i \in DOMAIN indices |-> (CHOOSE j \in DOMAIN points : points[j] = indices[i]) - 1]]

\* The triangles of a strip: every three vertices in a row, every second time
\* the other way round; those with a vertex twice only turn a corner.
Drawn(s) ==
    LET three == [i \in 1 .. Len(s) - 2 |->
                    IF i % 2 = 1 THEN <<s[i], s[i + 1], s[i + 2]>> ELSE <<s[i + 1], s[i], s[i + 2]>>]
    IN  SelectSeq(three, LAMBDA t : Cardinality(ToSet(t)) = 3)

\* A triangle from its least vertex on.
Turned(t) ==
    CASE t[1] < t[2] /\ t[1] < t[3] -> t
      [] t[2] < t[1] /\ t[2] < t[3] -> <<t[2], t[3], t[1]>>
      [] OTHER                      -> <<t[3], t[1], t[2]>>

\* However ties in the heap are broken, the strips draw every face of the mesh
\* once and draw nothing else, all faces turned the same way (the other way
\* than in the mesh): no path closes to a ring that no end leads into, none is
\* written from both ends (execute, tri_stripper.hpp:390-421); and the points that
\* are passed on with them, each of them once, are those the strips are about
\* (stripify, quadratic_simplifier.hpp:492-517).
StripsCoverTheSurface ==
    strip_stage = "extract" /\ next = Len(face_data) =>
        LET drawn == FlattenSeq([i \in DOMAIN strips |-> Drawn(strips[i])])
            written == FlattenSeq(strips)
            r == Reduced(written)
        IN  /\ Len(drawn) = Len(face_data)
            /\ {Turned(drawn[i]) : i \in DOMAIN drawn}
                   = {Turned(Reverse(face_data[i])) : i \in DOMAIN face_data}
            /\ \A i \in DOMAIN written : r.points[r.indices[i] + 1] = written[i]
            /\ Len(r.points) = Cardinality(UNION {ToSet(face_data[i]) : i \in DOMAIN face_data})
=============================================================================
