----------------------------- MODULE Simplifier -----------------------------
(***************************************************************************)
(* The triangle mesh of zi/mesh/tri_mesh.hpp, and its simplification.      *)
(*                                                                         *)
(* A mesh is an oriented surface kept three times over, as faces, as the   *)
(* directed edges of the faces, and in each vertex as a face it lies on    *)
(* and a count of the edges at it that have a face on one side only.  It   *)
(* is a record here.  Its field `sound` stands for the ZI_ASSERTs and      *)
(* ZI_VERIFYs: it is FALSE from the first that does not hold.  The packed  *)
(* 64 bits of an edge are the pair of its ends, 0 (no edge) is <<>>.       *)
(***************************************************************************)
EXTENDS Integers, SequencesExt

\* tri_mesh_vertex: validity is the top bit of open_, next to the count.
NewVertex == [face |-> 0, open |-> 0, valid |-> FALSE]

OnBorder(v) == v.open # 0 \/ ~v.valid

\* resize() ends with clear(), which leaves vertices_ empty with room for the
\* vertices; add_face then writes into that room, which is why a mesh has them here.
NewMesh(size) ==
    [vertices |-> [v \in 0 .. size - 1 |-> NewVertex],
     edges |-> <<>>, faces |-> <<>>, max_face |-> 0, sound |-> TRUE]

EdgeInverse(e) == <<e[2], e[1]>>

\* tri_mesh_face: e0() to e2() are the edges that face a vertex, edge(i) leaves
\* one, edge_from() leaves the vertex it is given.  Of the three templates edge<i>
\* that stand beside e0() to e2() the last repeats the second.
FaceVertex(f, i)   == f[(i % 3) + 1]
EdgeOpposite(f, i) == <<FaceVertex(f, i + 1), FaceVertex(f, i + 2)>>
EdgeAt(f, i)       == <<FaceVertex(f, i), FaceVertex(f, i + 1)>>
EdgeTemplate(f, i) == EdgeOpposite(f, IF i = 2 THEN 1 ELSE i)
EdgeFrom(f, v) ==
    IF v \notin ToSet(f) THEN <<>> ELSE EdgeAt(f, (CHOOSE i \in 1 .. 3 : f[i] = v) - 1)

\* Asserts that the vertex is one of the face.
ReplaceVertex(f, orig, replacement) ==
    [f EXCEPT ![CHOOSE i \in 1 .. 3 : f[i] = orig /\ \A j \in 1 .. i - 1 : f[j] # orig] = replacement]

\* What the iterators over the faces and the edges show, from begin() to end(),
\* in an order of the hash tables' own; find() leads to one of them, or to end().
FacesShown(m) == {[id |-> i, face |-> m.faces[i]] : i \in DOMAIN m.faces}
EdgesShown(m) ==
    {[id |-> e, source |-> e[1], sink |-> e[2], pair |-> EdgeInverse(e),
      face |-> m.edges[e].face, v2 |-> m.edges[e].vertex] : e \in DOMAIN m.edges}
FoundFace(m, i) == {it \in FacesShown(m) : it.id = i}
FoundEdge(m, e) == {it \in EdgesShown(m) : it.id = e}

HasEdge(m, e) == e \in DOMAIN m.edges

AddEdge(m, x, y, z, f) ==
    LET d == IF HasEdge(m, <<y, x>>) THEN -1 ELSE 1
    IN  [m EXCEPT
            !.sound = @ /\ Cardinality({x, y, z}) = 3 /\ ~HasEdge(m, <<x, y>>),
            !.vertices[x] = [face |-> f, open |-> @.open + d, valid |-> TRUE],
            !.vertices[y].open = @ + d,
            !.edges = @ @@ (<<x, y>> :> [face |-> f, vertex |-> z])]

\* Broken: the vertex keeps its mark although its face goes.
RemoveEdgeKeepsMark(m, x, y, f) ==
    LET d == IF HasEdge(m, <<y, x>>) THEN 1 ELSE -1
    IN  [m EXCEPT
            !.sound = @ /\ HasEdge(m, <<x, y>>),
            !.vertices[x].open = @ + d,
            !.vertices[y].open = @ + d,
            !.edges = [e \in DOMAIN @ \ {<<x, y>>} |-> @[e]]]

RemoveEdge(m, x, y, f) ==
    LET d == IF HasEdge(m, <<y, x>>) THEN 1 ELSE -1
    IN  [m EXCEPT
            !.sound = @ /\ HasEdge(m, <<x, y>>),
            !.vertices[x] = [@ EXCEPT !.open = @ + d, !.valid = @ /\ m.vertices[x].face # f],
            !.vertices[y].open = @ + d,
            !.edges = [e \in DOMAIN @ \ {<<x, y>>} |-> @[e]]]

AddFace(m, x, y, z) ==
    LET f  == m.max_face + 1       \* no face has a number above max_face_
        m0 == [m EXCEPT !.max_face = f, !.faces = @ @@ (f :> <<x, y, z>>)]
        m1 == AddEdge(m0, x, y, z, f)
        m2 == AddEdge(m1, y, z, x, f)
    IN  AddEdge(m2, z, x, y, f)

RemoveFace(m, id) ==
    LET f  == m.faces[id]
        m1 == RemoveEdge(m, f[1], f[2], id)
        m2 == RemoveEdge(m1, f[2], f[3], id)
        m3 == RemoveEdge(m2, f[3], f[1], id)
    IN  [m3 EXCEPT !.faces = [i \in DOMAIN @ \ {id} |-> @[i]]]

\* By its vertices, from any of them on.
RemoveFaceAt(m, x, y, z) ==
    LET m0 == [m EXCEPT !.sound = @ /\ HasEdge(m, <<x, y>>) /\ m.edges[<<x, y>>].vertex = z]
        m1 == RemoveFace(m0, m.edges[<<x, y>>].face)
    IN  [m1 EXCEPT !.sound = @ /\ {<<x, y>>, <<y, z>>, <<z, x>>} \cap DOMAIN m1.edges = {}]

\* fill_tri_mesh and fill_simplifier: the points are numbered as they first occur.
FillMesh(triangles) ==
    LET Number(points, p) == IF Contains(points, p) THEN points ELSE Append(points, p)
        Index(points, p)  == (CHOOSE i \in DOMAIN points : points[i] = p) - 1
        points == FoldLeft(Number, <<>>, FlattenSeq(triangles))
        Add(m, t) == AddFace(m, Index(points, t[1]), Index(points, t[2]), Index(points, t[3]))
    IN  FoldLeft(Add, NewMesh(Len(points)), triangles)

\* The edge that leaves vertex v in the face v remembers.
VertexEdge(m, v) ==
    IF OnBorder(m.vertices[v]) \/ m.vertices[v].face \notin DOMAIN m.faces THEN <<>>
    ELSE EdgeFrom(m.faces[m.vertices[v].face], v)

AcrossEdge(m, x, y) == m.edges[<<x, y>>].vertex

\* The edge after e on its face, and the ones next to e around its source: the
\* other edge of e's face there, and that of the face across e.  0 (<<>>) when e
\* has no face.
NextEdge(m, e)      == IF HasEdge(m, e) THEN <<e[2], m.edges[e].vertex>> ELSE <<>>
NextAround(m, e)    == IF HasEdge(m, e) THEN <<e[1], m.edges[e].vertex>> ELSE <<>>
NextAroundCw(m, e)  == NextAround(m, e)
NextAroundCcw(m, e) == NextEdge(m, EdgeInverse(e))
EdgeFace(m, e)      == IF HasEdge(m, e) THEN m.edges[e].face ELSE 0

ValidVertex(m, v) == m.vertices[v].valid /\ ~OnBorder(m.vertices[v])

ValidEdge(m, e) == ValidVertex(m, e[1]) /\ ValidVertex(m, e[2])

\* The vertices around the inner vertex v, from vertex a on and up to b, in the
\* order in which across_edge() leads from one to the next.
RECURSIVE Around(_, _, _, _)
Around(m, v, a, b) ==
    IF a = b THEN <<b>> ELSE <<a>> \o Around(m, v, AcrossEdge(m, v, a), b)

\* All of them, vertex b last.
RingTo(m, v, b) == Around(m, v, AcrossEdge(m, v, b), b)

\* The faces that are left at v1 move to v2, from the one after vertex v on.
RECURSIVE MoveFan(_, _, _, _, _)
MoveFan(m, v1, v2, v, vl) ==
    IF v = vl THEN m
    ELSE LET nv == AcrossEdge(m, v1, v)
             m1 == RemoveFace(m, m.edges[<<v1, v>>].face)
         IN  MoveFan(AddFace(m1, v2, v, nv), v1, v2, nv, vl)

\* Both ends of the edge are inside the surface, so the test for a border and
\* the exchange of the ends that follows it have nothing to do.
CollapseEdge(m, e) ==
    LET v1 == e[1]
        v2 == e[2]
        er == m.edges[e]
        el == m.edges[EdgeInverse(e)]
        m0 == [m EXCEPT !.sound = @ /\ ValidEdge(m, e) /\ er.vertex # el.vertex]
        m1 == RemoveFace(RemoveFace(m0, er.face), el.face)
    IN  MoveFan(m1, v1, v2, er.vertex, el.vertex)

EdgesOf(f) == {<<f[1], f[2]>>, <<f[2], f[3]>>, <<f[3], f[1]>>}

CheckRep(m) ==
    /\ Cardinality(DOMAIN m.edges) = 3 * Cardinality(DOMAIN m.faces)
    /\ \A id \in DOMAIN m.faces :
          /\ \A i \in 1 .. 3 : m.vertices[m.faces[id][i]].valid
          /\ \A e \in EdgesOf(m.faces[id]) : HasEdge(m, e) /\ m.edges[e].face = id

IsClosedSurface(m) ==
    /\ Cardinality(DOMAIN m.edges) = 3 * Cardinality(DOMAIN m.faces)
    /\ \A e \in DOMAIN m.edges : HasEdge(m, EdgeInverse(e)) /\ ValidEdge(m, e)
    /\ \A id \in DOMAIN m.faces :
          /\ \A i \in 1 .. 3 : m.vertices[m.faces[id][i]].valid
          /\ \A e \in EdgesOf(m.faces[id]) : HasEdge(m, e)

\* What those who walk over the mesh rely on: the iterators tell of a face and of
\* its edges what the other says of them; three steps lead around a face; the
\* steps around a vertex undo each other, up to the border; a face that is taken
\* out by its vertices and put back leaves the edges and the counts as they were.
\* Of edge<i> this holds for two of the three only.
WalksAgree(m) ==
    /\ \A it \in FacesShown(m) :
          /\ \A i \in 0 .. 2 :
                /\ EdgeAt(it.face, i) = EdgeFrom(it.face, FaceVertex(it.face, i))
                /\ EdgeOpposite(it.face, i) = EdgeAt(it.face, i + 1)
                /\ EdgeTemplate(it.face, i) = EdgeOpposite(it.face, i) <=> i # 2
                /\ \A f \in FoundEdge(m, EdgeOpposite(it.face, i)) :
                      f.face = it.id /\ f.v2 = FaceVertex(it.face, i)
          /\ LET f == it.face
                 n == AddFace(RemoveFaceAt(m, f[2], f[3], f[1]), f[1], f[2], f[3])
             IN  m.sound => /\ n.sound /\ DOMAIN n.edges = DOMAIN m.edges
                            /\ \A v \in DOMAIN m.vertices : n.vertices[v].open = m.vertices[v].open
    /\ \A it \in EdgesShown(m) :
          /\ NextEdge(m, NextEdge(m, NextEdge(m, it.id))) = it.id
          /\ FoundFace(m, EdgeFace(m, it.id)) # {} /\ EdgeFace(m, it.id) = it.face
          /\ \A f \in FoundFace(m, it.face) :
                /\ EdgeFrom(f.face, it.source) = it.id
                /\ EdgesOf(ReplaceVertex(f.face, it.v2, Cardinality(DOMAIN m.vertices)))
                       \cap EdgesOf(f.face) = {it.id}
          /\ NextAroundCcw(m, NextAroundCw(m, it.id)) = it.id
          /\ IF HasEdge(m, it.pair) THEN NextAroundCw(m, NextAroundCcw(m, it.id)) = it.id
             ELSE NextAroundCcw(m, it.id) = <<>>

-----------------------------------------------------------------------------
(* zi/mesh/quadratic_simplifier.hpp: edges of a mesh are collapsed, the     *)
(* cheapest first, until few enough faces are left.                         *)
(*                                                                         *)
(* Where the points lie, and so which edge is the cheapest and which        *)
(* collapses check_inversion and check_compactness refuse, is left open:    *)
(* any edge of the heap may be its top, and any collapse may be refused     *)
(* (MaxRefusals of them in a behaviour).                                    *)

CONSTANT MaxRefusals

VARIABLES
    filled,     \* the mesh as it was filled; <<>> before
    mesh,       \* mesh_
    heap,       \* the keys of heap_: edges whose source is below their sink
    invalid,    \* invalid_
    refusals    \* collapses refused for their geometry, for the bound

simVars == <<filled, mesh, heap, invalid, refusals>>

SortedEdge(x, y) == IF x < y THEN <<x, y>> ELSE <<y, x>>

\* Broken: nobody looks for neighbours in common.
SharesNeighbourUnseen(e) == FALSE

\* The ends of e have a neighbour in common that is not across e.
SharesNeighbour(e) ==
    LET bl   == AcrossEdge(mesh, e[2], e[1])
        tr   == AcrossEdge(mesh, e[1], e[2])
    IN  \E v \in ToSet(RingTo(mesh, e[1], e[2])) \ {tr, bl, e[2]} : HasEdge(mesh, <<e[2], v>>)

CheckTopology(e) ==
    /\ e \notin invalid
    /\ AcrossEdge(mesh, e[1], e[2]) # AcrossEdge(mesh, e[2], e[1])
    /\ ~SharesNeighbour(e)

\* check_topology notes the edges it refuses for a neighbour in common.
Noted(e) ==
    /\ e \notin invalid
    /\ AcrossEdge(mesh, e[1], e[2]) # AcrossEdge(mesh, e[2], e[1])
    /\ SharesNeighbour(e)

Init ==
    /\ filled = <<>> /\ mesh = NewMesh(0)
    /\ heap = {} /\ invalid = {} /\ refusals = 0

\* resize() and add_face() for every triangle (fill_simplifier).
Fill(triangles) ==
    /\ filled = <<>>
    /\ mesh' = FillMesh(triangles) /\ filled' = mesh'
    /\ heap' = {} /\ invalid' = {}
    /\ UNCHANGED refusals

\* init_heap(): every edge from its lower end, if both ends are inside.  By the
\* assertion of add_to_heap none of them may be in the heap yet.
Prepare ==
    LET edges == {e \in UNION {EdgesOf(mesh.faces[f]) : f \in DOMAIN mesh.faces} : e[1] < e[2]}
    IN  /\ filled # <<>> /\ heap = {}
        /\ heap' = {e \in edges : ValidEdge(mesh, e)}
        /\ UNCHANGED <<filled, mesh, invalid, refusals>>

Collapse(e) ==
    \* The edges around both ends leave the heap, those around the new vertex enter it.
    LET m    == CollapseEdge(mesh, e)
        v    == e[2]
        old  == {SortedEdge(e[1], u) : u \in ToSet(RingTo(mesh, e[1], e[2]))}
                    \cup {SortedEdge(e[2], u) : u \in ToSet(RingTo(mesh, e[2], e[1]))}
        left == heap \ old
        new  == IF m.sound /\ ValidVertex(m, v)
                  THEN {SortedEdge(v, u) : u \in ToSet(RingTo(m, v, VertexEdge(m, v)[2]))}
                  ELSE {}
    IN  /\ mesh' = [m EXCEPT !.sound = @ /\ ValidVertex(m, v) /\ new \cap left = {}]
        /\ heap' = left \cup {n \in new : ValidEdge(m, n)}

\* iterate() with edge e on top.
Iterate(e) ==
    /\ e \in heap
    /\ UNCHANGED filled
    /\ \/ /\ ~ValidEdge(mesh, e)
          /\ heap' = heap \ {e}
          /\ UNCHANGED <<mesh, invalid, refusals>>
       \/ /\ ValidEdge(mesh, e) /\ ~CheckTopology(e)
          /\ heap' = heap \ {e}
          /\ invalid' = IF Noted(e) THEN invalid \cup {e} ELSE invalid
          /\ UNCHANGED <<mesh, refusals>>
       \/ /\ ValidEdge(mesh, e) /\ CheckTopology(e)
          /\ refusals < MaxRefusals /\ refusals' = refusals + 1
          /\ heap' = heap \ {e}
          /\ UNCHANGED <<mesh, invalid>>
       \/ /\ ValidEdge(mesh, e) /\ CheckTopology(e)
          /\ Collapse(e)
          /\ UNCHANGED <<invalid, refusals>>

\* The end of optimize().
EndOptimize ==
    /\ invalid # {} /\ invalid' = {}
    /\ UNCHANGED <<filled, mesh, heap, refusals>>

-----------------------------------------------------------------------------
Vertices(m) == {v \in DOMAIN m.vertices : \E f \in DOMAIN m.faces : v \in ToSet(m.faces[f])}

BorderEdges(m) == {e \in DOMAIN m.edges : ~HasEdge(m, EdgeInverse(e))}

\* Vertices less edges plus faces, an edge being two directed ones or one on the border.
Euler(m) ==
    Cardinality(Vertices(m)) + Cardinality(DOMAIN m.faces)
        - Cardinality({ToSet(e) : e \in DOMAIN m.edges})

\* However the edges are chosen and refused, no assertion of the mesh or of the
\* heap fails, the mesh stays consistent with itself (its own check_rep, and before
\* and after, what its iterators and steps from edge to edge show), a closed surface stays closed
\* and another keeps its border, and no hole or handle comes or goes; every vertex
\* inside has a single ring of neighbours; what waits in the heap are edges of the
\* mesh that may still be collapsed (iterate, quadratic_simplifier.hpp;
\* collapse_edge, tri_mesh.hpp:444-484).
SurfaceIsKept ==
    filled # <<>> =>
        /\ mesh.sound /\ CheckRep(mesh) /\ (heap = {} => WalksAgree(mesh))
        /\ IsClosedSurface(filled) => IsClosedSurface(mesh)
        /\ BorderEdges(mesh) = BorderEdges(filled)
        /\ Euler(mesh) = Euler(filled)
        /\ \A v \in Vertices(mesh) : ValidVertex(mesh, v) =>
              LET e == VertexEdge(mesh, v)
              IN  Len(RingTo(mesh, v, e[2]))
                      = Cardinality({d \in DOMAIN mesh.edges : d[1] = v})
        /\ \A e \in heap : HasEdge(mesh, e) /\ e[1] < e[2] /\ ValidEdge(mesh, e)
=============================================================================
