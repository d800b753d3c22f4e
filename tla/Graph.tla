------------------------------- MODULE Graph -------------------------------
(***************************************************************************)
(* The resource graph as the preprocessor sees it (spec.md 3 and 4.1; the  *)
(* graph package itself is not part of this repository's sources).         *)
(*                                                                         *)
(* A vertex ID is a dot-separated path whose first segment is "root"       *)
(* (spec.md 6).  A string in this project is represented by the sequence   *)
(* of its "."-separated segments, exactly what strings.Split(s, ".")       *)
(* returns: the empty string is <<"">>, never <<>>.  Because no segment    *)
(* contains a dot, concatenating two such strings with a "." in between    *)
(* is the concatenation (\o) of their segment sequences.                   *)
(*                                                                         *)
(* A graph is a record                                                     *)
(*   [vertices |-> set of IDs, kind |-> [vertices -> Kinds],               *)
(*    edges |-> set of <<from, to>> dependency pairs]                      *)
(* where Children(id) follows the dependency edges only (spec.md 4.1).     *)
(***************************************************************************)
EXTENDS Naturals, Sequences, FiniteSets

\* The kind tags the preprocessor distinguishes: a module (module.Module,
\* module.Preparer, or a parse.Node of kind "module") or any other resource.
Kinds == {"module", "resource"}

RootID == <<"root">>

\* ParentID drops the last segment of the ID.
ParentID(id) == SubSeq(id, 1, Len(id) - 1)

\* SiblingID(base, leaf) = ParentID(base) + "." + leaf
SiblingID(base, leaf) == ParentID(base) \o leaf

\* IsRoot is true iff the ID is exactly "root".
IsRoot(id) == id = RootID

Contains(g, id) == id \in g.vertices

\* The dependency children of a vertex; the order of g.Children is
\* unspecified, so it is a set here and users pick elements in any order.
Children(g, id) == {e[2] : e \in {f \in g.edges : f[1] = id}}

\* g.Get(id) returns the vertex value; only its kind matters here.
KindOf(g, id) == g.kind[id]

\* The edge invariants of spec.md 3: every edge joins existing vertices and
\* the dependency edges are acyclic.  The invariant that the parent of every
\* vertex exists (root included) is not imposed: the graph of spec.md 8,
\* scenario 2, has neither a root vertex nor the parents of its vertices,
\* and the preprocessor treats a missing vertex as a stop vertex.
RECURSIVE ReachableFrom(_, _)
ReachableFrom(g, S) ==
    LET next == S \cup {e[2] : e \in {f \in g.edges : f[1] \in S}}
    IN  IF next = S THEN S ELSE ReachableFrom(g, next)

IsDependencyDag(g) ==
    /\ \A e \in g.edges : e[1] \in g.vertices /\ e[2] \in g.vertices
    /\ \A v \in g.vertices : v \notin ReachableFrom(g, Children(g, v))
=============================================================================
