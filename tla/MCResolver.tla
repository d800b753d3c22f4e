----------------------------- MODULE MCResolver -----------------------------
(***************************************************************************)
(* VertexSplit and DesugarCall checked against spec.md 6 and 8 for every   *)
(* graph whose vertices are IDs of one or two terms over {a, b}, and every *)
(* call of one to three terms over {a, b, ""} (an empty term is what a     *)
(* doubled or trailing dot produces).                                      *)
(***************************************************************************)
EXTENDS Resolver

VARIABLES graph, call

vars == <<graph, call>>

Terms == {"a", "b"}

IDs == [1..1 -> Terms] \cup [1..2 -> Terms]

Calls == UNION {[1..n -> Terms \cup {""}] : n \in 1..3}

Init ==
    /\ graph \in [vertices : SUBSET IDs, kind : {[v \in IDs |-> "resource"]},
                  edges : {{}}]
    /\ call \in Calls

\* Both functions are pure: the state never changes.
Next == UNCHANGED vars

Spec == Init /\ [][Next]_vars

IsPrefixOf(p, s) == Len(p) <= Len(s) /\ SubSeq(s, 1, Len(p)) = p

\* spec.md 8: VertexSplit returns a vertex of the graph that is a prefix of
\* the input, the rest is what follows the prefix and its dot, no longer
\* prefix is a vertex, and nothing is found only when no prefix is a vertex.
VertexSplitLongestPrefix ==
    LET vs == VertexSplit(graph, call)
    IN  IF vs.found
        THEN /\ Contains(graph, vs.vertex)
             /\ \/ vs.vertex = call /\ vs.rest = Empty
                \/ call = vs.vertex \o vs.rest
             /\ \A p \in graph.vertices :
                   IsPrefixOf(p, call) => Len(p) <= Len(vs.vertex)
        ELSE /\ vs.rest = call
             /\ \A p \in graph.vertices : ~IsPrefixOf(p, call)
=============================================================================
