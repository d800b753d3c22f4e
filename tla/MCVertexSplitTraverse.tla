------------------------ MODULE MCVertexSplitTraverse ------------------------
(***************************************************************************)
(* Model of VertexSplitTraverse over every small graph of the ID tree      *)
(*   root, root.m, root.m.a, root.m.b, root.c                              *)
(* (any subset of it, root included or not), where root.m may be a        *)
(* module, with any acyclic subset of a set of dependency edges that has   *)
(* a diamond, an edge into root.m and one from root.m into its own scope.  *)
(***************************************************************************)
EXTENDS VertexSplitTraverse

R == <<"root">>
M == <<"root", "m">>
A == <<"root", "m", "a">>
B == <<"root", "m", "b">>
C == <<"root", "c">>

CandidateEdges == {<<A, B>>, <<B, A>>, <<B, C>>, <<C, A>>, <<M, A>>, <<C, M>>}

MCGraphs ==
    {gr \in [vertices : SUBSET {R, M, A, B, C},
             kind : {[v \in {R, M, A, B, C} |->
                        IF v = M THEN mk ELSE "resource"] : mk \in Kinds},
             edges : SUBSET CandidateEdges] :
        IsDependencyDag(gr)}

MCStarts == {A, B, C}

MCNames == {<<"a">>, <<"b", "x">>, <<"c">>, <<"m", "b">>, <<"q">>}

MCMaxDepth == 8
=============================================================================
