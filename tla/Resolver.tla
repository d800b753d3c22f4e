------------------------------ MODULE Resolver ------------------------------
(***************************************************************************)
(* The pure reference-splitting functions of render/preprocessor:          *)
(* Inits/Prefixes, Find, VertexSplit, MkCallPipeline, DesugarCall and the  *)
(* stop policy TraverseUntilModule.  Strings are segment sequences (see    *)
(* Graph): SplitTerms is the choice of representation and JoinTerms its    *)
(* inverse, so Prefixes below is Inits followed by JoinTerms.              *)
(***************************************************************************)
EXTENDS Graph

\* The empty string, as strings.Split returns it.
Empty == <<"">>

\* Mutant: Inits appends in[0:i+1] instead of prepending it (shortest first).
PrefixesShortestFirst(in) == [i \in 1..Len(in) |-> SubSeq(in, 1, i)]

\* Inits(SplitTerms(in)) joined back: every head of the term list, longest
\* first (Inits prepends in[0:i+1] for growing i).
Prefixes(in) == [i \in 1..Len(in) |-> SubSeq(in, 1, Len(in) + 1 - i)]

\* Find returns the first element of the slice satisfying the predicate;
\* its one caller passes g.Contains, so the predicate is membership in g.
Find(slice, g) ==
    IF \E i \in DOMAIN slice : Contains(g, slice[i])
    THEN [found |-> TRUE,
          elem  |-> slice[CHOOSE i \in DOMAIN slice :
                              /\ Contains(g, slice[i])
                              /\ \A j \in 1..(i - 1) : ~Contains(g, slice[j])]]
    ELSE [found |-> FALSE, elem |-> Empty]

\* VertexSplit: the longest prefix of s that is a vertex, and the rest of s
\* after the prefix and its separating dot (s[len(prefix)+1:]).
VertexSplit(g, s) ==
    LET f == Find(Prefixes(s), g)
    IN  CASE ~f.found  -> [vertex |-> Empty, rest |-> s, found |-> FALSE]
          [] f.elem = s -> [vertex |-> f.elem, rest |-> Empty, found |-> TRUE]
          [] OTHER      -> [vertex |-> f.elem,
                            rest   |-> SubSeq(s, Len(f.elem) + 1, Len(s)),
                            found  |-> TRUE]

\* MkCallPipeline("b.c.d") = "b | c | d": one field-access stage per term.
MkCallPipeline(s) == [i \in DOMAIN s |-> [op |-> "field", arg |-> s[i]]]

\* DesugarCall emits (noderef "pfx") followed, when the rest is not the
\* empty string, by the pipeline of the remaining terms.  The emitted text
\* is represented by its sequence of stages; a failed split is an error.
DesugarCall(g, call) ==
    LET vs == VertexSplit(g, call)
    IN  IF ~vs.found
        THEN [ok |-> FALSE, pipeline |-> <<>>]
        ELSE [ok |-> TRUE,
              pipeline |-> <<[op |-> "noderef", arg |-> vs.vertex]>>
                           \o (IF vs.rest # Empty THEN MkCallPipeline(vs.rest)
                                                  ELSE <<>>)]

\* TraverseUntilModule: stop at the root, at a missing vertex, and at a
\* module (module.Module, module.Preparer or a parse.Node of kind module).
TraverseUntilModule(g, id) ==
    \/ IsRoot(id)
    \/ ~Contains(g, id)
    \/ KindOf(g, id) = "module"
=============================================================================
