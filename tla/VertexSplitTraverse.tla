------------------------- MODULE VertexSplitTraverse -------------------------
(***************************************************************************)
(* VertexSplitTraverse (render/preprocessor/preprocessor.go:152-178) with  *)
(* stop = TraverseUntilModule, as one sequential goroutine.  The Go        *)
(* recursion is an explicit stack of frames; the history map, shared by    *)
(* every frame of one call, is the variable history.  The children of a   *)
(* vertex come in an unspecified order, so a frame picks any child it has  *)
(* not yet iterated.  A stack deeper than MaxDepth stands for the          *)
(* goroutine running out of stack: the call crashes.                       *)
(***************************************************************************)
EXTENDS Resolver

CONSTANTS
    Graphs,     \* the graphs a call may run on
    Starts,     \* the starting vertices (the vertex being rendered)
    Names,      \* the dotted names being looked up
    MaxDepth    \* recursion depth at which the goroutine's stack is exhausted

ASSUME MaxDepth \in Nat \ {0}

VARIABLES
    g,          \* the graph of this call (fixed)
    start,      \* startingNode of the outermost call (fixed)
    name,       \* toFind (fixed)
    stack,      \* the frames of the recursion, innermost last
    history,    \* the shared history map, as the set of its keys
    ret,        \* the value returned by the frame popped last
    lookups,    \* auxiliary: the vertices whose sibling scope was searched
    crashed     \* the recursion exhausted the stack

vars == <<g, start, name, stack, history, ret, lookups, crashed>>

Stop(id) == TraverseUntilModule(g, id)

NotFound == [vertex |-> Empty, rest |-> name, found |-> FALSE]

\* A frame at the entry of VertexSplitTraverse(g, toFind, node, ...): the
\* children still to iterate, and where the frame is in the function body.
Frame(node) == [node |-> node, pc |-> "children", todo |-> Children(g, node)]

Top == stack[Len(stack)]

\* Mutant: the callee does not record itself in the history map.
CallNoHistory(caller, node) ==
    IF Len(stack) < MaxDepth
    THEN /\ stack' = Append([stack EXCEPT ![Len(stack)] = caller], Frame(node))
         /\ UNCHANGED <<history, crashed>>
    ELSE /\ stack' = <<>>
         /\ crashed' = TRUE
         /\ UNCHANGED history

\* The caller frame becomes caller and a frame for node is entered, which
\* first records node in the history (line 153).
Call(caller, node) ==
    IF Len(stack) < MaxDepth
    THEN /\ stack' = Append([stack EXCEPT ![Len(stack)] = caller], Frame(node))
         /\ history' = history \cup {node}
         /\ UNCHANGED crashed
    ELSE /\ stack' = <<>>
         /\ crashed' = TRUE
         /\ UNCHANGED history

\* The top frame returns r to its caller.
Return(r) ==
    /\ stack' = SubSeq(stack, 1, Len(stack) - 1)
    /\ ret' = r

Init ==
    /\ g \in Graphs
    /\ start \in Starts
    /\ Contains(g, start)          \* the vertex being rendered exists
    /\ name \in Names
    /\ stack = <<Frame(start)>>
    /\ history = {start}
    /\ ret = NotFound
    /\ lookups = {}
    /\ crashed = FALSE

\* A child already in the history, or one where stop holds, is skipped.
SkipChild ==
    /\ stack # <<>>
    /\ Top.pc = "children"
    /\ \E c \in Top.todo :
          /\ c \in history \/ Stop(c)
          /\ stack' = [stack EXCEPT ![Len(stack)].todo = @ \ {c}]
    /\ UNCHANGED <<g, start, name, history, ret, lookups, crashed>>

\* Recurse into a child that is neither visited nor a stop vertex.
DescendChild ==
    /\ stack # <<>>
    /\ Top.pc = "children"
    /\ \E c \in Top.todo :
          /\ c \notin history
          /\ ~Stop(c)
          /\ Call([Top EXCEPT !.todo = @ \ {c}, !.pc = "await_child"], c)
    /\ UNCHANGED <<g, start, name, ret, lookups>>

\* Mutant: the result of the first child is returned whether found or not.
ResumeAfterChildAlwaysReturns ==
    /\ stack # <<>>
    /\ Top.pc = "await_child"
    /\ Return(ret)
    /\ UNCHANGED <<g, start, name, history, lookups, crashed>>

\* Back from a child: a found result is returned at once, otherwise the
\* loop over the children goes on.
ResumeAfterChild ==
    /\ stack # <<>>
    /\ Top.pc = "await_child"
    /\ IF ret.found
       THEN Return(ret)
       ELSE /\ stack' = [stack EXCEPT ![Len(stack)].pc = "children"]
            /\ UNCHANGED ret
    /\ UNCHANGED <<g, start, name, history, lookups, crashed>>

\* After the children: a stop vertex ends the search at this level.
StopAtBoundary ==
    /\ stack # <<>>
    /\ Top.pc = "children"
    /\ Top.todo = {}
    /\ Stop(Top.node)
    /\ Return(NotFound)
    /\ UNCHANGED <<g, start, name, history, lookups, crashed>>

\* Otherwise split SiblingID(node, toFind) against the graph; a match is
\* returned.
SiblingFound ==
    /\ stack # <<>>
    /\ Top.pc = "children"
    /\ Top.todo = {}
    /\ ~Stop(Top.node)
    /\ LET vs == VertexSplit(g, SiblingID(Top.node, name))
       IN  /\ vs.found
           /\ Return(vs)
    /\ lookups' = lookups \cup {Top.node}
    /\ UNCHANGED <<g, start, name, history, crashed>>

\* Mutant: the recursive call at line 177 passes startingNode, not parentID.
ClimbToSelf ==
    /\ stack # <<>>
    /\ Top.pc = "children"
    /\ Top.todo = {}
    /\ ~Stop(Top.node)
    /\ ~VertexSplit(g, SiblingID(Top.node, name)).found
    /\ lookups' = lookups \cup {Top.node}
    /\ Call([Top EXCEPT !.pc = "await_parent"], Top.node)
    /\ UNCHANGED <<g, start, name, ret>>

\* No match: the result is that of the same search from ParentID(node).
ClimbToParent ==
    /\ stack # <<>>
    /\ Top.pc = "children"
    /\ Top.todo = {}
    /\ ~Stop(Top.node)
    /\ ~VertexSplit(g, SiblingID(Top.node, name)).found
    /\ lookups' = lookups \cup {Top.node}
    /\ Call([Top EXCEPT !.pc = "await_parent"], ParentID(Top.node))
    /\ UNCHANGED <<g, start, name, ret>>

ResumeAfterParent ==
    /\ stack # <<>>
    /\ Top.pc = "await_parent"
    /\ Return(ret)
    /\ UNCHANGED <<g, start, name, history, lookups, crashed>>

\* The outermost call has returned (or crashed): nothing more happens.
Returned ==
    /\ stack = <<>>
    /\ UNCHANGED vars

Next ==
    \/ SkipChild
    \/ DescendChild
    \/ ResumeAfterChild
    \/ StopAtBoundary
    \/ SiblingFound
    \/ ClimbToParent
    \/ ResumeAfterParent
    \/ Returned

-----------------------------------------------------------------------------
TypeOK ==
    /\ stack \in Seq([node : Seq(STRING), pc : {"children", "await_child", "await_parent"},
                     todo : SUBSET g.vertices])
    /\ Len(stack) <= MaxDepth
    /\ history \subseteq Seq(STRING)
    /\ ret.found \in BOOLEAN
    /\ lookups \subseteq history
    /\ crashed \in BOOLEAN

(***************************************************************************)
(* The search as spec.md 4.3 states it, without the shared history: a      *)
(* child is skipped only when it is on the current path of the recursion, *)
(* and the children are tried in every order.  RefSearch(n, path) is the  *)
(* set of results the search from n may return.                            *)
(***************************************************************************)
RECURSIVE RefSearch(_, _), RefChildren(_, _, _)
RefSearch(n, path) ==
    RefChildren(n, {c \in Children(g, n) : c \notin path /\ ~Stop(c)}, path)

RefChildren(n, kids, path) ==
    IF kids = {}
    THEN IF Stop(n) THEN {NotFound}
         ELSE LET vs == VertexSplit(g, SiblingID(n, name))
              IN  IF vs.found THEN {vs}
                  ELSE RefSearch(ParentID(n), path \cup {ParentID(n)})
    ELSE UNION {UNION {IF r.found THEN {r} ELSE RefChildren(n, kids \ {c}, path) :
                       r \in RefSearch(c, path \cup {c})} :
                c \in kids}

Finished == stack = <<>> /\ ~crashed

\* Every call of VertexSplitTraverse returns a result without exhausting
\* the stack: the history map (lines 153-158), the stop policy and the climb
\* to ParentID (line 176) bound the recursion although the dependency edges
\* and the parent steps together may revisit vertices.
Terminates == <>Finished

\* Sharing one history map between all frames (line 153, checked at line
\* 156) only prunes work: the result is one the search of spec.md 4.3, which
\* skips only the vertices on its own recursion path, can return for some
\* order of the children.
SharedHistorySound == Finished => ret \in RefSearch(start, {start})

\* One goroutine runs the call to its end: weak fairness on its steps.
Spec == Init /\ [][Next]_vars /\ WF_vars(Next)
=============================================================================
