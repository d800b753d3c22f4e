-------------------------- MODULE PipelineAbstract --------------------------
(***************************************************************************)
(* What the pipeline driver promises (spec.md 4.5 and 5), with rendering   *)
(* and preparing a vertex one atomic step: a vertex completes once, only   *)
(* after every vertex it depends on is done, as done or failed; a failure  *)
(* halts the run, or in best-effort mode skips the vertex's transitive     *)
(* dependents; after a cancel, vertices are aborted.  stopped says the run *)
(* has come to rest after a halt or a cancel: from then on nothing         *)
(* completes.                                                              *)
(***************************************************************************)
EXTENDS Graph

CONSTANT G          \* the resource graph, a record as in Graph

ASSUME IsDependencyDag(G)

VARIABLES
    status,         \* vertex -> waiting, done, failed, skipped or aborted
    mode,           \* "halt" or "besteffort", fixed for the run
    halted,         \* a failure has halted the run
    cancelled,      \* the driver has propagated a cancel
    stopped         \* no vertex will complete any more

vars == <<status, mode, halted, cancelled, stopped>>

Modes == {"halt", "besteffort"}
Final == {"done", "failed", "skipped", "aborted"}

\* The vertices v depends on, directly or not.
DependsOn(v) == ReachableFrom(G, Children(G, v))

\* The vertices that depend on u, directly or not.
Dependents(u) == {v \in G.vertices : u \in DependsOn(v)}

Ready(v) == status[v] = "waiting" /\ \A u \in Children(G, v) : status[u] = "done"

\* The run may come to rest at any step once a halt or a cancel is due, and
\* stays at rest.
MayStop ==
    stopped' \in IF stopped THEN {TRUE}
                 ELSE IF halted' \/ cancelled' THEN BOOLEAN ELSE {FALSE}

Init ==
    /\ status = [v \in G.vertices |-> "waiting"]
    /\ mode \in Modes
    /\ halted = FALSE
    /\ cancelled = FALSE
    /\ stopped = FALSE

Succeed(v) ==
    /\ status' = [status EXCEPT ![v] = "done"]
    /\ UNCHANGED halted

Fail(v) ==
    /\ status' = [x \in G.vertices |->
                    IF x = v THEN "failed"
                    ELSE IF mode = "besteffort" /\ x \in Dependents(v)
                            /\ status[x] = "waiting" THEN "skipped"
                    ELSE status[x]]
    /\ halted' = (halted \/ mode = "halt")

Complete(v) ==
    /\ ~stopped
    /\ Ready(v)
    /\ Succeed(v) \/ Fail(v)
    /\ MayStop
    /\ UNCHANGED <<mode, cancelled>>

Abort(v) ==
    /\ ~stopped
    /\ cancelled
    /\ Ready(v)
    /\ status' = [status EXCEPT ![v] = "aborted"]
    /\ MayStop
    /\ UNCHANGED <<mode, halted, cancelled>>

Cancel ==
    /\ ~cancelled
    /\ cancelled' = TRUE
    /\ MayStop
    /\ UNCHANGED <<status, mode, halted>>

Next == (\E v \in G.vertices : Complete(v) \/ Abort(v)) \/ Cancel

Spec == Init /\ [][Next]_vars
====
