------------------------------ MODULE Pipeline ------------------------------
(***************************************************************************)
(* The pipeline driver (spec.md 4.5 and 5; the driver is not part of this  *)
(* repository's sources): a bounded pool of workers renders the vertices   *)
(* of a dependency DAG and calls each resource's Prepare.  Rendering is    *)
(* CPU-bound and not interruptible; Prepare is the only suspension point,  *)
(* and a worker in it may return, time out, or abandon the vertex after a  *)
(* cancel.  Vertices of kind user.user are prepared by UserPreparer's      *)
(* Prepare, which is the composition with src/unnamed/part_002; the other  *)
(* kinds succeed or fail.                                                  *)
(***************************************************************************)
EXTENDS Graph, TLC

CONSTANTS
    G,              \* the resource graph
    Workers,        \* the worker pool (its size bounds concurrency)
    NoVertex,       \* an idle worker's vertex
    UserVertices,   \* the vertices of kind user.user
    UserPreparers,  \* the decoded user.user records a vertex may hold
    Width, Unset    \* as in UserPreparer

ASSUME IsDependencyDag(G) /\ UserVertices \subseteq G.vertices

User == INSTANCE UserPreparer

VARIABLES
    status,         \* vertex -> waiting, rendering, preparing, done, failed,
                    \*           skipped or aborted
    worker,         \* worker -> the vertex it holds, or NoVertex
    mode,           \* "halt" or "besteffort", fixed for the run
    halted,         \* a failure has halted the run
    cancelled,      \* the driver has propagated a cancel
    prep,           \* user vertex -> its Preparer (Prepare writes State)
    task            \* vertex -> the Task stored on it, or NoTask

vars == <<status, worker, mode, halted, cancelled, prep, task>>

InFlight == {"rendering", "preparing"}

\* No task stored yet, and the task of a kind other than user.user.
NoTask == [kind |-> "none"]
OtherTask == [kind |-> "task"]

\* The vertices v depends on, directly or not, and those depending on u;
\* constant-level, so computed once.
Upstream == [v \in G.vertices |-> ReachableFrom(G, Children(G, v))]
Downstream == [u \in G.vertices |-> {v \in G.vertices : u \in Upstream[v]}]
DependsOn(v) == Upstream[v]
Dependents(u) == Downstream[u]

Init ==
    /\ status = [v \in G.vertices |-> "waiting"]
    /\ worker = [w \in Workers |-> NoVertex]
    /\ mode \in {"halt", "besteffort"}
    /\ halted = FALSE
    /\ cancelled = FALSE
    /\ prep \in [UserVertices -> UserPreparers]
    /\ task = [v \in G.vertices |-> NoTask]

\* Mutant: the dispatcher forgets the dependency check.
DispatchNoDepCheck(w, v) ==
    /\ worker[w] = NoVertex
    /\ status[v] = "waiting"
    /\ ~halted /\ ~cancelled
    /\ status' = [status EXCEPT ![v] = "rendering"]
    /\ worker' = [worker EXCEPT ![w] = v]
    /\ UNCHANGED <<mode, halted, cancelled, prep, task>>

\* An idle worker takes a waiting vertex all of whose dependencies are done;
\* nothing new starts after a halt or a cancel.
Dispatch(w, v) ==
    /\ worker[w] = NoVertex
    /\ status[v] = "waiting"
    /\ \A u \in Children(G, v) : status[u] = "done"
    /\ ~halted /\ ~cancelled
    /\ status' = [status EXCEPT ![v] = "rendering"]
    /\ worker' = [worker EXCEPT ![w] = v]
    /\ UNCHANGED <<mode, halted, cancelled, prep, task>>

\* Mutant: a failure skips only the vertices that depend on v directly.
FailDirectOnly(w, v) ==
    /\ status' = [x \in G.vertices |->
                    IF x = v THEN "failed"
                    ELSE IF mode = "besteffort" /\ v \in Children(G, x)
                            /\ status[x] = "waiting" THEN "skipped"
                    ELSE status[x]]
    /\ halted' = (halted \/ mode = "halt")
    /\ worker' = [worker EXCEPT ![w] = NoVertex]

\* Worker w's vertex v fails: the run halts, or in best-effort mode the
\* waiting transitive dependents of v are skipped; w becomes idle.
Fail(w, v) ==
    /\ status' = [x \in G.vertices |->
                    IF x = v THEN "failed"
                    ELSE IF mode = "besteffort" /\ x \in Dependents(v)
                            /\ status[x] = "waiting" THEN "skipped"
                    ELSE status[x]]
    /\ halted' = (halted \/ mode = "halt")
    /\ worker' = [worker EXCEPT ![w] = NoVertex]

\* Rendering finishes (templates substituted); a render error
\* (MissingField, MissingVertex) is fatal to the vertex.
Rendered(w) ==
    LET v == worker[w] IN
    /\ v # NoVertex /\ status[v] = "rendering"
    /\ \/ /\ status' = [status EXCEPT ![v] = "preparing"]
          /\ UNCHANGED <<worker, halted>>
       \/ Fail(w, v)
    /\ UNCHANGED <<mode, cancelled, prep, task>>

\* Prepare returns, for a user.user vertex the result of its Preparer.
PrepareUser(w) ==
    LET v == worker[w]
        r == User!Prepare(prep[v])
    IN
    /\ v \in UserVertices /\ status[v] = "preparing"
    /\ prep' = [prep EXCEPT ![v] = r.prep]
    /\ IF r.ok
       THEN /\ status' = [status EXCEPT ![v] = "done"]
            /\ task' = [task EXCEPT ![v] = r.task]
            /\ worker' = [worker EXCEPT ![w] = NoVertex]
            /\ UNCHANGED halted
       ELSE Fail(w, v) /\ UNCHANGED task
    /\ UNCHANGED <<mode, cancelled>>

\* Prepare returns for any other kind: a task or a ValidationError.
PrepareOther(w) ==
    LET v == worker[w] IN
    /\ v # NoVertex /\ v \notin UserVertices /\ status[v] = "preparing"
    /\ \/ /\ status' = [status EXCEPT ![v] = "done"]
          /\ task' = [task EXCEPT ![v] = OtherTask]
          /\ worker' = [worker EXCEPT ![w] = NoVertex]
          /\ UNCHANGED halted
       \/ Fail(w, v) /\ UNCHANGED task
    /\ UNCHANGED <<mode, cancelled, prep>>

\* Mutant: a timed-out vertex is put back to be retried.
TimedOutRetry(w) ==
    LET v == worker[w] IN
    /\ v # NoVertex /\ status[v] = "preparing"
    /\ status' = [status EXCEPT ![v] = "waiting"]
    /\ worker' = [worker EXCEPT ![w] = NoVertex]
    /\ UNCHANGED <<mode, halted, cancelled, prep, task>>

\* The per-vertex Prepare timeout expires: Timeout(id, duration).
TimedOut(w) ==
    LET v == worker[w] IN
    /\ v # NoVertex /\ status[v] = "preparing"
    /\ Fail(w, v)
    /\ UNCHANGED <<mode, cancelled, prep, task>>

\* After a cancel, a worker inside Prepare abandons its vertex.
Abandon(w) ==
    LET v == worker[w] IN
    /\ cancelled
    /\ v # NoVertex /\ status[v] = "preparing"
    /\ status' = [status EXCEPT ![v] = "aborted"]
    /\ worker' = [worker EXCEPT ![w] = NoVertex]
    /\ UNCHANGED <<mode, halted, cancelled, prep, task>>

Cancel ==
    /\ ~cancelled
    /\ cancelled' = TRUE
    /\ UNCHANGED <<status, worker, mode, halted, prep, task>>

\* No worker is busy and no vertex can be dispatched.
Quiescent ==
    /\ \A w \in Workers : worker[w] = NoVertex
    /\ halted \/ cancelled
       \/ \A v \in G.vertices : status[v] = "waiting" =>
                                  \E u \in Children(G, v) : status[u] # "done"

\* The driver returns; the run stays as it is.
Finished == Quiescent /\ UNCHANGED vars

Next ==
    \/ \E w \in Workers, v \in G.vertices : Dispatch(w, v)
    \/ \E w \in Workers :
          Rendered(w) \/ PrepareUser(w) \/ PrepareOther(w)
          \/ TimedOut(w) \/ Abandon(w)
    \/ Cancel
    \/ Finished

(***************************************************************************)
(* Fairness: the driver hands a ready vertex to an idle worker, and a busy *)
(* worker finishes rendering and then leaves Prepare (its result, the      *)
(* timeout or, after a cancel, abandonment).  A cancel is external and is  *)
(* not assumed.                                                            *)
(***************************************************************************)
Fairness ==
    /\ WF_vars(\E w \in Workers, v \in G.vertices : Dispatch(w, v))
    /\ \A w \in Workers :
          WF_vars(Rendered(w) \/ PrepareUser(w) \/ PrepareOther(w)
                  \/ TimedOut(w) \/ Abandon(w))

Spec == Init /\ [][Next]_vars /\ Fairness

----------------------------------------------------------------------------
(* Refinement: rendering and preparing are waiting to the abstract driver, *)
(* and the run is at rest once halted or cancelled with no worker busy.    *)

AbsStatus == [v \in G.vertices |->
                IF status[v] \in InFlight THEN "waiting" ELSE status[v]]

AbsStopped == (halted \/ cancelled) /\ \A w \in Workers : worker[w] = NoVertex

Abs == INSTANCE PipelineAbstract WITH status <- AbsStatus, stopped <- AbsStopped

\* spec.md 4.5 and 5: every behaviour of the worker pool is one of the
\* one-vertex-at-a-time driver: dependencies are done before a vertex
\* completes, no vertex completes twice, nothing completes once the run is
\* at rest, and a failure halts or skips exactly its dependents.
ImplementsAbstract == Abs!Spec

\* spec.md 4.5 best-effort mode: when an uncancelled run comes to rest,
\* the skipped vertices are exactly those with a failed transitive
\* dependency and every other vertex is done or failed.
SkipsExactlyFailedDependents ==
    (Quiescent /\ mode = "besteffort" /\ ~cancelled) =>
        \A v \in G.vertices :
            /\ status[v] = "skipped" <=> \E u \in DependsOn(v) : status[u] = "failed"
            /\ status[v] \in {"done", "failed", "skipped"}

\* Every run comes to rest: the driver returns, halted or not, cancelled or
\* not, because Prepare always returns or times out.
Terminates == <>Quiescent
====
