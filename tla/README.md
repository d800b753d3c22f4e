# TLA+ models of converge's graph preprocessor

This directory holds TLA+ models of the parts of converge that are in this
repository's sources. They are checked with TLC. Most of them come from
`src/render/preprocessor/preprocessor.go`: the reference resolver and the
field introspector with its process-wide cache. `spec.md` describes the
wider engine: graph, renderer, pipeline driver and registry. Those are not
among the sources, so where a model needs them it takes them from the spec
and says so (`spec_modelled` in `PROJECT.json`).

## 1. Inventory

| Part | Source | State | Operations | Hard behaviours |
|---|---|---|---|---|
| Graph (IDs, children) | not in src (spec.md 3, 4.1, 6) | vertices, kinds, dependency edges | `ParentID`, `SiblingID`, `IsRoot`, `Contains`, `Children`, `Get` | children in unspecified order; parents not guaranteed to exist |
| Reference resolver | preprocessor.go 74-202 | none (pure), except the recursion's `history` map | `Prefixes`, `Find`, `VertexSplit`, `MkCallPipeline`, `DesugarCall`, `VertexSplitTraverse`, `TraverseUntilModule` | longest-prefix tie-break; recursion that climbs to parents and descends into children, with one history map shared by every frame |
| Field-map cache | preprocessor.go 34-58, 204-224, 403-491 | `fieldMapCache.vals` (type → map), the maps themselves | `Get`, `Put` (under the mutex), `fieldMap`, `addFieldsToMap`, `LookupCanonicalFieldName`, `HasField` | concurrent goroutines of the parallel render pass (spec.md 5); maps are shared references; writes happen outside the lock |
| Value introspection | preprocessor.go 203-397 | none (pure over Go values) | `FieldMap`, `lookupMap`, `EvalTerms`, `HasPath`, `EvalMember`, `HasField`, `ListFields`, `HasMethod` | embedding flattening and ambiguity; nil pointers and interfaces; reflect panics; map iteration order |
| User preparer | src/unnamed/part_002 | the `Preparer` record | `Prepare`, `init` registration | uint32 boundary (`MaxUint32` is `(uid_t)-1`); `MoveDir` needs `HomeDir`; `State` default |
| Example graph | src/examples/converge-build/go.hcl | params, file.content, wait.query, tasks with `depends` | - | a dependency DAG for the pipeline |
| Pipeline driver | not in src (spec.md 4.5, 5) | per-vertex status, worker pool, halt and cancel flags, stored tasks | dispatch, render, Prepare, timeout, abandon, cancel | bounded concurrency, failure propagation, cancellation racing Prepare |
| Renderer, registry | not in src (spec.md 4.4, 4.6) | - | - | abstracted: a render step succeeds or fails; the registry is the constant kind `user.user` |
| CI, docs Makefile, MockExecutor | src/unnamed/part_000, part_001 | - | - | none (configuration, build rules, a test double) |

The parts interact as follows:
- The renderer resolves `lookup a.b.c` with `DesugarCall`/`VertexSplitTraverse` over the graph.
- It then evaluates the accessor chain with `EvalTerms` on the target vertex's value.
- Case-insensitive field names go through `LookupCanonicalFieldName` and the cache, which every render worker shares.
- The pipeline driver hands each vertex whose dependencies are done to a worker. The worker renders it, then calls its preparer's `Prepare`. For a `user.user` vertex that is `Preparer.Prepare` of part_002.

The hazards, each at its line, are in `PROJECT.json` ("hazards"):
- the stale cached map at line 438;
- the Get / compute / Put atomicity gap (425 to 454), `Put` caching the outer map under every embedded type;
- the unlocked writes to a shared map at lines 433 and 450;
- the termination of the traversal;
- child order combined with the shared history;
- the ambiguity cleanup at line 329;
- the reflect panic at line 299;
- case collisions at line 372;
- `HasField`'s canonical spelling resolved again by `FieldByName` at line 222;
- the first spelling winning over the outer struct's own field at line 446;
- recursion of a self-embedding type;
- UID at `MaxUint32` (no property; see section 4).

The pipeline's own concerns are covered by its properties, not by hazards, because the driver is not in the sources. They are: a worker beginning a vertex too early, a Prepare result racing its timeout or a cancel, best-effort skipping, and coming to rest after a halt.

## 2. Modules

Each module below lists what it models and how, then its properties.

- **Graph** (spec_modelled). Vertex IDs are segment sequences, exactly what `strings.Split(id, ".")` returns, so `""` is `<<"">>`. A graph is a record of vertices, kinds and dependency edges. `IsDependencyDag` requires the edges to join existing vertices and to be acyclic. It does not require every parent to exist: scenario 2 of spec.md has none.

- **Resolver** (EXTENDS Graph). The pure resolver functions, one operator each:
  - `Prefixes` is `Inits` followed by `JoinTerms`: longest first.
  - `Find` returns the first match.
  - `VertexSplit` is the three-way split of lines 137-146.
  - `DesugarCall` returns the emitted form as a sequence of stages: a noderef followed by field stages, or an error.
  - **MCResolver** checks them over every graph of one- and two-segment IDs over two terms, and every call of up to three terms including the empty term. Its property is `VertexSplitLongestPrefix`, the longest-prefix invariant of spec.md 8 stated independently of `Prefixes`. `DesugarCall` is exercised by the same run but has no property of its own: its result is a direct rewriting of `VertexSplit`'s.

- **VertexSplitTraverse** (EXTENDS Resolver). One goroutine runs `VertexSplitTraverse(g, name, start, TraverseUntilModule, history)`.
  - The Go recursion is a stack of frames, each with its node, the children it has still to iterate, and its position: iterating children, awaiting a child, or awaiting the parent call.
  - Each action is one step of the function body:
    - `SkipChild` (lines 156-162);
    - `DescendChild` and `ResumeAfterChild` (164-167);
    - `StopAtBoundary` (167-168);
    - `SiblingFound` (171-175);
    - `ClimbToParent` and `ResumeAfterParent` (176-177).
  - `Call` records the callee in the shared `history` (line 153).
  - A stack deeper than `MaxDepth` is a crash: the goroutine ran out of stack.
  - **MCVertexSplitTraverse** enumerates every acyclic graph over the IDs `root`, `root.m`, `root.m.a`, `root.m.b`, `root.c`:
    - any subset of these IDs may be vertices;
    - `root.m` may be a module or a resource;
    - edges are drawn from six candidate dependency edges, including a diamond and a cross-scope edge into `root.m`.
  - The starts are `root.m.a`, `root.m.b` and `root.c`. The names include a sibling, a name with a field path, a qualified name and an unknown name.
  - Properties:
    - `Terminates`: under weak fairness, because the call is one sequential goroutine.
    - `SharedHistorySound`: every result is one that the reference search `RefSearch` can return. `RefSearch` follows spec.md 4.3, in which a child is skipped only when it is on the current path.
  - Line 171 splits `SiblingID(start, name)`, whose prefixes include the start's parent, so a name resolves to an ancestor with the name as a field path when nothing nearer matches. spec.md 4.3 step 2 runs the same split, so this is the specified behaviour, not a divergence, and no property is about it.

- **FieldMapCache**. `LookupCanonicalFieldName` is called by several goroutines that share `fieldMapCache`.
  - Go maps are references. They live in a heap `maps[id]`, and `cache`, each goroutine's `m` (`mref`) and the recursion hold ids.
  - `Get` and `Put` each hold the mutex and are one step (`CacheGet`, `CachePut`).
  - Every unlocked write of a field into `m` is a step of its own (`AnonField`, `NamedField`).
  - The recursion of `addFieldsToMap` is a stack. A callee's return value replaces the caller's `m` (`ReturnMap`, line 438).
  - `Begin` is `fieldMap`'s fresh maps, and `Lookup` is the final read at line 466.
  - A call is `[op, type, term]`. For `op = "hasfield"` the final step is `HasField` (lines 204-224) instead of `Lookup`: false when the lookup fails, else reflect's `FieldByName` on the canonical spelling.
  - `FieldByName` is the operator `FieldByNameAt`, following reflect's breadth-first search. Each depth scans every struct not yet visited. A struct reached along two paths counts twice. At the first depth where the name occurs, it is found only if exactly one struct, reached once, declares it.
  - `SpecKeys` is spec.md 4.2's flattened key set at the type level, stated independently of the code.
  - Types are constants. Each is a sequence of fields `[name, anon, type]`.
  - A recursion deeper than `MaxDepth` (4) ends the goroutine with `pc = "overflow"`: its stack is exhausted.
  - The instances in **MCFieldMapCache**:
    - *mixed* (the passing run): `Coll{ID, Id}` and scenario 3's `Outer{Name, E1, E2}` with `E1{Shared, A}` and `E2{Shared, B}`. Two goroutines each make two calls from `Lookup(Coll, "id")`, `Lookup(Outer, "Name")`, `HasField(Outer, "shared")` and `HasField(Outer, "B")`;
    - *embed*: the same structs, with lookups of `E1` itself (the violation runs `cache_sound` and `cache_race`);
    - *self*: `Node{*Node; Name}`, one goroutine, one call;
    - *fold*: `Pair{EA; EB}`, `EA{ID}`, `EB{Id}`, one call `HasField(Pair, "id")`;
    - *shadow*: `Shadow{EN; Name}`, `EN{NAME}`, one call `Lookup(Shadow, "name")`.
  - Properties:
    - `LookupCanonicalSound`: the result is a declared spelling, and the call fails only when no field matches.
    - `HasFieldMatchesSpec`: `HasField` is true exactly when the lower-cased name is a key of the spec's flattened mapping.
    - `LookupShadowsEmbedded`: when the struct declares a field with the lower-cased name, the lookup returns that field's spelling (spec.md 4.2 rule 1).
    - `AllCallsReturn`: every call returns. It is checked only where it can fail, on the self-embedding type: on non-recursive types every call returns whatever the code does.
    - `NoSharedMapWrite` (action property: no map another goroutine is using is written).

- **FieldAccess**. `FieldMap`, `EvalTerms`, `HasPath` and `EvalMember` over a constant heap of Go values: structs, pointers, interface fields and scalars.
  - `FieldMap` is the closed form of its loop:
    - a field of the struct keeps its own value;
    - any other key takes the value from the first non-nil embedded struct that has it;
    - a key found in two or more embedded structs is deleted unless it is a named field;
    - `reflect.ValueOf(nil)` or a non-struct after dereferencing is `Panic`.
  - `lookupMap`'s "last key wins" becomes the set `LookupChoices`, so `EvalTerms` yields the *set* of outcomes the program can produce.
  - `HasPath` is the same fold, reporting ok, missing field, nil pointer, or a panic.
  - `EvalMember` is `MemberOf(FieldMap(obj), name)`: one lookup, returning the field's reflect.Value (`ReflectValue`: the value, whether it is a nil pointer, and what `Interface()` gives) with no nil check.
  - A state is one call: the value, the terms, and the outcomes of `EvalTerms`, `HasPath` and (for one term) `EvalMember` on them. Each outcome set is computed once in `Init`, so the invariants compare them without evaluating the recursion again.
  - `SpecFields` and `SpecEval` state spec.md 4.2 rules 1-4 and the fold of 4.2 and 7 independently of the code.
  - **MCFieldAccess** has a checked heap and two heaps that each exhibit divergences:
    - the checked heap covers scenarios 3, 4 and 5, a nil embedded pointer, a non-nil interface field, embedding through a pointer two levels deep, and a resource passed by pointer;
    - `HeapAnon` shows the ambiguity cleanup;
    - `HeapPanic` has a string field, a nil interface field, and two fields `ID` (a string) and `Id` (a nil pointer) that fold to the same key.
  - Properties:
    - `FieldMapFlattening`;
    - `EvalTermsMatchesSpec`: exactly the spec's outcome on every path. It fails on `HeapPanic` (run `fa_panic`) and is not claimed for the checked heap. That heap leaves out the nil interface field and the case-colliding fields, and with them the property would fail there too;
    - `HasPathAgreesWithEvalTerms`: `HasPath` succeeds exactly when `EvalTerms` returns a value, and otherwise fails for the same reason;
    - `EvalMemberAgreesWithEvalTerms`: for one term, `EvalMember` and `EvalTerms` read the same field, whatever the case of the name, with a nil pointer turned into Unresolvable.

- **UserPreparer**. `Preparer.Prepare` of part_002 as an operator from a preparer record to an error or a task.
  - The checks run in the code's order: uid at the sentinel, gid at the sentinel, `MoveDir` without `HomeDir`.
  - The `State` default is written back into the preparer, because `Prepare` has a pointer receiver.
  - `*uint32` keeps its width as the constant `Width`, with `MaxUint == 2^Width - 1`. TLC's integers cannot hold `MaxUint32`; the code only compares against the maximum, so any width shows the same boundary.
  - `fmt.Sprintf("%v")` is `Decimal`, the list of decimal digits.
  - Records are those the loader lets through: the struct tags (`required`, `mutually_exclusive`, `valid_values`) are enforced before `Prepare`.

- **PipelineAbstract** (spec_modelled). The driver's promise, with rendering and preparing of a vertex as one step.
  - `Complete(v)`: a waiting vertex whose dependencies are done becomes done, or failed. A failure halts the run, or in best-effort mode skips the transitive dependents.
  - `Abort(v)` after `Cancel`.
  - `stopped` marks the run at rest; afterwards nothing completes.

- **Pipeline** (spec_modelled, composed with UserPreparer through `INSTANCE`). A pool of `Workers` over the graph `G`. The actions are:
  - `Dispatch`: an idle worker takes a ready vertex, only while neither halted nor cancelled;
  - `Rendered`: the render succeeds or fails;
  - `PrepareUser`: `User!Prepare` on the vertex's record;
  - `PrepareOther`: a task or a validation error;
  - `TimedOut`;
  - `Abandon`: after a cancel;
  - `Cancel`;
  - `Finished`: the driver returns.
  - `Fail` is the shared failure bookkeeping.
  - Refinement mapping: an in-flight vertex (rendering or preparing) is waiting to the abstract driver. `stopped` is "halted or cancelled, and no worker busy". `ImplementsAbstract == Abs!Spec`.
  - Other properties:
    - `SkipsExactlyFailedDependents`;
    - `Terminates`.
  - `User!Prepare` is composed into the run and both its success and error paths fire, but no property restates its guards.
  - **MCPipeline**: the ten vertices are the eight resources of `go.hcl` plus `user.user.builder` and a `file.content.profile` that depends on it. The edges are the eight resources' `depends` lists plus the edges their `{{param}}` references add. There are two workers and `Width = 4`. Five user records are used, one per branch of `Prepare`; the largest valid id, 14, has two digits.

## 3. Runs and what they show

| Run | Expect | Shows |
|---|---|---|
| resolver_pure | pass | longest prefix wins (2,496 states) |
| vst | pass | traversal terminates and the shared history only prunes (17,667 states) |
| cache_mixed | pass | two goroutines calling `LookupCanonicalFieldName` and `HasField` on a case-colliding struct and on scenario 3's embedding: lookups of the outer structs return a declared spelling and `HasField` matches the flattened mapping (624,878 states). No call looks up `E1` or `E2` directly, so the cache defects of `cache_sound` cannot appear here. |
| cache_fold | violation | `HasField(Pair, "id")` is true for `Pair{EA{ID}; EB{Id}}`. The lookup map keeps `ID` (EB's `Id` only enters the conflict set), and `FieldByName("ID")` finds `EA.ID` alone. Rule 2 of spec.md 4.2 removes the name as ambiguous. |
| cache_sound | violation | TLC reports one of two orders, depending on how the workers explore. (a) `Lookup(Outer, "name")` then `Lookup(E1, "name")` returns `"Name"`: `Put(E1, m)` at line 454 cached Outer's map under `E1`. (b) `Lookup(E1, ..)` then `Lookup(Outer, "name")` fails: line 438 replaced Outer's `m` by the cached E1 map. |
| cache_shadow | violation | `Lookup(Shadow, "name")` returns `"NAME"`: EN's spelling is written first, and Shadow's own `Name` only enters the conflict set (line 446) |
| cache_self | violation | `Node{*Node; Name}`: `addFieldsToMap` recurses into `*Node` without end (nothing is cached before the loop ends), and the stack is exhausted |
| cache_race | violation | goroutine 2 writes the cached E1 map while goroutine 1 is using it, first with an embedded field's own name at line 433: a Go data race |
| fieldaccess | pass | the flattening rules and the fold hold on the checked heap; HasPath and EvalMember agree with EvalTerms (931 states) |
| fa_anon | violation | `Outer{E1; Wrap{E1}; Wrap2{E1}}`: FieldMap drops Outer's own `E1` |
| fa_panic | violation | TLC reports `EvalTerms(out, "id")` first. It has two outcomes, the string `ID` or Unresolvable from the nil `Id`, depending on which key Go's map iteration visits last in `lookupMap` (line 372). The same heap also has these: `EvalTerms(out, "name", "x")` panics where spec.md 7 says NotAStruct. `EvalTerms(out, "any", "host")`, with `Any` a nil interface, panics where the spec says Unresolvable. |
| pipeline | pass | the worker pool refines the abstract driver; best effort skips exactly the dependents of failures; every run comes to rest (31,410 states) |

Each property of a passing run has a mutant in `PROJECT.json`: a plausible bug in the mapped definition that TLC detects. Examples:
- the Inits order reversed;
- the history write dropped;
- the named-field restore dropped;
- the nil-pointer check of `HasPath` dropped;
- the dependency check of dispatch dropped;
- only direct dependents skipped;
- a timed-out vertex retried.

An earlier version checked `CachedMapsImmutable` (no step changes a cached map) on structs without embedding. With embedding it does not hold: `Put(E1, m)` at line 454 caches the outer struct's map while the outer's remaining fields are still being written into it. That defect is shown by `cache_sound` and `cache_race`, so the property was dropped when the flat and embed passing runs were merged into `cache_mixed`.

**Bounds.**
- Five IDs cover every relation the traversal distinguishes: an ancestor, a module boundary, siblings, a cousin scope, and an ID whose parent is missing. The graphs are every DAG over them, 2,000-odd of them.
- Two goroutines with two calls each are enough for any interleaving of a Get-miss/compute/Put with another goroutine's compute. Three embedding struct types give one level of embedding and ambiguity. The four calls of `cache_mixed` take each path of the final step: a found and a missing lookup, a `HasField` that `FieldByName` rejects as ambiguous, and one it confirms.
- The heap of the field-access run has each case of `FieldMap` at least once. Term lists up to length two reach every case of the fold.
- `MaxDepth = 4` exceeds the nesting of the embed instance (depth 2), so only true self-recursion overflows.
- Pipeline:
  - `go.hcl` has a chain of depth five, independent roots and a diamond (`go-dl` and `go-checksum` both depend on `go-sha256`).
  - With two workers, siblings render in parallel.
  - Both modes and a cancel at any point are included.
  - One user vertex with five records reaches each branch of `Prepare`.

**Fairness.**
- `vst`: weak fairness on the one goroutine's steps. The call runs to its end with no blocking.
- `cache_self`: weak fairness per goroutine. The Go scheduler runs every runnable goroutine, and the mutex is held only inside `Get`/`Put`.
- `pipeline`:
  - weak fairness on dispatch: the driver hands a ready vertex to an idle worker;
  - weak fairness per worker on leaving its current step: rendering is CPU-bound, and Prepare returns or hits its per-vertex timeout (spec.md 5);
  - none on `Cancel`, which is external.
  - The abstract driver is checked for safety only: no fairness of it is claimed.

## 4. Not modelled, and the plan

Not modelled:
- `New` (an unused vertex set).
- `HasMethod` (reflection on method sets; the model's types carry no methods) and `ListFields` (the declared names of a type, read straight from reflect, with no choice or state).
- The text of error messages, and `%q` formatting in `DesugarCall`. The stages are kept, not the characters.
- The CI configuration, the docs Makefile and `MockExecutor`, which have no program state.
- Exported-field checks of `reflect`: every field in the heaps is exported.

- Topological sorting and `CycleDetected`: the pipeline assumes a DAG.
- The template renderer: a render either succeeds or fails with MissingField or MissingVertex.
- The registry: the one kind of the sources is the constant `Kind`. Duplicate registration happens at init and has no interleaving.
- Idempotence of re-running the pipeline: the driver is not in the sources.

Not checked by a property:
- The uint32 boundary of `Prepare` (part_002 line 69). The pipeline feeds it 14 and 15 at width 4, and both branches fire. A property over its result would restate the guards of lines 69 and 74, so the boundary is left to a unit test.
- Which of the two `cache_sound` orders TLC reports. Both are real and listed as hazards (lines 438 and 454). The run checks one property, and TLC stops at the first violation it meets.

Plan for the next sittings:
1. A crash and restart model of the pipeline: nothing is persisted in the sources, so this is only worth doing if the spec's re-run idempotence is modelled.
2. Larger pipeline instances: three workers and two user vertices.
