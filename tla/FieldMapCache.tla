---------------------------- MODULE FieldMapCache ----------------------------
(***************************************************************************)
(* LookupCanonicalFieldName (render/preprocessor/preprocessor.go:460-475)  *)
(* and the process-wide field-map cache it fills through fieldMap and      *)
(* addFieldsToMap (lines 34-58, 403-456), run by concurrent goroutines     *)
(* (the render pass renders vertices in parallel, spec.md 5).              *)
(*                                                                         *)
(* A Go map is a reference: the maps every goroutine creates live in a     *)
(* heap, maps[id], and the cache and the goroutines hold map ids.  The     *)
(* cache's Get and Put each hold the lock and are one step; every write to *)
(* a map is an unlocked step of its own.  The recursion of addFieldsToMap  *)
(* is a stack of frames; its "m" is the register mref, which a call hands  *)
(* to the callee and which the caller replaces by the map returned.        *)
(***************************************************************************)
EXTENDS Naturals, Sequences, FiniteSets

CONSTANTS
    Procs,      \* goroutines calling LookupCanonicalFieldName
    Types,      \* struct types
    Fields,     \* Fields[t]: the fields of t in declaration order, records
                \*   [name, anon, type]; type is the embedded type of an
                \*   anonymous field (a Types element, or NonStruct)
    NonStruct,  \* the type of an embedded field that is not a struct
    Lower,      \* Lower[s]: strings.ToLower of a field name or a term
    Calls,      \* the calls a goroutine may make: records [op, type, term],
                \*   op "lookup" (LookupCanonicalFieldName) or "hasfield"
                \*   (HasField on a value of the struct type)
    NumCalls,   \* how many calls each goroutine makes
    MaxDepth,   \* recursion depth at which a goroutine's stack is exhausted
    NoName,     \* "no entry" in a map
    NoMap       \* "no entry" in the cache

ToSet(s) == {s[i] : i \in DOMAIN s}

\* Every key a field map is read or written at.
Keys == {Lower[s] : s \in DOMAIN Lower}

VARIABLES
    cache,      \* fieldMapCache.vals: type -> map id, or NoMap
    maps,       \* the heap of field maps: map id -> (key -> name or NoName)
    nextMap,    \* the id the next make(map[string]string) returns
    pending,    \* pending[p]: the calls goroutine p has still to make
    pc,         \* pc[p]: where goroutine p is
    stack,      \* stack[p]: frames [type, idx] of addFieldsToMap
    mref,       \* mref[p]: the map the top frame calls m
    conflicts,  \* conflicts[p]: the conflict set of p's fieldMap call
    done        \* done[p]: the calls p completed, with their results

vars == <<cache, maps, nextMap, pending, pc, stack, mref, conflicts, done>>

MapIds == 1..(Cardinality(Procs) * NumCalls)

Top(p) == stack[p][Len(stack[p])]

\* The field the top frame's loop is at (t.Field(idx)).
Field(p) == Fields[Top(p).type][Top(p).idx]

Init ==
    /\ cache = [t \in Types |-> NoMap]
    /\ maps = [i \in MapIds |-> [k \in Keys |-> NoName]]
    /\ nextMap = 1
    /\ pending \in [Procs -> [1..NumCalls -> Calls]]
    /\ pc = [p \in Procs |-> "idle"]
    /\ stack = [p \in Procs |-> <<>>]
    /\ mref = [p \in Procs |-> NoMap]
    /\ conflicts = [p \in Procs |-> {}]
    /\ done = [p \in Procs |-> <<>>]

\* The top frame of addFieldsToMap returns the map r: to
\* LookupCanonicalFieldName when it is the outermost frame, otherwise to
\* the caller, which assigns it to m (line 438) and goes to its next field.
ReturnMap(p, r) ==
    LET rest == SubSeq(stack[p], 1, Len(stack[p]) - 1)
    IN  /\ mref' = [mref EXCEPT ![p] = r]
        /\ IF rest = <<>>
           THEN /\ stack' = [stack EXCEPT ![p] = rest]
                /\ pc' = [pc EXCEPT ![p] = "lookup"]
           ELSE /\ stack' = [stack EXCEPT ![p] = [rest EXCEPT ![Len(rest)].idx = @ + 1]]
                /\ pc' = [pc EXCEPT ![p] = "field"]

\* LookupCanonicalFieldName(t, term) calls fieldMap(t), which makes a fresh
\* field map and conflict map and calls addFieldsToMap on the struct type.
Begin(p) ==
    /\ pc[p] = "idle"
    /\ pending[p] # <<>>
    /\ mref' = [mref EXCEPT ![p] = nextMap]
    /\ nextMap' = nextMap + 1
    /\ conflicts' = [conflicts EXCEPT ![p] = {}]
    /\ stack' = [stack EXCEPT ![p] = <<[type |-> Head(pending[p]).type, idx |-> 1]>>]
    /\ pc' = [pc EXCEPT ![p] = "get"]
    /\ UNCHANGED <<cache, maps, pending, done>>

\* fieldMapCache.Get under the lock: a cached map is returned as it is.
CacheGet(p) ==
    /\ pc[p] = "get"
    /\ LET t == Top(p).type
       IN  IF cache[t] # NoMap
           THEN ReturnMap(p, cache[t])
           ELSE /\ pc' = [pc EXCEPT ![p] = "field"]
                /\ UNCHANGED <<stack, mref>>
    /\ UNCHANGED <<cache, maps, nextMap, pending, conflicts, done>>

\* An anonymous field: its own name is added unless present, and an
\* embedded struct is recursed into with the same m and conflict map.
AnonField(p) ==
    /\ pc[p] = "field"
    /\ Top(p).idx <= Len(Fields[Top(p).type])
    /\ Field(p).anon
    /\ LET f == Field(p)
           k == Lower[f.name]
       IN  /\ maps' = IF maps[mref[p]][k] = NoName
                      THEN [maps EXCEPT ![mref[p]][k] = f.name]
                      ELSE maps
           /\ CASE f.type # NonStruct /\ Len(stack[p]) < MaxDepth ->
                   /\ stack' = [stack EXCEPT ![p] = Append(@, [type |-> f.type, idx |-> 1])]
                   /\ pc' = [pc EXCEPT ![p] = "get"]
                [] f.type # NonStruct ->
                   \* the recursion has exhausted the stack: Go aborts
                   /\ pc' = [pc EXCEPT ![p] = "overflow"]
                   /\ UNCHANGED stack
                [] OTHER -> /\ stack' = [stack EXCEPT ![p][Len(stack[p])].idx = @ + 1]
                   /\ UNCHANGED pc
    /\ UNCHANGED <<cache, nextMap, pending, mref, conflicts, done>>

\* Mutant: the lower-cased key is stored instead of the declared name.
NamedFieldStoresLower(p) ==
    /\ pc[p] = "field"
    /\ Top(p).idx <= Len(Fields[Top(p).type])
    /\ ~Field(p).anon
    /\ LET f == Field(p)
           k == Lower[f.name]
       IN  IF maps[mref[p]][k] # NoName
           THEN /\ conflicts' = [conflicts EXCEPT ![p] = @ \cup {k}]
                /\ UNCHANGED maps
           ELSE /\ maps' = IF k \notin conflicts[p]
                           THEN [maps EXCEPT ![mref[p]][k] = k]
                           ELSE maps
                /\ UNCHANGED conflicts
    /\ stack' = [stack EXCEPT ![p][Len(stack[p])].idx = @ + 1]
    /\ UNCHANGED <<cache, nextMap, pending, pc, mref, done>>

\* A named field: a key already in m becomes a conflict; otherwise the name
\* is added unless the key is a known conflict.
NamedField(p) ==
    /\ pc[p] = "field"
    /\ Top(p).idx <= Len(Fields[Top(p).type])
    /\ ~Field(p).anon
    /\ LET f == Field(p)
           k == Lower[f.name]
       IN  IF maps[mref[p]][k] # NoName
           THEN /\ conflicts' = [conflicts EXCEPT ![p] = @ \cup {k}]
                /\ UNCHANGED maps
           ELSE /\ maps' = IF k \notin conflicts[p]
                           THEN [maps EXCEPT ![mref[p]][k] = f.name]
                           ELSE maps
                /\ UNCHANGED conflicts
    /\ stack' = [stack EXCEPT ![p][Len(stack[p])].idx = @ + 1]
    /\ UNCHANGED <<cache, nextMap, pending, pc, mref, done>>

\* After the last field: fieldMapCache.Put(t, m) under the lock, return m.
CachePut(p) ==
    /\ pc[p] = "field"
    /\ Top(p).idx > Len(Fields[Top(p).type])
    /\ cache' = [cache EXCEPT ![Top(p).type] = mref[p]]
    /\ ReturnMap(p, mref[p])
    /\ UNCHANGED <<maps, nextMap, pending, conflicts, done>>

\* Mutant: the term is not lower-cased before the map is read.
LookupCaseSensitive(p) ==
    /\ pc[p] = "lookup"
    /\ Head(pending[p]).op = "lookup"
    /\ LET c == Head(pending[p])
       IN  done' = [done EXCEPT ![p] = Append(@, [op |-> c.op, type |-> c.type, term |-> c.term,
                        res |-> IF c.term \in Keys THEN maps[mref[p]][c.term] ELSE NoName])]
    /\ pending' = [pending EXCEPT ![p] = Tail(@)]
    /\ pc' = [pc EXCEPT ![p] = "idle"]
    /\ UNCHANGED <<cache, maps, nextMap, stack, mref, conflicts>>

\* LookupCanonicalFieldName reads m[lower(term)]: the canonical name, or
\* the "has no field" error (NoName).
Lookup(p) ==
    /\ pc[p] = "lookup"
    /\ Head(pending[p]).op = "lookup"
    /\ LET c == Head(pending[p])
       IN  done' = [done EXCEPT ![p] = Append(@, [op |-> c.op, type |-> c.type, term |-> c.term,
                                                 res |-> maps[mref[p]][Lower[c.term]]])]
    /\ pending' = [pending EXCEPT ![p] = Tail(@)]
    /\ pc' = [pc EXCEPT ![p] = "idle"]
    /\ UNCHANGED <<cache, maps, nextMap, stack, mref, conflicts>>

(***************************************************************************)
(* reflect's Type.FieldByName, which HasField calls on the canonical name  *)
(* (line 222): the name is searched breadth-first through the embedded     *)
(* structs, one depth at a time, each struct type scanned once.  level     *)
(* maps a struct type of the current depth to 1, or to 2 when it is reached *)
(* along more than one path.  At the first depth where a struct declares   *)
(* the name, the field is found only if exactly one struct declares it and *)
(* that struct is reached along one path; otherwise the name is ambiguous. *)
(***************************************************************************)
RECURSIVE FieldByNameAt(_, _, _)
FieldByNameAt(level, visited, name) ==
    LET scan   == DOMAIN level \ visited
        hits   == {t \in scan : \E f \in ToSet(Fields[t]) : f.name = name}
        embeds(t) == {f.type : f \in {e \in ToSet(Fields[t]) : e.anon /\ e.type # NonStruct}}
        via(s) == {t \in scan : s \in embeds(t)}
        next   == UNION {embeds(t) : t \in scan}
    IN  IF hits # {} THEN \E t \in hits : hits = {t} /\ level[t] = 1
        ELSE IF scan = {} THEN FALSE
        ELSE FieldByNameAt([s \in next |-> IF \E t \in via(s) : via(s) = {t} /\ level[t] = 1
                                           THEN 1 ELSE 2],
                           visited \cup scan, name)

FieldByName(t, name) == FieldByNameAt([s \in {t} |-> 1], {}, name)

\* Mutant: HasField trusts LookupCanonicalFieldName and skips FieldByName.
HasFieldNoRecheck(p) ==
    /\ pc[p] = "lookup"
    /\ Head(pending[p]).op = "hasfield"
    /\ LET c == Head(pending[p])
           r == maps[mref[p]][Lower[c.term]]
       IN  done' = [done EXCEPT ![p] = Append(@, [op |-> c.op, type |-> c.type,
                                                 term |-> c.term, res |-> r # NoName])]
    /\ pending' = [pending EXCEPT ![p] = Tail(@)]
    /\ pc' = [pc EXCEPT ![p] = "idle"]
    /\ UNCHANGED <<cache, maps, nextMap, stack, mref, conflicts>>

\* HasField (lines 204-224) of a value of struct type c.type: false when
\* LookupCanonicalFieldName fails, else whether FieldByName finds the
\* canonical name.
HasField(p) ==
    /\ pc[p] = "lookup"
    /\ Head(pending[p]).op = "hasfield"
    /\ LET c == Head(pending[p])
           r == maps[mref[p]][Lower[c.term]]
       IN  done' = [done EXCEPT ![p] = Append(@, [op |-> c.op, type |-> c.type, term |-> c.term,
                                                 res |-> r # NoName /\ FieldByName(c.type, r)])]
    /\ pending' = [pending EXCEPT ![p] = Tail(@)]
    /\ pc' = [pc EXCEPT ![p] = "idle"]
    /\ UNCHANGED <<cache, maps, nextMap, stack, mref, conflicts>>

\* Every goroutine has made all its calls, or the process has died of a
\* stack overflow.
Finished ==
    /\ \/ \A p \in Procs : pending[p] = <<>> /\ pc[p] = "idle"
       \/ \E p \in Procs : pc[p] = "overflow"
    /\ UNCHANGED vars

Step(p) ==
    \/ Begin(p)
    \/ CacheGet(p)
    \/ AnonField(p)
    \/ NamedField(p)
    \/ CachePut(p)
    \/ Lookup(p)
    \/ HasField(p)

Next == (\E p \in Procs : Step(p)) \/ Finished

\* The Go scheduler runs every runnable goroutine, and the cache's mutex
\* (sync.RWMutex, held only inside Get and Put) is eventually granted.
Spec == Init /\ [][Next]_vars /\ \A p \in Procs : WF_vars(Step(p))

-----------------------------------------------------------------------------
TypeOK ==
    /\ cache \in [Types -> MapIds \cup {NoMap}]
    /\ maps \in [MapIds -> [Keys -> UNION {{f.name : f \in ToSet(Fields[t])} : t \in Types}
                                    \cup {NoName}]]
    /\ nextMap \in 1..(Cardinality(Procs) * NumCalls + 1)
    /\ pc \in [Procs -> {"idle", "get", "field", "lookup", "overflow"}]
    /\ mref \in [Procs -> MapIds \cup {NoMap}]
    /\ \A p \in Procs : conflicts[p] \subseteq Keys

(***************************************************************************)
(* The names a lookup on t may legitimately return: the names of the       *)
(* fields of t and, recursively, of the structs it embeds (their own names *)
(* included), spelled as declared.                                         *)
(***************************************************************************)
RECURSIVE FieldNames(_)
FieldNames(t) ==
    {f.name : f \in ToSet(Fields[t])} \cup
    UNION {FieldNames(f.type) : f \in {e \in ToSet(Fields[t]) : e.anon /\ e.type # NonStruct}}

Canonical(t, key) == {n \in FieldNames(t) : Lower[n] = key}

\* spec.md 4.2 and 8 (scenario 5): LookupCanonicalFieldName(t, term) returns
\* the declared spelling of a field of t whose lower-case name is that of
\* term, and fails only when t has no such field, whatever lookups of
\* other types this or other goroutines made before or meanwhile.
LookupCanonicalSound ==
    \A p \in Procs : \A i \in DOMAIN done[p] :
        LET d  == done[p][i]
            ok == Canonical(d.type, Lower[d.term])
        IN  d.op = "lookup" => IF d.res = NoName THEN ok = {} ELSE d.res \in ok

\* The spellings of the fields t declares itself with lower-case name key.
Declared(t, key) == {f.name : f \in {e \in ToSet(Fields[t]) : Lower[e.name] = key}}

\* spec.md 4.2 rule 1: a field a struct declares shadows every field of its
\* embedded structs with the same lower-case name, so
\* LookupCanonicalFieldName(t, term) returns t's own spelling whenever t
\* declares one; the code keeps whichever spelling addFieldsToMap wrote
\* first (line 446), and the embedded struct's fields come first when it is
\* declared first.
LookupShadowsEmbedded ==
    \A p \in Procs : \A i \in DOMAIN done[p] :
        LET d == done[p][i]
        IN  d.op = "lookup" /\ Declared(d.type, Lower[d.term]) # {} =>
                d.res \in Declared(d.type, Lower[d.term])

(***************************************************************************)
(* spec.md 4.2: the keys of the case-folded mapping of a value of struct   *)
(* type t under flattening rules 1-3: the declared names, and a name of an *)
(* embedded struct's mapping unless t declares it or two or more embedded  *)
(* structs have it.                                                        *)
(***************************************************************************)
RECURSIVE SpecKeys(_)
SpecKeys(t) ==
    LET fs   == ToSet(Fields[t])
        decl == {Lower[f.name] : f \in fs}
        embs == {f.type : f \in {e \in fs : e.anon /\ e.type # NonStruct}}
        from(k) == {e \in embs : k \in SpecKeys(e)}
    IN  decl \cup {k \in UNION {SpecKeys(e) : e \in embs} :
                    k \notin decl /\ Cardinality(from(k)) = 1}

\* spec.md 4.2: HasField(value, name) is true exactly when the lower-cased
\* name is a key of the flattened mapping, ambiguous names of embedded
\* structs removed; the code gets there by LookupCanonicalFieldName, whose
\* map keeps the first spelling it met, followed by reflect's FieldByName.
HasFieldMatchesSpec ==
    \A p \in Procs : \A i \in DOMAIN done[p] :
        LET d == done[p][i]
        IN  d.op = "hasfield" => (d.res <=> Lower[d.term] \in SpecKeys(d.type))

\* Every call of LookupCanonicalFieldName returns: the recursion of
\* addFieldsToMap into an embedded struct (line 438) reaches the end of the
\* struct's fields, and so Put, before the goroutine's stack is exhausted.
AllCallsReturn ==
    <>(\A p \in Procs : pending[p] = <<>> /\ pc[p] = "idle")

\* spec.md 5: apart from the cache, which its lock guards, the state of a
\* goroutine is its own: no step writes a map that another goroutine is
\* using in its call (a Go data race, which the runtime may turn into a
\* fatal "concurrent map read and map write").
NoSharedMapWrite ==
    [][\A i \in MapIds :
          maps'[i] # maps[i] =>
              Cardinality({p \in Procs : mref[p] = i /\ pc[p] # "idle"}) <= 1]_vars
=============================================================================
