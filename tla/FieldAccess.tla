----------------------------- MODULE FieldAccess -----------------------------
(***************************************************************************)
(* The value-level field introspection of render/preprocessor: FieldMap    *)
(* (lines 272-345), lookupMap (369-375), EvalTerms (377-397), HasPath      *)
(* (347-367) and EvalMember (259-270).  Go values are the ids of a        *)
(* constant heap:                                                          *)
(*   [kind |-> "struct", fields |-> <<[name, anon, val], ...>>]            *)
(*   [kind |-> "ptr",    to |-> id or Nil]                                 *)
(*   [kind |-> "iface",  to |-> id or Nil]   (an interface-typed field)    *)
(*   [kind |-> "scalar"]                     (string, bool, int, ...)      *)
(* Nil as an operand is the untyped nil an interface{} holds.  A reflect   *)
(* panic is the outcome Panic.  The order in which Go iterates a map is    *)
(* unspecified, so lookupMap, and with it EvalTerms, yields the set of     *)
(* outcomes the program can produce.                                       *)
(***************************************************************************)
EXTENDS Naturals, Sequences, FiniteSets

CONSTANTS
    Heap,       \* value id -> value
    Nil,        \* the nil interface / nil pointer target
    Lower,      \* Lower[s]: strings.ToLower of a field name or a term
    Panic,      \* the outcome "the goroutine panics"
    Objects,    \* the resource values EvalTerms is called on
    TermSeqs    \* the term lists it is called with

VARIABLES
    obj,        \* the value the template engine evaluates
    terms,      \* the term list of the call
    evaluated,  \* the outcomes EvalTerms(obj, terms...) can return
    found,      \* the outcomes HasPath(obj, terms...) can return
    member      \* the outcomes EvalMember(terms[1], obj) can return, for a
                \*   one-term list

vars == <<obj, terms, evaluated, found, member>>

Ids == DOMAIN Heap

Kind(v) == IF v = Nil THEN "nil" ELSE Heap[v].kind

\* canBeNil(v) && v.IsNil() for a pointer or interface value.
IsNilRef(v) == Kind(v) \in {"ptr", "iface"} /\ Heap[v].to = Nil

\* v.Interface() of a field value: an interface field yields its dynamic
\* value (nil for a nil interface), any other field yields itself.
Interface(v) == IF Kind(v) = "iface" THEN Heap[v].to ELSE v

\* The loop over indirectStruct: follow non-nil pointers and interfaces.
RECURSIVE Deref(_)
Deref(v) == IF Kind(v) \in {"ptr", "iface"} /\ ~IsNilRef(v) THEN Deref(Heap[v].to)
                                                           ELSE v

NoFields == [k \in {} |-> Nil]

(***************************************************************************)
(* FieldMap(obj): canonical field name -> field value.  The loop over the  *)
(* fields assigns every field of the struct at its own index and copies    *)
(* the keys of a non-nil embedded struct's FieldMap only where no key is   *)
(* yet present, so a field declared on the struct keeps its own value and  *)
(* any other key the value of the first embedded struct that has it.  A    *)
(* key found in more than one non-nil embedded struct is then deleted,     *)
(* unless it is a named (non-anonymous) field of the struct.  A nil        *)
(* embedded field contributes only its own name.  ValueOf(nil) and a       *)
(* non-struct after dereferencing panic in val.Type().NumField().          *)
(***************************************************************************)
RECURSIVE FieldMap(_), FieldMapNoRestore(_)
\* Mutant: a name shared by two embedded structs is deleted even when the
\* struct declares it as a named field (lines 326-327 dropped).
FieldMapNoRestore(v) ==
    IF v = Nil THEN Panic
    ELSE IF IsNilRef(v) THEN NoFields
    ELSE LET s == Deref(v)
         IN  IF Kind(s) # "struct" THEN Panic
             ELSE
             LET fs    == Heap[s].fields
                 subIx == {i \in DOMAIN fs : fs[i].anon /\ ~IsNilRef(fs[i].val)}
                 sub   == [i \in subIx |-> FieldMap(Interface(fs[i].val))]
             IN  IF \E i \in subIx : sub[i] = Panic THEN Panic
                 ELSE
                 LET own   == {fs[i].name : i \in DOMAIN fs}
                     named == {fs[i].name : i \in {j \in DOMAIN fs : ~fs[j].anon}}
                     count(k) == Cardinality({i \in subIx : k \in DOMAIN sub[i]})
                     keys  == own \cup UNION {DOMAIN sub[i] : i \in subIx}
                     kept  == {k \in keys : count(k) <= 1}
                     firstSub(k) == CHOOSE i \in subIx :
                                       /\ k \in DOMAIN sub[i]
                                       /\ \A j \in subIx : j < i => k \notin DOMAIN sub[j]
                 IN  [k \in kept |->
                         IF k \in own
                         THEN fs[CHOOSE i \in DOMAIN fs : fs[i].name = k].val
                         ELSE sub[firstSub(k)][k]]

FieldMap(v) ==
    IF v = Nil THEN Panic
    ELSE IF IsNilRef(v) THEN NoFields
    ELSE LET s == Deref(v)
         IN  IF Kind(s) # "struct" THEN Panic
             ELSE
             LET fs    == Heap[s].fields
                 subIx == {i \in DOMAIN fs : fs[i].anon /\ ~IsNilRef(fs[i].val)}
                 sub   == [i \in subIx |-> FieldMap(Interface(fs[i].val))]
             IN  IF \E i \in subIx : sub[i] = Panic THEN Panic
                 ELSE
                 LET own   == {fs[i].name : i \in DOMAIN fs}
                     named == {fs[i].name : i \in {j \in DOMAIN fs : ~fs[j].anon}}
                     count(k) == Cardinality({i \in subIx : k \in DOMAIN sub[i]})
                     keys  == own \cup UNION {DOMAIN sub[i] : i \in subIx}
                     kept  == {k \in keys : count(k) <= 1 \/ k \in named}
                     firstSub(k) == CHOOSE i \in subIx :
                                       /\ k \in DOMAIN sub[i]
                                       /\ \A j \in subIx : j < i => k \notin DOMAIN sub[j]
                 IN  [k \in kept |->
                         IF k \in own
                         THEN fs[CHOOSE i \in DOMAIN fs : fs[i].name = k].val
                         ELSE sub[firstSub(k)][k]]

\* lookupMap(src)[lower(k)] = k, the last k of the iteration winning: any
\* canonical name with that lower-case key may be chosen.
LookupChoices(fm, term) == {k \in DOMAIN fm : Lower[k] = Lower[term]}

(***************************************************************************)
(* EvalTerms(obj, terms...), the left fold over the terms: the set of its  *)
(* possible outcomes, each [kind |-> "value", val] or [kind |-> "error",   *)
(* err |-> "missing" | "unresolvable"], or Panic.  A field that is a nil   *)
(* pointer ends the fold with ErrUnresolvable (line 391).                  *)
(***************************************************************************)
RECURSIVE EvalTerms(_, _)
EvalTerms(v, ts) ==
    IF ts = <<>> THEN {[kind |-> "value", val |-> v]}
    ELSE LET fm == FieldMap(v)
         IN  IF fm = Panic THEN {Panic}
             ELSE IF LookupChoices(fm, Head(ts)) = {}
             THEN {[kind |-> "error", err |-> "missing"]}
             ELSE UNION {IF Kind(fm[k]) = "ptr" /\ IsNilRef(fm[k])
                         THEN {[kind |-> "error", err |-> "unresolvable"]}
                         ELSE EvalTerms(Interface(fm[k]), Tail(ts)) :
                         k \in LookupChoices(fm, Head(ts))}

(***************************************************************************)
(* HasPath(obj, terms...): the same fold as EvalTerms, reporting only      *)
(* whether it gets through: "ok", "missing" (no such field), "nil" (a nil  *)
(* pointer field, "field is nil"), or Panic.                               *)
(***************************************************************************)
RECURSIVE HasPathNoNilCheck(_, _), HasPath(_, _)
\* Mutant: the nil-pointer check of line 362 is dropped.
HasPathNoNilCheck(v, ts) ==
    IF ts = <<>> THEN {"ok"}
    ELSE LET fm == FieldMap(v)
         IN  IF fm = Panic THEN {Panic}
             ELSE IF LookupChoices(fm, Head(ts)) = {} THEN {"missing"}
             ELSE UNION {HasPath(Interface(fm[k]), Tail(ts)) :
                         k \in LookupChoices(fm, Head(ts))}

HasPath(v, ts) ==
    IF ts = <<>> THEN {"ok"}
    ELSE LET fm == FieldMap(v)
         IN  IF fm = Panic THEN {Panic}
             ELSE IF LookupChoices(fm, Head(ts)) = {} THEN {"missing"}
             ELSE UNION {IF Kind(fm[k]) = "ptr" /\ IsNilRef(fm[k])
                         THEN {"nil"}
                         ELSE HasPath(Interface(fm[k]), Tail(ts)) :
                         k \in LookupChoices(fm, Head(ts))}

\* A field's reflect.Value: the value, whether it is a nil pointer
\* (Kind() == Ptr && IsNil()), and what Interface() returns.
ReflectValue(v) ==
    [kind |-> "member", val |-> v, nilptr |-> Kind(v) = "ptr" /\ IsNilRef(v),
     iface |-> Interface(v)]

\* Mutant: the name is not lower-cased before lookupMap is read.
MemberOfCaseSensitive(fm, name) ==
    IF fm = Panic THEN {Panic}
    ELSE LET ks == {k \in DOMAIN fm : Lower[k] = name}
         IN  IF ks = {} THEN {[kind |-> "error", err |-> "missing"]}
             ELSE {ReflectValue(fm[k]) : k \in ks}

\* The lookup of EvalMember in a field map: the field's reflect.Value as it
\* is (a nil pointer included), or the "has no field" error.
MemberOf(fm, name) ==
    IF fm = Panic THEN {Panic}
    ELSE LET ks == LookupChoices(fm, name)
         IN  IF ks = {} THEN {[kind |-> "error", err |-> "missing"]}
             ELSE {ReflectValue(fm[k]) : k \in ks}

\* EvalMember(name, obj): one lookup in lookupMap(FieldMap(obj)).
EvalMember(name, v) == MemberOf(FieldMap(v), name)

Init ==
    /\ obj \in Objects
    /\ terms \in TermSeqs
    /\ evaluated = EvalTerms(obj, terms)
    /\ found = HasPath(obj, terms)
    /\ member = IF Len(terms) = 1 THEN EvalMember(terms[1], obj) ELSE {}

\* FieldMap and EvalTerms are pure: the state never changes.
Next == UNCHANGED vars

Spec == Init /\ [][Next]_vars

-----------------------------------------------------------------------------
(***************************************************************************)
(* spec.md 4.2, flattening rules 1-4, as stated there: the names of a      *)
(* record are the fields it declares (embedded ones included, nil or not), *)
(* each with its own value, and every other name that exactly one non-nil  *)
(* embedded record has, with that record's value.                          *)
(***************************************************************************)
RECURSIVE SpecFields(_)
SpecFields(v) ==
    IF v = Nil \/ IsNilRef(v) THEN NoFields
    ELSE LET s == Deref(v)
         IN  IF Kind(s) # "struct" THEN NoFields
             ELSE
             LET fs   == Heap[s].fields
                 decl == {fs[i].name : i \in DOMAIN fs}
                 embs == {Interface(fs[i].val) :
                            i \in {j \in DOMAIN fs : fs[j].anon /\ ~IsNilRef(fs[j].val)}}
                 from(k) == {e \in embs : k \in DOMAIN SpecFields(e)}
                 lifted == {k \in UNION {DOMAIN SpecFields(e) : e \in embs} :
                              k \notin decl /\ Cardinality(from(k)) = 1}
             IN  [k \in decl \cup lifted |->
                     IF k \in decl THEN fs[CHOOSE i \in DOMAIN fs : fs[i].name = k].val
                     ELSE LET e == CHOOSE e \in from(k) : TRUE IN SpecFields(e)[k]]

IsRecord(v) == v # Nil /\ Kind(Deref(v)) = "struct"

IsNull(v) == v = Nil \/ IsNilRef(v)

(***************************************************************************)
(* spec.md 4.2 and 7: EvalTerms folds case-insensitive field access; a     *)
(* null value on the path is Unresolvable, a missing name MissingField and *)
(* a non-record NotAStruct.                                                *)
(***************************************************************************)
RECURSIVE SpecEval(_, _)
SpecEval(v, ts) ==
    IF ts = <<>> THEN [kind |-> "value", val |-> v]
    ELSE IF IsNull(v) THEN [kind |-> "error", err |-> "unresolvable"]
    ELSE IF ~IsRecord(v) THEN [kind |-> "error", err |-> "notastruct"]
    ELSE LET fm == SpecFields(v)
             ks == LookupChoices(fm, Head(ts))
         IN  IF ks = {} THEN [kind |-> "error", err |-> "missing"]
             ELSE LET f == fm[CHOOSE k \in ks : TRUE]
                  IN  IF IsNull(f) THEN [kind |-> "error", err |-> "unresolvable"]
                      ELSE SpecEval(Interface(f), Tail(ts))

\* spec.md 4.2 and 8 (scenario 3): FieldMap of the resource value exposes
\* exactly the names of the flattening rules, with their
\* values (outer fields shadow embedded ones, names two embedded records
\* share are dropped unless the outer record declares them, nil embedded
\* records contribute only their own name).
FieldMapFlattening == IsRecord(obj) => FieldMap(obj) = SpecFields(obj)

\* spec.md 4.2 and 7: on every path EvalTerms has the one outcome of the
\* spec's fold; asking a non-record for a field is the error NotAStruct,
\* not a panic of the rendering goroutine.
EvalTermsMatchesSpec == evaluated = {SpecEval(obj, terms)}

\* The outcome class of an EvalTerms outcome, as HasPath reports it.
Verdict(o) ==
    CASE o = Panic -> Panic
      [] o.kind = "value" -> "ok"
      [] o.err = "missing" -> "missing"
      [] OTHER -> "nil"

\* HasPath (lines 348-367) is the check a caller makes before EvalTerms:
\* for every resource value and term list, HasPath succeeds exactly when
\* EvalTerms can return a value, and fails for the same reason otherwise.
HasPathAgreesWithEvalTerms ==
    found = {Verdict(o) : o \in evaluated}

\* The value EvalTerms goes on with for a member: a nil pointer field is
\* ErrUnresolvable (line 391), any other field its Interface().
Continue(o) ==
    CASE o = Panic -> Panic
      [] o.kind = "error" -> o
      [] o.nilptr -> [kind |-> "error", err |-> "unresolvable"]
      [] OTHER -> [kind |-> "value", val |-> o.iface]

\* EvalMember (lines 259-270) and a one-term EvalTerms read the same field
\* for the same name, whatever its case: EvalTerms' outcomes are exactly
\* EvalMember's, with a nil pointer turned into Unresolvable.
EvalMemberAgreesWithEvalTerms ==
    Len(terms) = 1 => evaluated = {Continue(o) : o \in member}
=============================================================================
