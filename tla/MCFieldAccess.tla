---------------------------- MODULE MCFieldAccess ----------------------------
(***************************************************************************)
(* Heaps of Go values for FieldAccess.  Every heap is a set of resource    *)
(* structs of the kind the preprocessor walks: exported fields, value and  *)
(* pointer embedding, interface-typed fields, nil pointers.                *)
(***************************************************************************)
EXTENDS FieldAccess

MCNil == "Nil"

\* Constructors for heap entries.
S(fs)     == [kind |-> "struct", fields |-> fs]
F(n, v)   == [name |-> n, anon |-> FALSE, val |-> v]
Emb(n, v) == [name |-> n, anon |-> TRUE, val |-> v]
Ptr(t)    == [kind |-> "ptr", to |-> t]
Iface(t)  == [kind |-> "iface", to |-> t]
Scalar    == [kind |-> "scalar"]

\* strings.ToLower over the names and terms of the heaps below.
Words == {"Name", "E1", "E2", "E3", "Cfg", "Sub", "Any", "Shared", "A", "B",
          "Host", "HomeDir", "Out2", "Wrap", "Wrap2", "ID", "Id"}
LowerOf(w) ==
    CASE w = "Name" -> "name" [] w = "E1" -> "e1" [] w = "E2" -> "e2"
      [] w = "E3" -> "e3" [] w = "Cfg" -> "cfg" [] w = "Sub" -> "sub"
      [] w = "Any" -> "any" [] w = "Shared" -> "shared" [] w = "A" -> "a"
      [] w = "B" -> "b" [] w = "Host" -> "host" [] w = "HomeDir" -> "homedir"
      [] w = "Out2" -> "out2" [] w = "Wrap" -> "wrap" [] w = "Wrap2" -> "wrap2"
      [] w = "SHARED" -> "shared" [] w = "ID" -> "id" [] w = "Id" -> "id"
      [] w = "HOMEDIR" -> "homedir" [] OTHER -> w
Terms == {"name", "SHARED", "a", "b", "cfg", "host", "any", "sub", "e3",
          "HOMEDIR", "nope"}
MCLower == [w \in Words \cup Terms \cup {"x", "e1", "id"} |-> LowerOf(w)]

(***************************************************************************)
(* The checked heap: spec.md 8 scenario 3 (Outer with E1 and E2 sharing    *)
(* Shared; Out2 declaring Shared itself), scenario 4 (a nil Cfg pointer),  *)
(* scenario 5 (HomeDir looked up as HOMEDIR), a nil embedded pointer (E3), *)
(* a non-nil interface field, embedding two levels deep and a resource     *)
(* passed by pointer.                                                      *)
(***************************************************************************)
HeapOK ==
    [out   |-> S(<<F("Name", "s"), Emb("E1", "e1"), Emb("E2", "e2"),
                   F("Cfg", "pnil"), F("Sub", "pout2"), F("Any", "icfg")>>),
     e1    |-> S(<<F("Shared", "s"), F("A", "s")>>),
     e2    |-> S(<<F("Shared", "s"), F("B", "s"), F("Host", "s")>>),
     out2  |-> S(<<F("Shared", "s"), Emb("E1", "e1"), Emb("E2", "e2"),
                   Emb("E3", "pnil")>>),
     cfg   |-> S(<<F("Host", "s"), F("HomeDir", "s")>>),
     nest  |-> S(<<Emb("Out2", "pout2"), F("HomeDir", "s"), F("Cfg", "pcfg")>>),
     pout  |-> Ptr("out"),
     pout2 |-> Ptr("out2"),
     pcfg  |-> Ptr("cfg"),
     icfg  |-> Iface("cfg"),
     pnil  |-> Ptr("Nil"),
     s     |-> Scalar]

ObjectsOK == {"out", "out2", "nest", "pout", "e1", "e2", "cfg"}

\* Every term list up to length 2.
TermSeqsOK == {<<>>} \cup {<<t>> : t \in Terms} \cup {<<t, u>> : t, u \in Terms}

(***************************************************************************)
(* The embedded field E1 of Outer is itself lifted by two embedded structs *)
(* (Wrap and Wrap2 both embed E1).                                         *)
(***************************************************************************)
HeapAnon ==
    [outer |-> S(<<Emb("E1", "e1"), Emb("Wrap", "wrap"), Emb("Wrap2", "wrap")>>),
     wrap  |-> S(<<Emb("E1", "e1")>>),
     e1    |-> S(<<F("A", "s")>>),
     s     |-> Scalar]

\* A field path through a string field (out.name.x), one through a nil
\* interface-typed field (out.any.host), and a term (id) that two fields
\* spelled ID and Id, one of them a nil pointer, both fold to.
HeapPanic ==
    [out  |-> S(<<F("Name", "s"), F("Any", "inil"), F("ID", "s"), F("Id", "pnil")>>),
     s    |-> Scalar,
     inil |-> Iface("Nil"),
     pnil |-> Ptr("Nil")]

AnonObjects == {"outer"}
AnonTermSeqs == {<<"e1">>}
PanicObjects == {"out"}
PanicTermSeqs == {<<"name", "x">>, <<"any", "host">>, <<"id">>}
=============================================================================
