--------------------------- MODULE MCFieldMapCache ---------------------------
(***************************************************************************)
(* Instances of FieldMapCache.                                             *)
(*  - Embed: the record of spec.md 8, scenario 3: Outer{Name; E1; E2},     *)
(*    E1{Shared; A}, E2{Shared; B}; one goroutine makes two lookups.       *)
(*  - Self: Node{*Node; Name}, a struct embedding a pointer to itself.     *)
(*  - Mixed: Coll{ID; Id}, two fields whose names differ only in case,    *)
(*    and the Embed types together, two goroutines each making             *)
(*    two calls of LookupCanonicalFieldName or HasField, the embedded      *)
(*    structs reached only through Outer.                                  *)
(*  - Fold: Pair{EA; EB}, EA{ID}, EB{Id}: two embedded structs whose       *)
(*    fields differ only in case.                                          *)
(*  - Shadow: Shadow{EN; Name}, EN{NAME}: the outer struct declares a      *)
(*    field that an embedded struct, declared before it, spells otherwise. *)
(***************************************************************************)
EXTENDS FieldMapCache

CONSTANTS p1, p2

Named(n) == [name |-> n, anon |-> FALSE, type |-> NonStruct]
Embedded(n) == [name |-> n, anon |-> TRUE, type |-> n]

LookupCall(t, s) == [op |-> "lookup", type |-> t, term |-> s]
HasFieldCall(t, s) == [op |-> "hasfield", type |-> t, term |-> s]

MCLower ==
    [s \in {"ID", "Id", "id", "nope",
            "Name", "name", "Shared", "shared", "A", "a", "B", "b",
            "E1", "e1", "E2", "e2", "Node", "EA", "EB", "Pair",
            "NAME", "EN", "Shadow"} |->
        CASE s \in {"ID", "Id", "id"}                -> "id"
          [] s \in {"Name", "name", "NAME"}          -> "name"
          [] s \in {"Shared", "shared"}              -> "shared"
          [] s \in {"A", "a"}                        -> "a"
          [] s \in {"B", "b"}                        -> "b"
          [] s \in {"E1", "e1"}                      -> "e1"
          [] s \in {"E2", "e2"}                      -> "e2"
          [] s = "Node"                              -> "node"
          [] s = "EA"                                -> "ea"
          [] s = "EB"                                -> "eb"
          [] s = "Pair"                              -> "pair"
          [] s = "EN"                                -> "en"
          [] s = "Shadow"                            -> "shadow"
          [] OTHER                                   -> "nope"]

TwoProcs == {p1, p2}
CollFields == <<Named("ID"), Named("Id")>>

EmbedProcs == {p1}
EmbedTypes == {"Outer", "E1", "E2"}
EmbedFields ==
    [t \in EmbedTypes |->
        CASE t = "Outer" -> <<Named("Name"), Embedded("E1"), Embedded("E2")>>
          [] t = "E1"    -> <<Named("Shared"), Named("A")>>
          [] OTHER       -> <<Named("Shared"), Named("B")>>]
EmbedCalls ==
    {LookupCall("Outer", "name"), LookupCall("Outer", "b"),
     LookupCall("E1", "name"), LookupCall("E1", "a")}

SelfTypes == {"Node"}
SelfFields == [t \in SelfTypes |-> <<Embedded("Node"), Named("Name")>>]
SelfCalls == {LookupCall("Node", "name")}
MixedTypes == {"Coll"} \cup EmbedTypes
MixedFields == [t \in MixedTypes |->
                  IF t = "Coll" THEN CollFields ELSE EmbedFields[t]]
MixedCalls ==
    {LookupCall("Coll", "id"), LookupCall("Outer", "Name"),
     HasFieldCall("Outer", "shared"), HasFieldCall("Outer", "B")}

FoldTypes == {"Pair", "EA", "EB"}
FoldFields ==
    [t \in FoldTypes |->
        CASE t = "Pair" -> <<Embedded("EA"), Embedded("EB")>>
          [] t = "EA"   -> <<Named("ID")>>
          [] OTHER      -> <<Named("Id")>>]
FoldCalls == {HasFieldCall("Pair", "id")}

ShadowTypes == {"Shadow", "EN"}
ShadowFields ==
    [t \in ShadowTypes |->
        IF t = "Shadow" THEN <<Embedded("EN"), Named("Name")>> ELSE <<Named("NAME")>>]
ShadowCalls == {LookupCall("Shadow", "name")}
=============================================================================
