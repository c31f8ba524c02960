---------------------------- MODULE DynamicValues ----------------------------
(***************************************************************************)
(* DynValue of omts-core (dynvalue.rs), the value of fields that no struct *)
(* declares and of a few that any value may have, on its way into JSON and *)
(* CBOR and out again.                                                     *)
(*                                                                         *)
(* What a parser hands to the visitor, and what the serializer is told, is *)
(* a term: <<"null">>, <<"bool", b>>, <<"number", n>> (a whole number),    *)
(* <<"float", x>>, <<"text", s>>, <<"bytes">> (CBOR only), <<"list", seq>> *)
(* or <<"map", seq>>, a sequence of pairs of a key and a term in which a   *)
(* key may come again.  Whole numbers that neither i64 nor u64 holds are   *)
(* external: the JSON parser makes floats of them before the visitor.      *)
(***************************************************************************)
EXTENDS Integers, SequencesExt

CONSTANTS
  MaxI64, MaxU64,   \* the greatest numbers of the two integer types
  NotFinite         \* stands for the floats NaN and the infinities

ASSUME WidthAssumption == MaxI64 \in Nat /\ MaxU64 \in Nat /\ MaxI64 < MaxU64

Keys(entries) == {entries[k][1] : k \in DOMAIN entries}

\* A byte string has no visit function, wherever it is.
RECURSIVE Accepted(_)
Accepted(term) ==
  /\ term[1] # "bytes"
  /\ term[1] = "list" => \A k \in DOMAIN term[2] : Accepted(term[2][k])
  /\ term[1] = "map"  => \A k \in DOMAIN term[2] : Accepted(term[2][k][2])

VisitNumber(n) == IF n <= MaxI64 THEN <<"Integer", n>> ELSE <<"UnsignedInteger", n>>

\* Of the entries with one key the last stays; the order of the others, in which
\* the map is written again, is that of its keys and of no matter to a reader.
RECURSIVE Deserialize(_)
Deserialize(term) ==
  CASE term[1] = "null"   -> <<"Null">>
    [] term[1] = "bool"   -> <<"Bool", term[2]>>
    [] term[1] = "number" -> VisitNumber(term[2])
    [] term[1] = "float"  -> <<"Float", term[2]>>
    [] term[1] = "text"   -> <<"String", term[2]>>
    [] term[1] = "list"   -> <<"Array", [k \in DOMAIN term[2] |-> Deserialize(term[2][k])]>>
    [] term[1] = "map"    ->
         <<"Object", [key \in Keys(term[2]) |->
             Deserialize(term[2][SelectLastInSeq(term[2], LAMBDA e : e[1] = key)][2])]>>

\* JSON has no text for a float that is not finite, and its serializer, which
\* is external, writes null.
FloatTerm(x, encoding) ==
  IF encoding = "json" /\ x = NotFinite THEN <<"null">> ELSE <<"float", x>>

RECURSIVE Serialize(_, _)
Serialize(value, encoding) ==
  CASE value[1] = "Null"   -> <<"null">>
    [] value[1] = "Bool"   -> <<"bool", value[2]>>
    [] value[1] \in {"Integer", "UnsignedInteger"} -> <<"number", value[2]>>
    [] value[1] = "Float"  -> FloatTerm(value[2], encoding)
    [] value[1] = "String" -> <<"text", value[2]>>
    [] value[1] = "Array"  ->
         <<"list", [k \in DOMAIN value[2] |-> Serialize(value[2][k], encoding)]>>
    [] value[1] = "Object" ->
         LET keys == SetToSeq(DOMAIN value[2])
         IN <<"map", [k \in DOMAIN keys |->
                        <<keys[k], Serialize(value[2][keys[k]], encoding)>>]>>

\* The accessors that look into a value: get of an object, as_f64.
HasMember(value, key) == value[1] = "Object" /\ key \in DOMAIN value[2]
Member(value, key) == value[2][key]
IsNumeric(value) == value[1] \in {"Float", "Integer", "UnsignedInteger"}
AsF64(value) == <<"Float", value[2]>>

\* From<serde_json::Value>, which goes through the same cases as the visitor.
FromJsonValue(term) == Deserialize(term)
=============================================================================
