------------------------------- MODULE Shapes -------------------------------
(***************************************************************************)
(* Typed reading and writing of a document (packages/change): what is      *)
(* stored under a key, the placeholder derived from its shape, the overlay *)
(* that merges both when the document is read, and the validation of       *)
(* values against shapes.  A value lives under one key; the application    *)
(* is upgraded once, to a schema whose structs have one more field.        *)
(***************************************************************************)
EXTENDS Naturals, Sequences, TLC

CONSTANTS
  Schemas, \* the shapes of the key, a sequence
  Risks    \* types inside which an upgrade adds fields: "union", "array",
           \* "vrecord", "discriminatedUnion"

ShapesAssumption == Risks \subseteq {"union", "array", "vrecord", "discriminatedUnion"}

VARIABLES
  shape,   \* the shape of the key
  stored,  \* what the document holds under the key
  upgraded \* the application has the new schema

vars == <<shape, stored, upgraded>>

-----------------------------------------------------------------------------
(* Values: of a kind, with an atom or with children.                       *)
Val(kind, atom) == [kind |-> kind, atom |-> atom, of |-> <<>>]
Undefined == Val("undefined", 0)
Null == Val("null", 0)
Throws == Val("throws", 0)
Arr(s) == [kind |-> "array", atom |-> 0, of |-> s]
Obj(f) == [kind |-> "object", atom |-> 0, of |-> f]
Is(v, kind) == v.kind = kind
Whole(v) == IF \E i \in DOMAIN v.of : Is(v.of[i], "throws") THEN Throws ELSE v
At(v, k) == IF k \in DOMAIN v.of THEN v.of[k] ELSE Undefined

(* Shapes: leaves with a placeholder, and those of other shapes.  Those of *)
(* plain values that containers also have begin with a v.                  *)
Leaf(type, kind) == [type |-> type, kind |-> kind, of |-> <<>>]
Text == Leaf("text", "string")
Counter == Leaf("counter", "number")
String == Leaf("string", "string")
Number == Leaf("number", "number")
Boolean == Leaf("boolean", "boolean")
Bytes == Leaf("uint8array", "bytes")
NullShape == Leaf("null", "null")
UndefinedShape == Leaf("undefined", "undefined")
AnyShape == Leaf("any", "undefined")
List(of) == [type |-> "list", kind |-> "array", of |-> <<of>>]
MovableList(of) == [type |-> "movableList", kind |-> "array", of |-> <<of>>]
Array(of) == [type |-> "array", kind |-> "array", of |-> <<of>>]
Record(of) == [type |-> "record", kind |-> "object", of |-> <<of>>]
VRecord(of) == [type |-> "vrecord", kind |-> "object", of |-> <<of>>]
StructOf(f) == [type |-> "struct", kind |-> "object", of |-> f]
VStruct(f) == [type |-> "vstruct", kind |-> "object", of |-> f]
Union(ss) == [type |-> "union", kind |-> "any", of |-> ss]
Nullable(s) == Union(<<NullShape, s>>)
(* The tag of variant i of a discriminated union is the string i.          *)
Tagged(fs) == [type |-> "discriminatedUnion", kind |-> "object",
               of |-> [i \in DOMAIN fs |-> VStruct([tag |-> String] @@ fs[i])]]

Lists == {"list", "movableList"}
Containers == {"text", "counter", "record", "struct"} \cup Lists
Structs == {"struct", "vstruct"}

(* deriveShapePlaceholder                                                  *)
RECURSIVE Derive(_)
Derive(s) ==
  CASE s.type = "any" -> Undefined
    [] s.type \in Lists \cup {"array"} -> Arr(<<>>)
    [] s.type \in {"record", "vrecord"} -> Obj(<<>>)
    [] s.type \in Structs -> Obj([k \in DOMAIN s.of |-> Derive(s.of[k])])
    [] s.type = "union" -> Derive(s.of[1])
    [] s.type = "discriminatedUnion" ->
         Obj([k \in DOMAIN s.of[1].of |-> IF k = "tag" THEN Val("string", 1) ELSE Derive(s.of[1].of[k])])
    [] OTHER -> Val(s.kind, 0)

(* mergeValue: what is stored, with the placeholder where nothing is.      *)
Either(v, p) == IF Is(v, "undefined") THEN p ELSE v
RECURSIVE MergeValue(_, _, _)
MergeStruct(s, v, p) ==
  Whole(Obj([k \in DOMAIN s.of |-> MergeValue(s.of[k], At(v, k), At(p, k))]))
MergeUnion(s, v, p) ==
  LET tag == Either(At(v, "tag"), At(p, "tag"))
  IN  IF ~Is(tag, "string") THEN p
      ELSE IF tag.atom \notin DOMAIN s.of THEN Either(v, p)
      ELSE MergeValue(s.of[tag.atom], v, IF At(p, "tag").atom = tag.atom THEN p ELSE Undefined)
MergeValue(s, v, p) ==
  CASE s.type = "any" -> v
    [] s.type # "any" /\ Is(v, "undefined") /\ Is(p, "undefined") -> Throws
    [] s.type \in {"struct", "record"} /\ v.kind \notin {"object", "undefined"} -> Throws
    [] s.type \in Lists /\ ~Is(v, "undefined") ->
         Whole(Arr([i \in DOMAIN v.of |-> MergeValue(s.of[1], v.of[i], Derive(s.of[1]))]))
    [] s.type = "record" ->
         Whole(Obj([k \in DOMAIN v.of |-> MergeValue(s.of[1], v.of[k], Derive(s.of[1]))]))
    [] s.type \in Structs /\ v.kind \in {"object", "undefined", "null"} -> MergeStruct(s, v, p)
    [] s.type = "discriminatedUnion" -> MergeUnion(s, v, p)
    [] OTHER -> Either(v, p)

(* validateValue, of containers and of plain values.                       *)
RECURSIVE IsValid(_, _)
AllValid(s, v) == v.kind = s.kind /\ \A i \in DOMAIN v.of : IsValid(s.of[1], v.of[i])
FieldsValid(s, v) == v.kind = "object" /\ \A k \in DOMAIN s.of : IsValid(s.of[k], At(v, k))
IsValidPlain(s, v) ==
  CASE s.type \in {"array", "vrecord"} -> AllValid(s, v)
    [] s.type = "vstruct" -> FieldsValid(s, v)
    [] s.type = "union" -> \E i \in DOMAIN s.of : IsValid(s.of[i], v)
    [] s.type = "discriminatedUnion" ->
         /\ v.kind = "object" /\ At(v, "tag").kind = "string"
         /\ At(v, "tag").atom \in DOMAIN s.of /\ IsValid(s.of[At(v, "tag").atom], v)
    [] OTHER -> v.kind = s.kind
IsValid(s, v) ==
  CASE s.type = "any" -> TRUE
    [] s.type \in Lists \cup {"record"} -> AllValid(s, v)
    [] s.type = "struct" -> FieldsValid(s, v)
    [] OTHER -> IsValidPlain(s, v)

(* convertInputToRef: the container of a value; structs get a container    *)
(* for each key that has a container shape.                                *)
RECURSIVE Convert(_, _)
ConvertStructInput(s, v) ==
  LET made == {k \in DOMAIN s.of : s.of[k].type \in Containers}
      empty(k) == Val(s.of[k].kind, 0)
  IN  Obj([k \in DOMAIN v.of \cup made |->
             IF k \in DOMAIN s.of THEN Convert(s.of[k], Either(At(v, k), empty(k))) ELSE v.of[k]])
ConvertListInput(s, v) == Arr([i \in DOMAIN v.of |-> Convert(s.of[1], v.of[i])])
Convert(s, v) ==
  CASE s.type = "struct" -> ConvertStructInput(s, v)
    [] s.type \in Lists -> ConvertListInput(s, v)
    [] s.type = "record" -> Obj([k \in DOMAIN v.of |-> Convert(s.of[1], v.of[k])])
    [] OTHER -> v

-----------------------------------------------------------------------------
(* Inputs: two complete values of each shape.                              *)
RECURSIVE Sample(_, _)
Sample(s, i) ==
  CASE s.type = "null" -> Null
    [] s.type \in Lists \cup {"array"} ->
         Arr(IF i = 1 THEN <<>> ELSE <<Sample(s.of[1], 1), Sample(s.of[1], 2)>>)
    [] s.type \in {"record", "vrecord"} ->
         Obj(IF i = 1 THEN <<>> ELSE [x \in {"x", "y"} |-> Sample(s.of[1], IF x = "x" THEN 1 ELSE 2)])
    [] s.type \in Structs -> Obj([k \in DOMAIN s.of |-> Sample(s.of[k], i)])
    [] s.type = "union" -> Sample(s.of[i], 2)
    [] s.type = "discriminatedUnion" ->
         Obj([k \in DOMAIN s.of[i].of |-> IF k = "tag" THEN Val("string", i) ELSE Sample(s.of[i].of[k], i)])
    [] s.type = "any" -> Val("number", i)
    [] s.type = "undefined" -> Undefined
    [] OTHER -> Val(s.kind, i)

Init ==
  /\ (\E i \in DOMAIN Schemas : shape = Schemas[i]) /\ stored = Undefined /\ upgraded = FALSE

(* The value as a whole, an item of a list, an entry of a record, a field  *)
(* of a struct; then a deletion.                                           *)
Set(i) == stored' = Convert(shape, Sample(shape, i)) /\ UNCHANGED <<shape, upgraded>>
Push(i) ==
  /\ shape.type \in Lists /\ Len(Either(stored, Arr(<<>>)).of) < 3
  /\ stored' = Arr(Append(Either(stored, Arr(<<>>)).of, Convert(shape.of[1], Sample(shape.of[1], i))))
  /\ UNCHANGED <<shape, upgraded>>
SetField(k, s, i) ==
  /\ stored.kind \in {"object", "undefined"}
  /\ stored' = Obj((k :> Convert(s, Sample(s, i))) @@ stored.of)
  /\ UNCHANGED <<shape, upgraded>>
Delete == stored' = Undefined /\ UNCHANGED <<shape, upgraded>>

(* Shapes whose structs have a field more.                                 *)
RECURSIVE Newer(_)
Newer(s) ==
  IF s.type \in {"union", "array", "vrecord", "discriminatedUnion"} \ Risks THEN s
  ELSE [s EXCEPT !.of = [k \in DOMAIN s.of |-> Newer(s.of[k])] @@
                        IF s.type \in Structs THEN [new |-> String] ELSE <<>>]
Upgrade ==
  /\ ~upgraded /\ upgraded' = TRUE
  /\ shape' = Newer(shape)
  /\ UNCHANGED stored

Next ==
  \/ \E i \in 1..2 :
       \/ Set(i) \/ Push(i)
       \/ shape.type \in Structs /\ \E k \in DOMAIN shape.of : SetField(k, shape.of[k], i)
       \/ shape.type = "record" /\ \E k \in {"x", "y"} : SetField(k, shape.of[1], i)
  \/ Delete \/ Upgrade

Spec == Init /\ [][Next]_vars

-----------------------------------------------------------------------------
Read(s, v) == MergeValue(s, v, Derive(s))

(* Whatever was written, in part or by an application without the newest   *)
(* fields, the document can be read, and what is read is valid.            *)
ReadsAreValid == ~Is(Read(shape, stored), "throws") /\ IsValid(shape, Read(shape, stored))

(* A value that was written is what is read.                               *)
WrittenIsRead ==
  [][\A i \in 1..2 : Set(i) => Read(shape, stored)' = Sample(shape, i)]_vars
=============================================================================
