---------------------------- MODULE FlatStorage ----------------------------
(***************************************************************************)
(* Where a typed document keeps its containers, how they become JSON       *)
(* again, and the subscriptions to a path (packages/change: DocRef,        *)
(* buildChildTypedRefParams, path-encoding.ts, typed-doc.ts,               *)
(* path-subscription.ts).  A mergeable document keeps each container at    *)
(* the root of the Loro document, under a name that encodes its path; the  *)
(* parent's map holds a null marker.  A list keeps its items within.       *)
(* A key is a sequence of characters.                                      *)
(***************************************************************************)
EXTENDS Naturals, FiniteSets, SequencesExt

CONSTANTS
  Shape,      \* [type |-> "struct", of |-> [key -> shape]], the document's; see Fields
  RecordKeys,
  Values,
  None,       \* undefined, and the placeholder of a value
  Marker,     \* null
  Mergeable,
  MaxItems,   \* of a list
  Risks       \* "whole": a path that ends at a top-level struct or record is
              \* subscribed to, in a mergeable document

FlatStorageAssumption ==
  /\ None # Marker /\ {None, Marker} \cap Values = {}
  /\ Mergeable \in BOOLEAN /\ MaxItems \in Nat /\ Risks \subseteq {"whole"}

VARIABLES
  roots,    \* container name -> what it holds
  touched,  \* the root containers changed since the last commit
  segments, \* what the path selector of the subscription selects; None before
  previous  \* the value the subscription saw last

vars == <<roots, touched, segments, previous>>

-----------------------------------------------------------------------------
(* path-encoding.ts: a hyphen between two keys, an escaped one in a key.   *)
EscapePathSegment(key) ==
  FlattenSeq([i \in DOMAIN key |-> IF key[i] \in {"\\", "-"} THEN <<"\\", key[i]>> ELSE <<key[i]>>])
BuildRootContainerName(path) ==
  FlattenSeq([i \in DOMAIN path |-> (IF i = 1 THEN <<>> ELSE <<"-">>) \o EscapePathSegment(path[i])])

RECURSIVE Parse(_, _, _)
Parse(name, current, path) ==
  IF name = <<>> THEN Append(path, current)
  ELSE IF name[1] = "\\" /\ Len(name) > 1 /\ name[2] \in {"-", "\\"}
       THEN Parse(SubSeq(name, 3, Len(name)), Append(current, name[2]), path)
  ELSE IF name[1] = "-" THEN Parse(Tail(name), <<>>, Append(path, current))
  ELSE Parse(Tail(name), Append(current, name[1]), path)
ParseRootContainerName(name) == Parse(name, <<>>, <<>>)

(* The ref of a top-level container takes the key as it is; the refs below *)
(* it encode their path.                                                   *)
ContainerName(path) ==
  IF Mergeable /\ Len(path) > 1 THEN BuildRootContainerName(path)
  ELSE IF Mergeable THEN path[1] ELSE path
(* The reader of the whole document encodes each path.                     *)
NameRead(path) == IF Mergeable THEN BuildRootContainerName(path) ELSE path

-----------------------------------------------------------------------------
Below(shape, key) == IF shape.type = "struct" THEN shape.of[key] ELSE shape.of
KeysOf(shape) ==
  CASE shape.type = "struct" -> DOMAIN shape.of
    [] shape.type = "record" -> RecordKeys
    [] OTHER -> {}
RECURSIVE ShapeAt(_, _)
ShapeAt(shape, path) == IF path = <<>> THEN shape ELSE ShapeAt(Below(shape, Head(path)), Tail(path))
RECURSIVE PathsBelow(_)
PathsBelow(shape) == {<<>>} \cup UNION {{<<k>> \o p : p \in PathsBelow(Below(shape, k))} : k \in KeysOf(shape)}
Paths == PathsBelow(Shape) \ {<<>>}
IsValue(path) == ShapeAt(Shape, path).type = "value"
ContainerPaths == {p \in Paths : ~IsValue(p)}

Empty(shape) == IF shape.type = "text" THEN None ELSE <<>>
Content(name, shape) == IF name \in DOMAIN roots THEN roots[name] ELSE Empty(shape)
At(map, key) == IF key \in DOMAIN map THEN map[key] ELSE None

(* reconstructFromFlattened, and the same through the refs: what a         *)
(* container, and everything below it, reads as.                           *)
RECURSIVE ReadAt(_, _)
ReadAt(path, viaRefs) ==
  LET shape == ShapeAt(Shape, path)
      own == Content(IF viaRefs THEN ContainerName(path) ELSE NameRead(path), shape)
      Child(k) == IF Below(shape, k).type = "value" THEN At(own, k) ELSE ReadAt(Append(path, k), viaRefs)
  IN  CASE shape.type = "struct" -> [k \in KeysOf(shape) |-> Child(k)]
        [] shape.type = "record" -> [k \in DOMAIN own |-> Child(k)]
        [] OTHER -> own
ToJSON == [k \in DOMAIN Shape.of |-> ReadAt(<<k>>, FALSE)]
RefsJSON == [k \in DOMAIN Shape.of |-> ReadAt(<<k>>, TRUE)]

-----------------------------------------------------------------------------
Init == roots = <<>> /\ touched = {} /\ segments = None /\ previous = None

Put(held, path, content) ==
  [n \in DOMAIN held \cup {ContainerName(path)} |-> IF n = ContainerName(path) THEN content ELSE held[n]]
PutKey(held, path, key, v) ==
  LET own == IF ContainerName(path) \in DOMAIN held THEN held[ContainerName(path)] ELSE <<>>
  IN  Put(held, path, [k \in DOMAIN own \cup {key} |-> IF k = key THEN v ELSE own[k]])

(* Reaching a container through its parents sets the marker in the map of  *)
(* each.                                                                   *)
RECURSIVE Reached(_, _)
Reached(held, path) ==
  IF Len(path) < 2 THEN held ELSE Reached(PutKey(held, Front(path), Last(path), Marker), Front(path))

(* The root container a change of a container shows at.                    *)
RootOf(path) == IF Mergeable THEN ContainerName(path) ELSE path[1]
Ancestors(path) == {SubSeq(path, 1, n) : n \in 1..Len(path)}
Writes(path, held) ==
  /\ roots' = held
  /\ touched' = touched \cup {RootOf(p) : p \in {p \in Ancestors(path) : \E n \in {ContainerName(p)} :
       n \in DOMAIN held /\ (n \notin DOMAIN roots \/ held[n] # roots[n])}}
  /\ UNCHANGED <<segments, previous>>

SetValue(path, v) ==
  /\ IsValue(path)
  /\ Writes(Front(path), PutKey(Reached(roots, Front(path)), Front(path), Last(path), v))
EditText(path, v) ==
  /\ ShapeAt(Shape, path).type = "text"
  /\ Writes(path, Put(Reached(roots, path), path, v))
Push(path, v) ==
  /\ ShapeAt(Shape, path).type = "list"
  /\ LET items == Content(ContainerName(path), ShapeAt(Shape, path))
     IN  Len(items) < MaxItems /\ Writes(path, Put(Reached(roots, path), path, Append(items, v)))
DeleteKey(path, key) ==
  /\ ShapeAt(Shape, path).type = "record"
  /\ LET own == Content(ContainerName(path), ShapeAt(Shape, path))
     IN  key \in DOMAIN own /\ Writes(path, Put(roots, path, [k \in DOMAIN own \ {key} |-> own[k]]))

-----------------------------------------------------------------------------
(* The path builder: the selectors of a shape.                             *)
Property(k) == [type |-> "property", key |-> k]
Each == [type |-> "each"]
IndexOf(i) == [type |-> "index", index |-> i]
RECURSIVE CreatePathNode(_)
CreatePathNode(shape) ==
  {<<>>} \cup
  CASE shape.type = "struct" -> UNION {{<<Property(k)>> \o s : s \in CreatePathNode(shape.of[k])} : k \in DOMAIN shape.of}
    [] shape.type = "record" -> {<<x>> \o s : x \in {Each} \cup {[type |-> "key", key |-> k] : k \in RecordKeys},
                                              s \in CreatePathNode(shape.of)}
    [] shape.type = "list"   -> {<<x>> : x \in {Each, IndexOf("first"), IndexOf("last")}}
    [] OTHER -> {}
CreatePathBuilder == CreatePathNode(Shape) \ {<<>>}

RECURSIVE EvaluatePath(_, _)
EvaluatePath(value, segs) ==
  IF segs = <<>> THEN value
  ELSE LET x == Head(segs) IN
    CASE x.type \in {"property", "key"} ->
           IF value # None /\ x.key \in DOMAIN value THEN EvaluatePath(value[x.key], Tail(segs)) ELSE None
      [] x.type = "index" ->
           IF value = <<>> THEN None ELSE value[IF x.index = "first" THEN 1 ELSE Len(value)]
      [] x.type = "each" -> IF value = None THEN <<>> ELSE [k \in DOMAIN value |-> EvaluatePath(value[k], Tail(segs))]

(* A mergeable document cannot filter a path that enters a struct or a     *)
(* record: every commit evaluates it.                                      *)
RequiresGlobalSubscription(segs) ==
  Mergeable /\ Len(segs) > 1 /\ Shape.of[segs[1].key].type \notin {"list"}
(* Otherwise Loro matches the JSONPath, which begins at a root container.  *)
MatchesJsonPath(segs) == segs[1].key \in touched

SubscribeToPath(segs) ==
  /\ segments = None
  /\ Mergeable /\ Len(segs) = 1 /\ Shape.of[segs[1].key].type \in {"struct", "record"} => "whole" \in Risks
  /\ segments' = segs /\ previous' = EvaluatePath(ToJSON, segs)
  /\ UNCHANGED <<roots, touched>>

(* A commit tells the subscription, which looks whether its value changed. *)
Commit ==
  /\ touched # {}
  /\ previous' = IF segments # None /\ (RequiresGlobalSubscription(segments) \/ MatchesJsonPath(segments))
                 THEN EvaluatePath(ToJSON, segments) ELSE previous
  /\ touched' = {}
  /\ UNCHANGED <<roots, segments>>

Next ==
  \/ \E p \in Paths, v \in Values : SetValue(p, v) \/ EditText(p, v) \/ Push(p, v)
  \/ \E p \in Paths, k \in RecordKeys : DeleteKey(p, k)
  \/ touched = {} /\ \E segs \in CreatePathBuilder : SubscribeToPath(segs)
  \/ Commit

Spec == Init /\ [][Next]_vars

-----------------------------------------------------------------------------
(* The JSON of the document is what its refs read, and two containers      *)
(* never share a place: a name leads back to its path.                     *)
JsonIsWhole == ToJSON = RefsJSON
NamesAreOwn ==
  /\ \A p, q \in ContainerPaths : ContainerName(p) = ContainerName(q) => p = q
  /\ Mergeable => \A p \in ContainerPaths : ParseRootContainerName(ContainerName(p)) = p

(* Once everything is committed, a subscriber was told the value its path  *)
(* has now.                                                                *)
TellsChanges ==
  segments # None /\ touched = {} => previous = EvaluatePath(ToJSON, segments)
=============================================================================
