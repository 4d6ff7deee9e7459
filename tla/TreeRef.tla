------------------------------ MODULE TreeRef ------------------------------
(***************************************************************************)
(* A tree container read and changed through TreeRef and TreeNodeRef       *)
(* (packages/change).  Loro keeps the forest: a deleted node stays known,  *)
(* its descendants stay below it, and only its flag and that of its        *)
(* descendants says that it is gone.  Another peer's changes arrive        *)
(* between two calls.  The refs made outside change() commit what they     *)
(* write; those made inside do not, also when the application keeps them.  *)
(***************************************************************************)
EXTENDS Naturals, FiniteSets, SequencesExt

CONSTANTS
  Nodes,
  Fields, \* of the data shape: containers with a placeholder
  Top,    \* above the roots
  Gone,   \* above the deleted
  Risks   \* "partial": a node is created with some of its data only;
          \* "escaped": a ref of the draft is used after change()

TreeRefAssumption ==
  Top \notin Nodes /\ Gone \notin Nodes /\ Top # Gone /\ Risks \subseteq {"partial", "escaped"}

VARIABLES
  kids,      \* what is below each node, the top and the deleted, in order
  data,      \* the fields the map of each node holds
  nodeCache, \* the nodes the tree ref has made refs for
  inside,    \* inside change()
  kept,      \* nodes whose refs were made inside change()
  pending    \* changes that are not committed

vars == <<kids, data, nodeCache, inside, kept, pending>>

Created == UNION {ToSet(kids[p]) : p \in DOMAIN kids}
Parent(n) == CHOOSE p \in DOMAIN kids : n \in ToSet(kids[p])
RECURSIVE Above(_)
Above(n) == IF n \in {Top, Gone} THEN {n} ELSE {n} \cup Above(Parent(n))
IsDeleted(n) == Gone \in Above(n)
Living == {n \in Created : ~IsDeleted(n)}

Init ==
  /\ kids = [p \in Nodes \cup {Top, Gone} |-> <<>>]
  /\ data = [n \in Nodes |-> {}]
  /\ nodeCache = {} /\ inside = FALSE /\ kept = {} /\ pending = FALSE

-----------------------------------------------------------------------------
(* change() makes its own tree ref; it commits at its end.                 *)
Begin == ~inside /\ inside' = TRUE /\ UNCHANGED <<kids, data, nodeCache, kept, pending>>
End ==
  /\ inside
  /\ inside' = FALSE /\ pending' = FALSE
  /\ UNCHANGED <<kids, data, nodeCache, kept>>

(* Which refs the application works with: those of the draft inside        *)
(* change(), one it kept from there, or those of the document.             *)
ViaDraft(n) == inside \/ (n \in kept /\ "escaped" \in Risks)
CommitIfAuto(n) == pending' = (pending \/ ViaDraft(n)) /\ UNCHANGED inside

GetOrCreateNodeRef(ns) ==
  IF inside THEN kept' = kept \cup ns /\ UNCHANGED nodeCache
  ELSE nodeCache' = nodeCache \cup ns /\ UNCHANGED kept

Detached(n) == [p \in DOMAIN kids |-> SelectSeq(kids[p], LAMBDA m : m # n)]
PlacedAt(ks, n, p, i) == [ks EXCEPT ![p] = InsertAt(@, i, n)]

(* createNode of a node, and of the tree, which appends a root.            *)
Placed(n, parent, index, initial) ==
  /\ n \in Nodes \ Created
  /\ initial # Fields => "partial" \in Risks
  /\ kids' = PlacedAt(kids, n, parent, index)
  /\ data' = [data EXCEPT ![n] = initial]
  /\ GetOrCreateNodeRef({n})
CreateChild(n, parent, index, initial) ==
  /\ parent \in Living /\ index \in 1..Len(kids[parent]) + 1
  /\ Placed(n, parent, index, initial) /\ CommitIfAuto(parent)
CreateNode(n, initial) ==
  Placed(n, Top, Len(kids[Top]) + 1, initial) /\ CommitIfAuto(Top)

(* delete: the subtree hangs below the deleted node; only the node itself  *)
(* leaves the cache.                                                       *)
Delete(n) ==
  /\ n \in Living
  /\ kids' = [Detached(n) EXCEPT ![Gone] = Append(@, n)]
  /\ nodeCache' = IF inside THEN nodeCache ELSE nodeCache \ {n}
  /\ CommitIfAuto(n)
  /\ UNCHANGED <<data, kept>>

(* move: Loro refuses a move below the node itself.                        *)
Move(n, parent, index) ==
  /\ n \in Living /\ parent \in Living \cup {Top} /\ n \notin Above(parent)
  /\ index \in 1..Len(Detached(n)[parent]) + 1
  /\ kids' = PlacedAt(Detached(n), n, parent, index)
  /\ CommitIfAuto(n)
  /\ UNCHANGED <<data, nodeCache, kept>>

MoveBeside(n, sibling, after) ==
  /\ {n, sibling} \subseteq Living /\ n \notin Above(sibling)
  /\ LET p == Parent(sibling)
         i == CHOOSE k \in DOMAIN Detached(n)[p] : Detached(n)[p][k] = sibling
     IN  kids' = PlacedAt(Detached(n), n, p, IF after THEN i + 1 ELSE i)
  /\ CommitIfAuto(n)
  /\ UNCHANGED <<data, nodeCache, kept>>
MoveAfter(n, sibling) == MoveBeside(n, sibling, TRUE)
MoveBefore(n, sibling) == MoveBeside(n, sibling, FALSE)

(* The data of a node, through its struct ref.                             *)
(* getOrCreateDataRef: a node's data is written as its ref is.             *)
WriteData(n, fields) == data' = [data EXCEPT ![n] = fields] /\ CommitIfAuto(n)
Write(n, f) ==
  /\ n \in Living /\ WriteData(n, data[n] \cup {f})
  /\ UNCHANGED <<kids, nodeCache, kept>>

-----------------------------------------------------------------------------
(* What the readers return.                                                *)
Has(n) == n \in Created
AllNodes(includeDeleted) == IF includeDeleted THEN Created ELSE Living
Roots == kids[Top]
GetNodeByID(n) == n \in nodeCache \/ Has(n)

(* A walk of the forest; Loro's toJSON leaves the deleted out.             *)
RECURSIVE Walk(_)
Walk(p) == FlattenSeq([i \in DOMAIN kids[p] |-> <<kids[p][i]>> \o Walk(kids[p][i])])
Rows(Row(_)) == [i \in DOMAIN Walk(Top) |-> Row(Walk(Top)[i])]
Index(n) == CHOOSE i \in DOMAIN kids[Parent(n)] : kids[Parent(n)][i] = n
RowOf(n, fields) == [id |-> n, parent |-> Parent(n), index |-> Index(n), fields |-> fields]

(* toJSON and toArray give the map as it is; doc.toJSON() and the toJSON   *)
(* of a node fill it with the placeholders.                                *)
ToArray == LET Row(n) == RowOf(n, data[n]) IN Rows(Row)
TransformNativeJson == ToArray
TransformTreeNodes == LET Row(n) == RowOf(n, data[n] \cup Fields) IN Rows(Row)
NodeToJSON(n) == RowOf(n, data[n] \cup Fields)

-----------------------------------------------------------------------------
(* Another peer's committed change arrives.                                *)
Import ==
  /\ ~inside
  /\ \/ \E n \in Nodes \ Created, p \in Living \cup {Top} :
          /\ kids' = [kids EXCEPT ![p] = Append(@, n)]
          /\ data' = [data EXCEPT ![n] = Fields]
     \/ \E n \in Living :
          /\ kids' = [Detached(n) EXCEPT ![Gone] = Append(@, n)]
          /\ UNCHANGED data
     \/ \E n \in Living : \E p \in (Living \cup {Top}) \ {Parent(n)} :
          /\ n \notin Above(p)
          /\ kids' = PlacedAt(Detached(n), n, p, 1)
          /\ UNCHANGED data
  /\ pending' = FALSE
  /\ UNCHANGED <<nodeCache, inside, kept>>

Find(n) == GetNodeByID(n) /\ GetOrCreateNodeRef({n}) /\ UNCHANGED <<kids, data, inside, pending>>

Next ==
  \/ Begin \/ End \/ Import
  \/ \E n \in Nodes :
       \/ \E fs \in SUBSET Fields :
            CreateNode(n, fs) \/ \E p \in Nodes, i \in 1..Cardinality(Nodes) : CreateChild(n, p, i, fs)
       \/ \E p \in Nodes \cup {Top}, i \in 1..Cardinality(Nodes) : Move(n, p, i)
       \/ \E m \in Nodes \ {n} : MoveAfter(n, m) \/ MoveBefore(n, m)
       \/ \E f \in Fields : Write(n, f)
       \/ Delete(n) \/ Find(n)

Spec == Init /\ [][Next]_vars

-----------------------------------------------------------------------------
(* The flat array, the nested JSON of the document, the refs of the nodes  *)
(* and nodes() are one tree: the same nodes, once each, a parent before    *)
(* its children, with the same place and the same data.                    *)
ReadersAgree ==
  /\ {ToArray[i].id : i \in DOMAIN ToArray} = AllNodes(FALSE)
  /\ Len(ToArray) = Cardinality(AllNodes(FALSE))
  /\ ToArray = TransformTreeNodes
  /\ \A i \in DOMAIN ToArray : LET row == ToArray[i] IN
       /\ row = NodeToJSON(row.id)
       /\ row.parent # Top => \E j \in 1..i - 1 : ToArray[j].id = row.parent

(* Outside change() everything a ref wrote is committed, so that the       *)
(* subscribers and the peers get it.                                       *)
AllCommitted == ~inside => ~pending
=============================================================================
