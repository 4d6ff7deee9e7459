------------------------------ MODULE JsonPatch ------------------------------
(***************************************************************************)
(* A JSON patch applied to a typed document (packages/change,              *)
(* json-patch.ts): one change() runs the operations in turn on a draft;    *)
(* an operation that throws ends it, and what the operations before it did *)
(* stays in the document.  The document here has a list of values, the     *)
(* lists in a movable list of lists, and a record of values.               *)
(***************************************************************************)
EXTENDS Naturals, FiniteSets, SequencesExt

CONSTANTS
  Values,
  None,
  Keys,   \* of the record
  Rows,   \* how many lists the movable list has
  MaxLen, \* of a list in a patch's path
  MaxOps, \* operations in a patch
  Risks   \* "late": an operation after the first fails;
          \* "missing": a key is removed, replaced, moved or copied that is not there;
          \* "rows": a value is moved within a list of the movable list;
          \* "scoped": the patch has a path prefix and moves or copies

JsonPatchAssumption ==
  /\ None \notin Values /\ {Rows, MaxLen, MaxOps} \subseteq Nat
  /\ Risks \subseteq {"late", "missing", "rows", "scoped"}

VARIABLES
  doc,    \* [list, rows, rec]
  start,  \* the document when the patch began
  patch,  \* the operations done, and to do
  done,   \* how many are done
  scoped, \* the paths are relative to a prefix
  phase   \* "idle", "runs", "failed"

vars == <<doc, start, patch, done, scoped, phase>>

(* Where a path leads: an index of the list, of a row, or a key of the     *)
(* record.                                                                 *)
List == 0
Rec == Rows + 1
Slots == [at : {List} \cup 1..Rows, key : 1..MaxLen] \cup [at : {Rec}, key : Keys]
Operations ==
  [op : {"add", "replace", "test"}, path : Slots, value : Values]
    \cup [op : {"remove"}, path : Slots]
    \cup [op : {"move", "copy"}, path : Slots, from : Slots]

IsList(slot) == slot.at # Rec
ListOf(d, slot) == IF slot.at = List THEN d.list ELSE d.rows[slot.at]
WithList(d, slot, s) == IF slot.at = List THEN [d EXCEPT !.list = s] ELSE [d EXCEPT !.rows[slot.at] = s]
Failed == [ok |-> FALSE]
Done(d) == [ok |-> TRUE, doc |-> d]

-----------------------------------------------------------------------------
(* navigateToPath and getValueAtPath: what is missing reads as undefined.  *)
GetValueAtPath(d, slot) ==
  IF ~IsList(slot) THEN d.rec[slot.key]
  ELSE IF slot.key \in DOMAIN ListOf(d, slot) THEN ListOf(d, slot)[slot.key] ELSE None

HandleAdd(d, slot, v) ==
  IF ~IsList(slot) THEN Done([d EXCEPT !.rec[slot.key] = v])
  ELSE IF slot.key > Len(ListOf(d, slot)) + 1 THEN Failed
  ELSE Done(WithList(d, slot, InsertAt(ListOf(d, slot), slot.key, v)))

(* A key that is not there can be deleted; an index cannot.                *)
HandleRemove(d, slot) ==
  IF ~IsList(slot) THEN Done([d EXCEPT !.rec[slot.key] = None])
  ELSE IF slot.key \notin DOMAIN ListOf(d, slot) THEN Failed
  ELSE Done(WithList(d, slot, RemoveAt(ListOf(d, slot), slot.key)))

HandleReplace(d, slot, v) ==
  IF ~IsList(slot) THEN HandleAdd(d, slot, v)
  ELSE LET gone == HandleRemove(d, slot)
       IN  IF gone.ok THEN HandleAdd(gone.doc, slot, v) ELSE Failed

(* Within one list the code asks what holds that list for a move(): only a *)
(* movable list of lists has one, which then moves the lists.  Otherwise   *)
(* the value is taken, removed and added.                                  *)
HandleMove(d, from, slot) ==
  LET value == GetValueAtPath(d, from)
      gone == HandleRemove(d, from)
  IN  IF from.at = slot.at /\ slot.at \in 1..Rows
      THEN IF {from.key, slot.key} \subseteq 1..Rows
           THEN Done([d EXCEPT !.rows = InsertAt(RemoveAt(@, from.key), slot.key, @[from.key])])
           ELSE Failed
      ELSE IF gone.ok THEN HandleAdd(gone.doc, slot, value) ELSE Failed

HandleCopy(d, from, slot) == HandleAdd(d, slot, GetValueAtPath(d, from))
HandleTest(d, slot, v) == IF GetValueAtPath(d, slot) = v THEN Done(d) ELSE Failed

(* The prefix goes before `path`, not before `from`, which then leads      *)
(* nowhere.                                                                *)
Applied(d, o) ==
  CASE o.op = "add"     -> HandleAdd(d, o.path, o.value)
    [] o.op = "remove"  -> HandleRemove(d, o.path)
    [] o.op = "replace" -> HandleReplace(d, o.path, o.value)
    [] o.op = "test"    -> HandleTest(d, o.path, o.value)
    [] scoped           -> Failed
    [] o.op = "move"    -> HandleMove(d, o.from, o.path)
    [] o.op = "copy"    -> HandleCopy(d, o.from, o.path)

-----------------------------------------------------------------------------
Init ==
  /\ doc = [list |-> <<>>, rows |-> [r \in 1..Rows |-> <<>>], rec |-> [k \in Keys |-> None]]
  /\ start = doc /\ patch = <<>> /\ done = 0 /\ scoped = FALSE /\ phase = "idle"

(* The application edits the document between two patches.                 *)
Edit ==
  /\ phase = "idle" /\ patch = <<>>
  /\ \/ \E v \in Values, slot \in [at : {List} \cup 1..Rows, key : {1}] :
          /\ Len(ListOf(doc, slot)) < MaxLen
          /\ doc' = WithList(doc, slot, Append(ListOf(doc, slot), v))
     \/ \E v \in Values, k \in Keys : doc' = [doc EXCEPT !.rec[k] = v]
  /\ UNCHANGED <<start, patch, done, scoped, phase>>

ApplyPatch(prefixed) ==
  /\ phase = "idle" /\ patch = <<>>
  /\ start' = doc /\ scoped' = prefixed /\ phase' = "runs"
  /\ UNCHANGED <<doc, patch, done>>

Reads(o) == IF o.op \in {"move", "copy"} THEN {o.from} ELSE IF o.op \in {"remove", "replace"} THEN {o.path} ELSE {}
Trusted(o) ==
  /\ (\E slot \in Reads(o) : GetValueAtPath(doc, slot) = None) => "missing" \in Risks
  /\ o.op = "move" /\ o.from.at = o.path.at /\ o.path.at \in 1..Rows => "rows" \in Risks
  /\ o.op \in {"move", "copy"} /\ scoped => "scoped" \in Risks
  /\ done > 0 /\ ~Applied(doc, o).ok => "late" \in Risks

ApplyOperation(o) ==
  /\ phase = "runs" /\ done < MaxOps /\ Trusted(o)
  /\ patch' = Append(patch, o)
  /\ LET result == Applied(doc, o)
     IN  IF result.ok THEN doc' = result.doc /\ done' = done + 1 /\ UNCHANGED phase
         ELSE phase' = "failed" /\ UNCHANGED <<doc, done>>
  /\ UNCHANGED <<start, scoped>>

Commit == phase = "runs" /\ phase' = "idle" /\ UNCHANGED <<doc, start, patch, done, scoped>>

Next ==
  \/ Edit \/ Commit
  \/ \E prefixed \in BOOLEAN : ApplyPatch(prefixed)
  \/ phase = "runs" /\ \E o \in Operations : ApplyOperation(o)

Spec == Init /\ [][Next]_vars

-----------------------------------------------------------------------------
(* RFC 6902, over the same documents: a location is there or it is not,    *)
(* "move" is a removal and an addition, a missing location is an error.    *)
There(d, slot) == IF IsList(slot) THEN slot.key \in DOMAIN ListOf(d, slot) ELSE d.rec[slot.key] # None
With(d, slot, v) ==
  IF IsList(slot) THEN WithList(d, slot, [i \in 1..Len(ListOf(d, slot)) + 1 |->
    IF i = slot.key THEN v ELSE ListOf(d, slot)[IF i < slot.key THEN i ELSE i - 1]])
  ELSE [d EXCEPT !.rec[slot.key] = v]
Without(d, slot) ==
  IF IsList(slot) THEN WithList(d, slot, [i \in 1..Len(ListOf(d, slot)) - 1 |->
    ListOf(d, slot)[IF i < slot.key THEN i ELSE i + 1]])
  ELSE [d EXCEPT !.rec[slot.key] = None]
Room(d, slot) == IsList(slot) => slot.key <= Len(ListOf(d, slot)) + 1

Succeeds(d, o) ==
  /\ o.op \in {"add", "copy"} => Room(d, o.path)
  /\ o.op \in {"remove", "replace", "test"} => There(d, o.path)
  /\ o.op = "test" => GetValueAtPath(d, o.path) = o.value
  /\ o.op \in {"move", "copy"} => There(d, o.from)
  /\ o.op = "move" => Room(Without(d, o.from), o.path)
Result(d, o) ==
  CASE o.op = "add" -> With(d, o.path, o.value)
    [] o.op = "remove" -> Without(d, o.path)
    [] o.op = "replace" -> With(Without(d, o.path), o.path, o.value)
    [] o.op = "test" -> d
    [] o.op = "move" -> With(Without(d, o.from), o.path, GetValueAtPath(d, o.from))
    [] o.op = "copy" -> With(d, o.path, GetValueAtPath(d, o.from))
RECURSIVE Patched(_, _)
Patched(d, ops) == IF ops = <<>> THEN d ELSE Patched(Result(d, Head(ops)), Tail(ops))

(* The operations of a patch that were applied are those RFC 6902 applies, *)
(* with the results it says, and the patch failed at one it has fail.      *)
PatchIsStandard ==
  LET before(i) == Patched(start, SubSeq(patch, 1, i - 1))
  IN  /\ \A i \in 1..done : Succeeds(before(i), patch[i])
      /\ patch # <<>> => doc = before(done + 1)
      /\ phase = "failed" => ~Succeeds(doc, Last(patch))

(* A patch that fails leaves the document as it was.                       *)
FailedIsUndone == phase = "failed" => doc = start
=============================================================================
