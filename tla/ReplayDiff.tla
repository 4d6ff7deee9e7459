----------------------------- MODULE ReplayDiff -----------------------------
(***************************************************************************)
(* replayDiff (packages/change): what a fork of a document did is done     *)
(* again, as local operations, on the document that was forked.  The       *)
(* containers that the fork made are made anew and get other ids, which    *)
(* the diffs of their contents do not have: a map leads from one to the    *)
(* other.                                                                  *)
(***************************************************************************)
EXTENDS Integers, SequencesExt

CONSTANTS
  Keys, Values,
  Kinds,     \* of the containers that edits make: "map", "list", "counter"
  MaxBefore, \* bound: edits before the fork
  MaxEdits,  \* bound: edits of the fork
  Risks      \* "nodes": new tree nodes have data, or other new nodes below;
             \* "order": the diff of a container may precede its parent's

ReplayAssumption == Kinds \subseteq {"map", "list", "counter"} /\ Risks \subseteq {"nodes", "order"}

VARIABLES
  phase,  \* "before", "fork", "replay", "done" or "thrown"
  forked, \* the document when it was forked: [ids -> containers]
  fork,   \* the fork, of which the diff is taken
  doc,    \* the document that the diff is replayed on
  mapped, \* containerMap: of ids of the fork to ids of the document
  todo,   \* containers whose diffs are still to be replayed
  edits

vars == <<phase, forked, fork, doc, mapped, todo, edits>>

-----------------------------------------------------------------------------
(* Root containers, by their ids; what is in one is a value or another     *)
(* container.  The data of a tree node is a map with the id of the node.   *)
RootMap == 1
RootList == 2
RootTree == 3
Top == 0
Copy == 100   \* added to the id of what is made anew

Plain(v) == [is |-> "value", value |-> v]
Ref(id) == [is |-> "container", value |-> id]
IsContainer(v) == v.is = "container"
Empty(kind) == [kind |-> kind, held |-> IF kind = "counter" THEN 0 ELSE <<>>]
Nothing == [id \in 1 .. 3 |-> Empty(<<"map", "list", "tree">>[id])]
Elem(id, v) == [id |-> id, v |-> v]

Under(d, id) ==
  CASE d[id].kind = "map"  -> {d[id].held[k] : k \in DOMAIN d[id].held}
    [] d[id].kind = "list" -> {e.v : e \in Range(d[id].held)}
    [] d[id].kind = "tree" -> {Ref(n) : n \in DOMAIN d[id].held}
    [] OTHER               -> {}
Children(d, id) == {v.value : v \in {w \in Under(d, id) : IsContainer(w)}}
Within(d, ids) == ids \cup UNION {Children(d, id) : id \in ids}
(* The containers that are still in the document: at most four levels.     *)
Live(d) == Within(d, Within(d, Within(d, 1 .. 3)))

-----------------------------------------------------------------------------
(* Edits: with a fresh id for an element, a node or a container.           *)
Fresh == Max(DOMAIN fork) + 1
With(d, id, f) == [d EXCEPT ![id].held = f]
Adding(d, id, c) == [i \in DOMAIN d \cup {id} |-> IF i = id THEN c ELSE d[i]]
Put(f, k, v) == [j \in DOMAIN f \cup {k} |-> IF j = k THEN v ELSE f[j]]
Less(f, k) == [j \in DOMAIN f \ {k} |-> f[j]]

MapEdits(id) ==
  LET of == fork[id].held
  IN  {With(fork, id, Put(of, k, Plain(v))) : k \in Keys, v \in Values}
      \cup {With(fork, id, Less(of, k)) : k \in DOMAIN of}
      \cup {Adding(With(fork, id, Put(of, k, Ref(Fresh))), Fresh, Empty(kind)) : k \in Keys, kind \in Kinds}
ListEdits(id) ==
  LET of == fork[id].held
  IN  {Adding(With(fork, id, InsertAt(of, i, Elem(Fresh, Plain(v)))), Fresh, Empty("none"))
         : i \in 1 .. Len(of) + 1, v \in Values}
      \cup {With(fork, id, RemoveAt(of, i)) : i \in DOMAIN of}
      \cup {Adding(With(fork, id, InsertAt(of, i, Elem(Fresh, Ref(Fresh)))), Fresh, Empty(kind))
              : i \in 1 .. Len(of) + 1, kind \in Kinds}
CounterEdits(id) == {With(fork, id, fork[id].held + by) : by \in {-1, 1}}
Old(n) == phase = "before" \/ "nodes" \in Risks \/ n \in DOMAIN forked
Leaves(of) == {n \in DOMAIN of : \A m \in DOMAIN of : of[m] # n}
TreeEdits(id) ==
  LET of == fork[id].held
  IN  {Adding(With(fork, id, Put(of, Fresh, p)), Fresh, Empty("map")) : p \in {Top} \cup {n \in DOMAIN of : Old(n)}}
      \cup {With(fork, id, Less(of, n)) : n \in Leaves(of)}
      \cup {With(fork, id, Put(of, n, p)) : n \in Leaves(of), p \in {Top} \cup {m \in DOMAIN of : Old(m)}}
Edits(id) ==
  CASE fork[id].kind = "map"     -> IF id \in Children(fork, RootTree) /\ ~Old(id) THEN {} ELSE MapEdits(id)
    [] fork[id].kind = "list"    -> ListEdits(id)
    [] fork[id].kind = "tree"    -> {d \in TreeEdits(id) : \A n \in DOMAIN d[id].held : d[id].held[n] # n}
    [] fork[id].kind = "counter" -> CounterEdits(id)
    [] OTHER                     -> {}

Init ==
  /\ phase = "before" /\ fork = Nothing /\ forked = Nothing /\ doc = Nothing
  /\ mapped = <<>> /\ todo = {} /\ edits = 0

Edit ==
  /\ phase \in {"before", "fork"}
  /\ edits < (IF phase = "before" THEN MaxBefore ELSE MaxEdits)
  /\ edits' = edits + 1
  /\ \E id \in Live(fork) : fork' \in Edits(id)
  /\ UNCHANGED <<phase, forked, doc, mapped, todo>>

Fork ==
  /\ phase = "before"
  /\ phase' = "fork" /\ forked' = fork /\ doc' = fork /\ edits' = 0
  /\ UNCHANGED <<fork, mapped, todo>>

-----------------------------------------------------------------------------
(* doc.diff: of each container that changed, and of all that are new.      *)
Was(id) == IF id \in DOMAIN forked THEN forked[id] ELSE Empty(fork[id].kind)
Changed == {id \in Live(fork) : fork[id].kind # "none" /\ fork[id] # Was(id)}

Diff ==
  /\ phase = "fork"
  /\ phase' = "replay" /\ todo' = Changed
  /\ UNCHANGED <<forked, fork, doc, mapped, edits>>

(* The delta that leads from one list to the other.                        *)
Kept(from, to) == {j \in DOMAIN to : to[j] \in Range(from)}
RunBefore(from, to, at) ==
  LET before == {j \in Kept(from, to) : j < at}
  IN  SubSeq(to, (IF before = {} THEN 0 ELSE Max(before)) + 1, at - 1)
Inserts(run) == IF run = <<>> THEN <<>> ELSE <<[op |-> "insert", values |-> run]>>
OpsAt(from, to, i) ==
  IF from[i] \in Range(to)
    THEN Append(Inserts(RunBefore(from, to, CHOOSE j \in DOMAIN to : to[j] = from[i])), [op |-> "retain", values |-> <<>>])
    ELSE <<[op |-> "delete", values |-> <<>>]>>
Delta(from, to) ==
  FlattenSeq([i \in DOMAIN from |-> OpsAt(from, to, i)]) \o Inserts(RunBefore(from, to, Len(to) + 1))

-----------------------------------------------------------------------------
(* What is inserted: a value, or a new container of the same kind.         *)
Made(v) == IF IsContainer(v) THEN Ref(v.value + Copy) ELSE v
NewOnes(vs) == {v.value : v \in {w \in vs : IsContainer(w)}}
Making(d, ids) == [i \in DOMAIN d \cup {n + Copy : n \in ids} |-> IF i \in DOMAIN d THEN d[i] ELSE Empty(fork[i - Copy].kind)]
Mapping(ids) == [i \in DOMAIN mapped \cup ids |-> IF i \in ids THEN i + Copy ELSE mapped[i]]

ReplayMap(id, at) ==
  LET now == fork[id].held
      set == {k \in DOMAIN now : k \notin DOMAIN Was(id).held \/ now[k] # Was(id).held[k]}
      gone == DOMAIN Was(id).held \ DOMAIN now
      new == NewOnes({now[k] : k \in set})
      of == doc[at].held
  IN  /\ doc' = Making(With(doc, at, [k \in (DOMAIN of \cup set) \ gone |-> IF k \in set THEN Made(now[k]) ELSE of[k]]), new)
      /\ mapped' = Mapping(new)
      /\ UNCHANGED phase

(* The index after each operation, and the list so far.                    *)
Step(r, op) ==
  CASE op.op = "retain" -> [r EXCEPT !.index = @ + 1]
    [] op.op = "delete" -> [r EXCEPT !.list = RemoveAt(@, r.index + 1)]
    [] op.op = "insert" ->
         [index |-> r.index + Len(op.values),
          list |-> SubSeq(r.list, 1, r.index) \o [i \in DOMAIN op.values |-> Elem(op.values[i].id, Made(op.values[i].v))]
                   \o SubSeq(r.list, r.index + 1, Len(r.list))]
ReplayList(id, at) ==
  LET delta == Delta(Was(id).held, fork[id].held)
      new == NewOnes({e.v : e \in Range(FlattenSeq([i \in DOMAIN delta |-> delta[i].values]))})
  IN  /\ doc' = Making(With(doc, at, FoldLeft(Step, [index |-> 0, list |-> doc[at].held], delta).list), new)
      /\ mapped' = Mapping(new)
      /\ UNCHANGED phase

ReplayCounter(id, at) ==
  /\ doc' = With(doc, at, doc[at].held + (fork[id].held - Was(id).held))
  /\ UNCHANGED <<mapped, phase>>

(* A node that is made has an id of its own, which nothing is mapped to;   *)
(* below a parent that the document does not have, it cannot be made.      *)
ReplayTree(id, at) ==
  LET now == fork[id].held
      was == Was(id).held
      new == DOMAIN now \ DOMAIN was
      moved == {n \in DOMAIN now \ new : now[n] # was[n]}
      made == {n + Copy : n \in new}
      stay == DOMAIN doc[at].held \cap DOMAIN now
  IN  IF \E n \in new \cup moved : now[n] \notin {Top} \cup DOMAIN doc[at].held
        THEN phase' = "thrown" /\ UNCHANGED <<doc, mapped>>
        ELSE /\ doc' = Making(With(doc, at, [n \in stay \cup made |->
                                IF n \in made THEN now[n - Copy] ELSE IF n \in moved THEN now[n] ELSE doc[at].held[n]]), new)
             /\ UNCHANGED <<mapped, phase>>

Target(id) == IF id \in DOMAIN mapped THEN mapped[id] ELSE id

(* A diff for a container that there is not (yet) is skipped.              *)
Replay(id) ==
  /\ phase = "replay"
  /\ (\A other \in todo : id \notin Children(fork, other)) \/ "order" \in Risks
  /\ todo' = todo \ {id}
  /\ LET at == Target(id)
     IN  IF at \notin DOMAIN doc THEN UNCHANGED <<doc, mapped, phase>>
         ELSE CASE fork[id].kind = "map"     -> ReplayMap(id, at)
                [] fork[id].kind = "list"    -> ReplayList(id, at)
                [] fork[id].kind = "counter" -> ReplayCounter(id, at)
                [] fork[id].kind = "tree"    -> ReplayTree(id, at)
  /\ UNCHANGED <<forked, fork, edits>>

Done ==
  /\ phase = "replay" /\ todo = {}
  /\ phase' = "done"
  /\ UNCHANGED <<forked, fork, doc, mapped, todo, edits>>

Next == Edit \/ Fork \/ Diff \/ (\E id \in todo : Replay(id)) \/ Done

Spec == Init /\ [][Next]_vars

-----------------------------------------------------------------------------
(* What a container holds, whatever the ids of what is in it.              *)
RECURSIVE Content(_, _)
ValueIn(d, v) == IF IsContainer(v) THEN Content(d, v.value) ELSE <<"value", v.value>>
RECURSIVE Forest(_, _, _)
Forest(d, id, parent) ==
  LET nodes == {n \in DOMAIN d[id].held : d[id].held[n] = parent}
      shown == [n \in nodes |-> <<Content(d, n), Forest(d, id, n)>>]
  IN  [s \in {shown[n] : n \in nodes} |-> Cardinality({n \in nodes : shown[n] = s})]
Content(d, id) ==
  CASE d[id].kind = "map"  -> <<"map", [k \in DOMAIN d[id].held |-> ValueIn(d, d[id].held[k])]>>
    [] d[id].kind = "list" -> <<"list", [i \in DOMAIN d[id].held |-> ValueIn(d, d[id].held[i].v)]>>
    [] d[id].kind = "tree" -> <<"tree", Forest(d, id, Top)>>
    [] OTHER               -> <<"counter", d[id].held>>

(* The document then holds what the fork holds, and the containers that    *)
(* both had are the ones they were: refs to them stay good.                *)
ReplayedIsSource ==
  /\ phase # "thrown"
  /\ phase = "done" =>
       /\ \A id \in 1 .. 3 : Content(doc, id) = Content(fork, id)
       /\ Live(fork) \cap DOMAIN forked \subseteq Live(doc)
=============================================================================
