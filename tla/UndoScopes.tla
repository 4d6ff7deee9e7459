----------------------------- MODULE UndoScopes -----------------------------
(***************************************************************************)
(* Undo by namespaces (packages/hooks-core): useUndoManager takes from the *)
(* registry the UndoManager of a namespace, which leaves out the changes   *)
(* of the namespaces that were registered before it; text fields put their *)
(* namespace on the next commit; the cursor registry knows which element   *)
(* shows a text and where the focus is, and each undo step keeps that for  *)
(* when it is undone.  What a commit writes is told apart from all else.   *)
(***************************************************************************)
EXTENDS Naturals, Sequences, SequencesExt, FiniteSets

CONSTANTS
  Scopes,   \* namespaces
  Elements, Texts,
  TextOf,   \* [Elements -> Texts]
  ScopeOf,  \* [Texts -> Scopes]
  None,
  MaxEdits, \* bound: commits of fields and of the program
  MaxReverts, \* bound: how often something is undone or redone
  Risks     \* "replace": a selection is replaced, which is two commits

UndoScopesAssumption ==
  /\ TextOf \in [Elements -> Texts] /\ ScopeOf \in [Texts -> Scopes]
  /\ None \notin Scopes \cup Texts \cup Elements
  /\ Risks \subseteq {"replace"}

VARIABLES
  order,     \* namespaces as they were registered
  excludes,  \* [Scopes -> excludeOriginPrefixes of its manager]
  undo, redo,\* [Scopes -> sequence of steps] of its manager
  origin,    \* what setNextCommitOrigin left for the next commit
  shown,     \* what was written and is there
  edits,     \* history: by whom each thing was written, in order
  reverts,   \* history: the steps that were reverted, by whose manager
  elements,  \* CursorRegistry: [Texts -> element]
  focusedContainerId,
  mounted, focus

registryVars == <<elements, focusedContainerId, mounted, focus>>
stackVars == <<undo, redo, origin, shown, edits, reverts>>
vars == <<order, excludes, stackVars, registryVars>>

Registered == Range(order)
Step(added, removed, at) == [added |-> added, removed |-> removed, at |-> at]

-----------------------------------------------------------------------------
Init ==
  /\ order = <<>> /\ excludes = [n \in Scopes |-> {}]
  /\ undo = [n \in Scopes |-> <<>>] /\ redo = [n \in Scopes |-> <<>>]
  /\ origin = None /\ shown = {} /\ edits = <<>> /\ reverts = <<>>
  /\ elements = [t \in Texts |-> None] /\ focusedContainerId = None
  /\ mounted = {} /\ focus = None

(* Bug: a manager takes the commits of every namespace for its own.        *)
ExcludesNone(n) == {}

(* A namespace's manager leaves out those that are registered so far.      *)
CalculateExcludePrefixes(n) == Registered \ {n}
GetOrCreate(n) ==
  /\ n \notin Registered
  /\ excludes' = [excludes EXCEPT ![n] = CalculateExcludePrefixes(n)]
  /\ order' = Append(order, n)

(* The hook of a namespace takes its manager from the registry.            *)
UseUndoManager(n) == GetOrCreate(n) /\ UNCHANGED <<stackVars, registryVars>>

(* Elements come and go, and the focus with them or by the user.           *)
Register(e) ==
  /\ e \notin mounted
  /\ mounted' = mounted \cup {e}
  /\ elements' = [elements EXCEPT ![TextOf[e]] = e]
  /\ UNCHANGED <<order, excludes, stackVars, focusedContainerId, focus>>

Unregister(e) ==
  LET t == TextOf[e] IN
  /\ e \in mounted
  /\ mounted' = mounted \ {e}
  /\ elements' = [elements EXCEPT ![t] = None]
  /\ focusedContainerId' = IF focusedContainerId = t THEN None ELSE focusedContainerId
  /\ focus' = IF focus = e THEN None ELSE focus
  /\ UNCHANGED <<order, excludes, stackVars>>

GetFocused ==
  IF focusedContainerId = None THEN None ELSE elements[focusedContainerId]

(* The blur of an element and the focus of the next.                       *)
Blurred == IF focus # None /\ GetFocused = focus THEN None ELSE focusedContainerId
SetFocused(e) ==
  /\ e # focus /\ e \in mounted \cup {None}
  /\ focusedContainerId' = IF e = None THEN Blurred ELSE TextOf[e]
  /\ focus' = e
  /\ UNCHANGED <<order, excludes, stackVars, elements, mounted>>

-----------------------------------------------------------------------------
(* onPush: where the cursor is.                                            *)
OnPush == IF GetFocused = None THEN None ELSE focusedContainerId

(* What a manager records of a commit with that origin: a step of its own, *)
(* or more of the last (mergeInterval).                                    *)
Net(step, s) == Step((step.added \ s.removed) \cup (s.added \ step.removed),
                     (step.removed \ s.added) \cup (s.removed \ step.added), step.at)
Records(n, tag) == n \in Registered /\ tag \notin excludes[n]
Recorded(managers, commits, merged) ==
  LET Push(stack, s) ==
        IF merged /\ stack # <<>> THEN Front(stack) \o <<Net(Last(stack), s)>> ELSE Append(stack, s)
  IN [n \in Scopes |->
        FoldLeft(LAMBDA stack, c : IF n \in managers /\ Records(n, c.tag)
                                     THEN Push(stack, c.step) ELSE stack, undo[n], commits)]

(* Commits after which the first has the origin left over or now set, the  *)
(* others have none.                                                       *)
Commits(who, tag, count, merged) ==
  LET made == [i \in 1 .. count |->
                 [tag |-> IF i = 1 THEN tag ELSE None,
                  step |-> Step({Len(edits) + i}, {}, OnPush)]]
  IN /\ Len(edits) + count <= MaxEdits
     /\ undo' = Recorded(Scopes, made, merged)
     /\ redo' = [n \in Scopes |-> IF undo'[n] # undo[n] THEN <<>> ELSE redo[n]]
     /\ shown' = shown \cup {Len(edits) + i : i \in 1 .. count}
     /\ edits' = edits \o [i \in 1 .. count |-> who]
     /\ origin' = IF count = 0 THEN tag ELSE None
     /\ UNCHANGED <<order, excludes, reverts, registryVars>>

(* A field of a namespace handles an input: each operation of the text ref *)
(* commits by itself.                                                      *)
Input(e, count, merged) ==
  /\ e = focus /\ e # None
  /\ count = 2 => "replace" \in Risks
  /\ Commits(ScopeOf[TextOf[e]], ScopeOf[TextOf[e]], count, merged)

(* The program changes something that is in no namespace.                  *)
ProgramChange(merged) == Commits(None, origin, 1, merged)

(* undo() of a manager: the last step is reverted; to other managers that  *)
(* is a commit like any.  onPop puts the cursor back.                      *)
Restored(at) ==
  LET e == IF at = None THEN None ELSE elements[at]
  IN IF e = None THEN UNCHANGED <<focus, focusedContainerId>>
     ELSE focus' = e /\ focusedContainerId' = at

Reverted(n, s) ==
  LET gone == s.added \cap shown
      back == s.removed \ shown
  IN /\ n \in Registered
     /\ Len(reverts) < MaxReverts
     /\ reverts' = Append(reverts, [by |-> n, what |-> gone \cup back])
     /\ shown' = (shown \ gone) \cup back
     /\ Restored(s.at)
     /\ UNCHANGED <<order, excludes, origin, edits, elements, mounted>>
Opposite(s) == Step(s.removed \ shown, s.added \cap shown, OnPush)
SeenByOthers(n, s) ==
  Recorded(Scopes \ {n}, <<[tag |-> None, step |-> Opposite(s)]>>, FALSE)

Undo(n) ==
  LET s == Last(undo[n]) IN
  /\ undo[n] # <<>> /\ Reverted(n, s)
  /\ undo' = [SeenByOthers(n, s) EXCEPT ![n] = Front(@)]
  /\ redo' = [m \in Scopes |-> IF m = n THEN Append(redo[n], Opposite(s))
                               ELSE IF m \in Registered THEN <<>> ELSE redo[m]]

Redo(n) ==
  LET s == Last(redo[n]) IN
  /\ redo[n] # <<>> /\ Reverted(n, s)
  /\ undo' = [SeenByOthers(n, s) EXCEPT ![n] = Append(@, Opposite(s))]
  /\ redo' = [m \in Scopes |-> IF m = n THEN Front(redo[n])
                               ELSE IF m \in Registered THEN <<>> ELSE redo[m]]

Next ==
  \/ \E n \in Scopes : UseUndoManager(n)
  \/ \E n \in Scopes : Undo(n)
  \/ \E n \in Scopes : Redo(n)
  \/ \E e \in Elements : Register(e)
  \/ \E e \in Elements : Unregister(e)
  \/ \E e \in Elements \cup {None} : SetFocused(e)
  \/ \E e \in Elements, count \in 0 .. 2, merged \in BOOLEAN :
       order # <<>> /\ Len(order) = Cardinality(Scopes) /\ Input(e, count, merged)
  \/ \E merged \in BOOLEAN : Len(order) = Cardinality(Scopes) /\ ProgramChange(merged)

Spec == Init /\ [][Next]_vars

-----------------------------------------------------------------------------
(* Undo and redo of a namespace take away or bring back what was written   *)
(* in it, in none, or in a namespace that was registered after it; and     *)
(* what another manager reverted before, since that is a commit of none    *)
(* (undo-manager-registry.ts:134).                                         *)
After(n) == {m \in Registered : \A i, j \in DOMAIN order :
               order[i] = n /\ order[j] = m => i < j}
UndoIsOwn ==
  [][reverts' # reverts =>
       LET n == Last(reverts').by
       IN \A i \in (shown \ shown') \cup (shown' \ shown) :
            \/ edits[i] \in {n, None} \cup After(n)
            \/ \E r \in DOMAIN reverts : reverts[r].by # n /\ i \in reverts[r].what]_vars

(* README.md:315: "Undo in title field won't affect body field".           *)
UndoStaysInField ==
  \A r \in DOMAIN reverts : \A i \in reverts[r].what :
    edits[i] \in {reverts[r].by, None}

(* The registry has mounted elements only, and the one it takes to have    *)
(* the focus has it: an undone step puts the cursor where it was.          *)
RegistryIsReal ==
  /\ \A t \in Texts : elements[t] # None => elements[t] \in mounted /\ TextOf[elements[t]] = t
  /\ GetFocused \in {None, focus}
=============================================================================
