----------------------------- MODULE MCPackages -----------------------------
(***************************************************************************)
(* The packages an application uses a Repo through, of which each behaviour *)
(* is about one: a lens and a chain of two, a text field, undo by namespaces, *)
(* the store behind a hook, typed records, lists, structs and trees on     *)
(* replicas that merge, shapes that are upgraded, handles, JSON patches,   *)
(* flat container names, and a diff replayed on a document.                *)
(***************************************************************************)
EXTENDS Naturals, Sequences, FiniteSets, TLC

CONSTANTS l1, l2, root, c1, c2, c3, r1, r2, n1, n2, e1, e2, t1, t2,
          s1, s2, k1, i1, i2, i3, d, me, other, top, away, None, null

VARIABLES
  package,  \* what a behaviour is about
  soleLog, soleRemote, soleSeenWorld, soleSeenView, soleProcessing, soleQueue,
  soleDisposed, soleTodo, soleThrough,
  chainLog, chainRemote, chainSeenWorld, chainSeenView, chainProcessing,
  chainQueue, chainDisposed, chainTodo, chainThrough,
  text, chars, fieldMounted, fieldSubscribed, fieldValue, sel, ime,
  fieldKnown, composing,
  order, excludes, undo, redo, origin, undoShown, undoEdits, reverts,
  elements, focusedContainerId, undoMounted, focus,
  changes, viewStore, viewCache, viewSubscribed, viewShown, viewDisposed,
  mode, meta, entry, writes, cached,
  items, itemCache, itemsInside,
  plainValue, before,
  shape, stored, upgraded,
  handlesDoc, made, handlesCache, handlesStore, external, handlesKnown,
  handlesPrevious, refused, asked,
  kids, data, nodeCache, treeInside, kept, pending,
  patchDoc, start, patch, done, scoped, patchPhase,
  roots, touched, segments, flatPrevious,
  replayedPhase, forked, fork, replayedDoc, mapped, replayedTodo,
  replayedEdits

soleVars == <<soleLog, soleRemote, soleSeenWorld, soleSeenView,
              soleProcessing, soleQueue, soleDisposed, soleTodo,
              soleThrough>>
chainVars == <<chainLog, chainRemote, chainSeenWorld, chainSeenView,
               chainProcessing, chainQueue, chainDisposed,
               chainTodo, chainThrough>>
fieldVars == <<text, chars, fieldMounted, fieldSubscribed, fieldValue, sel,
               ime, fieldKnown, composing>>
undoVars == <<order, excludes, undo, redo, origin, undoShown, undoEdits,
              reverts, elements, focusedContainerId,
              undoMounted, focus>>
viewVars == <<changes, viewStore, viewCache, viewSubscribed, viewShown,
              viewDisposed>>
recVars == <<mode, meta, entry, writes, cached>>
itemsVars == <<items, itemCache, itemsInside>>
plainVars == <<plainValue, before>>
typedVars == <<shape, stored, upgraded>>
handlesVars == <<handlesDoc, made, handlesCache, handlesStore, external,
                 handlesKnown, handlesPrevious, refused,
                 asked>>
treeVars == <<kids, data, nodeCache, treeInside, kept, pending>>
patchVars == <<patchDoc, start, patch, done, scoped, patchPhase>>
flatVars == <<roots, touched, segments, flatPrevious>>
replayedVars == <<replayedPhase, forked, fork, replayedDoc, mapped,
                  replayedTodo, replayedEdits>>
vars == <<package, soleVars, chainVars, fieldVars, undoVars, viewVars, recVars,
                  itemsVars, plainVars, typedVars,
                  handlesVars, treeVars, patchVars,
                  flatVars, replayedVars>>

On(x) == package = x

Text == [type |-> "text"]
Value == [type |-> "value"]
Struct(fields) == [type |-> "struct", of |-> fields]
(* A struct with a hyphen in a key, a record of structs, a list.           *)
Nested == <<"h", "-">>
Document ==
  Struct(<<"a">> :> Struct(Nested :> Text @@ <<"b">> :> Value)
           @@ <<"b">> :> [type |-> "record", of |-> Struct(<<"b">> :> Value)]
           @@ <<"l">> :> [type |-> "list", of |-> Value])

(* Shapes for one key, those of shape.ts that nest in each other.          *)
Sh == INSTANCE Shapes WITH
  Schemas <- <<>>, Risks <- {}, shape <- shape, stored <- stored, upgraded <- upgraded
Point == [a |-> Sh!String, b |-> Sh!Number]
Variants == Sh!Tagged(<<[a |-> Sh!String], [b |-> Sh!Number]>>)
Upgradable ==
  <<Sh!MovableList(Sh!StructOf([a |-> Sh!Text, l |-> Sh!List(Sh!String)])),
    Sh!Record(Sh!StructOf(Point)),
    Sh!StructOf([a |-> Sh!Text, f |-> Sh!Boolean, d |-> Sh!Bytes,
                 v |-> Sh!VStruct(Point), n |-> Sh!Nullable(Sh!String)]),
    Sh!VStruct(Point), Sh!Nullable(Sh!VStruct(Point)), Sh!Array(Sh!VStruct(Point)),
    Sh!VRecord(Sh!Number), Variants,
    Sh!StructOf([u |-> Variants, c |-> Sh!Counter, x |-> Sh!AnyShape]),
    Sh!List(Variants)>>

-----------------------------------------------------------------------------
Sole == INSTANCE Lens WITH
  Lenses <- {l1}, Root <- root, World <- l1 :> root,
  Listeners <- root :> <<l1>> @@ l1 :> <<l1>>, Remotes <- {r1, r2},
  Changes <- {c1, c2, c3}, Trusted <- l1 :> {"remote", root},
  Barred <- {r1}, Reacting <- {l1}, log <- soleLog, remote <- soleRemote,
  seenWorld <- soleSeenWorld, seenView <- soleSeenView,
  processing <- soleProcessing, queue <- soleQueue,
  disposed <- soleDisposed, todo <- soleTodo, through <- soleThrough

Chain == INSTANCE Lens WITH
  Lenses <- {l1, l2}, Root <- root, World <- l1 :> root @@ l2 :> l1,
  Listeners <- root :> <<l1>> @@ l1 :> <<l1, l2>> @@ l2 :> <<l2>>,
  Remotes <- {r1}, Changes <- {c1, c2}, Trusted <- l1 :> {} @@ l2 :> {},
  Barred <- {}, Reacting <- {}, log <- chainLog, remote <- chainRemote,
  seenWorld <- chainSeenWorld, seenView <- chainSeenView,
  processing <- chainProcessing, queue <- chainQueue,
  disposed <- chainDisposed, todo <- chainTodo, through <- chainThrough

Field == INSTANCE TextField WITH
  Text0 <- <<1, 2>>, MaxChars <- 4,
  Keys <- {"insertText", "insertLineBreak", "deleteContentBackward",
           "deleteContentForward", "deleteByCut", "deleteWord"},
  Risks <- {}, mounted <- fieldMounted, subscribed <- fieldSubscribed,
  value <- fieldValue, known <- fieldKnown

Undo == INSTANCE UndoScopes WITH
  Scopes <- {n1, n2}, Elements <- {e1, e2}, Texts <- {t1, t2},
  TextOf <- e1 :> t1 @@ e2 :> t2, ScopeOf <- t1 :> n1 @@ t2 :> n2,
  MaxEdits <- 2, MaxReverts <- 2, Risks <- {}, None <- None,
  shown <- undoShown, edits <- undoEdits, mounted <- undoMounted

View == INSTANCE ViewStore WITH
  Targets <- {t1, t2}, Versioned <- {t1, t2}, Selectors <- {s1, s2}, None <- None,
  Unreadable <- {<<t1, 1>>, <<t2, 2>>}, MaxChanges <- 3, Risks <- {},
  store <- viewStore, cache <- viewCache, subscribed <- viewSubscribed,
  shown <- viewShown, disposed <- viewDisposed

Rec == INSTANCE TypedRecord WITH
  Peers <- {1, 2}, Keys <- {k1}, Fields <- {"f"},
  Schema <- [p \in {1, 2} |-> p = 1], None <- None, MaxClock <- 4,
  Risks <- {}

Items == INSTANCE ListRef WITH
  Items <- {i1, i2, i3}, None <- None, Movable <- TRUE, Risks <- {},
  inside <- itemsInside

Plain == INSTANCE PlainValue WITH
  Peers <- {1, 2}, Fields <- {"f", "g"}, Defaults <- {"f"}, MaxClock <- 3,
  Risks <- {}, value <- plainValue

Typed == INSTANCE Shapes WITH
  Schemas <- Upgradable, Risks <- {}

Handles == INSTANCE RepoHandles WITH
  Docs <- {d}, Schemas <- {s1}, Namespaces <- {n1}, Me <- me, Other <- other,
  Values <- {1, 2}, None <- None, MaxDocs <- 2, Risks <- {},
  doc <- handlesDoc, cache <- handlesCache, store <- handlesStore,
  known <- handlesKnown, previous <- handlesPrevious

Tree == INSTANCE TreeRef WITH
  Nodes <- {i1, i2, i3}, Fields <- {"f"}, Top <- top, Gone <- away,
  Risks <- {}, inside <- treeInside

Patch == INSTANCE JsonPatch WITH
  Values <- {1, 2}, None <- None, Keys <- {k1}, Rows <- 0, MaxLen <- 2,
  MaxOps <- 2, Risks <- {}, doc <- patchDoc, phase <- patchPhase

Flat == INSTANCE FlatStorage WITH
  Shape <- Document, RecordKeys <- {Nested}, Values <- {1, 2}, None <- None,
  Marker <- null, MaxItems <- 1, Mergeable <- TRUE, Risks <- {},
  previous <- flatPrevious

Replayed == INSTANCE ReplayDiff WITH
  Keys <- {k1}, Values <- {1}, Kinds <- {"map", "list", "counter"},
  MaxBefore <- 1, MaxEdits <- 2, Risks <- {}, phase <- replayedPhase,
  doc <- replayedDoc, todo <- replayedTodo, edits <- replayedEdits

-----------------------------------------------------------------------------
(* A behaviour is about one of them; the others stay where they start.     *)
Init ==
  /\ package \in {"lens", "chain", "text", "undo", "view", "record", "list",
                   "plain", "shapes", "handles", "tree",
                   "patch", "flat", "replay"}
  /\ Sole!Init
  /\ Chain!Init
  /\ Field!Init
  /\ Undo!Init
  /\ View!Init
  /\ Rec!Init
  /\ Items!Init
  /\ Plain!Init /\ (On("plain") \/ ~ plainValue[1].to.present)
  /\ \/ On("shapes") /\ Typed!Init
     \/ ~ On("shapes") /\ shape = None /\ stored = None /\ upgraded = FALSE
  /\ Handles!Init
  /\ Tree!Init
  /\ Patch!Init
  /\ Flat!Init
  /\ Replayed!Init

Next ==
  \/ /\ On("lens") /\ Sole!Next
     /\ UNCHANGED <<package, chainVars, fieldVars, undoVars, viewVars,
                    recVars, itemsVars, plainVars,
                    typedVars, handlesVars, treeVars,
                    patchVars, flatVars, replayedVars>>
  \/ /\ On("chain") /\ Chain!Next
     /\ UNCHANGED <<package, soleVars, fieldVars, undoVars, viewVars, recVars,
                    itemsVars, plainVars, typedVars,
                    handlesVars, treeVars, patchVars,
                    flatVars, replayedVars>>
  \/ /\ On("text") /\ Field!Next
     /\ UNCHANGED <<package, soleVars, chainVars, undoVars, viewVars, recVars,
                    itemsVars, plainVars, typedVars,
                    handlesVars, treeVars, patchVars,
                    flatVars, replayedVars>>
  \/ /\ On("undo") /\ Undo!Next
     /\ UNCHANGED <<package, soleVars, chainVars, fieldVars, viewVars,
                    recVars, itemsVars, plainVars,
                    typedVars, handlesVars, treeVars,
                    patchVars, flatVars, replayedVars>>
  \/ /\ On("view") /\ View!Next
     /\ UNCHANGED <<package, soleVars, chainVars, fieldVars, undoVars,
                    recVars, itemsVars, plainVars,
                    typedVars, handlesVars, treeVars,
                    patchVars, flatVars, replayedVars>>
  \/ /\ On("record") /\ Rec!Next
     /\ UNCHANGED <<package, soleVars, chainVars, fieldVars, undoVars,
                    viewVars, itemsVars, plainVars,
                    typedVars, handlesVars, treeVars,
                    patchVars, flatVars, replayedVars>>
  \/ /\ On("list") /\ Items!Next
     /\ UNCHANGED <<package, soleVars, chainVars, fieldVars, undoVars,
                    viewVars, recVars, plainVars,
                    typedVars, handlesVars, treeVars,
                    patchVars, flatVars, replayedVars>>
  \/ /\ On("plain") /\ Plain!Next
     /\ UNCHANGED <<package, soleVars, chainVars, fieldVars, undoVars,
                    viewVars, recVars, itemsVars,
                    typedVars, handlesVars, treeVars,
                    patchVars, flatVars, replayedVars>>
  \/ /\ On("shapes") /\ Typed!Next
     /\ UNCHANGED <<package, soleVars, chainVars, fieldVars, undoVars,
                    viewVars, recVars, itemsVars,
                    plainVars, handlesVars, treeVars,
                    patchVars, flatVars, replayedVars>>
  \/ /\ On("handles") /\ Handles!Next
     /\ UNCHANGED <<package, soleVars, chainVars, fieldVars, undoVars,
                    viewVars, recVars, itemsVars,
                    plainVars, typedVars, treeVars,
                    patchVars, flatVars, replayedVars>>
  \/ /\ On("tree") /\ Tree!Next
     /\ UNCHANGED <<package, soleVars, chainVars, fieldVars, undoVars,
                    viewVars, recVars, itemsVars,
                    plainVars, typedVars, handlesVars,
                    patchVars, flatVars, replayedVars>>
  \/ /\ On("patch") /\ Patch!Next
     /\ UNCHANGED <<package, soleVars, chainVars, fieldVars, undoVars,
                    viewVars, recVars, itemsVars,
                    plainVars, typedVars, handlesVars,
                    treeVars, flatVars, replayedVars>>
  \/ /\ On("flat") /\ Flat!Next
     /\ UNCHANGED <<package, soleVars, chainVars, fieldVars, undoVars,
                    viewVars, recVars, itemsVars,
                    plainVars, typedVars, handlesVars,
                    treeVars, patchVars, replayedVars>>
  \/ /\ On("replay") /\ Replayed!Next
     /\ UNCHANGED <<package, soleVars, chainVars, fieldVars, undoVars,
                    viewVars, recVars, itemsVars,
                    plainVars, typedVars, handlesVars,
                    treeVars, patchVars, flatVars>>

(* Each member is as fair as its own specification says.                   *)
Spec ==
  /\ Init /\ [][Next]_vars

-----------------------------------------------------------------------------
ASSUME /\ Sole!LensAssumption /\ Chain!LensAssumption /\ Field!TextFieldAssumption
       /\ Undo!UndoScopesAssumption /\ View!ViewStoreAssumption /\ Rec!TypedRecordAssumption
       /\ Items!ListRefAssumption /\ Plain!PlainValueAssumption /\ Typed!ShapesAssumption
       /\ Handles!HandlesAssumption /\ Tree!TreeRefAssumption /\ Patch!JsonPatchAssumption
       /\ Flat!FlatStorageAssumption /\ Replayed!ReplayAssumption

(* What applications see of documents is current: lenses carry every       *)
(* change over once, in order, and show nothing that their filter rejects; *)
(* elements, hooks and handles show the document there is; who subscribed  *)
(* to an ephemeral store or to a path was told what is there.              *)
ViewsAgree ==
  /\ Sole!ChangesArrive /\ Sole!DoneOnce /\ Sole!RejectedIsHidden /\ Sole!InOrder /\ Sole!RestIsFree
  /\ Chain!ChangesArrive /\ Chain!DoneOnce /\ Chain!InOrder /\ Chain!RestIsFree
  /\ Field!InputShowsText /\ Undo!RegistryIsReal
  /\ View!ViewIsCurrent /\ View!LensIsAlive
  /\ Handles!HandlesAreLive /\ Handles!ToldAll /\ Handles!OwnStoreFits
  /\ On("flat") => Flat!TellsChanges

(* Documents are read and rewritten as what they hold: replicas agree how  *)
(* records are stored and hide no entry, a ref is of the item it was asked *)
(* for, all ways to read a document give the same, before an event and     *)
(* after, and fit the schema; patches and replayed diffs do what they      *)
(* stand for, or nothing.                                                  *)
DataIsWhole ==
  /\ Rec!ModesAgree /\ Rec!NoneHidden /\ Items!GetIsItem
  /\ Plain!BeforeIsBefore /\ Plain!ReadsAgree
  /\ On("shapes") => Typed!ReadsAreValid
  /\ On("tree") => Tree!ReadersAgree /\ Tree!AllCommitted
  /\ On("patch") => Patch!PatchIsStandard /\ Patch!FailedIsUndone
  /\ On("flat") => Flat!JsonIsWhole /\ Flat!NamesAreOwn
  /\ On("replay") => Replayed!ReplayedIsSource

(* Undo in one field does not affect another (hooks-core/README.md:315).   *)
UndoStaysInField == Undo!UndoStaysInField

(* What an edit does is what it was for: a caret keeps its place among the *)
(* characters unless other than the one before it is deleted, undo leaves  *)
(* alone what its manager excludes, a write through a ref is read by the   *)
(* writer, and no sibling changes with it.                                 *)
EditsLand ==
  /\ Field!CaretStays
  /\ Undo!UndoIsOwn
  /\ Rec!WritesShow
  /\ Plain!SiblingsStay
=============================================================================
