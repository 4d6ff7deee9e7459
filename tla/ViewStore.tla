------------------------------ MODULE ViewStore ------------------------------
(***************************************************************************)
(* What a component shows of a document, a ref or a lens: createSyncStore, *)
(* useValue and useLens (packages/hooks-core).  A render makes a store for *)
(* its target and selector when these are new; all stores of a hook share  *)
(* one cache, which an effect's subscription refreshes; React renders what *)
(* the cache has.  A value is the target, the selector and how often the   *)
(* target has changed.                                                     *)
(***************************************************************************)
EXTENDS Naturals

CONSTANTS
  Targets,    \* documents, refs, worldviews
  Versioned,  \* those whose values are cached by version
  Selectors,
  None,
  Unreadable, \* <<target, changes>> of which no value can be computed
  MaxChanges, \* bound: changes of a target
  Risks       \* "gap": changes between a render and its effect;
              \* "effects": effects are cleaned up and run again

ViewStoreAssumption ==
  /\ Versioned \subseteq Targets /\ None \notin Targets
  /\ Risks \subseteq {"gap", "effects"}

VARIABLES
  changes,    \* [Targets -> how often it changed]
  store,      \* the memoized store: its target and selector
  cache,      \* cacheRef: version and value
  subscribed, \* the store whose subscription is in force
  shown,      \* what the component shows
  disposed    \* lenses that are disposed

vars == <<changes, store, cache, subscribed, shown, disposed>>

NoStore == [target |-> None, selector |-> None]
Stores == [target : Targets, selector : Selectors]
Value(s, n) == <<s.target, s.selector, n>>
Readable(s, n) == <<s.target, n>> \notin Unreadable

-----------------------------------------------------------------------------
(* Operations and frontiers: alike for documents that are empty.           *)
GetVersionKey(t, n) == IF n = 0 THEN <<None, 0>> ELSE <<t, n>>
NoVersion == <<None, 1>>

(* The value of a store when its target has changed n times.               *)
ComputeValue(s, n, was) ==
  LET version == IF s.target \in Versioned THEN GetVersionKey(s.target, n) ELSE NoVersion
  IN  IF s.target \in Versioned /\ was.version = version THEN was
      ELSE [version |-> version, value |-> Value(s, n)]

(* createSyncStore: what cannot be computed leaves what was cached.        *)
Refreshed(s, n, was) == IF Readable(s, n) THEN ComputeValue(s, n, was) ELSE was
NoCache == [version |-> <<None, 2>>, value |-> None]

Init ==
  /\ changes = [t \in Targets |-> 0]
  /\ store = NoStore /\ subscribed = NoStore
  /\ cache = NoCache /\ shown = None
  /\ disposed = {}

(* The component renders: a store that is new computes its value; what it  *)
(* cannot compute fails the render.  A lens for another world replaces the *)
(* one before.                                                             *)
Render(s) ==
  /\ s # store
  /\ subscribed = store \/ "gap" \in Risks
  /\ Readable(s, changes[s.target])
  /\ store' = s
  /\ cache' = ComputeValue(s, changes[s.target], cache)
  /\ shown' = cache'.value
  /\ disposed' = (disposed \cup ({store.target} \ {None})) \ {s.target}
  /\ UNCHANGED <<changes, subscribed>>

(* The effect: subscribes to the new store; React looks whether the        *)
(* snapshot changed, and shows it.                                         *)
Subscribe ==
  /\ store # subscribed
  /\ subscribed' = store
  /\ shown' = cache.value
  /\ UNCHANGED <<changes, store, cache, disposed>>

Unmount ==
  /\ store # NoStore
  /\ store' = NoStore /\ subscribed' = NoStore
  /\ cache' = NoCache /\ shown' = None
  /\ disposed' = disposed \cup {store.target}
  /\ UNCHANGED changes

(* Cleanup and effect of a component that stays (strict mode, a hidden     *)
(* tree that shows again): what is memoized is used again.                 *)
EffectsAgain ==
  /\ "effects" \in Risks /\ subscribed = store /\ store # NoStore
  /\ disposed' = disposed \cup {store.target}
  /\ UNCHANGED <<changes, store, cache, subscribed, shown>>

(* A change; the store that is subscribed to the target refreshes the      *)
(* cache, or keeps it when it cannot compute the value.                    *)
Change(t) ==
  /\ changes[t] < MaxChanges
  /\ subscribed = store \/ "gap" \in Risks
  /\ changes' = [changes EXCEPT ![t] = @ + 1]
  /\ IF subscribed.target = t
       THEN cache' = Refreshed(subscribed, changes'[t], cache) /\ shown' = cache'.value
       ELSE UNCHANGED <<cache, shown>>
  /\ UNCHANGED <<store, subscribed, disposed>>

Next ==
  \/ \E s \in Stores : Render(s)
  \/ Subscribe \/ Unmount \/ EffectsAgain
  \/ \E t \in Targets : Change(t)

Spec == Init /\ [][Next]_vars

-----------------------------------------------------------------------------
(* Once its effects have run a component shows the value that its target   *)
(* has for its selector, or, while that cannot be computed, an older one.  *)
(* Where values are cached by version it may be the value of another       *)
(* selector, or of another target, which has that very version: of         *)
(* different documents only empty ones do (create-ref-hooks.ts:266).       *)
Shows(n) ==
  \/ shown = Value(store, n)
  \/ /\ {store.target, shown[1]} \subseteq Versioned
     /\ GetVersionKey(shown[1], shown[3]) = GetVersionKey(store.target, n)
ViewIsCurrent ==
  subscribed = store /\ store # NoStore =>
    \E n \in 0 .. changes[store.target] :
      Shows(n) /\ (Readable(store, changes[store.target]) => n = changes[store.target])

(* The lens that a component uses is not disposed.                         *)
LensIsAlive == store # NoStore => store.target \notin disposed
=============================================================================
