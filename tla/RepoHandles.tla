---------------------------- MODULE RepoHandles ----------------------------
(***************************************************************************)
(* What a Repo hands to its application (packages/repo): document handles  *)
(* kept in a cache, the document states of the synchronizer they stand     *)
(* for, the ephemeral stores of each document by namespace, made by the    *)
(* first who needs them, and the subscriptions to a store.                 *)
(***************************************************************************)
EXTENDS Naturals

CONSTANTS
  Docs, Schemas, Namespaces,
  Me, Other,  \* peers, each the key of its own presence
  Values, None,
  MaxDocs,    \* bound: LoroDocs made
  Risks       \* "remote": peers delete documents; "shutdown": the Repo goes on
              \*   after shutdown; "early": peers' ephemeral data comes for a
              \*   namespace the application will bring its own store for;
              \*   "reentrant": a callback writes to the store it is told of

HandlesAssumption ==
  /\ Me # Other /\ None \notin Values /\ None \notin Schemas /\ MaxDocs \in Nat
  /\ Risks \subseteq {"remote", "shutdown", "early", "reentrant"}

VARIABLES
  doc,      \* the LoroDoc of each document in the model, 0 without
  made,     \* LoroDocs made
  cache,    \* docCache: the LoroDoc of a handle, its schema, its namespaces
  store,    \* what the ephemeral stores hold; None where there is no store
  external, \* the stores that the application brought
  known,    \* what a subscriber to a store was told last, None unsubscribed
  previous, \* previousStates of its subscription
  refused,  \* a call threw although the application had not called before
  asked     \* the namespaces the application used

vars == <<doc, made, cache, store, external, known, previous, refused, asked>>

Keys == {Me, Other}
Empty == [k \in Keys |-> None]
NoHandle == [of |-> 0, schema |-> None, shapes |-> {}]

(* createRepoDoc, createSyncRef: the handle of a LoroDoc has the stores it *)
(* was made with as properties.                                            *)
HandleOf(loroDoc, s, shapes) == [of |-> loroDoc, schema |-> s, shapes |-> shapes]
Places == Docs \X Namespaces

-----------------------------------------------------------------------------
Init ==
  /\ doc = [d \in Docs |-> 0] /\ made = 0
  /\ cache = [d \in Docs |-> NoHandle]
  /\ store = [p \in Places |-> None] /\ external = {}
  /\ known = [p \in Places |-> None] /\ previous = known
  /\ refused = FALSE /\ asked = {}

(* getOrCreateDocumentState.                                               *)
Ensured(d) == IF doc[d] = 0 THEN made + 1 ELSE doc[d]

(* get: the handle in the cache if schema and namespaces are those it was  *)
(* made with; an error otherwise; a new handle when there is none.         *)
Get(d, s, shapes) ==
  /\ cache[d].of = 0 /\ Ensured(d) <= MaxDocs
  /\ doc' = [doc EXCEPT ![d] = Ensured(d)]
  /\ made' = IF doc[d] = 0 THEN made + 1 ELSE made
  /\ cache' = [cache EXCEPT ![d] = HandleOf(Ensured(d), s, shapes)]
  /\ UNCHANGED <<store, external, known, previous, refused, asked>>

(* delete empties the cache at once; a peer's delete request does not      *)
(* reach it.                                                               *)
Delete(d) ==
  /\ doc[d] # 0
  /\ doc' = [doc EXCEPT ![d] = 0] /\ cache' = [cache EXCEPT ![d] = NoHandle]
  /\ UNCHANGED <<made, store, external, known, previous, refused, asked>>
DeletedByPeer(d) ==
  /\ "remote" \in Risks /\ doc[d] # 0 /\ doc' = [doc EXCEPT ![d] = 0]
  /\ UNCHANGED <<made, cache, store, external, known, previous, refused, asked>>
Announced(d) ==
  /\ doc[d] = 0 /\ made < MaxDocs /\ cache[d].of = 0
  /\ doc' = [doc EXCEPT ![d] = made + 1] /\ made' = made + 1
  /\ UNCHANGED <<cache, store, external, known, previous, refused, asked>>

(* Bug: reset forgets the documents and keeps the handles.                 *)
ResetModelOnly ==
  /\ doc' = [d \in Docs |-> 0]
  /\ UNCHANGED <<made, cache, store, external, known, previous, refused, asked>>

(* reset and shutdown: a new model; only reset empties the cache.          *)
Reset ==
  /\ doc' = [d \in Docs |-> 0] /\ cache' = [d \in Docs |-> NoHandle]
  /\ UNCHANGED <<made, store, external, known, previous, refused, asked>>
Shutdown ==
  /\ "shutdown" \in Risks /\ doc' = [d \in Docs |-> 0]
  /\ UNCHANGED <<made, cache, store, external, known, previous, refused, asked>>

-----------------------------------------------------------------------------
(* A subscriber is told of the keys that differ from the previous states;  *)
(* in return it may write a value for Me, which is told of first and then  *)
(* forgotten by the outer call.                                            *)
Told(view, from, to) == [k \in Keys |-> IF to[k] # from[k] THEN to[k] ELSE view[k]]

(* Changes of a store: told to the subscriber, if any.                     *)
Becomes(p, states) ==
  \/ /\ store' = [store EXCEPT ![p] = states]
     /\ IF known[p] = None THEN UNCHANGED <<known, previous>>
        ELSE /\ known' = [known EXCEPT ![p] = Told(@, previous[p], states)]
             /\ previous' = [previous EXCEPT ![p] = states]
  \/ /\ "reentrant" \in Risks /\ known[p] # None /\ states # previous[p]
     /\ \E v \in Values :
          LET inner == [states EXCEPT ![Me] = v]
          IN  /\ store' = [store EXCEPT ![p] = inner]
              /\ known' = [known EXCEPT ![p] = Told(Told(@, previous[p], states), previous[p], inner)]
              /\ previous' = [previous EXCEPT ![p] = states]

(* getOrCreate.                                                            *)
States(p) == IF store[p] = None THEN Empty ELSE store[p]

(* getTypedEphemeral: a handle has a typed store for each namespace it was *)
(* made with.                                                              *)
HasTyped(p) == p[2] \in cache[p[1]].shapes

(* set, setSelf and delete of a typed store.                               *)
SetSelf(p, v) ==
  /\ HasTyped(p)
  /\ Becomes(p, [States(p) EXCEPT ![Me] = v]) /\ asked' = asked \cup {p}
  /\ UNCHANGED <<doc, made, cache, external, refused>>

RegisterExternal(p) == store' = [store EXCEPT ![p] = Empty] /\ external' = external \cup {p}

(* addEphemeral: an error where there is a store.                          *)
AddEphemeral(p) ==
  /\ cache[p[1]].of # 0 /\ asked' = asked \cup {p}
  /\ IF store[p] # None
       THEN /\ refused' = (refused \/ p \notin asked)
            /\ UNCHANGED <<store, external>>
       ELSE RegisterExternal(p) /\ UNCHANGED refused
  /\ UNCHANGED <<doc, made, cache, known, previous>>

(* Bug: only the keys that are there now are compared.                     *)
ToldOfPresent(view, from, to) ==
  [k \in Keys |-> IF to[k] # from[k] /\ to[k] # None THEN to[k] ELSE view[k]]

(* subscribe: told of all at once, of the changes later.                   *)
Subscribe(p) ==
  /\ HasTyped(p) /\ known[p] = None
  /\ store' = [store EXCEPT ![p] = States(p)] /\ asked' = asked \cup {p}
  /\ known' = [known EXCEPT ![p] = States(p)]
  /\ previous' = [previous EXCEPT ![p] = States(p)]
  /\ UNCHANGED <<doc, made, cache, external, refused>>
Unsubscribe(p) ==
  /\ known[p] # None
  /\ known' = [known EXCEPT ![p] = None] /\ previous' = [previous EXCEPT ![p] = None]
  /\ UNCHANGED <<doc, made, cache, store, external, refused, asked>>

(* applyRemote and removePeer, for all stores of all documents.            *)
ApplyRemote(p, v) ==
  /\ doc[p[1]] # 0 /\ ("early" \in Risks \/ p \in asked)
  /\ Becomes(p, [States(p) EXCEPT ![Other] = v])
  /\ UNCHANGED <<doc, made, cache, external, refused, asked>>
RemovePeer ==
  /\ store' = [p \in Places |-> IF store[p] = None THEN None ELSE [store[p] EXCEPT ![Other] = None]]
  /\ known' = [p \in Places |-> IF known[p] = None THEN None ELSE Told(known[p], previous[p], store'[p])]
  /\ previous' = [p \in Places |-> IF known[p] = None THEN None ELSE store'[p]]
  /\ UNCHANGED <<doc, made, cache, external, refused, asked>>

Next ==
  \/ \E d \in Docs : Delete(d) \/ DeletedByPeer(d) \/ Announced(d)
                       \/ \E s \in Schemas : \E shapes \in SUBSET Namespaces : Get(d, s, shapes)
  \/ Reset \/ Shutdown \/ RemovePeer
  \/ \E p \in Places :
       \/ AddEphemeral(p) \/ Subscribe(p) \/ Unsubscribe(p)
       \/ \E v \in Values \cup {None} : SetSelf(p, v)
       \/ \E v \in Values : ApplyRemote(p, v)

Spec == Init /\ [][Next]_vars

-----------------------------------------------------------------------------
(* A handle in the cache stands for the LoroDoc that is synchronized.      *)
HandlesAreLive == \A d \in Docs : cache[d].of \in {0, doc[d]}

(* What a subscriber was told adds up to what the store holds.             *)
ToldAll == \A p \in Places : known[p] # None => known[p] = store[p]

(* An application can bring a store of its own for a namespace it did not  *)
(* use, whatever came from the network before.                             *)
OwnStoreFits == ~refused
=============================================================================
