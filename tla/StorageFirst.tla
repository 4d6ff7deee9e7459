---------------------------- MODULE StorageFirst ----------------------------
(***************************************************************************)
(* Storage-first synchronization inside one Repo: a network peer's         *)
(* sync-request for a document the Repo does not hold is parked in         *)
(* docState.pendingNetworkRequests until every established storage channel *)
(* (docState.pendingStorageChannels) has answered or gone away.            *)
(*                                                                         *)
(* One action per handler of packages/repo/src/synchronizer.  A handler    *)
(* runs to completion, commands included, inside one run of the work       *)
(* queue, so it is one step; the reads of a storage adapter are promises   *)
(* and settle in steps of their own.  Every channel leads to a peer of its *)
(* own.  Operations of a CRDT document are abstract: a version is the set  *)
(* of operations applied, "ahead" and "behind" are set inclusion.          *)
(***************************************************************************)
EXTENDS Naturals, PeerState

CONSTANTS
  Docs,             \* document identifiers
  NetChannels,      \* channels of kind "network"; an id is used once
  StorageChannels,  \* channels of kind "storage"; an id is used once
  Requests,         \* identities of the sync-requests network peers send
  Deps,             \* the operations an operation causally depends on
  Persisted,        \* what each storage adapter holds of each document
  LocalOps,         \* operations the application of this Repo makes
  RemoteOps,        \* operations network peers bring
  Allowed,          \* permission name -> pairs <<channel, document>> it admits
  MaxDeletes,       \* bound: how often documents are deleted
  NoChannel, NoAnswer

Channels == NetChannels \cup StorageChannels

ASSUME ChannelAssumption ==
  /\ NetChannels \cap StorageChannels = {}
  /\ NoChannel \notin Channels

ASSUME OpAssumption ==
  /\ Deps \in [Ops -> SUBSET Ops]
  /\ Persisted \in [StorageChannels -> [Docs -> SUBSET Ops]]
  /\ LocalOps \subseteq Ops
  /\ RemoteOps \subseteq Ops
  /\ \A S \in SUBSET Ops : S # NoAnswer

(* An adapter's history of a document has no gaps.                         *)
ASSUME PersistedClosed ==
  \A s \in StorageChannels, d \in Docs :
    \A o \in Persisted[s][d] : Deps[o] \subseteq Persisted[s][d]

ASSUME BoundAssumption ==
  /\ MaxDeletes \in Nat
  /\ Allowed \in [{"visibility", "creation", "mutability", "deletion"} ->
                    SUBSET (Channels \X Docs)]

VARIABLES
  channels,        \* model.channels: the state of each channel
  documents,       \* the keys of model.documents
  oplog,           \* operations received for a document, pending ones included
  pendingStorage,  \* docState.pendingStorageChannels
  pendingReqs,     \* docState.pendingNetworkRequests
  subscriptions,   \* peerState.subscriptions
  awareness,       \* peerState.docSyncStates
  loads,           \* reads outstanding in the storage adapters
  requester,       \* the channel a sync-request arrived on
  answer,          \* the version a sync-request was answered with
  consulted,       \* history: whom the current document was first asked of
  failed,          \* history: the adapters that failed to read a document
  holds,           \* history: what the peer at a channel has of a document,
                   \*   by its own word or because this Repo sent it
  deletes          \* how many documents were deleted

modelVars == <<channels, documents, oplog, pendingStorage, pendingReqs>>
peerVars  == <<subscriptions, awareness, holds>>
ghostVars == <<consulted, failed, deletes>>
vars == <<modelVars, peerVars, loads, requester, answer, ghostVars>>

-----------------------------------------------------------------------------
(* Operations that are received but wait for a dependency are not applied  *)
(* and do not count for the version (LoroDoc.import keeps them pending).   *)
Applied(log) == {o \in log : Deps[o] \subseteq log}

Version(d) == Applied(oplog[d])

Established == {c \in Channels : channels[c] = "established"}

(* Bug: network channels are taken for storage.                            *)
EstablishedOfAnyKind == Established

(* Bug: adapters that are still connecting are asked too.                  *)
StorageIdsConnecting ==
  {s \in StorageChannels : channels[s] \in {"connected", "established"}}

(* getStorageChannelIds                                                    *)
StorageIds == Established \cap StorageChannels

Permits(what, c, d) == <<c, d>> \in Allowed[what]

(* One more read of document d from version v in each adapter of S.        *)
StartLoads(S, d, v) ==
  loads' = [l \in DOMAIN loads |->
              IF l[1] \in S /\ l[2] = d /\ l[3] = v
                THEN loads[l] + 1 ELSE loads[l]]

(* Answer the requests Q with version v (cmd/send-sync-response).          *)
Answer(Q, v) ==
  answer' = [r \in Requests |-> IF r \in Q THEN v ELSE answer[r]]

(* What the peers have once the requests Q for d are answered with v.      *)
HoldsAnswer(Q, d, v) ==
  [c \in Channels |->
     [holds[c] EXCEPT ![d] =
        IF \E r \in Q : requester[r] = c THEN @ \cup v ELSE @]]

Holds(c, d, v) == [holds EXCEPT ![c][d] = @ \cup v]

-----------------------------------------------------------------------------
(* Bug: a subscriber without the document is passed over.                  *)
UpdateTargetsNotAbsent(d, v, src, aw, subs) ==
  {c \in Established \ {src} : d \in subs[c] /\ ShouldSync(v, aw[c][d])}

(* propagateToPeers, for document d at version v, skipping the peer src:   *)
(* subscribers that lack something are sent channel/update, channels that  *)
(* never subscribed are told with channel/new-doc.                         *)
UpdateTargets(d, v, src, aw, subs) ==
  {c \in Established \ {src} :
     d \in subs[c] /\ NeedsUpdate(v, aw[c][d])}

NewDocTargets(d, v, src, aw, subs) ==
  {c \in Established \ {src} :
     /\ d \notin subs[c]
     /\ Permits("visibility", c, d)
     /\ ShouldSync(v, aw[c][d])}

(* A storage adapter answers new-doc at once with a sync-request of its    *)
(* own, processed before the work queue falls idle: it subscribes and is   *)
(* sent the whole document.                                                *)
Propagate(d, v, src, aw, subs, has) ==
  LET upd == UpdateTargets(d, v, src, aw, subs)
      ann == NewDocTargets(d, v, src, aw, subs) \cap StorageChannels
  IN /\ awareness' =
          [c \in Channels |->
             [aw[c] EXCEPT ![d] = IF c \in upd THEN Synced(v)
                                  ELSE IF c \in ann THEN Pending ELSE @]]
     /\ subscriptions' =
          [c \in Channels |-> IF c \in ann THEN subs[c] \cup {d} ELSE subs[c]]
     /\ holds' =
          [c \in Channels |->
             [has[c] EXCEPT ![d] = IF c \in upd THEN @ \cup Delta(v, aw[c][d])
                                   ELSE IF c \in ann THEN @ \cup v ELSE @]]

(* The same peer state without a propagation.                              *)
NoPropagation(aw, subs, has) ==
  /\ awareness' = aw
  /\ subscriptions' = subs
  /\ holds' = has

Aware(c, d, a) == [awareness EXCEPT ![c][d] = a]
Subscribe(c, d) == [subscriptions EXCEPT ![c] = @ \cup {d}]

-----------------------------------------------------------------------------
Init ==
  /\ channels = [c \in Channels |-> "absent"]
  /\ documents = {}
  /\ oplog = [d \in Docs |-> {}]
  /\ pendingStorage = [d \in Docs |-> {}]
  /\ pendingReqs = [d \in Docs |-> {}]
  /\ subscriptions = [c \in Channels |-> {}]
  /\ awareness = [c \in Channels |-> [d \in Docs |-> Unknown]]
  /\ loads = [l \in StorageChannels \X Docs \X (SUBSET Ops) |-> 0]
  /\ requester = [r \in Requests |-> NoChannel]
  /\ answer = [r \in Requests |-> NoAnswer]
  /\ consulted = [d \in Docs |-> {}]
  /\ failed = {}
  /\ holds = [c \in Channels |-> [d \in Docs |->
               IF c \in StorageChannels THEN Persisted[c][d] ELSE {}]]
  /\ deletes = 0

-----------------------------------------------------------------------------
(* Connections.                                                            *)

(* An adapter adds a channel.                                              *)
ChannelAdded(c) ==
  /\ channels[c] = "absent"
  /\ channels' = [channels EXCEPT ![c] = "connected"]
  /\ UNCHANGED <<documents, oplog, pendingStorage, pendingReqs, peerVars,
                 loads, requester, answer, ghostVars>>

(* A network peer's establish-request: the channel is established.  The    *)
(* sync-requests sent to the peer change nothing here.                     *)
HandleEstablishRequest(c) ==
  /\ channels[c] = "connected"
  /\ channels' = [channels EXCEPT ![c] = "established"]
  /\ UNCHANGED <<documents, oplog, pendingStorage, pendingReqs, peerVars,
                 loads, requester, answer, ghostVars>>

(* A storage adapter's establish-response: a new peer, asked for every     *)
(* document it may see.                                                    *)
HandleEstablishResponse(s) ==
  /\ channels[s] = "connected"
  /\ channels' = [channels EXCEPT ![s] = "established"]
  /\ loads' = [l \in DOMAIN loads |->
                 IF /\ l[1] = s
                    /\ l[2] \in documents /\ Permits("visibility", s, l[2])
                    /\ l[3] = Version(l[2])
                   THEN loads[l] + 1 ELSE loads[l]]
  /\ UNCHANGED <<documents, oplog, pendingStorage, pendingReqs, peerVars,
                 requester, answer, ghostVars>>

(* Bug: the removal of a storage channel lets no queue through.            *)
NothingDrained(c) == {}

(* The documents whose last outstanding storage channel is c.              *)
Drained(c) == {d \in documents : pendingStorage[d] = {c}}

(* Bug: requests of the removed channel stay parked.                       *)
AllParked(c, d) == pendingReqs[d]

(* The requests parked on d that did not come over channel c.              *)
ParkedElsewhere(c, d) == {r \in pendingReqs[d] : requester[r] # c}

(* A channel goes away.  Documents that waited for it alone answer their   *)
(* parked requests; requests parked on it are forgotten; answers an        *)
(* adapter still has to give find no channel and are dropped.              *)
ChannelRemoved(c) ==
  /\ channels[c] \in {"connected", "established"}
  /\ channels' = [channels EXCEPT ![c] = "removed"]
  /\ pendingStorage' = [d \in Docs |-> pendingStorage[d] \ {c}]
  /\ pendingReqs' =
       [d \in Docs |-> IF d \in Drained(c) THEN {}
                       ELSE ParkedElsewhere(c, d)]
  /\ answer' =
       [r \in Requests |->
          IF \E d \in Drained(c) : r \in pendingReqs[d]
            THEN Version(CHOOSE d \in Drained(c) : r \in pendingReqs[d])
            ELSE answer[r]]
  /\ holds' =
       [x \in Channels |-> [d \in Docs |->
          IF d \in Drained(c) /\ \E r \in pendingReqs[d] : requester[r] = x
            THEN holds[x][d] \cup Version(d) ELSE holds[x][d]]]
  /\ loads' = [l \in DOMAIN loads |-> IF l[1] = c THEN 0 ELSE loads[l]]
  /\ UNCHANGED <<documents, oplog, subscriptions, awareness, requester,
                 ghostVars>>

-----------------------------------------------------------------------------
(* Sync-requests.                                                          *)

(* Network peer c sends sync-request r for document d.  It is subscribed   *)
(* and its awareness becomes "pending" whatever happens next.              *)
ReceiveRequest(c, d, r) ==
  /\ channels[c] = "established"
  /\ requester[r] = NoChannel
  /\ requester' = [requester EXCEPT ![r] = c]
  /\ awareness' = Aware(c, d, Pending)
  /\ subscriptions' = Subscribe(c, d)
  /\ UNCHANGED <<channels, oplog, failed, deletes>>

(* The document is unknown and the peer may not create it: silence.        *)
RequestDenied(c, d, r) ==
  /\ ReceiveRequest(c, d, r)
  /\ d \notin documents /\ ~ Permits("creation", c, d)
  /\ UNCHANGED <<documents, pendingStorage, pendingReqs, loads, answer, holds,
                 consulted>>

(* The document is unknown: create it, park the request and ask every      *)
(* established storage channel from the empty version.                     *)
RequestConsults(c, d, r) ==
  /\ ReceiveRequest(c, d, r)
  /\ d \notin documents /\ Permits("creation", c, d)
  /\ StorageIds # {}
  /\ documents' = documents \cup {d}
  /\ pendingStorage' = [pendingStorage EXCEPT ![d] = StorageIds]
  /\ pendingReqs' = [pendingReqs EXCEPT ![d] = {r}]
  /\ consulted' = [consulted EXCEPT ![d] = StorageIds]
  /\ StartLoads(StorageIds, d, {})
  /\ UNCHANGED <<answer, holds>>

(* The document is unknown and there is no storage to ask, or it is known  *)
(* and waits for no storage: answer at once.                               *)
RequestAnswered(c, d, r) ==
  /\ ReceiveRequest(c, d, r)
  /\ \/ d \notin documents /\ Permits("creation", c, d) /\ StorageIds = {}
     \/ d \in documents /\ pendingStorage[d] = {}
  /\ documents' = documents \cup {d}
  /\ Answer({r}, Version(d))
  /\ holds' = Holds(c, d, Version(d))
  /\ UNCHANGED <<pendingStorage, pendingReqs, loads, consulted>>

(* Bug: a new request takes the place of those already parked.             *)
ReplaceParked(d, r) == {r}

(* The requests parked on d when r joins them.                             *)
WithParked(d, r) == pendingReqs[d] \cup {r}

(* The document waits for storage: park the request.                       *)
RequestParked(c, d, r) ==
  /\ ReceiveRequest(c, d, r)
  /\ d \in documents /\ pendingStorage[d] # {}
  /\ pendingReqs' = [pendingReqs EXCEPT ![d] = WithParked(d, r)]
  /\ UNCHANGED <<documents, pendingStorage, loads, answer, holds, consulted>>

HandleSyncRequest(c, d, r) ==
  \/ RequestDenied(c, d, r)
  \/ RequestConsults(c, d, r)
  \/ RequestAnswered(c, d, r)
  \/ RequestParked(c, d, r)

-----------------------------------------------------------------------------
(* Storage answers.                                                        *)

(* What the adapter s sends for a read of d that started from version v.   *)
Reply(s, d, v, ok) ==
  IF ~ ok \/ Persisted[s][d] = {} THEN "unavailable"
  ELSE IF Persisted[s][d] \subseteq v THEN "up-to-date" ELSE "update"

(* Bug: the first reply counts as the last.                                *)
FirstReply(s, d) == s \in pendingStorage[d]

(* A reply of s is the last one document d waits for.                      *)
LastReply(s, d) == pendingStorage[d] = {s}

(* A read settles: the adapter sends a sync-response and, in the same      *)
(* turn, a sync-request of its own, which subscribes it.  The response is  *)
(* imported and propagated; if it was the last one the document waited     *)
(* for, the parked requests are answered after the import.  Either of the  *)
(* two messages creates a document that is not there.                      *)
StorageReplies(s, d, v, ok) ==
  LET kind     == Reply(s, d, v, ok)
      present  == d \in documents \/ kind = "update" \/ Permits("creation", s, d)
      imported == kind = "update" /\ Permits("mutability", s, d)
      log      == IF imported THEN oplog[d] \cup (Persisted[s][d] \ v)
                  ELSE oplog[d]
      answered == IF LastReply(s, d) THEN pendingReqs[d] ELSE {}
      sent     == HoldsAnswer(answered, d, Applied(log))
      has      == [sent EXCEPT ![s][d] = @ \cup Applied(log)]
  IN /\ channels[s] = "established"
     /\ loads[<<s, d, v>>] > 0
     /\ loads' = [loads EXCEPT ![<<s, d, v>>] = @ - 1]
     /\ documents' = IF present THEN documents \cup {d} ELSE documents
     /\ oplog' = [oplog EXCEPT ![d] = log]
     /\ pendingStorage' = [pendingStorage EXCEPT ![d] = @ \ {s}]
     /\ pendingReqs' = [pendingReqs EXCEPT ![d] = @ \ answered]
     /\ Answer(answered, Applied(log))
     /\ IF imported
          THEN Propagate(d, Applied(log), s,
                         Aware(s, d, Pending), Subscribe(s, d), has)
          ELSE NoPropagation(Aware(s, d, Pending), Subscribe(s, d), has)
     /\ failed' = IF ok THEN failed ELSE failed \cup {<<s, d>>}
     /\ UNCHANGED <<channels, requester, consulted, deletes>>

-----------------------------------------------------------------------------
(* What network peers send besides requests.                               *)

(* Import of operations S from network peer c, then propagation: c is      *)
(* taken to have everything we now have.                                   *)
Import(c, d, S) ==
  LET log == oplog[d] \cup S
  IN /\ oplog' = [oplog EXCEPT ![d] = log]
     /\ Propagate(d, Applied(log), c, Aware(c, d, Synced(Applied(log))),
                  subscriptions, Holds(c, d, S))

(* A sync-response with data; it creates a document that is not there.     *)
HandleSyncResponse(c, d, S) ==
  /\ channels[c] = "established"
  /\ documents' = documents \cup {d}
  /\ IF Permits("mutability", c, d)
       THEN Import(c, d, S)
       ELSE UNCHANGED <<oplog, peerVars>>
  /\ UNCHANGED <<channels, pendingStorage, pendingReqs, loads, requester,
                 answer, consulted, failed, deletes>>

(* A channel/update; dropped when the document is not there.               *)
HandleUpdate(c, d, S) ==
  /\ channels[c] = "established"
  /\ d \in documents /\ Permits("mutability", c, d)
  /\ Import(c, d, S)
  /\ UNCHANGED <<channels, documents, pendingStorage, pendingReqs, loads,
                 requester, answer, consulted, failed, deletes>>

(* A sync-response without data: only the awareness of the peer changes.   *)
HandleStatus(c, d, a) ==
  /\ channels[c] = "established"
  /\ NoPropagation(Aware(c, d, a), subscriptions, Holds(c, d, a.version))
  /\ UNCHANGED <<modelVars, loads, requester, answer, consulted, failed,
                 deletes>>

(* A new-doc announcement creates the document; no storage is asked.       *)
HandleNewDoc(c, d) ==
  /\ channels[c] = "established"
  /\ documents' = documents \cup {d}
  /\ NoPropagation(Aware(c, d, Pending), subscriptions, holds)
  /\ UNCHANGED <<channels, oplog, pendingStorage, pendingReqs, loads,
                 requester, answer, consulted, failed, deletes>>

-----------------------------------------------------------------------------
(* What the application and the peers' delete-requests do.                 *)

(* repo.get: create the document and ask every established channel that    *)
(* may see it; storage adapters start reading.                             *)
DocEnsure(d) ==
  /\ d \notin documents
  /\ documents' = documents \cup {d}
  /\ StartLoads({s \in StorageIds : Permits("visibility", s, d)}, d, {})
  /\ UNCHANGED <<channels, oplog, pendingStorage, pendingReqs, peerVars,
                 requester, answer, ghostVars>>

(* A local operation; every other established channel hears of it.         *)
LocalDocChange(d, o) ==
  /\ d \in documents
  /\ \A e \in Docs : o \notin oplog[e]
  /\ Deps[o] \subseteq Version(d)
  /\ oplog' = [oplog EXCEPT ![d] = @ \cup {o}]
  /\ Propagate(d, Applied(oplog[d] \cup {o}), NoChannel, awareness,
               subscriptions, holds)
  /\ UNCHANGED <<channels, documents, pendingStorage, pendingReqs, loads,
                 requester, answer, consulted, failed, deletes>>

(* The document leaves the model and takes its parked requests along;      *)
(* subscriptions, awareness and outstanding reads stay.                    *)
RemoveDocument(d) ==
  /\ d \in documents
  /\ deletes < MaxDeletes
  /\ deletes' = deletes + 1
  /\ documents' = documents \ {d}
  /\ oplog' = [oplog EXCEPT ![d] = {}]
  /\ pendingStorage' = [pendingStorage EXCEPT ![d] = {}]
  /\ pendingReqs' = [pendingReqs EXCEPT ![d] = {}]
  /\ consulted' = [consulted EXCEPT ![d] = {}]
  /\ UNCHANGED <<channels, peerVars, loads, requester, answer, failed>>

DocDelete(d) == RemoveDocument(d)

HandleDeleteRequest(c, d) ==
  /\ channels[c] = "established"
  /\ Permits("deletion", c, d)
  /\ RemoveDocument(d)

-----------------------------------------------------------------------------
Connection ==
  \/ \E c \in Channels : ChannelAdded(c) \/ ChannelRemoved(c)
  \/ \E c \in NetChannels : HandleEstablishRequest(c)
  \/ \E s \in StorageChannels : HandleEstablishResponse(s)

MessageFrom(c, d) ==
  \/ \E r \in Requests : HandleSyncRequest(c, d, r)
  \/ \E o \in RemoteOps :
       \/ HandleSyncResponse(c, d, {o})
       \/ HandleUpdate(c, d, {o})
       \/ HandleStatus(c, d, Synced({o}))
  \/ HandleStatus(c, d, Absent)
  \/ HandleNewDoc(c, d)
  \/ HandleDeleteRequest(c, d)

NetworkMessage == \E c \in NetChannels, d \in Docs : MessageFrom(c, d)

LoadSettles(s, d) ==
  \E v \in SUBSET Ops, ok \in BOOLEAN : StorageReplies(s, d, v, ok)

Application ==
  \E d \in Docs :
    \/ DocEnsure(d)
    \/ DocDelete(d)
    \/ \E o \in LocalOps : LocalDocChange(d, o)

Next ==
  \/ Connection
  \/ NetworkMessage
  \/ Application
  \/ \E s \in StorageChannels, d \in Docs : LoadSettles(s, d)

Spec == Init /\ [][Next]_vars

(* The reads of an adapter on a live channel settle, one way or the other. *)
FairSpec ==
  /\ Spec
  /\ \A s \in StorageChannels, d \in Docs : WF_vars(LoadSettles(s, d))

-----------------------------------------------------------------------------
(* Storage-first implements the request barrier: storage channels are the  *)
(* sources, a request counts as answered once it has an answer.            *)
Barrier == INSTANCE RequestBarrier WITH
  Sources <- StorageChannels, waiting <- pendingStorage, queue <- pendingReqs,
  answered <- {r \in Requests : answer[r] # NoAnswer}

(* Whatever channels, peers, reads and the application do, requests pass   *)
(* only as the barrier lets them: a queue goes through as a whole, exactly *)
(* when its last storage channel replies or is removed.                    *)
ImplementsBarrier == Barrier!Spec

(* Types of the state.                                                     *)
TypeOK ==
  /\ channels \in [Channels -> {"absent", "connected", "established", "removed"}]
  /\ documents \in SUBSET Docs
  /\ oplog \in [Docs -> SUBSET Ops]
  /\ pendingStorage \in [Docs -> SUBSET StorageChannels]
  /\ pendingReqs \in [Docs -> SUBSET Requests]
  /\ subscriptions \in [Channels -> SUBSET Docs]
  /\ awareness \in [Channels -> [Docs -> Awareness]]
  /\ loads \in [StorageChannels \X Docs \X (SUBSET Ops) -> Nat]
  /\ requester \in [Requests -> NetChannels \cup {NoChannel}]
  /\ answer \in [Requests -> (SUBSET Ops) \cup {NoAnswer}]
  /\ consulted \in [Docs -> SUBSET StorageChannels]
  /\ failed \in SUBSET (StorageChannels \X Docs)
  /\ holds \in [Channels -> [Docs -> SUBSET Ops]]
  /\ deletes \in 0 .. MaxDeletes

(* Parked requests always have something to wait for: a document with      *)
(* parked requests exists and still waits for storage, so draining the     *)
(* last storage channel cannot leave a request behind.                     *)
ParkedAwaitsStorage ==
  \A d \in Docs :
    /\ pendingReqs[d] # {} => pendingStorage[d] # {}
    /\ pendingStorage[d] # {} => d \in documents

(* A storage channel a document waits for is established and still owes a  *)
(* reply to a read of that document: the wait cannot be for nothing, even  *)
(* after adapters were removed and documents deleted and asked for again.  *)
WaitIsOwed ==
  \A d \in Docs : \A s \in pendingStorage[d] :
    /\ channels[s] = "established"
    /\ \E v \in SUBSET Ops : loads[<<s, d, v>>] > 0

(* A parked request belongs to a channel that is still established, is     *)
(* parked under one document only and was not answered: its answer has     *)
(* somewhere to go and is sent once.                                       *)
ParkedIsAnswerable ==
  \A d \in Docs : \A r \in pendingReqs[d] :
    /\ requester[r] \in NetChannels
    /\ channels[requester[r]] = "established"
    /\ answer[r] = NoAnswer
    /\ \A e \in Docs : r \in pendingReqs[e] => e = d

(* A parked request that gets its answer gets everything each storage      *)
(* adapter the document was asked of holds, unless that adapter is gone,   *)
(* failed, or may not write: no answer overtakes storage.                  *)
NoPrematureAnswer ==
  [][\A d \in Docs : \A r \in pendingReqs[d] :
       answer'[r] # NoAnswer =>
         \A s \in consulted[d] :
           \/ channels'[s] # "established"
           \/ <<s, d>> \in failed'
           \/ ~ Permits("mutability", s, d)
           \/ Persisted[s][d] \subseteq answer'[r]]_vars

(* A request leaves the queue for three reasons only: it is answered, its  *)
(* channel is gone, or the document was deleted.                           *)
ParkedLeavesForCause ==
  [][\A d \in Docs : \A r \in pendingReqs[d] \ pendingReqs'[d] :
       \/ answer'[r] # NoAnswer
       \/ channels'[requester[r]] # "established"
       \/ d \notin documents']_vars

(* As long as adapters settle their reads, no request is parked for good.  *)
ParkedIsSettled ==
  \A d \in Docs, r \in Requests :
    r \in pendingReqs[d] ~> r \notin pendingReqs[d]

(* No network request is answered with an empty document while a storage   *)
(* adapter is still reading that document, whoever asked for the read.     *)
NoAnswerBeforeStorage ==
  [][\A c \in NetChannels, d \in Docs, r \in Requests :
       RequestAnswered(c, d, r) /\ Version(d) = {} =>
         \A s \in StorageIds, v \in SUBSET Ops : loads[<<s, d, v>>] = 0]_vars

(* A peer that subscribed to a document and whose request is not parked    *)
(* lacks nothing of it: what storage brought while its request was parked, *)
(* what other peers and the application added before, meanwhile and after  *)
(* all reached it, through the answer or through an update whose starting  *)
(* version is what the peer was believed to have.  A storage adapter is    *)
(* subscribed by its reply, so nothing is missing on disk either.          *)
SubscribersServed ==
  \A c \in Established : \A d \in subscriptions[c] \cap documents :
    (\A r \in pendingReqs[d] : requester[r] # c) => Version(d) \subseteq holds[c][d]
=============================================================================
