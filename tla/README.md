# loro-extended in TLA+

Loro documents are CRDTs; loro-extended moves their operations between Repos
and storage (`packages/repo`), over several transports (`adapters/*`), and gives
applications typed documents, lenses and hooks on them (`packages/change`,
`lens`, `hooks-core`). This directory holds TLA+ models of these parts, TLC
configurations that check them, and TLAPS proofs about the core.
`PROJECT.json` maps every definition to the lines it stands for.

## 1. The system

Each Repo runs a *synchronizer*: an update function `(message, model) ->
(model, command)` driven by a work queue. A message, the commands it causes and
the messages those dispatch are one uninterrupted run of the queue; what is
sent is buffered and flushed per channel when the queue falls idle. Adapters
connect the synchronizer to network peers and to storage through *channels*.

| Component | State | Operations | What makes it correct |
|---|---|---|---|
| Sync handlers (`synchronizer/sync`) | `documents`, `pendingStorageChannels`, `pendingNetworkRequests` | sync-request, sync-response, update, doc-imported, local-doc-change, doc-ensure, doc-delete, delete-request | no answer before storage, no parked request forgotten, everybody gets everything |
| Connection handlers (`synchronizer/connection`) | `channels`, `peers` | channel-added / -removed, establish-channel / -request / -response | a handshake establishes both ends; a removed channel leaves nothing waiting for it |
| Discovery handlers (`synchronizer/discovery`) | `documents` | directory-request / -response, new-doc | announcements lead to subscriptions |
| Peer state and permissions | `docSyncStates`, `subscriptions` per peer | awareness updates, `shouldSyncWithPeer`, `getChangedDocsToSync` | a belief about a peer is never ahead of what it has or will get |
| Runtime (`synchronizer.ts`, work queue, batcher, commands) | work queue, outbound buffer, ready states | dispatch, flush, import, send, reset, shutdown | handlers are atomic; one flush per run; nothing is left when it rests |
| Storage adapter (`storage-adapter.ts`) | chunks, outstanding tasks | read and reply, save, delete, flush | every read is answered; what flush reported is on disk |
| Ephemeral stores | last-writer-wins entries per peer | set, apply, relay, remove peer, heartbeat | presence agrees, belongs to its peer and disappears with it |
| Middleware, rate limiter | windows per peer, checks under way | check each received message | what is rejected is not handled; limits hold |
| Adapters' life, send interceptors | life cycle, channel directory, map of adapters, chain | add, start, stop, remove, reset, shutdown, send | no channel without an adapter; every message passes every interceptor |
| Wire format | batches being reassembled | encode, fragment, receive, evict, time out | what is decoded was encoded; a batch is delivered once or reported |
| WebSocket, SSE, HTTP polling, WebRTC, Bridge | sockets, timers, registry of connections | connect, reconnect, replace, close | a channel belongs to the current socket; both ends agree |
| WebSocket compatibility adapter | the same, and frames of the Loro protocol | the same; translation | Repos synchronize although handshakes and batches are lost |
| Repo and Sync API | cache of handles, ready states, calls of `waitForSync` | get, delete, reset, wait, time out, abort | a call resolves when, and only when, what it waits for holds |
| Typed documents (`packages/change`) | Loro containers, caches of refs, diff overlay | read, write, `change()`, patch, replay, subscribe | all ways to read agree; an edit does what it says on every replica |
| Lens, hooks | worldviews, queues, undo stacks, element values | filter, react, render, type, undo | what is shown is what the document holds |

**Interaction.** A peer's sync-request subscribes it; the answer carries what it
lacks; a bidirectional request is reciprocated by one that is not. An import or
a local operation is propagated to every other established peer: an update for
subscribers, an announcement for the rest. A storage adapter is a peer as well:
it answers a sync-request after an asynchronous read and subscribes itself in
the same turn. Which message is sent depends on what the Repo *believes* the
peer has, and beliefs are updated when a message is sent, not when it arrives.
Applications hold documents through handles and typed refs that outlive what
they were made for; Loro calls subscribers within the commit or import that
changed the document.

**What is hard.** Reads that settle late, fail, or belong to a document that
was deleted meanwhile; channels that go away while requests wait; messages lost
with a link after the belief was updated; handshakes that cross; peers that
restart under the same peerId; relayed deltas that arrive by different paths;
events of a socket that has been replaced; timers that race with what they
guard; throws in the middle of a run of the queue; caches that a merge makes
stale. The full list, with lines, is under `hazards` in `PROJECT.json`.

## 2. Modules

The core, `packages/repo`:

| Module | Role |
|---|---|
| `PeerState` | What a Repo believes of a peer's copy, and `ShouldSync`, `NeedsUpdate`, `Delta`. |
| `StorageFirst` | One Repo: channels, parked requests, storage reads, imports, permissions, deletion. |
| `RequestBarrier` | Abstract: requests queue behind a set of sources. `StorageFirst` implements it. |
| `DocSync` | Several Repos and one document: messages in flight, links that break, handshakes, restarts. |
| `CausalReplicas` | Abstract: replicas that write and merge, causally closed. `DocSync` implements it. |
| `SyncApi`, `Deletion` | `DocSync` extended: ready states and `waitForSync`; deletion among peers. The translation of the compatible protocol is the last section of `DocSync`. |
| `StorageAdapter` | Tasks, chunks, saves that fail or are pending, flush, restart. |
| `DurableLog` | Abstract: a log that only grows and is read whole. `StorageAdapter` implements it. |
| `WorkQueue` | Work items, commands, outbound buffer, flush, ready states, throws. |
| `Middleware`, `Interceptors` | Checks of received messages with the rate limiter; the chain on the way out. |
| `Presence` | Ephemeral stores, relays, heartbeats, removal. |
| `AdapterLife`, `RepoHandles` | Adapters added, reset, removed, shut down; handles and ephemeral stores of a Repo. |

On the wire:

| Module | Role |
|---|---|
| `Reassembler` | Fragments over a transport that loses, delays, reorders and repeats. |
| `WireCodec`, `CompatCodec` | Encodings of both protocols as bytes or JSON, and back. |
| `WsLink`, `WsEvents` | WebSocket client state machine with its server; what listeners hear of it. |
| `PollLink`, `SseLink`, `WebRtcLink`, `CompatLink`, `BridgeLink` | Both ends of each other transport. |

On top:

| Module | Role |
|---|---|
| `Lens` | Worldviews, filters, the queue of changes made in answer to events. |
| `TextField`, `UndoScopes`, `ViewStore` | Hooks: an input element, undo by namespaces, the store behind `useValue`. |
| `TypedRecord`, `ListRef`, `PlainValue`, `TreeRef` | Typed refs, their caches, overlays and commits. |
| `Shapes`, `FlatStorage` | Placeholders, validation, upgrades; names of containers, JSON, path subscriptions. |
| `JsonPatch`, `ReplayDiff` | Patches within one `change()`; a fork's diff done again. |

Composition: `MCStorageFirst`, `MCDocSync`, `MCStorageAdapter`, `MCTransports`,
`MCPipeline`, `MCPackages` (values for TLC). Proofs: `StorageFirst_proofs`,
`DocSync_proofs` and `StorageAdapter_proofs` are each about the module they are
named after. `Middleware`, `Reassembler` and `WorkQueue` hold their proofs
themselves, after their properties, so that each instance of them has the
theorems; `MCPipeline` puts these together to prove properties that the run
`pipeline` checks, and holds the proof about its interceptors. `MCTransports`
begins with eight of its members, `Life`, `Bridge`, `Rtc`, `Sse`, `Ws`, `Poll`, `Ev`
and `Compat`, each followed by the proof about it; the theorems of the whole come last. Its
constants get their values in `Transports.cfg`, so that the proofs leave them open.

`MCTransports`, `MCPipeline` and `MCPackages` hold a family of
instances each: a behaviour is about one member, named by its first variable,
and the others stay where they start. So one run asks the same question of
several parts without multiplying their states. The modules reached this way
name their assumptions `XAssumption`, and the MC module asserts them.

A version of a document is the set of operations applied: *ahead* and *behind*
are inclusion, other versions are concurrent. Operations whose dependencies are
missing are kept but not applied, as `LoroDoc.import` does. Definitions named
with a comment starting "Bug:" are faulty variants, used by no action; they
are substituted to see that each property notices them. Loro itself, the
browser's sockets, `RTCDataChannel`, input elements and React are modelled from
how the code uses them.

### StorageFirst and the code

| Model | Code |
|---|---|
| `channels`, `documents`, `pendingStorage`, `pendingReqs` | `model.channels`, `model.documents`, `docState.pendingStorageChannels`, `docState.pendingNetworkRequests` |
| `subscriptions`, `awareness` | `peerState.subscriptions`, `peerState.docSyncStates` |
| `loads` | promises of `StorageAdapter.handleSyncRequest` that have not settled, with the version each started from |
| `RequestDenied` / `RequestConsults` / `RequestAnswered` / `RequestParked` | the four ways through `handleSyncRequest` |
| `StorageReplies` | reply of an adapter, `handleSyncResponse`, `cmd/import-doc-data`, `handleDocImported`, answers to the parked requests, the adapter's own sync-request |
| `ChannelRemoved` | `handleChannelRemoved`, drained queues included |
| `HandleSyncResponse`, `HandleUpdate`, `HandleStatus`, `HandleNewDoc` | `applySyncTransmission` for data and for statuses, `handleNewDoc` |
| `DocEnsure`, `LocalDocChange`, `DocDelete`, `HandleDeleteRequest` | the handlers of the same names |
| `requester`, `answer`, `consulted`, `failed`, `holds`, `deletes` | history for the properties and bounds; not in the code |

Abstractions: each channel leads to a peer of its own; the order of parked
requests is a set (each is answered by its own command in one step);
`Persisted` is constant, saves are in `StorageAdapter`; an adapter's
reply and its reciprocal request are one step because both are delivered
synchronously and handled in one run; reads of a batch are concurrent, which
allows every order a sequential batch has; a directory-response changes the
state as a new-doc does. Operations keep their identity across deletions, so
content is checked only where nothing is deleted.

### DocSync and the code

| Model | Code |
|---|---|
| `channel`, `known`, `subs`, `awareness` | `model.channels`, `model.peers`, subscriptions and awareness per peer |
| `net`, `up` | the transport: ordered per direction, loses what is in flight when it breaks |
| `Connect`, `Break`, `ChannelRemoved` | channel-added and establish-channel at both ends; the transport; channel-removed at one end |
| `AllDocsToSync`, `ChangedDocToSync`, `DocToSync` | `getAllDocsToSync`, `getChangedDocsToSync`, and the choice in `handleEstablishResponse` |
| `Propagated`, `AfterPropagation` | `propagateToPeers`: the messages and the beliefs |
| `HandleReply` | a batch of a sync-response and the reciprocal sync-request: both change the model, then their commands run |
| `Restart` | a process that comes back under its peerId with nothing |
| `SyncApi!Emit`, `WaitForSync` | `#emitReadyStateChanges`, `SyncRef.waitForSync` |
| `Deletion!DeleteDoc`, `HandleDeleteRequest` | `repo.delete`, `handleDeleteRequest` with the permission of the peer |
| the last section of `DocSync` | `toProtocolMessages` / `fromProtocolMessage`, and the simulated handshake of either end |

One document is enough, because documents do not interact; permissions admit
everything (`StorageFirst` has those that do not); storage is in `SyncApi`. An
import is handled in the step of the message that brings it; `Restartable`
Repos lose everything but their peerId; middleware that
answers late lets one message overtake another (`MaxOvertakes`). A pair of Repos has one channel at a time and
reconnects when both ends noticed the break. `channelDispatcher` rejects
messages on channels that are not established; no such message exists in any
reachable state, which `NoneRejected` checks, so there is no action for it.

### The other modules and the code

- **`StorageAdapter`.** A task is a promise of `#pendingOps`; its steps are the
  awaits of the handler, one per batch message. A chunk's key is a document and
  a stamp of `Date.now()`. `ClockBack` lets the clock go back, `InRange` says
  which keys a range read of the back end finds; the Repo's side is that of
  `StorageFirst` with the storage peer alone.
- **`WorkQueue`.** `Take`, `Execute...` and `FlushChannel` are the loop of
  `work-queue.ts`, `command-executor.ts` and `outbound-batcher.ts`; an adapter in
  `Replying` answers within a send, which enqueues and returns.
- **`Middleware`, `Interceptors`.** Checks and continuations are records that
  settle in any order.
- **`Presence`.** What one run of the work queue sends over a channel is one
  batch, whose entries are applied, and passed on, together; `touch()` sets every
  entry anew, so its timestamp is the sender's, and the store's event tells the
  other subscribers. All clocks are one, which never gives a timestamp twice.
  Everybody has the document from the start, so no request is parked (a request
  with presence belongs to a handshake, and its batch brings the same presence
  again as a broadcast), and a link comes back when both ends noticed its loss.
- **Transports.** A socket has a state at either end; each end learns of it by
  events of its own. Client state machines have the statuses and transitions of
  the code. What messages carry is in the other modules: here they are the hand
  shake, the ready signal and numbered data.
- **Typed documents.** A field's value is the stamp of its write, or a member of
  a small set; a container is its identity. Merging keeps the later of two
  stamps. Inside `change()` refs are new, outside they are cached for good.

Some behaviours break what a module promises, and the code neither prevents
them nor says that they are excluded. Some of these the runs contain, and the
property says whom it does not speak of: see "Exempted" in section 3. For the
others the constants `EarlyReady` (`WsLink`), `CutFirst` (`PollLink`),
`StartsFirst`, `OwnCleanup` (`WebRtcLink`), `StopsSettled` (`CompatLink`),
`Serial` (`AdapterLife`), `ClockBack`, `InRange` (`StorageAdapter`), `Calm`
(`Deletion`) and `Risks` (elsewhere) admit them; the passing runs choose the
values given in section 3, and what was seen with the others is under
"Behaviours left out".

## 3. Runs

| Run | Instance | Question |
|---|---|---|
| `storage_first` | 2 adapters (one holds `a`, the other `a` and `b` that depends on it), 2 peers, 2 requests, a local operation; or, guarded, 1 adapter, peers that bring `c`, one that may neither create nor write, one that is told of nothing | Is anybody answered short of storage? Does a subscriber ever lack something nobody will send? Is it a barrier? |
| `storage_first_live` | 2 adapters, 1 peer, a deletion, fairness | Does everything parked wait for something owed, and is it settled? |
| `doc_sync` | clients `A`, `B`, server `S`, one operation each | Are subscriptions mutual, beliefs sound, deltas gap-free over a relay? |
| `doc_sync_links` | `A` and `S`, both initiate and hold the document, 2 breaks, a restart, an overtaken message, fairness | Are lost messages made up for, nothing rejected, and agreement reached for good? |
| `storage_adapter` | 1 document, `a` and `b`, 3 tasks, 1 restart, 1 failed save; or a document deleted while it is saved, 2 tasks; or 2 documents in one batch, 1 task | Is what flush reported on disk, does flush end, is the log durable and read whole? |
| `transports` | the 10 members below | Do both ends agree, recover, and repeat nothing? |
| `pipeline` | the 10 members below, and the 6 of what applications see | Is a message lost, repeated, reordered or held up inside a Repo or between two? |
| `packages` | the 14 members below | Do applications see, and write, what documents hold? |
| `storage_first_ensured` (violated) | 1 adapter, 1 peer | Is a document the application opened protected by storage-first? |
| `storage_first_stale` (violated) | 1 adapter, 2 peers, a deletion | Does a reply end only the wait it belongs to? |
| `doc_sync_restart` (violated) | `A` and `S`; `S` restarts once | Is a restarted server refilled? |
| `undo_scopes` (violated) | the member undo of `packages` | Does an undo in one field leave the other alone? |

**Members of `transports`.**

| Member | Module, instance | What its part of the properties says |
|---|---|---|
| websocket | `WsLink`, 4 sockets, 3 attempts; the server hears of a close early or late | both ends agree at rest, no invalid transition, a channel exists while the client is ready, gives up only after its attempts, links up for good |
| polling | `PollLink`, 2 polls, 2 messages, 2 attempts per POST; a connection cut, from the first poll on | server messages arrive once and in order; until a cut none is lost, a held poll is answered and a POST ends |
| sse, ssedata | `SseLink`, 3 streams, 2 reconnects; with a failing POST, or with data | both ends agree, though the server hears late of an abort; given up only after reconnects; links up for good |
| webrtc | `WebRtcLink`, 2 data channels, 2 attachments, a stop | an open attached channel is served, no channel is orphaned |
| compat | `CompatLink`, 4 sockets, 2 attempts, 3 losses; closes early or late | one socket open; both ends agree; recovers |
| bridge | `BridgeLink`, 3 adapters | every pair established once, on its own present channel |
| life | `AdapterLife`, 2 Repos, 3 adapters, 2 ids, 3 calls | model and directories agree; started again only after a stop; calls end |
| events | `WsEvents`, 6 steps | listeners miss no state; a first connection is not told as a reconnection |
| codec | `WireCodec`, every message type, alone or in a batch, one fragment size | what is decoded was encoded, cut frames are reported |

**Members of `pipeline`.**

| Member | Module, instance | What its part says |
|---|---|---|
| queue, throws | `WorkQueue`, 3 channels; adapters that answer within a send, or 2 throws | order kept, nothing left at rest; after a throw nothing twice, and the rest leaves with a later run |
| middleware | `Middleware`, window and limit 2, 3 messages | window never exceeded, refused for cause, handled once, rejected never, checks settle |
| fragments, copies | `Reassembler`, 3 messages, 2 batches, 3 units; or each payload twice | limits, own timers, nothing made up, every batch ends |
| presence, values, relay | `Presence`: a hub with 2 clients, of which one shows a value, a heartbeat and a lost link; a client that shows 2 values while the other joins; a triangle and a lost link | peers agree, own entries stay, the gone disappear, relays die out |
| codec | `CompatCodec`, strings and numbers at the boundaries of LEB128 | round trip, exact size |
| interceptors | `Interceptors`, 3 (`Hooks`), two of which delay (`Slow`), `MaxHooked` = 2 messages, added `MaxAdds` = 3 times | each message passes all of them |
| compat, reload, late, early, refused, granted | `DocSync`, `SyncApi`, `Deletion`: compatible protocol; reload of a client; `waitForSync` late, early; deletion refused, granted | Repos agree at rest; a call never misses its state and holds what it promised; things end |

**Members of `packages`.**

| Member | Module, instance | What its part says |
|---|---|---|
| lens, chain | `Lens`, one with a filter that reacts to events, or two in a chain | changes arrive once and in order, the rejected stay hidden, no lens stays locked |
| text | `TextField`, 2 characters and 2 more; keys that insert, break, delete back, forward, by selection and by word | the element shows the text; a caret keeps its place |
| undo | `UndoScopes`, 2 namespaces, 2 edits, 2 undos, in any namespace | undo takes back nothing of a namespace that was registered earlier |
| view | `ViewStore`, 2 targets that are cached by version, 2 selectors, 3 changes | what is rendered is current; the lens shown is alive |
| record | `TypedRecord`, 2 peers, one with a schema, clock 4 | modes agree, no entry is hidden, a write is read |
| list | `ListRef`, 3 items, movable | a ref is of the item asked for |
| plain | `PlainValue`, 2 peers, 2 fields, clock 3 | the view before an event is before it; no sibling changes with a field |
| shapes | `Shapes`, the shapes of `Upgradable` | what is read fits the schema, after an upgrade too |
| handles | `RepoHandles`, 1 document, 1 namespace | handles are of the document there is; subscribers are told all |
| tree | `TreeRef`, 3 nodes | four ways to read agree; all is committed |
| patch | `JsonPatch`, patches of 2 operations on a list of values and a record; no rows | a patch is RFC 6902's; one that throws at once does nothing |
| flat | `FlatStorage`, structs, records, texts, lists | names are unique, JSON is whole, subscribers are told |
| replay | `ReplayDiff`, 1 edit before, 2 after the fork | the target becomes the fork |

**Bounds.** Two adapters are the least with a reply that is not the last; two
requests the least with a queue; two peers let one write while the other waits;
`b` depending on `a` shows gaps. One deletion gives a second generation of the
same document and with it stale reads. Three Repos in a line are the least with
a relay; two breaks allow the repair of a loss to be lost as well. Three tasks
are the least with a save that overtakes a save and a read that overlaps both.
With four sockets a replacement is itself replaced while the close of the first
may still be to come at the server. `JsonPatch` has no row in its movable list; one
row has too many states for this run (1.1 million), and the properties hold there
too. Three fragmented messages with room for two force
an eviction. Artificial bounds are the constants named `Max...`; each occurs in
the guards of the actions it counts, and `Last` counts sockets. Requests,
operations, tasks and channel identities are finite sets. `Permutations` is used
for requests and tasks, in runs without liveness only. Deadlock is not
checked: when the bounds are used up the system may rest.

In `doc_sync_links`, `doc_sync_restart` and the member reload a Repo that
restarts makes at most one operation in its life, so that no operation's
identity is used twice.

**Fairness.**

- `StorageFirst!FairSpec`: a read on a live channel settles, because every path
  of `StorageAdapter.handleSyncRequest` replies, in its catch clause too; a back
  end whose promise never settles is excluded, and would block its requesters
  for good since the code has no timeout. `StorageAdapter!FairSpec`: tasks take
  their next step.
- `DocSync!FairSpec`, and the same in `MCPipeline`: messages on a link that is up are received,
  broken links are noticed, and links come back. The last holds while the
  client's attempts are not used up (10 by default, counted anew after each
  success); `WsLink`, `SseLink` and `CompatLink` have the attempts themselves and
  say "linked for good, or given up".
- Transports: timers fire, the events of a socket are delivered, polls and POSTs
  are answered or fail, a call that awaits a stop goes on.
- `WorkQueue`: the loop runs while it has work, and the heartbeat beats, which
  is what picks up what a throw left. `Middleware`: checks answer.
  `Reassembler`: timers fire. `Presence`: messages are received.
- Application steps, breaks, losses, restarts, removals and deletions are never
  fair.

**What the violated runs show.**

- `NoAnswerBeforeStorage`: `handleDocEnsure` does not set
  `pendingStorageChannels`, so a peer that asks for a document while the read
  started by `repo.get` is outstanding is told that it is empty. Storage-first
  covers only documents a network peer asks for first.
- `NoPrematureAnswer` with a deletion: `handleSyncResponse` counts any reply of
  a storage channel. One to a read from before the deletion ends the wait of
  the request that came after it.
- `RestartedRefilled`: after the handshake a client consults what it believes of
  the peerId. A restarted server is believed to have what it had, so nothing is
  sent, and `TECHNICAL.md:805` says clients sync their data to it. It happens
  when the server keeps its peerId and loses its documents.
- `UndoStaysInField`: the manager of a namespace excludes the namespaces that were
  registered before it, and the exclusion cannot be changed later. So the namespace
  registered first undoes what was typed in the others, although all were
  registered before anything was typed, as `hooks-core/README.md:319` advises.

### Exempted

Some of what breaks a promise of the code happens in the passing runs. There the
property names those it does not speak of, by what happened to them, and holds for
all others.

| Property | Does not speak of | Because |
|---|---|---|
| `QuietAgree`, `Recovers` of `WsLink`, `SseLink`, `CompatLink` | a client whose connection was taken away by the late close, or with SSE the late arrival, of another of its own (`Overtaken`) | The server registers by peer: the late event finds the successor under the same peerId and removes it (`websocket/src/server-adapter.ts:143`, `sse/src/express-router.ts:217`). The client's socket stays open and nothing tells it. |
| `OwnValueStays`, `GoneIsGone` of `Presence` | a peer of which somebody, at a heartbeat, a handshake or an answer, stamped a copy that was outdated; or whose entry was deleted, and the deletion told, by a peer that lost its own link to it only (`raced`) | `touch()` gives every copy the present time (`timerless-ephemeral-store.ts:80`), so the outdated copy wins over what its owner set in between, also at its owner. `QuietAgree` has no exception. |
| `CaretStays` of `TextField` | a key that deletes at a collapsed caret anything but the one character before it | every delete moves the caret back by one (`input-handlers.ts:154`); the test `input-handlers.test.ts:24` asserts it for forward deletes. |
| `UndoIsOwn` of `UndoScopes` | what was written in a namespace registered later, and what another manager had undone | `calculateExcludePrefixes` (`undo-manager-registry.ts:134`); the run `undo_scopes` shows it. |

Of a compatible client that means: after a reconnect that overtook the close of
the first socket its `isConnected` is true, no timer is pending, and the server
has no channel. `__tests__/server-adapter.test.ts:131` ("should replace existing
connection") closes nothing late.

### Behaviours left out

The passing runs leave out what follows. While each module was written, what is
left out was seen to break the property named.

| Module | Left out | Broken |
|---|---|---|
| `StorageFirst` | an operation that arrives before one it depends on: the peer that then brings the latter is believed to have both | `SubscribersServed` |
| `StorageAdapter` | the clock is set back | `UniqueKeys`: a save replaces a chunk |
| | a back end that compares keys as strings (LevelDB, IndexedDB) and ids that are prefixes of each other | `ReadsOwnChunks` |
| | - (always) | `RemovedIsGone`: the key removed is not the key saved under |
| `DocSync` | `Deletion` while messages are on their way | `HoldersAgree`; `StaysDeleted` and `NoOrphans` in any case |
| `Middleware` | - (always) | order between messages: see `MaxOvertakes` |
| `Interceptors` | the chain changes while a message is held | `PassesAll`: an interceptor is skipped (`adapter.ts:326`) |
| `WsLink` | a message between the open event and the continuation of its promise | `NeverThrows` |
| `WsEvents` | the same; the application acts between two microtasks | `FirstIsFirst`, `WaitsAreTrue` (`client.ts:631`) |
| `PollLink` | a cut before the client has its channel | `QuietAgree` |
| `WebRtcLink` | channels attached before the start; the clean-up of an earlier attachment | `OpenIsServed`, `CleanupIsOwn` |
| `CompatLink` | a stop while connecting | `StoppedIsInactive` |
| `AdapterLife` | calls not awaited; an adapter that removes itself | `Agree`, `OpensOnce` |
| `Lens` | a chain whose listeners change it | `ChangesArrive`; `AcceptedIsShown` (`filters.ts:11`) in any case |
| `TextField` | changes before the subscription, or while composing; an element removed while composing | `InputShowsText`, `CaretStays` |
| `UndoScopes` | a selection replaced, which is two commits of which the second has no origin | `UndoIsOwn` |
| `ViewStore` | a change between render and effect; effects run twice | `ViewIsCurrent`, `LensIsAlive` |
| `TypedRecord` | modes chosen before peers meet; a key whose container changes while its ref is cached | `ModesAgree`, `WritesShow` (`map-based-ref-internals.ts:112`) |
| `ListRef` | a shift under a ref that was never used; `move()` with refs cached | `GetIsItem` |
| `PlainValue` | the view before an event that adds a field; a struct read whole with fields missing | `BeforeIsBefore`, `ReadsAgree` |
| `Shapes` | fields added inside unions, arrays and records of values | `ReadsAreValid` |
| `RepoHandles` | peers that delete; use after `shutdown`; peers' data before an external store; a callback that writes | `HandlesAreLive`, `OwnStoreFits`, `ToldAll` |
| `TreeRef` | a node created with some data; a draft's ref used later | `ReadersAgree`, `AllCommitted` |
| `JsonPatch` | a later operation fails; a missing key; `move` within a list of a movable list; a path prefix with `move` or `copy` | `FailedIsUndone`, `PatchIsStandard` (`typed-doc.ts:317`) |
| `FlatStorage` | a subscription to a whole struct or record | `TellsChanges` (`path-subscription.ts:91`) |
| `ReplayDiff` | new tree nodes with data; a diff before its parent's | `ReplayedIsSource` |

Seen while modelling, and not stated as properties: in a mergeable document the
refs look for the container of a top-level key under the key as it is
(`doc-ref-internals.ts:73`), `toJSON()` under the escaped one, so what is under a
key with a hyphen is missing there; `docs` of presence say the
heartbeat has no hops left, the code sends one; `addAdapter` during the removal
of the same id is lost; a POST whose attempts all fail is lost; the compatible
protocol resets the hop count of ephemeral data and drops deletion markers;
a `waitForSync` that timed out stays subscribed; one for a document that was
removed resolves at once; `reset()` replaces the model without telling ready
states; `docs/permissions.md:110` gives another default for deletion than
`permissions.ts:113`; `replace()` and merges of structs outside `change()`
commit after each key; ephemeral stores survive their document.

## 4. Proofs

The theorems hold for every value of the constants that satisfies the named
assumptions of the module, most of which only give the constants their types.
A further hypothesis is part of the theorem, and explained below. Each safety
property is reached the same way: an invariant of named parts, one lemma for
each action (or for each part of a state the action disturbs), and a last step
of temporal logic.

| Theorem of `StorageFirst_proofs` | States |
|---|---|
| `TypeCorrect` | `Spec => []TypeOK` |
| `BarrierSound`, `WaitsAreOwed`, `ParkedAreAnswerable` | `ParkedAwaitsStorage`, `WaitIsOwed`, `ParkedIsAnswerable` always |
| `Refinement` | `Spec => ImplementsBarrier` |
| `ParkedNeverLost` | `Spec => ParkedLeavesForCause` |
| `StorageFirstHolds` | `MaxDeletes = 0 => (Spec => NoPrematureAnswer)` |
| `SubscribersAreServed` | `PlainHistory => (Spec => []SubscribersServed)` |

*The barrier.* The three parts of the barrier are not inductive alone. That a
parked request is not answered twice needs that a request nobody sent is neither
parked nor answered (`FreshUnanswered`); that the drained queue belongs to
established channels needs that requesters of parked requests are removed with
their channel; that a wait is owed needs the outstanding reads to be typed.
`IInv` is the conjunction of `TypeOK`, the three parts and `FreshUnanswered`.
`Refinement` and `ParkedNeverLost` use it at each step: a request is new to the
barrier because it has no requester, and `Report` releases exactly the documents
`Drained` names. `ParkedAwaitsStorage` says that a parked request waits for some
storage; the runs check the stronger `WaitIsOwed` and `ParkedIsAnswerable`.

*No premature answer.* `HeardInv` adds to `IInv` that an outstanding read starts
from a version the document still has (`ReadsBelow`), and that each adapter
consulted for a waiting document is still waited for, or gone, failed, without
permission to write, or has all it holds in the document (`ConsultedHeard`).
The first is what a deletion breaks: then a reply counts for a read it does not
belong to, which is what `storage_first_stale` shows, so `MaxDeletes = 0` cannot
be dropped.

*Served subscribers.* `PlainHistory` says that nothing is deleted and that what
peers bring depends on nothing; what storage holds, and what the application
writes, may depend on anything. `ServedInv` says that no operation is held back
(`Gapless`), that an unknown document is empty, that only established channels
subscribe, and that the peer behind a subscribed channel has everything unless
its request is parked, in which case what it is believed to have the Repo has
too (`AllServed`): so the answer to the parked request, computed from the
request, and every update, computed from the belief, leave nothing out.

| Theorem of `DocSync_proofs` | States |
|---|---|
| `TypeCorrect` | `Spec => []TypeOK` |
| `NothingRejected` | `Spec => []NoneRejected` |
| `Refinement` | `Spec => ImplementsReplicas` |
| `BeliefsAreSound` | `Spec => [](restarts = 0 /\ overtakes = 0 => AwarenessSound)` |
| `NoGaps` | `Spec => [](restarts = 0 /\ overtakes = 0 => CausallyComplete)` |
| `QuietAreSubscribed` | `Joined` implies `Spec => [](breaks = 0 /\ restarts = 0 /\ overtakes = 0 => QuietSubscribed)` |
| `QuietAreConverged` | `Joined` implies `Spec => [](breaks = 0 /\ restarts = 0 /\ overtakes = 0 => QuietConverged)` |

They hold for any number of Repos on any topology, and any number of breaks,
restarts and overtakings. `Typed` also types every message in flight; its parts
are sets of operations that were *made*, so no message can invent one.

*Handshake.* For each ordered pair of Repos `HandshakeInv` says which messages
come first on a link, given the state of the channel at either end: whoever is
not established yet reads a message of the handshake before anything else. It
must cover crossing requests, a link broken with messages in flight that only one
end has noticed, and overtaking, which never moves a message of the handshake.

*Replicas.* `CausalInv` says that the dependencies of an operation are closed.
An import applies a closed set, so each step is a `Write`, a `Merge` or a
`Forget`. `Merge` admits operations that no replica has at that moment: one may
be in flight, or held back, when its author restarts and forgets it.

*Beliefs.* While no link broke, no Repo restarted and no message overtook
another (`AwarenessSound` and `CausallyComplete` themselves ask for no break),
every pair is `Synchronous`: a subscriber has, or will read in the messages on
their way to it, all that the other has (`Subscribed`); what it is believed to
have is part of that (`Believed`); the messages in flight can be read in order
without a gap and each is true of its sender (`Queued`). The invariant
`BeliefInv` carries this under the condition, so that disturbed steps keep it by
breaking the condition.

*Telling.* `Synchronous` says what subscribers have, not that there are any.
`TellingInv` adds, under the same condition, that who has the document tells each
established neighbour (`Told`): the neighbour subscribed, or one of the two asks
or announces in a message under way (`Leads`), or the Repo knows nothing of the
neighbour and awaits data whose import will announce the document to it
(`WillTell`), which is how news crosses a Repo that did not have the document
when it met its neighbours. The announcement is the delicate part: a Repo that is
asked for a document it lacks creates it without telling anyone, and only the
import of the answer does. `Met` (a peer met before is established) excludes the
short cut of `getChangedDocsToSync`, and `Blank` says that who lacks the document
holds nothing of it. At rest nothing is under way, so neighbours of a holder are
subscribed and hold the document, and have what it has. `Joined` says that the
links join all Repos: without it there are parts that never hear of each other.

| Theorem of `StorageAdapter_proofs` | States |
|---|---|
| `KeysAreUnique` | `Prudent => (Spec => UniqueKeys)` |
| `Refinement` | `Prudent => (Spec => ImplementsLog)` |
| `QuietIsDurable` | `Prudent => (Spec => []QuietDurable)` |
| `FlushIsDurable` | `Prudent => (Spec => FlushDurable)` |

`Prudent` is the choice of the passing run: the clock is not set back, and a
range read finds keys of the document asked for only. Without the first a save
replaces a chunk, without the second a document takes operations of another.
Documents are finitely many, because the handlers go through them one by one,
and the constant for "nothing read" is not a read.

`StoredInv` is about the back end alone. `KeysInv`: keys that are stored, or about
to be, differ from each other and are not later than the clock and its counter.
`FloorInv`: what was stored when a read was asked for is still there when it is
carried out, and what was read is still there when it is used. From these the
log grows and is read whole. `SafeInv` ties the Repo to it: what the adapter is
believed to have is stored, was lost with a failed save, or is on its way to the
back end (`Believed`); each document is about to be asked for, or is subscribed
and all of it is stored, lost or on its way (`Covered`), across the read, the
subscription and the reply that follow each other; what a flush owes is still in
the Repo (`Owed`); and a channel that is not established has the adapter's
request ahead of it (`Open`). At rest nothing is on its way, which is
`QuietDurable`; `FlushDurable` is the same for the tasks a flush waits for.

| Theorem of `MCPipeline` | States |
|---|---|
| `LimitsHold` | `Spec => []Limits` |
| `RejectedStays` | `Spec => RejectedStay` |
| `NothingIsLeft` | `Spec => []NothingLeft` |
| `OnceAndInOrder` | `Spec => []OnceInOrder` |

Each is composed of theorems of the parts, which hold for every value of the
parts' constants; the values the family gives them satisfy their assumptions
(`Constants`), and every behaviour of the family is one of each member
(`Members`).

| Theorem | States | Assumes |
|---|---|---|
| `Middleware!TypeCorrect` | `[]TypeOK` | `BoundAssumption`: numbers, a window and a batch that are not empty |
| `Middleware!WindowBounded`, `OnlyFullRefuses`, `EachHandledOnce` | `WindowBound`, `RefusedForCause`, `HandledOnce` always | the same |
| `Middleware!NoneWhileOpen` | `RejectedStay` | the same |
| `Reassembler!TypeCorrect` | `[]TypeOK` | `CountAssumption`, `LimitAssumption`: each message has a fragment, each limit admits one |
| `Reassembler!LimitsKept`, `TimersOwned`, `NoneMadeUp`, `WholeHandedOn` | `WithinLimits`, `OwnTimers`, `NeverMadeUp`, `HandedOn` always | the same |
| `WorkQueue!TypeCorrect`, `NoneTwice` | `TypeOK`, `NeverTwice` always | finitely many channels, work that is commands for them |
| `WorkQueue!AllGoOut`, `RestsQuiet` | `AllInOrder`, `RestIsQuiet` as long as nothing was thrown | the same |
| `MCPipeline!ChainHolds` | `PassesAll` of the member interceptors | - |

*Middleware.* What the limiter keeps of a peer are the last of the times at which
its messages passed; the others are out of every window to come (`Tracked` in
`WindowInv`). So the clean-up, which forgets a peer, loses nothing that counts.
From this follow both that `Limit` messages later a window has gone by and, when
one is refused, that `Limit` messages passed in the window before. `EnvelopeInv` says that envelopes under way share no message and that a
message handled is in none of them; that no more is handled than was let pass
needs those under way to be counted too (`Seen`).

*Reassembler.* `Flight` (the byte count is that of the batches held, one batch of
a message, each with its own timer, both limits) is the part that the eviction
loop disturbs. The loop removes the oldest batches while the memory limit is
exceeded, and may remove the one that just grew; that it stops in time needs that
removing more batches never leaves more bytes, and that all of them leave none
(`EvictionsAre`). `Ledger` counts arrivals against what was handed on and what is
held, and `Progress` says that a message that lost no batch has one that holds
all that arrived, or is yet to start.

*WorkQueue.* `TypeInv`, `PhaseInv` (which parts of the state are empty in which
phase) and `OrderInv` (what was sent, what the flush holds and what is buffered
rise, each below the next) hold whatever throws. `CalmInv` says that before any
throw these three are all messages made, and that a rest leaves nothing. After a
throw of a send that part of `AllInOrder` is false: what the flush held is gone.
Therefore the hypothesis `throws = 0`, which the member queue satisfies by its
bound.

*Interceptors.* `ChainInv`: a message held saw the chain up to an interceptor that
delays, and the chain is the one the message started with, which is the choice
`Risks = {}`. It is proved for every set of interceptors and any bounds.

| Theorem of `MCTransports` | States |
|---|---|
| `NoneGivesUpEarly` | `Spec => []GivesUpForCause` |
| `ChannelsStayLive` | `Spec => []ChannelsAreLive` |
| `NothingGoesStale` | `Spec => NothingStale` |
| `OnceEverywhere` | `Spec => []OnlyOnce` |

| From | About | Assumes |
|---|---|---|
| `WsSound` | `NeverThrows`, `GivesUpLate`, `ChannelWhileReady` of a client that is started once, with any number of sockets, attempts and losses, closes that come late too | a socket and an attempt |
| `SseSound` | `GivenUpForCause` of a client without data, with any number of streams, starts and failures | an attempt per POST |
| `RtcSound` | `OpenIsServed`, `NoneOrphaned` of adapters started before anything is attached, with any number of data channels and stops | - |
| `BridgeSound` | `OwnConnection`, `EstablishedOnce` for any adapters and starts | finitely many adapters |
| `PollSound` | `NothingLost`, `InOrderOnce` of a client that is started once, with any number of polls, messages, POSTs, attempts and cuts | - |
| `EvSound` | `NoneSkipped`, `FirstIsFirst`, `WaitsAreTrue` for any waits and transitions, as long as nothing comes between two microtasks | - |
| `CompatSound` | `OneOpen` of a client that is started once and not stopped while it connects, with any number of sockets, attempts and losses | - |
| `LifeSound` | `Agree`, `OpensOnce`, `RemovesStopped` for any Repos, servers, stores and ids, when calls that change a map follow each other and resets overlap anything | `LifeAssumption`, which gives types |

The run's values of the constants that choose behaviours (`EarlyReady`,
`StartsFirst`, `Serial`, no data for SSE) are part of the instances, for the
reasons given under "Behaviours left out"; `OwnCleanup` is open in the proofs.

*WebSocket.* `WsInv` says, for each status of the client, where its socket and its
promise are, and that sockets before the present one are over: so an event of a
socket that was replaced finds a client that no longer listens to it, which is
why the state machine is never asked for an invalid transition. What counts
attempts is `FailedUpTo`: while the client tries for the n-th time the n - 1
sockets before the present one all failed. `attempt` alone would not do: it is a
number that a successful connection sets back.

*SSE.* `PostsInv`: without data there is one POST at most, it listens to the
controller the client has, and it has failed less often than it may.

*WebRTC.* `RtcInv`: for each side, the listener is that of the attached data
channel, and there is a Loro channel exactly while that is open (`Served`). The
two sides are independent of each other.

*Bridge.* `BridgeInv`: the numbers of channels are used once and were issued, both
ends of each are on the Bridge, and a message in flight fits (`Fits`): as long as
the number it is delivered to is in use, it is that of the pair it was sent
between, and the number it was sent on is that of the other end. A stop withdraws
numbers, so what it overtakes is delivered to nobody. `channel` is what
`deliverMessage` looks up before it queues the message; `sent` is the model's record
of the sender's channel, which the code does not pass on. `AskedOnce`, beside it,
says that the requests on their way and those handled use channels of their own:
a start gives its requests numbers that are new, and a request is handled when it
leaves the queue.

*Polls.* `PollInv` has two parts. `PollsInv` holds whatever is cut: one poll is
awaited (`OneAwaited`), a resolver is that of a poll held, while the queue is empty
(`HeldPolls`), and what was received, is coming and is queued ascends, each list
before the next (`PollOrder`). `PollsKept` is about a client that polls and lost
no poll: then no message is elsewhere (`Covered`), and either the client has
established, or no message was sent, or the response of the hand shake comes before
the first (`PollTold`). This last part is what `NothingLost` hangs on: messages
that arrive before the channel is established are dropped. The claim ends with the
first cut, because the server takes messages out of its queue when it answers.

*Client events.* `EvInv`: at most one transition is pending, from what was heard last
to the present status (`OnePending`); a client that remembers a connection told, or
is about to tell, that it is ready (`ReadyKnown`); a wait whose status came is
resolved by the transition that is pending (`WaitsKept`).

*Compatible client.* `CompatInv`: the client connects, serves, waits for its timer or
does none of these, and only its own socket is connecting or open (`CompatSockets`);
every other one is closed, or closing because the client was stopped.

*Life.* Calls of `removeAdapter`, `reset` and `shutdown` overlap at their awaits.
`OpsInv` says what each call under way relies on and that only resets run beside
others; `MapInv` that what is in a map is started, unless a call has stopped it and
is yet to take it out, and has that Repo's callbacks; `HomeInv` that what is
started is in the map it belongs to, unless a reset is stopping it; `KnownInv` and
`ToldInv` that a model and the directory of an adapter differ only while a call
stops the adapter.

Only model-checked:

- liveness, which rests on fairness and is out of the prover's reach:
  `ParkedIsSettled`, `Converges`, `FlushEnds`, `Recovers`, `WaitsEnd`, `HoldsEnd`,
  `EndsWell`;
- `QuietConverged` after links broke or Repos restarted, for which `BeliefInv`
  says nothing: `doc_sync_links` checks it with two breaks and a restart;
- `PresenceIsOwn`, `Agree` and `WaitsHold` of `pipeline`: the last two are about
  extensions of `DocSync` whose constants reach beyond what is proved of it
  (deletions, reloads, the compatible protocol);
- `EndsAgree` of `transports`, which speaks of both ends of every link at rest;
- the properties of `packages`: the modules it is made of use recursive operators,
  which the provers do not take;
- the properties of the violated runs, which have counterexamples.

TLC checked each of the inductive invariants, on the instances of the runs,
before it was proved.

## 5. Not modelled, and what comes next

Not modelled: the I/O of storage back ends (tables, buffers, key ranges beyond
`InRange`); framework bindings and the explorer, which pass a Repo to components;
schema code that exists for the type checker; examples and test doubles. Partly
modelled, with what is left out, are the components so marked in `PROJECT.json`:
counters and texts behind typed refs hand every call to their container;
external ephemeral stores with a timeout, the URL hash and context hooks,
commit messages on their way through a chain of lenses, and deeper nesting of
typed values are not followed. Keep-alives, logging and identity formatting
change nothing that is modelled.

Outside every model: a peer with two channels (`propagate-to-peers.ts:104`),
documents that reuse operation identities after a deletion or a restart
(`types.ts:108`), and Repos whose adapters overlap.

Open for proofs: `QuietConverged` of `DocSync` for links that break, from an
invariant of what a broken link owes; `Deletion` and `SyncApi`, which extend what
is proved of `DocSync`; that both ends of a `WsLink` agree at rest; presence.
