------------------------------- MODULE SyncApi -------------------------------
(***************************************************************************)
(* What an application sees of the synchronization of a document: the      *)
(* ready states of its peers and waitForSync (packages/repo/src/sync.ts,   *)
(* synchronizer.ts, synchronizer/state-helpers.ts).  The Repo Waiter has   *)
(* the document open, with a storage adapter, which is a peer as well, and *)
(* the links of DocSync.  Ready states are compared, and events emitted,   *)
(* when the work queue is empty: after each action.                        *)
(***************************************************************************)
EXTENDS DocSync

CONSTANTS
  Waiter,    \* the Repo whose application waits
  Store,     \* its storage adapter; no other Repo is linked to it
  Saved,     \* operations that storage holds at the start
  Served,    \* operations that the Repos in Holders have, but for Waiter
  Calls,     \* calls of waitForSync
  Kind,      \* [Calls -> {"network", "storage"}]: what each waits for
  LateCalls  \* calls are made at any time, not just when the document is opened

WaitAssumption ==
  /\ {Waiter, Store} \subseteq Repos /\ Waiter \in Holders /\ Store \notin Holders
  /\ \A r \in Repos : {r, Store} \notin Links
  /\ Saved \subseteq Ops /\ Served \subseteq Ops
  /\ Kind \in [Calls -> {"network", "storage"}]
  /\ LateCalls \in BOOLEAN

VARIABLES
  shown,  \* Synchronizer.readyStates: the states last emitted
  calls   \* [Calls -> ...]: how far each call is
apiVars == <<shown, calls>>
allVars == <<vars, apiVars>>

Peers == Repos \ {Waiter}
Unavailable == [type |-> "unavailable"]

(* getReadyStates: a peer is shown with its channels once anything is      *)
(* known of it; the Repo itself is synced if there is an operation.        *)
ReadyStates(aw, ch, log) ==
  [p \in Repos |->
     IF p = Waiter THEN [status |-> IF log # {} THEN "synced" ELSE "pending",
                         linked |-> FALSE]
     ELSE [status |-> aw[p].status,
           linked |-> aw[p].status # "unknown" /\ ch[p] = "established"]]

KindOf(p) == IF p = Store THEN "storage" ELSE "network"

(* Bug: a peer that is known to want the document counts.                  *)
ReadyWhenAware(kind, states) ==
  \E p \in Peers : KindOf(p) = kind /\ states[p].linked
(* createSyncPredicate.                                                    *)
Ready(kind, states) ==
  \E p \in Peers : /\ KindOf(p) = kind /\ states[p].linked
                   /\ states[p].status \in {"synced", "absent"}

StatesNow == ReadyStates(awareness[Waiter], channel[Waiter], oplog[Waiter])

(* Bug: states are compared without their channels.                        *)
EmitStatus(states) ==
  /\ shown' = states
  /\ calls' = [c \in Calls |->
       IF /\ \E p \in Repos : shown[p].status # states[p].status
          /\ calls[c] = "waiting" /\ Ready(Kind[c], states) THEN "resolved" ELSE calls[c]]
(* emitReadyStateChanges: the calls hear of states that differ.            *)
Emit(states) ==
  /\ shown' = states
  /\ calls' = [c \in Calls |->
       IF shown # states /\ calls[c] = "waiting" /\ Ready(Kind[c], states)
         THEN "resolved" ELSE calls[c]]

-----------------------------------------------------------------------------
ApiInit ==
  /\ docs = Holders
  /\ oplog = [r \in Repos |-> IF r = Store THEN Saved
                              ELSE IF r \in Holders \ {Waiter} THEN Served ELSE {}]
  /\ channel = [r \in Repos |-> [p \in Repos |->
       IF r = Waiter /\ p = Store THEN "established" ELSE "none"]]
  /\ known = [r \in Repos |-> IF r = Waiter THEN {Store} ELSE {}]
  /\ subs = [r \in Repos |-> {}]
  /\ awareness = [r \in Repos |-> [p \in Repos |-> Unknown]]
  /\ up = {{Waiter, Store}}
  /\ net = [r \in Repos |-> [p \in Repos |->
       IF r = Waiter /\ p = Store THEN <<SyncRequest({}, TRUE)>> ELSE <<>>]]
  /\ made = Saved \cup Served
  /\ deps = [o \in Ops |-> {}]
  /\ breaks = 0 /\ restarts = 0 /\ overtakes = 0
  /\ shown = StatesNow
  /\ calls = [c \in Calls |-> IF LateCalls THEN "idle" ELSE "waiting"]

(* waitForSync, and waitUntilReady under it: at once or after an event.    *)
WaitForSync(c) ==
  /\ calls[c] = "idle"
  /\ calls' = [calls EXCEPT ![c] = IF Waiter \notin docs \/ Ready(Kind[c], StatesNow)
                                     THEN "resolved" ELSE "waiting"]
  /\ UNCHANGED <<vars, shown>>

(* withTimeout: the time is over, or the signal aborts.                    *)
Reject(c) ==
  /\ calls[c] = "waiting"
  /\ calls' = [calls EXCEPT ![c] = "rejected"]
  /\ UNCHANGED <<vars, shown>>

-----------------------------------------------------------------------------
(* The storage adapter.                                                    *)
StorageOffer(wants) ==
  CASE oplog[Store] = {} -> Unavailable
    [] oplog[Store] \subseteq wants ->
         [type |-> "sync-response",
          offer |-> [status |-> "up-to-date", data |-> {}, version |-> oplog[Store]]]
    [] OTHER -> [type |-> "sync-response",
                 offer |-> [status |-> "data", data |-> oplog[Store] \ wants,
                            version |-> oplog[Store]]]

(* Bug: storage subscribes before it has answered.                         *)
SubscribeFirst(m) == <<SyncRequest(oplog[Store], FALSE), StorageOffer(m.wants)>>
StorageReply(m) == <<StorageOffer(m.wants), SyncRequest(oplog[Store], FALSE)>>

(* It answers a request, then asks to be subscribed, in messages of their  *)
(* own; it saves what it is sent.                                          *)
StorageReceives ==
  LET m == Head(net[Waiter][Store])
      saves == CASE m.type = "update" -> m.data
                 [] m.type = "sync-response" -> m.offer.data
                 [] OTHER -> {}
  IN /\ net[Waiter][Store] # <<>>
     /\ oplog' = [oplog EXCEPT ![Store] = @ \cup saves]
     /\ net' = [net EXCEPT ![Waiter][Store] = Tail(@),
                           ![Store][Waiter] =
                  IF m.type = "sync-request" THEN @ \o StorageReply(m) ELSE @]
     /\ UNCHANGED <<docs, channel, known, subs, awareness, up, opVars, breaks,
                    restarts, overtakes>>

(* Bug: an answer that there is nothing leaves no trace.                   *)
IgnoreUnavailable(r, p) ==
  /\ ReceivesEstablished(r, p, "unavailable")
  /\ Handled(r, p, Silence)
  /\ UNCHANGED <<docs, oplog, subs, awareness>>
(* Bug: the answer is recorded as it came.                                 *)
RecordUnavailable(r, p) ==
  /\ ReceivesEstablished(r, p, "unavailable")
  /\ Believe(r, p, [status |-> "unavailable", version |-> {}])
  /\ Handled(r, p, Silence)
  /\ UNCHANGED <<docs, oplog, subs>>
HandleUnavailable(r, p) ==
  /\ ReceivesEstablished(r, p, "unavailable")
  /\ Believe(r, p, Absent)
  /\ Handled(r, p, Silence)
  /\ UNCHANGED <<docs, oplog, subs>>

-----------------------------------------------------------------------------
Sync ==
  \/ StorageReceives
  \/ HandleUnavailable(Waiter, Store)
  \/ HandleSyncRequest(Waiter, Store)
  \/ HandleSyncResponse(Waiter, Store)
  \/ \E r \in Repos \ {Store} :
       \/ \E p \in Repos \ {r, Store} :
            Connect(r, p) \/ Break(r, p) \/ ChannelRemoved(r, p) \/ Receive(r, p)
       \/ \E o \in Ops : LocalDocChange(r, o)

Step(action) ==
  /\ action
  /\ Emit(ReadyStates(awareness'[Waiter], channel'[Waiter], oplog'[Waiter]))

ApiNext ==
  \/ Step(Sync)
  \/ \E c \in Calls : WaitForSync(c)
  \/ LateCalls /\ \E c \in Calls : Reject(c)

ApiSpec == ApiInit /\ [][ApiNext]_allVars

(* Messages arrive, storage answers, links come back.                      *)
ApiFairSpec ==
  /\ ApiSpec
  /\ WF_allVars(Step(StorageReceives))
  /\ WF_allVars(Step(HandleUnavailable(Waiter, Store) \/ HandleSyncRequest(Waiter, Store)
                     \/ HandleSyncResponse(Waiter, Store)))
  /\ \A r \in Repos \ {Store} : \A p \in Repos \ {r, Store} :
       /\ WF_allVars(Step(Receive(r, p)))
       /\ WF_allVars(Step(Connect(r, p)))
       /\ WF_allVars(Step(ChannelRemoved(r, p)))

-----------------------------------------------------------------------------
ApiTypeOK ==
  /\ shown \in [Repos -> [status : {"unknown", "absent", "pending", "synced"},
                          linked : BOOLEAN]]
  /\ calls \in [Calls -> {"idle", "waiting", "resolved", "rejected"}]

(* No call is left waiting in a state it waits for: none of the events     *)
(* that matter is suppressed because the states seem the same.             *)
NoneMissed == \A c \in Calls : calls[c] = "waiting" => ~ Ready(Kind[c], StatesNow)

(* Who waited for storage has what storage held when the document was      *)
(* opened, whatever the application and the network did meanwhile.         *)
ResolvedHasSaved ==
  \A c \in Calls : calls[c] = "resolved" /\ Kind[c] = "storage" => Saved \subseteq Version(Waiter)

(* sync.ts:122-125: who waited for the network has been given the          *)
(* document of a peer, or been told that there is none.                    *)
ResolvedHasServed ==
  \A c \in Calls : calls[c] = "resolved" /\ Kind[c] = "network" => Served \subseteq Version(Waiter)

(* sync.ts:122: waitForSync resolves when the handshake with a peer is     *)
(* completed: with all links established and nothing in flight, none waits *)
(* for the network.                                                        *)
NetworkWaitEnds ==
  Quiet => \A c \in Calls : Kind[c] = "network" => calls[c] # "waiting"

(* The same for storage, which has answered.                               *)
StorageWaitEnds ==
  net[Waiter][Store] = <<>> /\ net[Store][Waiter] = <<>> =>
    \A c \in Calls : Kind[c] = "storage" => calls[c] # "waiting"

(* Calls made when the document is opened resolve, also when a link breaks *)
(* during the handshake.                                                   *)
EarlyCallsResolve == \A c \in Calls : <>(calls[c] = "resolved")
=============================================================================
