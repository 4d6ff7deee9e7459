--------------------------- MODULE StorageAdapter ---------------------------
(***************************************************************************)
(* A Repo and its storage adapter (packages/repo/src/storage): messages of *)
(* the storage channel become loads and saves of a key-value store.  Every *)
(* message the Repo sends starts an asynchronous task (#pendingOps); tasks *)
(* interleave, the messages of one batch run one after the other.  A chunk *)
(* is stored under the key [docId, "update", timestamp]; a restart loses   *)
(* everything except the chunks.  The Repo's side is that of StorageFirst, *)
(* with the storage peer alone.                                            *)
(***************************************************************************)
EXTENDS Naturals, FiniteSets, SequencesExt, PeerState

CONSTANTS
  Docs,          \* document identifiers
  DocOf,         \* the document an operation belongs to
  Deps,          \* the operations an operation causally depends on
  Tasks,         \* bound: messages the adapter works on at a time
  InRange,       \* pairs <<d, e>>: a range read of d returns chunks of e
  ClockBack,     \* whether Date.now() may be set back
  MaxClock, MaxRestarts, MaxFailures, MaxDeletes,   \* bounds
  NoRead

ASSUME OpAssumption ==
  /\ DocOf \in [Ops -> Docs]
  /\ Deps \in [Ops -> SUBSET Ops]
  /\ \A o \in Ops : \A p \in Deps[o] : Deps[p] \subseteq Deps[o]

ASSUME DocAssumption == IsFiniteSet(Docs)

ASSUME BackEndAssumption ==
  /\ InRange \in SUBSET (Docs \X Docs)
  /\ \A d \in Docs : <<d, d>> \in InRange

(* What stands for no read is not a read.                                  *)
ASSUME NoReadAssumption ==
  \A d \in Docs, S \in SUBSET Ops, g \in {NoRead} \cup SUBSET Ops :
    [doc |-> d, floor |-> S, got |-> g] # NoRead

VARIABLES
  store,       \* the chunks of the back end
  clock,       \* Date.now()
  stamp,       \* <<lastTimestamp, counter>> of this process
  tasks,       \* #pendingOps: the messages each task works on
  channel,     \* the state of the storage channel in the Repo
  documents,   \* the documents of the Repo
  oplog,       \* their operations, pending ones included
  subscribed,  \* what the adapter's peer subscribed to
  believed,    \* the awareness the Repo has of that peer
  flush,       \* the flush or shutdown under way
  lost,        \* history: operations a save of which failed
  count        \* restarts, failures and deletions so far

repoVars == <<documents, oplog, subscribed, believed>>
vars == <<store, clock, stamp, tasks, channel, repoVars, flush, lost, count>>

-----------------------------------------------------------------------------
Applied(log) == {o \in log : Deps[o] \subseteq log}
Version(d) == Applied(oplog[d])

(* What the chunks of the documents of D hold.                             *)
Held(D) == UNION {k.ops : k \in {c \in store : c.doc \in D}}
Saved(d) == Held({d})

(* Bug: a range read returns the last chunk of a document only.            *)
LastChunk(d) ==
  UNION {c.ops : c \in {x \in store : x.doc = d /\ \A y \in store :
           y.doc = d => \/ y.key[1] < x.key[1]
                        \/ y.key[1] = x.key[1] /\ y.key[2] <= x.key[2]}}

(* loadRange([docId]): all chunks the back end finds in that range.        *)
LoadRange(d) == Held({e \in Docs : <<d, e>> \in InRange})

SyncRequest(d, v) == [type |-> "sync-request", doc |-> d, from |-> v]
Data(d, S)        == [type |-> "data", doc |-> d, ops |-> S]
DeleteRequest(d)  == [type |-> "delete-request", doc |-> d]
EstablishRequest  == [type |-> "establish-request"]

(* Bug: a save in the same millisecond takes the key of the first one.     *)
SameStamp == <<clock, 0>>

(* The key a save gets: the millisecond and a counter within it.           *)
NextStamp ==
  IF clock = stamp[1] THEN <<clock, stamp[2] + 1>> ELSE <<clock, 0>>

(* The adapter begins with the first of the messages; a save takes its key *)
(* now.                                                                    *)
Begun(msgs) ==
  LET m == Head(msgs) IN
  [todo  |-> msgs, stage |-> "begun",
   key   |-> IF m.type = "data" THEN NextStamp ELSE <<0, 0>>,
   floor |-> IF m.type = "sync-request" THEN Saved(m.doc) ELSE {},
   got   |-> {}]

Waiting(msgs) ==
  [todo |-> msgs, stage |-> "waiting", key |-> <<0, 0>>, floor |-> {},
   got |-> {}]

Settled == [Waiting(<<>>) EXCEPT !.stage = "settled"]

PendingOps == {t \in Tasks : tasks[t].todo # <<>>}

StampFor(m) == stamp' = IF m.type = "data" THEN NextStamp ELSE stamp

(* Bug: a batch is done with its first message.                            *)
FirstOnly(t) == [tasks EXCEPT ![t] = Settled]

(* The task has done its first message; what is left of a batch follows.   *)
Done(t) ==
  [tasks EXCEPT ![t] = IF Len(@.todo) = 1 THEN Settled
                       ELSE Waiting(Tail(@.todo))]

(* channel.send: the message becomes a task of its own, at once.           *)
Send(T, msgs) ==
  IF msgs = <<>> THEN tasks' = T /\ UNCHANGED stamp
  ELSE /\ \E t \in Tasks : /\ T[t] = Settled
                           /\ tasks' = [T EXCEPT ![t] = Begun(msgs)]
       /\ StampFor(Head(msgs))

(* Bug: a settled task stays in #pendingOps.                               *)
KeepsWaiting == flush' = flush

(* The set of tasks a flush waits for loses those that settled.            *)
FlushSees ==
  flush' = [flush EXCEPT !.waits = {t \in @ : tasks'[t].todo # <<>>}]

-----------------------------------------------------------------------------
NoFlush == [for |-> "none", waits |-> {}, owed |-> [d \in Docs |-> {}]]

Init ==
  /\ store = {}
  /\ clock = 1
  /\ stamp = <<0, 0>>
  /\ \E t \in Tasks :
       tasks = [x \in Tasks |-> IF x = t
                  THEN [Waiting(<<EstablishRequest>>) EXCEPT !.stage = "begun"]
                  ELSE Settled]
  /\ channel = "connected"
  /\ documents = {}
  /\ oplog = [d \in Docs |-> {}]
  /\ subscribed = {}
  /\ believed = [d \in Docs |-> Unknown]
  /\ flush = NoFlush
  /\ lost = {}
  /\ count = [restarts |-> 0, failures |-> 0, deletes |-> 0]

-----------------------------------------------------------------------------
(* The Repo.                                                               *)

(* repo.get: a new document is asked of the storage peer.                  *)
DocEnsure(d) ==
  /\ d \notin documents
  /\ documents' = documents \cup {d}
  /\ Send(tasks, IF channel = "established" THEN <<SyncRequest(d, {})>>
                 ELSE <<>>)
  /\ UNCHANGED <<store, clock, channel, oplog, subscribed, believed, flush,
                 lost, count>>

(* Subscribed documents: the adapter is taken to have the new version.     *)
Believe(S) ==
  [d \in Docs |-> LET v == Applied(oplog[d] \cup {o \in S : DocOf[o] = d}) IN
     IF /\ \E o \in S : DocOf[o] = d
        /\ d \in subscribed /\ NeedsUpdate(v, believed[d])
       THEN Synced(v) ELSE believed[d]]

(* Operations of subscribed documents, made here or brought by the         *)
(* network in one batch: one update each, sent as one batch.               *)
Change(S) ==
  LET log(d)   == oplog[d] \cup {o \in S : DocOf[o] = d}
      update(d) == Data(d, Delta(Applied(log(d)), believed[d]))
      D == {d \in {DocOf[o] : o \in S} : NeedsUpdate(Applied(log(d)), believed[d])}
  IN /\ S # {} /\ \A o \in S : /\ DocOf[o] \in documents \cap subscribed
                               /\ o \notin oplog[DocOf[o]]
                               /\ Deps[o] \subseteq Version(DocOf[o])
     /\ channel = "established"
     /\ oplog' = [d \in Docs |-> log(d)]
     /\ believed' = Believe(S)
     /\ \E msgs \in SetToSeqs({update(d) : d \in D}) : Send(tasks, msgs)
     /\ UNCHANGED <<store, clock, channel, documents, subscribed, flush, lost,
                    count>>

(* An operation of a document the adapter did not subscribe to: it is told *)
(* of the document, asks for it and is sent all of it, in one turn.        *)
FirstChange(d, o) ==
  LET v == Applied(oplog[d] \cup {o})
      told == channel = "established" /\ ShouldSync(v, believed[d])
  IN /\ d \in documents \ subscribed /\ DocOf[o] = d /\ o \notin oplog[d]
     /\ Deps[o] \subseteq Version(d)
     /\ oplog' = [oplog EXCEPT ![d] = @ \cup {o}]
     /\ subscribed' = IF told THEN subscribed \cup {d} ELSE subscribed
     /\ believed' = IF told THEN [believed EXCEPT ![d] = Pending] ELSE believed
     /\ Send(tasks, IF told THEN <<Data(d, v)>> ELSE <<>>)
     /\ UNCHANGED <<store, clock, channel, documents, flush, lost, count>>

(* repo.delete: the document leaves the model, a subscribed adapter hears  *)
(* of it; subscription and awareness stay.  A flush owes it no more.       *)
DocDelete(d) ==
  /\ d \in documents /\ count.deletes < MaxDeletes
  /\ documents' = documents \ {d}
  /\ oplog' = [oplog EXCEPT ![d] = {}]
  /\ Send(tasks, IF d \in subscribed THEN <<DeleteRequest(d)>> ELSE <<>>)
  /\ count' = [count EXCEPT !.deletes = @ + 1]
  /\ flush' = [flush EXCEPT !.owed[d] = {}]
  /\ UNCHANGED <<store, clock, channel, subscribed, believed, lost>>

-----------------------------------------------------------------------------
(* The adapter's tasks.                                                    *)

Working(t, type, stage) ==
  /\ tasks[t].todo # <<>> /\ Head(tasks[t].todo).type = type
  /\ tasks[t].stage = stage

(* handleBatch goes on with its next message.                              *)
NextInBatch(t) ==
  /\ tasks[t].stage = "waiting"
  /\ tasks' = [tasks EXCEPT ![t] = Begun(@.todo)]
  /\ StampFor(Head(tasks[t].todo))
  /\ UNCHANGED <<store, clock, channel, repoVars, flush, lost, count>>

(* handleEstablishRequest; the Repo asks for all its documents at once.    *)
HandleEstablishRequest(t) ==
  /\ Working(t, "establish-request", "begun")
  /\ channel' = "established"
  /\ \E msgs \in SetToSeqs({SyncRequest(d, Version(d)) : d \in documents}) :
       Send(Done(t), msgs)
  /\ FlushSees
  /\ UNCHANGED <<store, clock, repoVars, lost, count>>

(* The range read of handleSyncRequest sees the chunks.                    *)
ChunksRead(t) ==
  /\ Working(t, "sync-request", "begun")
  /\ tasks' = [tasks EXCEPT ![t].stage = "read",
                            ![t].got = LoadRange(Head(tasks[t].todo).doc)]
  /\ UNCHANGED <<store, clock, stamp, channel, repoVars, flush, lost, count>>

(* Bug: the Repo answers the adapter's request with nothing.               *)
AnswerNothing(d, v, has) == <<>>

(* #buildSyncResponseMessage: everything to a peer that has nothing (be it *)
(* an empty document), else what it lacks.                                 *)
AnswerTo(d, v, has) ==
  IF has = {} THEN <<Data(d, v)>>
  ELSE IF v \subseteq has THEN <<>> ELSE <<Data(d, v \ has)>>

(* The adapter's reply to a sync-request, the version it reconstructed     *)
(* being has, and its own sync-request for what it lacks, which subscribes *)
(* it.  The Repo imports the one and answers the other in the same turn.   *)
Reply(t, has) ==
  LET m   == Head(tasks[t].todo)
      d   == m.doc
      log == IF has \subseteq m.from THEN oplog[d]
             ELSE oplog[d] \cup (has \ m.from)
  IN /\ documents' = documents \cup {d}
     /\ oplog' = [oplog EXCEPT ![d] = log]
     /\ subscribed' = subscribed \cup {d}
     /\ believed' = [believed EXCEPT ![d] = Pending]
     /\ Send(Done(t), AnswerTo(d, Applied(log), has))
     /\ FlushSees
     /\ UNCHANGED <<store, clock, channel, lost>>

HandleSyncRequest(t) ==
  /\ Working(t, "sync-request", "read")
  /\ Reply(t, Applied(tasks[t].got))
  /\ UNCHANGED count

(* The read fails: "unavailable", and a request from the empty version.    *)
SyncRequestFails(t) ==
  /\ Working(t, "sync-request", "begun")
  /\ count.failures < MaxFailures
  /\ Reply(t, {})
  /\ count' = [count EXCEPT !.failures = @ + 1]

(* saveDocumentData: the chunk replaces one of the same key.               *)
SaveDocumentData(t) ==
  /\ Working(t, "data", "begun")
  /\ LET m == Head(tasks[t].todo) IN
       store' = {c \in store : c.doc # m.doc \/ c.key # tasks[t].key}
                  \cup {[doc |-> m.doc, key |-> tasks[t].key, ops |-> m.ops]}
  /\ tasks' = Done(t)
  /\ FlushSees
  /\ UNCHANGED <<clock, stamp, channel, repoVars, lost, count>>

(* A save fails: the error is logged and the message forgotten.            *)
SaveFails(t) ==
  /\ Working(t, "data", "begun")
  /\ count.failures < MaxFailures
  /\ lost' = lost \cup Head(tasks[t].todo).ops
  /\ tasks' = Done(t)
  /\ FlushSees
  /\ count' = [count EXCEPT !.failures = @ + 1]
  /\ UNCHANGED <<store, clock, stamp, channel, repoVars>>

(* remove([docId]): no chunk has that key.                                 *)
HandleDeleteRequest(t) ==
  /\ Working(t, "delete-request", "begun")
  /\ tasks' = Done(t)
  /\ FlushSees
  /\ UNCHANGED <<store, clock, stamp, channel, repoVars, lost, count>>

-----------------------------------------------------------------------------
(* Flush, shutdown, restart, time.                                         *)

(* repo.flush() or repo.shutdown() is called.                              *)
FlushCalled(why) ==
  /\ flush.for = "none" /\ channel # "removed"
  /\ flush' = [for |-> why, waits |-> PendingOps,
               owed |-> [d \in Docs |-> IF d \in documents THEN Version(d)
                                        ELSE {}]]
  /\ UNCHANGED <<store, clock, stamp, tasks, channel, repoVars, lost, count>>

(* Bug: flush awaits the tasks pending at the call and no later ones.      *)
FlushOver == flush.waits = {}

(* The awaited tasks settled and none is pending.                          *)
NothingPending == flush.waits = {} /\ PendingOps = {}

(* Promise.all settles while new tasks are pending: await those.           *)
FlushAgain ==
  /\ flush.for # "none" /\ flush.waits = {} /\ ~ NothingPending
  /\ flush' = [flush EXCEPT !.waits = PendingOps]
  /\ UNCHANGED <<store, clock, stamp, tasks, channel, repoVars, lost, count>>

(* flush() returns; shutdown() goes on to remove the channel and to reset  *)
(* the model.                                                              *)
FlushReturns ==
  /\ flush.for # "none" /\ NothingPending
  /\ flush' = NoFlush
  /\ IF flush.for = "shutdown"
       THEN /\ channel' = "removed"
            /\ documents' = {}
            /\ oplog' = [d \in Docs |-> {}]
            /\ subscribed' = {}
            /\ believed' = [d \in Docs |-> Unknown]
       ELSE UNCHANGED <<channel, repoVars>>
  /\ UNCHANGED <<store, clock, stamp, tasks, lost, count>>

(* The process ends, whatever it was doing, and starts again later than    *)
(* its last save.                                                          *)
Restart ==
  /\ count.restarts < MaxRestarts /\ clock < MaxClock
  /\ clock' = clock + 1
  /\ stamp' = <<0, 0>>
  /\ \E t \in Tasks :
       tasks' = [x \in Tasks |-> IF x = t
                   THEN [Waiting(<<EstablishRequest>>) EXCEPT !.stage = "begun"]
                   ELSE Settled]
  /\ channel' = "connected"
  /\ documents' = {}
  /\ oplog' = [d \in Docs |-> {}]
  /\ subscribed' = {}
  /\ believed' = [d \in Docs |-> Unknown]
  /\ flush' = NoFlush
  /\ count' = [count EXCEPT !.restarts = @ + 1]
  /\ UNCHANGED <<store, lost>>

Tick ==
  /\ \/ clock < MaxClock /\ clock' = clock + 1
     \/ ClockBack /\ clock > 1 /\ clock' = clock - 1
  /\ UNCHANGED <<store, stamp, tasks, channel, repoVars, flush, lost, count>>

-----------------------------------------------------------------------------
TaskStep(t) ==
  \/ NextInBatch(t)
  \/ HandleEstablishRequest(t)
  \/ ChunksRead(t)
  \/ HandleSyncRequest(t)
  \/ SyncRequestFails(t)
  \/ SaveDocumentData(t)
  \/ SaveFails(t)
  \/ HandleDeleteRequest(t)

Application ==
  \/ \E d \in Docs : DocEnsure(d) \/ DocDelete(d) \/ \E o \in Ops : FirstChange(d, o)
  \/ \E S \in SUBSET Ops : Change(S)
  \/ \E why \in {"flush", "shutdown"} : FlushCalled(why)

Next ==
  \/ Application
  \/ \E t \in Tasks : TaskStep(t)
  \/ FlushAgain \/ FlushReturns
  \/ Restart
  \/ Tick

Spec == Init /\ [][Next]_vars

(* Promises settle: reads and saves end, a flush goes on when it can.      *)
FairSpec ==
  /\ Spec
  /\ \A t \in Tasks : WF_vars(TaskStep(t))
  /\ WF_vars(FlushAgain \/ FlushReturns)

-----------------------------------------------------------------------------
(* The adapter is a durable log: saves make operations durable, a read is  *)
(* asked when its message begins and sees what is stored.                  *)
Log == INSTANCE DurableLog WITH
  Readers <- Tasks,
  saved <- [d \in Docs |-> Saved(d)],
  reads <- [t \in Tasks |->
              IF \/ tasks[t].stage \notin {"begun", "read"}
                 \/ Head(tasks[t].todo).type # "sync-request"
                THEN NoRead
                ELSE [doc |-> Head(tasks[t].todo).doc,
                      floor |-> tasks[t].floor,
                      got |-> IF tasks[t].stage = "read" THEN tasks[t].got
                              ELSE NoRead]]

(* Whatever saves, reads, failures and restarts do, no durable operation   *)
(* goes away and every read sees the whole log of its document and nothing *)
(* else.                                                                   *)
ImplementsLog == Log!Spec

(* Types of the state.                                                     *)
TypeOK ==
  /\ \A c \in store : c.doc \in Docs /\ c.ops \subseteq Ops
  /\ \A t \in Tasks : tasks[t].got \subseteq Ops /\ tasks[t].floor \subseteq Ops
  /\ clock \in 1 .. MaxClock
  /\ channel \in {"connected", "established", "removed"}
  /\ documents \subseteq Docs /\ subscribed \subseteq Docs
  /\ oplog \in [Docs -> SUBSET Ops]
  /\ believed \in [Docs -> Awareness]
  /\ flush.for \in {"none", "flush", "shutdown"} /\ flush.waits \subseteq PendingOps

(* Once the adapter has nothing left to do, everything the Repo has of a   *)
(* document is stored, unless a save of it failed: no change falls between *)
(* a read, the subscription it leads to and the updates after it.          *)
QuietDurable ==
  channel = "established" /\ PendingOps = {} =>
    \A d \in documents : Version(d) \subseteq Saved(d) \cup lost

(* flush() and shutdown() return only when everything the Repo had of any  *)
(* document at the call is stored, also what reads that were outstanding   *)
(* then made the adapter ask for.                                          *)
FlushDurable ==
  [][FlushReturns =>
       \A d \in Docs : flush.owed[d] \subseteq Saved(d) \cup lost]_vars

(* A flush that was called returns once the application is quiet.          *)
FlushEnds == flush.for # "none" ~> flush.for = "none"

(* No save takes the key of another chunk.                                 *)
UniqueKeys ==
  [][\A t \in Tasks : SaveDocumentData(t) =>
       \A c \in store : c.doc = Head(tasks[t].todo).doc => c.key # tasks[t].key]_vars

(* A document whose removal the adapter reported has no chunk left.        *)
RemovedIsGone ==
  [][\A t \in Tasks : HandleDeleteRequest(t) =>
       \A c \in store' : c.doc # Head(tasks[t].todo).doc]_vars

(* A read of a document returns chunks of that document only.              *)
ReadsOwnChunks ==
  [][\A t \in Tasks : ChunksRead(t) =>
       tasks'[t].got \subseteq Saved(Head(tasks[t].todo).doc)]_vars
=============================================================================
