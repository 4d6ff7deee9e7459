------------------------------ MODULE DocSync ------------------------------
(***************************************************************************)
(* Pull-based synchronization of one document between Repos that have no   *)
(* storage.  Repos are joined by links that deliver in order unless        *)
(* middleware lets one message overtake another, and that break and        *)
(* come back; the messages in flight on a broken link are lost, and each   *)
(* end notices on its own.  What a Repo knows of its peers (subscriptions  *)
(* and awareness) outlives a link and decides what is asked for after a    *)
(* reconnection and what an update carries.                                *)
(*                                                                         *)
(* One action per handler of packages/repo/src/synchronizer: a message is  *)
(* handled, and what it causes is sent, in one run of the work queue.      *)
(* Documents are independent of each other, so one is enough; permissions  *)
(* admit everything; StorageFirst models storage.                          *)
(***************************************************************************)
EXTENDS Naturals, Sequences, PeerState

CONSTANTS
  Repos,        \* repositories
  Links,        \* the pairs of Repos that connect to each other
  Initiates,    \* pairs <<r, p>>: r opens the handshake on its link with p
  Holders,      \* Repos whose application opened the document at the start
  Author,       \* the Repo that makes an operation
  MaxBreaks,    \* bound: how often links break
  MaxRestarts,  \* bound: how often Repos restart
  MaxOvertakes, \* bound: how often middleware lets a message overtake another
  Restartable   \* Repos that may restart

ASSUME LinkAssumption ==
  /\ Links \subseteq SUBSET Repos
  /\ \A r \in Repos : {r} \notin Links
  /\ Initiates \subseteq Repos \X Repos
  /\ \A r, p \in Repos :
       {r, p} \in Links => <<r, p>> \in Initiates \/ <<p, r>> \in Initiates

ASSUME RepoAssumption ==
  /\ Holders \subseteq Repos /\ Restartable \subseteq Repos
  /\ Author \in [Ops -> Repos]
  /\ {MaxBreaks, MaxRestarts, MaxOvertakes} \subseteq Nat

VARIABLES
  docs,       \* the Repos that have the document in model.documents
  oplog,      \* the operations each Repo received, pending ones included
  channel,    \* the state of the channel each Repo has for a peer
  known,      \* model.peers: the peers each Repo has met
  subs,       \* peerState.subscriptions: the peers that asked for the document
  awareness,  \* peerState.docSyncStates of the document
  up,         \* the links that carry messages
  net,        \* messages in flight, per sender and receiver, in order
  made,       \* the operations that were made
  deps,       \* the operations each made operation depends on
  breaks, restarts, overtakes

(* channel.ts: a channel is connected, and established once the peer at    *)
(* its other end has said who it is.                                       *)
ChannelStates == {"none", "connected", "established"}

repoVars == <<docs, oplog, channel, known, subs, awareness>>
linkVars == <<up, net>>
opVars   == <<made, deps>>
vars == <<repoVars, linkVars, opVars, breaks, restarts, overtakes>>

-----------------------------------------------------------------------------
(* An operation is applied when those it depends on are there.             *)
Applied(S) == {o \in S : deps[o] \subseteq S}

Version(r) == Applied(oplog[r])

Link(r, p) == {r, p}

Established(r) == {p \in Repos : channel[r][p] = "established"}

(* Messages.  A "reply" is a batch of a sync-response and the reciprocal   *)
(* sync-request, flushed together; "wants" is the requester's version.     *)
EstablishRequest  == [type |-> "establish-request"]
EstablishResponse == [type |-> "establish-response"]
NewDoc            == [type |-> "new-doc"]

SyncRequest(v, bidi) ==
  [type |-> "sync-request", wants |-> v, bidirectional |-> bidi]

Update(v, a) == [type |-> "update", data |-> Delta(v, a), version |-> v]

(* What version v offers a requester of version w.  Nothing but the        *)
(* version if the requester has it all, unless the requester has nothing.  *)
Offer(v, w) ==
  [status  |-> IF w # {} /\ v \subseteq w THEN "up-to-date" ELSE "data",
   data    |-> v \ w,
   version |-> v]

SyncResponse(v, w) == [type |-> "sync-response", offer |-> Offer(v, w)]

Reply(v, w) ==
  [type |-> "reply", offer |-> Offer(v, w), wants |-> v]

(* Bug: a bidirectional request is answered but not reciprocated.          *)
NeverReciprocal(v, m) == SyncResponse(v, m.wants)

(* A bidirectional request is reciprocated by one that is not.             *)
Answer(v, m) ==
  IF m.bidirectional THEN Reply(v, m.wants) ELSE SyncResponse(v, m.wants)

(* What Repo r sends in one step: a sequence of messages to each peer.     *)
Silence == [q \in Repos |-> <<>>]
SendTo(p, msgs) == [Silence EXCEPT ![p] = msgs]

-----------------------------------------------------------------------------
(* Bug: nothing is sent to a peer whose sync-request was just answered.    *)
PropagatedToSynced(r, v, src, aw) ==
  [q \in Repos |->
     IF q \notin Established(r) \/ q = src \/ aw[q].status = "pending" THEN <<>>
     ELSE IF q \in subs[r]
            THEN IF NeedsUpdate(v, aw[q]) THEN <<Update(v, aw[q])>> ELSE <<>>
            ELSE IF ShouldSync(v, aw[q]) THEN <<NewDoc>> ELSE <<>>]

(* propagateToPeers at Repo r: version v goes to every established peer    *)
(* but src, as an update if the peer subscribed and as an announcement if  *)
(* it did not.  aw is what r believes of each peer.                        *)
Propagated(r, v, src, aw) ==
  [q \in Repos |->
     IF q \notin Established(r) \/ q = src THEN <<>>
     ELSE IF q \in subs[r]
            THEN IF NeedsUpdate(v, aw[q]) THEN <<Update(v, aw[q])>> ELSE <<>>
            ELSE IF ShouldSync(v, aw[q]) THEN <<NewDoc>> ELSE <<>>]

(* Bug: a peer that is sent an announcement is taken to have the update.   *)
AfterAnnouncement(r, v, src, aw) ==
  [q \in Repos |-> IF q \in Established(r) /\ q # src /\ NeedsUpdate(v, aw[q])
                     THEN Synced(v) ELSE aw[q]]

(* A peer that is sent an update is taken to have it.                      *)
AfterPropagation(r, v, src, aw) ==
  [q \in Repos |->
     IF /\ q \in Established(r) /\ q # src
        /\ q \in subs[r] /\ NeedsUpdate(v, aw[q])
       THEN Synced(v) ELSE aw[q]]

(* What r sends gets on the links that are up.                             *)
Sent(r, out) ==
  [net EXCEPT ![r] = [q \in Repos |-> IF Link(r, q) \in up THEN @[q] \o out[q]
                                      ELSE @[q]]]

(* The same, and the message of p that r handled is gone.                  *)
Handled(r, p, out) ==
  net' = [Sent(r, out) EXCEPT ![p][r] = Tail(@)]

(* Bug: what is imported is not passed on to other peers.                  *)
ImportOnly(r, p, S, toSource) ==
  LET log == oplog[r] \cup S
  IN /\ oplog' = [oplog EXCEPT ![r] = log]
     /\ awareness' = [awareness EXCEPT ![r][p] = Synced(Applied(log))]
     /\ Handled(r, p, SendTo(p, toSource))

(* Bug: what is imported takes the place of the document.                  *)
ImportReplaces(r, p, S, toSource) ==
  /\ oplog' = [oplog EXCEPT ![r] = S]
  /\ awareness' = [awareness EXCEPT ![r][p] = Synced(Applied(S))]
  /\ Handled(r, p, SendTo(p, toSource))

(* r imports operations S from p: doc-imported takes p to have whatever r  *)
(* then has, and the rest of the peers is told.                            *)
Import(r, p, S, toSource) ==
  LET log == oplog[r] \cup S
      v   == Applied(log)
      aw  == [awareness[r] EXCEPT ![p] = Synced(v)]
  IN /\ oplog' = [oplog EXCEPT ![r] = log]
     /\ awareness' = [awareness EXCEPT ![r] = AfterPropagation(r, v, p, aw)]
     /\ Handled(r, p, [Propagated(r, v, p, aw) EXCEPT ![p] = toSource])

(* Bug: the status is kept, the version is not.                            *)
BelieveStatus(r, p, a) ==
  awareness' = [awareness EXCEPT ![r][p] = [status |-> a.status]]

Believe(r, p, a) == awareness' = [awareness EXCEPT ![r][p] = a]
Subscribe(r, p)  == subs' = [subs EXCEPT ![r] = @ \cup {p}]
Create(r)        == docs' = docs \cup {r}

-----------------------------------------------------------------------------
Init ==
  /\ docs = Holders
  /\ oplog = [r \in Repos |-> {}]
  /\ channel = [r \in Repos |-> [p \in Repos |-> "none"]]
  /\ known = [r \in Repos |-> {}]
  /\ subs = [r \in Repos |-> {}]
  /\ awareness = [r \in Repos |-> [p \in Repos |-> Unknown]]
  /\ up = {}
  /\ net = [r \in Repos |-> [p \in Repos |-> <<>>]]
  /\ made = {}
  /\ deps = [o \in Ops |-> {}]
  /\ breaks = 0 /\ restarts = 0 /\ overtakes = 0

-----------------------------------------------------------------------------
(* Links and the channels over them.                                       *)

(* A link comes up: each end adds a channel, and who initiates sends the   *)
(* establish-request.                                                      *)
Connect(r, p) ==
  LET Opening(x, y) == IF <<x, y>> \in Initiates THEN <<EstablishRequest>>
                       ELSE <<>>
  IN /\ Link(r, p) \in Links \ up
     /\ channel[r][p] = "none" /\ channel[p][r] = "none"
     /\ up' = up \cup {Link(r, p)}
     /\ channel' = [channel EXCEPT ![r][p] = "connected", ![p][r] = "connected"]
     /\ net' = [net EXCEPT ![r][p] = Opening(r, p), ![p][r] = Opening(p, r)]
     /\ UNCHANGED <<docs, oplog, known, subs, awareness, opVars, breaks, restarts, overtakes>>

(* A link breaks and loses what it carried.                                *)
Break(r, p) ==
  /\ Link(r, p) \in up
  /\ breaks < MaxBreaks
  /\ breaks' = breaks + 1
  /\ up' = up \ {Link(r, p)}
  /\ net' = [net EXCEPT ![r][p] = <<>>, ![p][r] = <<>>]
  /\ UNCHANGED <<repoVars, opVars, restarts, overtakes>>

(* One end notices: the channel is removed, what is known of the peer and  *)
(* its subscriptions stay.                                                 *)
ChannelRemoved(r, p) ==
  /\ channel[r][p] # "none" /\ Link(r, p) \notin up
  /\ channel' = [channel EXCEPT ![r][p] = "none"]
  /\ UNCHANGED <<docs, oplog, known, subs, awareness, linkVars, opVars,
                 breaks, restarts, overtakes>>

-----------------------------------------------------------------------------
(* Handlers.  r receives the oldest message of p.                          *)

Receives(r, p, type) ==
  /\ net[p][r] # <<>>
  /\ Head(net[p][r]).type = type
  /\ UNCHANGED <<up, opVars, breaks, restarts, overtakes>>

Message(r, p) == Head(net[p][r])

(* Bug: a peer met before is not established again.                        *)
EstablishNewPeer(r, p) ==
  /\ channel' = IF p \in known[r] THEN channel
                ELSE [channel EXCEPT ![r][p] = "established"]
  /\ known' = [known EXCEPT ![r] = @ \cup {p}]

Establish(r, p) ==
  /\ channel' = [channel EXCEPT ![r][p] = "established"]
  /\ known' = [known EXCEPT ![r] = @ \cup {p}]

(* getChangedDocsToSync: of a peer met before, the document is requested   *)
(* if the peer was never heard of about it, or is known to lack something; *)
(* the request then names the version the peer is known to have.           *)
ChangedDocToSync(r, p) ==
  LET a == awareness[r][p]
  IN IF a.status = "unknown" THEN <<SyncRequest(Version(r), TRUE)>>
     ELSE IF a.status = "synced" /\ ShouldSync(Version(r), a)
       THEN <<SyncRequest(a.version, TRUE)>>
     ELSE <<>>

(* A peer met for the first time is asked for every document.              *)
DocToSync(r, p) ==
  IF r \notin docs THEN <<>>
  ELSE IF p \in known[r] THEN ChangedDocToSync(r, p)
  ELSE <<SyncRequest(Version(r), TRUE)>>

(* Bug: the acceptor of a handshake takes the short cut too.               *)
DocToSyncIfChanged(r, p) == DocToSync(r, p)

(* The acceptor of a handshake asks for every document, whoever the peer.  *)
AllDocsToSync(r, p) ==
  IF r \in docs THEN <<SyncRequest(Version(r), TRUE)>> ELSE <<>>

(* Bug: the requests are sent ahead of the answer to the handshake.        *)
WelcomeLast(r, p) == AllDocsToSync(r, p) \o <<EstablishResponse>>

Welcome(r, p) == <<EstablishResponse>> \o AllDocsToSync(r, p)

HandleEstablishRequest(r, p) ==
  /\ Receives(r, p, "establish-request")
  /\ Establish(r, p)
  /\ Handled(r, p, SendTo(p, Welcome(r, p)))
  /\ UNCHANGED <<docs, oplog, subs, awareness>>

HandleEstablishResponse(r, p) ==
  /\ Receives(r, p, "establish-response")
  /\ Establish(r, p)
  /\ Handled(r, p, SendTo(p, DocToSync(r, p)))
  /\ UNCHANGED <<docs, oplog, subs, awareness>>

(* channelDispatcher rejects other messages until the channel is           *)
(* established; NoneRejected says that it never has to.                    *)
ReceivesEstablished(r, p, type) ==
  /\ Receives(r, p, type)
  /\ channel[r][p] = "established"
  /\ UNCHANGED <<channel, known>>

(* The peer subscribes and is answered; the document is created if need be *)
(* (a peer may create documents by asking for them).                       *)
HandleSyncRequest(r, p) ==
  LET m == Message(r, p)
  IN /\ ReceivesEstablished(r, p, "sync-request")
     /\ Subscribe(r, p) /\ Create(r)
     /\ Believe(r, p, Pending)
     /\ Handled(r, p, SendTo(p, <<Answer(Version(r), m)>>))
     /\ UNCHANGED oplog

HandleSyncResponse(r, p) ==
  LET m == Message(r, p)
  IN /\ ReceivesEstablished(r, p, "sync-response")
     /\ IF m.offer.status = "data"
          THEN Create(r) /\ Import(r, p, m.offer.data, <<>>)
          ELSE /\ Believe(r, p, Synced(m.offer.version))
               /\ Handled(r, p, Silence)
               /\ UNCHANGED <<docs, oplog>>
     /\ UNCHANGED subs

(* The batch of both: first the response and the request change the state, *)
(* then their commands run, so that the import sees the subscription and   *)
(* the answer sees the import.                                             *)
HandleReply(r, p) ==
  LET m == Message(r, p)
      v == Applied(oplog[r] \cup m.offer.data)
  IN /\ ReceivesEstablished(r, p, "reply")
     /\ Subscribe(r, p) /\ Create(r)
     /\ IF m.offer.status = "data"
          THEN Import(r, p, m.offer.data, <<SyncResponse(v, m.wants)>>)
          ELSE /\ Believe(r, p, Pending)
               /\ Handled(r, p, SendTo(p, <<SyncResponse(Version(r), m.wants)>>))
               /\ UNCHANGED oplog

(* An update for a document that is not there is dropped.                  *)
HandleUpdate(r, p) ==
  /\ ReceivesEstablished(r, p, "update")
  /\ IF r \in docs
       THEN Import(r, p, Message(r, p).data, <<>>)
       ELSE Handled(r, p, Silence) /\ UNCHANGED <<oplog, awareness>>
  /\ UNCHANGED <<docs, subs>>

HandleNewDoc(r, p) ==
  /\ ReceivesEstablished(r, p, "new-doc")
  /\ Create(r)
  /\ Believe(r, p, Pending)
  /\ Handled(r, p, SendTo(p, <<SyncRequest(Version(r), TRUE)>>))
  /\ UNCHANGED <<oplog, subs>>

(* With middleware every message waits for its own checks: of two messages *)
(* that have arrived the later one may be dispatched first.  Those of a    *)
(* handshake are not checked.                                              *)
Overtake(r, p) ==
  /\ overtakes < MaxOvertakes
  /\ Len(net[p][r]) > 1 /\ channel[r][p] = "established"
  /\ \A i \in 1 .. 2 :
       net[p][r][i].type \notin {"establish-request", "establish-response"}
  /\ overtakes' = overtakes + 1
  /\ net' = [net EXCEPT ![p][r] = <<@[2], @[1]>> \o SubSeq(@, 3, Len(@))]
  /\ UNCHANGED <<repoVars, up, opVars, breaks, restarts>>

Receive(r, p) ==
  \/ HandleEstablishRequest(r, p)
  \/ HandleEstablishResponse(r, p)
  \/ HandleSyncRequest(r, p)
  \/ HandleSyncResponse(r, p)
  \/ HandleReply(r, p)
  \/ HandleUpdate(r, p)
  \/ HandleNewDoc(r, p)

-----------------------------------------------------------------------------
(* The application.                                                        *)

(* repo.get creates the document and asks every established peer.          *)
DocEnsure(r) ==
  /\ r \notin docs
  /\ Create(r)
  /\ net' = Sent(r, [q \in Repos |-> IF q \in Established(r)
                                       THEN <<SyncRequest({}, TRUE)>> ELSE <<>>])
  /\ UNCHANGED <<oplog, channel, known, subs, awareness, up, opVars, breaks,
                 restarts, overtakes>>

(* A local operation depends on everything its author has applied.         *)
LocalDocChange(r, o) ==
  LET v == Version(r) \cup {o}
  IN /\ r \in docs /\ Author[o] = r /\ o \notin made
     /\ made' = made \cup {o}
     /\ deps' = [deps EXCEPT ![o] = Version(r)]
     /\ oplog' = [oplog EXCEPT ![r] = @ \cup {o}]
     /\ awareness' = [awareness EXCEPT ![r] = AfterPropagation(r, v, r, @)]
     /\ net' = Sent(r, Propagated(r, v, r, awareness[r]))
     /\ UNCHANGED <<docs, channel, known, subs, up, breaks, restarts, overtakes>>

(* The process of r restarts under the same peerId: its memory is gone,    *)
(* its links are down.                                                     *)
Restart(r) ==
  /\ r \in Restartable /\ restarts < MaxRestarts
  /\ restarts' = restarts + 1
  /\ docs' = docs \ {r}
  /\ oplog' = [oplog EXCEPT ![r] = {}]
  /\ channel' = [channel EXCEPT ![r] = [p \in Repos |-> "none"]]
  /\ known' = [known EXCEPT ![r] = {}]
  /\ subs' = [subs EXCEPT ![r] = {}]
  /\ awareness' = [awareness EXCEPT ![r] = [p \in Repos |-> Unknown]]
  /\ up' = {l \in up : r \notin l}
  /\ net' = [x \in Repos |-> [y \in Repos |->
               IF r \in {x, y} THEN <<>> ELSE net[x][y]]]
  /\ UNCHANGED <<opVars, breaks, overtakes>>

Next ==
  \E r \in Repos :
    \/ \E p \in Repos \ {r} :
         \/ Connect(r, p)
         \/ Break(r, p)
         \/ ChannelRemoved(r, p)
         \/ Receive(r, p)
         \/ Overtake(r, p)
    \/ DocEnsure(r)
    \/ \E o \in Ops : LocalDocChange(r, o)
    \/ Restart(r)

Spec == Init /\ [][Next]_vars

(* Messages in flight arrive, broken links are noticed and come back.      *)
FairSpec ==
  /\ Spec
  /\ \A r \in Repos : \A p \in Repos \ {r} :
       /\ WF_vars(Receive(r, p))
       /\ WF_vars(Connect(r, p))
       /\ WF_vars(ChannelRemoved(r, p))

-----------------------------------------------------------------------------
(* Types of the state; messages are known by their type.                   *)
TypeOK ==
  /\ docs \in SUBSET Repos
  /\ oplog \in [Repos -> SUBSET made]
  /\ channel \in [Repos -> [Repos -> ChannelStates]]
  /\ known \in [Repos -> SUBSET Repos]
  /\ subs \in [Repos -> SUBSET Repos]
  /\ awareness \in [Repos -> [Repos -> Awareness]]
  /\ up \subseteq Links
  /\ made \subseteq Ops
  /\ deps \in [Ops -> SUBSET made]
  /\ breaks \in 0 .. MaxBreaks /\ restarts \in 0 .. MaxRestarts
  /\ overtakes \in 0 .. MaxOvertakes

(* Nothing is in flight and every link is established at both ends.        *)
Quiet ==
  \A r \in Repos : \A p \in Repos \ {r} :
    Link(r, p) \in Links =>
      /\ Link(r, p) \in up
      /\ channel[r][p] = "established"
      /\ net[r][p] = <<>>

(* When nothing is left to deliver, every Repo has applied every operation *)
(* that any of them has: nothing lost with a broken link, assumed to be    *)
(* with a peer, or held back for a missing dependency stays missing.       *)
QuietConverged ==
  Quiet => \A r, p \in Repos : Version(r) = oplog[p]

(* When nothing is left to deliver, linked holders of the document are     *)
(* subscribed to each other: the next operation of either reaches both.    *)
QuietSubscribed ==
  Quiet /\ docs # {} =>
    \A r \in Repos : \A p \in Repos \ {r} : Link(r, p) \in Links => p \in subs[r]

(* A message that is not part of a handshake never meets a channel that is *)
(* not established, whichever end initiates, breaks or restarts: nothing   *)
(* is rejected and lost on a link that works.                              *)
NoneRejected ==
  \A r, p \in Repos :
    net[p][r] # <<>> =>
      \/ Message(r, p).type \in {"establish-request", "establish-response"}
      \/ channel[r][p] = "established"

(* The operations a message carries, and those in flight from r to p.      *)
DataOf(m) ==
  IF m.type = "update" THEN m.data
  ELSE IF m.type \in {"sync-response", "reply"} THEN m.offer.data
  ELSE {}

InFlight(r, p) == UNION {DataOf(net[r][p][i]) : i \in 1 .. Len(net[r][p])}

(* What a Repo believes a peer has on an unbroken link, the peer has or    *)
(* will have once it reads what is in flight to it: a delta computed from  *)
(* the belief leaves no gap.                                               *)
AwarenessSound ==
  \A r \in Repos : \A p \in Repos \ {r} :
    (breaks = 0 /\ awareness[r][p].status = "synced") =>
      awareness[r][p].version \subseteq oplog[p] \cup InFlight(r, p)

(* Without breaks no Repo ever holds an operation it cannot apply.         *)
CausallyComplete ==
  breaks = 0 => \A r \in Repos : oplog[r] = Version(r)

(* A restarted server gets back what its clients have: once nothing is     *)
(* left to deliver it has applied every operation they have.               *)
RestartedRefilled ==
  Quiet => \A s \in Restartable, c \in Repos : Version(c) \subseteq Version(s)

(* Repos are causally consistent replicas, whatever order links carry, and *)
(* lose, operations in: each applies an operation only after everything    *)
(* its author had applied, makes none up, and forgets none unless it       *)
(* restarts.                                                               *)
Replicas == INSTANCE CausalReplicas WITH
  Replicas <- Repos, version <- [r \in Repos |-> Version(r)],
  Forgetful <- {r \in Restartable : MaxRestarts > 0}

ImplementsReplicas == Replicas!Spec

(* Once the application stops and links stop breaking, the Repos agree for *)
(* good: messages do not echo for ever and lost ones are made up for.      *)
Converges == <>[](\A r, p \in Repos : Version(r) = Version(p))

-----------------------------------------------------------------------------
(* The same Repos over the WebSocket compatibility adapter: the handlers   *)
(* are those above, but messages pass through the Loro protocol            *)
(* (websocket-compat/src/protocol/translation.ts), which has no handshake, *)
(* no batches, no announcements and no answer without data.  Each end acts *)
(* out the handshake for its own Repo when its socket opens.               *)

(* Bug: of a batch only the response is passed on.                         *)
ResponseOnly(m) ==
  CASE m.type = "new-doc" -> <<>>
    [] m.type = "update" -> <<SyncResponse(m.data, {})>>
    [] m.type = "reply" -> <<[type |-> "sync-response", offer |-> m.offer]>>
    [] OTHER -> IF m.offer.status = "data" THEN <<m>> ELSE <<>>
(* Bug: an update is not a message of the protocol.                        *)
UpdatesDropped(m) ==
  CASE m.type \in {"new-doc", "update"} -> <<>>
    [] m.type = "reply" ->
         <<[type |-> "sync-response", offer |-> m.offer], SyncRequest(m.wants, FALSE)>>
    [] OTHER -> IF m.offer.status = "data" THEN <<m>> ELSE <<>>
(* What arrives of a message that does not pass as it is.  A DocUpdate is  *)
(* taken for a response, with a version that says nothing.                 *)
Translated(m) ==
  CASE m.type = "new-doc" -> <<>>
    [] m.type = "update" -> <<SyncResponse(m.data, {})>>
    [] m.type = "reply" ->
         <<[type |-> "sync-response", offer |-> m.offer], SyncRequest(m.wants, FALSE)>>
    [] OTHER -> IF m.offer.status = "data" THEN <<m>> ELSE <<>>

Passes(m) ==
  m.type = "sync-request" \/ (m.type = "sync-response" /\ m.offer.status = "data")

Translate(r, p) ==
  /\ net[p][r] # <<>> /\ ~ Passes(Message(r, p))
  /\ net' = [net EXCEPT ![p][r] = Translated(Head(@)) \o Tail(@)]
  /\ UNCHANGED <<repoVars, up, opVars, breaks, restarts, overtakes>>

(* Bug: the server acts out the client's response only.                    *)
StartAsClient(s, c) ==
  /\ Link(s, c) \in Links \ up /\ <<c, s>> \in Initiates
  /\ channel[s][c] = "none" /\ channel[c][s] = "none"
  /\ up' = up \cup {Link(s, c)}
  /\ Establish(s, c)
  /\ net' = [net EXCEPT ![s][c] = DocToSync(s, c)]
  /\ UNCHANGED <<docs, oplog, subs, awareness, opVars, breaks, restarts, overtakes>>
(* A server accepts a client: its Repo is told of a request of the client  *)
(* to establish, and then of the client's response to its own.             *)
ServerStart(s, c) ==
  /\ Link(s, c) \in Links \ up /\ <<c, s>> \in Initiates
  /\ channel[s][c] = "none" /\ channel[c][s] = "none"
  /\ up' = up \cup {Link(s, c)}
  /\ Establish(s, c)
  /\ net' = [net EXCEPT ![s][c] =
       AllDocsToSync(s, c) \o IF s \in docs THEN ChangedDocToSync(s, c) ELSE <<>>]
  /\ UNCHANGED <<docs, oplog, subs, awareness, opVars, breaks, restarts, overtakes>>

(* The client's socket opens: its Repo is told of the server's response.   *)
ClientOpen(c, s) ==
  /\ Link(s, c) \in up /\ <<c, s>> \in Initiates
  /\ channel[c][s] = "none"
  /\ Establish(c, s)
  /\ net' = [net EXCEPT ![c][s] = DocToSync(c, s)]
  /\ UNCHANGED <<docs, oplog, subs, awareness, up, opVars, breaks, restarts, overtakes>>

Arrives(r, p) ==
  \/ Translate(r, p)
  \/ net[p][r] # <<>> /\ Passes(Message(r, p)) /\
       (HandleSyncRequest(r, p) \/ HandleSyncResponse(r, p))

CompatNext ==
  \E r \in Repos :
    \/ \E p \in Repos \ {r} :
         \/ ServerStart(r, p)
         \/ ClientOpen(r, p)
         \/ Break(r, p)
         \/ ChannelRemoved(r, p)
         \/ Arrives(r, p)
    \/ DocEnsure(r)
    \/ \E o \in Ops : LocalDocChange(r, o)

CompatSpec == Init /\ [][CompatNext]_vars

(* What was sent arrives, broken links are noticed and come back.          *)
CompatFairSpec ==
  /\ CompatSpec
  /\ \A r \in Repos : \A p \in Repos \ {r} :
       /\ WF_vars(Arrives(r, p))
       /\ WF_vars(ServerStart(r, p))
       /\ WF_vars(ClientOpen(r, p))
       /\ WF_vars(ChannelRemoved(r, p))

-----------------------------------------------------------------------------
(* What a Repo believes a peer has, the peer has or will have once it      *)
(* reads what is in flight to it, or the peer has asked and is about to be *)
(* answered: a response without the request it was batched with makes the  *)
(* Repo believe too much for a while.                                      *)
BeliefsHold ==
  \A r \in Repos : \A p \in Repos \ {r} :
    (breaks = 0 /\ awareness[r][p].status = "synced") =>
      \/ awareness[r][p].version \subseteq oplog[p] \cup InFlight(r, p)
      \/ \E i \in DOMAIN net[p][r] : net[p][r][i].type \in {"sync-request", "reply"}

(* When nothing is left to deliver, the Repos that have the document have  *)
(* the same of it, although what they answer without data is not sent and  *)
(* updates do not say what they lead up to.                                *)
HoldersConverged ==
  Quiet => \A r, p \in docs : Version(r) = oplog[p]

(* When nothing is left to deliver, linked holders are subscribed to each  *)
(* other, although batches are taken apart.                                *)
HoldersSubscribed ==
  Quiet => \A r \in docs : \A p \in docs \ {r} : Link(r, p) \in Links => p \in subs[r]

(* Those that have the document agree for good in the end, also after a    *)
(* break lost what was in flight.                                          *)
HoldersConverge == <>[](\A r, p \in docs : Version(r) = Version(p))

(* PROTOCOL.md:91: who accepts a join answers with its latest version: of  *)
(* two linked holders at least the one that was asked last knows what the  *)
(* other has.                                                              *)
JoinAnswered ==
  Quiet => \A r \in docs : \A p \in docs \ {r} :
    Link(r, p) \in Links =>
      "synced" \in {awareness[r][p].status, awareness[p][r].status}
=============================================================================
