--------------------------- MODULE DocSync_proofs ---------------------------
(***************************************************************************)
(* Proofs about DocSync, for every set of Repos, links and operations and  *)
(* every number of breaks, restarts and overtakings.                       *)
(***************************************************************************)
EXTENDS DocSync, SequenceTheorems, TLAPS

-----------------------------------------------------------------------------
(* Messages, when S are the operations that were made.                     *)
Handshakes == {"establish-request", "establish-response"}

Offers(S) == [status : {"up-to-date", "data"}, data : SUBSET S, version : SUBSET S]

Messages(S) ==
  [type : Handshakes \cup {"new-doc"}]
  \cup [type : {"sync-request"}, wants : SUBSET Ops, bidirectional : BOOLEAN]
  \cup [type : {"update"}, data : SUBSET S, version : SUBSET S]
  \cup [type : {"sync-response"}, offer : Offers(S)]
  \cup [type : {"reply"}, offer : Offers(S), wants : SUBSET Ops]

NetType == net \in [Repos -> [Repos -> Seq(Messages(made))]]

Typed == TypeOK /\ NetType

LEMMA MessagesGrow ==
  ASSUME NEW S, NEW T, S \subseteq T
  PROVE  Messages(S) \subseteq Messages(T)
BY DEF Messages, Offers

LEMMA OneIsSeq ==
  ASSUME NEW S, NEW m \in S
  PROVE  <<m>> \in Seq(S)
OBVIOUS

LEMMA VersionType ==
  ASSUME TypeOK, NEW r \in Repos
  PROVE  Version(r) \in SUBSET made /\ Version(r) \in SUBSET Ops
BY DEF TypeOK, Version, Applied

(* What is sent is made of messages.                                       *)
LEMMA OfferType ==
  ASSUME NEW S, NEW v \in SUBSET S, NEW w
  PROVE  Offer(v, w) \in Offers(S)
BY DEF Offer, Offers

LEMMA RequestType ==
  ASSUME NEW S, NEW v \in SUBSET Ops, NEW b \in BOOLEAN
  PROVE  SyncRequest(v, b) \in Messages(S) /\ <<SyncRequest(v, b)>> \in Seq(Messages(S))
<1>1. SyncRequest(v, b) \in Messages(S)
  BY DEF SyncRequest, Messages
<1> QED BY <1>1, OneIsSeq

LEMMA UpdateType ==
  ASSUME NEW S, NEW v \in SUBSET S, NEW a
  PROVE  Update(v, a) \in Messages(S)
<1>1. Delta(v, a) \in SUBSET S
  BY DEF Delta
<1> QED BY <1>1 DEF Update, Messages

LEMMA ResponseType ==
  ASSUME NEW S, NEW v \in SUBSET S, NEW w
  PROVE  SyncResponse(v, w) \in Messages(S)
BY OfferType DEF SyncResponse, Messages

LEMMA ReplyType ==
  ASSUME NEW S, NEW v \in SUBSET S, v \in SUBSET Ops, NEW w
  PROVE  Reply(v, w) \in Messages(S)
BY OfferType DEF Reply, Messages

LEMMA PlainType ==
  ASSUME NEW S
  PROVE  {EstablishRequest, EstablishResponse, NewDoc} \subseteq Messages(S)
BY DEF EstablishRequest, EstablishResponse, NewDoc, Messages, Handshakes

LEMMA PropagatedType ==
  ASSUME NEW S, NEW r, NEW v \in SUBSET S, NEW src, NEW aw
  PROVE  Propagated(r, v, src, aw) \in [Repos -> Seq(Messages(S))]
<1>1. \A q \in Repos : Update(v, aw[q]) \in Messages(S)
  BY UpdateType
<1>2. NewDoc \in Messages(S)
  BY PlainType
<1> QED BY <1>1, <1>2 DEF Propagated

LEMMA AfterPropagationType ==
  ASSUME NEW r, NEW v \in SUBSET Ops, NEW src, NEW aw \in [Repos -> Awareness]
  PROVE  AfterPropagation(r, v, src, aw) \in [Repos -> Awareness]
BY DEF AfterPropagation, Synced, Awareness

(* What a step of r does to the messages in flight.                        *)
LEMMA SentType ==
  ASSUME NEW S, net \in [Repos -> [Repos -> Seq(S)]], NEW r \in Repos,
         NEW out \in [Repos -> Seq(S)]
  PROVE  Sent(r, out) \in [Repos -> [Repos -> Seq(S)]]
<1>1. \A q \in Repos : net[r][q] \o out[q] \in Seq(S)
  BY ConcatProperties
<1> QED BY <1>1 DEF Sent

InFlightAfter(r, p, out) ==
  /\ net'[p][r] = Tail(net[p][r])
  /\ \A x, y \in Repos : <<x, y>> # <<p, r>> =>
       net'[x][y] = IF x = r /\ Link(r, y) \in up THEN net[x][y] \o out[y]
                    ELSE net[x][y]

LEMMA HandledType ==
  ASSUME NEW S, net \in [Repos -> [Repos -> Seq(S)]], NEW r \in Repos,
         NEW p \in Repos \ {r}, NEW out \in [Repos -> Seq(S)],
         net[p][r] # <<>>, Handled(r, p, out)
  PROVE  net' \in [Repos -> [Repos -> Seq(S)]] /\ InFlightAfter(r, p, out)
<1>1. Tail(net[p][r]) \in Seq(S)
  BY HeadTailProperties
<1> DEFINE sent == Sent(r, out)
<1>2. /\ sent \in [Repos -> [Repos -> Seq(S)]]
      /\ \A x, y \in Repos :
           sent[x][y] = IF x = r /\ Link(r, y) \in up THEN net[x][y] \o out[y]
                        ELSE net[x][y]
  <2>1. sent \in [Repos -> [Repos -> Seq(S)]]
    BY SentType
  <2>2. ASSUME NEW x \in Repos, NEW y \in Repos
        PROVE  sent[x][y] = IF x = r /\ Link(r, y) \in up THEN net[x][y] \o out[y]
                            ELSE net[x][y]
    BY DEF Sent
  <2> QED BY <2>1, <2>2
<1>3. net' = [sent EXCEPT ![p][r] = Tail(@)]
  BY DEF Handled
<1> HIDE DEF sent
<1>4. sent[p][r] = net[p][r]
  BY <1>2
<1>5. net' = [sent EXCEPT ![p][r] = Tail(net[p][r])]
  BY <1>2, <1>3, <1>4
<1>6. \A x, y \in Repos : net'[x][y] = IF x = p /\ y = r THEN Tail(net[p][r]) ELSE sent[x][y]
  BY <1>2, <1>5
<1>7. net' \in [Repos -> [Repos -> Seq(S)]]
  BY <1>1, <1>2, <1>5
<1> QED BY <1>2, <1>6, <1>7 DEF InFlightAfter

LEMMA SendToType ==
  ASSUME NEW S, NEW p \in Repos, NEW msgs \in Seq(S)
  PROVE  /\ SendTo(p, msgs) \in [Repos -> Seq(S)]
         /\ \A q \in Repos : SendTo(p, msgs)[q] = IF q = p THEN msgs ELSE <<>>
         /\ Silence \in [Repos -> Seq(S)]
         /\ \A q \in Repos : Silence[q] = <<>>
<1>1. <<>> \in Seq(S)
  BY EmptySeq
<1>2. Silence \in [Repos -> Seq(S)] /\ \A q \in Repos : Silence[q] = <<>>
  BY <1>1 DEF Silence
<1> QED BY <1>2 DEF SendTo

-----------------------------------------------------------------------------
(* Every step keeps the types.                                             *)
LEMMA InitTyped == Init => Typed
<1> SUFFICES ASSUME Init PROVE Typed
  OBVIOUS
<1>1. NetType
  BY EmptySeq DEF Init, NetType
<1>2. Unknown \in Awareness
  BY DEF Unknown, Awareness
<1>3. TypeOK
  BY <1>2, RepoAssumption DEF Init, TypeOK, ChannelStates
<1> QED BY <1>1, <1>3 DEF Typed

LEMMA ConnectTyped ==
  ASSUME Typed, NEW r \in Repos, NEW p \in Repos \ {r}, Connect(r, p)
  PROVE  Typed'
<1> USE DEF Typed
<1>1. TypeOK'
  BY DEF Connect, TypeOK, ChannelStates, opVars
<1>2. NetType'
  <2>1. <<EstablishRequest>> \in Seq(Messages(made)) /\ <<>> \in Seq(Messages(made))
    BY PlainType, EmptySeq
  <2> DEFINE Opening(x, y) == IF <<x, y>> \in Initiates THEN <<EstablishRequest>> ELSE <<>>
  <2>2. net' = [net EXCEPT ![r][p] = Opening(r, p), ![p][r] = Opening(p, r)]
    BY DEF Connect
  <2>3. Opening(r, p) \in Seq(Messages(made)) /\ Opening(p, r) \in Seq(Messages(made))
    BY <2>1
  <2> HIDE DEF Opening
  <2>4. made' = made
    BY DEF Connect, opVars
  <2> QED BY <2>2, <2>3, <2>4 DEF NetType
<1> QED BY <1>1, <1>2

LEMMA BreakTyped ==
  ASSUME Typed, NEW r \in Repos, NEW p \in Repos \ {r},
         Break(r, p) \/ ChannelRemoved(r, p)
  PROVE  Typed'
<1> USE DEF Typed
<1>1. CASE Break(r, p)
  <2>1. TypeOK'
    BY <1>1, RepoAssumption DEF Break, TypeOK, repoVars, opVars
  <2>2. NetType'
    BY <1>1, EmptySeq DEF Break, NetType, opVars
  <2> QED BY <2>1, <2>2
<1>2. CASE ChannelRemoved(r, p)
  BY <1>2 DEF ChannelRemoved, TypeOK, NetType, ChannelStates, linkVars, opVars
<1> QED BY <1>1, <1>2

LEMMA OvertakeTyped ==
  ASSUME Typed, NEW r \in Repos, NEW p \in Repos \ {r}, Overtake(r, p)
  PROVE  Typed'
<1> USE DEF Typed
<1>1. TypeOK'
  BY RepoAssumption DEF Overtake, TypeOK, repoVars, opVars
<1> DEFINE q == net[p][r]
           M == Messages(made)
<1>2. q \in Seq(M) /\ Len(q) > 1
  BY DEF Overtake, NetType
<1>3. q[1] \in M /\ q[2] \in M
  BY <1>2, ElementOfSeq, LenProperties
<1>4. SubSeq(q, 3, Len(q)) \in Seq(M)
  BY <1>2, SubSeqProperties, LenProperties
<1>5. net' = [net EXCEPT ![p][r] = <<q[2], q[1]>> \o SubSeq(q, 3, Len(q))] /\ made' = made
  BY DEF Overtake, opVars
<1> HIDE DEF q, M
<1>6. <<q[2], q[1]>> \o SubSeq(q, 3, Len(q)) \in Seq(M)
  <2>1. <<q[2], q[1]>> \in Seq(M)
    BY <1>3
  <2> QED BY <1>4, <2>1, ConcatProperties
<1>7. NetType'
  BY <1>5, <1>6 DEF NetType, M
<1> QED BY <1>1, <1>7

LEMMA RestartTyped ==
  ASSUME Typed, NEW r \in Repos, Restart(r)
  PROVE  Typed'
<1> USE DEF Typed
<1>1. Unknown \in Awareness
  BY DEF Unknown, Awareness
<1>2. TypeOK'
  BY <1>1, RepoAssumption DEF Restart, TypeOK, ChannelStates, opVars
<1>3. NetType'
  BY EmptySeq DEF Restart, NetType, opVars
<1> QED BY <1>2, <1>3

LEMMA DocEnsureTyped ==
  ASSUME Typed, NEW r \in Repos, DocEnsure(r)
  PROVE  Typed'
<1> USE DEF Typed
<1>1. TypeOK'
  BY DEF DocEnsure, Create, TypeOK, opVars
<1>2. <<SyncRequest({}, TRUE)>> \in Seq(Messages(made)) /\ <<>> \in Seq(Messages(made))
  BY RequestType, EmptySeq
<1> DEFINE ask == <<SyncRequest({}, TRUE)>>
<1> HIDE DEF ask
<1> DEFINE out == [q \in Repos |-> IF q \in Established(r) THEN ask ELSE <<>>]
<1>3. out \in [Repos -> Seq(Messages(made))]
  BY <1>2 DEF ask
<1>4. net' = Sent(r, out)
  BY DEF DocEnsure, ask
<1> HIDE DEF out
<1>5. made' = made
  BY DEF DocEnsure, opVars
<1>6. NetType'
  <2>1. Sent(r, out) \in [Repos -> [Repos -> Seq(Messages(made))]]
    BY <1>3, SentType DEF NetType
  <2> QED BY <1>4, <1>5, <2>1 DEF NetType
<1> QED BY <1>1, <1>6

LEMMA LocalDocChangeTyped ==
  ASSUME Typed, NEW r \in Repos, NEW o \in Ops, LocalDocChange(r, o)
  PROVE  Typed'
<1> USE DEF Typed
<1> DEFINE v   == Version(r) \cup {o}
           out == Propagated(r, v, r, awareness[r])
<1>1. /\ made' = made \cup {o} /\ net' = Sent(r, out)
      /\ awareness' = [awareness EXCEPT ![r] = AfterPropagation(r, v, r, awareness[r])]
      /\ UNCHANGED <<docs, channel, known, subs, up, breaks, restarts, overtakes>>
      /\ oplog' = [oplog EXCEPT ![r] = @ \cup {o}]
      /\ deps' = [deps EXCEPT ![o] = Version(r)]
  BY DEF LocalDocChange, TypeOK
<1>2. v \in SUBSET made' /\ v \in SUBSET Ops /\ Version(r) \in SUBSET made
  BY <1>1, VersionType
<1> HIDE DEF v
<1>3. AfterPropagation(r, v, r, awareness[r]) \in [Repos -> Awareness]
  BY <1>2, AfterPropagationType DEF TypeOK
<1>4. TypeOK'
  BY <1>1, <1>2, <1>3 DEF TypeOK
<1>5. NetType'
  <2>1. out \in [Repos -> Seq(Messages(made'))]
    BY <1>2, PropagatedType
  <2>2. net \in [Repos -> [Repos -> Seq(Messages(made'))]]
    <3>1. Messages(made) \subseteq Messages(made')
      BY <1>1, MessagesGrow
    <3>2. \A x, y \in Repos : net[x][y] \in Seq(Messages(made'))
      BY <3>1, SeqMonotonic DEF NetType
    <3> QED BY <3>2 DEF NetType
  <2> HIDE DEF out
  <2>3. Sent(r, out) \in [Repos -> [Repos -> Seq(Messages(made'))]]
    BY <2>1, <2>2, SentType
  <2> QED BY <1>1, <2>3 DEF NetType
<1> QED BY <1>4, <1>5

(* The handlers: what a handler sends are messages, what it imports was    *)
(* made, what it believes is a version.                                    *)
LEMMA MessageType ==
  ASSUME Typed, NEW r \in Repos, NEW p \in Repos, net[p][r] # <<>>
  PROVE  Message(r, p) \in Messages(made)
<1>1. net[p][r] \in Seq(Messages(made))
  BY DEF Typed, NetType
<1> QED BY <1>1, HeadTailProperties DEF Message

LEMMA OfferedType ==
  ASSUME Typed, NEW r \in Repos, NEW p \in Repos, net[p][r] # <<>>
  PROVE  LET m == Message(r, p)
         IN /\ m.type \in {"sync-response", "reply"} =>
                 m.offer.data \in SUBSET made /\ m.offer.version \in SUBSET made
            /\ m.type = "update" => m.data \in SUBSET made /\ m.version \in SUBSET made
            /\ m.type = "sync-request" =>
                 m.wants \in SUBSET Ops /\ m.bidirectional \in BOOLEAN
            /\ m.type = "reply" => m.wants \in SUBSET Ops
<1> DEFINE m == Message(r, p)
<1>1. m \in Messages(made)
  BY MessageType
<1> HIDE DEF m
<1>2. /\ m.type \in {"sync-response", "reply"} =>
           m.offer.data \in SUBSET made /\ m.offer.version \in SUBSET made
      /\ m.type = "update" => m.data \in SUBSET made /\ m.version \in SUBSET made
      /\ m.type = "sync-request" => m.wants \in SUBSET Ops /\ m.bidirectional \in BOOLEAN
      /\ m.type = "reply" => m.wants \in SUBSET Ops
  BY <1>1 DEF Messages, Offers, Handshakes
<1> QED BY <1>2 DEF m

(* The messages of a handler that sends out.                               *)
LEMMA HandlerNet ==
  ASSUME Typed, NEW r \in Repos, NEW p \in Repos \ {r}, net[p][r] # <<>>,
         NEW out \in [Repos -> Seq(Messages(made))], Handled(r, p, out), made' = made
  PROVE  NetType'
BY HandledType DEF Typed, NetType

LEMMA ImportTyped ==
  ASSUME Typed, NEW r \in Repos, NEW p \in Repos \ {r}, net[p][r] # <<>>,
         NEW S \in SUBSET made, NEW toSource \in Seq(Messages(made)),
         Import(r, p, S, toSource), made' = made
  PROVE  /\ oplog' \in [Repos -> SUBSET made]
         /\ awareness' \in [Repos -> [Repos -> Awareness]]
         /\ NetType'
<1> DEFINE log == oplog[r] \cup S
           v   == Applied(log)
           aw  == [awareness[r] EXCEPT ![p] = Synced(v)]
           out == [Propagated(r, v, p, aw) EXCEPT ![p] = toSource]
<1>1. log \in SUBSET made /\ v \in SUBSET made /\ v \in SUBSET Ops
  BY DEF Typed, TypeOK, Applied
<1>2. /\ oplog' = [oplog EXCEPT ![r] = log]
      /\ awareness' = [awareness EXCEPT ![r] = AfterPropagation(r, v, p, aw)]
      /\ Handled(r, p, out)
  BY DEF Import
<1> HIDE DEF v
<1>3. aw \in [Repos -> Awareness]
  BY <1>1 DEF Typed, TypeOK, Synced, Awareness
<1> HIDE DEF aw
<1>4. AfterPropagation(r, v, p, aw) \in [Repos -> Awareness]
  BY <1>1, <1>3, AfterPropagationType
<1>5. out \in [Repos -> Seq(Messages(made))]
  <2>1. Propagated(r, v, p, aw) \in [Repos -> Seq(Messages(made))]
    BY <1>1, PropagatedType
  <2> QED BY <2>1
<1> HIDE DEF out
<1>6. NetType'
  BY <1>2, <1>5, HandlerNet
<1> QED BY <1>1, <1>2, <1>4, <1>6 DEF Typed, TypeOK

LEMMA RequestsType ==
  ASSUME Typed, NEW r \in Repos, NEW p \in Repos
  PROVE  /\ DocToSync(r, p) \in Seq(Messages(made))
         /\ AllDocsToSync(r, p) \in Seq(Messages(made))
         /\ Welcome(r, p) \in Seq(Messages(made))
<1> DEFINE all   == <<SyncRequest(Version(r), TRUE)>>
           since == <<SyncRequest(awareness[r][p].version, TRUE)>>
<1>1. all \in Seq(Messages(made)) /\ <<>> \in Seq(Messages(made))
  BY VersionType, RequestType, EmptySeq DEF Typed
<1>2. since \in Seq(Messages(made))
  <2>1. awareness[r][p].version \in SUBSET Ops
    BY DEF Typed, TypeOK, Awareness
  <2> QED BY <2>1, RequestType
<1>3. EstablishResponse \in Messages(made)
  BY PlainType
<1>4. /\ DocToSync(r, p) \in {<<>>, all, since}
      /\ AllDocsToSync(r, p) \in {<<>>, all}
  BY DEF DocToSync, ChangedDocToSync, AllDocsToSync
<1> HIDE DEF all, since
<1>5. /\ DocToSync(r, p) \in Seq(Messages(made))
      /\ AllDocsToSync(r, p) \in Seq(Messages(made))
  BY <1>1, <1>2, <1>4
<1>6. Welcome(r, p) \in Seq(Messages(made))
  <2>1. <<EstablishResponse>> \in Seq(Messages(made))
    BY <1>3
  <2> QED BY <1>5, <2>1, ConcatProperties DEF Welcome
<1> QED BY <1>5, <1>6

LEMMA BelieveType ==
  ASSUME Typed, NEW r \in Repos, NEW p \in Repos, NEW a \in Awareness, Believe(r, p, a)
  PROVE  awareness' \in [Repos -> [Repos -> Awareness]]
BY DEF Typed, TypeOK, Believe

LEMMA ReceiveTyped ==
  ASSUME Typed, NEW r \in Repos, NEW p \in Repos \ {r}, Receive(r, p)
  PROVE  Typed'
<1> DEFINE m == Message(r, p)
<1> USE DEF Typed
<1>1. /\ net[p][r] # <<>>
      /\ UNCHANGED <<up, made, deps, breaks, restarts, overtakes>>
  BY DEF Receive, HandleEstablishRequest, HandleEstablishResponse, HandleSyncRequest,
         HandleSyncResponse, HandleReply, HandleUpdate, HandleNewDoc,
         ReceivesEstablished, Receives, opVars
<1>2. /\ docs \cup {r} \in SUBSET Repos
      /\ Pending \in Awareness
      /\ Silence \in [Repos -> Seq(Messages(made))]
  BY SendToType DEF TypeOK, Pending, Awareness, Silence
<1>3. Version(r) \in SUBSET made /\ Version(r) \in SUBSET Ops
  BY VersionType
<1>4. SUFFICES /\ docs' \in SUBSET Repos /\ oplog' \in [Repos -> SUBSET made]
               /\ channel' \in [Repos -> [Repos -> ChannelStates]]
               /\ known' \in [Repos -> SUBSET Repos]
               /\ subs' \in [Repos -> SUBSET Repos]
               /\ awareness' \in [Repos -> [Repos -> Awareness]]
               /\ NetType'
  BY <1>1 DEF TypeOK
<1>5. CASE HandleEstablishRequest(r, p) \/ HandleEstablishResponse(r, p)
  <2>1. /\ UNCHANGED <<docs, oplog, subs, awareness>>
        /\ channel' = [channel EXCEPT ![r][p] = "established"]
        /\ known' = [known EXCEPT ![r] = @ \cup {p}]
    BY <1>5 DEF HandleEstablishRequest, HandleEstablishResponse, Establish
  <2>2. NetType'
    <3>1. PICK msgs \in Seq(Messages(made)) : Handled(r, p, SendTo(p, msgs))
      BY <1>5, RequestsType DEF HandleEstablishRequest, HandleEstablishResponse
    <3> QED BY <1>1, <3>1, SendToType, HandlerNet
  <2> QED BY <2>1, <2>2 DEF TypeOK, ChannelStates
<1>6. CASE HandleSyncRequest(r, p)
  <2>1. /\ UNCHANGED <<oplog, channel, known>> /\ m.type = "sync-request"
        /\ docs' = docs \cup {r} /\ subs' = [subs EXCEPT ![r] = @ \cup {p}]
        /\ Believe(r, p, Pending)
        /\ Handled(r, p, SendTo(p, <<Answer(Version(r), m)>>))
    BY <1>6 DEF HandleSyncRequest, ReceivesEstablished, Receives, Create, Subscribe, Message
  <2>2. Answer(Version(r), m) \in Messages(made)
    BY <1>3, ResponseType, ReplyType DEF Answer
  <2>3. NetType'
    <3>1. <<Answer(Version(r), m)>> \in Seq(Messages(made))
      BY <2>2
    <3> QED BY <1>1, <2>1, <3>1, SendToType, HandlerNet
  <2> QED BY <1>2, <2>1, <2>3, BelieveType DEF TypeOK
<1>7. CASE HandleSyncResponse(r, p)
  <2>1. /\ UNCHANGED <<channel, known, subs>> /\ m.type = "sync-response"
    BY <1>7 DEF HandleSyncResponse, ReceivesEstablished, Receives, Message
  <2>2. m.offer.data \in SUBSET made /\ Synced(m.offer.version) \in Awareness
    BY <1>1, <2>1, OfferedType DEF TypeOK, Synced, Awareness
  <2>3. CASE docs' = docs \cup {r} /\ Import(r, p, m.offer.data, <<>>)
    BY <1>1, <1>2, <2>1, <2>2, <2>3, EmptySeq, ImportTyped DEF TypeOK
  <2>4. CASE /\ Believe(r, p, Synced(m.offer.version)) /\ Handled(r, p, Silence)
             /\ UNCHANGED <<docs, oplog>>
    BY <1>1, <1>2, <2>1, <2>2, <2>4, BelieveType, HandlerNet DEF TypeOK
  <2> QED BY <1>7, <2>3, <2>4 DEF HandleSyncResponse, Create
<1>8. CASE HandleReply(r, p)
  <2> DEFINE v == Applied(oplog[r] \cup m.offer.data)
  <2>1. /\ UNCHANGED <<channel, known>> /\ m.type = "reply"
        /\ docs' = docs \cup {r} /\ subs' = [subs EXCEPT ![r] = @ \cup {p}]
    BY <1>8 DEF HandleReply, ReceivesEstablished, Receives, Create, Subscribe, Message
  <2>2. m.offer.data \in SUBSET made
    BY <1>1, <2>1, OfferedType
  <2>3. v \in SUBSET made
    BY <2>2 DEF TypeOK, Applied
  <2>4. /\ <<SyncResponse(v, m.wants)>> \in Seq(Messages(made))
        /\ <<SyncResponse(Version(r), m.wants)>> \in Seq(Messages(made))
    <3>1. SyncResponse(v, m.wants) \in Messages(made)
      BY <2>3, ResponseType
    <3>2. SyncResponse(Version(r), m.wants) \in Messages(made)
      BY <1>3, ResponseType
    <3> QED BY <3>1, <3>2
  <2>5. CASE Import(r, p, m.offer.data, <<SyncResponse(v, m.wants)>>)
    BY <1>1, <1>2, <2>1, <2>2, <2>4, <2>5, ImportTyped DEF TypeOK
  <2>6. CASE /\ Believe(r, p, Pending) /\ UNCHANGED oplog
             /\ Handled(r, p, SendTo(p, <<SyncResponse(Version(r), m.wants)>>))
    <3>1. NetType'
      BY <1>1, <2>4, <2>6, SendToType, HandlerNet
    <3> QED BY <1>2, <2>1, <2>6, <3>1, BelieveType DEF TypeOK
  <2> QED BY <1>8, <2>5, <2>6 DEF HandleReply
<1>9. CASE HandleUpdate(r, p)
  <2>1. UNCHANGED <<docs, subs, channel, known>> /\ m.type = "update"
    BY <1>9 DEF HandleUpdate, ReceivesEstablished, Receives, Message
  <2>2. m.data \in SUBSET made
    BY <1>1, <2>1, OfferedType
  <2>3. CASE Import(r, p, m.data, <<>>)
    BY <1>1, <2>1, <2>2, <2>3, EmptySeq, ImportTyped DEF TypeOK
  <2>4. CASE Handled(r, p, Silence) /\ UNCHANGED <<oplog, awareness>>
    BY <1>1, <1>2, <2>1, <2>4, HandlerNet DEF TypeOK
  <2> QED BY <1>9, <2>3, <2>4 DEF HandleUpdate
<1>10. CASE HandleNewDoc(r, p)
  <2>1. /\ UNCHANGED <<oplog, subs, channel, known>>
        /\ docs' = docs \cup {r} /\ Believe(r, p, Pending)
        /\ Handled(r, p, SendTo(p, <<SyncRequest(Version(r), TRUE)>>))
    BY <1>10 DEF HandleNewDoc, ReceivesEstablished, Create
  <2>2. <<SyncRequest(Version(r), TRUE)>> \in Seq(Messages(made))
    BY <1>3, RequestType
  <2>3. NetType'
    BY <1>1, <2>1, <2>2, SendToType, HandlerNet
  <2> QED BY <1>2, <2>1, <2>3, BelieveType DEF TypeOK
<1> QED BY <1>5, <1>6, <1>7, <1>8, <1>9, <1>10 DEF Receive

LEMMA NextTyped == Typed /\ [Next]_vars => Typed'
<1> SUFFICES ASSUME Typed, [Next]_vars PROVE Typed'
  OBVIOUS
<1>1. CASE UNCHANGED vars
  BY <1>1 DEF Typed, TypeOK, NetType, vars, repoVars, linkVars, opVars
<1> QED BY <1>1, ConnectTyped, BreakTyped, ReceiveTyped, OvertakeTyped, DocEnsureTyped,
           LocalDocChangeTyped, RestartTyped DEF Next

LEMMA AlwaysTyped == Spec => []Typed
BY InitTyped, NextTyped, PTL DEF Spec

(* Repos, links and beliefs stay what they are declared to be; no Repo     *)
(* ever holds an operation nobody made.                                    *)
THEOREM TypeCorrect == Spec => []TypeOK
<1>1. Typed => TypeOK
  BY DEF Typed
<1> QED BY <1>1, AlwaysTyped, PTL

-----------------------------------------------------------------------------
(* The handshake.  For r at one end of a link and p at the other: a link   *)
(* that is down carries nothing, one that is up has a channel at r; what p *)
(* sends before it has established r is the opening of a handshake, and    *)
(* once it has, the answer that establishes p at r is under way, ahead of  *)
(* everything else.                                                        *)
HandshakeOf(r, p) ==
  /\ Link(r, p) \notin up => net[p][r] = <<>>
  /\ Link(r, p) \in up => channel[r][p] # "none"
  /\ Link(r, p) \in up /\ channel[p][r] # "established" =>
       net[p][r] \in {<<>>, <<EstablishRequest>>}
  /\ Link(r, p) \in up /\ channel[p][r] = "established" /\ channel[r][p] # "established" =>
       net[p][r] # <<>>
  /\ channel[r][p] # "established" /\ net[p][r] # <<>> =>
       Head(net[p][r]).type \in Handshakes

Handshake == \A r \in Repos : \A p \in Repos \ {r} : HandshakeOf(r, p)

HandshakeInv == Typed /\ Handshake

(* Appending keeps the head of what was there, and takes its place where   *)
(* nothing was.                                                            *)
LEMMA HeadOfConcat ==
  ASSUME NEW S, NEW s \in Seq(S), NEW t \in Seq(S)
  PROVE  /\ s # <<>> => s \o t # <<>> /\ Head(s \o t) = Head(s)
         /\ s = <<>> => s \o t = t
         /\ t = <<>> => s \o t = s
         /\ t # <<>> => s \o t # <<>>
OBVIOUS

LEMMA TailOfOne ==
  ASSUME NEW m
  PROVE  Tail(<<m>>) = <<>> /\ Len(<<m>>) = 1 /\ Len(<<>>) = 0
OBVIOUS

LEMMA LinkIsSymmetric ==
  ASSUME NEW r, NEW p
  PROVE  Link(r, p) = Link(p, r)
BY DEF Link

(* A step of r that only sends, and only to those it has established.      *)
LEMMA SendKeepsHandshake ==
  ASSUME HandshakeInv, NEW r \in Repos, NEW M,
         net \in [Repos -> [Repos -> Seq(M)]], NEW out \in [Repos -> Seq(M)],
         \A q \in Repos : out[q] # <<>> => channel[r][q] = "established",
         net' = Sent(r, out), UNCHANGED <<channel, up>>
  PROVE  Handshake'
<1> SUFFICES ASSUME NEW x \in Repos, NEW y \in Repos \ {x}
             PROVE  HandshakeOf(x, y)'
  BY DEF Handshake
<1>1. HandshakeOf(x, y)
  BY DEF HandshakeInv, Handshake
<1>2. net'[y][x] = IF y = r /\ Link(r, x) \in up THEN net[y][x] \o out[x] ELSE net[y][x]
  BY DEF Sent
<1>3. CASE net'[y][x] = net[y][x]
  BY <1>1, <1>3 DEF HandshakeOf
<1>4. CASE y = r /\ Link(r, x) \in up /\ net'[y][x] = net[y][x] \o out[x]
  <2>1. net[y][x] \in Seq(M) /\ out[x] \in Seq(M)
    OBVIOUS
  <2>2. CASE out[x] = <<>>
    BY <1>3, <1>4, <2>1, <2>2, HeadOfConcat
  <2>3. CASE out[x] # <<>>
    <3>1. channel[y][x] = "established" /\ Link(x, y) \in up
      BY <1>4, <2>3, LinkIsSymmetric
    <3>2. channel[x][y] # "established" => net[y][x] # <<>>
      BY <1>1, <3>1 DEF HandshakeOf
    <3>3. net[y][x] # <<>> => /\ net'[y][x] # <<>>
                             /\ Head(net'[y][x]) = Head(net[y][x])
      BY <1>4, <2>1, HeadOfConcat
    <3> QED BY <1>1, <3>1, <3>2, <3>3 DEF HandshakeOf
  <2> QED BY <2>2, <2>3
<1> QED BY <1>2, <1>3, <1>4

(* A step of r that handles a message of p, has p established then, and    *)
(* answers the opening of a handshake before it sends anything else.       *)
LEMMA HandlerKeepsHandshake ==
  ASSUME HandshakeInv, NEW r \in Repos, NEW p \in Repos \ {r}, net[p][r] # <<>>,
         NEW out \in [Repos -> Seq(Messages(made))], Handled(r, p, out),
         UNCHANGED <<made, up>>,
         \A x, y \in Repos :
           channel'[x][y] = IF x = r /\ y = p THEN "established" ELSE channel[x][y],
         Message(r, p).type = "establish-request" =>
           out[p] # <<>> /\ Head(out[p]).type \in Handshakes,
         \A q \in Repos : q # p /\ out[q] # <<>> => channel[r][q] = "established"
  PROVE  Handshake'
<1> DEFINE M == Messages(made)
<1>1. net \in [Repos -> [Repos -> Seq(M)]]
  BY DEF HandshakeInv, Typed, NetType
<1>2. /\ net'[p][r] = Tail(net[p][r])
      /\ \A x, y \in Repos : <<x, y>> # <<p, r>> =>
           net'[x][y] = IF x = r /\ Link(r, y) \in up THEN net[x][y] \o out[y]
                        ELSE net[x][y]
  <2>1. InFlightAfter(r, p, out)
    BY <1>1, HandledType
  <2> QED BY <2>1 DEF InFlightAfter
<1>3. HandshakeOf(r, p) /\ Link(r, p) \in up
  BY DEF HandshakeInv, Handshake, HandshakeOf
<1>4. channel[p][r] # "established" =>
        /\ net[p][r] = <<EstablishRequest>>
        /\ out[p] # <<>> /\ Head(out[p]).type \in Handshakes
  <2> SUFFICES ASSUME channel[p][r] # "established"
               PROVE  net[p][r] = <<EstablishRequest>> /\ Message(r, p).type = "establish-request"
    OBVIOUS
  <2>1. net[p][r] = <<EstablishRequest>>
    BY <1>3 DEF HandshakeOf
  <2> QED BY <2>1 DEF Message, EstablishRequest
<1> HIDE DEF M
<1> SUFFICES ASSUME NEW x \in Repos, NEW y \in Repos \ {x}
             PROVE  HandshakeOf(x, y)'
  BY DEF Handshake
<1>5. HandshakeOf(x, y)
  BY DEF HandshakeInv, Handshake
<1>6. CASE x = r /\ y = p
  <2>1. channel[p][r] # "established" => net'[p][r] = <<>>
    BY <1>2, <1>4, TailOfOne
  <2> QED BY <1>3, <1>6, <2>1 DEF HandshakeOf
<1>7. CASE y = r
  <2>1. net[r][x] \in Seq(M) /\ out[x] \in Seq(M)
    BY <1>1 DEF M
  <2>2. net'[r][x] = IF Link(x, r) \in up THEN net[r][x] \o out[x] ELSE net[r][x]
    BY <1>2, <1>7, LinkIsSymmetric
  <2>3. channel'[x][y] = channel[x][y]
    BY <1>7
  <2>4. channel'[y][x] = IF x = p THEN "established" ELSE channel[y][x]
    BY <1>7
  <2>5. CASE out[x] = <<>> /\ x # p
    <3>1. net'[y][x] = net[y][x]
      BY <1>7, <2>1, <2>2, <2>5, HeadOfConcat
    <3> QED BY <1>5, <2>3, <2>4, <2>5, <3>1 DEF HandshakeOf
  <2>6. CASE x # p /\ out[x] # <<>>
    <3>1. channel[y][x] = "established"
      BY <1>7, <2>6
    <3>2. Link(x, y) \in up /\ channel[x][y] # "established" => net[y][x] # <<>>
      BY <1>5, <3>1 DEF HandshakeOf
    <3>3. net[y][x] # <<>> => /\ net'[y][x] # <<>>
                             /\ Head(net'[y][x]) = Head(net[y][x])
      BY <1>7, <2>1, <2>2, HeadOfConcat
    <3>4. Link(x, y) \notin up => net'[y][x] = net[y][x]
      BY <1>7, <2>2
    <3> QED BY <1>5, <2>3, <2>4, <2>6, <3>1, <3>2, <3>3, <3>4 DEF HandshakeOf
  <2>7. CASE x = p
    <3>1. Link(x, y) \in up
      BY <1>3, <1>7, <2>7, LinkIsSymmetric
    <3>2. channel[x][y] # "established" =>
            /\ net'[y][x] # <<>>
            /\ Head(net'[y][x]).type \in Handshakes
      <4> SUFFICES ASSUME channel[x][y] # "established"
                   PROVE  net'[y][x] # <<>> /\ Head(net'[y][x]).type \in Handshakes
        OBVIOUS
      <4>1. out[x] # <<>> /\ Head(out[x]).type \in Handshakes
        BY <1>4, <1>7, <2>7
      <4>2. net'[y][x] = net[y][x] \o out[x]
        BY <1>7, <2>2, <3>1
      <4>3. net[y][x] # <<>> => Head(net[y][x]).type \in Handshakes
        BY <1>5 DEF HandshakeOf
      <4>4. net[y][x] \in Seq(M)
        BY <1>7, <2>1
      <4>5. CASE net[y][x] = <<>>
        <5>1. net'[y][x] = out[x]
          BY <2>1, <4>2, <4>4, <4>5, HeadOfConcat
        <5> QED BY <4>1, <5>1
      <4>6. CASE net[y][x] # <<>>
        <5>1. net'[y][x] # <<>> /\ Head(net'[y][x]) = Head(net[y][x])
          BY <2>1, <4>2, <4>4, <4>6, HeadOfConcat
        <5> QED BY <4>3, <4>6, <5>1
      <4> QED BY <4>5, <4>6
    <3> QED BY <1>5, <2>3, <2>4, <2>7, <3>1, <3>2 DEF HandshakeOf
  <2> QED BY <2>5, <2>6, <2>7
<1>8. CASE y # r /\ ~ (x = r /\ y = p)
  <2>1. net'[y][x] = net[y][x]
    BY <1>2, <1>8
  <2>2. channel'[x][y] = channel[x][y] /\ channel'[y][x] = channel[y][x]
    BY <1>8
  <2> QED BY <1>5, <2>1, <2>2 DEF HandshakeOf
<1> QED BY <1>6, <1>7, <1>8

(* What is set at both ends of a link.                                     *)
LEMMA BothEnds ==
  ASSUME NEW R, NEW T, NEW f \in [R -> [R -> T]], NEW r \in R, NEW p \in R \ {r},
         NEW a, NEW b, NEW g, g = [f EXCEPT ![r][p] = a, ![p][r] = b]
  PROVE  /\ g[r][p] = a /\ g[p][r] = b
         /\ \A x \in R : \A y \in R \ {x} : {x, y} # {r, p} => g[x][y] = f[x][y]
<1> DEFINE h == [f EXCEPT ![r][p] = a]
<1>0. g = [h EXCEPT ![p][r] = b]
  OBVIOUS
<1>1. DOMAIN h = R /\ h[p] = f[p] /\ h[r][p] = a
      /\ \A x, y \in R : ~ (x = r /\ y = p) => h[x][y] = f[x][y]
  OBVIOUS
<1>2. r \in DOMAIN f[p]
  OBVIOUS
<1> HIDE DEF h
<1>3. g[p][r] = b /\ g[r] = h[r]
      /\ \A x, y \in R : ~ (x = p /\ y = r) => g[x][y] = h[x][y]
  <2>1. g[p] = [f[p] EXCEPT ![r] = b] /\ \A x \in R \ {p} : g[x] = h[x]
    BY <1>0, <1>1
  <2>2. g[p][r] = b /\ \A y \in R \ {r} : g[p][y] = f[p][y]
    BY <2>1
  <2> QED BY <1>1, <2>1, <2>2
<1>4. g[r][p] = a
  BY <1>1, <1>3
<1>5. ASSUME NEW x \in R, NEW y \in R \ {x}, {x, y} # {r, p}
      PROVE  g[x][y] = f[x][y]
  <2>1. ~ (x = r /\ y = p) /\ ~ (x = p /\ y = r)
    BY <1>5
  <2> QED BY <1>1, <1>3, <2>1
<1> QED BY <1>3, <1>4, <1>5

LEMMA ConnectHandshake ==
  ASSUME HandshakeInv, NEW r \in Repos, NEW p \in Repos \ {r}, Connect(r, p)
  PROVE  Handshake'
<1> USE DEF HandshakeInv, Typed, NetType
<1> DEFINE Opening(x, y) == IF <<x, y>> \in Initiates THEN <<EstablishRequest>> ELSE <<>>
<1>1. /\ Link(r, p) \notin up /\ up' = up \cup {Link(r, p)}
      /\ channel' = [channel EXCEPT ![r][p] = "connected", ![p][r] = "connected"]
      /\ net' = [net EXCEPT ![r][p] = Opening(r, p), ![p][r] = Opening(p, r)]
  BY DEF Connect
<1>2. ASSUME NEW x \in Repos, NEW y \in Repos
      PROVE  Opening(x, y) \in {<<>>, <<EstablishRequest>>}
  OBVIOUS
<1>3. Head(<<EstablishRequest>>).type \in Handshakes
  BY DEF EstablishRequest, Handshakes
<1> HIDE DEF Opening
<1>a. /\ channel'[r][p] = "connected" /\ channel'[p][r] = "connected"
      /\ \A x \in Repos : \A y \in Repos \ {x} :
           {x, y} # {r, p} => channel'[x][y] = channel[x][y]
  <2>1. channel \in [Repos -> [Repos -> ChannelStates]]
    BY DEF TypeOK
  <2>2. channel' = [channel EXCEPT ![r][p] = "connected", ![p][r] = "connected"]
    BY <1>1
  <2> HIDE DEF HandshakeInv, Typed, NetType
  <2> QED BY <2>1, <2>2, BothEnds
<1>b. /\ net'[r][p] = Opening(r, p) /\ net'[p][r] = Opening(p, r)
      /\ \A x \in Repos : \A y \in Repos \ {x} :
           {x, y} # {r, p} => net'[x][y] = net[x][y]
  <2> DEFINE a == Opening(r, p)
             b == Opening(p, r)
             S == Seq(Messages(made))
  <2>1. net \in [Repos -> [Repos -> S]] /\ net' = [net EXCEPT ![r][p] = a, ![p][r] = b]
    BY <1>1
  <2> HIDE DEF a, b, S
  <2>2. /\ net'[r][p] = a /\ net'[p][r] = b
        /\ \A x \in Repos : \A y \in Repos \ {x} :
             {x, y} # {r, p} => net'[x][y] = net[x][y]
    BY <2>1, BothEnds
  <2> QED BY <2>2 DEF a, b
<1> SUFFICES ASSUME NEW x \in Repos, NEW y \in Repos \ {x}
             PROVE  HandshakeOf(x, y)'
  BY DEF Handshake
<1>4. CASE {x, y} = {r, p}
  <2>1. (x = r /\ y = p) \/ (x = p /\ y = r)
    BY <1>4
  <2>2. /\ channel'[x][y] = "connected" /\ channel'[y][x] = "connected"
        /\ net'[y][x] = Opening(y, x)
    BY <2>1, <1>a, <1>b
  <2>3. Link(x, y) \in up'
    BY <1>1, <1>4 DEF Link
  <2> QED BY <1>2, <1>3, <2>2, <2>3 DEF HandshakeOf, Link
<1>5. CASE {x, y} # {r, p}
  <2>1. /\ channel'[x][y] = channel[x][y] /\ channel'[y][x] = channel[y][x]
        /\ net'[y][x] = net[y][x]
    <3>1. {y, x} # {r, p} /\ x \in Repos \ {y}
      BY <1>5
    <3> QED BY <1>5, <1>a, <1>b, <3>1
  <2>2. Link(x, y) \in up' <=> Link(x, y) \in up
    BY <1>1, <1>5 DEF Link
  <2>3. HandshakeOf(x, y)
    BY DEF Handshake
  <2> QED BY <2>1, <2>2, <2>3 DEF HandshakeOf, Link
<1> QED BY <1>4, <1>5

LEMMA LossHandshake ==
  ASSUME HandshakeInv, NEW r \in Repos,
         \/ \E p \in Repos \ {r} : Break(r, p) \/ ChannelRemoved(r, p)
         \/ Restart(r)
  PROVE  Handshake'
<1> USE DEF HandshakeInv, Typed, NetType
<1> SUFFICES ASSUME NEW x \in Repos, NEW y \in Repos \ {x}
             PROVE  HandshakeOf(x, y)'
  BY DEF Handshake
<1>1. HandshakeOf(x, y) /\ Link(y, x) = Link(x, y)
  BY LinkIsSymmetric DEF Handshake
<1>2. ASSUME NEW p \in Repos \ {r}, Break(r, p)
      PROVE  HandshakeOf(x, y)'
  <2>1. /\ channel' = channel /\ up' = up \ {Link(r, p)}
        /\ net' = [net EXCEPT ![r][p] = <<>>, ![p][r] = <<>>]
    BY <1>2 DEF Break, repoVars
  <2>2. CASE {x, y} = {r, p}
    <3>1. net'[y][x] = <<>>
      BY <2>1, <2>2
    <3>2. Link(x, y) \notin up'
      BY <2>1, <2>2 DEF Link
    <3> QED BY <3>1, <3>2 DEF HandshakeOf, Link
  <2>3. CASE {x, y} # {r, p}
    <3>1. net'[y][x] = net[y][x]
      BY <2>1, <2>3
    <3>2. Link(x, y) \in up' <=> Link(x, y) \in up
      BY <2>1, <2>3 DEF Link
    <3> QED BY <1>1, <2>1, <3>1, <3>2 DEF HandshakeOf, Link
  <2> QED BY <2>2, <2>3
<1>3. ASSUME NEW p \in Repos \ {r}, ChannelRemoved(r, p)
      PROVE  HandshakeOf(x, y)'
  <2>1. /\ Link(r, p) \notin up /\ UNCHANGED <<up, net>>
        /\ channel' = [channel EXCEPT ![r][p] = "none"]
    BY <1>3 DEF ChannelRemoved, linkVars
  <2>2. CASE Link(x, y) \notin up
    BY <1>1, <2>1, <2>2 DEF HandshakeOf, Link
  <2>3. CASE Link(x, y) \in up
    <3>1. ~ (x = r /\ y = p) /\ ~ (x = p /\ y = r)
      BY <2>1, <2>3, LinkIsSymmetric
    <3>2. channel'[x][y] = channel[x][y] /\ channel'[y][x] = channel[y][x]
      BY <2>1, <3>1 DEF TypeOK
    <3> QED BY <1>1, <2>1, <3>2 DEF HandshakeOf, Link
  <2> QED BY <2>2, <2>3
<1>4. CASE Restart(r)
  <2>1. /\ up' = {l \in up : r \notin l}
        /\ channel' = [channel EXCEPT ![r] = [p \in Repos |-> "none"]]
        /\ net'[y][x] = IF r \in {x, y} THEN <<>> ELSE net[y][x]
    BY <1>4 DEF Restart
  <2>2. CASE r \in {x, y}
    <3>1. Link(x, y) \notin up' /\ net'[y][x] = <<>>
      BY <2>1, <2>2 DEF Link
    <3> QED BY <3>1 DEF HandshakeOf, Link
  <2>3. CASE r \notin {x, y}
    <3>1. net'[y][x] = net[y][x] /\ (Link(x, y) \in up' <=> Link(x, y) \in up)
      BY <2>1, <2>3 DEF Link
    <3>2. channel'[x][y] = channel[x][y] /\ channel'[y][x] = channel[y][x]
      BY <2>1, <2>3 DEF TypeOK
    <3> QED BY <1>1, <3>1, <3>2 DEF HandshakeOf, Link
  <2> QED BY <2>2, <2>3
<1> QED BY <1>2, <1>3, <1>4

LEMMA OvertakeHandshake ==
  ASSUME HandshakeInv, NEW r \in Repos, NEW p \in Repos \ {r}, Overtake(r, p)
  PROVE  Handshake'
<1> USE DEF HandshakeInv, Typed, NetType
<1> SUFFICES ASSUME NEW x \in Repos, NEW y \in Repos \ {x}
             PROVE  HandshakeOf(x, y)'
  BY DEF Handshake
<1>1. HandshakeOf(x, y) /\ HandshakeOf(r, p)
  BY DEF Handshake
<1>2. UNCHANGED <<channel, up>> /\ channel[r][p] = "established" /\ Len(net[p][r]) > 1
  BY DEF Overtake, repoVars
<1>3. CASE x = r /\ y = p
  <2>1. net[p][r] # <<>> /\ net[p][r] # <<EstablishRequest>>
    <3>1. net[p][r] \in Seq(Messages(made))
      OBVIOUS
    <3>2. Len(net[p][r]) \in Nat
      BY <3>1, LenProperties
    <3> DEFINE n == Len(net[p][r])
    <3>3. n \in Nat /\ n > 1
      BY <1>2, <3>2
    <3> HIDE DEF n
    <3>4. n # 0 /\ n # 1
      BY <3>3
    <3> QED BY <3>4, TailOfOne, Zenon DEF n
  <2>2. Link(r, p) \in up /\ channel[p][r] = "established"
    BY <1>1, <2>1 DEF HandshakeOf
  <2> QED BY <1>2, <1>3, <2>2 DEF HandshakeOf, Link
<1>4. CASE ~ (x = r /\ y = p)
  <2>1. net'[y][x] = net[y][x]
    BY <1>4 DEF Overtake
  <2> QED BY <1>1, <1>2, <2>1 DEF HandshakeOf, Link
<1> QED BY <1>3, <1>4

(* Who is sent something by a propagation.                                 *)
LEMMA PropagatedTo ==
  ASSUME NEW r \in Repos, NEW v, NEW src, NEW aw, NEW q \in Repos,
         Propagated(r, v, src, aw)[q] # <<>>
  PROVE  channel[r][q] = "established"
BY DEF Propagated, Established

LEMMA SendersHandshake ==
  ASSUME HandshakeInv, NEW r \in Repos,
         DocEnsure(r) \/ \E o \in Ops : LocalDocChange(r, o)
  PROVE  Handshake'
<1> USE DEF HandshakeInv, Typed
<1>1. CASE DocEnsure(r)
  <2> DEFINE ask == <<SyncRequest({}, TRUE)>>
             out == [q \in Repos |-> IF q \in Established(r) THEN ask ELSE <<>>]
  <2>1. ask \in Seq(Messages(made)) /\ <<>> \in Seq(Messages(made))
    BY RequestType, EmptySeq
  <2>2. net' = Sent(r, out) /\ UNCHANGED <<channel, up>>
    BY <1>1 DEF DocEnsure
  <2> HIDE DEF ask
  <2>3. /\ out \in [Repos -> Seq(Messages(made))]
        /\ \A q \in Repos : out[q] # <<>> => channel[r][q] = "established"
    BY <2>1 DEF Established
  <2> HIDE DEF out
  <2> QED BY <2>2, <2>3, SendKeepsHandshake DEF NetType
<1>2. ASSUME NEW o \in Ops, LocalDocChange(r, o)
      PROVE  Handshake'
  <2> DEFINE v   == Version(r) \cup {o}
             out == Propagated(r, v, r, awareness[r])
             M   == Messages(made \cup {o})
  <2>1. net' = Sent(r, out) /\ UNCHANGED <<channel, up>>
    BY <1>2 DEF LocalDocChange
  <2>2. out \in [Repos -> Seq(M)]
    <3>1. v \in SUBSET (made \cup {o})
      BY VersionType
    <3> QED BY <3>1, PropagatedType
  <2>3. net \in [Repos -> [Repos -> Seq(M)]]
    <3>1. Messages(made) \subseteq M
      BY MessagesGrow
    <3>2. \A x, y \in Repos : net[x][y] \in Seq(M)
      BY <3>1, SeqMonotonic DEF NetType
    <3> QED BY <3>2 DEF NetType
  <2>4. \A q \in Repos : out[q] # <<>> => channel[r][q] = "established"
    BY PropagatedTo
  <2> HIDE DEF out, M
  <2> QED BY <2>1, <2>2, <2>3, <2>4, SendKeepsHandshake
<1> QED BY <1>1, <1>2

(* What a handler sends: to the peer it handles a message of whatever it   *)
(* likes, to others only what is propagated.                               *)
LEMMA ImportHandshake ==
  ASSUME HandshakeInv, NEW r \in Repos, NEW p \in Repos \ {r}, net[p][r] # <<>>,
         NEW S \in SUBSET made, NEW toSource \in Seq(Messages(made)),
         Import(r, p, S, toSource), UNCHANGED <<made, up, channel>>,
         channel[r][p] = "established", Message(r, p).type # "establish-request"
  PROVE  Handshake'
<1> DEFINE log == oplog[r] \cup S
           v   == Applied(log)
           aw  == [awareness[r] EXCEPT ![p] = Synced(v)]
           sent == Propagated(r, v, p, aw)
           out == [sent EXCEPT ![p] = toSource]
<1>1. Handled(r, p, out)
  BY DEF Import
<1>2. v \in SUBSET made
  BY DEF HandshakeInv, Typed, TypeOK, Applied
<1>3. sent \in [Repos -> Seq(Messages(made))]
  BY <1>2, PropagatedType
<1>4. \A q \in Repos : sent[q] # <<>> => channel[r][q] = "established"
  BY PropagatedTo
<1> HIDE DEF sent
<1>5. /\ out \in [Repos -> Seq(Messages(made))]
      /\ \A q \in Repos : q # p /\ out[q] # <<>> => channel[r][q] = "established"
  BY <1>3, <1>4
<1> HIDE DEF out
<1>6. \A x, y \in Repos :
        channel'[x][y] = IF x = r /\ y = p THEN "established" ELSE channel[x][y]
  OBVIOUS
<1> QED BY <1>1, <1>5, <1>6, HandlerKeepsHandshake

LEMMA AnswerHandshake ==
  ASSUME HandshakeInv, NEW r \in Repos, NEW p \in Repos \ {r}, net[p][r] # <<>>,
         NEW msgs \in Seq(Messages(made)), Handled(r, p, SendTo(p, msgs)),
         UNCHANGED <<made, up, channel>>,
         channel[r][p] = "established", Message(r, p).type # "establish-request"
  PROVE  Handshake'
<1> DEFINE out == SendTo(p, msgs)
<1>1. /\ out \in [Repos -> Seq(Messages(made))]
      /\ \A q \in Repos : q # p /\ out[q] # <<>> => channel[r][q] = "established"
  BY SendToType
<1>2. Handled(r, p, out)
  OBVIOUS
<1> HIDE DEF out
<1>3. \A x, y \in Repos :
        channel'[x][y] = IF x = r /\ y = p THEN "established" ELSE channel[x][y]
  OBVIOUS
<1> QED BY <1>1, <1>2, <1>3, HandlerKeepsHandshake

LEMMA ReceiveHandshake ==
  ASSUME HandshakeInv, NEW r \in Repos, NEW p \in Repos \ {r}, Receive(r, p)
  PROVE  Handshake'
<1> DEFINE m == Message(r, p)
<1> USE DEF HandshakeInv, Typed
<1>1. net[p][r] # <<>> /\ UNCHANGED <<up, made>>
  BY DEF Receive, HandleEstablishRequest, HandleEstablishResponse, HandleSyncRequest,
         HandleSyncResponse, HandleReply, HandleUpdate, HandleNewDoc,
         ReceivesEstablished, Receives, opVars
<1>2. Version(r) \in SUBSET made /\ Version(r) \in SUBSET Ops
  BY VersionType
<1>3. ASSUME NEW msgs \in Seq(Messages(made)), Handled(r, p, SendTo(p, msgs)),
             channel' = [channel EXCEPT ![r][p] = "established"],
             m.type = "establish-request" =>
               msgs # <<>> /\ Head(msgs).type \in Handshakes
      PROVE  Handshake'
  <2> DEFINE out == SendTo(p, msgs)
  <2>1. /\ out \in [Repos -> Seq(Messages(made))] /\ out[p] = msgs
        /\ \A q \in Repos : q # p => out[q] = <<>>
    BY SendToType
  <2>2. \A x, y \in Repos :
          channel'[x][y] = IF x = r /\ y = p THEN "established" ELSE channel[x][y]
    BY <1>3 DEF TypeOK
  <2>3. Handled(r, p, out)
    BY <1>3
  <2> HIDE DEF out
  <2> QED BY <1>1, <1>3, <2>1, <2>2, <2>3, HandlerKeepsHandshake
<1>4. CASE HandleEstablishRequest(r, p)
  <2>1. Handled(r, p, SendTo(p, Welcome(r, p)))
        /\ channel' = [channel EXCEPT ![r][p] = "established"]
    BY <1>4 DEF HandleEstablishRequest, Establish
  <2>2. Welcome(r, p) # <<>> /\ Head(Welcome(r, p)).type \in Handshakes
    <3>1. <<EstablishResponse>> \in Seq(Messages(made))
      BY PlainType, OneIsSeq
    <3>2. AllDocsToSync(r, p) \in Seq(Messages(made))
      BY RequestsType
    <3>3. Head(<<EstablishResponse>>).type \in Handshakes /\ <<EstablishResponse>> # <<>>
      BY DEF EstablishResponse, Handshakes
    <3> QED BY <3>1, <3>2, <3>3, HeadOfConcat DEF Welcome
  <2> QED BY <1>3, <2>1, <2>2, RequestsType
<1>5. CASE HandleEstablishResponse(r, p)
  <2>1. /\ Handled(r, p, SendTo(p, DocToSync(r, p))) /\ m.type = "establish-response"
        /\ channel' = [channel EXCEPT ![r][p] = "established"]
    BY <1>5 DEF HandleEstablishResponse, Establish, Receives, Message
  <2> QED BY <1>3, <2>1, RequestsType
<1>6. CASE HandleSyncRequest(r, p)
  <2>1. /\ UNCHANGED channel /\ channel[r][p] = "established" /\ m.type = "sync-request"
        /\ Handled(r, p, SendTo(p, <<Answer(Version(r), m)>>))
    BY <1>6 DEF HandleSyncRequest, ReceivesEstablished, Receives, Message
  <2>2. <<Answer(Version(r), m)>> \in Seq(Messages(made))
    BY <1>2, ResponseType, ReplyType, OneIsSeq DEF Answer
  <2> QED BY <1>1, <2>1, <2>2, AnswerHandshake
<1>7. CASE HandleSyncResponse(r, p)
  <2>1. UNCHANGED channel /\ channel[r][p] = "established" /\ m.type = "sync-response"
    BY <1>7 DEF HandleSyncResponse, ReceivesEstablished, Receives, Message
  <2>2. CASE Import(r, p, m.offer.data, <<>>)
    BY <1>1, <2>1, <2>2, OfferedType, EmptySeq, ImportHandshake
  <2>3. CASE Handled(r, p, Silence)
    <3>1. SendTo(p, <<>>) = Silence
      BY DEF SendTo, Silence
    <3> QED BY <1>1, <2>1, <2>3, <3>1, EmptySeq, AnswerHandshake
  <2> QED BY <1>7, <2>2, <2>3 DEF HandleSyncResponse
<1>8. CASE HandleReply(r, p)
  <2> DEFINE v == Applied(oplog[r] \cup m.offer.data)
  <2>1. UNCHANGED channel /\ channel[r][p] = "established" /\ m.type = "reply"
    BY <1>8 DEF HandleReply, ReceivesEstablished, Receives, Message
  <2>2. m.offer.data \in SUBSET made
    BY <1>1, <2>1, OfferedType
  <2>3. v \in SUBSET made
    BY <2>2 DEF TypeOK, Applied
  <2>4. /\ <<SyncResponse(v, m.wants)>> \in Seq(Messages(made))
        /\ <<SyncResponse(Version(r), m.wants)>> \in Seq(Messages(made))
    BY <1>2, <2>3, ResponseType, OneIsSeq
  <2>5. CASE Import(r, p, m.offer.data, <<SyncResponse(v, m.wants)>>)
    BY <1>1, <2>1, <2>2, <2>4, <2>5, ImportHandshake
  <2>6. CASE Handled(r, p, SendTo(p, <<SyncResponse(Version(r), m.wants)>>))
    BY <1>1, <2>1, <2>4, <2>6, AnswerHandshake
  <2> QED BY <1>8, <2>5, <2>6 DEF HandleReply
<1>9. CASE HandleUpdate(r, p)
  <2>1. UNCHANGED channel /\ channel[r][p] = "established" /\ m.type = "update"
    BY <1>9 DEF HandleUpdate, ReceivesEstablished, Receives, Message
  <2>2. CASE Import(r, p, m.data, <<>>)
    BY <1>1, <2>1, <2>2, OfferedType, EmptySeq, ImportHandshake
  <2>3. CASE Handled(r, p, Silence)
    <3>1. SendTo(p, <<>>) = Silence
      BY DEF SendTo, Silence
    <3> QED BY <1>1, <2>1, <2>3, <3>1, EmptySeq, AnswerHandshake
  <2> QED BY <1>9, <2>2, <2>3 DEF HandleUpdate
<1>10. CASE HandleNewDoc(r, p)
  <2>1. /\ UNCHANGED channel /\ channel[r][p] = "established" /\ m.type = "new-doc"
        /\ Handled(r, p, SendTo(p, <<SyncRequest(Version(r), TRUE)>>))
    BY <1>10 DEF HandleNewDoc, ReceivesEstablished, Receives, Message
  <2>2. <<SyncRequest(Version(r), TRUE)>> \in Seq(Messages(made))
    BY <1>2, RequestType
  <2> QED BY <1>1, <2>1, <2>2, AnswerHandshake
<1> QED BY <1>4, <1>5, <1>6, <1>7, <1>8, <1>9, <1>10 DEF Receive

LEMMA NextHandshake == HandshakeInv /\ [Next]_vars => Handshake'
<1> SUFFICES ASSUME HandshakeInv, [Next]_vars PROVE Handshake'
  OBVIOUS
<1>1. CASE UNCHANGED vars
  BY <1>1 DEF HandshakeInv, Handshake, HandshakeOf, Link, vars, repoVars, linkVars
<1> QED BY <1>1, ConnectHandshake, LossHandshake, OvertakeHandshake, ReceiveHandshake,
           SendersHandshake DEF Next

LEMMA HandshakeHolds == Spec => []HandshakeInv
<1>1. Init => Handshake
  BY DEF Init, Handshake, HandshakeOf
<1>2. Typed /\ Handshake => HandshakeInv
  BY DEF HandshakeInv
<1>3. HandshakeInv /\ [Next]_vars => Handshake'
  BY NextHandshake
<1> QED BY <1>1, <1>2, <1>3, AlwaysTyped, InitTyped, PTL DEF Spec

(* Nothing is sent to oneself.                                             *)
NothingToSelf == \A r \in Repos : net[r][r] = <<>>

LEMMA NextToSelf == Typed /\ NothingToSelf /\ [Next]_vars => NothingToSelf'
<1> SUFFICES ASSUME Typed, NothingToSelf, [Next]_vars, NEW x \in Repos
             PROVE  net'[x][x] = <<>>
  BY DEF NothingToSelf
<1> USE DEF Typed, NetType
<1>1. net[x][x] = <<>>
  BY DEF NothingToSelf
<1>2. Link(x, x) \notin up
  BY LinkAssumption DEF Link, TypeOK
<1>3. ASSUME NEW r \in Repos, NEW out
      PROVE  Sent(r, out)[x][x] = <<>>
  BY <1>1, <1>2 DEF Sent
<1>4. ASSUME NEW r \in Repos, NEW p \in Repos \ {r},
             Connect(r, p) \/ Break(r, p) \/ ChannelRemoved(r, p) \/ Overtake(r, p)
      PROVE  net'[x][x] = <<>>
  <2>1. ASSUME NEW m1, NEW m2, net' = [net EXCEPT ![r][p] = m1, ![p][r] = m2]
        PROVE  net'[x][x] = <<>>
    BY <1>1, <2>1
  <2>2. ASSUME NEW m1, net' = [net EXCEPT ![p][r] = m1]
        PROVE  net'[x][x] = <<>>
    BY <1>1, <2>2
  <2> QED BY <1>1, <1>4, <2>1, <2>2 DEF Connect, Break, ChannelRemoved, Overtake, linkVars
<1>5. ASSUME NEW r \in Repos, NEW p \in Repos \ {r}, Receive(r, p)
      PROVE  net'[x][x] = <<>>
  <2>1. PICK out : Handled(r, p, out)
    BY <1>5 DEF Receive, HandleEstablishRequest, HandleEstablishResponse, HandleSyncRequest,
       HandleSyncResponse, HandleReply, HandleUpdate, HandleNewDoc, Import
  <2>2. net' = [Sent(r, out) EXCEPT ![p][r] = Tail(@)]
    BY <2>1 DEF Handled
  <2>3. net'[x][x] = Sent(r, out)[x][x]
    BY <2>2 DEF Sent
  <2> QED BY <1>3, <2>3
<1>6. ASSUME NEW r \in Repos, DocEnsure(r) \/ \E o \in Ops : LocalDocChange(r, o)
      PROVE  net'[x][x] = <<>>
  BY <1>3, <1>6 DEF DocEnsure, LocalDocChange
<1>7. ASSUME NEW r \in Repos, Restart(r)
      PROVE  net'[x][x] = <<>>
  BY <1>1, <1>7 DEF Restart
<1>8. CASE UNCHANGED vars
  BY <1>1, <1>8 DEF vars, linkVars
<1> QED BY <1>4, <1>5, <1>6, <1>7, <1>8 DEF Next

(* No message is ever rejected by channelDispatcher on a link that works,  *)
(* whichever end initiates, breaks, restarts or overtakes.                 *)
THEOREM NothingRejected == Spec => []NoneRejected
<1>1. HandshakeInv /\ NothingToSelf => NoneRejected
  <2> SUFFICES ASSUME HandshakeInv, NothingToSelf, NEW r \in Repos, NEW p \in Repos, net[p][r] # <<>>
               PROVE  \/ Message(r, p).type \in {"establish-request", "establish-response"}
                      \/ channel[r][p] = "established"
    BY DEF NoneRejected
  <2>1. CASE p # r
    BY <2>1 DEF HandshakeInv, Handshake, HandshakeOf, Message, Handshakes
  <2>2. CASE p = r
    BY <2>2 DEF NothingToSelf
  <2> QED BY <2>1, <2>2
<1>2. Init => NothingToSelf
  BY DEF Init, NothingToSelf
<1> QED BY <1>1, <1>2, NextToSelf, AlwaysTyped, HandshakeHolds, PTL DEF Spec

-----------------------------------------------------------------------------
(* Repos are causally consistent replicas.  What an operation depends on   *)
(* is complete: it contains what each of its members depends on.           *)
DepsClosed == \A o \in made : \A q \in deps[o] : deps[q] \subseteq deps[o]

CausalInv == Typed /\ DepsClosed

(* What is applied needs nothing but what is applied.                      *)
LEMMA AppliedClosed ==
  ASSUME CausalInv, NEW S \in SUBSET made, NEW o \in Applied(S)
  PROVE  deps[o] \subseteq Applied(S)
BY DEF CausalInv, DepsClosed, Applied

(* The operation o that r makes is applied by r, and by nobody else.       *)
LEMMA OwnIsApplied ==
  ASSUME CausalInv, NEW r \in Repos, NEW o \in Ops, LocalDocChange(r, o),
         NEW x \in Repos
  PROVE  Version(x)' = IF x = r THEN Version(r) \cup {o} ELSE Version(x)
<1> USE DEF CausalInv, Typed, TypeOK
<1>1. /\ o \notin made
      /\ deps' = [deps EXCEPT ![o] = Version(r)]
      /\ oplog' = [oplog EXCEPT ![r] = oplog[r] \cup {o}]
  BY DEF LocalDocChange
<1>2. \A q \in made : deps'[q] = deps[q] /\ o \notin deps[q]
  BY <1>1
<1>3. deps'[o] = Version(r) /\ Version(r) \subseteq oplog[r]
  BY <1>1 DEF Version, Applied
<1>4. oplog[x] \subseteq made
  OBVIOUS
<1>5. CASE x = r
  <2>1. oplog'[x] = oplog[r] \cup {o}
    BY <1>1, <1>5
  <2>2. Version(x)' = {q \in oplog[r] \cup {o} : deps'[q] \subseteq oplog[r] \cup {o}}
    BY <2>1 DEF Version, Applied
  <2>3. \A q \in oplog[r] : deps'[q] \subseteq oplog[r] \cup {o} <=> deps[q] \subseteq oplog[r]
    BY <1>2, <1>4, <1>5
  <2>4. deps'[o] \subseteq oplog[r] \cup {o}
    BY <1>3
  <2> QED BY <1>5, <2>2, <2>3, <2>4 DEF Version, Applied
<1>6. CASE x # r
  <2>1. oplog'[x] = oplog[x]
    BY <1>1, <1>6
  <2> QED BY <1>2, <1>4, <1>6, <2>1 DEF Version, Applied
<1> QED BY <1>5, <1>6

LEMMA NextClosed == CausalInv /\ [Next]_vars => DepsClosed'
<1> SUFFICES ASSUME CausalInv, [Next]_vars PROVE DepsClosed'
  OBVIOUS
<1>1. ASSUME NEW r \in Repos, NEW o \in Ops, LocalDocChange(r, o)
      PROVE  DepsClosed'
  <2>1. /\ o \notin made /\ made' = made \cup {o}
        /\ deps' = [deps EXCEPT ![o] = Version(r)]
    BY <1>1 DEF LocalDocChange
  <2>2. \A q \in Version(r) : deps[q] \subseteq Version(r)
    BY AppliedClosed DEF CausalInv, Typed, TypeOK, Version
  <2>3. Version(r) \subseteq made
    BY VersionType DEF CausalInv, Typed
  <2>4. \A q \in made : deps'[q] = deps[q] /\ deps[q] \subseteq made
    BY <2>1 DEF CausalInv, Typed, TypeOK
  <2>5. deps'[o] = Version(r)
    BY <2>1 DEF CausalInv, Typed, TypeOK
  <2> SUFFICES ASSUME NEW x \in made', NEW q \in deps'[x]
               PROVE  deps'[q] \subseteq deps'[x]
    BY DEF DepsClosed
  <2>6. CASE x = o
    BY <2>2, <2>3, <2>4, <2>5, <2>6
  <2>7. CASE x \in made
    <3>1. deps'[x] = deps[x] /\ q \in made
      BY <2>4, <2>7
    <3> QED BY <2>4, <2>7, <3>1 DEF CausalInv, DepsClosed
  <2> QED BY <2>1, <2>6, <2>7
<1>2. CASE UNCHANGED <<made, deps>>
  BY <1>2 DEF CausalInv, DepsClosed
<1>3. ASSUME NEW r \in Repos, NEW p \in Repos, Receive(r, p)
      PROVE  UNCHANGED <<made, deps>>
  BY <1>3 DEF Receive, HandleEstablishRequest, HandleEstablishResponse, HandleSyncRequest,
       HandleSyncResponse, HandleReply, HandleUpdate, HandleNewDoc, ReceivesEstablished,
       Receives, opVars
<1>4. ASSUME NEW r \in Repos, NEW p \in Repos,
             Connect(r, p) \/ Break(r, p) \/ ChannelRemoved(r, p) \/ Overtake(r, p)
      PROVE  UNCHANGED <<made, deps>>
  BY <1>4 DEF Connect, Break, ChannelRemoved, Overtake, opVars
<1>5. ASSUME NEW r \in Repos, DocEnsure(r) \/ Restart(r)
      PROVE  UNCHANGED <<made, deps>>
  BY <1>5 DEF DocEnsure, Restart, opVars
<1>6. UNCHANGED vars => UNCHANGED <<made, deps>>
  BY DEF vars, opVars
<1> QED BY <1>1, <1>2, <1>3, <1>4, <1>5, <1>6 DEF Next

LEMMA CausalInvHolds == Spec => []CausalInv
<1>1. Init => DepsClosed
  BY DEF Init, DepsClosed
<1>2. Typed /\ DepsClosed <=> CausalInv
  BY DEF CausalInv
<1> QED BY <1>1, <1>2, NextClosed, AlwaysTyped, PTL DEF Spec

(* Steps that change no log are not seen.                                  *)
LEMMA LogsUnchanged ==
  ASSUME UNCHANGED <<oplog, made, deps>>
  PROVE  UNCHANGED Replicas!replicaVars
BY DEF Replicas!replicaVars, Version, Applied

(* What r imports is merged, as far as it can be applied.                  *)
LEMMA ImportMerges ==
  ASSUME CausalInv, NEW r \in Repos, NEW S \in SUBSET made,
         oplog' = [oplog EXCEPT ![r] = oplog[r] \cup S], UNCHANGED <<made, deps>>
  PROVE  Replicas!Merge(r, Applied(oplog[r] \cup S))
<1> DEFINE log    == oplog[r] \cup S
           merged == Version(r) \cup Applied(log)
<1>1. log \in SUBSET made /\ Applied(log) \subseteq made
  BY DEF CausalInv, Typed, TypeOK, Applied
<1>2. merged = Applied(log)
  BY DEF Version, Applied
<1>3. \A o \in merged : deps[o] \subseteq merged
  BY <1>1, <1>2, AppliedClosed
<1>4. \A x \in Repos : Version(x)' = IF x = r THEN Applied(log) ELSE Version(x)
  BY DEF CausalInv, Typed, TypeOK, Version, Applied
<1>5. [x \in Repos |-> Version(x)]' = [[x \in Repos |-> Version(x)] EXCEPT ![r] = merged]
  BY <1>2, <1>4
<1>6. [x \in Repos |-> Version(x)][r] = Version(r)
  OBVIOUS
<1> HIDE DEF merged
<1> QED BY <1>1, <1>3, <1>5, <1>6 DEF Replicas!Merge, merged

LEMMA ReceiveRefines ==
  ASSUME CausalInv, NEW r \in Repos, NEW p \in Repos, Receive(r, p)
  PROVE  [Replicas!Next]_Replicas!replicaVars
<1> DEFINE m == Message(r, p)
<1>1. net[p][r] # <<>> /\ UNCHANGED <<made, deps>>
  BY DEF Receive, HandleEstablishRequest, HandleEstablishResponse, HandleSyncRequest,
         HandleSyncResponse, HandleReply, HandleUpdate, HandleNewDoc,
         ReceivesEstablished, Receives, opVars
<1>2. ASSUME NEW S \in SUBSET made, NEW toSource, Import(r, p, S, toSource)
      PROVE  Replicas!Next
  <2>1. oplog' = [oplog EXCEPT ![r] = oplog[r] \cup S]
    BY <1>2 DEF Import
  <2>2. Replicas!Merge(r, Applied(oplog[r] \cup S))
    BY <1>1, <2>1, ImportMerges
  <2>3. Applied(oplog[r] \cup S) \in SUBSET Ops
    BY DEF CausalInv, Typed, TypeOK, Applied
  <2> QED BY <2>2, <2>3 DEF Replicas!Next
<1>3. CASE UNCHANGED oplog
  BY <1>1, <1>3, LogsUnchanged
<1>4. ASSUME HandleSyncResponse(r, p) \/ HandleReply(r, p) \/ HandleUpdate(r, p)
      PROVE  [Replicas!Next]_Replicas!replicaVars
  <2>1. /\ m.type \in {"sync-response", "reply"} => m.offer.data \in SUBSET made
        /\ m.type = "update" => m.data \in SUBSET made
    BY <1>1, OfferedType DEF CausalInv
  <2>2. CASE HandleSyncResponse(r, p)
    <3>1. m.type = "sync-response"
      BY <2>2 DEF HandleSyncResponse, ReceivesEstablished, Receives, Message
    <3> QED BY <1>2, <1>3, <2>1, <2>2, <3>1 DEF HandleSyncResponse
  <2>3. CASE HandleReply(r, p)
    <3>1. m.type = "reply"
      BY <2>3 DEF HandleReply, ReceivesEstablished, Receives, Message
    <3> QED BY <1>2, <1>3, <2>1, <2>3, <3>1 DEF HandleReply
  <2>4. CASE HandleUpdate(r, p)
    <3>1. m.type = "update"
      BY <2>4 DEF HandleUpdate, ReceivesEstablished, Receives, Message
    <3> QED BY <1>2, <1>3, <2>1, <2>4, <3>1 DEF HandleUpdate
  <2> QED BY <1>4, <2>2, <2>3, <2>4
<1> QED BY <1>3, <1>4 DEF Receive, HandleEstablishRequest, HandleEstablishResponse,
       HandleSyncRequest, HandleNewDoc

LEMMA LocalRefines ==
  ASSUME CausalInv, NEW r \in Repos, NEW o \in Ops, LocalDocChange(r, o)
  PROVE  Replicas!Next
<1>1. \A x \in Repos : Version(x)' = IF x = r THEN Version(r) \cup {o} ELSE Version(x)
  BY OwnIsApplied
<1>2. [x \in Repos |-> Version(x)]' = [[x \in Repos |-> Version(x)] EXCEPT ![r] = @ \cup {o}]
  BY <1>1
<1>3. [x \in Repos |-> Version(x)][r] = Version(r)
  OBVIOUS
<1>4. Replicas!Write(r, o)
  BY <1>2, <1>3 DEF LocalDocChange, Replicas!Write
<1> QED BY <1>4 DEF Replicas!Next

LEMMA RestartRefines ==
  ASSUME CausalInv, NEW r \in Repos, Restart(r)
  PROVE  Replicas!Next
<1>1. /\ r \in Restartable /\ restarts < MaxRestarts
      /\ oplog' = [oplog EXCEPT ![r] = {}]
      /\ UNCHANGED <<made, deps>>
  BY DEF Restart, opVars
<1>2. MaxRestarts > 0
  BY <1>1, RepoAssumption DEF CausalInv, Typed, TypeOK
<1>3. \A x \in Repos : Version(x)' = IF x = r THEN {} ELSE Version(x)
  BY <1>1 DEF CausalInv, Typed, TypeOK, Version, Applied
<1>4. [x \in Repos |-> Version(x)]' = [[x \in Repos |-> Version(x)] EXCEPT ![r] = {}]
  BY <1>3
<1>5. Replicas!Forget(r)
  BY <1>1, <1>2, <1>4 DEF Replicas!Forget
<1> QED BY <1>5 DEF Replicas!Next

LEMMA NextRefines == CausalInv /\ [Next]_vars => [Replicas!Next]_Replicas!replicaVars
<1> SUFFICES ASSUME CausalInv, [Next]_vars PROVE [Replicas!Next]_Replicas!replicaVars
  OBVIOUS
<1>1. CASE UNCHANGED <<oplog, made, deps>>
  BY <1>1, LogsUnchanged
<1>2. ASSUME NEW r \in Repos, NEW p \in Repos \ {r},
             Connect(r, p) \/ Break(r, p) \/ ChannelRemoved(r, p) \/ Overtake(r, p)
      PROVE  UNCHANGED <<oplog, made, deps>>
  BY <1>2 DEF Connect, Break, ChannelRemoved, Overtake, repoVars, opVars
<1>3. ASSUME NEW r \in Repos, DocEnsure(r)
      PROVE  UNCHANGED <<oplog, made, deps>>
  BY <1>3 DEF DocEnsure, opVars
<1>4. CASE UNCHANGED vars
  BY <1>1, <1>4 DEF vars, repoVars, opVars
<1>5. CASE Next
  BY <1>1, <1>2, <1>3, <1>5, ReceiveRefines, LocalRefines, RestartRefines DEF Next
<1> QED BY <1>4, <1>5

(* Whatever links lose, delay or let overtake, and whoever restarts: a     *)
(* Repo applies an operation only after everything its author had applied, *)
(* makes none up and forgets none unless it restarts.                      *)
THEOREM Refinement == Spec => ImplementsReplicas
<1>1. Init => Replicas!Init
  BY DEF Init, Replicas!Init, Version, Applied
<1>2. CausalInv /\ [Next]_vars => [Replicas!Next]_Replicas!replicaVars
  BY NextRefines
<1> QED BY <1>1, <1>2, CausalInvHolds, PTL DEF Spec, ImplementsReplicas, Replicas!Spec

-----------------------------------------------------------------------------
(* Beliefs.  As long as no link broke, no Repo restarted and no message    *)
(* overtook another, what is in flight from p to r can be told apart by    *)
(* what p knows and r lacks.                                               *)

(* The operations a queue of messages carries.                             *)
CarriedUpTo(s, n) == UNION {DataOf(s[i]) : i \in 1 .. n}
Carried(s) == CarriedUpTo(s, Len(s))

(* A queue that introduces its sender: with a reply, which subscribes it.  *)
Introduces(s) == \E i \in 1 .. Len(s) : s[i].type = "reply"

(* Data of p, which may not be among the subscribed peers yet, come after   *)
(* its reply.                                                              *)
Introduced(s, p, peers) ==
  \A i \in 1 .. Len(s) : s[i].type \in {"update", "sync-response"} =>
    p \in peers \/ \E j \in 1 .. i - 1 : s[j].type = "reply"

(* Read in order on top of base, every operation finds those it needs.     *)
Causal(s, base, D) ==
  \A i \in 1 .. Len(s) : \A o \in DataOf(s[i]) :
    D[o] \subseteq base \cup CarriedUpTo(s, i)

(* Queues, by their positions.                                             *)
LEMMA TailAt ==
  ASSUME NEW M, NEW s \in Seq(M), s # <<>>
  PROVE  /\ Tail(s) \in Seq(M) /\ Head(s) = s[1] /\ Len(s) \in Nat /\ Len(s) >= 1
         /\ Len(Tail(s)) = Len(s) - 1
         /\ \A i \in 1 .. Len(s) - 1 : Tail(s)[i] = s[i + 1]
BY HeadTailProperties, EmptySeq

LEMMA ConcatAt ==
  ASSUME NEW M, NEW s \in Seq(M), NEW t \in Seq(M)
  PROVE  /\ s \o t \in Seq(M) /\ Len(s) \in Nat /\ Len(t) \in Nat
         /\ Len(s \o t) = Len(s) + Len(t)
         /\ \A i \in 1 .. Len(s) : (s \o t)[i] = s[i]
         /\ \A i \in 1 .. Len(t) : (s \o t)[Len(s) + i] = t[i]
<1>1. /\ s \o t \in Seq(M) /\ Len(s \o t) = Len(s) + Len(t)
      /\ \A i \in 1 .. Len(s) + Len(t) :
           (s \o t)[i] = IF i <= Len(s) THEN s[i] ELSE t[i - Len(s)]
  BY ConcatProperties
<1>2. Len(s) \in Nat /\ Len(t) \in Nat
  BY LenProperties
<1> DEFINE k == Len(s)
           n == Len(t)
<1> HIDE DEF k, n
<1>3. \A i \in 1 .. k : i \in 1 .. k + n /\ i <= k
  BY <1>2 DEF k, n
<1>4. \A i \in 1 .. n : k + i \in 1 .. k + n /\ ~ (k + i <= k) /\ (k + i) - k = i
  BY <1>2 DEF k, n
<1> QED BY <1>1, <1>2, <1>3, <1>4 DEF k, n

(* What is carried by what is left of a queue, and by a longer one.        *)
LEMMA CarriedByTail ==
  ASSUME NEW M, NEW s \in Seq(M), s # <<>>
  PROVE  /\ \A n \in 1 .. Len(s) :
              CarriedUpTo(s, n) = DataOf(Head(s)) \cup CarriedUpTo(Tail(s), n - 1)
         /\ Carried(s) = DataOf(Head(s)) \cup Carried(Tail(s))
<1> DEFINE k == Len(s)
           u == Tail(s)
<1>1. Head(s) = s[1] /\ k \in Nat /\ k >= 1 /\ Len(u) = k - 1
      /\ \A i \in 1 .. k - 1 : u[i] = s[i + 1]
  BY TailAt
<1> HIDE DEF k, u
<1>2. ASSUME NEW n \in 1 .. k
      PROVE  CarriedUpTo(s, n) = DataOf(s[1]) \cup CarriedUpTo(u, n - 1)
  <2>1. ASSUME NEW i \in 1 .. n, i # 1
        PROVE  i - 1 \in 1 .. n - 1 /\ s[i] = u[i - 1]
    BY <1>1, <2>1
  <2>2. ASSUME NEW i \in 1 .. n - 1
        PROVE  i + 1 \in 1 .. n /\ u[i] = s[i + 1]
    BY <1>1, <2>2
  <2>3. 1 \in 1 .. n
    BY <1>1
  <2>4. ASSUME NEW o \in CarriedUpTo(s, n)
        PROVE  o \in DataOf(s[1]) \cup CarriedUpTo(u, n - 1)
    BY <2>1, <2>4 DEF CarriedUpTo
  <2>5. ASSUME NEW o \in CarriedUpTo(u, n - 1)
        PROVE  o \in CarriedUpTo(s, n)
    BY <2>2, <2>5 DEF CarriedUpTo
  <2>6. DataOf(s[1]) \subseteq CarriedUpTo(s, n)
    BY <2>3 DEF CarriedUpTo
  <2> QED BY <2>4, <2>5, <2>6
<1>3. k \in 1 .. k
  BY <1>1
<1> QED BY <1>1, <1>2, <1>3 DEF Carried, k, u

LEMMA CarriedByConcat ==
  ASSUME NEW M, NEW s \in Seq(M), NEW t \in Seq(M)
  PROVE  /\ \A n \in 1 .. Len(s) : CarriedUpTo(s \o t, n) = CarriedUpTo(s, n)
         /\ \A n \in 1 .. Len(t) :
              CarriedUpTo(s \o t, Len(s) + n) = Carried(s) \cup CarriedUpTo(t, n)
         /\ Carried(s \o t) = Carried(s) \cup Carried(t)
<1> DEFINE k == Len(s)
           l == Len(t)
           u == s \o t
<1>1. /\ k \in Nat /\ l \in Nat /\ Len(u) = k + l
      /\ \A i \in 1 .. k : u[i] = s[i]
      /\ \A i \in 1 .. l : u[k + i] = t[i]
  BY ConcatAt
<1> HIDE DEF k, l, u
<1>2. ASSUME NEW n \in 1 .. k
      PROVE  CarriedUpTo(u, n) = CarriedUpTo(s, n)
  <2>1. \A i \in 1 .. n : u[i] = s[i]
    BY <1>1
  <2> QED BY <2>1 DEF CarriedUpTo
<1>3. ASSUME NEW n \in 0 .. l
      PROVE  CarriedUpTo(u, k + n) = CarriedUpTo(s, k) \cup CarriedUpTo(t, n)
  <2>1. ASSUME NEW i \in 1 .. k + n, ~ (i \in 1 .. k)
        PROVE  i - k \in 1 .. n /\ u[i] = t[i - k]
    <3>1. i - k \in 1 .. n /\ i - k \in 1 .. l /\ k + (i - k) = i
      BY <1>1, <2>1
    <3> QED BY <1>1, <3>1
  <2>2. ASSUME NEW i \in 1 .. n
        PROVE  k + i \in 1 .. k + n /\ u[k + i] = t[i]
    <3>1. i \in 1 .. l /\ k + i \in 1 .. k + n
      BY <1>1, <2>2
    <3> QED BY <1>1, <3>1
  <2>3. ASSUME NEW i \in 1 .. k
        PROVE  i \in 1 .. k + n /\ u[i] = s[i]
    BY <1>1, <2>3
  <2>4. ASSUME NEW o \in CarriedUpTo(u, k + n)
        PROVE  o \in CarriedUpTo(s, k) \cup CarriedUpTo(t, n)
    <3>1. PICK i \in 1 .. k + n : o \in DataOf(u[i])
      BY <2>4 DEF CarriedUpTo
    <3>2. CASE i \in 1 .. k
      BY <2>3, <3>1, <3>2 DEF CarriedUpTo
    <3>3. CASE ~ (i \in 1 .. k)
      BY <2>1, <3>1, <3>3 DEF CarriedUpTo
    <3> QED BY <3>2, <3>3
  <2>5. ASSUME NEW o \in CarriedUpTo(s, k)
        PROVE  o \in CarriedUpTo(u, k + n)
    BY <2>3, <2>5 DEF CarriedUpTo
  <2>6. ASSUME NEW o \in CarriedUpTo(t, n)
        PROVE  o \in CarriedUpTo(u, k + n)
    BY <2>2, <2>6 DEF CarriedUpTo
  <2> QED BY <2>4, <2>5, <2>6
<1>4. \A n \in 1 .. l : n \in 0 .. l
  OBVIOUS
<1>5. l \in 0 .. l
  BY <1>1
<1> QED BY <1>1, <1>2, <1>3, <1>4, <1>5 DEF Carried, k, l, u

(* What is causal, and introduced, stays so when its head is read ...      *)
LEMMA CausalTail ==
  ASSUME NEW M, NEW s \in Seq(M), s # <<>>, NEW base, NEW D, Causal(s, base, D)
  PROVE  /\ \A o \in DataOf(Head(s)) : D[o] \subseteq base \cup DataOf(Head(s))
         /\ Causal(Tail(s), base \cup DataOf(Head(s)), D)
<1> DEFINE k == Len(s)
           u == Tail(s)
           h == DataOf(Head(s))
<1>1. Head(s) = s[1] /\ k \in Nat /\ k >= 1 /\ Len(u) = k - 1
      /\ \A i \in 1 .. k - 1 : u[i] = s[i + 1]
  BY TailAt
<1>2. \A n \in 1 .. k : CarriedUpTo(s, n) = h \cup CarriedUpTo(u, n - 1)
  BY CarriedByTail
<1>3. \A i \in 1 .. k : \A o \in DataOf(s[i]) : D[o] \subseteq base \cup CarriedUpTo(s, i)
  BY DEF Causal
<1>4. CarriedUpTo(u, 0) = {}
  BY DEF CarriedUpTo
<1>5. h = DataOf(s[1])
  BY <1>1
<1> HIDE DEF k, u, h
<1>6. \A o \in h : D[o] \subseteq base \cup h
  <2>1. 1 \in 1 .. k /\ 1 - 1 = 0
    BY <1>1
  <2>2. CarriedUpTo(s, 1) = h
    BY <1>2, <1>4, <2>1
  <2> QED BY <1>3, <1>5, <2>1, <2>2
<1>7. ASSUME NEW i \in 1 .. k - 1, NEW o \in DataOf(u[i])
      PROVE  D[o] \subseteq (base \cup h) \cup CarriedUpTo(u, i)
  <2>1. i + 1 \in 1 .. k /\ (i + 1) - 1 = i
    BY <1>1
  <2>2. D[o] \subseteq base \cup CarriedUpTo(s, i + 1)
    BY <1>1, <1>3, <2>1
  <2>3. CarriedUpTo(s, i + 1) = h \cup CarriedUpTo(u, i)
    BY <1>2, <2>1
  <2> QED BY <2>2, <2>3
<1>8. Causal(u, base \cup h, D)
  BY <1>1, <1>7 DEF Causal
<1> QED BY <1>6, <1>8 DEF u, h

LEMMA IntroducedTail ==
  ASSUME NEW M, NEW s \in Seq(M), s # <<>>, NEW p, NEW peers, NEW now,
         Introduced(s, p, peers), peers \subseteq now, Head(s).type = "reply" => p \in now
  PROVE  /\ Head(s).type \in {"update", "sync-response"} => p \in peers
         /\ Introduced(Tail(s), p, now)
         /\ Introduces(s) => p \in now \/ Introduces(Tail(s))
<1> DEFINE k == Len(s)
           u == Tail(s)
<1>1. Head(s) = s[1] /\ k \in Nat /\ k >= 1 /\ Len(u) = k - 1
      /\ \A i \in 1 .. k - 1 : u[i] = s[i + 1]
  BY TailAt
<1>2. \A i \in 1 .. k : s[i].type \in {"update", "sync-response"} =>
         p \in peers \/ \E j \in 1 .. i - 1 : s[j].type = "reply"
  BY DEF Introduced
<1> HIDE DEF k, u
<1>3. s[1].type \in {"update", "sync-response"} => p \in peers
  <2>1. 1 \in 1 .. k /\ ~ \E j \in 1 .. 1 - 1 : s[j].type = "reply"
    BY <1>1
  <2> QED BY <1>2, <2>1
<1>4. ASSUME NEW i \in 1 .. k - 1, u[i].type \in {"update", "sync-response"}, p \notin now
      PROVE  \E j \in 1 .. i - 1 : u[j].type = "reply"
  <2>1. i + 1 \in 1 .. k /\ (i + 1) - 1 = i /\ u[i] = s[i + 1]
    BY <1>1
  <2>2. PICK j \in 1 .. i : s[j].type = "reply"
    BY <1>2, <1>4, <2>1
  <2>3. j # 1
    BY <1>1, <1>4, <2>2
  <2>4. j - 1 \in 1 .. i - 1 /\ j - 1 \in 1 .. k - 1 /\ (j - 1) + 1 = j
    BY <1>1, <2>3
  <2>5. u[j - 1] = s[j]
    BY <1>1, <2>4
  <2> QED BY <2>2, <2>4, <2>5
<1>5. ASSUME NEW j \in 1 .. k, s[j].type = "reply", p \notin now
      PROVE  \E i \in 1 .. k - 1 : u[i].type = "reply"
  <2>1. j # 1
    BY <1>1, <1>5
  <2>2. j - 1 \in 1 .. k - 1 /\ (j - 1) + 1 = j
    BY <1>1, <2>1
  <2>3. u[j - 1] = s[j]
    BY <1>1, <2>2
  <2> QED BY <1>5, <2>2, <2>3
<1>6. Introduced(u, p, now)
  BY <1>1, <1>4 DEF Introduced
<1>7. Introduces(s) => p \in now \/ Introduces(u)
  BY <1>1, <1>5 DEF Introduces, k
<1> QED BY <1>1, <1>3, <1>6, <1>7 DEF u

(* ... and when more is sent.                                              *)
LEMMA CausalConcat ==
  ASSUME NEW M, NEW s \in Seq(M), NEW t \in Seq(M), NEW base, NEW D,
         Causal(s, base, D), Causal(t, base \cup Carried(s), D)
  PROVE  Causal(s \o t, base, D)
<1> DEFINE k == Len(s)
           l == Len(t)
           u == s \o t
           c == Carried(s)
<1>1. /\ k \in Nat /\ l \in Nat /\ Len(u) = k + l
      /\ \A i \in 1 .. k : u[i] = s[i]
      /\ \A i \in 1 .. l : u[k + i] = t[i]
  BY ConcatAt
<1>2. /\ \A n \in 1 .. k : CarriedUpTo(u, n) = CarriedUpTo(s, n)
      /\ \A n \in 1 .. l : CarriedUpTo(u, k + n) = c \cup CarriedUpTo(t, n)
  BY CarriedByConcat
<1>3. /\ \A i \in 1 .. k : \A o \in DataOf(s[i]) : D[o] \subseteq base \cup CarriedUpTo(s, i)
      /\ \A i \in 1 .. l : \A o \in DataOf(t[i]) :
            D[o] \subseteq (base \cup c) \cup CarriedUpTo(t, i)
  BY DEF Causal
<1> HIDE DEF k, l, u, c
<1>4. ASSUME NEW i \in 1 .. k, NEW o \in DataOf(u[i])
      PROVE  D[o] \subseteq base \cup CarriedUpTo(u, i)
  BY <1>1, <1>2, <1>3
<1>5. ASSUME NEW i \in 1 .. l, NEW o \in DataOf(u[k + i])
      PROVE  D[o] \subseteq base \cup CarriedUpTo(u, k + i)
  <2>1. D[o] \subseteq (base \cup c) \cup CarriedUpTo(t, i)
    BY <1>1, <1>3
  <2>2. CarriedUpTo(u, k + i) = c \cup CarriedUpTo(t, i)
    BY <1>2
  <2> QED BY <2>1, <2>2
<1>6. ASSUME NEW i \in 1 .. k + l, NEW o \in DataOf(u[i])
      PROVE  D[o] \subseteq base \cup CarriedUpTo(u, i)
  <2>1. CASE i \in 1 .. k
    BY <1>4, <1>6, <2>1
  <2>2. CASE ~ (i \in 1 .. k)
    <3>1. i - k \in 1 .. l /\ k + (i - k) = i
      BY <1>1, <2>2
    <3> QED BY <1>5, <1>6, <3>1
  <2> QED BY <2>1, <2>2
<1> QED BY <1>1, <1>6 DEF Causal, u

LEMMA IntroducedConcat ==
  ASSUME NEW M, NEW s \in Seq(M), NEW t \in Seq(M), NEW p, NEW peers,
         Introduced(s, p, peers),
         \A i \in 1 .. Len(t) : t[i].type \in {"update", "sync-response"} =>
           p \in peers \/ Introduces(s)
  PROVE  /\ Introduced(s \o t, p, peers)
         /\ Introduces(s) \/ Introduces(t) => Introduces(s \o t)
<1> DEFINE k == Len(s)
           l == Len(t)
           u == s \o t
<1>1. /\ k \in Nat /\ l \in Nat /\ Len(u) = k + l
      /\ \A i \in 1 .. k : u[i] = s[i]
      /\ \A i \in 1 .. l : u[k + i] = t[i]
  BY ConcatAt
<1>2. \A i \in 1 .. k : s[i].type \in {"update", "sync-response"} =>
         p \in peers \/ \E j \in 1 .. i - 1 : s[j].type = "reply"
  BY DEF Introduced
<1>3. \A i \in 1 .. l : t[i].type \in {"update", "sync-response"} =>
         p \in peers \/ \E j \in 1 .. k : s[j].type = "reply"
  BY DEF Introduces
<1>4. /\ Introduces(s) => \E j \in 1 .. k : s[j].type = "reply"
      /\ Introduces(t) => \E j \in 1 .. l : t[j].type = "reply"
  BY DEF Introduces
<1> HIDE DEF k, l, u
<1>5. ASSUME NEW i \in 1 .. k + l, u[i].type \in {"update", "sync-response"}, p \notin peers
      PROVE  \E j \in 1 .. i - 1 : u[j].type = "reply"
  <2>1. CASE i \in 1 .. k
    <3>1. PICK j \in 1 .. i - 1 : s[j].type = "reply"
      BY <1>1, <1>2, <1>5, <2>1
    <3>2. j \in 1 .. k
      BY <1>1, <2>1
    <3> QED BY <1>1, <3>1, <3>2
  <2>2. CASE ~ (i \in 1 .. k)
    <3>1. i - k \in 1 .. l /\ k + (i - k) = i
      BY <1>1, <2>2
    <3>2. u[i] = t[i - k]
      BY <1>1, <3>1
    <3>3. PICK j \in 1 .. k : s[j].type = "reply"
      BY <1>3, <1>5, <3>1, <3>2
    <3>4. j \in 1 .. i - 1
      BY <1>1, <2>2
    <3> QED BY <1>1, <3>3, <3>4
  <2> QED BY <2>1, <2>2
<1>6. ASSUME NEW j \in 1 .. k, s[j].type = "reply"
      PROVE  \E i \in 1 .. k + l : u[i].type = "reply"
  <2>1. j \in 1 .. k + l
    BY <1>1
  <2> QED BY <1>1, <1>6, <2>1
<1>7. ASSUME NEW j \in 1 .. l, t[j].type = "reply"
      PROVE  \E i \in 1 .. k + l : u[i].type = "reply"
  <2>1. k + j \in 1 .. k + l
    BY <1>1
  <2> QED BY <1>1, <1>7, <2>1
<1>8. Introduced(u, p, peers)
  BY <1>1, <1>5 DEF Introduced
<1>9. Introduces(s) \/ Introduces(t) => Introduces(u)
  BY <1>1, <1>4, <1>6, <1>7 DEF Introduces
<1> QED BY <1>8, <1>9 DEF u

Undisturbed == breaks = 0 /\ restarts = 0 /\ overtakes = 0

(* The messages p may have sent r: their data and versions are p's, what   *)
(* is up to date r has, requests come from who has the document and want   *)
(* no more than that, updates and replies go to a subscriber.              *)
Fine(p, r) ==
  {m \in Messages(made) :
     /\ DataOf(m) \subseteq oplog[p]
     /\ m.type \in {"sync-response", "reply"} =>
          /\ m.offer.version \subseteq oplog[p]
          /\ m.offer.status = "up-to-date" =>
               m.offer.data = {} /\ m.offer.version \subseteq oplog[r]
     /\ m.type \in {"sync-request", "reply"} => m.wants \subseteq oplog[p] /\ p \in docs
     /\ m.type = "sync-request" => m.bidirectional
     /\ m.type \in {"update", "reply"} => r \in subs[p]}

(* What holds between p and what r has or will read of p.                  *)
Connected(p, r) ==
  /\ channel[p][r] # "none" => Link(p, r) \in up
  /\ r \in subs[p] => channel[p][r] = "established" /\ r \in docs

Subscribed(p, r) ==
  r \in subs[p] =>
    /\ p \in subs[r] \/ Introduces(net[p][r])
    /\ oplog[p] \subseteq oplog[r] \cup Carried(net[p][r])

Believed(p, r) ==
  awareness[p][r].status = "synced" =>
    /\ awareness[p][r].version \subseteq oplog[p]
    /\ awareness[p][r].version \subseteq oplog[r] \cup Carried(net[p][r])

Queued(p, r) ==
  /\ net[p][r] \in Seq(Fine(p, r))
  /\ Introduced(net[p][r], p, subs[r])
  /\ Causal(net[p][r], oplog[r], deps)

Pair(p, r) == Connected(p, r) /\ Subscribed(p, r) /\ Believed(p, r) /\ Queued(p, r)

Whole(r) == \A o \in oplog[r] : deps[o] \subseteq oplog[r]

Synchronous == \A p \in Repos : Whole(p) /\ \A r \in Repos \ {p} : Pair(p, r)

(* Nothing is forgotten while nothing is disturbed.                        *)
Grows ==
  /\ made \subseteq made' /\ docs \subseteq docs' /\ up \subseteq up'
  /\ \A o \in made : deps'[o] = deps[o]
  /\ \A x \in Repos : oplog[x] \subseteq oplog'[x] /\ subs[x] \subseteq subs'[x]

LEMMA FineGrows ==
  ASSUME Grows, NEW p \in Repos, NEW r \in Repos
  PROVE  Fine(p, r) \subseteq Fine(p, r)'
<1>1. Messages(made) \subseteq Messages(made')
  BY MessagesGrow DEF Grows
<1> SUFFICES ASSUME NEW m \in Fine(p, r) PROVE m \in Fine(p, r)'
  OBVIOUS
<1>2. m \in Messages(made')
  BY <1>1 DEF Fine
<1>3. /\ oplog[p] \subseteq oplog'[p] /\ oplog[r] \subseteq oplog'[r]
      /\ docs \subseteq docs' /\ subs[p] \subseteq subs'[p]
  BY DEF Grows
<1> QED BY <1>2, <1>3 DEF Fine

(* The data of fine messages were made.                                    *)
LEMMA FineData ==
  ASSUME NEW p \in Repos, NEW r \in Repos, NEW s \in Seq(Fine(p, r))
  PROVE  \A i \in 1 .. Len(s) : DataOf(s[i]) \subseteq made
<1>1. \A m \in Fine(p, r) : DataOf(m) \subseteq made
  BY DEF Fine, DataOf, Messages, Offers, Handshakes
<1> SUFFICES ASSUME NEW i \in 1 .. Len(s) PROVE DataOf(s[i]) \subseteq made
  OBVIOUS
<1>2. s[i] \in Fine(p, r)
  BY ElementOfSeq
<1> QED BY <1>1, <1>2

LEMMA CausalGrows ==
  ASSUME Grows, NEW p \in Repos, NEW r \in Repos, NEW s \in Seq(Fine(p, r)),
         NEW base, NEW more, base \subseteq more, Causal(s, base, deps)
  PROVE  Causal(s, more, deps')
<1>1. \A i \in 1 .. Len(s) : \A o \in DataOf(s[i]) : deps'[o] = deps[o]
  BY FineData DEF Grows
<1> QED BY <1>1 DEF Causal

LEMMA IntroducedGrows ==
  ASSUME NEW s, NEW p, NEW peers, NEW now, peers \subseteq now,
         Introduced(s, p, peers)
  PROVE  Introduced(s, p, now)
BY DEF Introduced

(* A pair that a step leaves alone, up to what grows.                      *)
LEMMA PairKept ==
  ASSUME Grows, NEW x \in Repos, NEW y \in Repos, Pair(x, y),
         net'[x][y] = net[x][y], channel'[x][y] = channel[x][y],
         awareness'[x][y] = awareness[x][y], oplog'[x] = oplog[x],
         y \in subs'[x] => y \in subs[x]
  PROVE  Pair(x, y)'
<1>1. /\ oplog[y] \subseteq oplog'[y] /\ subs[y] \subseteq subs'[y]
      /\ docs \subseteq docs' /\ up \subseteq up'
  BY DEF Grows
<1>2. Connected(x, y)'
  BY <1>1 DEF Pair, Connected, Link
<1>3. Subscribed(x, y)'
  BY <1>1 DEF Pair, Subscribed
<1>4. Believed(x, y)'
  BY <1>1 DEF Pair, Believed
<1>5. Queued(x, y)'
  <2> DEFINE s == net[x][y]
  <2>1. s \in Seq(Fine(x, y)) /\ Introduced(s, x, subs[y]) /\ Causal(s, oplog[y], deps)
    BY DEF Pair, Queued
  <2> HIDE DEF s
  <2>2. s \in Seq(Fine(x, y)')
    BY <2>1, FineGrows, SeqMonotonic
  <2>3. Introduced(s, x, subs'[y])
    BY <1>1, <2>1, IntroducedGrows
  <2>4. Causal(s, oplog'[y], deps')
    BY <1>1, <2>1, CausalGrows
  <2> QED BY <2>2, <2>3, <2>4 DEF Queued, s
<1> QED BY <1>2, <1>3, <1>4, <1>5 DEF Pair

(* r reads the oldest message of p.                                        *)
LEMMA PairRead ==
  ASSUME Grows, NEW p \in Repos, NEW r \in Repos, Pair(p, r), net[p][r] # <<>>,
         net'[p][r] = Tail(net[p][r]), channel'[p][r] = channel[p][r],
         awareness'[p][r] = awareness[p][r], oplog'[p] = oplog[p],
         r \in subs'[p] => r \in subs[p],
         DataOf(Message(r, p)) \subseteq oplog'[r],
         Message(r, p).type = "reply" => p \in subs'[r]
  PROVE  Pair(p, r)'
<1> DEFINE s == net[p][r]
           t == Tail(s)
           h == DataOf(Head(s))
<1>1. /\ oplog[r] \cup h \subseteq oplog'[r] /\ subs[r] \subseteq subs'[r]
      /\ docs \subseteq docs' /\ up \subseteq up'
  BY DEF Grows, Message
<1>2. s \in Seq(Fine(p, r)) /\ Introduced(s, p, subs[r]) /\ Causal(s, oplog[r], deps)
  BY DEF Pair, Queued
<1>3. s # <<>> /\ net'[p][r] = t /\ (Head(s).type = "reply" => p \in subs'[r])
  BY DEF Message
<1>4. Carried(s) = h \cup Carried(t)
  BY <1>2, CarriedByTail
<1> HIDE DEF s
<1>5. t \in Seq(Fine(p, r))
  BY <1>2, <1>3, HeadTailProperties
<1>6. Introduced(t, p, subs'[r]) /\ (Introduces(s) => p \in subs'[r] \/ Introduces(t))
  BY <1>1, <1>2, <1>3, IntroducedTail
<1>7. Causal(t, oplog[r] \cup h, deps)
  BY <1>2, <1>3, CausalTail
<1> HIDE DEF t, h
<1>8. Causal(t, oplog'[r], deps') /\ t \in Seq(Fine(p, r)')
  BY <1>1, <1>5, <1>7, CausalGrows, FineGrows, SeqMonotonic
<1>9. Connected(p, r)'
  BY <1>1 DEF Pair, Connected, Link
<1>10. Subscribed(p, r)'
  BY <1>1, <1>3, <1>4, <1>6 DEF Pair, Subscribed, s
<1>11. Believed(p, r)'
  BY <1>1, <1>3, <1>4 DEF Pair, Believed, s
<1>12. Queued(p, r)'
  BY <1>3, <1>6, <1>8 DEF Queued
<1> QED BY <1>9, <1>10, <1>11, <1>12 DEF Pair

(* What r may send q on top of what is on its way already.                 *)
SendsWell(r, q, msgs) ==
  /\ msgs \in Seq(Fine(r, q)')
  /\ \A i \in 1 .. Len(msgs) : msgs[i].type \in {"update", "sync-response"} =>
       r \in subs[q] \/ Introduces(net[r][q])
  /\ Causal(msgs, oplog[q] \cup Carried(net[r][q]), deps')
  /\ channel'[r][q] # "none" => Link(r, q) \in up'
  /\ q \in subs'[r] =>
       /\ channel'[r][q] = "established" /\ q \in docs'
       /\ r \in subs[q] \/ Introduces(net[r][q]) \/ Introduces(msgs)
       /\ oplog'[r] \subseteq oplog[q] \cup Carried(net[r][q]) \cup Carried(msgs)
  /\ awareness'[r][q].status = "synced" =>
       /\ awareness'[r][q].version \subseteq oplog'[r]
       /\ awareness'[r][q].version \subseteq oplog[q] \cup Carried(net[r][q]) \cup Carried(msgs)

LEMMA PairSent ==
  ASSUME Grows, NEW r \in Repos, NEW q \in Repos, Pair(r, q), NEW msgs,
         net'[r][q] = net[r][q] \o msgs, SendsWell(r, q, msgs)
  PROVE  Pair(r, q)'
<1> DEFINE s == net[r][q]
           F == Fine(r, q)'
<1>1. /\ oplog[q] \subseteq oplog'[q] /\ subs[q] \subseteq subs'[q]
  BY DEF Grows
<1>2. s \in Seq(Fine(r, q)) /\ Introduced(s, r, subs[q]) /\ Causal(s, oplog[q], deps)
  BY DEF Pair, Queued
<1>3. /\ msgs \in Seq(F) /\ Causal(msgs, oplog[q] \cup Carried(s), deps')
      /\ \A i \in 1 .. Len(msgs) : msgs[i].type \in {"update", "sync-response"} =>
           r \in subs[q] \/ Introduces(s)
      /\ net'[r][q] = s \o msgs
  BY DEF SendsWell
<1> HIDE DEF s
<1>4. s \in Seq(F)
  BY <1>2, FineGrows, SeqMonotonic
<1>5. Causal(s, oplog[q], deps')
  BY <1>2, CausalGrows
<1> HIDE DEF F
<1>6. s \o msgs \in Seq(F) /\ Carried(s \o msgs) = Carried(s) \cup Carried(msgs)
  BY <1>3, <1>4, ConcatProperties, CarriedByConcat
<1>7. /\ Introduced(s \o msgs, r, subs[q])
      /\ Introduces(s) \/ Introduces(msgs) => Introduces(s \o msgs)
  BY <1>2, <1>3, <1>4, IntroducedConcat
<1>8. Causal(s \o msgs, oplog[q], deps')
  BY <1>3, <1>4, <1>5, CausalConcat
<1>9. Introduced(s \o msgs, r, subs'[q]) /\ Causal(s \o msgs, oplog'[q], deps')
  BY <1>1, <1>7, <1>8 DEF Introduced, Causal
<1>10. Connected(r, q)'
  BY DEF SendsWell, Connected, Link
<1>11. Subscribed(r, q)'
  BY <1>1, <1>3, <1>6, <1>7 DEF SendsWell, Subscribed, s
<1>12. Believed(r, q)'
  BY <1>1, <1>3, <1>6 DEF SendsWell, Believed, s
<1>13. Queued(r, q)'
  BY <1>3, <1>6, <1>9 DEF Queued, F
<1> QED BY <1>10, <1>11, <1>12, <1>13 DEF Pair

(* Short queues.                                                           *)
LEMMA NoMessage ==
  /\ Len(<<>>) = 0 /\ Carried(<<>>) = {}
  /\ \A base, D : Causal(<<>>, base, D)
<1>1. Len(<<>>) = 0
  OBVIOUS
<1> QED BY <1>1 DEF Carried, CarriedUpTo, Causal

LEMMA OneMessage ==
  ASSUME NEW m, NEW base, NEW D
  PROVE  /\ \A i \in 1 .. Len(<<m>>) : <<m>>[i] = m
         /\ Carried(<<m>>) = DataOf(m)
         /\ m.type = "reply" => Introduces(<<m>>)
         /\ (\A o \in DataOf(m) : D[o] \subseteq base \cup DataOf(m)) => Causal(<<m>>, base, D)
<1> DEFINE s == <<m>>
<1>1. Len(s) = 1 /\ s[1] = m
  OBVIOUS
<1> HIDE DEF s
<1>2. \A i \in 1 .. Len(s) : s[i] = m
  BY <1>1
<1>3. CarriedUpTo(s, 1) = DataOf(m)
  BY <1>1 DEF CarriedUpTo
<1>4. Carried(s) = DataOf(m)
  BY <1>1, <1>3 DEF Carried
<1>5. m.type = "reply" => Introduces(s)
  BY <1>1 DEF Introduces
<1>6. (\A o \in DataOf(m) : D[o] \subseteq base \cup DataOf(m)) => Causal(s, base, D)
  BY <1>1, <1>3 DEF Causal
<1> QED BY <1>2, <1>4, <1>5, <1>6 DEF s

Dataless == Handshakes \cup {"sync-request", "new-doc"}

LEMMA DatalessQueue ==
  ASSUME NEW s, \A i \in 1 .. Len(s) : s[i].type \in Dataless, NEW base, NEW D
  PROVE  Carried(s) = {} /\ Causal(s, base, D)
<1>1. \A i \in 1 .. Len(s) : DataOf(s[i]) = {}
  BY DEF DataOf, Dataless, Handshakes
<1> QED BY <1>1 DEF Carried, CarriedUpTo, Causal

(* Messages without data are always well sent.                             *)
LEMMA DatalessSends ==
  ASSUME Grows, NEW r \in Repos, NEW q \in Repos, Pair(r, q),
         NEW msgs \in Seq(Fine(r, q)'), \A i \in 1 .. Len(msgs) : msgs[i].type \in Dataless,
         oplog'[r] = oplog[r],
         awareness'[r][q] = awareness[r][q] \/ awareness'[r][q].status # "synced",
         q \in subs'[r] => q \in subs[r],
         channel'[r][q] = channel[r][q] \/ (channel'[r][q] = "established" /\ Link(r, q) \in up)
  PROVE  SendsWell(r, q, msgs)
<1>1. Carried(msgs) = {} /\ Causal(msgs, oplog[q] \cup Carried(net[r][q]), deps')
  BY DatalessQueue
<1>2. \A i \in 1 .. Len(msgs) : msgs[i].type \notin {"update", "sync-response"}
  BY DEF Dataless, Handshakes
<1>3. up \subseteq up' /\ docs \subseteq docs'
  BY DEF Grows
<1>4. Connected(r, q) /\ Subscribed(r, q) /\ Believed(r, q)
  BY DEF Pair
<1>5. channel'[r][q] # "none" => Link(r, q) \in up'
  BY <1>3, <1>4 DEF Connected
<1>6. q \in subs'[r] =>
        /\ channel'[r][q] = "established" /\ q \in docs'
        /\ r \in subs[q] \/ Introduces(net[r][q]) \/ Introduces(msgs)
        /\ oplog'[r] \subseteq oplog[q] \cup Carried(net[r][q]) \cup Carried(msgs)
  BY <1>3, <1>4 DEF Connected, Subscribed
<1>7. awareness'[r][q].status = "synced" =>
       /\ awareness'[r][q].version \subseteq oplog'[r]
       /\ awareness'[r][q].version \subseteq oplog[q] \cup Carried(net[r][q]) \cup Carried(msgs)
  BY <1>4 DEF Believed
<1> QED BY <1>1, <1>2, <1>5, <1>6, <1>7 DEF SendsWell

(* Requests and announcements are fine.                                    *)
LEMMA FineRequest ==
  ASSUME NEW r \in Repos, NEW q \in Repos, NEW v \in SUBSET Ops, v \subseteq oplog'[r], r \in docs'
  PROVE  SyncRequest(v, TRUE) \in Fine(r, q)'
<1>1. SyncRequest(v, TRUE) \in Messages(made')
  BY RequestType
<1> QED BY <1>1 DEF Fine, DataOf, SyncRequest

LEMMA FinePlain ==
  ASSUME NEW r \in Repos, NEW q \in Repos
  PROVE  {EstablishRequest, EstablishResponse, NewDoc} \subseteq Fine(r, q)'
BY PlainType DEF Fine, DataOf, EstablishRequest, EstablishResponse, NewDoc

(* Updates, responses and replies of all that r has.                       *)
LEMMA FineUpdate ==
  ASSUME NEW r \in Repos, NEW q \in Repos, NEW v \in SUBSET made', v \subseteq oplog'[r],
         NEW a, q \in subs'[r]
  PROVE  Update(v, a) \in Fine(r, q)'
<1>1. Update(v, a) \in Messages(made') /\ Delta(v, a) \subseteq v
  BY UpdateType DEF Delta
<1> DEFINE m == Update(v, a)
<1>2. m.type = "update" /\ m.data = Delta(v, a)
  BY DEF Update
<1> HIDE DEF m
<1> QED BY <1>1, <1>2 DEF Fine, DataOf, m

LEMMA OfferFacts ==
  ASSUME NEW v, NEW w
  PROVE  /\ Offer(v, w).data = v \ w /\ Offer(v, w).version = v
         /\ Offer(v, w).status = "up-to-date" => v \subseteq w
BY DEF Offer

LEMMA FineResponse ==
  ASSUME NEW r \in Repos, NEW q \in Repos, NEW v \in SUBSET made', v \subseteq oplog'[r],
         NEW w, w \subseteq oplog'[q]
  PROVE  SyncResponse(v, w) \in Fine(r, q)'
<1>1. SyncResponse(v, w) \in Messages(made')
  BY ResponseType
<1> DEFINE m == SyncResponse(v, w)
<1>2. m.type = "sync-response" /\ m.offer = Offer(v, w)
  BY DEF SyncResponse
<1> HIDE DEF m
<1> QED BY <1>1, <1>2, OfferFacts DEF Fine, DataOf, m

LEMMA FineReply ==
  ASSUME NEW r \in Repos, NEW q \in Repos, NEW v \in SUBSET made', v \in SUBSET Ops,
         v \subseteq oplog'[r], NEW w, w \subseteq oplog'[q], r \in docs', q \in subs'[r]
  PROVE  Reply(v, w) \in Fine(r, q)'
<1>1. Reply(v, w) \in Messages(made')
  BY ReplyType
<1> DEFINE m == Reply(v, w)
<1>2. m.type = "reply" /\ m.offer = Offer(v, w) /\ m.wants = v
  BY DEF Reply
<1> HIDE DEF m
<1> QED BY <1>1, <1>2, OfferFacts DEF Fine, DataOf, m

(* What r propagates, having come to version v, is well sent.              *)
LEMMA PropagationSends ==
  ASSUME Typed, Grows, NEW r \in Repos, NEW q \in Repos \ {r}, Pair(r, q),
         NEW v \in SUBSET made', NEW src, q # src, NEW aw, aw[q] = awareness[r][q],
         oplog'[r] = v, oplog[r] \subseteq v,
         awareness'[r][q] = AfterPropagation(r, v, src, aw)[q],
         q \in subs'[r] <=> q \in subs[r], channel'[r][q] = channel[r][q],
         \A o \in v : deps'[o] \subseteq v
  PROVE  SendsWell(r, q, Propagated(r, v, src, aw)[q])
<1> DEFINE a    == awareness[r][q]
           msgs == Propagated(r, v, src, aw)[q]
           u    == Update(v, a)
           has  == oplog[q] \cup Carried(net[r][q])
<1> SUFFICES SendsWell(r, q, msgs)
  OBVIOUS
<1>1. /\ Connected(r, q) /\ Subscribed(r, q) /\ Believed(r, q)
      /\ up \subseteq up' /\ docs \subseteq docs'
  BY DEF Pair, Grows
<1>2. channel'[r][q] # "none" => Link(r, q) \in up'
  BY <1>1 DEF Connected
<1>3. a.status \in {"unknown", "absent", "pending", "synced"}
  BY DEF Typed, TypeOK, Awareness
<1>4. a.status = "synced" => a.version \subseteq oplog[r] /\ a.version \subseteq has
  BY <1>1 DEF Believed
<1>5. q \in Established(r) <=> channel[r][q] = "established"
  BY DEF Established
<1>6. q \in subs[r] =>
        /\ channel[r][q] = "established" /\ q \in docs'
        /\ r \in subs[q] \/ Introduces(net[r][q])
  BY <1>1 DEF Connected, Subscribed
<1>7. CASE q \in subs[r] /\ NeedsUpdate(v, a)
  <2>1. msgs = <<u>> /\ awareness'[r][q] = Synced(v)
    BY <1>5, <1>6, <1>7 DEF Propagated, AfterPropagation
  <2>2. DataOf(u) = Delta(v, a) /\ u.type = "update"
    BY DEF Update, DataOf
  <2>3. v \subseteq has \cup Delta(v, a) /\ Delta(v, a) \subseteq v
    BY <1>4 DEF Delta
  <2>4. u \in Fine(r, q)'
    BY <1>7, FineUpdate
  <2> HIDE DEF u
  <2>5. <<u>> \in Seq(Fine(r, q)')
    BY <2>4, OneIsSeq
  <2>6. /\ \A i \in 1 .. Len(<<u>>) : <<u>>[i] = u
        /\ Carried(<<u>>) = DataOf(u)
    BY OneMessage
  <2>7. Causal(<<u>>, has, deps')
    <3>1. \A o \in DataOf(u) : deps'[o] \subseteq has \cup DataOf(u)
      BY <2>2, <2>3
    <3> HIDE DEF has
    <3> QED BY <3>1, OneMessage
  <2>8. awareness'[r][q].version = v
    BY <2>1 DEF Synced
  <2> HIDE DEF msgs
  <2> QED BY <1>2, <1>6, <1>7, <2>1, <2>2, <2>3, <2>5, <2>6, <2>7, <2>8 DEF SendsWell, has
<1>8. CASE ~ (q \in subs[r] /\ NeedsUpdate(v, a))
  <2>1. awareness'[r][q] = a
    BY <1>8 DEF AfterPropagation
  <2>2. msgs = <<>> \/ msgs = <<NewDoc>>
    BY <1>5, <1>8 DEF Propagated
  <2>3. q \in subs[r] => v \subseteq has
    BY <1>3, <1>4, <1>8 DEF NeedsUpdate, ShouldSync
  <2>4. NewDoc \in Fine(r, q)' /\ NewDoc.type = "new-doc"
    BY FinePlain DEF NewDoc
  <2>5. /\ msgs \in Seq(Fine(r, q)')
        /\ \A i \in 1 .. Len(msgs) : msgs[i].type \in Dataless
    <3>1. CASE msgs = <<>>
      BY <3>1, EmptySeq, NoMessage
    <3>2. CASE msgs = <<NewDoc>>
      <4> DEFINE m == NewDoc
      <4>1. m \in Fine(r, q)' /\ m.type \in Dataless
        BY <2>4 DEF Dataless
      <4> HIDE DEF m, msgs
      <4>2. <<m>> \in Seq(Fine(r, q)') /\ \A i \in 1 .. Len(<<m>>) : <<m>>[i] = m
        BY <4>1, OneIsSeq, OneMessage
      <4> QED BY <3>2, <4>1, <4>2 DEF m
    <3> QED BY <2>2, <3>1, <3>2
  <2> HIDE DEF msgs
  <2>6. Carried(msgs) = {} /\ Causal(msgs, has, deps')
    BY <2>5, DatalessQueue
  <2>7. \A i \in 1 .. Len(msgs) : msgs[i].type \notin {"update", "sync-response"}
    BY <2>5 DEF Dataless, Handshakes
  <2> QED BY <1>2, <1>4, <1>6, <2>1, <2>3, <2>5, <2>6, <2>7 DEF SendsWell
<1> QED BY <1>7, <1>8

-----------------------------------------------------------------------------
(* A step of r changes what r knows, not what others know.                 *)
Frame(r) ==
  \A x \in Repos \ {r} :
    /\ oplog'[x] = oplog[x] /\ subs'[x] = subs[x]
    /\ \A y \in Repos : awareness'[x][y] = awareness[x][y] /\ channel'[x][y] = channel[x][y]

LEMMA OthersWhole ==
  ASSUME Typed, Synchronous, Grows, NEW r \in Repos, Frame(r), NEW x \in Repos \ {r}
  PROVE  Whole(x)'
<1>1. Whole(x) /\ oplog'[x] = oplog[x] /\ oplog[x] \subseteq made
  BY DEF Synchronous, Frame, Typed, TypeOK
<1>2. \A o \in made : deps'[o] = deps[o]
  BY DEF Grows
<1> QED BY <1>1, <1>2 DEF Whole

LEMMA OthersKept ==
  ASSUME Synchronous, Grows, NEW r \in Repos, Frame(r),
         NEW x \in Repos \ {r}, NEW y \in Repos \ {x}, net'[x][y] = net[x][y]
  PROVE  Pair(x, y)'
<1>1. Pair(x, y)
  BY DEF Synchronous
<1>2. /\ oplog'[x] = oplog[x] /\ subs'[x] = subs[x]
      /\ awareness'[x][y] = awareness[x][y] /\ channel'[x][y] = channel[x][y]
  BY DEF Frame
<1> QED BY <1>1, <1>2, PairKept

(* r sends out, and nothing else moves.                                    *)
LEMMA AllSent ==
  ASSUME Typed, Synchronous, Grows, NEW r \in Repos, Frame(r), NEW out,
         \A x \in Repos : \A y \in Repos \ {x} :
           net'[x][y] = IF x = r THEN net[x][y] \o out[y] ELSE net[x][y],
         Whole(r)', \A q \in Repos \ {r} : SendsWell(r, q, out[q])
  PROVE  Synchronous'
<1>1. \A x \in Repos : Whole(x)'
  BY OthersWhole
<1>2. ASSUME NEW x \in Repos, NEW y \in Repos \ {x}
      PROVE  Pair(x, y)'
  <2>1. CASE x = r
    <3>1. Pair(x, y) /\ net'[x][y] = net[x][y] \o out[y] /\ SendsWell(x, y, out[y])
      BY <2>1 DEF Synchronous
    <3> QED BY <3>1, PairSent
  <2>2. CASE x # r
    <3>1. net'[x][y] = net[x][y]
      BY <2>2
    <3> QED BY <2>2, <3>1, OthersKept
  <2> QED BY <2>1, <2>2
<1> QED BY <1>1, <1>2 DEF Synchronous

(* r handles the oldest message of p and sends out.                        *)
LEMMA AllHandled ==
  ASSUME HandshakeInv, Synchronous, Grows, NEW r \in Repos, NEW p \in Repos \ {r}, Frame(r),
         net[p][r] # <<>>, NEW out \in [Repos -> Seq(Messages(made))], Handled(r, p, out),
         \A q \in Repos \ {r, p} : out[q] # <<>> => channel[r][q] = "established",
         Whole(r)', \A q \in Repos \ {r} : SendsWell(r, q, out[q]),
         DataOf(Message(r, p)) \subseteq oplog'[r],
         Message(r, p).type = "reply" => p \in subs'[r]
  PROVE  Synchronous'
<1>0. Typed /\ net \in [Repos -> [Repos -> Seq(Messages(made))]]
  BY DEF HandshakeInv, Typed, NetType
<1>1. InFlightAfter(r, p, out)
  BY <1>0, HandledType
<1>2. \A x \in Repos : Whole(x)'
  BY <1>0, OthersWhole
<1>3. ASSUME NEW y \in Repos \ {r}
      PROVE  Pair(r, y)'
  <2>1. Pair(r, y) /\ Connected(r, y) /\ SendsWell(r, y, out[y])
    BY DEF Synchronous, Pair
  <2>2. Link(r, p) \in up
    BY DEF HandshakeInv, Handshake, HandshakeOf
  <2>3. Link(r, y) \in up \/ out[y] = <<>>
    BY <2>1, <2>2 DEF Connected
  <2>4. net[r][y] \o <<>> = net[r][y]
    BY <1>0, ConcatEmptySeq
  <2>5. <<r, y>> # <<p, r>>
    OBVIOUS
  <2>6. net'[r][y] = IF Link(r, y) \in up THEN net[r][y] \o out[y] ELSE net[r][y]
    BY <1>1, <2>5 DEF InFlightAfter
  <2>7. net'[r][y] = net[r][y] \o out[y]
    BY <2>3, <2>4, <2>6
  <2> QED BY <2>1, <2>7, PairSent
<1>4. Pair(p, r)'
  <2>1. Pair(p, r) /\ net'[p][r] = Tail(net[p][r])
    BY <1>1 DEF Synchronous, InFlightAfter
  <2>2. /\ oplog'[p] = oplog[p] /\ subs'[p] = subs[p]
        /\ awareness'[p][r] = awareness[p][r] /\ channel'[p][r] = channel[p][r]
    BY DEF Frame
  <2> QED BY <2>1, <2>2, PairRead
<1>5. ASSUME NEW x \in Repos \ {r}, NEW y \in Repos \ {x}, <<x, y>> # <<p, r>>
      PROVE  Pair(x, y)'
  <2>1. net'[x][y] = net[x][y]
    BY <1>1, <1>5 DEF InFlightAfter
  <2> QED BY <2>1, OthersKept
<1> QED BY <1>2, <1>3, <1>4, <1>5 DEF Synchronous

(* The message that r reads next.                                          *)
LEMMA NextRead ==
  ASSUME Typed, Synchronous, NEW r \in Repos, NEW p \in Repos \ {r}, net[p][r] # <<>>
  PROVE  LET m == Message(r, p)
             log == oplog[r] \cup DataOf(m)
         IN /\ m \in Fine(p, r)
            /\ m.type \in {"update", "sync-response"} => p \in subs[r]
            /\ \A o \in log : deps[o] \subseteq log
            /\ log \in SUBSET made /\ Applied(log) = log
<1> DEFINE s == net[p][r]
           m == Message(r, p)
           log == oplog[r] \cup DataOf(m)
<1>1. s \in Seq(Fine(p, r)) /\ Introduced(s, p, subs[r]) /\ Causal(s, oplog[r], deps)
  BY DEF Synchronous, Pair, Queued
<1>2. m = Head(s)
  BY DEF Message
<1>3. Whole(r) /\ oplog[r] \in SUBSET made
  BY DEF Synchronous, Typed, TypeOK
<1> HIDE DEF s, m
<1>4. m \in Fine(p, r)
  BY <1>1, <1>2, HeadTailProperties DEF s
<1>5. m.type \in {"update", "sync-response"} => p \in subs[r]
  <2>1. \E now : subs[r] \subseteq now /\ p \in now
    <3>1. subs[r] \subseteq subs[r] \cup {p} /\ p \in subs[r] \cup {p}
      OBVIOUS
    <3> QED BY <3>1
  <2> QED BY <1>1, <1>2, <2>1, IntroducedTail DEF s
<1>6. \A o \in DataOf(m) : deps[o] \subseteq log
  BY <1>1, <1>2, CausalTail DEF s
<1>7. DataOf(m) \subseteq made
  BY <1>4 DEF Fine, DataOf, Messages, Offers, Handshakes
<1>8. \A o \in log : deps[o] \subseteq log
  BY <1>3, <1>6 DEF Whole
<1>9. Applied(log) = log
  BY <1>8 DEF Applied
<1> QED BY <1>3, <1>4, <1>5, <1>7, <1>8, <1>9 DEF m

(* A handler that answers p with msgs and imports nothing.                 *)
LEMMA AnswerKeeps ==
  ASSUME HandshakeInv, Synchronous, NEW r \in Repos, NEW p \in Repos \ {r}, net[p][r] # <<>>,
         NEW msgs \in Seq(Messages(made)), Handled(r, p, SendTo(p, msgs)),
         Grows, Frame(r), oplog' = oplog, UNCHANGED <<made, deps>>,
         \A q \in Repos \ {p} : q \in subs'[r] => q \in subs[r],
         \A q \in Repos \ {p} : awareness'[r][q] = awareness[r][q],
         \A q \in Repos \ {p} : channel'[r][q] = channel[r][q],
         DataOf(Message(r, p)) = {}, Message(r, p).type = "reply" => p \in subs'[r],
         SendsWell(r, p, msgs)
  PROVE  Synchronous'
<1> DEFINE out == SendTo(p, msgs)
<1>1. /\ out \in [Repos -> Seq(Messages(made))] /\ Handled(r, p, out)
      /\ \A q \in Repos : out[q] = IF q = p THEN msgs ELSE <<>>
  BY SendToType
<1> HIDE DEF out
<1>2. Whole(r)'
  BY DEF Synchronous, Whole
<1>3. ASSUME NEW q \in Repos \ {r}
      PROVE  SendsWell(r, q, out[q])
  <2>1. CASE q = p
    BY <1>1, <2>1
  <2>2. CASE q # p
    <3> DEFINE none == <<>>
    <3>1. none \in Seq(Fine(r, q)') /\ \A i \in 1 .. Len(none) : none[i].type \in Dataless
      BY EmptySeq, NoMessage
    <3>2. Pair(r, q) /\ out[q] = none
      BY <1>1, <2>2 DEF Synchronous
    <3> HIDE DEF none
    <3> QED BY <2>2, <3>1, <3>2, DatalessSends
  <2> QED BY <2>1, <2>2
<1>4. \A q \in Repos \ {r, p} : out[q] # <<>> => channel[r][q] = "established"
  BY <1>1
<1>5. DataOf(Message(r, p)) \subseteq oplog'[r]
  OBVIOUS
<1> QED BY <1>1, <1>2, <1>3, <1>4, <1>5, AllHandled

(* What an import changes.                                                 *)
ImportBelief(r, p, v) == [awareness[r] EXCEPT ![p] = Synced(v)]

ImportSends(r, p, v, toSource) ==
  [Propagated(r, v, p, ImportBelief(r, p, v)) EXCEPT ![p] = toSource]

Imported(r, p, S, v, toSource) ==
  /\ oplog'[r] = oplog[r] \cup S /\ \A x \in Repos \ {r} : oplog'[x] = oplog[x]
  /\ awareness'[r][p] = Synced(v)
  /\ \A q \in Repos \ {p} : ImportBelief(r, p, v)[q] = awareness[r][q]
  /\ \A q \in Repos :
       awareness'[r][q] = AfterPropagation(r, v, p, ImportBelief(r, p, v))[q]
  /\ \A x \in Repos \ {r} : \A y \in Repos : awareness'[x][y] = awareness[x][y]
  /\ Handled(r, p, ImportSends(r, p, v, toSource))

LEMMA ImportChanges ==
  ASSUME Typed, NEW r \in Repos, NEW p \in Repos \ {r}, NEW S, NEW toSource,
         Import(r, p, S, toSource)
  PROVE  Imported(r, p, S, Applied(oplog[r] \cup S), toSource)
<1> DEFINE v  == Applied(oplog[r] \cup S)
           aw == ImportBelief(r, p, v)
           after == AfterPropagation(r, v, p, aw)
<1>1. /\ oplog' = [oplog EXCEPT ![r] = oplog[r] \cup S]
      /\ awareness' = [awareness EXCEPT ![r] = after]
      /\ Handled(r, p, ImportSends(r, p, v, toSource))
  BY DEF Import, ImportBelief, ImportSends
<1>2. oplog \in [Repos -> SUBSET made] /\ awareness \in [Repos -> [Repos -> Awareness]]
  BY DEF Typed, TypeOK
<1> HIDE DEF v
<1>3. aw[p] = Synced(v) /\ \A q \in Repos \ {p} : aw[q] = awareness[r][q]
  BY <1>2 DEF ImportBelief
<1> HIDE DEF aw
<1>4. after[p] = aw[p]
  BY DEF AfterPropagation
<1> HIDE DEF after
<1>5. awareness'[r] = after /\ \A x \in Repos \ {r} : awareness'[x] = awareness[x]
  BY <1>1, <1>2
<1>6. oplog'[r] = oplog[r] \cup S /\ \A x \in Repos \ {r} : oplog'[x] = oplog[x]
  BY <1>1, <1>2
<1>7. Imported(r, p, S, v, toSource)
  BY <1>1, <1>3, <1>4, <1>5, <1>6 DEF Imported, aw, after
<1> QED BY <1>7 DEF v

(* A handler that imports what the message carries.                        *)
LEMMA ImportKeeps ==
  ASSUME HandshakeInv, Synchronous, NEW r \in Repos, NEW p \in Repos \ {r}, net[p][r] # <<>>,
         NEW toSource \in Seq(Messages(made)),
         Import(r, p, DataOf(Message(r, p)), toSource),
         Grows, Frame(r), UNCHANGED <<made, deps, channel>>,
         \A q \in Repos \ {p} : q \in subs'[r] <=> q \in subs[r],
         Message(r, p).type = "reply" => p \in subs'[r],
         SendsWell(r, p, toSource)
  PROVE  Synchronous'
<1> DEFINE S    == DataOf(Message(r, p))
           v    == Applied(oplog[r] \cup S)
           aw   == ImportBelief(r, p, v)
           sent == Propagated(r, v, p, aw)
           out  == ImportSends(r, p, v, toSource)
<1>1. Typed
  BY DEF HandshakeInv
<1> DEFINE log  == oplog[r] \cup S
<1>a. /\ Applied(log) = log /\ log \in SUBSET made
      /\ \A o \in log : deps[o] \subseteq log
  BY <1>1, NextRead
<1>2. /\ v = log /\ v \in SUBSET made
      /\ \A o \in v : deps[o] \subseteq v
  <2> HIDE DEF log
  <2>1. v = Applied(log)
    BY DEF log
  <2> HIDE DEF v
  <2> QED BY <1>a, <2>1
<1>b. Imported(r, p, S, v, toSource)
  BY <1>1, ImportChanges
<1>3. /\ oplog'[r] = v
      /\ \A q \in Repos \ {p} : aw[q] = awareness[r][q]
      /\ \A q \in Repos : awareness'[r][q] = AfterPropagation(r, v, p, aw)[q]
      /\ Handled(r, p, out)
  <2> HIDE DEF v
  <2> QED BY <1>2, <1>b DEF Imported
<1>4. sent \in [Repos -> Seq(Messages(made))]
  BY <1>2, PropagatedType
<1>5. \A q \in Repos : sent[q] # <<>> => channel[r][q] = "established"
  BY PropagatedTo
<1>6. ASSUME NEW q \in Repos \ {r, p}
      PROVE  SendsWell(r, q, sent[q])
  <2>1. Pair(r, q)
    BY DEF Synchronous
  <2> HIDE DEF v, aw
  <2>2. aw[q] = awareness[r][q] /\ awareness'[r][q] = AfterPropagation(r, v, p, aw)[q]
    BY <1>3
  <2> QED BY <1>1, <1>2, <1>3, <2>1, <2>2, PropagationSends
<1>c. out = [sent EXCEPT ![p] = toSource]
  BY DEF ImportSends
<1> HIDE DEF sent, out
<1>7. /\ out \in [Repos -> Seq(Messages(made))]
      /\ \A q \in Repos : out[q] = IF q = p THEN toSource ELSE sent[q]
  BY <1>4, <1>c
<1>8. Whole(r)'
  BY <1>2, <1>3 DEF Whole
<1>9. S \subseteq oplog'[r]
  BY <1>2, <1>3
<1> HIDE DEF v
<1>10. \A q \in Repos \ {r} : SendsWell(r, q, out[q])
  BY <1>6, <1>7
<1>11. \A q \in Repos \ {r, p} : out[q] # <<>> => channel[r][q] = "established"
  BY <1>5, <1>7
<1> QED BY <1>3, <1>7, <1>8, <1>9, <1>10, <1>11, AllHandled

LEMMA ReceiveChanges ==
  ASSUME Typed, NEW r \in Repos, NEW p \in Repos \ {r}, Receive(r, p)
  PROVE  /\ Grows /\ Frame(r) /\ net[p][r] # <<>> /\ UNCHANGED <<up, made, deps>>
         /\ \A q \in Repos \ {p} : q \in subs'[r] <=> q \in subs[r]
<1>1. net[p][r] # <<>> /\ UNCHANGED <<up, made, deps>>
  BY DEF Receive, HandleEstablishRequest, HandleEstablishResponse, HandleSyncRequest,
         HandleSyncResponse, HandleReply, HandleUpdate, HandleNewDoc,
         ReceivesEstablished, Receives, opVars
<1>2. docs' = docs \/ docs' = docs \cup {r}
  BY DEF Receive, HandleEstablishRequest, HandleEstablishResponse, HandleSyncRequest,
         HandleSyncResponse, HandleReply, HandleUpdate, HandleNewDoc, Create
<1>3. subs' = subs \/ subs' = [subs EXCEPT ![r] = @ \cup {p}]
  BY DEF Receive, HandleEstablishRequest, HandleEstablishResponse, HandleSyncRequest,
         HandleSyncResponse, HandleReply, HandleUpdate, HandleNewDoc, Subscribe
<1>4. channel' = channel \/ channel' = [channel EXCEPT ![r][p] = "established"]
  BY DEF Receive, HandleEstablishRequest, HandleEstablishResponse, HandleSyncRequest,
         HandleSyncResponse, HandleReply, HandleUpdate, HandleNewDoc, Establish,
         ReceivesEstablished
<1>5. \/ oplog' = oplog /\ awareness' = awareness
      \/ oplog' = oplog /\ \E a : Believe(r, p, a)
      \/ \E S, toSource : Import(r, p, S, toSource)
  BY DEF Receive, HandleEstablishRequest, HandleEstablishResponse, HandleSyncRequest,
         HandleSyncResponse, HandleReply, HandleUpdate, HandleNewDoc
<1> DEFINE Kept == /\ \A x \in Repos : oplog[x] \subseteq oplog'[x]
                   /\ \A x \in Repos \ {r} : oplog'[x] = oplog[x]
                   /\ \A x \in Repos \ {r} : \A y \in Repos :
                        awareness'[x][y] = awareness[x][y]
<1>6. Kept
  <2>1. CASE oplog' = oplog /\ awareness' = awareness
    BY <2>1
  <2>2. ASSUME NEW a, oplog' = oplog, Believe(r, p, a)
        PROVE  Kept
    BY <2>2 DEF Believe, Typed, TypeOK
  <2>3. ASSUME NEW S, NEW toSource, Import(r, p, S, toSource)
        PROVE  Kept
    BY <2>3, ImportChanges DEF Imported
  <2> QED BY <1>5, <2>1, <2>2, <2>3
<1>7. /\ \A x \in Repos : subs[x] \subseteq subs'[x]
      /\ \A x \in Repos \ {r} : subs'[x] = subs[x]
      /\ \A q \in Repos \ {p} : q \in subs'[r] <=> q \in subs[r]
  BY <1>3 DEF Typed, TypeOK
<1>8. \A x \in Repos \ {r} : \A y \in Repos : channel'[x][y] = channel[x][y]
  BY <1>4 DEF Typed, TypeOK
<1>9. Grows
  BY <1>1, <1>2, <1>6, <1>7 DEF Grows
<1>10. Frame(r)
  BY <1>6, <1>7, <1>8 DEF Frame
<1> QED BY <1>1, <1>7, <1>9, <1>10

LEMMA EstablishKeeps ==
  ASSUME HandshakeInv, Synchronous, NEW r \in Repos, NEW p \in Repos \ {r},
         HandleEstablishRequest(r, p) \/ HandleEstablishResponse(r, p)
  PROVE  Synchronous'
<1>1. Typed
  BY DEF HandshakeInv
<1>2. /\ Grows /\ Frame(r) /\ net[p][r] # <<>> /\ UNCHANGED <<up, made, deps>>
      /\ \A q \in Repos \ {p} : q \in subs'[r] => q \in subs[r]
  BY <1>1, ReceiveChanges DEF Receive
<1>3. /\ UNCHANGED <<docs, oplog, subs, awareness>>
      /\ channel' = [channel EXCEPT ![r][p] = "established"]
      /\ Message(r, p).type \in Handshakes
  BY DEF HandleEstablishRequest, HandleEstablishResponse, Establish, Receives, Message, Handshakes
<1>4. channel'[r][p] = "established" /\ \A q \in Repos \ {p} : channel'[r][q] = channel[r][q]
  BY <1>1, <1>3 DEF Typed, TypeOK
<1>5. Link(r, p) \in up
  BY <1>2 DEF HandshakeInv, Handshake, HandshakeOf
<1>6. DataOf(Message(r, p)) = {} /\ Message(r, p).type # "reply"
  BY <1>3 DEF DataOf, Handshakes
<1> DEFINE F == {m \in Fine(r, p)' : m.type \in Dataless}
<1>7. DocToSync(r, p) \in Seq(F) /\ AllDocsToSync(r, p) \in Seq(F)
  <2> DEFINE all   == <<SyncRequest(Version(r), TRUE)>>
             since == <<SyncRequest(awareness[r][p].version, TRUE)>>
  <2>1. r \in docs => all \in Seq(F)
    <3>1. Version(r) \subseteq oplog'[r] /\ Version(r) \in SUBSET Ops /\ docs' = docs
      BY <1>1, <1>3, VersionType DEF Version, Applied, Typed
    <3>2. r \in docs => SyncRequest(Version(r), TRUE) \in F
      BY <3>1, FineRequest DEF Dataless, SyncRequest
    <3> HIDE DEF F
    <3> QED BY <3>2, OneIsSeq
  <2>2. r \in docs /\ awareness[r][p].status = "synced" => since \in Seq(F)
    <3>1. awareness[r][p].version \in SUBSET Ops /\ docs' = docs
      BY <1>1, <1>3 DEF Typed, TypeOK, Awareness
    <3>2. awareness[r][p].status = "synced" => awareness[r][p].version \subseteq oplog'[r]
      BY <1>3 DEF Synchronous, Pair, Believed
    <3>3. r \in docs /\ awareness[r][p].status = "synced" =>
            SyncRequest(awareness[r][p].version, TRUE) \in F
      BY <3>1, <3>2, FineRequest DEF Dataless, SyncRequest
    <3> HIDE DEF F
    <3> QED BY <3>3, OneIsSeq
  <2>3. <<>> \in Seq(F)
    BY EmptySeq
  <2>4. /\ r \notin docs => DocToSync(r, p) = <<>> /\ AllDocsToSync(r, p) = <<>>
        /\ DocToSync(r, p) \in {<<>>, all, since} /\ AllDocsToSync(r, p) \in {<<>>, all}
        /\ DocToSync(r, p) = since =>
             DocToSync(r, p) \in {<<>>, all} \/ awareness[r][p].status = "synced"
    BY DEF DocToSync, ChangedDocToSync, AllDocsToSync
  <2> HIDE DEF F, all, since
  <2> QED BY <2>1, <2>2, <2>3, <2>4
<1>8. PICK msgs \in Seq(F) : Handled(r, p, SendTo(p, msgs))
  <2>1. Welcome(r, p) \in Seq(F)
    <3>1. EstablishResponse \in F
      BY FinePlain DEF Dataless, Handshakes, EstablishResponse
    <3> HIDE DEF F
    <3> QED BY <1>7, <3>1, OneIsSeq, ConcatProperties DEF Welcome
  <2> QED BY <1>7, <2>1 DEF HandleEstablishRequest, HandleEstablishResponse
<1>9. /\ msgs \in Seq(Fine(r, p)') /\ msgs \in Seq(Messages(made))
      /\ \A i \in 1 .. Len(msgs) : msgs[i].type \in Dataless
  <2>1. F \subseteq Fine(r, p)' /\ F \subseteq Messages(made)
    BY <1>2 DEF Fine
  <2>2. \A m \in F : m.type \in Dataless
    OBVIOUS
  <2> HIDE DEF F
  <2> QED BY <1>8, <2>1, <2>2, SeqMonotonic, ElementOfSeq
<1>10. SendsWell(r, p, msgs)
  <2>1. Pair(r, p)
    BY DEF Synchronous
  <2> QED BY <1>2, <1>3, <1>4, <1>5, <1>9, <2>1, DatalessSends
<1> QED BY <1>2, <1>3, <1>4, <1>6, <1>8, <1>9, <1>10, AnswerKeeps

(* An answer to who wants what w lacks of v, which is all that r has.      *)
LEMMA AnswerSends ==
  ASSUME NEW r \in Repos, NEW p \in Repos \ {r}, NEW v, NEW w, NEW m,
         oplog'[r] = v, \A o \in v : deps'[o] \subseteq v, w \subseteq oplog[p],
         m \in Fine(r, p)', DataOf(m) = v \ w,
         m.type = "reply" \/ r \in subs[p],
         channel'[r][p] = "established", Link(r, p) \in up', p \in docs',
         awareness'[r][p].status = "synced" => awareness'[r][p].version = v
  PROVE  SendsWell(r, p, <<m>>)
<1> DEFINE s   == <<m>>
           has == oplog[p] \cup Carried(net[r][p])
<1>1. /\ \A i \in 1 .. Len(s) : s[i] = m
      /\ Carried(s) = DataOf(m)
      /\ m.type = "reply" => Introduces(s)
  BY OneMessage
<1>2. s \in Seq(Fine(r, p)')
  BY OneIsSeq
<1>3. v \subseteq oplog[p] \cup DataOf(m)
  OBVIOUS
<1>4. Causal(s, has, deps')
  <2>1. \A o \in DataOf(m) : deps'[o] \subseteq has \cup DataOf(m)
    BY <1>3
  <2> HIDE DEF has
  <2> QED BY <2>1, OneMessage
<1>5. \A i \in 1 .. Len(s) : s[i].type \in {"update", "sync-response"} => r \in subs[p]
  BY <1>1
<1> HIDE DEF s
<1>6. SendsWell(r, p, s)
  BY <1>1, <1>2, <1>3, <1>4, <1>5 DEF SendsWell, has
<1> QED BY <1>6 DEF s

(* What r reads from an established peer.                                  *)
LEMMA ReadFacts ==
  ASSUME HandshakeInv, Synchronous, NEW r \in Repos, NEW p \in Repos \ {r}, net[p][r] # <<>>
  PROVE  LET m == Message(r, p)
         IN /\ Link(r, p) \in up
            /\ DataOf(m) \subseteq oplog[p]
            /\ m.type = "sync-response" => p \in subs[r] /\ DataOf(m) = m.offer.data
            /\ m.type = "update" =>
                 p \in subs[r] /\ r \in subs[p] /\ r \in docs /\ DataOf(m) = m.data
            /\ m.type = "sync-request" => m.bidirectional
            /\ m.type = "reply" => r \in subs[p] /\ DataOf(m) = m.offer.data
            /\ m.type \in {"sync-request", "reply"} =>
                 m.wants \subseteq oplog[p] /\ p \in docs
            /\ m.type \in {"sync-response", "reply"} =>
                 /\ m.offer.version \subseteq oplog[p]
                 /\ m.offer.status # "data" =>
                      m.offer.data = {} /\ m.offer.version \subseteq oplog[r]
            /\ m.type \in {"sync-request", "new-doc"} => DataOf(m) = {}
<1> DEFINE m == Message(r, p)
<1>1. Typed
  BY DEF HandshakeInv
<1>2. m \in Fine(p, r) /\ (m.type \in {"update", "sync-response"} => p \in subs[r])
  BY <1>1, NextRead
<1>3. Link(r, p) \in up
  BY DEF HandshakeInv, Handshake, HandshakeOf
<1>4. r \in subs[p] => r \in docs
  BY DEF Synchronous, Pair, Connected
<1> HIDE DEF m
<1>5. m.type \in {"sync-response", "reply"} => m.offer.status \in {"up-to-date", "data"}
  BY <1>2 DEF Fine, Messages, Offers, Handshakes
<1> QED BY <1>2, <1>3, <1>4, <1>5 DEF Fine, DataOf, m

LEMMA RequestKeeps ==
  ASSUME HandshakeInv, Synchronous, NEW r \in Repos, NEW p \in Repos \ {r},
         HandleSyncRequest(r, p)
  PROVE  Synchronous'
<1> DEFINE m == Message(r, p)
           v == Version(r)
           answer == Reply(v, m.wants)
<1>1. Typed /\ v \in SUBSET made /\ v \in SUBSET Ops
  BY VersionType DEF HandshakeInv, Typed
<1>2. /\ Grows /\ Frame(r) /\ net[p][r] # <<>> /\ UNCHANGED <<up, made, deps>>
      /\ \A q \in Repos \ {p} : q \in subs'[r] <=> q \in subs[r]
  BY <1>1, ReceiveChanges DEF Receive
<1>3. /\ UNCHANGED <<oplog, channel>> /\ m.type = "sync-request"
      /\ channel[r][p] = "established" /\ docs' = docs \cup {r}
      /\ subs' = [subs EXCEPT ![r] = @ \cup {p}]
      /\ awareness' = [awareness EXCEPT ![r][p] = Pending]
      /\ Handled(r, p, SendTo(p, <<Answer(v, m)>>))
  BY DEF HandleSyncRequest, ReceivesEstablished, Receives, Create, Subscribe, Message, Believe
<1>4. /\ p \in subs'[r] /\ awareness'[r][p] = Pending
      /\ \A q \in Repos \ {p} : awareness'[r][q] = awareness[r][q]
  BY <1>1, <1>3 DEF Typed, TypeOK
<1>5. /\ m.bidirectional /\ m.wants \subseteq oplog[p] /\ p \in docs /\ Link(r, p) \in up
      /\ DataOf(m) = {}
  BY <1>2, <1>3, ReadFacts
<1>6. Answer(v, m) = answer
  BY <1>5 DEF Answer
<1>7. v = oplog[r] /\ \A o \in v : deps[o] \subseteq v
  BY DEF Synchronous, Whole, Version, Applied
<1> HIDE DEF m, v
<1>8. answer \in Fine(r, p)' /\ DataOf(answer) = v \ m.wants /\ answer.type = "reply"
  <2>1. answer \in Fine(r, p)'
    BY <1>1, <1>2, <1>3, <1>4, <1>5, <1>7, FineReply
  <2>2. answer.type = "reply" /\ DataOf(answer) = v \ m.wants
    BY OfferFacts DEF Reply, DataOf
  <2> QED BY <2>1, <2>2
<1> HIDE DEF answer
<1>9. SendsWell(r, p, <<answer>>)
  <2>1. awareness'[r][p].status # "synced"
    BY <1>4 DEF Pending
  <2> QED BY <1>2, <1>3, <1>5, <1>7, <1>8, <2>1, AnswerSends
<1>10. <<answer>> \in Seq(Messages(made))
  <2>1. answer \in Messages(made)
    BY <1>2, <1>8 DEF Fine
  <2> QED BY <2>1, OneIsSeq
<1>11. Handled(r, p, SendTo(p, <<answer>>))
  BY <1>3, <1>6
<1> DEFINE msgs == <<answer>>
<1> HIDE DEF msgs
<1> QED BY <1>2, <1>3, <1>4, <1>5, <1>9, <1>10, <1>11, AnswerKeeps DEF m, msgs

LEMMA NewDocKeeps ==
  ASSUME HandshakeInv, Synchronous, NEW r \in Repos, NEW p \in Repos \ {r},
         HandleNewDoc(r, p)
  PROVE  Synchronous'
<1> DEFINE m == Message(r, p)
           v == Version(r)
           request == SyncRequest(v, TRUE)
<1>1. Typed /\ v \in SUBSET made /\ v \in SUBSET Ops /\ v \subseteq oplog[r]
  BY VersionType DEF HandshakeInv, Typed, Version, Applied
<1>2. /\ Grows /\ Frame(r) /\ net[p][r] # <<>> /\ UNCHANGED <<up, made, deps>>
      /\ \A q \in Repos \ {p} : q \in subs'[r] <=> q \in subs[r]
  BY <1>1, ReceiveChanges DEF Receive
<1>3. /\ UNCHANGED <<oplog, channel, subs>> /\ m.type = "new-doc"
      /\ docs' = docs \cup {r}
      /\ awareness' = [awareness EXCEPT ![r][p] = Pending]
      /\ Handled(r, p, SendTo(p, <<request>>))
  BY DEF HandleNewDoc, ReceivesEstablished, Receives, Create, Message, Believe
<1>4. /\ awareness'[r][p] = Pending
      /\ \A q \in Repos \ {p} : awareness'[r][q] = awareness[r][q]
  BY <1>1, <1>3 DEF Typed, TypeOK
<1>5. DataOf(m) = {}
  BY <1>3 DEF DataOf
<1> HIDE DEF m, v
<1>6. request \in Fine(r, p)' /\ request.type \in Dataless
  BY <1>1, <1>3, FineRequest DEF Dataless, SyncRequest
<1>7. request \in Messages(made)
  BY <1>2, <1>6 DEF Fine
<1> HIDE DEF request
<1> DEFINE msgs == <<request>>
<1>8. /\ msgs \in Seq(Fine(r, p)') /\ msgs \in Seq(Messages(made))
      /\ \A i \in 1 .. Len(msgs) : msgs[i].type \in Dataless
  BY <1>6, <1>7, OneIsSeq, OneMessage
<1>9. Handled(r, p, SendTo(p, msgs))
  BY <1>3
<1> HIDE DEF msgs
<1>10. SendsWell(r, p, msgs)
  <2>1. Pair(r, p) /\ awareness'[r][p].status # "synced"
    BY <1>4 DEF Synchronous, Pending
  <2> QED BY <1>2, <1>3, <1>8, <2>1, DatalessSends
<1> QED BY <1>2, <1>3, <1>4, <1>5, <1>8, <1>9, <1>10, AnswerKeeps DEF m

(* An import from a peer that has subscribed before, answered by nothing.  *)
LEMMA ImportFromSubscriber ==
  ASSUME HandshakeInv, Synchronous, NEW r \in Repos, NEW p \in Repos \ {r}, net[p][r] # <<>>,
         Import(r, p, DataOf(Message(r, p)), <<>>), p \in subs[r],
         Grows, Frame(r), UNCHANGED <<made, deps, channel, up>>, subs' = subs,
         Message(r, p).type # "reply", DataOf(Message(r, p)) \subseteq oplog[p]
  PROVE  Synchronous'
<1> DEFINE S == DataOf(Message(r, p))
           v == Applied(oplog[r] \cup S)
           none == <<>>
<1>1. Typed
  BY DEF HandshakeInv
<1>2. v = oplog[r] \cup S /\ oplog'[r] = v /\ awareness'[r][p] = Synced(v)
  <2>1. v = oplog[r] \cup S
    BY <1>1, NextRead
  <2>2. Imported(r, p, S, v, none)
    BY <1>1, ImportChanges
  <2> HIDE DEF v
  <2> QED BY <2>1, <2>2 DEF Imported
<1> HIDE DEF v, S
<1>3. SendsWell(r, p, none)
  <2> DEFINE has == oplog[p] \cup Carried(net[r][p])
  <2>1. /\ oplog[r] \subseteq has /\ channel[r][p] = "established" /\ p \in docs
        /\ r \in subs[p] \/ Introduces(net[r][p])
        /\ Link(r, p) \in up
    BY DEF Synchronous, Pair, Subscribed, Connected
  <2>2. v \subseteq has /\ docs \subseteq docs'
    BY <1>2, <2>1 DEF S, Grows
  <2>3. none \in Seq(Fine(r, p)') /\ Len(none) = 0 /\ Carried(none) = {} /\ Causal(none, has, deps')
    BY EmptySeq, NoMessage
  <2>4. awareness'[r][p].version = v
    BY <1>2 DEF Synced
  <2>5. \A i \in 1 .. Len(none) : none[i].type \in {"update", "sync-response"} =>
          r \in subs[p] \/ Introduces(net[r][p])
    BY <2>3
  <2> HIDE DEF none
  <2> QED BY <1>2, <2>1, <2>2, <2>3, <2>4, <2>5 DEF SendsWell, has
<1>4. none \in Seq(Messages(made)) /\ Import(r, p, DataOf(Message(r, p)), none)
  BY EmptySeq
<1> HIDE DEF none
<1> QED BY <1>3, <1>4, ImportKeeps

LEMMA UpdateKeeps ==
  ASSUME HandshakeInv, Synchronous, NEW r \in Repos, NEW p \in Repos \ {r},
         HandleUpdate(r, p)
  PROVE  Synchronous'
<1> DEFINE m == Message(r, p)
<1>1. Typed
  BY DEF HandshakeInv
<1>2. /\ Grows /\ Frame(r) /\ net[p][r] # <<>> /\ UNCHANGED <<up, made, deps>>
  BY <1>1, ReceiveChanges DEF Receive
<1>3. m.type = "update" /\ UNCHANGED <<channel, subs>>
  BY DEF HandleUpdate, ReceivesEstablished, Receives, Message
<1>4. p \in subs[r] /\ r \in docs /\ DataOf(m) = m.data /\ DataOf(m) \subseteq oplog[p]
  BY <1>2, <1>3, ReadFacts
<1>5. Import(r, p, DataOf(m), <<>>)
  BY <1>4 DEF HandleUpdate
<1> QED BY <1>2, <1>3, <1>4, <1>5, ImportFromSubscriber

LEMMA ResponseKeeps ==
  ASSUME HandshakeInv, Synchronous, NEW r \in Repos, NEW p \in Repos \ {r},
         HandleSyncResponse(r, p)
  PROVE  Synchronous'
<1> DEFINE m == Message(r, p)
<1>1. Typed
  BY DEF HandshakeInv
<1>2. /\ Grows /\ Frame(r) /\ net[p][r] # <<>> /\ UNCHANGED <<up, made, deps>>
  BY <1>1, ReceiveChanges DEF Receive
<1>3. m.type = "sync-response" /\ UNCHANGED <<channel, subs>>
  BY DEF HandleSyncResponse, ReceivesEstablished, Receives, Message
<1>4. p \in subs[r] /\ DataOf(m) = m.offer.data /\ DataOf(m) \subseteq oplog[p]
  BY <1>2, <1>3, ReadFacts
<1>5. CASE m.offer.status = "data"
  <2>1. Import(r, p, DataOf(m), <<>>)
    BY <1>4, <1>5 DEF HandleSyncResponse
  <2> QED BY <1>2, <1>3, <1>4, <2>1, ImportFromSubscriber
<1>6. CASE m.offer.status # "data"
  <2> DEFINE w == m.offer.version
             none == <<>>
             has == oplog[p] \cup Carried(net[r][p])
  <2>1. /\ awareness' = [awareness EXCEPT ![r][p] = Synced(w)] /\ UNCHANGED oplog
        /\ Handled(r, p, Silence)
    BY <1>6 DEF HandleSyncResponse, Believe
  <2>2. w \subseteq oplog[p] /\ w \subseteq oplog[r] /\ m.offer.data = {}
    BY <1>2, <1>3, <1>6, ReadFacts
  <2> HIDE DEF w
  <2>3. awareness'[r][p] = Synced(w) /\ \A q \in Repos \ {p} : awareness'[r][q] = awareness[r][q]
    BY <1>1, <2>1 DEF Typed, TypeOK
  <2>4. SendsWell(r, p, none)
    <3>1. /\ channel[r][p] = "established" /\ p \in docs /\ Link(r, p) \in up
          /\ r \in subs[p] \/ Introduces(net[r][p])
          /\ oplog[r] \subseteq has
      BY <1>4 DEF Synchronous, Pair, Subscribed, Connected
    <3>2. none \in Seq(Fine(r, p)') /\ Len(none) = 0 /\ Carried(none) = {}
          /\ Causal(none, has, deps')
      BY EmptySeq, NoMessage
    <3>3. awareness'[r][p].version = w
      BY <2>3 DEF Synced
    <3>4. \A i \in 1 .. Len(none) : none[i].type \in {"update", "sync-response"} =>
            r \in subs[p] \/ Introduces(net[r][p])
      BY <3>2
    <3>5. docs \subseteq docs'
      BY <1>2 DEF Grows
    <3> HIDE DEF none
    <3> QED BY <1>2, <1>3, <2>1, <2>2, <3>1, <3>2, <3>3, <3>4, <3>5 DEF SendsWell, has
  <2>5. none \in Seq(Messages(made)) /\ Handled(r, p, SendTo(p, none))
    <3>1. SendTo(p, none) = Silence
      BY DEF SendTo, Silence
    <3> QED BY <2>1, <3>1, EmptySeq
  <2>6. DataOf(m) = {} /\ m.type # "reply"
    BY <1>3, <1>4, <2>2
  <2> HIDE DEF none, has
  <2> QED BY <1>2, <1>3, <2>1, <2>3, <2>4, <2>5, <2>6, AnswerKeeps
<1> QED BY <1>5, <1>6

LEMMA ReplyKeeps ==
  ASSUME HandshakeInv, Synchronous, NEW r \in Repos, NEW p \in Repos \ {r},
         HandleReply(r, p)
  PROVE  Synchronous'
<1> DEFINE m == Message(r, p)
           S == DataOf(m)
           v == Applied(oplog[r] \cup S)
           answer == SyncResponse(v, m.wants)
<1>1. Typed
  BY DEF HandshakeInv
<1>2. /\ Grows /\ Frame(r) /\ net[p][r] # <<>> /\ UNCHANGED <<up, made, deps>>
      /\ \A q \in Repos \ {p} : q \in subs'[r] <=> q \in subs[r]
  BY <1>1, ReceiveChanges DEF Receive
<1>3. /\ m.type = "reply" /\ UNCHANGED channel /\ channel[r][p] = "established"
      /\ subs' = [subs EXCEPT ![r] = @ \cup {p}]
  BY DEF HandleReply, ReceivesEstablished, Receives, Message, Subscribe
<1>4. /\ r \in subs[p] /\ S = m.offer.data /\ S \subseteq oplog[p]
      /\ m.wants \subseteq oplog[p] /\ p \in docs /\ Link(r, p) \in up
      /\ m.offer.status # "data" => m.offer.data = {}
  BY <1>2, <1>3, ReadFacts
<1>5. /\ v = oplog[r] \cup S /\ v \in SUBSET made
      /\ \A o \in oplog[r] \cup S : deps[o] \subseteq oplog[r] \cup S
  <2> DEFINE log == oplog[r] \cup S
  <2>1. /\ Applied(log) = log /\ log \in SUBSET made
        /\ \A o \in log : deps[o] \subseteq log
    BY <1>1, <1>2, NextRead
  <2> HIDE DEF S
  <2> QED BY <2>1
<1>6. p \in subs'[r] /\ docs \subseteq docs'
  BY <1>1, <1>2, <1>3 DEF Typed, TypeOK, Grows
<1>7. ASSUME oplog'[r] = v,
             awareness'[r][p].status = "synced" => awareness'[r][p].version = v
      PROVE  SendsWell(r, p, <<answer>>) /\ <<answer>> \in Seq(Messages(made))
  <2> HIDE DEF m, v, S
  <2>1. answer \in Fine(r, p)'
    <3>1. m.wants \subseteq oplog'[p]
      BY <1>2, <1>4 DEF Grows
    <3> QED BY <1>2, <1>5, <1>7, <3>1, FineResponse
  <2>2. answer.type = "sync-response" /\ DataOf(answer) = v \ m.wants
    BY OfferFacts DEF SyncResponse, DataOf
  <2>3. answer \in Messages(made)
    BY <1>2, <2>1 DEF Fine
  <2>4. \A o \in v : deps'[o] \subseteq v
    BY <1>2, <1>5
  <2> HIDE DEF answer
  <2>5. SendsWell(r, p, <<answer>>)
    BY <1>2, <1>3, <1>4, <1>6, <1>7, <2>1, <2>2, <2>4, AnswerSends
  <2> QED BY <2>3, <2>5, OneIsSeq
<1>8. CASE m.offer.status = "data"
  <2> DEFINE msgs == <<answer>>
  <2>1. Import(r, p, S, msgs)
    BY <1>4, <1>8 DEF HandleReply
  <2>2. oplog'[r] = v /\ awareness'[r][p] = Synced(v)
    <3>1. Imported(r, p, S, v, msgs)
      BY <1>1, <2>1, ImportChanges
    <3> HIDE DEF v
    <3> QED BY <1>5, <3>1 DEF Imported
  <2>3. awareness'[r][p].version = v
    BY <2>2 DEF Synced
  <2>4. SendsWell(r, p, msgs) /\ msgs \in Seq(Messages(made))
    BY <1>7, <2>2, <2>3
  <2> HIDE DEF msgs
  <2> QED BY <1>2, <1>3, <1>6, <2>1, <2>4, ImportKeeps
<1>9. CASE m.offer.status # "data"
  <2> DEFINE msgs == <<SyncResponse(Version(r), m.wants)>>
  <2>1. /\ awareness' = [awareness EXCEPT ![r][p] = Pending] /\ UNCHANGED oplog
        /\ Handled(r, p, SendTo(p, msgs))
    BY <1>9 DEF HandleReply, Believe
  <2>2. S = {}
    BY <1>4, <1>9
  <2>3. Version(r) = v /\ v = oplog'[r]
    <3>1. oplog[r] \cup S = oplog[r]
      BY <2>2
    <3> HIDE DEF S
    <3> QED BY <1>5, <2>1, <3>1 DEF Version
  <2>4. msgs = <<answer>>
    BY <2>3
  <2>5. /\ awareness'[r][p] = Pending
        /\ \A q \in Repos \ {p} : awareness'[r][q] = awareness[r][q]
    BY <1>1, <2>1 DEF Typed, TypeOK
  <2>6. awareness'[r][p].status # "synced"
    BY <2>5 DEF Pending
  <2>7. SendsWell(r, p, msgs) /\ msgs \in Seq(Messages(made))
    BY <1>7, <2>3, <2>4, <2>6
  <2> HIDE DEF msgs
  <2> QED BY <1>2, <1>3, <1>6, <2>1, <2>2, <2>5, <2>7, AnswerKeeps
<1> QED BY <1>8, <1>9

(* A step of r that only sends, and only to those it has established.      *)
LEMMA SendingKeeps ==
  ASSUME Typed, Synchronous, Grows, NEW r \in Repos, Frame(r), NEW out, net' = Sent(r, out),
         \A q \in Repos : out[q] # <<>> => channel[r][q] = "established",
         Whole(r)', \A q \in Repos \ {r} : SendsWell(r, q, out[q])
  PROVE  Synchronous'
<1>1. net \in [Repos -> [Repos -> Seq(Messages(made))]]
  BY DEF Typed, NetType
<1>2. ASSUME NEW x \in Repos, NEW y \in Repos \ {x}
      PROVE  net'[x][y] = IF x = r THEN net[x][y] \o out[y] ELSE net[x][y]
  <2>1. net'[x][y] = IF x = r /\ Link(r, y) \in up THEN net[x][y] \o out[y] ELSE net[x][y]
    BY <1>1 DEF Sent
  <2>2. x = r => Link(r, y) \in up \/ out[y] = <<>>
    BY DEF Synchronous, Pair, Connected
  <2>3. net[x][y] \o <<>> = net[x][y]
    BY <1>1, ConcatEmptySeq
  <2> QED BY <2>1, <2>2, <2>3
<1> QED BY <1>2, AllSent

LEMMA EnsureKeeps ==
  ASSUME HandshakeInv, Synchronous, NEW r \in Repos, DocEnsure(r)
  PROVE  Synchronous'
<1> DEFINE m   == SyncRequest({}, TRUE)
           ask == <<m>>
           out == [q \in Repos |-> IF q \in Established(r) THEN ask ELSE <<>>]
<1>1. Typed
  BY DEF HandshakeInv
<1>2. /\ net' = Sent(r, out) /\ docs' = docs \cup {r}
      /\ UNCHANGED <<oplog, channel, subs, awareness, up, made, deps>>
  BY DEF DocEnsure, Create, opVars
<1>3. Grows /\ Frame(r)
  BY <1>2 DEF Grows, Frame
<1>4. Whole(r)'
  BY <1>2 DEF Synchronous, Whole
<1>5. \A q \in Repos : m \in Fine(r, q)'
  BY <1>2, FineRequest
<1>6. m.type \in Dataless
  BY DEF SyncRequest, Dataless
<1> HIDE DEF m
<1>7. \A q \in Repos : ask \in Seq(Fine(r, q)') /\ <<>> \in Seq(Fine(r, q)')
  BY <1>5, OneIsSeq, EmptySeq
<1>8. /\ \A i \in 1 .. Len(ask) : ask[i].type \in Dataless
      /\ \A i \in 1 .. Len(<<>>) : <<>>[i].type \in Dataless
  BY <1>6, OneMessage, NoMessage
<1> HIDE DEF ask
<1>9. ASSUME NEW q \in Repos \ {r}
      PROVE  SendsWell(r, q, out[q])
  <2> DEFINE msgs == out[q]
  <2>1. msgs \in Seq(Fine(r, q)') /\ \A i \in 1 .. Len(msgs) : msgs[i].type \in Dataless
    BY <1>7, <1>8
  <2>2. Pair(r, q)
    BY DEF Synchronous
  <2> HIDE DEF msgs
  <2>3. SendsWell(r, q, msgs)
    BY <1>2, <1>3, <2>1, <2>2, DatalessSends
  <2> QED BY <2>3 DEF msgs
<1>10. \A q \in Repos : out[q] # <<>> => channel[r][q] = "established"
  BY DEF Established
<1> HIDE DEF out
<1> QED BY <1>1, <1>2, <1>3, <1>4, <1>9, <1>10, SendingKeeps

LEMMA ChangeKeeps ==
  ASSUME HandshakeInv, Synchronous, NEW r \in Repos, NEW o \in Ops, LocalDocChange(r, o)
  PROVE  Synchronous'
<1> DEFINE v     == Version(r) \cup {o}
           aw    == awareness[r]
           out   == Propagated(r, v, r, aw)
           after == AfterPropagation(r, v, r, aw)
<1>1. Typed
  BY DEF HandshakeInv
<1>2. /\ net' = Sent(r, out) /\ o \notin made /\ made' = made \cup {o}
      /\ deps' = [deps EXCEPT ![o] = Version(r)]
      /\ oplog' = [oplog EXCEPT ![r] = oplog[r] \cup {o}]
      /\ awareness' = [awareness EXCEPT ![r] = after]
      /\ UNCHANGED <<docs, channel, subs, up>>
  BY <1>1 DEF LocalDocChange, Typed, TypeOK
<1>3. Version(r) = oplog[r] /\ oplog[r] \in SUBSET made /\ \A q \in oplog[r] : deps[q] \subseteq oplog[r]
  BY <1>1 DEF Synchronous, Whole, Version, Applied, Typed, TypeOK
<1> HIDE DEF out, after
<1>4. /\ oplog'[r] = v /\ oplog[r] \subseteq v /\ v \in SUBSET made'
      /\ awareness'[r] = after
      /\ \A q \in made : deps'[q] = deps[q]
      /\ deps'[o] = oplog[r]
  BY <1>1, <1>2, <1>3 DEF Typed, TypeOK
<1>5. \A q \in v : deps'[q] \subseteq v
  BY <1>3, <1>4
<1>6. Grows /\ Frame(r)
  BY <1>1, <1>2, <1>4 DEF Grows, Frame, Typed, TypeOK
<1>7. Whole(r)'
  BY <1>4, <1>5 DEF Whole
<1> HIDE DEF v
<1>8. ASSUME NEW q \in Repos \ {r}
      PROVE  SendsWell(r, q, out[q])
  <2>1. Pair(r, q) /\ aw[q] = awareness[r][q] /\ q # r
    BY DEF Synchronous
  <2>2. awareness'[r][q] = AfterPropagation(r, v, r, aw)[q]
    BY <1>4 DEF after
  <2> HIDE DEF aw
  <2>3. SendsWell(r, q, Propagated(r, v, r, aw)[q])
    BY <1>1, <1>2, <1>4, <1>5, <1>6, <2>1, <2>2, PropagationSends
  <2> QED BY <2>3 DEF out
<1>9. \A q \in Repos : out[q] # <<>> => channel[r][q] = "established"
  BY PropagatedTo DEF out
<1> QED BY <1>1, <1>2, <1>6, <1>7, <1>8, <1>9, SendingKeeps

LEMMA ConnectKeeps ==
  ASSUME HandshakeInv, Synchronous, NEW r \in Repos, NEW p \in Repos \ {r}, Connect(r, p)
  PROVE  Synchronous'
<1> DEFINE Opening(x, y) == IF <<x, y>> \in Initiates THEN <<EstablishRequest>> ELSE <<>>
<1>1. Typed /\ net \in [Repos -> [Repos -> Seq(Messages(made))]]
  BY DEF HandshakeInv, Typed, NetType
<1>2. /\ Link(r, p) \notin up /\ up' = up \cup {Link(r, p)}
      /\ channel[r][p] = "none" /\ channel[p][r] = "none"
      /\ channel' = [channel EXCEPT ![r][p] = "connected", ![p][r] = "connected"]
      /\ net' = [net EXCEPT ![r][p] = Opening(r, p), ![p][r] = Opening(p, r)]
      /\ UNCHANGED <<docs, oplog, subs, awareness, made, deps>>
  BY DEF Connect, opVars
<1>3. Grows
  BY <1>2 DEF Grows
<1>4. \A x \in Repos : Whole(x)'
  BY <1>2 DEF Synchronous, Whole
<1> HIDE DEF Opening
<1>a. /\ channel'[r][p] = "connected" /\ channel'[p][r] = "connected"
      /\ \A x \in Repos : \A y \in Repos \ {x} :
           {x, y} # {r, p} => channel'[x][y] = channel[x][y]
  <2>1. channel \in [Repos -> [Repos -> ChannelStates]]
    BY <1>1 DEF Typed, TypeOK
  <2>2. channel' = [channel EXCEPT ![r][p] = "connected", ![p][r] = "connected"]
    BY <1>2
  <2> QED BY <2>1, <2>2, BothEnds
<1>b. /\ net'[r][p] = Opening(r, p) /\ net'[p][r] = Opening(p, r)
      /\ \A x \in Repos : \A y \in Repos \ {x} :
           {x, y} # {r, p} => net'[x][y] = net[x][y]
  <2> DEFINE a == Opening(r, p)
             b == Opening(p, r)
             S == Seq(Messages(made))
  <2>1. net \in [Repos -> [Repos -> S]] /\ net' = [net EXCEPT ![r][p] = a, ![p][r] = b]
    BY <1>1, <1>2
  <2> HIDE DEF a, b, S
  <2>2. /\ net'[r][p] = a /\ net'[p][r] = b
        /\ \A x \in Repos : \A y \in Repos \ {x} :
             {x, y} # {r, p} => net'[x][y] = net[x][y]
    BY <2>1, BothEnds
  <2> QED BY <2>2 DEF a, b
<1>5. ASSUME NEW x \in Repos, NEW y \in Repos \ {x}
      PROVE  Pair(x, y)'
  <2>1. Pair(x, y)
    BY DEF Synchronous
  <2>2. CASE {x, y} = {r, p}
    <3>1. (x = r /\ y = p) \/ (x = p /\ y = r)
      BY <2>2
    <3> DEFINE msgs == Opening(x, y)
    <3>a. /\ channel'[x][y] = "connected" /\ channel[x][y] = "none"
          /\ Link(x, y) = Link(r, p)
      BY <1>2, <1>a, <3>1 DEF Link
    <3>b. net'[x][y] = Opening(x, y)
      BY <1>b, <3>1
    <3>2. /\ channel'[x][y] = "connected" /\ channel[x][y] = "none"
          /\ net'[x][y] = msgs /\ Link(x, y) = Link(r, p)
      BY <3>a, <3>b
    <3>3. net[x][y] = <<>>
      BY <1>2, <3>1 DEF HandshakeInv, Handshake, HandshakeOf, Link
    <3> DEFINE F == Fine(x, y)'
    <3>4. EstablishRequest \in F /\ EstablishRequest.type \in Dataless
      BY FinePlain DEF EstablishRequest, Dataless, Handshakes
    <3>5. msgs \in Seq(F) /\ \A i \in 1 .. Len(msgs) : msgs[i].type \in Dataless
      <4> DEFINE e == EstablishRequest
      <4>1. e \in F /\ e.type \in Dataless
        BY <3>4
      <4>2. msgs = <<e>> \/ msgs = <<>>
        BY DEF Opening
      <4> HIDE DEF e, F, msgs
      <4>3. /\ <<e>> \in Seq(F) /\ <<>> \in Seq(F)
            /\ \A i \in 1 .. Len(<<e>>) : <<e>>[i].type \in Dataless
            /\ \A i \in 1 .. Len(<<>>) : <<>>[i].type \in Dataless
        BY <4>1, OneIsSeq, EmptySeq, OneMessage, NoMessage
      <4> QED BY <4>2, <4>3
    <3> HIDE DEF msgs, F
    <3>6. net'[x][y] = net[x][y] \o msgs
      BY <3>2, <3>3, <3>5, ConcatEmptySeq
    <3>7. y \notin subs[x]
      BY <2>1, <3>2 DEF Pair, Connected
    <3>8. Carried(msgs) = {} /\ Causal(msgs, oplog[y] \cup Carried(net[x][y]), deps')
      BY <3>5, DatalessQueue
    <3>9. \A i \in 1 .. Len(msgs) : msgs[i].type \notin {"update", "sync-response"}
      BY <3>5 DEF Dataless, Handshakes
    <3>10. Believed(x, y) /\ Link(x, y) \in up'
      BY <1>2, <2>1, <3>2 DEF Pair
    <3>11. SendsWell(x, y, msgs)
      BY <1>2, <3>5, <3>7, <3>8, <3>9, <3>10 DEF SendsWell, F, Believed
    <3> QED BY <1>3, <2>1, <3>6, <3>11, PairSent
  <2>3. CASE {x, y} # {r, p}
    <3>1. channel'[x][y] = channel[x][y] /\ net'[x][y] = net[x][y]
      BY <1>a, <1>b, <2>3
    <3> QED BY <1>2, <1>3, <2>1, <3>1, PairKept
  <2> QED BY <2>2, <2>3
<1> QED BY <1>4, <1>5 DEF Synchronous

-----------------------------------------------------------------------------
(* Undisturbed Repos are synchronous, whatever they do.                    *)
BeliefInv == HandshakeInv /\ (Undisturbed => Synchronous)

LEMMA InitSynchronous == Init => Synchronous
<1> SUFFICES ASSUME Init PROVE Synchronous
  OBVIOUS
<1>1. ASSUME NEW r \in Repos PROVE Whole(r)
  BY DEF Init, Whole
<1>2. ASSUME NEW p \in Repos, NEW r \in Repos \ {p} PROVE Pair(p, r)
  <2> DEFINE none == <<>>
  <2>1. /\ net[p][r] = none /\ channel[p][r] = "none" /\ subs[p] = {}
        /\ awareness[p][r] = Unknown
    BY DEF Init
  <2>2. /\ none \in Seq(Fine(p, r)) /\ Causal(none, oplog[r], deps)
        /\ Introduced(none, p, subs[r])
    BY EmptySeq, NoMessage DEF Introduced
  <2> HIDE DEF none
  <2>3. Connected(p, r) /\ Subscribed(p, r)
    BY <2>1 DEF Connected, Subscribed
  <2>4. Believed(p, r)
    BY <2>1 DEF Believed, Unknown
  <2>5. Queued(p, r)
    BY <2>1, <2>2 DEF Queued
  <2> QED BY <2>3, <2>4, <2>5 DEF Pair
<1> QED BY <1>1, <1>2 DEF Synchronous

LEMMA NextSynchronous ==
  ASSUME HandshakeInv, Synchronous, [Next]_vars, Undisturbed'
  PROVE  Synchronous'
<1>1. Typed
  BY DEF HandshakeInv
<1>2. ASSUME NEW r \in Repos, NEW p \in Repos \ {r}
      PROVE  ~ Break(r, p) /\ ~ Overtake(r, p) /\ ~ ChannelRemoved(r, p)
  <2>1. ~ Break(r, p) /\ ~ Overtake(r, p)
    BY <1>1 DEF Break, Overtake, Undisturbed, Typed, TypeOK
  <2>2. ~ ChannelRemoved(r, p)
    BY DEF ChannelRemoved, Synchronous, Pair, Connected
  <2> QED BY <2>1, <2>2
<1>3. ASSUME NEW r \in Repos
      PROVE  ~ Restart(r)
  BY <1>1 DEF Restart, Undisturbed, Typed, TypeOK
<1>4. ASSUME NEW r \in Repos, NEW p \in Repos \ {r}, Receive(r, p)
      PROVE  Synchronous'
  BY <1>4, EstablishKeeps, RequestKeeps, ResponseKeeps, ReplyKeeps, UpdateKeeps, NewDocKeeps
     DEF Receive
<1>5. CASE UNCHANGED vars
  <2>1. UNCHANGED <<docs, oplog, channel, subs, awareness, up, net, made, deps>>
    BY <1>5 DEF vars, repoVars, linkVars, opVars
  <2>2. Grows
    BY <2>1 DEF Grows
  <2>3. ASSUME NEW x \in Repos, NEW y \in Repos \ {x} PROVE Pair(x, y)'
    <3>1. Pair(x, y)
      BY DEF Synchronous
    <3> QED BY <2>1, <2>2, <3>1, PairKept
  <2>4. \A x \in Repos : Whole(x)'
    BY <2>1 DEF Synchronous, Whole
  <2> QED BY <2>3, <2>4 DEF Synchronous
<1> QED BY <1>2, <1>3, <1>4, <1>5, ConnectKeeps, EnsureKeeps, ChangeKeeps DEF Next

LEMMA Disturbances == Typed /\ [Next]_vars /\ Undisturbed' => Undisturbed
<1> SUFFICES ASSUME Typed, [Next]_vars, Undisturbed' PROVE Undisturbed
  OBVIOUS
<1> USE DEF Undisturbed, Typed, TypeOK
<1>1. ASSUME NEW r \in Repos, NEW p \in Repos \ {r},
             Connect(r, p) \/ Break(r, p) \/ ChannelRemoved(r, p) \/ Overtake(r, p)
      PROVE  Undisturbed
  BY <1>1 DEF Connect, Break, ChannelRemoved, Overtake
<1>2. ASSUME NEW r \in Repos, NEW p \in Repos \ {r}, Receive(r, p)
      PROVE  Undisturbed
  BY <1>2 DEF Receive, HandleEstablishRequest, HandleEstablishResponse, HandleSyncRequest,
     HandleSyncResponse, HandleReply, HandleUpdate, HandleNewDoc, ReceivesEstablished, Receives
<1>3. ASSUME NEW r \in Repos, DocEnsure(r) \/ Restart(r) \/ \E o \in Ops : LocalDocChange(r, o)
      PROVE  Undisturbed
  <2>1. ~ Restart(r)
    BY DEF Restart
  <2>2. DocEnsure(r) => UNCHANGED <<breaks, restarts, overtakes>>
    BY DEF DocEnsure
  <2>3. (\E o \in Ops : LocalDocChange(r, o)) => UNCHANGED <<breaks, restarts, overtakes>>
    BY DEF LocalDocChange
  <2> QED BY <1>3, <2>1, <2>2, <2>3
<1>4. CASE UNCHANGED vars
  BY <1>4 DEF vars
<1> QED BY <1>1, <1>2, <1>3, <1>4 DEF Next

LEMMA BeliefInvHolds == Spec => []BeliefInv
<1>1. HandshakeInv /\ (Undisturbed => Synchronous) /\ [Next]_vars =>
        (Undisturbed => Synchronous)'
  <2>1. HandshakeInv => Typed
    BY DEF HandshakeInv
  <2> QED BY <2>1, NextSynchronous, Disturbances
<1>2. HandshakeInv /\ (Undisturbed => Synchronous) => BeliefInv
  BY DEF BeliefInv
<1> QED BY <1>1, <1>2, InitSynchronous, HandshakeHolds, PTL DEF Spec

(* What is carried is what is in flight.                                   *)
LEMMA InFlightIsCarried ==
  ASSUME NEW r \in Repos, NEW p \in Repos
  PROVE  InFlight(r, p) = Carried(net[r][p])
BY DEF InFlight, Carried, CarriedUpTo

(* What propagateToPeers and the handlers of sync-response and update      *)
(* believe a peer has, it has or will read: an update computed from the    *)
(* belief leaves no gap, as long as no link breaks, no Repo restarts and   *)
(* no message overtakes another.                                           *)
THEOREM BeliefsAreSound == Spec => [](restarts = 0 /\ overtakes = 0 => AwarenessSound)
<1>1. BeliefInv => (restarts = 0 /\ overtakes = 0 => AwarenessSound)
  <2> SUFFICES ASSUME BeliefInv, restarts = 0, overtakes = 0, breaks = 0,
                      NEW r \in Repos, NEW p \in Repos \ {r},
                      awareness[r][p].status = "synced"
               PROVE  awareness[r][p].version \subseteq oplog[p] \cup InFlight(r, p)
    BY DEF AwarenessSound
  <2>1. Pair(r, p)
    BY DEF BeliefInv, Undisturbed, Synchronous
  <2> QED BY <2>1, InFlightIsCarried DEF Pair, Believed
<1> QED BY <1>1, BeliefInvHolds, PTL

(* No Repo holds an operation it cannot apply: what arrives first carries  *)
(* what the next depends on, under the same conditions.                    *)
THEOREM NoGaps == Spec => [](restarts = 0 /\ overtakes = 0 => CausallyComplete)
<1>1. BeliefInv => (restarts = 0 /\ overtakes = 0 => CausallyComplete)
  <2> SUFFICES ASSUME BeliefInv, restarts = 0, overtakes = 0, breaks = 0, NEW r \in Repos
               PROVE  oplog[r] = Version(r)
    BY DEF CausallyComplete
  <2>1. Whole(r)
    BY DEF BeliefInv, Undisturbed, Synchronous
  <2> QED BY <2>1 DEF Whole, Version, Applied
<1> QED BY <1>1, BeliefInvHolds, PTL

-----------------------------------------------------------------------------
(* Who has the document tells every neighbour.  p will have q among its    *)
(* subscribers: q asks or is asked, or one announces the document to the   *)
(* other, in a message that is on its way.                                 *)
InQueue(s) == {s[i] : i \in 1 .. Len(s)}

Asks == {"sync-request", "reply", "new-doc"}

Leads(p, q) ==
  \/ q \in subs[p]
  \/ \E m \in InQueue(net[q][p]) : m.type \in Asks
  \/ \E m \in InQueue(net[p][q]) : m.type \in {"sync-request", "new-doc"}

(* Data for p is on its way from x, or x was asked for all it has: p then  *)
(* tells the neighbours it knows nothing of.                               *)
Brings(m) == m.type \in {"sync-response", "reply"} /\ m.offer.status = "data"

WantsAll(m) == m.type \in {"sync-request", "reply"} /\ m.wants = {}

AwaitsFrom(p, x) ==
  \/ \E m \in InQueue(net[x][p]) : Brings(m)
  \/ \E m \in InQueue(net[p][x]) : WantsAll(m)

WillTell(p, q) ==
  /\ awareness[p][q].status = "unknown"
  /\ \E x \in Repos \ {p} : AwaitsFrom(p, x)

Told(p, q) ==
  p \in docs /\ channel[p][q] = "established" => Leads(p, q) \/ WillTell(p, q)

Met(p, q) == q \in known[p] => channel[p][q] = "established"

Blank(p) ==
  p \notin docs =>
    /\ oplog[p] = {} /\ subs[p] = {}
    /\ \A q \in Repos : awareness[p][q].status = "unknown"

Telling ==
  \A p \in Repos : Blank(p) /\ \A q \in Repos \ {p} : Told(p, q) /\ Met(p, q)

(* Messages in queues, read and sent.                                      *)
LEMMA InTail ==
  ASSUME NEW M, NEW s \in Seq(M), s # <<>>
  PROVE  InQueue(s) \subseteq {Head(s)} \cup InQueue(Tail(s))
<1> DEFINE k == Len(s)
           u == Tail(s)
<1>1. Head(s) = s[1] /\ k \in Nat /\ k >= 1 /\ Len(u) = k - 1
      /\ \A i \in 1 .. k - 1 : u[i] = s[i + 1]
  BY TailAt
<1> HIDE DEF k, u
<1>2. ASSUME NEW i \in 1 .. k
      PROVE  s[i] \in {Head(s)} \cup InQueue(u)
  <2>1. CASE i = 1
    BY <1>1, <2>1
  <2>2. CASE i # 1
    <3>1. i - 1 \in 1 .. k - 1 /\ (i - 1) + 1 = i
      BY <1>1, <2>2
    <3>2. u[i - 1] = s[i]
      BY <1>1, <3>1
    <3> QED BY <1>1, <3>1, <3>2 DEF InQueue
  <2> QED BY <2>1, <2>2
<1> QED BY <1>2 DEF InQueue, k, u

LEMMA InConcat ==
  ASSUME NEW M, NEW s \in Seq(M), NEW t \in Seq(M)
  PROVE  InQueue(s) \subseteq InQueue(s \o t) /\ InQueue(t) \subseteq InQueue(s \o t)
<1> DEFINE k == Len(s)
           l == Len(t)
           u == s \o t
<1>1. /\ k \in Nat /\ l \in Nat /\ Len(u) = k + l
      /\ \A i \in 1 .. k : u[i] = s[i]
      /\ \A i \in 1 .. l : u[k + i] = t[i]
  BY ConcatAt
<1> HIDE DEF k, l, u
<1>2. /\ \A i \in 1 .. k : i \in 1 .. k + l
      /\ \A i \in 1 .. l : k + i \in 1 .. k + l
  BY <1>1
<1> QED BY <1>1, <1>2 DEF InQueue, k, l, u

LEMMA InShort ==
  /\ InQueue(<<>>) = {}
  /\ \A m : m \in InQueue(<<m>>)
<1>1. Len(<<>>) = 0
  OBVIOUS
<1>2. ASSUME NEW m PROVE m \in InQueue(<<m>>)
  <2> DEFINE s == <<m>>
  <2>1. Len(s) = 1 /\ s[1] = m
    OBVIOUS
  <2> HIDE DEF s
  <2>2. m \in InQueue(s)
    BY <2>1 DEF InQueue
  <2> QED BY <2>2 DEF s
<1> QED BY <1>1, <1>2 DEF InQueue

(* Every message that is on its way stays on its way, but lost.            *)
OnlyLoses(lost) ==
  \A x, y \in Repos : \A m \in InQueue(net[x][y]) :
    m \in InQueue(net'[x][y]) \/ <<x, y, m>> = lost

LEMMA SentArrives ==
  ASSUME Typed, made \subseteq made', NEW r \in Repos,
         NEW out \in [Repos -> Seq(Messages(made'))], net' = Sent(r, out)
  PROVE  /\ \A x, y \in Repos : InQueue(net[x][y]) \subseteq InQueue(net'[x][y])
         /\ \A q \in Repos : Link(r, q) \in up => InQueue(out[q]) \subseteq InQueue(net'[r][q])
<1> DEFINE M == Messages(made')
<1>1. \A x, y \in Repos : net[x][y] \in Seq(M)
  <2>1. Seq(Messages(made)) \subseteq Seq(M)
    BY MessagesGrow, SeqMonotonic
  <2> HIDE DEF M
  <2> QED BY <2>1 DEF Typed, NetType
<1>2. ASSUME NEW x \in Repos, NEW y \in Repos
      PROVE  net'[x][y] = IF x = r /\ Link(r, y) \in up THEN net[x][y] \o out[y] ELSE net[x][y]
  BY DEF Sent, Typed, NetType
<1> HIDE DEF M
<1>3. \A x, y \in Repos : /\ InQueue(net[x][y]) \subseteq InQueue(net[x][y] \o out[y])
                          /\ InQueue(out[y]) \subseteq InQueue(net[x][y] \o out[y])
  <2>1. \A y \in Repos : out[y] \in Seq(M)
    BY DEF M
  <2> QED BY <1>1, <2>1, InConcat
<1> QED BY <1>2, <1>3

LEMMA HandledArrives ==
  ASSUME Typed, NEW r \in Repos, NEW p \in Repos \ {r}, net[p][r] # <<>>,
         NEW out \in [Repos -> Seq(Messages(made))], Handled(r, p, out)
  PROVE  /\ OnlyLoses(<<p, r, Message(r, p)>>)
         /\ \A q \in Repos : Link(r, q) \in up => InQueue(out[q]) \subseteq InQueue(net'[r][q])
<1> DEFINE M == Messages(made)
<1>1. net \in [Repos -> [Repos -> Seq(M)]] /\ out \in [Repos -> Seq(M)]
  BY DEF Typed, NetType
<1> HIDE DEF M
<1>2. InFlightAfter(r, p, out)
  BY <1>1, HandledType
<1>3. \A x, y \in Repos : /\ InQueue(net[x][y]) \subseteq InQueue(net[x][y] \o out[y])
                          /\ InQueue(out[y]) \subseteq InQueue(net[x][y] \o out[y])
  <2>1. \A x, y \in Repos : net[x][y] \in Seq(M) /\ out[y] \in Seq(M)
    BY <1>1
  <2> QED BY <2>1, InConcat
<1>4. InQueue(net[p][r]) \subseteq {Message(r, p)} \cup InQueue(net'[p][r])
  <2>1. net[p][r] \in Seq(M) /\ net'[p][r] = Tail(net[p][r])
    BY <1>1, <1>2 DEF InFlightAfter
  <2> QED BY <2>1, InTail DEF Message
<1>5. \A x, y \in Repos : <<x, y>> # <<p, r>> => InQueue(net[x][y]) \subseteq InQueue(net'[x][y])
  BY <1>2, <1>3 DEF InFlightAfter
<1>6. \A q \in Repos : Link(r, q) \in up => InQueue(out[q]) \subseteq InQueue(net'[r][q])
  <2>1. \A q \in Repos : <<r, q>> # <<p, r>>
    OBVIOUS
  <2> QED BY <1>2, <1>3, <2>1 DEF InFlightAfter
<1> QED BY <1>4, <1>5, <1>6 DEF OnlyLoses

(* A step that reads no message but of a handshake leaves x's telling y as *)
(* it was.                                                                 *)
LEMMA ToldKept ==
  ASSUME NEW x \in Repos, NEW y \in Repos \ {x}, NEW lost, OnlyLoses(lost),
         lost[3].type \in Handshakes,
         Leads(x, y) \/ WillTell(x, y), x \in docs,
         subs[x] \subseteq subs'[x], awareness'[x][y].status = awareness[x][y].status
  PROVE  Leads(x, y)' \/ WillTell(x, y)'
<1>1. \A u, v \in Repos : \A m \in InQueue(net[u][v]) :
        m.type \notin Handshakes => m \in InQueue(net'[u][v])
  <2> SUFFICES ASSUME NEW u \in Repos, NEW v \in Repos, NEW m \in InQueue(net[u][v]),
                      m.type \notin Handshakes
               PROVE  m \in InQueue(net'[u][v])
    OBVIOUS
  <2>1. <<u, v, m>> # lost
    <3>1. <<u, v, m>>[3] = m
      OBVIOUS
    <3> QED BY <3>1
  <2> QED BY <2>1 DEF OnlyLoses
<1>2. Leads(x, y) => Leads(x, y)'
  BY <1>1 DEF Leads, Asks, Handshakes
<1>3. WillTell(x, y) => WillTell(x, y)'
  <2> SUFFICES ASSUME WillTell(x, y) PROVE WillTell(x, y)'
    OBVIOUS
  <2>1. PICK z \in Repos \ {x} : AwaitsFrom(x, z)
    BY DEF WillTell
  <2>2. AwaitsFrom(x, z)'
    BY <1>1, <2>1 DEF AwaitsFrom, Brings, WantsAll, Handshakes
  <2> QED BY <2>1, <2>2 DEF WillTell
<1> QED BY <1>2, <1>3

(* What r does with a message m of p that is not of a handshake.           *)
Responds(r, p, m) ==
  /\ docs' = docs \cup {r} /\ UNCHANGED <<channel, known>>
  /\ p \in subs'[r] \/ m.type = "new-doc"
  /\ m.type \in {"sync-request", "new-doc"} => \E a \in InQueue(net'[r][p]) : a.type \in Asks
  /\ m.type = "new-doc" => \E a \in InQueue(net'[r][p]) : a.type = "sync-request"
  /\ WantsAll(m) => \E a \in InQueue(net'[r][p]) : Brings(a)
  /\ r \notin docs => \E a \in InQueue(net'[r][p]) : WantsAll(a)
  /\ \A q \in Repos \ {r, p} :
       channel[r][q] = "established" /\ awareness[r][q].status = "unknown" =>
         \/ awareness'[r][q] = awareness[r][q] /\ ~ Brings(m)
         \/ q \in subs[r]
         \/ \E a \in InQueue(net'[r][q]) : a.type = "new-doc"

LEMMA RespondingTells ==
  ASSUME Telling, Grows, NEW r \in Repos, NEW p \in Repos \ {r}, Frame(r),
         NEW m, OnlyLoses(<<p, r, m>>), Responds(r, p, m)
  PROVE  Telling'
<1>1. ASSUME NEW x \in Repos PROVE Blank(x)'
  <2>1. x \notin docs' => x # r /\ x \notin docs
    BY DEF Responds
  <2> QED BY <2>1 DEF Telling, Blank, Frame
<1>2. ASSUME NEW x \in Repos, NEW y \in Repos \ {x} PROVE Met(x, y)'
  BY DEF Telling, Met, Responds
<1>3. \A x \in Repos : subs[x] \subseteq subs'[x]
  BY DEF Grows
<1>4. \A x, y \in Repos : \A a \in InQueue(net[x][y]) :
        a \in InQueue(net'[x][y]) \/ (x = p /\ y = r /\ a = m)
  BY DEF OnlyLoses
<1>5. p \in subs'[r] \/ \E a \in InQueue(net'[r][p]) : a.type = "sync-request"
  BY DEF Responds
<1>6. ASSUME NEW x \in Repos, NEW y \in Repos \ {x}, x \in docs', channel'[x][y] = "established"
      PROVE  Leads(x, y)' \/ WillTell(x, y)'
  <2>0. channel[x][y] = "established" /\ (x \in docs \/ x = r)
    BY <1>6 DEF Responds
  <2>1. CASE x = r /\ y = p
    BY <1>5, <2>1 DEF Leads
  <2>2. CASE x = r /\ y # p
    <3>1. Leads(r, y) => Leads(r, y)'
      BY <1>3, <1>4, <2>2 DEF Leads, Asks
    <3>2. \/ awareness'[r][y] = awareness[r][y] /\ ~ Brings(m)
          \/ awareness[r][y].status # "unknown"
          \/ Leads(r, y)'
      BY <1>3, <2>0, <2>2 DEF Responds, Leads
    <3>3. CASE x \notin docs
      <4>1. awareness[r][y].status = "unknown"
        BY <2>2, <3>3 DEF Telling, Blank
      <4>2. AwaitsFrom(r, p)'
        BY <2>2, <3>3 DEF Responds, AwaitsFrom
      <4> QED BY <2>2, <3>2, <4>1, <4>2 DEF WillTell
    <3>4. CASE x \in docs /\ WillTell(x, y)
      <4>1. PICK z \in Repos \ {r} : AwaitsFrom(r, z)
        BY <2>2, <3>4 DEF WillTell
      <4>2. awareness[r][y].status = "unknown"
        BY <2>2, <3>4 DEF WillTell
      <4>3. ~ Brings(m) => AwaitsFrom(r, z)'
        BY <1>4, <4>1 DEF AwaitsFrom
      <4> QED BY <2>2, <3>2, <4>2, <4>3 DEF WillTell
    <3> QED BY <2>0, <2>2, <3>1, <3>3, <3>4 DEF Telling, Told
  <2>3. CASE x # r
    <3>1. Leads(x, y) \/ WillTell(x, y)
      BY <2>0, <2>3 DEF Telling, Told
    <3>2. Leads(x, y) => Leads(x, y)'
      <4>1. m.type \in {"sync-request", "new-doc"} => \E a \in InQueue(net'[r][p]) : a.type \in Asks
        BY DEF Responds
      <4> QED BY <1>3, <1>4, <2>3, <4>1 DEF Leads
    <3>3. WillTell(x, y) => WillTell(x, y)'
      <4> SUFFICES ASSUME WillTell(x, y) PROVE WillTell(x, y)'
        OBVIOUS
      <4>1. PICK z \in Repos \ {x} : AwaitsFrom(x, z)
        BY DEF WillTell
      <4>2. AwaitsFrom(x, z)'
        <5>1. WantsAll(m) => \E a \in InQueue(net'[r][p]) : Brings(a)
          BY DEF Responds
        <5> QED BY <1>4, <2>3, <4>1, <5>1 DEF AwaitsFrom
      <4>3. awareness'[x][y] = awareness[x][y]
        BY <2>3 DEF Frame
      <4> QED BY <4>1, <4>2, <4>3 DEF WillTell
    <3> QED BY <3>1, <3>2, <3>3
  <2> QED BY <2>1, <2>2, <2>3
<1> QED BY <1>1, <1>2, <1>6 DEF Telling, Told

(* The handlers respond.                                                   *)
LEMMA AnswerArrives ==
  ASSUME Typed, NEW r \in Repos, NEW p \in Repos \ {r}, net[p][r] # <<>>, Link(r, p) \in up,
         NEW m \in Messages(made), Handled(r, p, SendTo(p, <<m>>))
  PROVE  OnlyLoses(<<p, r, Message(r, p)>>) /\ m \in InQueue(net'[r][p])
<1> DEFINE msgs == <<m>>
<1>1. msgs \in Seq(Messages(made)) /\ m \in InQueue(msgs)
  BY OneIsSeq, InShort
<1> HIDE DEF msgs
<1>2. /\ SendTo(p, msgs) \in [Repos -> Seq(Messages(made))]
      /\ SendTo(p, msgs)[p] = msgs
  BY <1>1, SendToType
<1>3. Handled(r, p, SendTo(p, msgs))
  BY DEF msgs
<1> QED BY <1>1, <1>2, <1>3, HandledArrives

LEMMA RequestResponds ==
  ASSUME HandshakeInv, Synchronous, Telling, NEW r \in Repos, NEW p \in Repos \ {r},
         HandleSyncRequest(r, p)
  PROVE  OnlyLoses(<<p, r, Message(r, p)>>) /\ Responds(r, p, Message(r, p))
<1> DEFINE m == Message(r, p)
           v == Version(r)
           answer == Reply(v, m.wants)
<1>1. Typed /\ v \in SUBSET made /\ v \in SUBSET Ops
  BY VersionType DEF HandshakeInv, Typed
<1>2. /\ UNCHANGED <<channel, known>> /\ m.type = "sync-request"
      /\ docs' = docs \cup {r} /\ net[p][r] # <<>>
      /\ subs' = [subs EXCEPT ![r] = @ \cup {p}]
      /\ awareness' = [awareness EXCEPT ![r][p] = Pending]
      /\ Handled(r, p, SendTo(p, <<Answer(v, m)>>))
  BY DEF HandleSyncRequest, ReceivesEstablished, Receives, Create, Subscribe, Message, Believe
<1>3. /\ p \in subs'[r]
      /\ \A q \in Repos \ {p} : awareness'[r][q] = awareness[r][q]
  BY <1>1, <1>2 DEF Typed, TypeOK
<1>4. m.bidirectional /\ Link(r, p) \in up
  BY <1>2, ReadFacts
<1>5. Answer(v, m) = answer
  BY <1>4 DEF Answer
<1>6. r \notin docs => v = {}
  BY DEF Telling, Blank, Version, Applied
<1> HIDE DEF m, v
<1>7. answer \in Messages(made)
  BY <1>1, ReplyType
<1>8. /\ answer.type = "reply" /\ answer.wants = v
      /\ m.wants = {} => answer.offer.status = "data"
  BY DEF Reply, Offer
<1> HIDE DEF answer
<1>9. OnlyLoses(<<p, r, m>>) /\ answer \in InQueue(net'[r][p])
  BY <1>1, <1>2, <1>4, <1>5, <1>7, AnswerArrives DEF m
<1>10. ~ Brings(m)
  BY <1>2 DEF Brings
<1>11. WantsAll(m) => Brings(answer)
  BY <1>8 DEF WantsAll, Brings
<1>12. r \notin docs => WantsAll(answer)
  BY <1>6, <1>8 DEF WantsAll
<1>13. answer.type \in Asks
  BY <1>8 DEF Asks
<1>14. Responds(r, p, m)
  BY <1>2, <1>3, <1>9, <1>10, <1>11, <1>12, <1>13 DEF Responds
<1> QED BY <1>9, <1>14 DEF m

LEMMA NewDocResponds ==
  ASSUME HandshakeInv, Synchronous, Telling, NEW r \in Repos, NEW p \in Repos \ {r},
         HandleNewDoc(r, p)
  PROVE  OnlyLoses(<<p, r, Message(r, p)>>) /\ Responds(r, p, Message(r, p))
<1> DEFINE m == Message(r, p)
           v == Version(r)
           request == SyncRequest(v, TRUE)
<1>1. Typed /\ v \in SUBSET Ops
  BY VersionType DEF HandshakeInv, Typed
<1>2. /\ UNCHANGED <<channel, known>> /\ m.type = "new-doc"
      /\ docs' = docs \cup {r} /\ net[p][r] # <<>>
      /\ awareness' = [awareness EXCEPT ![r][p] = Pending]
      /\ Handled(r, p, SendTo(p, <<request>>))
  BY DEF HandleNewDoc, ReceivesEstablished, Receives, Create, Message, Believe
<1>3. \A q \in Repos \ {p} : awareness'[r][q] = awareness[r][q]
  BY <1>1, <1>2 DEF Typed, TypeOK
<1>4. Link(r, p) \in up
  BY <1>2, ReadFacts
<1>5. r \notin docs => v = {}
  BY DEF Telling, Blank, Version, Applied
<1> HIDE DEF m, v
<1>6. request \in Messages(made) /\ request.type = "sync-request" /\ request.wants = v
  BY <1>1, RequestType DEF SyncRequest
<1> HIDE DEF request
<1>7. OnlyLoses(<<p, r, m>>) /\ request \in InQueue(net'[r][p])
  BY <1>1, <1>2, <1>4, <1>6, AnswerArrives DEF m
<1>8. ~ Brings(m) /\ ~ WantsAll(m)
  BY <1>2 DEF Brings, WantsAll
<1>9. (r \notin docs => WantsAll(request)) /\ request.type \in Asks
  BY <1>5, <1>6 DEF WantsAll, Asks
<1>10. Responds(r, p, m)
  BY <1>2, <1>3, <1>6, <1>7, <1>8, <1>9 DEF Responds
<1> QED BY <1>7, <1>10 DEF m

(* An import announces the document to whom r knows nothing of.            *)
LEMMA ImportTells ==
  ASSUME HandshakeInv, Synchronous, NEW r \in Repos, NEW p \in Repos \ {r}, net[p][r] # <<>>,
         NEW S \in SUBSET made, NEW toSource \in Seq(Messages(made)),
         Import(r, p, S, toSource), Link(r, p) \in up
  PROVE  /\ OnlyLoses(<<p, r, Message(r, p)>>)
         /\ InQueue(toSource) \subseteq InQueue(net'[r][p])
         /\ \A q \in Repos \ {r, p} :
              channel[r][q] = "established" /\ awareness[r][q].status = "unknown" =>
                q \in subs[r] \/ \E a \in InQueue(net'[r][q]) : a.type = "new-doc"
<1> DEFINE v    == Applied(oplog[r] \cup S)
           aw   == ImportBelief(r, p, v)
           sent == Propagated(r, v, p, aw)
           out  == ImportSends(r, p, v, toSource)
<1>1. Typed /\ v \in SUBSET made
  BY DEF HandshakeInv, Typed, TypeOK, Applied
<1>2. Imported(r, p, S, v, toSource)
  BY <1>1, ImportChanges
<1> HIDE DEF v
<1>3. Handled(r, p, out) /\ \A q \in Repos \ {p} : aw[q] = awareness[r][q]
  BY <1>2 DEF Imported
<1> HIDE DEF aw
<1>4. sent \in [Repos -> Seq(Messages(made))]
  BY <1>1, PropagatedType
<1>5. \A q \in Repos \ {r, p} :
        channel[r][q] = "established" /\ awareness[r][q].status = "unknown" /\ q \notin subs[r] =>
          sent[q] = <<NewDoc>>
  BY <1>3 DEF Propagated, Established, ShouldSync
<1>6. out = [sent EXCEPT ![p] = toSource]
  BY DEF ImportSends, aw
<1> HIDE DEF sent, out
<1>7. /\ out \in [Repos -> Seq(Messages(made))] /\ out[p] = toSource
      /\ \A q \in Repos \ {p} : out[q] = sent[q]
  BY <1>4, <1>6
<1>8. /\ OnlyLoses(<<p, r, Message(r, p)>>)
      /\ \A q \in Repos : Link(r, q) \in up => InQueue(out[q]) \subseteq InQueue(net'[r][q])
  BY <1>1, <1>3, <1>7, HandledArrives
<1>9. ASSUME NEW q \in Repos \ {r, p}, channel[r][q] = "established",
             awareness[r][q].status = "unknown", q \notin subs[r]
      PROVE  \E a \in InQueue(net'[r][q]) : a.type = "new-doc"
  <2> DEFINE n == NewDoc
             msgs == <<n>>
  <2>1. n.type = "new-doc" /\ n \in InQueue(msgs)
    BY InShort DEF NewDoc
  <2>2. out[q] = msgs
    BY <1>5, <1>7, <1>9
  <2>3. Link(r, q) \in up
    BY <1>9 DEF Synchronous, Pair, Connected
  <2> HIDE DEF n, msgs
  <2> QED BY <1>8, <2>1, <2>2, <2>3
<1> QED BY <1>7, <1>8, <1>9

LEMMA UpdateResponds ==
  ASSUME HandshakeInv, Synchronous, NEW r \in Repos, NEW p \in Repos \ {r},
         HandleUpdate(r, p)
  PROVE  OnlyLoses(<<p, r, Message(r, p)>>) /\ Responds(r, p, Message(r, p))
<1> DEFINE m == Message(r, p)
<1>1. /\ UNCHANGED <<channel, known, docs, subs>> /\ m.type = "update" /\ net[p][r] # <<>>
  BY DEF HandleUpdate, ReceivesEstablished, Receives, Message
<1>2. p \in subs[r] /\ r \in docs /\ Link(r, p) \in up
  BY <1>1, ReadFacts
<1>3. m.data \in SUBSET made
  BY <1>1, OfferedType DEF HandshakeInv
<1>4. Import(r, p, m.data, <<>>)
  BY <1>2 DEF HandleUpdate
<1> HIDE DEF m
<1>5. /\ OnlyLoses(<<p, r, m>>)
      /\ \A q \in Repos \ {r, p} :
           channel[r][q] = "established" /\ awareness[r][q].status = "unknown" =>
             q \in subs[r] \/ \E a \in InQueue(net'[r][q]) : a.type = "new-doc"
  BY <1>1, <1>2, <1>3, <1>4, ImportTells, EmptySeq DEF m
<1>6. Responds(r, p, m)
  BY <1>1, <1>2, <1>5 DEF Responds, WantsAll
<1> QED BY <1>5, <1>6 DEF m

LEMMA ResponseResponds ==
  ASSUME HandshakeInv, Synchronous, Telling, NEW r \in Repos, NEW p \in Repos \ {r},
         HandleSyncResponse(r, p)
  PROVE  OnlyLoses(<<p, r, Message(r, p)>>) /\ Responds(r, p, Message(r, p))
<1> DEFINE m == Message(r, p)
<1>1. /\ UNCHANGED <<channel, known, subs>> /\ m.type = "sync-response" /\ net[p][r] # <<>>
      /\ docs' = docs \cup {r} \/ docs' = docs
  BY DEF HandleSyncResponse, ReceivesEstablished, Receives, Message, Create
<1>2. p \in subs[r] /\ Link(r, p) \in up
  BY <1>1, ReadFacts
<1>3. r \in docs
  BY <1>2 DEF Telling, Blank
<1>4. m.offer.data \in SUBSET made /\ Typed
  BY <1>1, OfferedType DEF HandshakeInv
<1>5. OnlyLoses(<<p, r, m>>) /\ \A q \in Repos \ {r, p} :
        channel[r][q] = "established" /\ awareness[r][q].status = "unknown" =>
          \/ awareness'[r][q] = awareness[r][q] /\ ~ Brings(m)
          \/ q \in subs[r]
          \/ \E a \in InQueue(net'[r][q]) : a.type = "new-doc"
  <2>1. CASE m.offer.status = "data"
    <3>1. Import(r, p, m.offer.data, <<>>)
      BY <2>1 DEF HandleSyncResponse
    <3> HIDE DEF m
    <3> QED BY <1>1, <1>2, <1>4, <3>1, ImportTells, EmptySeq DEF m
  <2>2. CASE m.offer.status # "data"
    <3>1. /\ awareness' = [awareness EXCEPT ![r][p] = Synced(m.offer.version)]
          /\ Handled(r, p, Silence)
      BY <2>2 DEF HandleSyncResponse, Believe
    <3> HIDE DEF m
    <3>2. \A q \in Repos \ {p} : awareness'[r][q] = awareness[r][q]
      BY <1>4, <3>1 DEF Typed, TypeOK
    <3>3. Silence \in [Repos -> Seq(Messages(made))]
      BY EmptySeq DEF Silence
    <3>4. OnlyLoses(<<p, r, m>>)
      BY <1>1, <1>4, <3>1, <3>3, HandledArrives DEF m
    <3> QED BY <2>2, <3>2, <3>4 DEF Brings
  <2> QED BY <2>1, <2>2
<1> HIDE DEF m
<1>6. docs' = docs \cup {r}
  BY <1>1, <1>3
<1>7. Responds(r, p, m)
  BY <1>1, <1>2, <1>3, <1>5, <1>6 DEF Responds, WantsAll
<1> QED BY <1>5, <1>7 DEF m

LEMMA ReplyResponds ==
  ASSUME HandshakeInv, Synchronous, Telling, NEW r \in Repos, NEW p \in Repos \ {r},
         HandleReply(r, p)
  PROVE  OnlyLoses(<<p, r, Message(r, p)>>) /\ Responds(r, p, Message(r, p))
<1> DEFINE m == Message(r, p)
           S == m.offer.data
           v == Applied(oplog[r] \cup S)
<1>1. /\ UNCHANGED <<channel, known>> /\ m.type = "reply" /\ net[p][r] # <<>>
      /\ docs' = docs \cup {r} /\ subs' = [subs EXCEPT ![r] = @ \cup {p}]
  BY DEF HandleReply, ReceivesEstablished, Receives, Message, Create, Subscribe
<1>2. r \in subs[p] /\ Link(r, p) \in up
  BY <1>1, ReadFacts
<1>3. r \in docs
  BY <1>2 DEF Synchronous, Pair, Connected
<1>4. S \in SUBSET made /\ Typed
  BY <1>1, OfferedType DEF HandshakeInv
<1>5. v \in SUBSET made /\ Version(r) \in SUBSET made
  BY <1>4, VersionType DEF Applied, Typed, TypeOK
<1>6. p \in subs'[r]
  BY <1>1, <1>4 DEF Typed, TypeOK
<1>7. ASSUME NEW u \in SUBSET made
      PROVE  /\ SyncResponse(u, m.wants) \in Messages(made)
             /\ m.wants = {} => Brings(SyncResponse(u, m.wants))
  <2>1. SyncResponse(u, m.wants) \in Messages(made)
    BY ResponseType
  <2> QED BY <2>1 DEF SyncResponse, Offer, Brings
<1>8. /\ OnlyLoses(<<p, r, m>>)
      /\ m.wants = {} => \E a \in InQueue(net'[r][p]) : Brings(a)
      /\ \A q \in Repos \ {r, p} :
           channel[r][q] = "established" /\ awareness[r][q].status = "unknown" =>
             \/ awareness'[r][q] = awareness[r][q] /\ ~ Brings(m)
             \/ q \in subs[r]
             \/ \E a \in InQueue(net'[r][q]) : a.type = "new-doc"
  <2>1. CASE m.offer.status = "data"
    <3> DEFINE a == SyncResponse(v, m.wants)
               msgs == <<a>>
    <3>1. Import(r, p, S, msgs)
      BY <2>1 DEF HandleReply
    <3>2. a \in Messages(made) /\ (m.wants = {} => Brings(a))
      BY <1>5, <1>7
    <3> HIDE DEF m, S, a
    <3>3. msgs \in Seq(Messages(made)) /\ a \in InQueue(msgs)
      BY <3>2, OneIsSeq, InShort
    <3> HIDE DEF msgs
    <3>4. /\ OnlyLoses(<<p, r, m>>) /\ InQueue(msgs) \subseteq InQueue(net'[r][p])
          /\ \A q \in Repos \ {r, p} :
               channel[r][q] = "established" /\ awareness[r][q].status = "unknown" =>
                 q \in subs[r] \/ \E b \in InQueue(net'[r][q]) : b.type = "new-doc"
      BY <1>1, <1>2, <1>4, <3>1, <3>3, ImportTells DEF m
    <3> QED BY <3>2, <3>3, <3>4
  <2>2. CASE m.offer.status # "data"
    <3> DEFINE a == SyncResponse(Version(r), m.wants)
    <3>1. /\ awareness' = [awareness EXCEPT ![r][p] = Pending]
          /\ Handled(r, p, SendTo(p, <<a>>))
      BY <2>2 DEF HandleReply, Believe
    <3>2. a \in Messages(made) /\ (m.wants = {} => Brings(a))
      BY <1>5, <1>7
    <3> HIDE DEF m, a
    <3>3. OnlyLoses(<<p, r, m>>) /\ a \in InQueue(net'[r][p])
      BY <1>1, <1>2, <1>4, <3>1, <3>2, AnswerArrives DEF m
    <3>4. \A q \in Repos \ {p} : awareness'[r][q] = awareness[r][q]
      BY <1>4, <3>1 DEF Typed, TypeOK
    <3> QED BY <2>2, <3>2, <3>3, <3>4 DEF Brings
  <2> QED BY <2>1, <2>2
<1> HIDE DEF m
<1>9. Responds(r, p, m)
  BY <1>1, <1>3, <1>6, <1>8 DEF Responds, WantsAll
<1> QED BY <1>8, <1>9 DEF m

(* A step that reads no message but of a handshake and that leaves alone   *)
(* what those who have the document tell the others.                       *)
LEMMA TellingKept ==
  ASSUME Telling, NEW lost, OnlyLoses(lost), lost[3].type \in Handshakes,
         docs \subseteq docs', \A x \in Repos : subs[x] \subseteq subs'[x],
         \A x \in Repos : Blank(x)',
         \A x \in Repos : \A y \in Repos \ {x} :
           /\ Met(x, y)'
           /\ \/ channel'[x][y] # "established"
              \/ x \notin docs'
              \/ Leads(x, y)'
              \/ /\ channel[x][y] = "established" /\ x \in docs
                 /\ awareness'[x][y].status = awareness[x][y].status
  PROVE  Telling'
<1>1. ASSUME NEW x \in Repos, NEW y \in Repos \ {x}
      PROVE  Told(x, y)'
  <2>1. CASE /\ channel[x][y] = "established" /\ x \in docs
             /\ awareness'[x][y].status = awareness[x][y].status
    <3>1. Leads(x, y) \/ WillTell(x, y)
      BY <2>1 DEF Telling, Told
    <3>2. Leads(x, y)' \/ WillTell(x, y)'
      BY <2>1, <3>1, ToldKept
    <3> QED BY <3>2 DEF Told
  <2> QED BY <2>1 DEF Told
<1> QED BY <1>1 DEF Telling

LEMMA EstablishTells ==
  ASSUME HandshakeInv, Telling, NEW r \in Repos, NEW p \in Repos \ {r},
         HandleEstablishRequest(r, p) \/ HandleEstablishResponse(r, p)
  PROVE  Telling'
<1> DEFINE m == Message(r, p)
<1>1. Typed /\ net[p][r] # <<>> /\ Link(r, p) \in up
  BY DEF HandshakeInv, Handshake, HandshakeOf, HandleEstablishRequest, HandleEstablishResponse,
     Receives
<1>2. /\ m.type \in Handshakes /\ UNCHANGED <<docs, oplog, subs, awareness>>
      /\ channel' = [channel EXCEPT ![r][p] = "established"]
      /\ known' = [known EXCEPT ![r] = @ \cup {p}]
  BY DEF HandleEstablishRequest, HandleEstablishResponse, Receives, Message, Establish, Handshakes
<1> DEFINE request == SyncRequest(Version(r), TRUE)
           asked == <<request>>
<1>3. request \in Messages(made) /\ request.type = "sync-request" /\ request \in InQueue(asked)
      /\ asked \in Seq(Messages(made))
  BY <1>1, VersionType, RequestType, InShort DEF Typed, SyncRequest
<1>4. /\ r \in docs => AllDocsToSync(r, p) = asked
      /\ r \in docs /\ p \notin known[r] => DocToSync(r, p) = asked
  BY DEF AllDocsToSync, DocToSync
<1> HIDE DEF m, request, asked
<1>5. PICK msgs \in Seq(Messages(made)) :
        /\ Handled(r, p, SendTo(p, msgs))
        /\ r \in docs /\ p \notin known[r] => request \in InQueue(msgs)
  <2>1. CASE HandleEstablishRequest(r, p)
    <3> DEFINE first == <<EstablishResponse>>
               rest  == AllDocsToSync(r, p)
    <3>1. first \in Seq(Messages(made)) /\ rest \in Seq(Messages(made))
      BY <1>1, PlainType, OneIsSeq, RequestsType
    <3>2. Welcome(r, p) = first \o rest /\ Welcome(r, p) \in Seq(Messages(made))
      BY <1>1, RequestsType DEF Welcome
    <3> HIDE DEF first, rest
    <3>3. InQueue(rest) \subseteq InQueue(first \o rest)
      BY <3>1, InConcat
    <3>4. r \in docs => request \in InQueue(Welcome(r, p))
      BY <1>3, <1>4, <3>2, <3>3 DEF rest
    <3> QED BY <2>1, <3>2, <3>4 DEF HandleEstablishRequest
  <2>2. CASE HandleEstablishResponse(r, p)
    BY <1>1, <1>3, <1>4, <2>2, RequestsType DEF HandleEstablishResponse
  <2> QED BY <2>1, <2>2
<1>6. /\ OnlyLoses(<<p, r, m>>)
      /\ r \in docs /\ p \notin known[r] => request \in InQueue(net'[r][p])
  <2> DEFINE out == SendTo(p, msgs)
  <2>1. out \in [Repos -> Seq(Messages(made))] /\ out[p] = msgs /\ Handled(r, p, out)
    BY <1>5, SendToType
  <2> HIDE DEF out
  <2> QED BY <1>1, <1>5, <2>1, HandledArrives DEF m
<1>7. ASSUME NEW x \in Repos, NEW y \in Repos \ {x}
      PROVE  /\ Met(x, y)'
             /\ \/ channel'[x][y] # "established"
                \/ x \notin docs'
                \/ Leads(x, y)'
                \/ /\ channel[x][y] = "established" /\ x \in docs
                   /\ awareness'[x][y].status = awareness[x][y].status
  <2>1. Met(x, y)
    BY DEF Telling
  <2>2. CASE x = r /\ y = p
    <3>1. channel'[x][y] = "established"
      BY <1>1, <1>2, <2>2 DEF Typed, TypeOK
    <3>2. r \in docs /\ p \notin known[r] => Leads(r, p)'
      BY <1>3, <1>6 DEF Leads
    <3> QED BY <1>2, <2>1, <2>2, <3>1, <3>2 DEF Met
  <2>3. CASE x # r \/ y # p
    <3>1. channel'[x][y] = channel[x][y] /\ (y \in known'[x] => y \in known[x])
      BY <1>1, <1>2, <2>3 DEF Typed, TypeOK
    <3> QED BY <1>2, <2>1, <3>1 DEF Met
  <2> QED BY <2>2, <2>3
<1>8. \A x \in Repos : Blank(x)'
  BY <1>2 DEF Telling, Blank
<1>9. <<p, r, m>>[3].type \in Handshakes
  BY <1>2
<1> DEFINE lost == <<p, r, m>>
<1>10. OnlyLoses(lost) /\ lost[3].type \in Handshakes
  BY <1>6, <1>9
<1> HIDE DEF lost
<1> QED BY <1>2, <1>7, <1>8, <1>10, TellingKept

(* A step that loses nothing.                                              *)
LEMMA NothingLost ==
  ASSUME \A x, y \in Repos : InQueue(net[x][y]) \subseteq InQueue(net'[x][y])
  PROVE  \E lost : OnlyLoses(lost) /\ lost[3].type \in Handshakes
<1> DEFINE lost == <<1, 2, EstablishRequest>>
<1>1. lost[3].type \in Handshakes
  BY DEF EstablishRequest, Handshakes
<1>2. OnlyLoses(lost)
  BY DEF OnlyLoses
<1> HIDE DEF lost
<1> QED BY <1>1, <1>2

LEMMA EnsureTells ==
  ASSUME HandshakeInv, Synchronous, Telling, NEW r \in Repos, DocEnsure(r)
  PROVE  Telling'
<1> DEFINE m   == SyncRequest({}, TRUE)
           ask == <<m>>
           out == [q \in Repos |-> IF q \in Established(r) THEN ask ELSE <<>>]
<1>1. Typed
  BY DEF HandshakeInv
<1>2. /\ net' = Sent(r, out) /\ docs' = docs \cup {r}
      /\ UNCHANGED <<oplog, channel, known, subs, awareness, made>>
  BY DEF DocEnsure, Create, opVars
<1>3. m \in Messages(made') /\ m.type = "sync-request"
  BY RequestType DEF SyncRequest
<1> HIDE DEF m
<1>4. ask \in Seq(Messages(made')) /\ m \in InQueue(ask) /\ <<>> \in Seq(Messages(made'))
  BY <1>3, OneIsSeq, InShort, EmptySeq
<1> HIDE DEF ask
<1>5. /\ out \in [Repos -> Seq(Messages(made'))]
      /\ \A q \in Repos : channel[r][q] = "established" => out[q] = ask
  BY <1>4 DEF Established
<1> HIDE DEF out
<1>6. /\ \A x, y \in Repos : InQueue(net[x][y]) \subseteq InQueue(net'[x][y])
      /\ \A q \in Repos : Link(r, q) \in up => InQueue(out[q]) \subseteq InQueue(net'[r][q])
  BY <1>1, <1>2, <1>5, SentArrives
<1>7. ASSUME NEW q \in Repos \ {r}, channel[r][q] = "established"
      PROVE  Leads(r, q)'
  <2>1. Link(r, q) \in up
    BY <1>7 DEF Synchronous, Pair, Connected
  <2>2. m \in InQueue(net'[r][q])
    BY <1>4, <1>5, <1>6, <1>7, <2>1
  <2> QED BY <1>3, <2>2 DEF Leads
<1>8. \A x \in Repos : Blank(x)'
  BY <1>2 DEF Telling, Blank
<1>9. \A x \in Repos : \A y \in Repos \ {x} : Met(x, y)'
  BY <1>2 DEF Telling, Met
<1>10. PICK lost : OnlyLoses(lost) /\ lost[3].type \in Handshakes
  BY <1>6, NothingLost
<1> QED BY <1>2, <1>7, <1>8, <1>9, <1>10, TellingKept

LEMMA ChangeTells ==
  ASSUME HandshakeInv, Telling, NEW r \in Repos, NEW o \in Ops, LocalDocChange(r, o)
  PROVE  Telling'
<1> DEFINE v     == Version(r) \cup {o}
           out   == Propagated(r, v, r, awareness[r])
           after == AfterPropagation(r, v, r, awareness[r])
<1>1. Typed
  BY DEF HandshakeInv
<1>2. /\ net' = Sent(r, out) /\ made' = made \cup {o} /\ r \in docs
      /\ oplog' = [oplog EXCEPT ![r] = @ \cup {o}]
      /\ awareness' = [awareness EXCEPT ![r] = after]
      /\ UNCHANGED <<docs, channel, known, subs>>
  BY <1>1 DEF LocalDocChange, Typed, TypeOK
<1>3. v \in SUBSET made'
  BY <1>1, <1>2, VersionType DEF Typed
<1> HIDE DEF v
<1>4. out \in [Repos -> Seq(Messages(made'))]
  BY <1>3, PropagatedType
<1>5. \A q \in Repos : q \in subs[r] \/ after[q] = awareness[r][q]
  BY DEF AfterPropagation
<1> HIDE DEF out, after
<1>6. \A x, y \in Repos : InQueue(net[x][y]) \subseteq InQueue(net'[x][y])
  BY <1>1, <1>2, <1>4, SentArrives
<1>7. \A x, y \in Repos :
        awareness'[x][y] = IF x = r THEN after[y] ELSE awareness[x][y]
  BY <1>1, <1>2 DEF Typed, TypeOK
<1>8. \A x \in Repos : Blank(x)'
  <2>1. \A x \in Repos \ {r} : oplog'[x] = oplog[x]
    BY <1>1, <1>2 DEF Typed, TypeOK
  <2> QED BY <1>2, <1>7, <2>1 DEF Telling, Blank
<1>9. \A x \in Repos : \A y \in Repos \ {x} : Met(x, y)'
  BY <1>2 DEF Telling, Met
<1>10. PICK lost : OnlyLoses(lost) /\ lost[3].type \in Handshakes
  BY <1>6, NothingLost
<1>11. ASSUME NEW x \in Repos, NEW y \in Repos \ {x}
       PROVE  \/ channel'[x][y] # "established"
              \/ x \notin docs'
              \/ Leads(x, y)'
              \/ /\ channel[x][y] = "established" /\ x \in docs
                 /\ awareness'[x][y].status = awareness[x][y].status
  <2>1. x = r /\ y \in subs[r] => Leads(x, y)'
    BY <1>2 DEF Leads
  <2> QED BY <1>2, <1>5, <1>7, <2>1
<1> QED BY <1>2, <1>8, <1>9, <1>10, <1>11, TellingKept

LEMMA ConnectTells ==
  ASSUME HandshakeInv, Telling, NEW r \in Repos, NEW p \in Repos \ {r}, Connect(r, p)
  PROVE  Telling'
<1> DEFINE Opening(x, y) == IF <<x, y>> \in Initiates THEN <<EstablishRequest>> ELSE <<>>
<1>1. Typed
  BY DEF HandshakeInv
<1>2. /\ Link(r, p) \notin up /\ channel[r][p] = "none" /\ channel[p][r] = "none"
      /\ channel' = [channel EXCEPT ![r][p] = "connected", ![p][r] = "connected"]
      /\ net' = [net EXCEPT ![r][p] = Opening(r, p), ![p][r] = Opening(p, r)]
      /\ UNCHANGED <<docs, oplog, known, subs, awareness>>
  BY DEF Connect
<1> HIDE DEF Opening
<1>3. net[r][p] = <<>> /\ net[p][r] = <<>>
  BY <1>2 DEF HandshakeInv, Handshake, HandshakeOf, Link
<1>4. \A x, y \in Repos : net'[x][y] = net[x][y] \/ net[x][y] = <<>>
  BY <1>1, <1>2, <1>3 DEF Typed, NetType
<1>5. \A x, y \in Repos : InQueue(net[x][y]) \subseteq InQueue(net'[x][y])
  BY <1>4, InShort
<1>6. ASSUME NEW x \in Repos, NEW y \in Repos \ {x}
      PROVE  \/ channel'[x][y] = channel[x][y]
             \/ channel[x][y] = "none" /\ channel'[x][y] = "connected"
  BY <1>1, <1>2 DEF Typed, TypeOK
<1>7. \A x \in Repos : Blank(x)'
  BY <1>2 DEF Telling, Blank
<1>8. ASSUME NEW x \in Repos, NEW y \in Repos \ {x}
      PROVE  Met(x, y)'
  <2>1. Met(x, y) /\ known'[x] = known[x]
    BY <1>2 DEF Telling
  <2> QED BY <1>6, <2>1 DEF Met
<1>9. PICK lost : OnlyLoses(lost) /\ lost[3].type \in Handshakes
  BY <1>5, NothingLost
<1> QED BY <1>2, <1>6, <1>7, <1>8, <1>9, TellingKept

-----------------------------------------------------------------------------
(* Undisturbed Repos tell.                                                 *)
TellingInv == BeliefInv /\ (Undisturbed => Telling)

LEMMA InitTelling == Init => Telling
<1> SUFFICES ASSUME Init PROVE Telling
  OBVIOUS
<1>1. ASSUME NEW x \in Repos PROVE Blank(x)
  BY DEF Init, Blank, Unknown
<1>2. ASSUME NEW x \in Repos, NEW y \in Repos \ {x} PROVE Told(x, y) /\ Met(x, y)
  BY DEF Init, Told, Met
<1> QED BY <1>1, <1>2 DEF Telling

LEMMA NextTelling ==
  ASSUME HandshakeInv, Synchronous, Telling, [Next]_vars, Undisturbed'
  PROVE  Telling'
<1>1. Typed
  BY DEF HandshakeInv
<1>2. ASSUME NEW r \in Repos, NEW p \in Repos \ {r}
      PROVE  ~ Break(r, p) /\ ~ Overtake(r, p) /\ ~ ChannelRemoved(r, p)
  <2>1. ~ Break(r, p) /\ ~ Overtake(r, p)
    BY <1>1 DEF Break, Overtake, Undisturbed, Typed, TypeOK
  <2>2. ~ ChannelRemoved(r, p)
    BY DEF ChannelRemoved, Synchronous, Pair, Connected
  <2> QED BY <2>1, <2>2
<1>3. ASSUME NEW r \in Repos
      PROVE  ~ Restart(r)
  BY <1>1 DEF Restart, Undisturbed, Typed, TypeOK
<1>4. ASSUME NEW r \in Repos, NEW p \in Repos \ {r}, Receive(r, p)
      PROVE  Telling'
  <2>1. CASE HandleEstablishRequest(r, p) \/ HandleEstablishResponse(r, p)
    BY <2>1, EstablishTells
  <2>2. CASE ~ (HandleEstablishRequest(r, p) \/ HandleEstablishResponse(r, p))
    <3> DEFINE m == Message(r, p)
    <3>1. OnlyLoses(<<p, r, m>>) /\ Responds(r, p, m)
      BY <1>4, <2>2, RequestResponds, ResponseResponds, ReplyResponds, UpdateResponds,
         NewDocResponds DEF Receive
    <3>2. Grows /\ Frame(r)
      BY <1>1, <1>4, ReceiveChanges
    <3> HIDE DEF m
    <3> QED BY <3>1, <3>2, RespondingTells
  <2> QED BY <2>1, <2>2
<1>5. CASE UNCHANGED vars
  BY <1>5 DEF vars, repoVars, linkVars, opVars, Telling, Blank, Told, Met, Leads, WillTell,
     AwaitsFrom, InQueue
<1> QED BY <1>2, <1>3, <1>4, <1>5, ConnectTells, EnsureTells, ChangeTells DEF Next

LEMMA TellingInvHolds == Spec => []TellingInv
<1>1. BeliefInv /\ (Undisturbed => Telling) /\ [Next]_vars => (Undisturbed => Telling)'
  <2>1. BeliefInv /\ Undisturbed => HandshakeInv /\ Synchronous
    BY DEF BeliefInv
  <2>2. BeliefInv => Typed
    BY DEF BeliefInv, HandshakeInv
  <2> QED BY <2>1, <2>2, NextTelling, Disturbances
<1>2. BeliefInv /\ (Undisturbed => Telling) => TellingInv
  BY DEF TellingInv
<1> QED BY <1>1, <1>2, InitTelling, BeliefInvHolds, PTL DEF Spec

(* The links join the Repos: no part of them is without a link to the rest.*)
Joined ==
  \A D \in SUBSET Repos :
    /\ D # {}
    /\ \A x \in D : \A y \in Repos \ {x} : Link(x, y) \in Links => y \in D
    => D = Repos

(* With nothing in flight anywhere, who has the document has every         *)
(* neighbour for a subscriber, and the neighbours have what it has.        *)
LEMMA QuietNeighbours ==
  ASSUME HandshakeInv, Synchronous, Telling, Quiet,
         NEW x \in docs, NEW y \in Repos \ {x}, Link(x, y) \in Links
  PROVE  y \in subs[x] /\ y \in docs /\ oplog[x] \subseteq oplog[y]
<1>1. Typed /\ x \in Repos
  BY DEF HandshakeInv, Typed, TypeOK
<1>2. ASSUME NEW u \in Repos, NEW w \in Repos \ {u}
      PROVE  net[u][w] = <<>>
  <2>1. CASE Link(u, w) \in Links
    BY <2>1 DEF Quiet
  <2>2. CASE Link(u, w) \notin Links
    <3>1. Link(w, u) \notin up
      BY <1>1, <2>2 DEF Typed, TypeOK, Link
    <3> QED BY <3>1 DEF HandshakeInv, Handshake, HandshakeOf
  <2> QED BY <2>1, <2>2
<1>3. channel[x][y] = "established"
  BY <1>1 DEF Quiet
<1>4. Leads(x, y) \/ WillTell(x, y)
  BY <1>1, <1>3 DEF Telling, Told
<1>5. ~ WillTell(x, y)
  BY <1>1, <1>2, InShort DEF WillTell, AwaitsFrom
<1>6. y \in subs[x]
  BY <1>1, <1>2, <1>4, <1>5, InShort DEF Leads
<1>7. y \in docs
  BY <1>1, <1>6 DEF Synchronous, Pair, Connected
<1>8. oplog[x] \subseteq oplog[y] \cup Carried(<<>>)
  BY <1>1, <1>2, <1>6 DEF Synchronous, Pair, Subscribed
<1>9. Carried(<<>>) = {}
  BY NoMessage
<1> QED BY <1>6, <1>7, <1>8, <1>9

(* Undisturbed Repos that are joined by links subscribe to each other: the *)
(* handshake's requests, their answers and the announcements that follow   *)
(* reach every Repo, whoever of them opened the document and whenever.     *)
THEOREM QuietAreSubscribed ==
  ASSUME Joined
  PROVE  Spec => [](breaks = 0 /\ restarts = 0 /\ overtakes = 0 => QuietSubscribed)
<1>1. TellingInv => (breaks = 0 /\ restarts = 0 /\ overtakes = 0 => QuietSubscribed)
  <2> SUFFICES ASSUME TellingInv, breaks = 0, restarts = 0, overtakes = 0, Quiet, docs # {}
               PROVE  \A r \in Repos : \A p \in Repos \ {r} : Link(r, p) \in Links => p \in subs[r]
    BY DEF QuietSubscribed
  <2>1. HandshakeInv /\ Synchronous /\ Telling
    BY DEF TellingInv, BeliefInv, Undisturbed
  <2>2. docs \in SUBSET Repos
    BY <2>1 DEF HandshakeInv, Typed, TypeOK
  <2>3. \A x \in docs : \A y \in Repos \ {x} : Link(x, y) \in Links => y \in subs[x] /\ y \in docs
    BY <2>1, QuietNeighbours
  <2>4. docs = Repos
    BY <2>2, <2>3 DEF Joined
  <2> QED BY <2>3, <2>4
<1> QED BY <1>1, TellingInvHolds, PTL

(* Undisturbed Repos that are joined by links agree once nothing is left   *)
(* to deliver: no order of operations, openings of the document and        *)
(* arrivals makes a Repo miss what another has.                            *)
THEOREM QuietAreConverged ==
  ASSUME Joined
  PROVE  Spec => [](breaks = 0 /\ restarts = 0 /\ overtakes = 0 => QuietConverged)
<1>1. TellingInv => (breaks = 0 /\ restarts = 0 /\ overtakes = 0 => QuietConverged)
  <2> SUFFICES ASSUME TellingInv, breaks = 0, restarts = 0, overtakes = 0, Quiet,
                      NEW r \in Repos, NEW p \in Repos
               PROVE  Version(r) = oplog[p]
    BY DEF QuietConverged
  <2>1. HandshakeInv /\ Synchronous /\ Telling
    BY DEF TellingInv, BeliefInv, Undisturbed
  <2>2. docs \in SUBSET Repos
    BY <2>1 DEF HandshakeInv, Typed, TypeOK
  <2>3. \A x \in docs : \A y \in Repos \ {x} :
          Link(x, y) \in Links => y \in docs /\ oplog[x] \subseteq oplog[y]
    BY <2>1, QuietNeighbours
  <2>4. \A x \in Repos : Version(x) = oplog[x]
    BY <2>1 DEF Synchronous, Whole, Version, Applied
  <2>5. CASE docs = {}
    <3>1. \A x \in Repos : oplog[x] = {}
      BY <2>1, <2>5 DEF Telling, Blank
    <3> QED BY <2>4, <3>1
  <2>6. CASE docs # {}
    <3>1. docs = Repos
      BY <2>2, <2>3, <2>6 DEF Joined
    <3>2. ASSUME NEW x \in Repos, NEW z \in Repos
          PROVE  oplog[x] \subseteq oplog[z]
      <4> DEFINE D == {y \in Repos : oplog[x] \subseteq oplog[y]}
      <4>1. x \in D /\ D \in SUBSET Repos
        OBVIOUS
      <4>2. \A u \in D : \A y \in Repos \ {u} : Link(u, y) \in Links => y \in D
        BY <2>3, <3>1
      <4> HIDE DEF D
      <4>3. D = Repos
        BY <4>1, <4>2 DEF Joined
      <4> QED BY <4>3 DEF D
    <3> QED BY <2>4, <3>2
  <2> QED BY <2>5, <2>6
<1> QED BY <1>1, TellingInvHolds, PTL
=============================================================================
