------------------------ MODULE StorageFirst_proofs ------------------------
(***************************************************************************)
(* Proofs about StorageFirst, for every set of channels, documents,        *)
(* requests and operations and every number of deletions.                  *)
(***************************************************************************)
EXTENDS StorageFirst, TLAPS

-----------------------------------------------------------------------------
(* Types of the helpers.                                                   *)

LEMMA AppliedType ==
  ASSUME NEW log \in SUBSET Ops
  PROVE  Applied(log) \in SUBSET Ops
BY DEF Applied

LEMMA VersionType ==
  ASSUME TypeOK, NEW d \in Docs
  PROVE  Version(d) \in SUBSET Ops
BY AppliedType DEF TypeOK, Version

LEMMA AwarenessType ==
  /\ Pending \in Awareness
  /\ Unknown \in Awareness
  /\ Absent \in Awareness
  /\ \A v \in SUBSET Ops : Synced(v) \in Awareness
BY DEF Pending, Unknown, Absent, Synced, Awareness

LEMMA DeltaType ==
  ASSUME NEW v \in SUBSET Ops, NEW a \in Awareness
  PROVE  Delta(v, a) \in SUBSET Ops
BY DEF Delta

(* The variables of the peers after a propagation.                         *)
LEMMA PropagateType ==
  ASSUME NEW d \in Docs, NEW v \in SUBSET Ops, NEW src,
         NEW aw \in [Channels -> [Docs -> Awareness]],
         NEW subs \in [Channels -> SUBSET Docs],
         NEW has \in [Channels -> [Docs -> SUBSET Ops]],
         Propagate(d, v, src, aw, subs, has)
  PROVE  /\ awareness' \in [Channels -> [Docs -> Awareness]]
         /\ subscriptions' \in [Channels -> SUBSET Docs]
         /\ holds' \in [Channels -> [Docs -> SUBSET Ops]]
<1> DEFINE upd == UpdateTargets(d, v, src, aw, subs)
           ann == NewDocTargets(d, v, src, aw, subs) \cap StorageChannels
<1>1. awareness' \in [Channels -> [Docs -> Awareness]]
  <2>1. awareness' = [c \in Channels |->
             [aw[c] EXCEPT ![d] = IF c \in upd THEN Synced(v)
                                  ELSE IF c \in ann THEN Pending ELSE @]]
    BY DEF Propagate
  <2>2. Synced(v) \in Awareness /\ Pending \in Awareness
    BY AwarenessType
  <2> HIDE DEF upd, ann
  <2> QED BY <2>1, <2>2
<1>2. subscriptions' \in [Channels -> SUBSET Docs]
  <2>1. subscriptions' =
          [c \in Channels |-> IF c \in ann THEN subs[c] \cup {d} ELSE subs[c]]
    BY DEF Propagate
  <2> HIDE DEF ann
  <2> QED BY <2>1
<1>3. holds' \in [Channels -> [Docs -> SUBSET Ops]]
  <2>1. holds' =
          [c \in Channels |->
             [has[c] EXCEPT ![d] = IF c \in upd THEN @ \cup Delta(v, aw[c][d])
                                   ELSE IF c \in ann THEN @ \cup v ELSE @]]
    BY DEF Propagate
  <2>2. \A c \in Channels : Delta(v, aw[c][d]) \in SUBSET Ops
    BY DeltaType
  <2> HIDE DEF upd, ann
  <2> QED BY <2>1, <2>2
<1> QED BY <1>1, <1>2, <1>3

LEMMA AwareType ==
  ASSUME TypeOK, NEW c \in Channels, NEW d \in Docs, NEW a \in Awareness
  PROVE  Aware(c, d, a) \in [Channels -> [Docs -> Awareness]]
BY DEF TypeOK, Aware

LEMMA SubscribeType ==
  ASSUME TypeOK, NEW c \in Channels, NEW d \in Docs
  PROVE  Subscribe(c, d) \in [Channels -> SUBSET Docs]
BY DEF TypeOK, Subscribe

LEMMA HoldsType ==
  ASSUME TypeOK, NEW c \in Channels, NEW d \in Docs, NEW v \in SUBSET Ops
  PROVE  Holds(c, d, v) \in [Channels -> [Docs -> SUBSET Ops]]
BY DEF TypeOK, Holds

LEMMA HoldsAnswerType ==
  ASSUME TypeOK, NEW Q, NEW d \in Docs, NEW v \in SUBSET Ops
  PROVE  HoldsAnswer(Q, d, v) \in [Channels -> [Docs -> SUBSET Ops]]
BY DEF TypeOK, HoldsAnswer

LEMMA StartLoadsType ==
  ASSUME TypeOK, NEW S, NEW d, NEW v, StartLoads(S, d, v)
  PROVE  loads' \in [StorageChannels \X Docs \X (SUBSET Ops) -> Nat]
BY DEF TypeOK, StartLoads

LEMMA AnswerType ==
  ASSUME TypeOK, NEW Q, NEW v \in SUBSET Ops, Answer(Q, v)
  PROVE  answer' \in [Requests -> (SUBSET Ops) \cup {NoAnswer}]
BY DEF TypeOK, Answer

-----------------------------------------------------------------------------
(* Type correctness.                                                       *)

LEMMA InitType == Init => TypeOK
BY AwarenessType, OpAssumption, BoundAssumption
   DEF Init, TypeOK, Channels

LEMMA ConnectionType ==
  ASSUME TypeOK, Connection
  PROVE  TypeOK'
<1>1. ASSUME NEW c \in Channels, ChannelAdded(c)
      PROVE  TypeOK'
  BY <1>1 DEF TypeOK, ChannelAdded, peerVars, ghostVars
<1>2. ASSUME NEW c \in Channels, ChannelRemoved(c)
      PROVE  TypeOK'
  <2>1. \A d \in Docs : Version(d) \in SUBSET Ops
    BY VersionType
  <2>2. answer' \in [Requests -> (SUBSET Ops) \cup {NoAnswer}]
    <3>1. \A r \in Requests : (\E d \in Drained(c) : r \in pendingReqs[d]) =>
             Version(CHOOSE d \in Drained(c) : r \in pendingReqs[d]) \in SUBSET Ops
      BY <2>1 DEF TypeOK, Drained
    <3> QED BY <1>2, <3>1 DEF TypeOK, ChannelRemoved
  <2>3. holds' \in [Channels -> [Docs -> SUBSET Ops]]
    BY <1>2, <2>1 DEF TypeOK, ChannelRemoved
  <2>4. /\ pendingReqs' \in [Docs -> SUBSET Requests]
        /\ pendingStorage' \in [Docs -> SUBSET StorageChannels]
        /\ loads' \in [StorageChannels \X Docs \X (SUBSET Ops) -> Nat]
    BY <1>2 DEF TypeOK, ChannelRemoved, ParkedElsewhere
  <2> QED BY <1>2, <2>2, <2>3, <2>4 DEF TypeOK, ChannelRemoved, ghostVars
<1>3. ASSUME NEW c \in NetChannels, HandleEstablishRequest(c)
      PROVE  TypeOK'
  BY <1>3 DEF TypeOK, HandleEstablishRequest, peerVars, ghostVars
<1>4. ASSUME NEW s \in StorageChannels, HandleEstablishResponse(s)
      PROVE  TypeOK'
  <2>1. loads' \in [StorageChannels \X Docs \X (SUBSET Ops) -> Nat]
    BY <1>4 DEF TypeOK, HandleEstablishResponse
  <2> QED BY <1>4, <2>1 DEF TypeOK, HandleEstablishResponse, Channels,
                            peerVars, ghostVars
<1> QED BY <1>1, <1>2, <1>3, <1>4 DEF Connection

LEMMA RequestType ==
  ASSUME TypeOK, NEW c \in NetChannels, NEW d \in Docs, NEW r \in Requests,
         HandleSyncRequest(c, d, r)
  PROVE  TypeOK'
<1>1. ReceiveRequest(c, d, r)
  BY DEF HandleSyncRequest, RequestDenied, RequestConsults, RequestAnswered,
         RequestParked
<1>2. /\ channels' \in [Channels -> {"absent", "connected", "established", "removed"}]
      /\ oplog' \in [Docs -> SUBSET Ops]
      /\ requester' \in [Requests -> NetChannels \cup {NoChannel}]
      /\ failed' \in SUBSET (StorageChannels \X Docs)
      /\ deletes' \in 0 .. MaxDeletes
  BY <1>1 DEF TypeOK, ReceiveRequest
<1>3. /\ awareness' \in [Channels -> [Docs -> Awareness]]
      /\ subscriptions' \in [Channels -> SUBSET Docs]
  BY <1>1, AwareType, SubscribeType, AwarenessType DEF ReceiveRequest, Channels
<1> DEFINE Rest ==
      /\ documents' \in SUBSET Docs
      /\ pendingStorage' \in [Docs -> SUBSET StorageChannels]
      /\ pendingReqs' \in [Docs -> SUBSET Requests]
      /\ loads' \in [StorageChannels \X Docs \X (SUBSET Ops) -> Nat]
      /\ answer' \in [Requests -> (SUBSET Ops) \cup {NoAnswer}]
      /\ holds' \in [Channels -> [Docs -> SUBSET Ops]]
      /\ consulted' \in [Docs -> SUBSET StorageChannels]
<1>4. CASE RequestDenied(c, d, r)
  <2>1. Rest BY <1>4 DEF TypeOK, RequestDenied
  <2> QED BY <1>2, <1>3, <2>1 DEF TypeOK
<1>5. CASE RequestConsults(c, d, r)
  <2>1. loads' \in [StorageChannels \X Docs \X (SUBSET Ops) -> Nat]
    BY <1>5, StartLoadsType DEF RequestConsults
  <2>2. Rest BY <1>5, <2>1 DEF TypeOK, RequestConsults, StorageIds
  <2> QED BY <1>2, <1>3, <2>2 DEF TypeOK
<1>6. CASE RequestAnswered(c, d, r)
  <2>1. /\ answer' \in [Requests -> (SUBSET Ops) \cup {NoAnswer}]
        /\ holds' \in [Channels -> [Docs -> SUBSET Ops]]
    BY <1>6, VersionType, AnswerType, HoldsType DEF RequestAnswered, Channels
  <2>2. Rest BY <1>6, <2>1 DEF TypeOK, RequestAnswered
  <2> QED BY <1>2, <1>3, <2>2 DEF TypeOK
<1>7. CASE RequestParked(c, d, r)
  <2>1. Rest BY <1>7 DEF TypeOK, RequestParked, WithParked
  <2> QED BY <1>2, <1>3, <2>1 DEF TypeOK
<1> QED BY <1>4, <1>5, <1>6, <1>7 DEF HandleSyncRequest

LEMMA LoadType ==
  ASSUME TypeOK, NEW s \in StorageChannels, NEW d \in Docs, LoadSettles(s, d)
  PROVE  TypeOK'
<1> PICK v \in SUBSET Ops, ok \in BOOLEAN : StorageReplies(s, d, v, ok)
  BY DEF LoadSettles
<1> DEFINE kind     == Reply(s, d, v, ok)
           present  == d \in documents \/ kind = "update" \/ Permits("creation", s, d)
           imported == kind = "update" /\ Permits("mutability", s, d)
           log      == IF imported THEN oplog[d] \cup (Persisted[s][d] \ v)
                       ELSE oplog[d]
           answered == IF LastReply(s, d) THEN pendingReqs[d] ELSE {}
           sent     == HoldsAnswer(answered, d, Applied(log))
           has      == [sent EXCEPT ![s][d] = @ \cup Applied(log)]
<1>1. log \in SUBSET Ops /\ Applied(log) \in SUBSET Ops
  <2>1. log \in SUBSET Ops BY OpAssumption DEF TypeOK
  <2> QED BY <2>1, AppliedType
<1>2. /\ loads' \in [StorageChannels \X Docs \X (SUBSET Ops) -> Nat]
      /\ documents' \in SUBSET Docs
      /\ oplog' \in [Docs -> SUBSET Ops]
  <2>1. /\ loads[<<s, d, v>>] > 0
        /\ loads' = [loads EXCEPT ![<<s, d, v>>] = @ - 1]
        /\ documents' = IF present THEN documents \cup {d} ELSE documents
        /\ oplog' = [oplog EXCEPT ![d] = log]
    BY DEF StorageReplies
  <2> HIDE DEF log, present
  <2>2. loads[<<s, d, v>>] - 1 \in Nat
    BY <2>1 DEF TypeOK
  <2>3. loads' \in [StorageChannels \X Docs \X (SUBSET Ops) -> Nat]
    BY <2>1, <2>2 DEF TypeOK
  <2>4. documents' \in SUBSET Docs
    BY <2>1 DEF TypeOK
  <2>5. oplog' \in [Docs -> SUBSET Ops]
    BY <1>1, <2>1 DEF TypeOK
  <2> QED BY <2>3, <2>4, <2>5
<1>3. /\ pendingStorage' \in [Docs -> SUBSET StorageChannels]
      /\ pendingReqs' \in [Docs -> SUBSET Requests]
      /\ failed' \in SUBSET (StorageChannels \X Docs)
      /\ UNCHANGED <<channels, requester, consulted, deletes>>
  BY DEF TypeOK, StorageReplies
<1>4. answer' \in [Requests -> (SUBSET Ops) \cup {NoAnswer}]
  <2>1. Answer(answered, Applied(log))
    BY DEF StorageReplies
  <2> HIDE DEF answered, log
  <2> QED BY <1>1, <2>1, AnswerType
<1>5. has \in [Channels -> [Docs -> SUBSET Ops]]
  <2>1. sent \in [Channels -> [Docs -> SUBSET Ops]]
    <3> HIDE DEF answered, log
    <3> QED BY <1>1, HoldsAnswerType
  <2> HIDE DEF sent, log
  <2> QED BY <1>1, <2>1
<1>6. /\ awareness' \in [Channels -> [Docs -> Awareness]]
      /\ subscriptions' \in [Channels -> SUBSET Docs]
      /\ holds' \in [Channels -> [Docs -> SUBSET Ops]]
  <2>1. /\ Aware(s, d, Pending) \in [Channels -> [Docs -> Awareness]]
        /\ Subscribe(s, d) \in [Channels -> SUBSET Docs]
    BY AwareType, SubscribeType, AwarenessType DEF Channels
  <2>2. \/ Propagate(d, Applied(log), s, Aware(s, d, Pending), Subscribe(s, d), has)
        \/ NoPropagation(Aware(s, d, Pending), Subscribe(s, d), has)
    BY DEF StorageReplies
  <2> HIDE DEF has, log
  <2> QED BY <1>1, <1>5, <2>1, <2>2, PropagateType DEF NoPropagation
<1> QED BY <1>2, <1>3, <1>4, <1>6 DEF TypeOK

LEMMA ImportType ==
  ASSUME TypeOK, NEW c \in NetChannels, NEW d \in Docs, NEW S \in SUBSET Ops,
         Import(c, d, S)
  PROVE  /\ oplog' \in [Docs -> SUBSET Ops]
         /\ awareness' \in [Channels -> [Docs -> Awareness]]
         /\ subscriptions' \in [Channels -> SUBSET Docs]
         /\ holds' \in [Channels -> [Docs -> SUBSET Ops]]
<1> DEFINE log == oplog[d] \cup S
<1>1. log \in SUBSET Ops /\ Applied(log) \in SUBSET Ops
  <2>1. log \in SUBSET Ops BY DEF TypeOK
  <2> QED BY <2>1, AppliedType
<1>2. /\ Aware(c, d, Synced(Applied(log))) \in [Channels -> [Docs -> Awareness]]
      /\ Holds(c, d, S) \in [Channels -> [Docs -> SUBSET Ops]]
  <2> HIDE DEF log
  <2> QED BY <1>1, AwareType, HoldsType, AwarenessType DEF Channels
<1>3. /\ oplog' = [oplog EXCEPT ![d] = log]
      /\ Propagate(d, Applied(log), c, Aware(c, d, Synced(Applied(log))),
                   subscriptions, Holds(c, d, S))
  BY DEF Import
<1>4. subscriptions \in [Channels -> SUBSET Docs] /\ oplog \in [Docs -> SUBSET Ops]
  BY DEF TypeOK
<1> HIDE DEF log
<1> QED BY <1>1, <1>2, <1>3, <1>4, PropagateType

LEMMA MessageType ==
  ASSUME TypeOK, NetworkMessage
  PROVE  TypeOK'
<1> SUFFICES ASSUME NEW c \in NetChannels, NEW d \in Docs, MessageFrom(c, d)
             PROVE  TypeOK'
  BY DEF NetworkMessage
<1>1. ASSUME NEW o \in RemoteOps, HandleSyncResponse(c, d, {o})
      PROVE  TypeOK'
  <2>1. {o} \in SUBSET Ops BY OpAssumption
  <2>2. /\ oplog' \in [Docs -> SUBSET Ops]
        /\ awareness' \in [Channels -> [Docs -> Awareness]]
        /\ subscriptions' \in [Channels -> SUBSET Docs]
        /\ holds' \in [Channels -> [Docs -> SUBSET Ops]]
    <3>1. CASE Import(c, d, {o})
      BY <2>1, <3>1, ImportType
    <3>2. CASE UNCHANGED <<oplog, peerVars>>
      BY <3>2 DEF TypeOK, peerVars
    <3> QED BY <1>1, <3>1, <3>2 DEF HandleSyncResponse
  <2> QED BY <1>1, <2>2 DEF TypeOK, HandleSyncResponse
<1>2. ASSUME NEW o \in RemoteOps, HandleUpdate(c, d, {o})
      PROVE  TypeOK'
  <2>1. {o} \in SUBSET Ops BY OpAssumption
  <2>2. /\ oplog' \in [Docs -> SUBSET Ops]
        /\ awareness' \in [Channels -> [Docs -> Awareness]]
        /\ subscriptions' \in [Channels -> SUBSET Docs]
        /\ holds' \in [Channels -> [Docs -> SUBSET Ops]]
    BY <1>2, <2>1, ImportType DEF HandleUpdate
  <2> QED BY <1>2, <2>2 DEF TypeOK, HandleUpdate
<1>3. ASSUME NEW a \in Awareness, HandleStatus(c, d, a)
      PROVE  TypeOK'
  <2>1. /\ Aware(c, d, a) \in [Channels -> [Docs -> Awareness]]
        /\ Holds(c, d, a.version) \in [Channels -> [Docs -> SUBSET Ops]]
    <3>1. a.version \in SUBSET Ops BY <1>3 DEF Awareness
    <3> QED BY <3>1, AwareType, HoldsType DEF Channels
  <2> QED BY <1>3, <2>1 DEF TypeOK, HandleStatus, NoPropagation, modelVars
<1>4. ASSUME HandleNewDoc(c, d)
      PROVE  TypeOK'
  <2>1. Aware(c, d, Pending) \in [Channels -> [Docs -> Awareness]]
    BY AwareType, AwarenessType DEF Channels
  <2> QED BY <1>4, <2>1 DEF TypeOK, HandleNewDoc, NoPropagation
<1>5. ASSUME HandleDeleteRequest(c, d)
      PROVE  TypeOK'
  BY <1>5, BoundAssumption
     DEF TypeOK, HandleDeleteRequest, RemoveDocument, peerVars
<1>6. \A o \in RemoteOps : Synced({o}) \in Awareness
  BY AwarenessType, OpAssumption
<1> QED BY <1>1, <1>2, <1>3, <1>4, <1>5, <1>6, RequestType, AwarenessType
        DEF MessageFrom

LEMMA ApplicationType ==
  ASSUME TypeOK, Application
  PROVE  TypeOK'
<1>1. ASSUME NEW d \in Docs, DocEnsure(d)
      PROVE  TypeOK'
  <2>1. loads' \in [StorageChannels \X Docs \X (SUBSET Ops) -> Nat]
    BY <1>1, StartLoadsType DEF DocEnsure
  <2> QED BY <1>1, <2>1 DEF TypeOK, DocEnsure, peerVars, ghostVars
<1>2. ASSUME NEW d \in Docs, DocDelete(d)
      PROVE  TypeOK'
  BY <1>2, BoundAssumption DEF TypeOK, DocDelete, RemoveDocument, peerVars
<1>3. ASSUME NEW d \in Docs, NEW o \in LocalOps, LocalDocChange(d, o)
      PROVE  TypeOK'
  <2> DEFINE log == oplog[d] \cup {o}
  <2>1. log \in SUBSET Ops /\ Applied(log) \in SUBSET Ops
    <3>1. log \in SUBSET Ops BY OpAssumption DEF TypeOK
    <3> QED BY <3>1, AppliedType
  <2>2. /\ oplog' = [oplog EXCEPT ![d] = log]
        /\ Propagate(d, Applied(log), NoChannel, awareness, subscriptions, holds)
    BY <1>3 DEF LocalDocChange
  <2>3. /\ awareness' \in [Channels -> [Docs -> Awareness]]
        /\ subscriptions' \in [Channels -> SUBSET Docs]
        /\ holds' \in [Channels -> [Docs -> SUBSET Ops]]
    <3>1. /\ awareness \in [Channels -> [Docs -> Awareness]]
          /\ subscriptions \in [Channels -> SUBSET Docs]
          /\ holds \in [Channels -> [Docs -> SUBSET Ops]]
      BY DEF TypeOK
    <3> HIDE DEF log
    <3> QED BY <2>1, <2>2, <3>1, PropagateType
  <2>4. oplog' \in [Docs -> SUBSET Ops]
    <3> HIDE DEF log
    <3> QED BY <2>1, <2>2 DEF TypeOK
  <2> QED BY <1>3, <2>3, <2>4 DEF TypeOK, LocalDocChange
<1> QED BY <1>1, <1>2, <1>3 DEF Application

LEMMA NextType == TypeOK /\ [Next]_vars => TypeOK'
<1> SUFFICES ASSUME TypeOK, [Next]_vars
             PROVE  TypeOK'
  OBVIOUS
<1>1. CASE Next
  BY <1>1, ConnectionType, MessageType, ApplicationType, LoadType DEF Next
<1>2. CASE UNCHANGED vars
  BY <1>2 DEF TypeOK, vars, modelVars, peerVars, ghostVars
<1> QED BY <1>1, <1>2

(* The state always has its types.                                         *)
THEOREM TypeCorrect == Spec => []TypeOK
BY InitType, NextType, PTL DEF Spec

-----------------------------------------------------------------------------
(* The barrier invariant.  That parked requests were not answered is not   *)
(* inductive alone: a request that is new must be unanswered as well.      *)

FreshUnanswered ==
  \A r \in Requests : requester[r] = NoChannel => answer[r] = NoAnswer

BarrierInv ==
  /\ ParkedAwaitsStorage
  /\ WaitIsOwed
  /\ ParkedIsAnswerable
  /\ FreshUnanswered

IInv == TypeOK /\ BarrierInv

LEMMA InitBarrier == Init => BarrierInv
BY DEF Init, BarrierInv, ParkedAwaitsStorage, WaitIsOwed, ParkedIsAnswerable,
       FreshUnanswered

(* Storage channel s owes a reply to a read of document d.                 *)
Owes(s, d) == \E v \in SUBSET Ops : loads[<<s, d, v>>] > 0

(* Steps that touch neither waits nor requests, close no channel, drop no  *)
(* document and settle no read.                                            *)
LEMMA Undisturbed ==
  ASSUME BarrierInv,
         UNCHANGED <<pendingStorage, pendingReqs, requester, answer>>,
         documents \subseteq documents',
         \A c \in Channels : channels[c] = "established" => channels'[c] = "established",
         \A s \in StorageChannels, d \in Docs : Owes(s, d) => Owes(s, d)',
         pendingStorage \in [Docs -> SUBSET StorageChannels]
  PROVE  BarrierInv'
<1>1. ParkedAwaitsStorage' /\ FreshUnanswered'
  BY DEF BarrierInv, ParkedAwaitsStorage, FreshUnanswered
<1>2. WaitIsOwed'
  BY DEF BarrierInv, WaitIsOwed, Owes, Channels
<1>3. ParkedIsAnswerable'
  BY DEF BarrierInv, ParkedIsAnswerable, Channels
<1> QED BY <1>1, <1>2, <1>3 DEF BarrierInv

(* Starting reads settles none.                                            *)
LEMMA StartLoadsOwes ==
  ASSUME TypeOK, NEW S, NEW e, NEW w, StartLoads(S, e, w),
         NEW s \in StorageChannels, NEW d \in Docs, Owes(s, d)
  PROVE  Owes(s, d)'
<1>1. PICK v \in SUBSET Ops : loads[<<s, d, v>>] > 0
  BY DEF Owes
<1>2. <<s, d, v>> \in DOMAIN loads /\ loads[<<s, d, v>>] \in Nat
  BY DEF TypeOK
<1>3. loads'[<<s, d, v>>] > 0
  BY <1>1, <1>2 DEF StartLoads
<1> QED BY <1>3 DEF Owes

LEMMA RemovalBarrier ==
  ASSUME IInv, NEW c \in Channels, ChannelRemoved(c)
  PROVE  BarrierInv'
<1>1. /\ pendingStorage' = [d \in Docs |-> pendingStorage[d] \ {c}]
      /\ \A d \in Docs : pendingReqs'[d] = IF d \in Drained(c) THEN {}
                                           ELSE ParkedElsewhere(c, d)
      /\ \A x \in Channels \ {c} : channels'[x] = channels[x]
      /\ UNCHANGED <<documents, requester>>
  BY DEF ChannelRemoved, IInv, TypeOK
<1>2. \A d \in Docs : pendingReqs'[d] \subseteq pendingReqs[d]
  BY <1>1 DEF ParkedElsewhere
<1>3. ParkedAwaitsStorage'
  <2> SUFFICES ASSUME NEW d \in Docs
               PROVE  /\ pendingReqs'[d] # {} => pendingStorage'[d] # {}
                      /\ pendingStorage'[d] # {} => d \in documents'
    BY DEF ParkedAwaitsStorage
  <2>1. pendingStorage'[d] # {} => d \in documents'
    BY <1>1 DEF IInv, BarrierInv, ParkedAwaitsStorage
  <2>2. ASSUME pendingReqs'[d] # {}
        PROVE  pendingStorage'[d] # {}
    <3>1. pendingStorage[d] # {} /\ d \in documents
      BY <1>2, <2>2 DEF IInv, BarrierInv, ParkedAwaitsStorage
    <3>2. pendingStorage[d] # {c}
      BY <1>1, <2>2, <3>1 DEF Drained
    <3> QED BY <1>1, <3>1, <3>2
  <2> QED BY <2>1, <2>2
<1>4. WaitIsOwed'
  <2> SUFFICES ASSUME NEW d \in Docs, NEW s \in pendingStorage'[d]
               PROVE  channels'[s] = "established" /\ Owes(s, d)'
    BY DEF WaitIsOwed, Owes
  <2>1. s \in pendingStorage[d] /\ s # c /\ s \in StorageChannels
    BY <1>1 DEF IInv, TypeOK
  <2>2. channels[s] = "established" /\ Owes(s, d)
    BY <2>1 DEF IInv, BarrierInv, WaitIsOwed, Owes
  <2>3. PICK v \in SUBSET Ops : loads[<<s, d, v>>] > 0
    BY <2>2 DEF Owes
  <2>4. loads'[<<s, d, v>>] = loads[<<s, d, v>>]
    BY <2>1 DEF ChannelRemoved, IInv, TypeOK
  <2> QED BY <1>1, <2>1, <2>2, <2>3, <2>4 DEF Owes, Channels
<1>5. ASSUME NEW r \in Requests,
             \A d \in Drained(c) : r \notin pendingReqs[d]
      PROVE  answer'[r] = answer[r]
  BY <1>5 DEF ChannelRemoved
<1>6. ParkedIsAnswerable'
  <2> SUFFICES ASSUME NEW d \in Docs, NEW r \in pendingReqs'[d]
               PROVE  /\ requester[r] \in NetChannels
                      /\ channels'[requester[r]] = "established"
                      /\ answer'[r] = NoAnswer
                      /\ \A e \in Docs : r \in pendingReqs'[e] => e = d
    BY <1>1 DEF ParkedIsAnswerable
  <2>1. r \in pendingReqs[d] /\ r \in Requests /\ d \notin Drained(c)
    BY <1>1, <1>2 DEF IInv, TypeOK
  <2>2. /\ requester[r] \in NetChannels
        /\ channels[requester[r]] = "established"
        /\ answer[r] = NoAnswer
        /\ \A e \in Docs : r \in pendingReqs[e] => e = d
    BY <2>1 DEF IInv, BarrierInv, ParkedIsAnswerable
  <2>3. requester[r] # c
    BY <1>1, <2>1 DEF ParkedElsewhere
  <2>4. \A e \in Drained(c) : r \notin pendingReqs[e]
    BY <2>1, <2>2 DEF Drained, IInv, TypeOK
  <2> QED BY <1>1, <1>2, <1>5, <2>1, <2>2, <2>3, <2>4 DEF Channels
<1>7. FreshUnanswered'
  <2> SUFFICES ASSUME NEW r \in Requests, requester[r] = NoChannel
               PROVE  answer'[r] = NoAnswer
    BY <1>1 DEF FreshUnanswered
  <2>1. \A d \in Docs : r \notin pendingReqs[d]
    BY ChannelAssumption DEF IInv, BarrierInv, ParkedIsAnswerable, Channels
  <2>2. \A e \in Drained(c) : r \notin pendingReqs[e]
    BY <2>1 DEF Drained, IInv, TypeOK
  <2> QED BY <1>5, <2>2 DEF IInv, BarrierInv, FreshUnanswered
<1> QED BY <1>3, <1>4, <1>6, <1>7 DEF BarrierInv

(* A request that is being received is parked nowhere and unanswered.      *)
LEMMA ReceivedIsNew ==
  ASSUME IInv, NEW c, NEW d, NEW r \in Requests, ReceiveRequest(c, d, r)
  PROVE  /\ \A e \in Docs : r \notin pendingReqs[e]
         /\ answer[r] = NoAnswer
         /\ requester' = [requester EXCEPT ![r] = c]
         /\ channels[c] = "established"
         /\ channels' = channels
BY ChannelAssumption
   DEF ReceiveRequest, IInv, BarrierInv, ParkedIsAnswerable, FreshUnanswered,
       Channels

LEMMA RequestBarrierInv ==
  ASSUME IInv, NEW c \in NetChannels, NEW d \in Docs, NEW r \in Requests,
         HandleSyncRequest(c, d, r)
  PROVE  BarrierInv'
<1>1. ReceiveRequest(c, d, r)
  BY DEF HandleSyncRequest, RequestDenied, RequestConsults, RequestAnswered,
         RequestParked
<1>2. /\ \A e \in Docs : r \notin pendingReqs[e]
      /\ answer[r] = NoAnswer
      /\ channels[c] = "established"
      /\ channels' = channels
  BY <1>1, ReceivedIsNew
<1>3. /\ requester'[r] = c
      /\ \A q \in Requests \ {r} : requester'[q] = requester[q]
      /\ c # NoChannel
  BY <1>1, ReceivedIsNew, ChannelAssumption DEF IInv, TypeOK, Channels
<1> USE DEF IInv, BarrierInv
<1>4. CASE RequestDenied(c, d, r)
  <2>1. ParkedAwaitsStorage' /\ WaitIsOwed'
    BY <1>2, <1>4 DEF RequestDenied, ParkedAwaitsStorage, WaitIsOwed
  <2>2. ParkedIsAnswerable'
    BY <1>2, <1>3, <1>4 DEF RequestDenied, ParkedIsAnswerable, TypeOK
  <2>3. FreshUnanswered'
    BY <1>3, <1>4 DEF RequestDenied, FreshUnanswered
  <2> QED BY <2>1, <2>2, <2>3
<1>5. CASE RequestConsults(c, d, r)
  <2>1. pendingStorage[d] = {} /\ pendingReqs[d] = {}
    BY <1>5 DEF RequestConsults, ParkedAwaitsStorage
  <2>2. /\ d \in documents' /\ documents \subseteq documents'
        /\ pendingStorage'[d] = StorageIds /\ StorageIds # {}
        /\ pendingReqs'[d] = {r}
        /\ \A e \in Docs \ {d} : /\ pendingStorage'[e] = pendingStorage[e]
                                 /\ pendingReqs'[e] = pendingReqs[e]
        /\ StartLoads(StorageIds, d, {})
        /\ answer' = answer
    BY <1>5 DEF RequestConsults, TypeOK
  <2>3. ParkedAwaitsStorage'
    BY <2>2 DEF ParkedAwaitsStorage
  <2>4. WaitIsOwed'
    <3> SUFFICES ASSUME NEW e \in Docs, NEW s \in pendingStorage'[e]
                 PROVE  channels[s] = "established" /\ Owes(s, e)'
      BY <1>2 DEF WaitIsOwed, Owes
    <3>1. CASE e = d
      <4>1. s \in StorageIds BY <2>2, <3>1
      <4>2. channels[s] = "established" /\ s \in StorageChannels
        BY <4>1 DEF StorageIds, Established
      <4>3. <<s, d, {}>> \in DOMAIN loads /\ loads[<<s, d, {}>>] \in Nat
        BY <4>2 DEF TypeOK
      <4>4. loads'[<<s, d, {}>>] > 0
        BY <2>2, <4>1, <4>3 DEF StartLoads
      <4> QED BY <3>1, <4>2, <4>4 DEF Owes
    <3>2. CASE e # d
      <4>1. s \in pendingStorage[e] /\ s \in StorageChannels
        BY <2>2, <3>2 DEF TypeOK
      <4>2. channels[s] = "established" /\ Owes(s, e)
        BY <4>1 DEF WaitIsOwed, Owes
      <4> QED BY <2>2, <4>1, <4>2, StartLoadsOwes
    <3> QED BY <3>1, <3>2
  <2>5. ParkedIsAnswerable'
    <3> SUFFICES ASSUME NEW e \in Docs, NEW q \in pendingReqs'[e]
                 PROVE  /\ requester'[q] \in NetChannels
                        /\ channels[requester'[q]] = "established"
                        /\ answer[q] = NoAnswer
                        /\ \A f \in Docs : q \in pendingReqs'[f] => f = e
      BY <1>2, <2>2 DEF ParkedIsAnswerable
    <3>1. CASE e = d
      BY <1>2, <1>3, <2>2, <3>1
    <3>2. CASE e # d
      <4>1. q \in pendingReqs[e] /\ q \in Requests /\ q # r
        BY <1>2, <2>2, <3>2 DEF TypeOK
      <4>2. requester'[q] = requester[q]
        BY <1>3, <4>1
      <4> QED BY <2>2, <4>1, <4>2 DEF ParkedIsAnswerable
    <3> QED BY <3>1, <3>2
  <2>6. FreshUnanswered'
    BY <1>3, <2>2 DEF FreshUnanswered
  <2> QED BY <2>3, <2>4, <2>5, <2>6
<1>6. CASE RequestAnswered(c, d, r)
  <2>1. /\ documents \subseteq documents'
        /\ UNCHANGED <<pendingStorage, pendingReqs, loads>>
        /\ \A q \in Requests \ {r} : answer'[q] = answer[q]
    BY <1>6 DEF RequestAnswered, Answer
  <2>2. ParkedAwaitsStorage' /\ WaitIsOwed'
    BY <1>2, <2>1 DEF ParkedAwaitsStorage, WaitIsOwed
  <2>3. ParkedIsAnswerable'
    BY <1>2, <1>3, <2>1 DEF ParkedIsAnswerable, TypeOK
  <2>4. FreshUnanswered'
    BY <1>3, <2>1 DEF FreshUnanswered
  <2> QED BY <2>2, <2>3, <2>4
<1>7. CASE RequestParked(c, d, r)
  <2>1. /\ d \in documents /\ pendingStorage[d] # {}
        /\ UNCHANGED <<documents, pendingStorage, loads, answer>>
        /\ pendingReqs'[d] = pendingReqs[d] \cup {r}
        /\ \A e \in Docs \ {d} : pendingReqs'[e] = pendingReqs[e]
    BY <1>7 DEF RequestParked, WithParked, TypeOK
  <2>2. ParkedAwaitsStorage' /\ WaitIsOwed'
    BY <1>2, <2>1 DEF ParkedAwaitsStorage, WaitIsOwed
  <2>3. ParkedIsAnswerable'
    <3> SUFFICES ASSUME NEW e \in Docs, NEW q \in pendingReqs'[e]
                 PROVE  /\ requester'[q] \in NetChannels
                        /\ channels[requester'[q]] = "established"
                        /\ answer[q] = NoAnswer
                        /\ \A f \in Docs : q \in pendingReqs'[f] => f = e
      BY <1>2, <2>1 DEF ParkedIsAnswerable
    <3>1. CASE q = r
      BY <1>2, <1>3, <2>1, <3>1
    <3>2. CASE q # r
      <4>1. q \in pendingReqs[e] /\ q \in Requests
        BY <2>1, <3>2 DEF TypeOK
      <4>2. requester'[q] = requester[q]
        BY <1>3, <3>2, <4>1
      <4> QED BY <2>1, <3>2, <4>1, <4>2 DEF ParkedIsAnswerable
    <3> QED BY <3>1, <3>2
  <2>4. FreshUnanswered'
    BY <1>3, <2>1 DEF FreshUnanswered
  <2> QED BY <2>2, <2>3, <2>4
<1> QED BY <1>4, <1>5, <1>6, <1>7 DEF HandleSyncRequest

LEMMA LoadBarrier ==
  ASSUME IInv, NEW s \in StorageChannels, NEW d \in Docs, LoadSettles(s, d)
  PROVE  BarrierInv'
<1> USE DEF IInv, BarrierInv
<1> PICK v \in SUBSET Ops, ok \in BOOLEAN : StorageReplies(s, d, v, ok)
  BY DEF LoadSettles
<1> DEFINE answered == IF LastReply(s, d) THEN pendingReqs[d] ELSE {}
<1>1. /\ loads' = [loads EXCEPT ![<<s, d, v>>] = @ - 1]
      /\ documents \subseteq documents'
      /\ pendingStorage'[d] = pendingStorage[d] \ {s}
      /\ pendingReqs'[d] = pendingReqs[d] \ answered
      /\ \A e \in Docs \ {d} : /\ pendingStorage'[e] = pendingStorage[e]
                               /\ pendingReqs'[e] = pendingReqs[e]
      /\ \A r \in Requests \ answered : answer'[r] = answer[r]
      /\ UNCHANGED <<channels, requester>>
  BY DEF StorageReplies, Answer, TypeOK
<1>2. ParkedAwaitsStorage'
  BY <1>1 DEF ParkedAwaitsStorage, LastReply
<1>3. WaitIsOwed'
  <2> SUFFICES ASSUME NEW e \in Docs, NEW t \in pendingStorage'[e]
               PROVE  channels[t] = "established" /\ Owes(t, e)'
    BY <1>1 DEF WaitIsOwed, Owes
  <2>1. t \in pendingStorage[e] /\ t \in StorageChannels /\ ~ (t = s /\ e = d)
    BY <1>1 DEF TypeOK
  <2>2. channels[t] = "established" /\ Owes(t, e)
    BY <2>1 DEF WaitIsOwed, Owes
  <2>3. PICK w \in SUBSET Ops : loads[<<t, e, w>>] > 0
    BY <2>2 DEF Owes
  <2>4. <<t, e, w>> # <<s, d, v>> /\ <<t, e, w>> \in DOMAIN loads
    BY <2>1 DEF TypeOK
  <2>5. loads'[<<t, e, w>>] = loads[<<t, e, w>>]
    BY <1>1, <2>4
  <2> QED BY <2>2, <2>3, <2>5 DEF Owes
<1>4. ParkedIsAnswerable'
  <2> SUFFICES ASSUME NEW e \in Docs, NEW r \in pendingReqs'[e]
               PROVE  /\ requester[r] \in NetChannels
                      /\ channels[requester[r]] = "established"
                      /\ answer'[r] = NoAnswer
                      /\ \A f \in Docs : r \in pendingReqs'[f] => f = e
    BY <1>1 DEF ParkedIsAnswerable
  <2>1. r \in pendingReqs[e] /\ r \in Requests
    BY <1>1 DEF TypeOK
  <2>2. r \notin answered
    BY <1>1, <2>1 DEF ParkedIsAnswerable
  <2> QED BY <1>1, <2>1, <2>2 DEF ParkedIsAnswerable
<1>5. FreshUnanswered'
  BY <1>1, ChannelAssumption DEF FreshUnanswered, ParkedIsAnswerable, Channels
<1> QED BY <1>2, <1>3, <1>4, <1>5

LEMMA DeleteBarrier ==
  ASSUME IInv, NEW d \in Docs, RemoveDocument(d)
  PROVE  BarrierInv'
<1>1. /\ pendingStorage'[d] = {} /\ pendingReqs'[d] = {}
      /\ \A e \in Docs \ {d} : /\ pendingStorage'[e] = pendingStorage[e]
                               /\ pendingReqs'[e] = pendingReqs[e]
      /\ documents' = documents \ {d}
      /\ UNCHANGED <<channels, loads, requester, answer>>
  BY DEF RemoveDocument, IInv, TypeOK
<1> QED BY <1>1 DEF IInv, BarrierInv, ParkedAwaitsStorage, WaitIsOwed,
                    ParkedIsAnswerable, FreshUnanswered

LEMMA NextBarrier == IInv /\ [Next]_vars => BarrierInv'
<1> SUFFICES ASSUME IInv, [Next]_vars
             PROVE  BarrierInv'
  OBVIOUS
<1> USE DEF IInv
<1>1. pendingStorage \in [Docs -> SUBSET StorageChannels]
  BY DEF TypeOK
<1>2. ASSUME NEW c \in Channels, ChannelAdded(c)
      PROVE  BarrierInv'
  BY <1>1, <1>2, Undisturbed DEF ChannelAdded, TypeOK, Owes
<1>3. ASSUME NEW c \in NetChannels, HandleEstablishRequest(c)
      PROVE  BarrierInv'
  BY <1>1, <1>3, Undisturbed DEF HandleEstablishRequest, TypeOK, Owes
<1>4. ASSUME NEW s \in StorageChannels, HandleEstablishResponse(s)
      PROVE  BarrierInv'
  <2>1. ASSUME NEW t \in StorageChannels, NEW d \in Docs, Owes(t, d)
        PROVE  Owes(t, d)'
    <3>1. PICK v \in SUBSET Ops : loads[<<t, d, v>>] > 0
      BY <2>1 DEF Owes
    <3>2. <<t, d, v>> \in DOMAIN loads /\ loads[<<t, d, v>>] \in Nat
      BY DEF TypeOK
    <3>3. loads'[<<t, d, v>>] > 0
      BY <1>4, <3>1, <3>2 DEF HandleEstablishResponse
    <3> QED BY <3>3 DEF Owes
  <2> QED BY <1>1, <1>4, <2>1, Undisturbed DEF HandleEstablishResponse, TypeOK
<1>5. ASSUME Connection
      PROVE  BarrierInv'
  BY <1>2, <1>3, <1>4, <1>5, RemovalBarrier DEF Connection
<1>6. ASSUME NEW c \in NetChannels, NEW d \in Docs,
             \/ \E S : HandleSyncResponse(c, d, S) \/ HandleUpdate(c, d, S)
             \/ \E a : HandleStatus(c, d, a)
             \/ HandleNewDoc(c, d)
      PROVE  BarrierInv'
  <2>1. /\ UNCHANGED <<channels, pendingStorage, pendingReqs, requester, answer, loads>>
        /\ documents \subseteq documents'
    BY <1>6 DEF HandleSyncResponse, HandleUpdate, HandleStatus, HandleNewDoc,
                modelVars
  <2> QED BY <1>1, <2>1, Undisturbed DEF Owes
<1>7. ASSUME NetworkMessage
      PROVE  BarrierInv'
  <2>1. PICK c \in NetChannels, d \in Docs : MessageFrom(c, d)
    BY <1>7 DEF NetworkMessage
  <2>2. CASE \E r \in Requests : HandleSyncRequest(c, d, r)
    BY <2>2, RequestBarrierInv
  <2>3. CASE HandleDeleteRequest(c, d)
    BY <2>3, DeleteBarrier DEF HandleDeleteRequest
  <2> QED BY <1>6, <2>1, <2>2, <2>3 DEF MessageFrom
<1>8. ASSUME Application
      PROVE  BarrierInv'
  <2>1. ASSUME NEW d \in Docs, DocEnsure(d)
        PROVE  BarrierInv'
    <3>1. \A s \in StorageChannels, e \in Docs : Owes(s, e) => Owes(s, e)'
      BY <2>1, StartLoadsOwes DEF DocEnsure
    <3> QED BY <1>1, <2>1, <3>1, Undisturbed DEF DocEnsure
  <2>2. ASSUME NEW d \in Docs, NEW o \in LocalOps, LocalDocChange(d, o)
        PROVE  BarrierInv'
    BY <1>1, <2>2, Undisturbed DEF LocalDocChange, Owes
  <2> QED BY <1>8, <2>1, <2>2, DeleteBarrier DEF Application, DocDelete
<1>9. CASE UNCHANGED vars
  BY <1>1, <1>9, Undisturbed DEF vars, modelVars, Owes
<1> QED BY <1>5, <1>7, <1>8, <1>9, LoadBarrier DEF Next

(* IInv is an invariant.                                                   *)
LEMMA Inductive == Spec => []IInv
<1>1. Init => IInv
  BY InitType, InitBarrier DEF IInv
<1>2. IInv /\ [Next]_vars => IInv'
  BY NextType, NextBarrier DEF IInv
<1> QED BY <1>1, <1>2, PTL DEF Spec

(* The waits of storage-first synchronization are sound: whatever is       *)
(* parked waits for storage, whatever is waited for is still owed, and     *)
(* whoever waits can still be answered, once.                              *)
THEOREM BarrierSound ==
  Spec => [](ParkedAwaitsStorage /\ WaitIsOwed /\ ParkedIsAnswerable)
<1>1. IInv => ParkedAwaitsStorage /\ WaitIsOwed /\ ParkedIsAnswerable
  BY DEF IInv, BarrierInv
<1> QED BY <1>1, Inductive, PTL

-----------------------------------------------------------------------------
(* Storage-first implements the request barrier.  Each action is a step of *)
(* the barrier or leaves it alone.                                         *)

Answered == {r \in Requests : answer[r] # NoAnswer}

LEMMA InitRefines == Init => Barrier!Init
BY DEF Init, Barrier!Init

(* The requests Q are answered with a version.                             *)
LEMMA AnswerAdds ==
  ASSUME TypeOK, NEW Q \in SUBSET Requests, NEW v \in SUBSET Ops, Answer(Q, v)
  PROVE  Answered' = Answered \cup Q
BY OpAssumption DEF Answer, Answered, TypeOK

LEMMA RemovalRefines ==
  ASSUME IInv, NEW c \in Channels, ChannelRemoved(c)
  PROVE  Barrier!Next
<1> USE DEF IInv, BarrierInv
<1>1. CASE c \in StorageChannels
  <2> DEFINE released == {d \in Docs : pendingStorage[d] = {c}}
  <2>1. Drained(c) = released
    BY DEF Drained, ParkedAwaitsStorage, TypeOK
  <2>2. pendingStorage' = [d \in Docs |-> IF d \in Docs THEN pendingStorage[d] \ {c}
                                          ELSE pendingStorage[d]]
    BY DEF ChannelRemoved
  <2>3. ASSUME NEW d \in Docs
        PROVE  ParkedElsewhere(c, d) = pendingReqs[d]
    <3>1. \A r \in pendingReqs[d] : requester[r] \in NetChannels
      BY DEF ParkedIsAnswerable
    <3>2. c \notin NetChannels
      BY <1>1, ChannelAssumption
    <3> QED BY <3>1, <3>2 DEF ParkedElsewhere
  <2>4. pendingReqs' = [d \in Docs |-> IF d \in released THEN {} ELSE pendingReqs[d]]
    BY <2>1, <2>3 DEF ChannelRemoved
  <2>5. Answered' = Answered \cup UNION {pendingReqs[d] : d \in released}
    <3>1. \A r \in Requests :
            answer'[r] = IF \E d \in released : r \in pendingReqs[d]
                         THEN Version(CHOOSE d \in released : r \in pendingReqs[d])
                         ELSE answer[r]
      BY <2>1 DEF ChannelRemoved
    <3>2. \A r \in Requests : (\E d \in released : r \in pendingReqs[d]) =>
             Version(CHOOSE d \in released : r \in pendingReqs[d]) # NoAnswer
      <4>1. \A d \in Docs : Version(d) # NoAnswer
        BY VersionType, OpAssumption
      <4> QED BY <4>1
    <3>3. \A r \in Requests : r \in Answered' <=>
             r \in Answered \/ \E d \in released : r \in pendingReqs[d]
      BY <3>1, <3>2 DEF Answered
    <3>4. \A d \in released : pendingReqs[d] \subseteq Requests
      BY DEF TypeOK
    <3>5. Answered' \subseteq Requests /\ Answered \subseteq Requests
      BY DEF Answered
    <3> QED BY <3>3, <3>4, <3>5
  <2>6. Barrier!Report(c, Docs)
    BY <2>2, <2>4, <2>5 DEF Barrier!Report, Answered
  <2> QED BY <1>1, <2>6 DEF Barrier!Next
<1>2. CASE c \in NetChannels
  <2> DEFINE Q == {r \in Requests : requester[r] = c}
  <2>1. \A d \in Docs : c \notin pendingStorage[d]
    BY <1>2, ChannelAssumption DEF TypeOK
  <2>2. Drained(c) = {}
    BY <2>1 DEF Drained, TypeOK
  <2>3. pendingStorage' = pendingStorage
    BY <2>1 DEF ChannelRemoved, TypeOK
  <2>4. pendingReqs' = [d \in Docs |-> pendingReqs[d] \ Q]
    <3>1. \A d \in Docs : ParkedElsewhere(c, d) = pendingReqs[d] \ Q
      BY DEF ParkedElsewhere, TypeOK
    <3> QED BY <2>2, <3>1 DEF ChannelRemoved
  <2>5. answer' = answer
    BY <2>2 DEF ChannelRemoved, TypeOK
  <2>6. Barrier!GiveUp(Q)
    BY <2>3, <2>4, <2>5 DEF Barrier!GiveUp
  <2>7. Q \in SUBSET Requests OBVIOUS
  <2> QED BY <2>6, <2>7 DEF Barrier!Next
<1> QED BY <1>1, <1>2 DEF Channels

LEMMA RequestRefines ==
  ASSUME IInv, NEW c \in NetChannels, NEW d \in Docs, NEW r \in Requests,
         HandleSyncRequest(c, d, r)
  PROVE  [Barrier!Next]_Barrier!barrierVars
<1>1. /\ \A e \in Docs : r \notin pendingReqs[e]
      /\ answer[r] = NoAnswer
  BY ReceivedIsNew DEF HandleSyncRequest, RequestDenied, RequestConsults,
                       RequestAnswered, RequestParked
<1>2. Barrier!IsNew(r)
  BY <1>1 DEF Barrier!IsNew
<1>3. d \notin documents => pendingStorage[d] = {}
  BY DEF IInv, BarrierInv, ParkedAwaitsStorage
<1>4. CASE RequestDenied(c, d, r)
  BY <1>4 DEF RequestDenied, Barrier!barrierVars
<1>5. CASE RequestConsults(c, d, r)
  <2>1. Barrier!Open(d, r, StorageIds)
    BY <1>2, <1>3, <1>5 DEF RequestConsults, Barrier!Open
  <2>2. StorageIds \in SUBSET StorageChannels
    BY DEF StorageIds
  <2> QED BY <2>1, <2>2 DEF Barrier!Next
<1>6. CASE RequestAnswered(c, d, r)
  <2>1. /\ pendingStorage[d] = {}
        /\ Answer({r}, Version(d))
        /\ UNCHANGED <<pendingStorage, pendingReqs>>
    BY <1>3, <1>6 DEF RequestAnswered
  <2>2. Answered' = Answered \cup {r}
    BY <2>1, VersionType, AnswerAdds DEF IInv
  <2>3. Barrier!Pass(d, r)
    BY <1>2, <2>1, <2>2 DEF Barrier!Pass, Answered
  <2> QED BY <2>3 DEF Barrier!Next
<1>7. CASE RequestParked(c, d, r)
  <2>1. Barrier!Join(d, r)
    BY <1>2, <1>7 DEF RequestParked, WithParked, Barrier!Join
  <2> QED BY <2>1 DEF Barrier!Next
<1> QED BY <1>4, <1>5, <1>6, <1>7 DEF HandleSyncRequest

LEMMA LoadRefines ==
  ASSUME IInv, NEW s \in StorageChannels, NEW d \in Docs, LoadSettles(s, d)
  PROVE  Barrier!Next
<1> USE DEF IInv
<1> PICK v \in SUBSET Ops, ok \in BOOLEAN : StorageReplies(s, d, v, ok)
  BY DEF LoadSettles
<1> DEFINE answered == IF LastReply(s, d) THEN pendingReqs[d] ELSE {}
           released == {e \in {d} : pendingStorage[e] = {s}}
<1>1. PICK w \in SUBSET Ops : Answer(answered, w)
  <2> DEFINE kind     == Reply(s, d, v, ok)
             imported == kind = "update" /\ Permits("mutability", s, d)
             log      == IF imported THEN oplog[d] \cup (Persisted[s][d] \ v)
                         ELSE oplog[d]
  <2>1. log \in SUBSET Ops BY OpAssumption DEF TypeOK
  <2>2. Applied(log) \in SUBSET Ops
    <3> HIDE DEF log
    <3> QED BY <2>1, AppliedType
  <2> QED BY <2>2 DEF StorageReplies
<1>2. answered \in SUBSET Requests
  BY DEF TypeOK
<1>3. Answered' = Answered \cup answered
  <2> HIDE DEF answered
  <2> QED BY <1>1, <1>2, AnswerAdds
<1>4. answered = UNION {pendingReqs[e] : e \in released}
  BY DEF LastReply
<1>5. pendingStorage' = [e \in Docs |-> IF e \in {d} THEN pendingStorage[e] \ {s}
                                        ELSE pendingStorage[e]]
  BY DEF StorageReplies, TypeOK
<1>6. pendingReqs' = [e \in Docs |-> IF e \in released THEN {} ELSE pendingReqs[e]]
  BY DEF StorageReplies, TypeOK, LastReply
<1>7. Barrier!Report(s, {d})
  BY <1>3, <1>4, <1>5, <1>6 DEF Barrier!Report, Answered
<1>8. {d} \in SUBSET Docs OBVIOUS
<1> QED BY <1>7, <1>8 DEF Barrier!Next

LEMMA DeleteRefines ==
  ASSUME NEW d \in Docs, RemoveDocument(d)
  PROVE  Barrier!Next
<1>1. Barrier!Close(d)
  BY DEF RemoveDocument, Barrier!Close
<1> QED BY <1>1 DEF Barrier!Next

LEMMA NextRefines == IInv /\ [Next]_vars => [Barrier!Next]_Barrier!barrierVars
<1> SUFFICES ASSUME IInv, [Next]_vars
             PROVE  [Barrier!Next]_Barrier!barrierVars
  OBVIOUS
<1>1. ASSUME UNCHANGED <<pendingStorage, pendingReqs, answer>>
      PROVE  UNCHANGED Barrier!barrierVars
  BY <1>1 DEF Barrier!barrierVars
<1>2. CASE Connection
  <2>1. CASE \E c \in Channels : ChannelRemoved(c)
    BY <2>1, RemovalRefines
  <2>2. CASE \/ \E c \in Channels : ChannelAdded(c)
             \/ \E c \in NetChannels : HandleEstablishRequest(c)
             \/ \E s \in StorageChannels : HandleEstablishResponse(s)
    BY <1>1, <2>2 DEF ChannelAdded, HandleEstablishRequest,
                      HandleEstablishResponse
  <2> QED BY <1>2, <2>1, <2>2 DEF Connection
<1>3. CASE NetworkMessage
  <2>1. PICK c \in NetChannels, d \in Docs : MessageFrom(c, d)
    BY <1>3 DEF NetworkMessage
  <2>2. CASE \E r \in Requests : HandleSyncRequest(c, d, r)
    BY <2>2, RequestRefines
  <2>3. CASE HandleDeleteRequest(c, d)
    BY <2>3, DeleteRefines DEF HandleDeleteRequest
  <2>4. CASE \/ \E S : HandleSyncResponse(c, d, S) \/ HandleUpdate(c, d, S)
             \/ \E a : HandleStatus(c, d, a)
             \/ HandleNewDoc(c, d)
    BY <1>1, <2>4 DEF HandleSyncResponse, HandleUpdate, HandleStatus,
                      HandleNewDoc, modelVars
  <2> QED BY <2>1, <2>2, <2>3, <2>4 DEF MessageFrom
<1>4. CASE Application
  BY <1>1, <1>4, DeleteRefines DEF Application, DocEnsure, DocDelete,
                                   LocalDocChange
<1>5. CASE \E s \in StorageChannels, d \in Docs : LoadSettles(s, d)
  BY <1>5, LoadRefines
<1>6. CASE UNCHANGED vars
  BY <1>1, <1>6 DEF vars, modelVars
<1> QED BY <1>2, <1>3, <1>4, <1>5, <1>6 DEF Next

(* Storage-first synchronization implements the request barrier.           *)
THEOREM Refinement == Spec => ImplementsBarrier
BY InitRefines, Inductive, NextRefines, PTL
   DEF Spec, ImplementsBarrier, Barrier!Spec

(* Waits are for something.                                                *)
THEOREM WaitsAreOwed == Spec => []WaitIsOwed
<1>1. IInv => WaitIsOwed
  BY DEF IInv, BarrierInv
<1> QED BY <1>1, Inductive, PTL

(* A parked request belongs to a channel that is still established, is     *)
(* parked once and was not answered.                                       *)
THEOREM ParkedAreAnswerable == Spec => []ParkedIsAnswerable
<1>1. IInv => ParkedIsAnswerable
  BY DEF IInv, BarrierInv
<1> QED BY <1>1, Inductive, PTL

-----------------------------------------------------------------------------
(* Why a request leaves the queue of d.                                    *)
LeftForCause(d, r) ==
  \/ answer'[r] # NoAnswer
  \/ channels'[requester[r]] # "established"
  \/ d \notin documents'

LEMMA RemovalForCause ==
  ASSUME IInv, NEW c \in Channels, ChannelRemoved(c),
         NEW d \in Docs, NEW r \in pendingReqs[d] \ pendingReqs'[d]
  PROVE  LeftForCause(d, r)
<1> USE DEF IInv
<1>1. r \in Requests
  BY DEF TypeOK
<1>2. CASE d \in Drained(c)
  <2> DEFINE e == CHOOSE x \in Drained(c) : r \in pendingReqs[x]
  <2>1. answer'[r] = Version(e) /\ e \in Docs
    BY <1>1, <1>2 DEF ChannelRemoved, Drained, TypeOK
  <2> HIDE DEF e
  <2>2. Version(e) # NoAnswer
    BY <2>1, VersionType, OpAssumption
  <2> QED BY <2>1, <2>2 DEF LeftForCause
<1>3. CASE d \notin Drained(c)
  <2>1. requester[r] = c
    BY <1>3 DEF ChannelRemoved, ParkedElsewhere
  <2>2. channels'[c] = "removed"
    BY DEF ChannelRemoved, TypeOK
  <2> QED BY <2>1, <2>2 DEF LeftForCause
<1> QED BY <1>2, <1>3

LEMMA LoadForCause ==
  ASSUME IInv, NEW s \in StorageChannels, NEW x \in Docs, LoadSettles(s, x),
         NEW d \in Docs, NEW r \in pendingReqs[d] \ pendingReqs'[d]
  PROVE  LeftForCause(d, r)
<1> USE DEF IInv
<1> PICK v \in SUBSET Ops, ok \in BOOLEAN : StorageReplies(s, x, v, ok)
  BY DEF LoadSettles
<1> DEFINE answered == IF LastReply(s, x) THEN pendingReqs[x] ELSE {}
<1>1. PICK w \in SUBSET Ops : Answer(answered, w)
  <2> DEFINE kind     == Reply(s, x, v, ok)
             imported == kind = "update" /\ Permits("mutability", s, x)
             log      == IF imported THEN oplog[x] \cup (Persisted[s][x] \ v)
                         ELSE oplog[x]
  <2>1. log \in SUBSET Ops BY OpAssumption DEF TypeOK
  <2>2. Applied(log) \in SUBSET Ops
    <3> HIDE DEF log
    <3> QED BY <2>1, AppliedType
  <2> QED BY <2>2 DEF StorageReplies
<1>2. pendingReqs' = [pendingReqs EXCEPT ![x] = @ \ answered]
  BY DEF StorageReplies
<1>3. r \in answered /\ r \in Requests
  BY <1>2 DEF TypeOK
<1>4. answer'[r] = w
  BY <1>1, <1>3 DEF Answer
<1> QED BY <1>4, OpAssumption DEF LeftForCause

LEMMA NextForCause ==
  ASSUME IInv, [Next]_vars, NEW d \in Docs, NEW r \in pendingReqs[d] \ pendingReqs'[d]
  PROVE  LeftForCause(d, r)
<1> USE DEF IInv
<1>1. CASE Connection
  BY <1>1, RemovalForCause
     DEF Connection, ChannelAdded, HandleEstablishRequest, HandleEstablishResponse
<1>2. CASE NetworkMessage
  <2> PICK c \in NetChannels, x \in Docs : MessageFrom(c, x)
    BY <1>2 DEF NetworkMessage
  <2>1. ASSUME NEW q \in Requests, HandleSyncRequest(c, x, q)
        PROVE  FALSE
    <3>1. x \notin documents => pendingReqs[x] = {}
      BY DEF BarrierInv, ParkedAwaitsStorage
    <3> QED BY <2>1, <3>1 DEF HandleSyncRequest, RequestDenied, RequestConsults,
              RequestAnswered, RequestParked, WithParked, TypeOK
  <2>2. CASE HandleDeleteRequest(c, x)
    BY <2>2 DEF HandleDeleteRequest, RemoveDocument, TypeOK, LeftForCause
  <2>3. CASE UNCHANGED pendingReqs
    BY <2>3
  <2> QED BY <2>1, <2>2, <2>3 DEF MessageFrom, HandleSyncResponse, HandleUpdate, HandleStatus,
                                  HandleNewDoc, modelVars
<1>3. CASE Application
  BY <1>3 DEF Application, DocEnsure, DocDelete, LocalDocChange, RemoveDocument,
              TypeOK, LeftForCause
<1>4. CASE \E s \in StorageChannels, x \in Docs : LoadSettles(s, x)
  BY <1>4, LoadForCause
<1>5. CASE UNCHANGED vars
  BY <1>5 DEF vars, modelVars
<1> QED BY <1>1, <1>2, <1>3, <1>4, <1>5 DEF Next

(* A parked request is never lost: it is answered, or its channel or its   *)
(* document is gone.                                                       *)
THEOREM ParkedNeverLost == Spec => ParkedLeavesForCause
<1>1. IInv /\ [Next]_vars =>
        [\A d \in Docs : \A r \in pendingReqs[d] \ pendingReqs'[d] :
           \/ answer'[r] # NoAnswer
           \/ channels'[requester[r]] # "established"
           \/ d \notin documents']_vars
  BY NextForCause DEF LeftForCause
<1> QED BY <1>1, Inductive, PTL DEF Spec, ParkedLeavesForCause

-----------------------------------------------------------------------------
(* What storage holds reaches a parked request, when nothing is deleted.   *)

(* An outstanding read starts from a version the document still has.       *)
ReadsBelow ==
  \A s \in StorageChannels, d \in Docs, v \in SUBSET Ops :
    loads[<<s, d, v>>] > 0 => v \subseteq Version(d)

(* Nothing more is to be expected of storage channel s for document d.     *)
HeardFrom(s, d) ==
  \/ channels[s] # "established"
  \/ <<s, d>> \in failed
  \/ ~ Permits("mutability", s, d)
  \/ Persisted[s][d] \subseteq Version(d)

(* While a document waits, it was heard of whom it was first asked of, or  *)
(* waits for them.                                                         *)
ConsultedHeard ==
  \A d \in Docs : pendingStorage[d] # {} =>
    \A s \in consulted[d] :
      /\ channels[s] \in {"established", "removed"}
      /\ s \in pendingStorage[d] \/ HeardFrom(s, d)

HeardInv == IInv /\ ReadsBelow /\ ConsultedHeard

LEMMA AppliedGrows ==
  ASSUME NEW S, NEW T, S \subseteq T
  PROVE  Applied(S) \subseteq Applied(T)
BY DEF Applied

LEMMA NothingDeleted ==
  ASSUME MaxDeletes = 0, IInv, NEW d, RemoveDocument(d)
  PROVE  FALSE
BY DEF IInv, TypeOK, RemoveDocument

LEMMA LogGrows ==
  ASSUME MaxDeletes = 0, IInv, [Next]_vars, NEW d \in Docs
  PROVE  oplog[d] \subseteq oplog'[d]
<1> USE DEF IInv
<1>1. ASSUME NEW x \in Docs, NEW S, oplog' = [oplog EXCEPT ![x] = oplog[x] \cup S]
      PROVE  oplog[d] \subseteq oplog'[d]
  BY <1>1 DEF TypeOK
<1>2. CASE Connection
  BY <1>2 DEF Connection, ChannelAdded, ChannelRemoved, HandleEstablishRequest,
              HandleEstablishResponse
<1>3. CASE NetworkMessage
  <2> PICK c \in NetChannels, x \in Docs : MessageFrom(c, x)
    BY <1>3 DEF NetworkMessage
  <2>1. ASSUME NEW S, HandleSyncResponse(c, x, S) \/ HandleUpdate(c, x, S)
        PROVE  oplog[d] \subseteq oplog'[d]
    BY <1>1, <2>1 DEF HandleSyncResponse, HandleUpdate, Import
  <2>2. CASE \E q \in Requests : HandleSyncRequest(c, x, q)
    BY <2>2 DEF HandleSyncRequest, RequestDenied, RequestConsults,
                RequestAnswered, RequestParked, ReceiveRequest
  <2>3. CASE HandleDeleteRequest(c, x)
    BY <2>3, NothingDeleted DEF HandleDeleteRequest
  <2>4. CASE UNCHANGED oplog
    BY <2>4
  <2> QED BY <2>1, <2>2, <2>3, <2>4 DEF MessageFrom, HandleStatus, HandleNewDoc, modelVars
<1>4. CASE Application
  BY <1>1, <1>4, NothingDeleted DEF Application, DocEnsure, DocDelete, LocalDocChange
<1>5. CASE \E s \in StorageChannels, x \in Docs : LoadSettles(s, x)
  <2> PICK s \in StorageChannels, x \in Docs, v \in SUBSET Ops, ok \in BOOLEAN :
             StorageReplies(s, x, v, ok)
    BY <1>5 DEF LoadSettles
  <2>1. oplog' = [oplog EXCEPT ![x] = oplog[x] \cup (Persisted[s][x] \ v)]
        \/ oplog' = [oplog EXCEPT ![x] = oplog[x] \cup {}]
    BY DEF StorageReplies
  <2> QED BY <1>1, <2>1
<1>6. CASE UNCHANGED vars
  BY <1>6 DEF vars, modelVars
<1> QED BY <1>2, <1>3, <1>4, <1>5, <1>6 DEF Next

LEMMA VersionGrows ==
  ASSUME MaxDeletes = 0, IInv, [Next]_vars, NEW d \in Docs
  PROVE  Version(d) \subseteq Version(d)'
BY LogGrows, AppliedGrows DEF Version

(* A channel that is gone does not come back, a failure is not forgotten.  *)
LEMMA ChannelsEnd ==
  ASSUME IInv, [Next]_vars
  PROVE  /\ \A c \in Channels :
              /\ channels[c] = "removed" => channels'[c] = "removed"
              /\ channels[c] = "established" => channels'[c] \in {"established", "removed"}
         /\ failed \subseteq failed'
<1> USE DEF IInv, TypeOK
<1>1. CASE Connection
  BY <1>1 DEF Connection, ChannelAdded, ChannelRemoved, HandleEstablishRequest,
              HandleEstablishResponse, ghostVars, Channels
<1>2. CASE NetworkMessage
  <2>1. UNCHANGED <<channels, failed>>
    <3> PICK c \in NetChannels, x \in Docs : MessageFrom(c, x)
      BY <1>2 DEF NetworkMessage
    <3> QED BY DEF MessageFrom, HandleSyncRequest, RequestDenied, RequestConsults,
              RequestAnswered, RequestParked, ReceiveRequest, HandleSyncResponse,
              HandleUpdate, HandleStatus, HandleNewDoc, HandleDeleteRequest,
              RemoveDocument, modelVars
  <2> QED BY <2>1
<1>3. CASE Application
  BY <1>3 DEF Application, DocEnsure, DocDelete, LocalDocChange, RemoveDocument,
              ghostVars
<1>4. CASE \E s \in StorageChannels, d \in Docs : LoadSettles(s, d)
  BY <1>4 DEF LoadSettles, StorageReplies
<1>5. CASE UNCHANGED vars
  BY <1>5 DEF vars, modelVars, ghostVars
<1> QED BY <1>1, <1>2, <1>3, <1>4, <1>5 DEF Next

(* The reads that start.                                                   *)
LEMMA NextReadsBelow ==
  ASSUME MaxDeletes = 0, IInv, ReadsBelow, [Next]_vars
  PROVE  ReadsBelow'
<1> USE DEF IInv
<1> SUFFICES ASSUME NEW s \in StorageChannels, NEW d \in Docs, NEW v \in SUBSET Ops,
                    loads'[<<s, d, v>>] > 0
             PROVE  v \subseteq Version(d)'
  BY DEF ReadsBelow
<1>1. Version(d) \subseteq Version(d)'
  BY VersionGrows
<1>2. loads[<<s, d, v>>] > 0 => v \subseteq Version(d)'
  BY <1>1 DEF ReadsBelow
<1>3. <<s, d, v>> \in DOMAIN loads /\ loads[<<s, d, v>>] \in Nat
  BY DEF TypeOK
<1>4. ASSUME NEW S, NEW x, StartLoads(S, x, {})
      PROVE  v \subseteq Version(d)'
  BY <1>2, <1>3, <1>4 DEF StartLoads
<1>5. CASE Connection
  <2>1. ASSUME NEW t \in StorageChannels, HandleEstablishResponse(t)
        PROVE  v \subseteq Version(d)'
    <3>1. loads'[<<s, d, v>>] = loads[<<s, d, v>>] \/ v = Version(d)
      BY <1>3, <2>1 DEF HandleEstablishResponse
    <3> QED BY <1>1, <1>2, <3>1
  <2>2. ASSUME NEW c \in Channels, ChannelRemoved(c)
        PROVE  v \subseteq Version(d)'
    <3>1. loads'[<<s, d, v>>] = loads[<<s, d, v>>] \/ loads'[<<s, d, v>>] = 0
      BY <1>3, <2>2 DEF ChannelRemoved
    <3> QED BY <1>2, <3>1
  <2>3. CASE UNCHANGED loads
    BY <1>2, <2>3
  <2> QED BY <1>5, <2>1, <2>2, <2>3 DEF Connection, ChannelAdded, HandleEstablishRequest
<1>6. CASE NetworkMessage
  <2> PICK c \in NetChannels, x \in Docs : MessageFrom(c, x)
    BY <1>6 DEF NetworkMessage
  <2>1. ASSUME NEW q \in Requests, HandleSyncRequest(c, x, q)
        PROVE  v \subseteq Version(d)'
    <3>1. UNCHANGED loads \/ StartLoads(StorageIds, x, {})
      BY <2>1 DEF HandleSyncRequest, RequestDenied, RequestConsults,
                  RequestAnswered, RequestParked
    <3> QED BY <1>2, <1>4, <3>1
  <2>2. CASE UNCHANGED loads
    BY <1>2, <2>2
  <2> QED BY <2>1, <2>2 DEF MessageFrom, HandleSyncResponse, HandleUpdate, HandleStatus,
              HandleNewDoc, HandleDeleteRequest, RemoveDocument
<1>7. CASE Application
  <2>1. UNCHANGED loads \/ \E S, x : StartLoads(S, x, {})
    BY <1>7 DEF Application, DocEnsure, DocDelete, LocalDocChange, RemoveDocument
  <2> QED BY <1>2, <1>4, <2>1
<1>8. CASE \E t \in StorageChannels, x \in Docs : LoadSettles(t, x)
  <2> PICK t \in StorageChannels, x \in Docs, w \in SUBSET Ops, ok \in BOOLEAN :
             StorageReplies(t, x, w, ok)
    BY <1>8 DEF LoadSettles
  <2>1. /\ loads[<<t, x, w>>] > 0
        /\ loads' = [loads EXCEPT ![<<t, x, w>>] = @ - 1]
    BY DEF StorageReplies
  <2>2. loads[<<s, d, v>>] > 0
    BY <1>3, <2>1
  <2> QED BY <1>2, <2>2
<1>9. CASE UNCHANGED vars
  BY <1>2, <1>9 DEF vars
<1> QED BY <1>5, <1>6, <1>7, <1>8, <1>9 DEF Next

LEMMA HeardForGood ==
  ASSUME MaxDeletes = 0, IInv, [Next]_vars, NEW d \in Docs, NEW s \in StorageChannels,
         channels[s] \in {"established", "removed"}, HeardFrom(s, d)
  PROVE  HeardFrom(s, d)'
<1>1. Version(d) \subseteq Version(d)'
  BY VersionGrows
<1>2. failed \subseteq failed' /\ (channels[s] # "established" => channels'[s] # "established")
  BY ChannelsEnd DEF Channels
<1> QED BY <1>1, <1>2 DEF HeardFrom, Permits

(* An adapter that replied was heard of: its failure is on record, it may  *)
(* not write, or the document has what it holds.                           *)
LEMMA ReplyIsHeard ==
  ASSUME IInv, ReadsBelow, NEW s \in StorageChannels, NEW d \in Docs,
         NEW v \in SUBSET Ops, NEW ok \in BOOLEAN, StorageReplies(s, d, v, ok)
  PROVE  HeardFrom(s, d)'
<1> DEFINE kind     == Reply(s, d, v, ok)
           imported == kind = "update" /\ Permits("mutability", s, d)
           log      == IF imported THEN oplog[d] \cup (Persisted[s][d] \ v)
                       ELSE oplog[d]
<1>1. /\ loads[<<s, d, v>>] > 0
      /\ oplog' = [oplog EXCEPT ![d] = log]
      /\ failed' = IF ok THEN failed ELSE failed \cup {<<s, d>>}
  BY DEF StorageReplies
<1>2. v \subseteq oplog[d] /\ v \subseteq Version(d)
  BY <1>1 DEF ReadsBelow, Version, Applied
<1>3. Version(d)' = Applied(log)
  <2>1. oplog'[d] = log
    BY <1>1 DEF IInv, TypeOK
  <2> QED BY <2>1 DEF Version
<1> SUFFICES ASSUME ok, Permits("mutability", s, d)
             PROVE  Persisted[s][d] \subseteq Applied(log)
  BY <1>1, <1>3 DEF HeardFrom, Permits
<1>4. CASE kind = "update"
  <2>1. Persisted[s][d] \subseteq log
    BY <1>2, <1>4
  <2> HIDE DEF log
  <2> QED BY <2>1, PersistedClosed DEF Applied
<1>5. CASE kind # "update"
  <2>1. Persisted[s][d] \subseteq v
    BY <1>5 DEF Reply
  <2>2. log = oplog[d]
    BY <1>5
  <2> QED BY <1>2, <2>1, <2>2 DEF Version
<1> QED BY <1>4, <1>5

(* A storage channel leaves the wait of a document once it was heard of.   *)
LEMMA WaitEndsHeard ==
  ASSUME MaxDeletes = 0, IInv, ReadsBelow, [Next]_vars, NEW d \in Docs,
         NEW s \in pendingStorage[d] \ pendingStorage'[d]
  PROVE  HeardFrom(s, d)'
<1> USE DEF IInv
<1>1. s \in StorageChannels
  BY DEF TypeOK
<1>2. CASE Connection
  <2>1. PICK c \in Channels : ChannelRemoved(c)
    BY <1>2 DEF Connection, ChannelAdded, HandleEstablishRequest, HandleEstablishResponse
  <2>2. s = c /\ channels'[c] = "removed"
    BY <2>1 DEF ChannelRemoved, TypeOK
  <2> QED BY <2>2 DEF HeardFrom
<1>3. CASE NetworkMessage
  <2> PICK c \in NetChannels, x \in Docs : MessageFrom(c, x)
    BY <1>3 DEF NetworkMessage
  <2>1. ASSUME NEW q \in Requests, HandleSyncRequest(c, x, q)
        PROVE  FALSE
    <3>1. x \notin documents => pendingStorage[x] = {}
      BY DEF BarrierInv, ParkedAwaitsStorage
    <3> QED BY <2>1, <3>1 DEF HandleSyncRequest, RequestDenied, RequestConsults,
              RequestAnswered, RequestParked, TypeOK
  <2>2. ~ HandleDeleteRequest(c, x)
    BY NothingDeleted DEF HandleDeleteRequest
  <2>3. ~ UNCHANGED pendingStorage
    OBVIOUS
  <2> QED BY <2>1, <2>2, <2>3 DEF MessageFrom, HandleSyncResponse, HandleUpdate, HandleStatus,
                                  HandleNewDoc, modelVars
<1>4. CASE Application
  BY <1>4, NothingDeleted DEF Application, DocEnsure, DocDelete, LocalDocChange
<1>5. CASE \E t \in StorageChannels, x \in Docs : LoadSettles(t, x)
  <2> PICK t \in StorageChannels, x \in Docs, v \in SUBSET Ops, ok \in BOOLEAN :
             StorageReplies(t, x, v, ok)
    BY <1>5 DEF LoadSettles
  <2>1. t = s /\ x = d
    BY DEF StorageReplies, TypeOK
  <2> QED BY <2>1, ReplyIsHeard
<1>6. CASE UNCHANGED vars
  BY <1>6 DEF vars, modelVars
<1> QED BY <1>2, <1>3, <1>4, <1>5, <1>6 DEF Next

(* A document that begins to wait, waits for those it is asked of.         *)
LEMMA WaitsForConsulted ==
  ASSUME MaxDeletes = 0, IInv, [Next]_vars, NEW d \in Docs, pendingStorage'[d] # {}
  PROVE  \/ pendingStorage[d] # {} /\ consulted'[d] = consulted[d]
         \/ /\ consulted'[d] = pendingStorage'[d]
            /\ \A s \in consulted'[d] : channels'[s] = "established"
<1> USE DEF IInv
<1>1. CASE Connection
  BY <1>1 DEF Connection, ChannelAdded, ChannelRemoved, HandleEstablishRequest,
              HandleEstablishResponse, ghostVars, TypeOK
<1>2. CASE NetworkMessage
  <2> PICK c \in NetChannels, x \in Docs : MessageFrom(c, x)
    BY <1>2 DEF NetworkMessage
  <2>1. ASSUME NEW q \in Requests, RequestConsults(c, x, q)
        PROVE  /\ d # x => pendingStorage'[d] = pendingStorage[d] /\ consulted'[d] = consulted[d]
               /\ consulted'[x] = pendingStorage'[x]
               /\ \A s \in consulted'[x] : channels'[s] = "established"
    BY <2>1 DEF RequestConsults, ReceiveRequest, StorageIds, Established, TypeOK
  <2>2. ~ HandleDeleteRequest(c, x)
    BY NothingDeleted DEF HandleDeleteRequest
  <2>3. CASE UNCHANGED <<pendingStorage, consulted>>
    BY <2>3
  <2> QED BY <2>1, <2>2, <2>3
          DEF MessageFrom, HandleSyncRequest, RequestDenied, RequestAnswered, RequestParked,
              HandleSyncResponse, HandleUpdate, HandleStatus, HandleNewDoc, modelVars
<1>3. CASE Application
  BY <1>3, NothingDeleted DEF Application, DocEnsure, DocDelete, LocalDocChange, ghostVars
<1>4. CASE \E t \in StorageChannels, x \in Docs : LoadSettles(t, x)
  BY <1>4 DEF LoadSettles, StorageReplies, TypeOK
<1>5. CASE UNCHANGED vars
  BY <1>5 DEF vars, modelVars, ghostVars
<1> QED BY <1>1, <1>2, <1>3, <1>4, <1>5 DEF Next

LEMMA NextHeard ==
  ASSUME MaxDeletes = 0, HeardInv, [Next]_vars
  PROVE  ConsultedHeard'
<1> USE DEF HeardInv
<1> SUFFICES ASSUME NEW d \in Docs, pendingStorage'[d] # {}, NEW s \in consulted'[d]
             PROVE  /\ channels'[s] \in {"established", "removed"}
                    /\ s \in pendingStorage'[d] \/ HeardFrom(s, d)'
  BY DEF ConsultedHeard
<1>1. CASE /\ consulted'[d] = pendingStorage'[d]
           /\ \A t \in consulted'[d] : channels'[t] = "established"
  BY <1>1
<1>2. CASE pendingStorage[d] # {} /\ consulted'[d] = consulted[d]
  <2>1. /\ channels[s] \in {"established", "removed"}
        /\ s \in pendingStorage[d] \/ HeardFrom(s, d)
        /\ s \in StorageChannels
    BY <1>2 DEF ConsultedHeard, IInv, TypeOK
  <2>2. channels'[s] \in {"established", "removed"}
    BY <2>1, ChannelsEnd DEF Channels
  <2> QED BY <2>1, <2>2, HeardForGood, WaitEndsHeard
<1> QED BY <1>1, <1>2, WaitsForConsulted

(* A parked request is answered with the whole document, and by the step   *)
(* that ends the wait.                                                     *)
LEMMA AnswerIsVersion ==
  ASSUME IInv, [Next]_vars, NEW d \in Docs, NEW r \in pendingReqs[d], answer'[r] # NoAnswer
  PROVE  answer'[r] = Version(d)' /\ pendingStorage'[d] = {}
<1> USE DEF IInv
<1>1. /\ r \in Requests /\ answer[r] = NoAnswer /\ requester[r] \in NetChannels
      /\ \A e \in Docs : r \in pendingReqs[e] => e = d
  BY DEF TypeOK, BarrierInv, ParkedIsAnswerable
<1>2. answer' # answer
  BY <1>1
<1>3. CASE Connection
  <2> PICK c \in Channels : ChannelRemoved(c)
    BY <1>2, <1>3 DEF Connection, ChannelAdded, HandleEstablishRequest, HandleEstablishResponse
  <2>1. d \in Drained(c)
    BY <1>1 DEF ChannelRemoved, Drained, TypeOK
  <2>2. (CHOOSE x \in Drained(c) : r \in pendingReqs[x]) = d
    BY <1>1, <2>1 DEF Drained, TypeOK
  <2>3. answer'[r] = Version(d)
    BY <1>1, <2>1, <2>2 DEF ChannelRemoved
  <2>4. Version(d)' = Version(d) /\ pendingStorage'[d] = {}
    BY <2>1 DEF ChannelRemoved, Version, Applied, Drained
  <2> QED BY <2>3, <2>4
<1>4. CASE NetworkMessage
  <2> PICK c \in NetChannels, x \in Docs : MessageFrom(c, x)
    BY <1>4 DEF NetworkMessage
  <2>1. ASSUME NEW q \in Requests, HandleSyncRequest(c, x, q)
        PROVE  FALSE
    <3>1. RequestAnswered(c, x, q) /\ q # r
      BY <1>1, <1>2, <2>1, ChannelAssumption
         DEF HandleSyncRequest, RequestDenied, RequestAnswered, RequestConsults,
             RequestParked, ReceiveRequest, Channels
    <3> QED BY <1>1, <3>1 DEF RequestAnswered, Answer
  <2> QED BY <1>2, <2>1 DEF MessageFrom, HandleSyncResponse, HandleUpdate, HandleStatus,
                            HandleNewDoc, HandleDeleteRequest, RemoveDocument
<1>5. CASE Application
  BY <1>2, <1>5 DEF Application, DocEnsure, DocDelete, LocalDocChange, RemoveDocument
<1>6. CASE \E s \in StorageChannels, x \in Docs : LoadSettles(s, x)
  <2> PICK s \in StorageChannels, x \in Docs, v \in SUBSET Ops, ok \in BOOLEAN :
             StorageReplies(s, x, v, ok)
    BY <1>6 DEF LoadSettles
  <2> DEFINE kind     == Reply(s, x, v, ok)
             imported == kind = "update" /\ Permits("mutability", s, x)
             log      == IF imported THEN oplog[x] \cup (Persisted[s][x] \ v)
                         ELSE oplog[x]
             answered == IF LastReply(s, x) THEN pendingReqs[x] ELSE {}
  <2>1. /\ Answer(answered, Applied(log))
        /\ oplog' = [oplog EXCEPT ![x] = log]
        /\ pendingStorage' = [pendingStorage EXCEPT ![x] = @ \ {s}]
    BY DEF StorageReplies
  <2> HIDE DEF log
  <2>2. r \in answered
    BY <1>1, <2>1 DEF Answer
  <2>3. x = d /\ LastReply(s, x)
    BY <1>1, <2>2
  <2>4. answer'[r] = Applied(log)
    BY <1>1, <2>1, <2>2 DEF Answer
  <2>5. oplog'[d] = log /\ pendingStorage'[d] = {}
    BY <2>1, <2>3 DEF TypeOK, LastReply
  <2> QED BY <2>4, <2>5 DEF Version
<1>7. CASE UNCHANGED vars
  BY <1>2, <1>7 DEF vars
<1> QED BY <1>3, <1>4, <1>5, <1>6, <1>7 DEF Next

LEMMA InitHeard == Init => ReadsBelow /\ ConsultedHeard
<1> SUFFICES ASSUME Init PROVE ReadsBelow /\ ConsultedHeard
  OBVIOUS
<1>1. ReadsBelow
  <2>1. ASSUME NEW s \in StorageChannels, NEW d \in Docs, NEW v \in SUBSET Ops
        PROVE  loads[<<s, d, v>>] = 0
    BY DEF Init
  <2> QED BY <2>1 DEF ReadsBelow
<1>2. ConsultedHeard
  BY DEF Init, ConsultedHeard
<1> QED BY <1>1, <1>2

LEMMA HeardInductive == MaxDeletes = 0 => (Spec => []HeardInv)
<1> SUFFICES ASSUME MaxDeletes = 0 PROVE Spec => []HeardInv
  OBVIOUS
<1>1. Init => ReadsBelow /\ ConsultedHeard
  BY InitHeard
<1>2. IInv /\ ReadsBelow /\ ConsultedHeard /\ [Next]_vars => ReadsBelow' /\ ConsultedHeard'
  BY NextReadsBelow, NextHeard DEF HeardInv
<1>3. IInv /\ ReadsBelow /\ ConsultedHeard => HeardInv
  BY DEF HeardInv
<1> QED BY <1>1, <1>2, <1>3, Inductive, PTL DEF Spec

(* No answer overtakes storage when no document is deleted.                *)
THEOREM StorageFirstHolds == MaxDeletes = 0 => (Spec => NoPrematureAnswer)
<1> SUFFICES ASSUME MaxDeletes = 0 PROVE Spec => NoPrematureAnswer
  OBVIOUS
<1>1. HeardInv /\ [Next]_vars =>
        [\A d \in Docs : \A r \in pendingReqs[d] :
           answer'[r] # NoAnswer =>
             \A s \in consulted[d] :
               \/ channels'[s] # "established"
               \/ <<s, d>> \in failed'
               \/ ~ Permits("mutability", s, d)
               \/ Persisted[s][d] \subseteq answer'[r]]_vars
  <2> SUFFICES ASSUME HeardInv, [Next]_vars, NEW d \in Docs, NEW r \in pendingReqs[d],
                      answer'[r] # NoAnswer, NEW s \in consulted[d]
               PROVE  \/ channels'[s] # "established"
                      \/ <<s, d>> \in failed'
                      \/ ~ Permits("mutability", s, d)
                      \/ Persisted[s][d] \subseteq answer'[r]
    OBVIOUS
  <2> USE DEF HeardInv
  <2>1. answer'[r] = Version(d)' /\ pendingStorage'[d] = {}
    BY AnswerIsVersion
  <2>2. pendingStorage[d] # {}
    BY DEF IInv, BarrierInv, ParkedAwaitsStorage
  <2>3. /\ channels[s] \in {"established", "removed"}
        /\ s \in pendingStorage[d] \/ HeardFrom(s, d)
        /\ s \in StorageChannels
    BY <2>2 DEF ConsultedHeard, IInv, TypeOK
  <2>4. HeardFrom(s, d)'
    BY <2>1, <2>3, HeardForGood, WaitEndsHeard
  <2> QED BY <2>1, <2>4 DEF HeardFrom, Permits
<1> QED BY <1>1, HeardInductive, PTL DEF Spec, NoPrematureAnswer

-----------------------------------------------------------------------------
(* Subscribers, when nothing is deleted and what peers bring needs nothing *)
(* else.                                                                   *)
PlainHistory == MaxDeletes = 0 /\ \A o \in RemoteOps : Deps[o] = {}

(* Nothing is held back for a missing dependency.                          *)
Gapless == \A d \in Docs : Version(d) = oplog[d]

NothingOfTheUnknown == \A d \in Docs \ documents : oplog[d] = {}

(* Only who was established subscribes.                                    *)
LateSubscribers ==
  \A c \in Channels :
    subscriptions[c] # {} => channels[c] \in {"established", "removed"}

Parks(c, d) == \E r \in pendingReqs[d] : requester[r] = c

(* The peer at c has what it is believed to have, or will be sent it with  *)
(* its answer; and has everything unless it waits for its answer.          *)
Served(c, d) ==
  /\ awareness[c][d].version \subseteq holds[c][d] \cup Version(d)
  /\ ~ Parks(c, d) => Version(d) \subseteq holds[c][d]

AllServed == \A c \in Established : \A d \in subscriptions[c] : Served(c, d)

ServedInv ==
  /\ IInv /\ ReadsBelow
  /\ Gapless /\ NothingOfTheUnknown /\ LateSubscribers /\ AllServed

(* A closed set of operations is applied as a whole.                       *)
LEMMA ClosedIsApplied ==
  ASSUME NEW S, \A o \in S : Deps[o] \subseteq S
  PROVE  Applied(S) = S
BY DEF Applied

LEMMA NextGapless ==
  ASSUME PlainHistory, ServedInv, [Next]_vars
  PROVE  Gapless' /\ NothingOfTheUnknown'
<1> USE DEF ServedInv, PlainHistory
<1>1. \A d \in Docs : \A o \in oplog[d] : Deps[o] \subseteq oplog[d]
  BY DEF Gapless, Version, Applied
<1>2. ASSUME NEW x \in Docs, NEW S, oplog' = [oplog EXCEPT ![x] = oplog[x] \cup S],
             \A o \in S : Deps[o] \subseteq oplog[x] \cup S,
             documents \subseteq documents', x \in documents'
      PROVE  Gapless' /\ NothingOfTheUnknown'
  <2>1. /\ oplog'[x] = oplog[x] \cup S
        /\ \A d \in Docs : d # x => oplog'[d] = oplog[d]
    BY <1>2 DEF IInv, TypeOK
  <2>2. \A d \in Docs : \A o \in oplog'[d] : Deps[o] \subseteq oplog'[d]
    BY <1>1, <1>2, <2>1
  <2>3. Gapless'
    BY <2>2, ClosedIsApplied DEF Gapless, Version
  <2>4. NothingOfTheUnknown'
    BY <1>2, <2>1 DEF NothingOfTheUnknown
  <2> QED BY <2>3, <2>4
<1>3. ASSUME UNCHANGED oplog, documents \subseteq documents'
      PROVE  Gapless' /\ NothingOfTheUnknown'
  BY <1>3 DEF Gapless, NothingOfTheUnknown, Version, Applied
<1>4. CASE Connection
  BY <1>3, <1>4 DEF Connection, ChannelAdded, ChannelRemoved, HandleEstablishRequest,
              HandleEstablishResponse
<1>5. CASE NetworkMessage
  <2> PICK c \in NetChannels, x \in Docs : MessageFrom(c, x)
    BY <1>5 DEF NetworkMessage
  <2>1. ASSUME NEW o \in RemoteOps, HandleSyncResponse(c, x, {o}) \/ HandleUpdate(c, x, {o})
        PROVE  Gapless' /\ NothingOfTheUnknown'
    <3>1. /\ documents \subseteq documents' /\ x \in documents'
          /\ UNCHANGED oplog \/ oplog' = [oplog EXCEPT ![x] = oplog[x] \cup {o}]
      BY <2>1 DEF HandleSyncResponse, HandleUpdate, Import
    <3>2. CASE UNCHANGED oplog
      BY <1>3, <3>1, <3>2
    <3>3. CASE oplog' = [oplog EXCEPT ![x] = oplog[x] \cup {o}]
      <4> DEFINE S == {o}
      <4>1. oplog' = [oplog EXCEPT ![x] = oplog[x] \cup S]
            /\ \A p \in S : Deps[p] \subseteq oplog[x] \cup S
        BY <3>3
      <4> HIDE DEF S
      <4> QED BY <1>2, <3>1, <4>1
    <3> QED BY <3>1, <3>2, <3>3
  <2>2. ASSUME NEW q \in Requests, HandleSyncRequest(c, x, q)
        PROVE  Gapless' /\ NothingOfTheUnknown'
    BY <1>3, <2>2 DEF HandleSyncRequest, RequestDenied, RequestConsults,
                RequestAnswered, RequestParked, ReceiveRequest
  <2>3. ~ HandleDeleteRequest(c, x)
    BY NothingDeleted DEF HandleDeleteRequest
  <2>4. CASE UNCHANGED oplog /\ documents \subseteq documents'
    BY <1>3, <2>4
  <2> QED BY <2>1, <2>2, <2>3, <2>4 DEF MessageFrom, HandleStatus, HandleNewDoc, modelVars
<1>6. CASE Application
  <2>1. ASSUME NEW d \in Docs, NEW o \in LocalOps, LocalDocChange(d, o)
        PROVE  Gapless' /\ NothingOfTheUnknown'
    <3>1. /\ UNCHANGED documents /\ d \in documents
          /\ oplog' = [oplog EXCEPT ![d] = oplog[d] \cup {o}]
          /\ Deps[o] \subseteq oplog[d]
      BY <2>1 DEF LocalDocChange, Version, Applied
    <3> DEFINE S == {o}
    <3>2. oplog' = [oplog EXCEPT ![d] = oplog[d] \cup S]
          /\ \A p \in S : Deps[p] \subseteq oplog[d] \cup S
      BY <3>1
    <3> HIDE DEF S
    <3>3. d \in documents'
      BY <3>1
    <3> QED BY <1>2, <3>1, <3>2, <3>3
  <2>2. ASSUME NEW d \in Docs, DocEnsure(d)
        PROVE  Gapless' /\ NothingOfTheUnknown'
    BY <1>3, <2>2 DEF DocEnsure
  <2>3. \A d \in Docs : ~ DocDelete(d)
    BY NothingDeleted DEF DocDelete
  <2> QED BY <1>6, <2>1, <2>2, <2>3 DEF Application
<1>7. CASE \E s \in StorageChannels, x \in Docs : LoadSettles(s, x)
  <2> PICK s \in StorageChannels, x \in Docs, v \in SUBSET Ops, ok \in BOOLEAN :
             StorageReplies(s, x, v, ok)
    BY <1>7 DEF LoadSettles
  <2>1. v \subseteq oplog[x]
    BY DEF StorageReplies, ReadsBelow, Version, Applied
  <2>2. /\ documents \subseteq documents'
        /\ \/ UNCHANGED oplog
           \/ /\ oplog' = [oplog EXCEPT ![x] = oplog[x] \cup (Persisted[s][x] \ v)]
              /\ x \in documents'
    BY DEF StorageReplies, IInv, TypeOK
  <2>3. \A o \in Persisted[s][x] \ v : Deps[o] \subseteq oplog[x] \cup (Persisted[s][x] \ v)
    BY <2>1, PersistedClosed
  <2> QED BY <1>2, <1>3, <2>2, <2>3
<1>8. CASE UNCHANGED vars
  BY <1>3, <1>8 DEF vars, modelVars
<1> QED BY <1>4, <1>5, <1>6, <1>7, <1>8 DEF Next

(* What a propagation of document d at version v leaves of the peer at c:  *)
(* it is sent what it lacked, it subscribes by the announcement and is     *)
(* sent everything, or it was believed to have everything.                 *)
LeavesServed(c, d, v, aw, subs, has) ==
  \/ /\ d \in subs[c] /\ awareness'[c][d].version = v
     /\ has[c][d] \subseteq holds'[c][d]
     /\ v \subseteq holds'[c][d] \cup aw[c][d].version
  \/ awareness'[c][d].version = {} /\ v \subseteq holds'[c][d]
  \/ /\ d \in subs[c] /\ v \subseteq aw[c][d].version
     /\ awareness'[c][d] = aw[c][d] /\ holds'[c][d] = has[c][d]

LEMMA PropagateServes ==
  ASSUME NEW d \in Docs, NEW v \in SUBSET Ops, NEW src,
         NEW aw \in [Channels -> [Docs -> Awareness]],
         NEW subs \in [Channels -> SUBSET Docs],
         NEW has \in [Channels -> [Docs -> SUBSET Ops]],
         Propagate(d, v, src, aw, subs, has),
         NEW c \in Channels, c \in Established, c # src, d \in subscriptions'[c]
  PROVE  LeavesServed(c, d, v, aw, subs, has)
<1> DEFINE upd == UpdateTargets(d, v, src, aw, subs)
           ann == NewDocTargets(d, v, src, aw, subs) \cap StorageChannels
<1>1. /\ awareness'[c][d] = IF c \in upd THEN Synced(v)
                            ELSE IF c \in ann THEN Pending ELSE aw[c][d]
      /\ holds'[c][d] = IF c \in upd THEN has[c][d] \cup Delta(v, aw[c][d])
                        ELSE IF c \in ann THEN has[c][d] \cup v ELSE has[c][d]
      /\ subscriptions'[c] = IF c \in ann THEN subs[c] \cup {d} ELSE subs[c]
  BY DEF Propagate
<1>2. CASE c \in upd
  <2>1. d \in subs[c]
    BY <1>2 DEF UpdateTargets
  <2>2. awareness'[c][d].version = v
    BY <1>1, <1>2 DEF Synced
  <2>3. has[c][d] \subseteq holds'[c][d] /\ v \subseteq holds'[c][d] \cup aw[c][d].version
    BY <1>1, <1>2 DEF Delta
  <2> QED BY <2>1, <2>2, <2>3 DEF LeavesServed
<1>3. CASE c \in ann \ upd
  BY <1>1, <1>3 DEF Pending, LeavesServed
<1>4. CASE c \notin upd /\ c \notin ann
  <2>0. d \in subs[c]
    BY <1>1, <1>4
  <2>1. d \in subs[c] /\ ~ NeedsUpdate(v, aw[c][d])
    BY <1>4, <2>0 DEF UpdateTargets
  <2>2. aw[c][d] \in Awareness
    OBVIOUS
  <2>3. v \subseteq aw[c][d].version
    BY <2>1, <2>2 DEF NeedsUpdate, ShouldSync, Awareness
  <2> QED BY <1>1, <1>4, <2>1, <2>3 DEF LeavesServed
<1> QED BY <1>2, <1>3, <1>4

(* It changes nothing else.                                                *)
LEMMA PropagateElsewhere ==
  ASSUME NEW d \in Docs, NEW v \in SUBSET Ops, NEW src,
         NEW aw \in [Channels -> [Docs -> Awareness]],
         NEW subs \in [Channels -> SUBSET Docs],
         NEW has \in [Channels -> [Docs -> SUBSET Ops]],
         Propagate(d, v, src, aw, subs, has),
         NEW c \in Channels, NEW e \in Docs, e # d \/ c = src
  PROVE  /\ awareness'[c][e] = aw[c][e] /\ holds'[c][e] = has[c][e]
         /\ e \in subscriptions'[c] <=> e \in subs[c]
<1> DEFINE upd == UpdateTargets(d, v, src, aw, subs)
           ann == NewDocTargets(d, v, src, aw, subs) \cap StorageChannels
<1>1. src \notin upd /\ src \notin ann
  BY DEF UpdateTargets, NewDocTargets
<1>2. /\ awareness'[c] = [aw[c] EXCEPT ![d] = IF c \in upd THEN Synced(v)
                                  ELSE IF c \in ann THEN Pending ELSE @]
      /\ holds'[c] = [has[c] EXCEPT ![d] = IF c \in upd THEN @ \cup Delta(v, aw[c][d])
                                   ELSE IF c \in ann THEN @ \cup v ELSE @]
      /\ subscriptions'[c] = IF c \in ann THEN subs[c] \cup {d} ELSE subs[c]
  BY DEF Propagate
<1> HIDE DEF upd, ann
<1> QED BY <1>1, <1>2

(* Who is announced to is established, and subscribes to the document.     *)
LEMMA PropagateSubscribes ==
  ASSUME NEW d \in Docs, NEW v, NEW src, NEW aw, NEW subs, NEW has,
         Propagate(d, v, src, aw, subs, has), NEW c \in Channels
  PROVE  \/ subscriptions'[c] = subs[c]
         \/ c \in Established /\ subscriptions'[c] = subs[c] \cup {d}
BY DEF Propagate, NewDocTargets

LEMMA NextLate ==
  ASSUME ServedInv, [Next]_vars
  PROVE  LateSubscribers'
<1> USE DEF ServedInv, IInv
<1> SUFFICES ASSUME NEW c \in Channels
             PROVE  subscriptions'[c] = subscriptions[c] \/ c \in Established
  BY ChannelsEnd DEF LateSubscribers, Established
<1>1. ASSUME NEW x, NEW e, channels[x] = "established"
      PROVE  Subscribe(x, e)[c] = subscriptions[c] \/ c \in Established
  BY <1>1 DEF Subscribe, TypeOK, Established
<1>2. ASSUME NEW x, NEW e \in Docs, NEW S, Import(x, e, S)
      PROVE  subscriptions'[c] = subscriptions[c] \/ c \in Established
  BY <1>2, PropagateSubscribes DEF Import
<1>3. CASE Connection
  BY <1>3 DEF Connection, ChannelAdded, ChannelRemoved, HandleEstablishRequest,
              HandleEstablishResponse, peerVars
<1>4. CASE NetworkMessage
  <2> PICK x \in NetChannels, e \in Docs : MessageFrom(x, e)
    BY <1>4 DEF NetworkMessage
  <2>1. ASSUME NEW q \in Requests, HandleSyncRequest(x, e, q)
        PROVE  subscriptions'[c] = subscriptions[c] \/ c \in Established
    <3>1. channels[x] = "established" /\ subscriptions' = Subscribe(x, e)
      BY <2>1 DEF HandleSyncRequest, RequestDenied, RequestConsults,
                  RequestAnswered, RequestParked, ReceiveRequest
    <3> QED BY <1>1, <3>1
  <2>2. ASSUME NEW S, HandleSyncResponse(x, e, S) \/ HandleUpdate(x, e, S)
        PROVE  subscriptions'[c] = subscriptions[c] \/ c \in Established
    BY <1>2, <2>2 DEF HandleSyncResponse, HandleUpdate, peerVars
  <2>3. CASE UNCHANGED subscriptions
    BY <2>3
  <2> QED BY <2>1, <2>2, <2>3 DEF MessageFrom, HandleStatus, HandleNewDoc, NoPropagation,
              HandleDeleteRequest, RemoveDocument, peerVars
<1>5. CASE Application
  <2>1. ASSUME NEW e \in Docs, NEW o, LocalDocChange(e, o)
        PROVE  subscriptions'[c] = subscriptions[c] \/ c \in Established
    BY <2>1, PropagateSubscribes DEF LocalDocChange
  <2> QED BY <1>5, <2>1 DEF Application, DocEnsure, DocDelete, RemoveDocument, peerVars
<1>6. CASE \E s \in StorageChannels, e \in Docs : LoadSettles(s, e)
  <2> PICK s \in StorageChannels, e \in Docs, v \in SUBSET Ops, ok \in BOOLEAN :
             StorageReplies(s, e, v, ok)
    BY <1>6 DEF LoadSettles
  <2>1. channels[s] = "established"
    BY DEF StorageReplies
  <2>2. subscriptions' = Subscribe(s, e)
        \/ \E w, aw, has : Propagate(e, w, s, aw, Subscribe(s, e), has)
    BY DEF StorageReplies, NoPropagation
  <2>3. subscriptions'[c] = Subscribe(s, e)[c] \/ c \in Established
    BY <2>2, PropagateSubscribes
  <2> QED BY <1>1, <2>1, <2>3
<1>7. CASE UNCHANGED vars
  BY <1>7 DEF vars, peerVars
<1> QED BY <1>3, <1>4, <1>5, <1>6, <1>7 DEF Next

(* Who was served still is, when nothing is forgotten.                     *)
LEMMA ServedKept ==
  ASSUME NEW c, NEW d, Served(c, d), awareness'[c][d] = awareness[c][d],
         holds[c][d] \subseteq holds'[c][d], Version(d)' = Version(d),
         Parks(c, d) => Parks(c, d)' \/ Version(d) \subseteq holds'[c][d]
  PROVE  Served(c, d)'
BY DEF Served

LEMMA ConnectionServes ==
  ASSUME ServedInv, Connection
  PROVE  AllServed'
<1> USE DEF ServedInv, IInv
<1> SUFFICES ASSUME NEW c \in Established', NEW d \in subscriptions'[c]
             PROVE  Served(c, d)'
  BY DEF AllServed
<1>1. c \in Channels /\ channels'[c] = "established"
  BY DEF Established
<1>2. UNCHANGED <<documents, oplog, subscriptions, awareness, requester>>
  BY DEF Connection, ChannelAdded, ChannelRemoved, HandleEstablishRequest,
         HandleEstablishResponse, peerVars
<1>3. Version(d)' = Version(d) /\ d \in Docs
  BY <1>1, <1>2 DEF Version, TypeOK
<1>4. c \in Established
  <2>1. channels[c] # "connected"
    BY <1>1, <1>2 DEF LateSubscribers
  <2> QED
    BY <1>1, <2>1 DEF Connection, ChannelAdded, ChannelRemoved, HandleEstablishRequest,
         HandleEstablishResponse, TypeOK, Established
<1>5. Served(c, d)
  BY <1>2, <1>4 DEF AllServed
<1>6. CASE UNCHANGED <<pendingReqs, holds>>
  BY <1>2, <1>3, <1>5, <1>6, ServedKept DEF Parks
<1>7. ASSUME NEW x \in Channels, ChannelRemoved(x)
      PROVE  Served(c, d)'
  <2>1. c # x
    BY <1>1, <1>7 DEF ChannelRemoved, TypeOK
  <2>2. holds[c][d] \subseteq holds'[c][d]
    BY <1>1, <1>3, <1>7 DEF ChannelRemoved
  <2>3. CASE d \in Drained(x)
    <3>1. Parks(c, d) => Version(d) \subseteq holds'[c][d]
      BY <1>1, <1>3, <1>7, <2>3 DEF ChannelRemoved, Parks
    <3> QED BY <1>2, <1>3, <1>5, <2>2, <3>1, ServedKept
  <2>4. CASE d \notin Drained(x)
    <3>1. Parks(c, d) => Parks(c, d)'
      BY <1>2, <1>3, <1>7, <2>1, <2>4 DEF ChannelRemoved, Parks, ParkedElsewhere
    <3> QED BY <1>2, <1>3, <1>5, <2>2, <3>1, ServedKept
  <2> QED BY <2>3, <2>4
<1> QED BY <1>6, <1>7 DEF Connection, ChannelAdded, HandleEstablishRequest,
         HandleEstablishResponse, peerVars

LEMMA RequestServes ==
  ASSUME ServedInv, ParkedIsAnswerable, NEW x \in NetChannels, NEW e \in Docs,
         NEW r \in Requests, HandleSyncRequest(x, e, r)
  PROVE  AllServed'
<1> USE DEF ServedInv, IInv
<1> SUFFICES ASSUME NEW c \in Established', NEW d \in subscriptions'[c]
             PROVE  Served(c, d)'
  BY DEF AllServed
<1>1. /\ requester[r] = NoChannel
      /\ requester' = [requester EXCEPT ![r] = x]
      /\ awareness' = Aware(x, e, Pending)
      /\ subscriptions' = Subscribe(x, e)
      /\ UNCHANGED <<channels, oplog>>
  BY DEF HandleSyncRequest, RequestDenied, RequestConsults, RequestAnswered,
         RequestParked, ReceiveRequest
<1>2. c \in Channels /\ x \in Channels /\ c \in Established
  BY <1>1 DEF Established, Channels
<1>3. d \in Docs /\ Version(d)' = Version(d)
  BY <1>1, <1>2 DEF Version, Subscribe, TypeOK
<1>4. e \notin documents => pendingReqs[e] = {}
  BY DEF BarrierInv, ParkedAwaitsStorage
<1>5. Parks(c, d) => Parks(c, d)'
  <2> SUFFICES ASSUME NEW q \in pendingReqs[d], requester[q] = c
               PROVE  q \in pendingReqs'[d] /\ requester'[q] = c
    BY DEF Parks
  <2>1. q # r /\ q \in Requests
    BY <1>1, <1>2, <1>3, ChannelAssumption DEF TypeOK
  <2>2. requester'[q] = c
    BY <1>1, <2>1 DEF TypeOK
  <2>3. q \in pendingReqs'[d]
    BY <1>3, <1>4 DEF HandleSyncRequest, RequestDenied, RequestConsults, RequestAnswered,
         RequestParked, WithParked, TypeOK
  <2> QED BY <2>2, <2>3
<1>6. holds[c][d] \subseteq holds'[c][d]
  <2>1. CASE holds' = holds
    BY <2>1
  <2>2. ASSUME NEW v, holds' = Holds(x, e, v)
        PROVE  holds[c][d] \subseteq holds'[c][d]
    BY <1>2, <1>3, <2>2 DEF Holds, TypeOK
  <2> QED
    BY <2>1, <2>2 DEF HandleSyncRequest, RequestDenied, RequestConsults, RequestAnswered,
       RequestParked
<1>7. CASE c # x \/ d # e
  <2>1. awareness'[c][d] = awareness[c][d] /\ d \in subscriptions[c]
    BY <1>1, <1>2, <1>3, <1>7 DEF Aware, Subscribe, TypeOK
  <2>2. Served(c, d)
    BY <1>2, <2>1 DEF AllServed
  <2> QED BY <1>3, <1>5, <1>6, <2>1, <2>2, ServedKept
<1>8. CASE c = x /\ d = e
  <2>1. awareness'[c][d].version = {}
    BY <1>1, <1>2, <1>3, <1>8 DEF Aware, Pending, TypeOK
  <2>2. CASE RequestDenied(x, e, r)
    <3>1. Version(d) = {}
      BY <1>8, <2>2 DEF RequestDenied, NothingOfTheUnknown, Version, Applied
    <3> QED BY <1>3, <2>1, <3>1 DEF Served
  <2>3. CASE RequestConsults(x, e, r) \/ RequestParked(x, e, r)
    <3>1. r \in pendingReqs'[d]
      BY <1>8, <2>3 DEF RequestConsults, RequestParked, WithParked, TypeOK
    <3>2. requester'[r] = c
      BY <1>1, <1>8 DEF TypeOK
    <3> QED BY <2>1, <3>1, <3>2 DEF Served, Parks
  <2>4. CASE RequestAnswered(x, e, r)
    <3>1. Version(d) \subseteq holds'[c][d]
      BY <1>2, <1>8, <2>4 DEF RequestAnswered, Holds, TypeOK
    <3> QED BY <1>3, <2>1, <3>1 DEF Served
  <2> QED BY <2>2, <2>3, <2>4 DEF HandleSyncRequest
<1> QED BY <1>7, <1>8

(* What is known of the peers after the import of S from x.                *)
LEMMA ImportServes ==
  ASSUME ServedInv, Gapless', NEW x \in NetChannels, NEW e \in Docs,
         NEW S \in SUBSET Ops, Import(x, e, S), channels[x] = "established",
         UNCHANGED <<channels, pendingReqs, requester>>
  PROVE  AllServed'
<1> USE DEF ServedInv, IInv
<1> SUFFICES ASSUME NEW c \in Established', NEW d \in subscriptions'[c]
             PROVE  Served(c, d)'
  BY DEF AllServed
<1> DEFINE V == Applied(oplog[e] \cup S)
<1>1. /\ c \in Channels /\ x \in Channels /\ c \in Established
      /\ Parks(c, d)' = Parks(c, d)
  BY DEF Established, Channels, Parks
<1>2. /\ V \in SUBSET Ops
      /\ Propagate(e, V, x, Aware(x, e, Synced(V)), subscriptions, Holds(x, e, S))
  BY DEF Import, Applied, TypeOK
<1>3. Version(e)' = V /\ V = oplog[e] \cup S /\ Version(e) = oplog[e]
  BY DEF Import, Version, Gapless, TypeOK
<1>4. \A a \in Docs : a # e => Version(a)' = Version(a)
  BY DEF Import, Version, TypeOK
<1> HIDE DEF V
<1>5. Synced(V) \in Awareness
  BY <1>2 DEF Synced, Awareness
<1>6. /\ Aware(x, e, Synced(V)) \in [Channels -> [Docs -> Awareness]]
      /\ Holds(x, e, S) \in [Channels -> [Docs -> SUBSET Ops]]
      /\ subscriptions \in [Channels -> SUBSET Docs]
  BY <1>1, <1>5 DEF Aware, Holds, TypeOK
<1>7. /\ d \in Docs /\ (d # e \/ c = x => d \in subscriptions[c])
      /\ d # e \/ c = x =>
           /\ awareness'[c][d] = Aware(x, e, Synced(V))[c][d]
           /\ holds'[c][d] = Holds(x, e, S)[c][d]
  <2>1. subscriptions'[c] = subscriptions[c] \/ subscriptions'[c] = subscriptions[c] \cup {e}
    BY <1>1, <1>2, PropagateSubscribes
  <2> QED BY <1>1, <1>2, <1>6, <2>1, PropagateElsewhere
<1>8. CASE d # e
  <2>1. Served(c, d) /\ awareness'[c][d] = awareness[c][d] /\ holds'[c][d] = holds[c][d]
    BY <1>1, <1>7, <1>8 DEF AllServed, Aware, Holds, TypeOK
  <2> QED BY <1>1, <1>4, <1>7, <1>8, <2>1, ServedKept
<1>9. CASE d = e /\ c = x
  <2>1. Served(c, d) /\ awareness'[c][d].version = V /\ holds'[c][d] = holds[c][d] \cup S
    BY <1>1, <1>7, <1>9 DEF AllServed, Aware, Holds, Synced, TypeOK
  <2> QED BY <1>1, <1>3, <1>9, <2>1 DEF Served
<1>10. CASE d = e /\ c # x
  <2>1. /\ Aware(x, e, Synced(V))[c][d] = awareness[c][d]
        /\ Holds(x, e, S)[c][d] = holds[c][d]
    BY <1>1, <1>10 DEF Aware, Holds, TypeOK
  <2>2. d \in subscriptions[c] => Served(c, d)
    BY <1>1 DEF AllServed
  <2>3. LeavesServed(c, d, V, Aware(x, e, Synced(V)), subscriptions, Holds(x, e, S))
    BY <1>1, <1>2, <1>6, <1>10, PropagateServes
  <2> QED BY <1>1, <1>3, <1>10, <2>1, <2>2, <2>3 DEF Served, LeavesServed
<1> QED BY <1>8, <1>9, <1>10

LEMMA LocalServes ==
  ASSUME ServedInv, Gapless', NEW e \in Docs, NEW o \in LocalOps, LocalDocChange(e, o)
  PROVE  AllServed'
<1> USE DEF ServedInv, IInv
<1> SUFFICES ASSUME NEW c \in Established', NEW d \in subscriptions'[c]
             PROVE  Served(c, d)'
  BY DEF AllServed
<1> DEFINE V == Applied(oplog[e] \cup {o})
<1>1. /\ c \in Channels /\ c \in Established /\ c # NoChannel
      /\ Parks(c, d)' = Parks(c, d)
  BY ChannelAssumption DEF LocalDocChange, Established, Parks
<1>2. /\ V \in SUBSET Ops
      /\ Propagate(e, V, NoChannel, awareness, subscriptions, holds)
  BY OpAssumption DEF LocalDocChange, Applied, TypeOK
<1>3. Version(e)' = V /\ Version(e) \subseteq V
  BY AppliedGrows DEF LocalDocChange, Version, TypeOK
<1>4. \A a \in Docs : a # e => Version(a)' = Version(a)
  BY DEF LocalDocChange, Version, TypeOK
<1>5. V = Version(e) \cup {o}
  BY <1>3 DEF LocalDocChange, Version, Gapless, TypeOK
<1> HIDE DEF V
<1>6. /\ awareness \in [Channels -> [Docs -> Awareness]]
      /\ holds \in [Channels -> [Docs -> SUBSET Ops]]
      /\ subscriptions \in [Channels -> SUBSET Docs]
  BY DEF TypeOK
<1>7. d \in Docs
  <2>1. subscriptions'[c] = subscriptions[c] \/ subscriptions'[c] = subscriptions[c] \cup {e}
    BY <1>1, <1>2, PropagateSubscribes
  <2> QED BY <1>1, <1>6, <2>1
<1>8. CASE d # e
  <2>1. /\ awareness'[c][d] = awareness[c][d] /\ holds'[c][d] = holds[c][d]
        /\ d \in subscriptions[c]
    BY <1>1, <1>2, <1>6, <1>7, <1>8, PropagateElsewhere
  <2>2. Served(c, d)
    BY <1>1, <2>1 DEF AllServed
  <2> QED BY <1>1, <1>4, <1>7, <1>8, <2>1, <2>2, ServedKept
<1>9. CASE d = e
  <2>1. d \in subscriptions[c] => Served(c, d)
    BY <1>1 DEF AllServed
  <2>2. LeavesServed(c, d, V, awareness, subscriptions, holds)
    BY <1>1, <1>2, <1>6, <1>9, PropagateServes
  <2> QED BY <1>1, <1>3, <1>9, <2>1, <2>2 DEF Served, LeavesServed
<1> QED BY <1>8, <1>9

LEMMA StorageServes ==
  ASSUME ServedInv, NEW s \in StorageChannels, NEW e \in Docs,
         NEW w \in SUBSET Ops, NEW ok \in BOOLEAN, StorageReplies(s, e, w, ok)
  PROVE  AllServed'
<1> USE DEF ServedInv, IInv
<1> SUFFICES ASSUME NEW c \in Established', NEW d \in subscriptions'[c]
             PROVE  Served(c, d)'
  BY DEF AllServed
<1> DEFINE imported == Reply(s, e, w, ok) = "update" /\ Permits("mutability", s, e)
           V        == Applied(oplog'[e])
           answered == IF LastReply(s, e) THEN pendingReqs[e] ELSE {}
           sent     == HoldsAnswer(answered, e, V)
           has      == [sent EXCEPT ![s][e] = @ \cup V]
           aw       == Aware(s, e, Pending)
           subs     == Subscribe(s, e)
<1>1. /\ oplog' = [oplog EXCEPT ![e] = oplog'[e]]
      /\ oplog[e] \subseteq oplog'[e] /\ oplog'[e] \in SUBSET Ops
      /\ ~ imported => oplog'[e] = oplog[e]
  BY OpAssumption DEF StorageReplies, TypeOK
<1>2. /\ imported => Propagate(e, V, s, aw, subs, has)
      /\ ~ imported => NoPropagation(aw, subs, has)
      /\ pendingReqs' = [pendingReqs EXCEPT ![e] = @ \ answered]
      /\ channels[s] = "established"
      /\ UNCHANGED <<channels, requester>>
  <2>1. oplog'[e] = IF imported THEN oplog[e] \cup (Persisted[s][e] \ w) ELSE oplog[e]
    BY DEF StorageReplies, TypeOK
  <2> QED BY <2>1 DEF StorageReplies
<1>3. /\ Version(e)' = V /\ Version(e) \subseteq V /\ V \in SUBSET Ops
      /\ ~ imported => Version(e) = V
      /\ \A a \in Docs : a # e => Version(a)' = Version(a)
  <2>1. V \subseteq oplog'[e] /\ Version(e) \subseteq V
    BY <1>1, AppliedGrows DEF Version, Applied
  <2>2. \A a \in Docs : a # e => Version(a)' = Version(a)
    BY <1>1 DEF Version, TypeOK
  <2> QED BY <1>1, <2>1, <2>2 DEF Version
<1>4. /\ c \in Channels /\ s \in Channels /\ c \in Established
  BY <1>2 DEF Established, Channels
<1> HIDE DEF V, imported
<1>5. /\ sent \in [Channels -> [Docs -> SUBSET Ops]]
      /\ \A a \in Docs : a # e => sent[c][a] = holds[c][a]
      /\ holds[c][e] \subseteq sent[c][e]
      /\ (\E q \in answered : requester[q] = c) => V \subseteq sent[c][e]
  BY <1>3, <1>4 DEF HoldsAnswer, TypeOK
<1> HIDE DEF sent
<1>6. /\ has \in [Channels -> [Docs -> SUBSET Ops]]
      /\ \A a \in Docs : a # e => has[c][a] = sent[c][a]
      /\ sent[c][e] \subseteq has[c][e]
      /\ V \subseteq has[s][e]
  BY <1>3, <1>4, <1>5
<1>7. /\ aw \in [Channels -> [Docs -> Awareness]]
      /\ \A a \in Docs : a # e \/ c # s => aw[c][a] = awareness[c][a]
      /\ aw[s][e].version = {}
  BY <1>4 DEF Aware, Pending, Awareness, TypeOK
<1>8. /\ subs \in [Channels -> SUBSET Docs]
      /\ \A a \in Docs : a # e \/ c # s => (a \in subs[c] <=> a \in subscriptions[c])
  BY <1>4 DEF Subscribe, TypeOK
<1> HIDE DEF aw, subs, has
<1>9. d \in Docs
  <2>1. subscriptions'[c] = subs[c] \/ subscriptions'[c] = subs[c] \cup {e}
    BY <1>2, <1>3, <1>4, PropagateSubscribes DEF NoPropagation
  <2> QED BY <1>4, <1>8, <2>1
<1>10. d # e \/ c = s \/ ~ imported =>
         /\ awareness'[c][d] = aw[c][d] /\ holds'[c][d] = has[c][d]
         /\ d \in subs[c]
  <2> SUFFICES ASSUME d # e \/ c = s \/ ~ imported
               PROVE  /\ awareness'[c][d] = aw[c][d] /\ holds'[c][d] = has[c][d]
                      /\ d \in subs[c]
    OBVIOUS
  <2>1. CASE ~ imported
    BY <1>2, <2>1 DEF NoPropagation
  <2>2. CASE imported /\ (d # e \/ c = s)
    <3>1. /\ Propagate(e, V, s, aw, subs, has) /\ V \in SUBSET Ops
          /\ aw \in [Channels -> [Docs -> Awareness]]
          /\ subs \in [Channels -> SUBSET Docs]
          /\ has \in [Channels -> [Docs -> SUBSET Ops]]
      BY <1>2, <1>3, <1>6, <1>7, <1>8, <2>2
    <3> QED BY <1>4, <1>9, <2>2, <3>1, PropagateElsewhere
  <2> QED BY <2>1, <2>2
<1> HIDE DEF answered
<1>11. Parks(c, d) => Parks(c, d)' \/ (d = e /\ V \subseteq has[c][d])
  <2>1. pendingReqs'[d] = IF d = e THEN pendingReqs[d] \ answered ELSE pendingReqs[d]
    BY <1>2, <1>9 DEF TypeOK
  <2> SUFFICES ASSUME NEW q \in pendingReqs[d], requester[q] = c, ~ Parks(c, d)'
               PROVE  d = e /\ V \subseteq has[c][d]
    BY DEF Parks
  <2>2. q \notin pendingReqs'[d]
    <3>1. requester'[q] = c
      BY <1>2
    <3> QED BY <3>1 DEF Parks
  <2>3. d = e /\ q \in answered
    BY <2>1, <2>2
  <2> QED BY <1>5, <1>6, <2>3
<1>12. CASE d # e
  <2>1. Served(c, d) /\ awareness'[c][d] = awareness[c][d] /\ holds'[c][d] = holds[c][d]
    BY <1>4, <1>5, <1>6, <1>7, <1>8, <1>9, <1>10, <1>12 DEF AllServed
  <2> QED BY <1>3, <1>9, <1>11, <1>12, <2>1, ServedKept
<1>13. CASE d = e /\ c = s
  BY <1>3, <1>6, <1>7, <1>10, <1>13 DEF Served
<1>14. CASE d = e /\ c # s
  <2>1. /\ holds[c][d] \subseteq has[c][d] /\ aw[c][d] = awareness[c][d]
        /\ d \in subs[c] => Served(c, d)
    BY <1>4, <1>5, <1>6, <1>7, <1>8, <1>9, <1>14 DEF AllServed
  <2>2. CASE imported
    <3>1. LeavesServed(c, d, V, aw, subs, has)
      BY <1>2, <1>3, <1>4, <1>6, <1>7, <1>8, <1>14, <2>2, PropagateServes
    <3> QED BY <1>3, <1>11, <1>14, <2>1, <3>1 DEF Served, LeavesServed
  <2>3. CASE ~ imported
    BY <1>3, <1>10, <1>11, <1>14, <2>1, <2>3 DEF Served
  <2> QED BY <2>2, <2>3
<1> QED BY <1>12, <1>13, <1>14

LEMMA NextServes ==
  ASSUME PlainHistory, ServedInv, ParkedIsAnswerable, [Next]_vars
  PROVE  AllServed'
<1>1. Gapless'
  BY NextGapless
<1>2. ASSUME UNCHANGED <<channels, oplog, pendingReqs, subscriptions, awareness,
                         requester, holds>>
      PROVE  AllServed'
  BY <1>2 DEF ServedInv, AllServed, Established, Served, Parks, Version
<1>3. CASE Connection
  BY <1>3, ConnectionServes
<1>4. CASE NetworkMessage
  <2> PICK x \in NetChannels, e \in Docs : MessageFrom(x, e)
    BY <1>4 DEF NetworkMessage
  <2>1. ASSUME NEW r \in Requests, HandleSyncRequest(x, e, r)
        PROVE  AllServed'
    BY <2>1, RequestServes
  <2>2. ASSUME NEW o \in RemoteOps, HandleSyncResponse(x, e, {o}) \/ HandleUpdate(x, e, {o})
        PROVE  AllServed'
    <3>1. {o} \in SUBSET Ops
      BY OpAssumption
    <3>2. CASE Import(x, e, {o})
      BY <1>1, <2>2, <3>1, <3>2, ImportServes DEF HandleSyncResponse, HandleUpdate
    <3>3. CASE UNCHANGED <<oplog, peerVars>>
      BY <1>2, <2>2, <3>3 DEF HandleSyncResponse, HandleUpdate, peerVars
    <3> QED BY <2>2, <3>2, <3>3 DEF HandleSyncResponse, HandleUpdate
  <2>3. ASSUME NEW a \in Awareness, HandleStatus(x, e, a) \/ HandleNewDoc(x, e)
        PROVE  AllServed'
    <3> SUFFICES ASSUME NEW c \in Established', NEW d \in subscriptions'[c]
                 PROVE  Served(c, d)'
      BY DEF AllServed
    <3>1. /\ UNCHANGED <<channels, oplog, pendingReqs, subscriptions, requester>>
          /\ \/ awareness' = Aware(x, e, a) /\ holds' = Holds(x, e, a.version)
             \/ awareness' = Aware(x, e, Pending) /\ holds' = holds
      BY <2>3 DEF HandleStatus, HandleNewDoc, NoPropagation, modelVars
    <3>2. c \in Channels /\ d \in Docs /\ Served(c, d) /\ x \in Channels
      BY <3>1 DEF ServedInv, IInv, TypeOK, AllServed, Established, Channels
    <3>3. Parks(c, d)' = Parks(c, d) /\ Version(d)' = Version(d)
      BY <3>1 DEF Parks, Version
    <3>4. holds[c][d] \subseteq holds'[c][d]
      <4>1. ASSUME NEW v, holds' = Holds(x, e, v)
            PROVE  holds[c][d] \subseteq holds'[c][d]
        BY <3>2, <4>1 DEF Holds, ServedInv, IInv, TypeOK
      <4> QED BY <3>1, <4>1
    <3>5. CASE c = x /\ d = e
      <4>1. awareness'[c][d].version \subseteq holds'[c][d]
        BY <3>1, <3>2, <3>5 DEF Aware, Holds, Pending, ServedInv, IInv, TypeOK
      <4> QED BY <3>2, <3>3, <3>4, <4>1 DEF Served
    <3>6. CASE c # x \/ d # e
      <4>1. awareness'[c][d] = awareness[c][d]
        BY <3>1, <3>2, <3>6 DEF Aware, ServedInv, IInv, TypeOK
      <4> QED BY <3>2, <3>3, <3>4, <4>1, ServedKept
    <3> QED BY <3>5, <3>6
  <2>4. ~ HandleDeleteRequest(x, e)
    BY NothingDeleted DEF HandleDeleteRequest, PlainHistory, ServedInv
  <2>5. \A o \in RemoteOps : Synced({o}) \in Awareness
    BY OpAssumption DEF Synced, Awareness
  <2>6. Absent \in Awareness
    BY DEF Absent, Awareness
  <2> QED BY <2>1, <2>2, <2>3, <2>4, <2>5, <2>6 DEF MessageFrom
<1>5. CASE Application
  <2>1. ASSUME NEW d \in Docs, DocEnsure(d)
        PROVE  AllServed'
    BY <1>2, <2>1 DEF DocEnsure, peerVars
  <2>2. \A d \in Docs : ~ DocDelete(d)
    BY NothingDeleted DEF DocDelete, PlainHistory, ServedInv
  <2> QED BY <1>1, <1>5, <2>1, <2>2, LocalServes DEF Application
<1>6. CASE \E s \in StorageChannels, e \in Docs : LoadSettles(s, e)
  BY <1>6, StorageServes DEF LoadSettles
<1>7. CASE UNCHANGED vars
  BY <1>2, <1>7 DEF vars, modelVars, peerVars
<1> QED BY <1>3, <1>4, <1>5, <1>6, <1>7 DEF Next

LEMMA InitServed == Init => ServedInv
<1> SUFFICES ASSUME Init PROVE ServedInv
  OBVIOUS
<1>1. IInv
  BY InitType, InitBarrier DEF IInv
<1>2. ReadsBelow
  BY DEF Init, ReadsBelow
<1>3. Gapless /\ NothingOfTheUnknown
  BY DEF Init, Gapless, NothingOfTheUnknown, Version, Applied
<1>4. LateSubscribers /\ AllServed
  BY DEF Init, LateSubscribers, AllServed, Established
<1> QED BY <1>1, <1>2, <1>3, <1>4 DEF ServedInv

(* When nothing is deleted and what peers bring depends on nothing, every  *)
(* subscriber whose request is not parked has been sent the document.      *)
THEOREM SubscribersAreServed == PlainHistory => (Spec => []SubscribersServed)
<1> SUFFICES ASSUME PlainHistory PROVE Spec => []SubscribersServed
  OBVIOUS
<1>1. ServedInv /\ IInv' /\ ParkedIsAnswerable /\ [Next]_vars => ServedInv'
  <2> SUFFICES ASSUME ServedInv, IInv', ParkedIsAnswerable, [Next]_vars
               PROVE  ServedInv'
    OBVIOUS
  <2>1. ReadsBelow'
    BY NextReadsBelow DEF ServedInv, PlainHistory
  <2> QED BY <2>1, NextGapless, NextLate, NextServes DEF ServedInv
<1>2. ServedInv => SubscribersServed
  BY DEF ServedInv, AllServed, Served, Parks, SubscribersServed
<1> QED BY <1>1, <1>2, InitServed, Inductive, ParkedAreAnswerable, PTL DEF Spec
=============================================================================
