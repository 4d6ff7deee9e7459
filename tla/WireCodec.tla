------------------------------ MODULE WireCodec ------------------------------
(***************************************************************************)
(* The wire format (packages/wire-format: encode.ts, decode.ts,            *)
(* fragment.ts) and the JSON one (packages/repo/src/channel-json.ts).      *)
(* Messages become frames, one by one or as a batch; a frame that is long  *)
(* becomes fragments, a short one a complete payload; the receiver parses, *)
(* reassembles and decodes.  Responses to GET requests are JSON instead.   *)
(* CBOR and the encoding of version vectors are of libraries: a value v    *)
(* takes as many bytes as CborSize says, and decodes from exactly these.   *)
(***************************************************************************)
EXTENDS Naturals, FiniteSets, SequencesExt

CONSTANTS
  Docs, Peers,
  Data,      \* byte strings
  Versions,  \* peer -> counter
  None,      \* undefined
  CborSize(_),
  Threshold, \* fragmentThreshold
  ChunkSize, \* of the conversion to base64
  MaxMsgs,   \* bound: nothing more is sent after so many messages
  Batched    \* bound: the types of messages that frames of two hold

WireCodecAssumption ==
  /\ {Threshold, ChunkSize, MaxMsgs} \subseteq Nat \ {0} /\ Data \subseteq Seq(0..255)

VARIABLES
  sent,      \* the messages, in order
  payloads,  \* on their way
  header,    \* of the batch of fragments being received; None without
  fragments, \* index -> bytes
  received,
  errors     \* payloads refused

vars == <<sent, payloads, header, fragments, received, errors>>

-----------------------------------------------------------------------------
Stores == [peerId : Peers, data : Data, namespace : {"presence"}]
Transmissions ==
  [type : {"up-to-date"}, version : Versions] \cup [type : {"unavailable"}]
    \cup [type : {"snapshot", "update"}, data : Data, version : Versions]
Ephemerals == {None, <<>>} \cup {<<s>> : s \in Stores}

(* channel.ts: the messages of a channel, and those a batch may hold.      *)
Batchable ==
  [type : {"sync-request"}, docId : Docs, requesterDocVersion : Versions, ephemeral : Ephemerals, bidirectional : BOOLEAN]
    \cup [type : {"sync-response"}, docId : Docs, transmission : Transmissions, ephemeral : Ephemerals]
    \cup [type : {"update"}, docId : Docs, transmission : Transmissions]
    \cup [type : {"directory-request"}, docIds : {None} \cup {<<d>> : d \in Docs}]
    \cup [type : {"directory-response", "new-doc"}, docIds : {<<>>} \cup {<<d>> : d \in Docs}]
    \cup [type : {"delete-request"}, docId : Docs]
    \cup [type : {"delete-response"}, docId : Docs, status : {"deleted", "ignored"}]
    \cup [type : {"ephemeral"}, docId : Docs, hopsRemaining : {0, 1}, stores : {<<s>> : s \in Stores}]
Identities == [peerId : Peers, name : {None, "name"}, type : {"user", "bot", "service"}]
ChannelMsgs ==
  Batchable
    \cup [type : {"establish-request", "establish-response"}, identity : Identities]
    \cup [type : {"batch"}, messages : {<<m>> : m \in Batchable}]

EncodeVersionVector(v) == [encoded |-> v]
DecodeVersionVector(b) == b.encoded

Mapped(s, F(_)) == IF s = None THEN None ELSE [i \in DOMAIN s |-> F(s[i])]

-----------------------------------------------------------------------------
(* encode.ts: short keys and numbers for the types.                        *)
MessageType == [request |-> 1, response |-> 2, sync |-> 16, synced |-> 17, update |-> 18,
                ask |-> 32, listed |-> 33, new |-> 34, delete |-> 48, deleted |-> 49, ephemeral |-> 64, batch |-> 80]

ToWireEphemeralStore(s) == [p |-> s.peerId, d |-> s.data, ns |-> s.namespace]
ToWireTransmission(t) ==
  CASE t.type = "up-to-date" -> [k |-> 0, v |-> EncodeVersionVector(t.version)]
    [] t.type = "snapshot" -> [k |-> 1, d |-> t.data, v |-> EncodeVersionVector(t.version)]
    [] t.type = "update" -> [k |-> 2, d |-> t.data, v |-> EncodeVersionVector(t.version)]
    [] t.type = "unavailable" -> [k |-> 3]

WireIdentity(code, i) == [t |-> code, id |-> i.peerId, n |-> i.name, y |-> i.type]
ToWireFlat(m) ==
  CASE m.type = "establish-request" -> WireIdentity(MessageType.request, m.identity)
    [] m.type = "establish-response" -> WireIdentity(MessageType.response, m.identity)
    [] m.type = "sync-request" ->
         [t |-> MessageType.sync, doc |-> m.docId, v |-> EncodeVersionVector(m.requesterDocVersion),
          e |-> Mapped(m.ephemeral, ToWireEphemeralStore), bi |-> m.bidirectional]
    [] m.type = "sync-response" ->
         [t |-> MessageType.synced, doc |-> m.docId, tx |-> ToWireTransmission(m.transmission),
          e |-> Mapped(m.ephemeral, ToWireEphemeralStore)]
    [] m.type = "update" -> [t |-> MessageType.update, doc |-> m.docId, tx |-> ToWireTransmission(m.transmission)]
    [] m.type = "directory-request" -> [t |-> MessageType.ask, docs |-> m.docIds]
    [] m.type = "directory-response" -> [t |-> MessageType.listed, docs |-> m.docIds]
    [] m.type = "new-doc" -> [t |-> MessageType.new, docs |-> m.docIds]
    [] m.type = "delete-request" -> [t |-> MessageType.delete, doc |-> m.docId]
    [] m.type = "delete-response" -> [t |-> MessageType.deleted, doc |-> m.docId, s |-> m.status]
    [] m.type = "ephemeral" ->
         [t |-> MessageType.ephemeral, doc |-> m.docId, h |-> m.hopsRemaining, st |-> Mapped(m.stores, ToWireEphemeralStore)]
ToWireFormat(m) ==
  IF m.type = "batch" THEN [t |-> MessageType.batch, m |-> Mapped(m.messages, ToWireFlat)] ELSE ToWireFlat(m)

(* CBOR: the bytes of a value; a prefix of them is no value.               *)
EncodeCBOR(v) == [i \in 1..CborSize(v) |-> [value |-> v, byte |-> i]]
IsCBOR(bytes) == bytes # <<>> /\ bytes = EncodeCBOR(bytes[1].value)
DecodeCBOR(bytes) == bytes[1].value

Uint32(n) == [i \in 1..4 |-> (n \div 256^(4 - i)) % 256]
ReadUint32(bytes) == bytes[1] * 256^3 + bytes[2] * 256^2 + bytes[3] * 256 + bytes[4]

WireVersion == 2
HeaderSize == 6
Frame(flags, payload) == <<WireVersion, flags>> \o Uint32(Len(payload)) \o payload
EncodeFrame(m) == Frame(0, EncodeCBOR(<<ToWireFormat(m)>>))
EncodeBatchFrame(ms) == Frame(1, EncodeCBOR(Mapped(ms, ToWireFormat)))

-----------------------------------------------------------------------------
(* decode.ts: the way back.                                                *)
FromWireEphemeralStore(w) == [peerId |-> w.p, data |-> w.d, namespace |-> w.ns]
FromWireTransmission(w) ==
  CASE w.k = 0 -> [type |-> "up-to-date", version |-> DecodeVersionVector(w.v)]
    [] w.k = 1 -> [type |-> "snapshot", data |-> w.d, version |-> DecodeVersionVector(w.v)]
    [] w.k = 2 -> [type |-> "update", data |-> w.d, version |-> DecodeVersionVector(w.v)]
    [] w.k = 3 -> [type |-> "unavailable"]

FromWireFlat(w) ==
  LET is(code) == w.t = MessageType[code]
      Establish(type) == [type |-> type, identity |-> [peerId |-> w.id, name |-> w.n, type |-> w.y]]
  IN
  CASE is("request") -> Establish("establish-request")
    [] is("response") -> Establish("establish-response")
    [] is("sync") -> [type |-> "sync-request", docId |-> w.doc, requesterDocVersion |-> DecodeVersionVector(w.v),
                      ephemeral |-> Mapped(w.e, FromWireEphemeralStore), bidirectional |-> w.bi]
    [] is("synced") -> [type |-> "sync-response", docId |-> w.doc, transmission |-> FromWireTransmission(w.tx),
                        ephemeral |-> Mapped(w.e, FromWireEphemeralStore)]
    [] is("update") -> [type |-> "update", docId |-> w.doc, transmission |-> FromWireTransmission(w.tx)]
    [] is("ask") -> [type |-> "directory-request", docIds |-> w.docs]
    [] is("listed") -> [type |-> "directory-response", docIds |-> w.docs]
    [] is("new") -> [type |-> "new-doc", docIds |-> w.docs]
    [] is("delete") -> [type |-> "delete-request", docId |-> w.doc]
    [] is("deleted") -> [type |-> "delete-response", docId |-> w.doc, status |-> w.s]
    [] is("ephemeral") -> [type |-> "ephemeral", docId |-> w.doc, hopsRemaining |-> w.h,
                           stores |-> Mapped(w.st, FromWireEphemeralStore)]
FromWireFormat(w) ==
  IF w.t = MessageType.batch THEN [type |-> "batch", messages |-> Mapped(w.m, FromWireFlat)] ELSE FromWireFlat(w)

(* The messages of a frame; none from one that is refused.                 *)
DecodeFrame(frame) ==
  IF Len(frame) < HeaderSize \/ frame[1] # WireVersion THEN <<>>
  ELSE LET length == ReadUint32(SubSeq(frame, 3, HeaderSize))
           payload == SubSeq(frame, HeaderSize + 1, HeaderSize + length)
       IN  IF Len(frame) < HeaderSize + length \/ ~IsCBOR(payload) THEN <<>>
           ELSE Mapped(DecodeCBOR(payload), FromWireFormat)

-----------------------------------------------------------------------------
(* channel-json.ts: base64 in chunks, version vectors as objects; an empty *)
(* list of ephemeral stores is left out.                                   *)
Chunks(data) == [i \in 1..(Len(data) + ChunkSize - 1) \div ChunkSize |->
                  SubSeq(data, (i - 1) * ChunkSize + 1, IF i * ChunkSize < Len(data) THEN i * ChunkSize ELSE Len(data))]
Uint8ArrayToJSON(data) == [base64 |-> IF Len(data) < ChunkSize THEN data ELSE FlattenSeq(Chunks(data))]
Uint8ArrayFromJSON(json) == json.base64
VersionVectorToJSON(v) == [object |-> v]
VersionVectorFromJSON(json) == json.object

Field(r, f, F(_)) == IF f \in DOMAIN r THEN [r EXCEPT ![f] = F(@)] ELSE r
StoreToJSON(s) == Field(s, "data", Uint8ArrayToJSON)
StoreFromJSON(s) == Field(s, "data", Uint8ArrayFromJSON)
SerializeSyncTransmission(t) == Field(Field(t, "data", Uint8ArrayToJSON), "version", VersionVectorToJSON)
DeserializeSyncTransmission(t) == Field(Field(t, "data", Uint8ArrayFromJSON), "version", VersionVectorFromJSON)
Some(s) == IF s = <<>> THEN None ELSE s

SerializeFlat(m) ==
  LET E(e) == Some(Mapped(e, StoreToJSON))
      S(ss) == Mapped(ss, StoreToJSON)
  IN  Field(Field(Field(Field(m, "ephemeral", E), "stores", S),
        "transmission", SerializeSyncTransmission), "requesterDocVersion", VersionVectorToJSON)
DeserializeFlat(m) ==
  LET E(e) == Some(Mapped(e, StoreFromJSON))
      S(ss) == Mapped(ss, StoreFromJSON)
  IN  Field(Field(Field(Field(m, "ephemeral", E), "stores", S),
        "transmission", DeserializeSyncTransmission), "requesterDocVersion", VersionVectorFromJSON)
SerializeChannelMsg(m) ==
  LET Ms(ms) == Mapped(ms, SerializeFlat) IN IF m.type = "batch" THEN Field(m, "messages", Ms) ELSE SerializeFlat(m)
DeserializeChannelMsg(m) ==
  LET Ms(ms) == Mapped(ms, DeserializeFlat) IN IF m.type = "batch" THEN Field(m, "messages", Ms) ELSE DeserializeFlat(m)

-----------------------------------------------------------------------------
(* fragment.ts: a byte tells complete payloads, headers and fragments      *)
(* apart; the batch is known by 8 bytes, here one.                         *)
BatchId == <<7>>
Prefix == [complete |-> 0, header |-> 1, data |-> 2]
Unparsed == [kind |-> "error"]
WrapCompleteMessage(frame) == <<Prefix.complete>> \o frame
CreateFragmentHeader(count, total) == <<Prefix.header>> \o BatchId \o Uint32(count) \o Uint32(total)
CreateFragmentData(index, chunk) == <<Prefix.data>> \o BatchId \o Uint32(index) \o chunk
HeaderLength == Len(BatchId) + 9
DataLength == Len(BatchId) + 5

FragmentPayload(frame) ==
  LET count == (Len(frame) + Threshold - 1) \div Threshold
      End(i) == IF i * Threshold < Len(frame) THEN i * Threshold ELSE Len(frame)
  IN  <<CreateFragmentHeader(count, Len(frame))>>
        \o [i \in 1..count |-> CreateFragmentData(i - 1, SubSeq(frame, (i - 1) * Threshold + 1, End(i)))]
ShouldFragment(frame) == Len(frame) > Threshold
Transport(frame) ==
  LET Bytes(p) == [bytes |-> p]
  IN  Mapped(IF ShouldFragment(frame) THEN FragmentPayload(frame) ELSE <<WrapCompleteMessage(frame)>>, Bytes)

ParseTransportPayload(p) ==
  LET Int32(at) == ReadUint32(SubSeq(p, at, at + 3)) IN
  IF p = <<>> THEN Unparsed
  ELSE CASE p[1] = Prefix.complete -> [kind |-> "message", data |-> Tail(p)]
         [] p[1] = Prefix.header -> IF Len(p) < HeaderLength \/ Int32(Len(BatchId) + 2) = 0 THEN Unparsed
                        ELSE [kind |-> "header", count |-> Int32(Len(BatchId) + 2), total |-> Int32(Len(BatchId) + 6)]
         [] p[1] = Prefix.data -> IF Len(p) < DataLength + 1 THEN Unparsed
                        ELSE [kind |-> "data", index |-> Int32(Len(BatchId) + 2), data |-> SubSeq(p, DataLength + 1, Len(p))]
         [] OTHER -> Unparsed

(* The bytes of a batch, once there are as many fragments as the header    *)
(* says; none when they are not what it says.                              *)
ReassembleFragments(h, fs) ==
  LET whole == FlattenSeq([i \in 1..h.count |-> fs[i - 1]])
  IN  IF DOMAIN fs = 0..h.count - 1 /\ Len(whole) = h.total THEN whole ELSE <<>>

-----------------------------------------------------------------------------
Init ==
  /\ sent = <<>> /\ payloads = <<>> /\ header = None /\ fragments = <<>>
  /\ received = <<>> /\ errors = 0

Sends(ms, ps) ==
  /\ payloads = <<>> /\ Len(sent) < MaxMsgs
  /\ sent' = sent \o ms /\ payloads' = ps
  /\ UNCHANGED <<header, fragments, received, errors>>
Send(m) == Sends(<<m>>, Transport(EncodeFrame(m)))
SendBatch(ms) == Sends(ms, Transport(EncodeBatchFrame(ms)))
Respond(m) == Sends(<<m>>, <<[json |-> SerializeChannelMsg(m)]>>)

IsJSON(p) == DOMAIN p = {"json"}
Decoded(frame) ==
  LET ms == DecodeFrame(frame)
  IN  received' = received \o ms /\ errors' = errors + (IF ms = <<>> THEN 1 ELSE 0)

Receives(p) ==
  LET q == ParseTransportPayload(p)
      fs == [i \in DOMAIN fragments \cup {q.index} |-> IF i = q.index THEN q.data ELSE fragments[i]]
  IN  CASE q.kind = "message" -> Decoded(q.data) /\ UNCHANGED <<header, fragments>>
        [] q.kind = "header" ->
             header' = q /\ fragments' = <<>> /\ UNCHANGED <<received, errors>>
        [] q.kind = "data" /\ header # None /\ Cardinality(DOMAIN fs) = header.count ->
             Decoded(ReassembleFragments(header, fs)) /\ header' = None /\ fragments' = <<>>
        [] q.kind = "data" /\ header # None ->
             fragments' = fs /\ UNCHANGED <<header, received, errors>>
        [] OTHER -> errors' = errors + 1 /\ UNCHANGED <<header, fragments, received>>

Receive ==
  /\ payloads # <<>>
  /\ payloads' = Tail(payloads)
  /\ IF IsJSON(Head(payloads))
     THEN received' = Append(received, DeserializeChannelMsg(Head(payloads).json)) /\ UNCHANGED <<header, fragments, errors>>
     ELSE Receives(Head(payloads).bytes)
  /\ UNCHANGED sent

(* A payload that lost its end.                                            *)
Truncate ==
  /\ payloads # <<>> /\ ~IsJSON(Head(payloads)) /\ errors = 0
  /\ \E n \in 0..Len(Head(payloads).bytes) - 1 :
       payloads' = <<[bytes |-> SubSeq(Head(payloads).bytes, 1, n)]>> \o Tail(payloads)
  /\ UNCHANGED <<sent, header, fragments, received, errors>>

Next ==
  \/ \E m \in ChannelMsgs : Send(m) \/ Respond(m)
  \/ \E m, n \in {m \in Batchable : m.type \in Batched} : SendBatch(<<m, n>>)
  \/ Receive \/ Truncate

Spec == Init /\ [][Next]_vars

-----------------------------------------------------------------------------
(* What is received are the messages that were sent, in their order; an    *)
(* empty list of stores may have become none.  What was cut short is       *)
(* refused, never taken for something else.                                *)
Plain(m) == LET E(e) == Some(e) IN Field(m, "ephemeral", E)
Normal(m) == LET Ms(ms) == Mapped(ms, Plain) IN Field(Plain(m), "messages", Ms)
ReceivedIsSent ==
  /\ errors = 0 => IsPrefix(Mapped(received, Normal), Mapped(sent, Normal))
  /\ errors = 0 /\ payloads = <<>> /\ header = None => Len(received) = Len(sent)
  /\ \A i \in DOMAIN received : \E j \in DOMAIN sent : Normal(received[i]) = Normal(sent[j])
=============================================================================
