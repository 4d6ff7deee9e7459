----------------------------- MODULE CompatCodec -----------------------------
(***************************************************************************)
(* The frames of the WebSocket compatibility adapter (protocol/encoder.ts, *)
(* decoder.ts, leb128.ts) and the layout of ephemeral payloads in them     *)
(* (translation.ts).  A frame is a sequence of bytes; the encoder computes *)
(* its size first and then fills a buffer of that size, so a size that is  *)
(* too large leaves zeros that the decoder may take for an optional field. *)
(***************************************************************************)
EXTENDS Naturals, Sequences, SequencesExt

CONSTANTS
  Rooms,     \* room ids, as sequences of bytes
  Payloads,  \* other strings and byte arrays
  Numbers,   \* app codes
  MaxNumber  \* bound on what is encoded as a number, lengths included

CodecAssumption ==
  /\ Numbers \subseteq 0 .. MaxNumber
  /\ \A b \in Rooms \cup Payloads : b \in Seq(0 .. 255) /\ Len(b) <= MaxNumber

VARIABLES msg,    \* the message, as an object
          frame,  \* its frame
          read,   \* what the other side decodes
          step    \* "chosen", "encoded" or "decoded"
vars == <<msg, frame, read, step>>

None == <<>>  \* an optional field that is not there
Codes == [unknown |-> 0, version |-> 1, authFailed |-> 2, app |-> 127]

JoinRequests  == [type : {0}, room : Rooms, auth : Payloads, version : Payloads]
JoinResponses == [type : {1}, room : Rooms, permission : {"read", "write"},
                  version : Payloads, metadata : Payloads]
JoinErrors ==
  [type : {2}, room : Rooms, code : {0, 2}, text : Payloads, extra : {None}]
  \cup [type : {2}, room : Rooms, code : {1}, text : Payloads,
        extra : {None} \cup {<<p>> : p \in Payloads}]
  \cup [type : {2}, room : Rooms, code : {127}, text : Payloads,
        extra : {None} \cup {<<n>> : n \in Numbers}]
Updates == [type : {3}, room : Rooms,
            updates : UNION {[1 .. n -> Payloads] : n \in 0 .. 2}]
UpdateErrors ==
  [type : {6}, room : Rooms, code : {3}, text : Payloads, extra : {None}]
  \cup [type : {6}, room : Rooms, code : {127}, text : Payloads,
        extra : {None} \cup {<<n>> : n \in Numbers}]
Leaves == [type : {7}, room : Rooms]
Messages == JoinRequests \cup JoinResponses \cup JoinErrors \cup Updates
            \cup UpdateErrors \cup Leaves

-----------------------------------------------------------------------------
(* Unsigned LEB128: seven bits a byte, the low ones first.                 *)
Uleb[n \in 0 .. MaxNumber] ==
  IF n < 128 THEN <<n>> ELSE <<128 + (n % 128)>> \o Uleb[n \div 128]

UlebSize[n \in 0 .. MaxNumber] == IF n < 128 THEN 1 ELSE 1 + UlebSize[n \div 128]

(* decodeULEB128 at a place: the number and the place after it.            *)
UnUleb(data, at) ==
  LET last == CHOOSE i \in at .. Len(data) :
                data[i] < 128 /\ \A j \in at .. i - 1 : data[j] >= 128
      value[i \in at .. last + 1] ==
        IF i > last THEN 0 ELSE (data[i] % 128) + 128 * value[i + 1]
  IN [value |-> value[at], next |-> last + 1]

(* Bug: a length takes one byte.                                           *)
OneByteLength(b) == <<Len(b)>> \o b
(* encodeVarBytes and encodeVarString.                                     *)
VarBytes(b) == Uleb[Len(b)] \o b
VarSize(b) == UlebSize[Len(b)] + Len(b)

(* decodeVarBytes and decodeVarString.                                     *)
UnVarBytes(data, at) ==
  LET n == UnUleb(data, at)
  IN [value |-> SubSeq(data, n.next, n.next + n.value - 1), next |-> n.next + n.value]

(* The parts of a frame after the magic bytes, which name the CRDT type    *)
(* and are copied.                                                         *)
Extra(m) ==
  CASE m.extra = None -> <<>>
    [] m.type = 2 /\ m.code = Codes.version -> VarBytes(m.extra[1])
    [] OTHER -> Uleb[m.extra[1]]

ExtraSize(m) ==
  CASE m.extra = None -> 0
    [] m.type = 2 /\ m.code = Codes.version -> VarSize(m.extra[1])
    [] OTHER -> UlebSize[m.extra[1]]

Encoded(m) ==
  <<m.type>> \o VarBytes(m.room) \o
  CASE m.type = 0 -> VarBytes(m.auth) \o VarBytes(m.version)
    [] m.type = 1 -> <<IF m.permission = "write" THEN 1 ELSE 0>>
                     \o VarBytes(m.version) \o VarBytes(m.metadata)
    [] m.type \in {2, 6} -> <<m.code>> \o VarBytes(m.text) \o Extra(m)
    [] m.type = 3 -> Uleb[Len(m.updates)]
                     \o FlattenSeq([i \in DOMAIN m.updates |-> VarBytes(m.updates[i])])
    [] OTHER -> <<>>

(* Bug: room is made for the app code of every error.                      *)
RoomForExtra(m) ==
  1 + VarSize(m.room) +
  CASE m.type = 0 -> VarSize(m.auth) + VarSize(m.version)
    [] m.type = 1 -> 1 + VarSize(m.version) + VarSize(m.metadata)
    [] m.type \in {2, 6} ->
         1 + VarSize(m.text) + (IF m.extra = None THEN 1 ELSE ExtraSize(m))
    [] m.type = 3 -> UlebSize[Len(m.updates)]
                     + FoldLeft(LAMBDA n, u : n + VarSize(u), 0, m.updates)
    [] OTHER -> 0

(* calculateMessageSize, without the magic bytes.                          *)
CalculateMessageSize(m) ==
  1 + VarSize(m.room) +
  CASE m.type = 0 -> VarSize(m.auth) + VarSize(m.version)
    [] m.type = 1 -> 1 + VarSize(m.version) + VarSize(m.metadata)
    [] m.type \in {2, 6} -> 1 + VarSize(m.text) + ExtraSize(m)
    [] m.type = 3 -> UlebSize[Len(m.updates)]
                     + FoldLeft(LAMBDA n, u : n + VarSize(u), 0, m.updates)
    [] OTHER -> 0

(* encodeMessage: the buffer; buffer.set throws when it is too small.      *)
EncodeMessage(m) ==
  LET bytes == Encoded(m)
      size  == CalculateMessageSize(m)
  IN IF size < Len(bytes) THEN <<>>
     ELSE bytes \o [i \in 1 .. size - Len(bytes) |-> 0]

(* Bug: the optional field is left where it is.                            *)
NeverExtra(data, m, at) == None
(* The optional field of an error that starts at a place: by the code, and *)
(* only if there is anything left.                                         *)
DecodedExtra(data, m, at) ==
  IF at > Len(data) THEN None
  ELSE CASE m.type = 2 /\ m.code = Codes.version -> <<UnVarBytes(data, at).value>>
         [] m.code = Codes.app -> <<UnUleb(data, at).value>>
         [] OTHER -> None

(* The updates from a place on.                                            *)
DecodedUpdates(data, n, at) ==
  LET upTo[i \in 0 .. n] ==
        IF i = 0 THEN [list |-> <<>>, next |-> at]
        ELSE LET b == UnVarBytes(data, upTo[i - 1].next)
             IN [list |-> Append(upTo[i - 1].list, b.value), next |-> b.next]
  IN upTo[n].list

DecodeMessage(data) ==
  LET type == data[1]
      room == UnVarBytes(data, 2)
      at   == room.next
  IN CASE type = 0 ->
            LET auth == UnVarBytes(data, at)
            IN [type |-> type, room |-> room.value, auth |-> auth.value,
                version |-> UnVarBytes(data, auth.next).value]
       [] type = 1 ->
            LET version == UnVarBytes(data, at + 1)
            IN [type |-> type, room |-> room.value,
                permission |-> IF data[at] = 1 THEN "write" ELSE "read",
                version |-> version.value,
                metadata |-> UnVarBytes(data, version.next).value]
       [] type \in {2, 6} ->
            LET text == UnVarBytes(data, at + 1)
                head == [type |-> type, code |-> data[at]]
            IN [type |-> type, room |-> room.value, code |-> data[at],
                text |-> text.value, extra |-> DecodedExtra(data, head, text.next)]
       [] type = 3 ->
            LET n == UnUleb(data, at)
            IN [type |-> type, room |-> room.value,
                updates |-> DecodedUpdates(data, n.value, n.next)]
       [] OTHER -> [type |-> type, room |-> room.value]

-----------------------------------------------------------------------------
(* An ephemeral payload in an update: the id of the peer and the namespace *)
(* with two bytes of length each, then the data.                           *)
Two(n) == <<(n \div 256) % 256, n % 256>>
Stores == [peer : Payloads, namespace : Payloads, data : Payloads]

(* Bug: one byte is enough for a length.                                   *)
ShortStore(s) == <<0, Len(s.peer) % 256>> \o s.peer
                 \o <<0, Len(s.namespace) % 256>> \o s.namespace \o s.data
EncodeStore(s) == Two(Len(s.peer)) \o s.peer
                  \o Two(Len(s.namespace)) \o s.namespace \o s.data

DecodeStore(b) ==
  LET p  == 256 * b[1] + b[2]
      ns == 3 + p
      n  == 256 * b[ns] + b[ns + 1]
  IN [peer |-> SubSeq(b, 3, 2 + p), namespace |-> SubSeq(b, ns + 2, ns + 1 + n),
      data |-> SubSeq(b, ns + 2 + n, Len(b))]

-----------------------------------------------------------------------------
Init ==
  /\ msg \in Messages
  /\ frame = <<>> /\ read = None /\ step = "chosen"

Encode ==
  /\ step = "chosen" /\ step' = "encoded"
  /\ frame' = EncodeMessage(msg)
  /\ UNCHANGED <<msg, read>>

(* A frame that could not be made is not sent.                             *)
Decode ==
  /\ step = "encoded" /\ frame # <<>> /\ step' = "decoded"
  /\ read' = <<DecodeMessage(frame)>>
  /\ UNCHANGED <<msg, frame>>

Next == Encode \/ Decode
Spec == Init /\ [][Next]_vars

-----------------------------------------------------------------------------
TypeOK ==
  /\ frame \in Seq(0 .. 255)
  /\ step \in {"chosen", "encoded", "decoded"}

(* Every message the protocol has arrives as it was sent, with the         *)
(* optional fields it had and no others.                                   *)
RoundTrip == step = "decoded" => read = <<msg>>

(* The size computed first is the size of the frame, for every message: it *)
(* neither throws nor ends in zeros.                                       *)
SizeExact == step # "chosen" => frame = Encoded(msg)

(* PROTOCOL.md:67: a DocUpdate ends in the 8-byte id of its batch.         *)
BatchIdAppended ==
  step # "chosen" /\ msg.type = 3 =>
    Len(frame) = 1 + VarSize(msg.room) + UlebSize[Len(msg.updates)]
                 + FoldLeft(LAMBDA n, u : n + VarSize(u), 0, msg.updates) + 8

(* What an update carries of an ephemeral store is what the other side     *)
(* takes from it, where lengths pass from one byte to two as well.         *)
StoresSurvive ==
  step = "encoded" /\ msg.type = 3 /\ Len(msg.updates) = 2 =>
    \A d \in Payloads :
      LET s == [peer |-> msg.updates[1], namespace |-> msg.updates[2], data |-> d]
      IN DecodeStore(EncodeStore(s)) = s
=============================================================================
