----------------------------- MODULE WebRtcLink -----------------------------
(***************************************************************************)
(* The WebRtcDataChannelAdapters of two peers (webrtc/src/adapter.ts).     *)
(*                                                                         *)
(* The application owns the data channels: it attaches them on each side   *)
(* when it likes, before or after they open, replaces one by another and   *)
(* detaches them, by peer id or by the function that attaching returned.   *)
(* A data channel is ordered and reliable while it is open; what arrives   *)
(* before it is attached, or without a Loro channel, is lost.              *)
(***************************************************************************)
EXTENDS Naturals, Sequences

CONSTANTS Last,         \* the data channels between the two peers are 1 .. Last
          MaxAttaches,  \* bound on the attachDataChannel calls of both sides
          MaxStops,     \* bound on the stops of both adapters
          StartsFirst,  \* the application attaches after the adapter started
          OwnCleanup    \* it calls the function of an attachment only while that lasts

WebRtcAssumption ==
  /\ {Last, MaxAttaches, MaxStops} \subseteq Nat
  /\ {StartsFirst, OwnCleanup} \subseteq BOOLEAN

VARIABLES
  started,     \* [Sides -> BOOLEAN]: the adapter's life cycle state
  dc,          \* [Sides -> [Channels -> ...]]: readyState of each end
  wire,        \* [Sides -> [Channels -> Seq(...)]]: what is on its way to a side
  attached,    \* [Sides -> 0 .. Last]: attachedChannels at the other peer's id
  listening,   \* [Sides -> SUBSET Channels]: with the listeners of an attachment
  assembling,  \* [Sides -> SUBSET Channels]: with a reassembler not disposed of
  loro,        \* [Sides -> 0 .. Last]: the data channel under attached.channelId
  model,       \* [Sides -> [Channels -> ...]]: Loro channels the synchronizer knows
  made,        \* [Sides -> SUBSET Channels]: attachments whose cleanup functions exist
  attaches, stops  \* how often so far
app == <<made, attaches, stops>>
vars == <<started, dc, wire, attached, listening, assembling, loro, model, app>>

Sides == {1, 2}
Channels == 1 .. Last
Other(s) == 3 - s

Init ==
  /\ started = [s \in Sides |-> FALSE]
  /\ dc = [s \in Sides |-> [d \in Channels |-> "connecting"]]
  /\ wire = [s \in Sides |-> [d \in Channels |-> <<>>]]
  /\ attached = [s \in Sides |-> 0]
  /\ listening = [s \in Sides |-> {}]
  /\ assembling = [s \in Sides |-> {}]
  /\ loro = [s \in Sides |-> 0]
  /\ model = [s \in Sides |-> [d \in Channels |-> "none"]]
  /\ made = [s \in Sides |-> {}]
  /\ attaches = 0
  /\ stops = 0

-----------------------------------------------------------------------------
(* generate().send: nothing is sent on a data channel that is not open.    *)
(* The other end may have closed meanwhile.                                *)
Sent(s, d, m) ==
  IF dc'[s][d] = "open" /\ dc'[Other(s)][d] # "closed"
  THEN [wire EXCEPT ![Other(s)][d] = Append(@, m)]
  ELSE wire

(* Bug: of two ends that open, only the first side establishes.            *)
FirstSideMakes(s, d, m) ==
  /\ loro' = [loro EXCEPT ![s] = d]
  /\ model' = [m EXCEPT ![s][d] = "connected"]
  /\ wire' = IF s = 1 THEN Sent(s, d, "establish-request") ELSE wire
(* createLoroChannel, by a side whose attachment is d afterwards: adds the *)
(* channel and sends the establish-request; addChannel throws when the     *)
(* adapter is not started, and the attachment stays without a channel.     *)
CreateLoroChannel(s, d, m) ==
  /\ loro' = [loro EXCEPT ![s] = d]
  /\ model' = [m EXCEPT ![s][d] = "connected"]
  /\ wire' = Sent(s, d, "establish-request")

(* removeLoroChannel: the synchronizer forgets the channel of the current  *)
(* attachment.                                                             *)
Removed(s) ==
  IF loro[s] = 0 THEN model ELSE [model EXCEPT ![s][loro[s]] = "none"]

(* Bug: the listeners of the data channel stay.                            *)
ListenersStay(s) == listening[s]
ListenersAfterDetach(s) == listening[s] \ {attached[s]}
(* Bug: the Loro channel stays.                                            *)
ChannelStays(s) == model
ModelAfterDetach(s) == Removed(s)
(* Bug: the open event is awaited, though the data channel may be open.    *)
AwaitsEvent(s, d) == FALSE
(* attachDataChannel makes the Loro channel at once if it is open already. *)
OpenAtOnce(s, d) == dc[s][d] = "open"

(* attachDataChannel, which detaches what is attached for the peer.        *)
Attach(s, d) ==
  /\ attaches < MaxAttaches
  /\ dc[s][d] # "closed"
  /\ StartsFirst => started[s]
  /\ attaches' = attaches + 1
  /\ made' = [made EXCEPT ![s] = @ \cup {d}]
  /\ attached' = [attached EXCEPT ![s] = d]
  /\ listening' = [listening EXCEPT ![s] = ListenersAfterDetach(s) \cup {d}]
  /\ assembling' = [assembling EXCEPT ![s] = (@ \ {attached[s]}) \cup {d}]
  /\ UNCHANGED <<started, dc, stops>>
  /\ IF OpenAtOnce(s, d) /\ started[s]
     THEN CreateLoroChannel(s, d, ModelAfterDetach(s))
     ELSE /\ loro' = [loro EXCEPT ![s] = 0]
          /\ model' = ModelAfterDetach(s)
          /\ UNCHANGED wire

DetachDataChannel(s) ==
  /\ attached[s] # 0
  /\ attached' = [attached EXCEPT ![s] = 0]
  /\ listening' = [listening EXCEPT ![s] = ListenersAfterDetach(s)]
  /\ assembling' = [assembling EXCEPT ![s] = @ \ {attached[s]}]
  /\ loro' = [loro EXCEPT ![s] = 0]
  /\ model' = ModelAfterDetach(s)
  /\ UNCHANGED <<dc, wire>>

(* The function that attaching d returned: it detaches by peer id.         *)
CleanUp(s, d) ==
  /\ d \in made[s]
  /\ OwnCleanup => attached[s] = d
  /\ made' = [made EXCEPT ![s] = @ \ {d}]
  /\ DetachDataChannel(s)
  /\ UNCHANGED <<started, attaches, stops>>

Start(s) ==
  /\ ~started[s]
  /\ started' = [started EXCEPT ![s] = TRUE]
  /\ UNCHANGED <<dc, wire, attached, listening, assembling, loro, model, app>>

(* onStop detaches every data channel.                                     *)
Stop(s) ==
  /\ started[s]
  /\ stops < MaxStops
  /\ stops' = stops + 1
  /\ started' = [started EXCEPT ![s] = FALSE]
  /\ IF attached[s] # 0 THEN DetachDataChannel(s)
     ELSE UNCHANGED <<dc, wire, attached, listening, assembling, loro, model>>
  /\ UNCHANGED <<made, attaches>>

-----------------------------------------------------------------------------
(* The open event.  Its listener looks the attachment up by peer id and    *)
(* makes no second Loro channel.                                           *)
Opens(s, d) ==
  /\ dc[s][d] = "connecting"
  /\ dc[Other(s)][d] # "closed"
  /\ dc' = [dc EXCEPT ![s][d] = "open"]
  /\ IF d \in listening[s] /\ attached[s] # 0 /\ loro[s] = 0 /\ started[s]
     THEN CreateLoroChannel(s, d, model)
     ELSE UNCHANGED <<loro, model, wire>>
  /\ UNCHANGED <<started, attached, listening, assembling, app>>

(* The close event, after an error event or without one: both listeners    *)
(* remove the Loro channel of the peer and leave the attachment.           *)
Closes(s, d) ==
  /\ dc[s][d] # "closed"
  /\ dc' = [dc EXCEPT ![s][d] = "closed"]
  /\ wire' = [wire EXCEPT ![s][d] = <<>>]
  /\ IF d \in listening[s]
     THEN loro' = [loro EXCEPT ![s] = 0] /\ model' = Removed(s)
     ELSE UNCHANGED <<loro, model>>
  /\ UNCHANGED <<started, attached, listening, assembling, app>>

(* handleMessage: the message is taken for one of the Loro channel that    *)
(* the peer has now.  channel.onReceive runs the handshake: a request is   *)
(* answered and, like a response, establishes the channel.                 *)
Heard(s, d) == d \in listening[s] /\ loro[s] # 0
Message(s, d) ==
  /\ dc[s][d] = "open"
  /\ wire[s][d] # <<>>
  /\ LET rest == [wire EXCEPT ![s][d] = Tail(@)]
         n == loro[s]
     IN IF Heard(s, d)
        THEN /\ model' = [model EXCEPT ![s][n] = "established"]
             /\ wire' = IF Head(wire[s][d]) = "establish-request" /\ dc[s][n] = "open"
                           /\ dc[Other(s)][n] # "closed"
                        THEN [rest EXCEPT ![Other(s)][n] = Append(@, "establish-response")]
                        ELSE rest
        ELSE wire' = rest /\ UNCHANGED model
  /\ UNCHANGED <<started, dc, attached, listening, assembling, loro, app>>

Next ==
  \E s \in Sides :
    \/ Start(s)
    \/ Stop(s)
    \/ \E d \in Channels :
         \/ Attach(s, d)
         \/ CleanUp(s, d)
         \/ Opens(s, d)
         \/ Closes(s, d)
         \/ Message(s, d)

(* The network delivers; what the application does, it need not do.        *)
Spec == Init /\ [][Next]_vars
FairSpec ==
  /\ Spec
  /\ \A s \in Sides : \A d \in Channels : WF_vars(Message(s, d)) /\ WF_vars(Opens(s, d))

-----------------------------------------------------------------------------
TypeOK ==
  /\ started \in [Sides -> BOOLEAN]
  /\ dc \in [Sides -> [Channels -> {"connecting", "open", "closed"}]]
  /\ \A s \in Sides : \A d \in Channels :
       wire[s][d] \in Seq({"establish-request", "establish-response"})
  /\ attached \in [Sides -> 0 .. Last]
  /\ loro \in [Sides -> 0 .. Last]
  /\ model \in [Sides -> [Channels -> {"none", "connected", "established"}]]
  /\ \A s \in Sides :
       /\ loro[s] \in {0, attached[s]}
       /\ listening[s] = {attached[s]} \ {0}
       /\ assembling[s] = listening[s]
       /\ made[s] \subseteq Channels
  /\ attaches \in 0 .. MaxAttaches /\ stops \in 0 .. MaxStops

(* A data channel that is open and attached has its Loro channel, however  *)
(* attaching and opening follow each other, and whatever the data channels *)
(* attached before still do.                                               *)
OpenIsServed ==
  \A s \in Sides : attached[s] # 0 /\ dc[s][attached[s]] = "open" =>
    model[s][attached[s]] # "none"

(* The synchronizer knows no Loro channel whose data channel has closed or *)
(* has been detached or replaced: it would go on sending there.            *)
NoneOrphaned ==
  \A s \in Sides : \A d \in Channels : model[s][d] # "none" =>
    attached[s] = d /\ dc[s][d] = "open"

(* When both sides have the same open data channel attached and nothing is *)
(* on its way, both have established it, though requests sent before the   *)
(* other side attached are lost.                                           *)
QuietAgree ==
  \A d \in Channels :
    (\A s \in Sides : attached[s] = d /\ dc[s][d] = "open" /\ wire[s][d] = <<>>) =>
      \A s \in Sides : model[s][d] = "established"

(* Two sides that stay attached to one data channel, which does not close, *)
(* establish it.                                                           *)
Settles ==
  \A d \in Channels :
    (<>[](\A s \in Sides : attached[s] = d /\ dc[s][d] # "closed"))
      => <>[](\A s \in Sides : model[s][d] = "established")

(* README.md:124, adapter.ts:197: the function that attaching returns      *)
(* detaches "the channel": what another call attached stays.               *)
CleanupIsOwn ==
  [][\A s \in Sides : \A d \in Channels :
       d \in made[s] /\ d \notin made'[s] /\ attached[s] # d => attached'[s] = attached[s]]_vars

(* README.md:181: a closed data channel has its reassembler cleaned up.    *)
ClosedIsClean == \A s \in Sides : \A d \in assembling[s] : dc[s][d] # "closed"
=============================================================================
