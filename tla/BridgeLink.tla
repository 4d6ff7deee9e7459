----------------------------- MODULE BridgeLink -----------------------------
(***************************************************************************)
(* The BridgeAdapters of several Repos on one Bridge (bridge-adapter.ts).  *)
(*                                                                         *)
(* onStart and onStop run in one go and reach into the other adapters: the *)
(* newcomer has each of them make its channel, makes its own and then is   *)
(* the only one to establish.  Messages are delivered by microtasks, which *)
(* run in the order they were queued; the channel a message is delivered   *)
(* to is looked up when it is sent.                                        *)
(***************************************************************************)
EXTENDS Naturals, FiniteSets, Sequences, Functions

CONSTANTS Adapters,  \* one BridgeAdapter of each Repo
          MaxStarts  \* bound on the starts of all adapters

BridgeAssumption == IsFiniteSet(Adapters) /\ MaxStarts \in Nat

VARIABLES
  registered,  \* bridge.adapters
  starts,      \* starts so far
  issued,      \* channels issued so far (channelIssuanceId)
  channelTo,   \* [Adapters -> [Adapters -> Nat]]: adapterToChannel, 0 for none
  model,       \* [Adapters -> [Nat -> ...]]: channels the Repo knows, with their state
  tasks,       \* the microtasks: messages on their way
  requests     \* establish-requests handled, as pairs of channels
vars == <<registered, starts, issued, channelTo, model, tasks, requests>>

MaxChannels == MaxStarts * 2 * (Cardinality(Adapters) - 1)
Nrs == 1 .. MaxChannels
Message == [type : {"establish-request", "establish-response", "sync"},
            from : Adapters, to : Adapters,
            sent : Nrs,           \* the channel it was sent on
            channel : Nrs]        \* the channel it is delivered to

Init ==
  /\ registered = {}
  /\ starts = 0
  /\ issued = 0
  /\ channelTo = [a \in Adapters |-> [b \in Adapters |-> 0]]
  /\ model = [a \in Adapters |-> [n \in Nrs |-> "none"]]
  /\ tasks = <<>>
  /\ requests = <<>>

-----------------------------------------------------------------------------
(* channel.send: routed to the adapter of the target, which queues it for  *)
(* the channel it has to the sender; dropped when either is not there.     *)
Between(type, a, b, ch) ==
  [type |-> type, from |-> a, to |-> b, sent |-> ch[a][b], channel |-> ch[b][a]]
Routed(type, a, b, ch) ==
  IF ch[b][a] # 0 /\ ch[a][b] # 0 THEN <<Between(type, a, b, ch)>> ELSE <<>>

(* The order in which the Map of the Bridge lists the others matters to    *)
(* the order of the messages only.                                         *)
OrdersOf(S) == Bijection(1 .. Cardinality(S), S)

(* Sent to all the others: there are channels both ways, nothing is dropped. *)
AllRouted(type, a, order, ch) ==
  [k \in DOMAIN order |-> Between(type, a, order[k], ch)]

(* createChannelTo in both directions for the newcomer a and the others.   *)
Numbered(a, order) ==
  [x \in Adapters |-> [y \in Adapters |->
     CASE x # a /\ y = a /\ x \in registered ->
            issued + CHOOSE k \in DOMAIN order : order[k] = x
       [] x = a /\ y \in registered \ {a} ->
            issued + Len(order) + CHOOSE k \in DOMAIN order : order[k] = y
       [] OTHER -> channelTo[x][y]]]

(* Bug: those already there establish as well.                             *)
BothEstablish(a, order, ch) ==
  AllRouted("establish-request", a, order, ch)
  \o (IF order = <<>> THEN <<>> ELSE Routed("establish-request", Head(order), a, ch))
(* Bug: the newcomer establishes its first channel only.                   *)
FirstEstablished(a, order, ch) ==
  IF order = <<>> THEN <<>> ELSE Routed("establish-request", a, Head(order), ch)
(* Phase 2: only the newcomer establishes.                                 *)
Establish(a, order, ch) == AllRouted("establish-request", a, order, ch)

Start(a) ==
  /\ a \notin registered
  /\ starts < MaxStarts
  /\ starts' = starts + 1
  /\ registered' = registered \cup {a}
  /\ \E order \in OrdersOf(registered) :
       LET ch == Numbered(a, order)
       IN /\ channelTo' = ch
          /\ issued' = issued + 2 * Len(order)
          /\ model' = [x \in Adapters |-> [n \in Nrs |->
                         IF \E y \in Adapters : ch[x][y] = n /\ channelTo[x][y] # n
                         THEN "connected" ELSE model[x][n]]]
          /\ tasks' = tasks \o Establish(a, order, ch)
  /\ UNCHANGED requests

(* Bug: the others keep their channels to the adapter that stops.          *)
OnlyOwn(a) ==
  [x \in Adapters |-> [y \in Adapters |-> IF x = a THEN 0 ELSE channelTo[x][y]]]
(* The channels of a and those to it.                                      *)
WithoutChannelsOf(a) ==
  [x \in Adapters |-> [y \in Adapters |-> IF a \in {x, y} THEN 0 ELSE channelTo[x][y]]]

Stop(a) ==
  /\ a \in registered
  /\ registered' = registered \ {a}
  /\ channelTo' = WithoutChannelsOf(a)
  /\ model' = [x \in Adapters |-> [n \in Nrs |->
                 IF \E y \in Adapters : channelTo[x][y] = n /\ channelTo'[x][y] # n
                 THEN "none" ELSE model[x][n]]]
  /\ UNCHANGED <<starts, issued, tasks, requests>>

(* Bug: the channel is looked up when the microtask runs.                  *)
CurrentChannel(m) == channelTo[m.to][m.from]
Receiver(m) == m.channel

(* A microtask: channel.onReceive, then the handler.  What is not in the   *)
(* model is dropped.                                                       *)
Deliver ==
  /\ tasks # <<>>
  /\ LET m == Head(tasks)
         n == Receiver(m)
         known == n # 0 /\ model[m.to][n] # "none"
         answer == IF known /\ m.type = "establish-request"
                   THEN Routed("establish-response", m.to, m.from, channelTo)
                        \o Routed("sync", m.to, m.from, channelTo)
                   ELSE IF known /\ m.type = "establish-response"
                   THEN Routed("sync", m.to, m.from, channelTo)
                   ELSE <<>>
     IN /\ tasks' = Tail(tasks) \o answer
        /\ model' = IF known /\ m.type # "sync"
                    THEN [model EXCEPT ![m.to][n] = "established"] ELSE model
        /\ requests' = IF known /\ m.type = "establish-request"
                       THEN Append(requests, <<m.sent, n>>) ELSE requests
  /\ UNCHANGED <<registered, starts, issued, channelTo>>

Next ==
  \/ \E a \in Adapters : Start(a)
  \/ \E a \in Adapters : Stop(a)
  \/ Deliver

Spec == Init /\ [][Next]_vars

-----------------------------------------------------------------------------
TypeOK ==
  /\ registered \subseteq Adapters
  /\ starts \in 0 .. MaxStarts
  /\ issued \in 0 .. MaxChannels
  /\ channelTo \in [Adapters -> [Adapters -> 0 .. MaxChannels]]
  /\ model \in [Adapters -> [Nrs -> {"none", "connected", "established"}]]
  /\ tasks \in Seq(Message)
  /\ \A x, y \in Adapters :
       (channelTo[x][y] # 0) <=> (x # y /\ {x, y} \subseteq registered)

(* When no message is on its way, every two Repos on the Bridge have       *)
(* established their channels, on both sides.                              *)
QuietEstablished ==
  tasks = <<>> =>
    \A x, y \in registered : x # y => model[x][channelTo[x][y]] = "established"

(* Two channels are established by one request: an adapter that joins does *)
(* not meet those of the others.                                           *)
EstablishedOnce ==
  \A i, j \in DOMAIN requests : requests[i] = requests[j] \/ i = j =>
    /\ i = j
    /\ \A k \in DOMAIN requests : k # i =>
         {requests[k][1], requests[k][2]} \cap {requests[i][1], requests[i][2]} = {}

(* What a Repo handles on a channel was sent on the channel that the other *)
(* side has to it now: nothing of an earlier connection is taken for a     *)
(* message of the present one.                                             *)
OwnConnection ==
  [][tasks # <<>> /\ Deliver =>
       LET m == Head(tasks)
           n == Receiver(m)
       IN  n # 0 /\ model[m.to][n] # "none" => channelTo[m.from][m.to] = m.sent]_vars
=============================================================================
