------------------------------- MODULE WsLink -------------------------------
(***************************************************************************)
(* One WebSocket client adapter (adapters/websocket/src/client.ts and      *)
(* client-state-machine.ts) and the server adapter it connects to          *)
(* (server-adapter.ts, connection.ts), for one peer id.  Sockets are used  *)
(* one after the other; each end learns of opening, messages and closing   *)
(* through events of its own, in an order only the socket itself fixes.    *)
(***************************************************************************)
EXTENDS Naturals, Sequences, FiniteSets

CONSTANTS
  Last,         \* bound: sockets 1 .. Last are opened
  MaxAttempts,  \* reconnect.maxAttempts
  MaxStarts,    \* bound: how often the client adapter is started
  EarlyReady    \* whether a message event may come between the open event
                \*   and the continuation of the promise it resolves

BoundAssumption == {Last, MaxAttempts, MaxStarts} \subseteq Nat \ {0}
FlagAssumption == EarlyReady \in BOOLEAN

Sockets == 1 .. Last
None == 0

VARIABLES
  client,     \* the client adapter: status and attempt of its state machine,
              \*   its channel, reconnect timer, whether it is started, its
              \*   reassembler disposed, whether a handler threw
  starts,     \* how often the client adapter was started
  socket,     \* the client's this.socket
  cside,      \* the client's readyState of each socket
  connects,   \* the promise connect() awaits for each socket
  onclose,    \* the sockets whose close events reach handleClose
  sside,      \* the server's readyState of each socket; "orphaned" is open,
              \*   its connection unregistered by the close of another
  connection, \* the server's connections.get(peerId)
  serverChan, \* the state of the channel of that connection
  broken,     \* sockets the network lost
  toClient, toServer  \* messages under way on each socket

clientVars == <<client, starts, socket, cside, connects, onclose>>
serverVars == <<sside, connection, serverChan>>
vars == <<clientVars, serverVars, broken, toClient, toServer>>

-----------------------------------------------------------------------------
(* Bug: a socket that closes before "ready" was not thought of.            *)
TransitionsForgotten ==
  [disconnected |-> {"connecting"},
   connecting   |-> {"connected", "disconnected", "reconnecting"},
   connected    |-> {"ready", "disconnected"},
   ready        |-> {"disconnected", "reconnecting"},
   reconnecting |-> {"connecting", "disconnected"}]

(* VALID_TRANSITIONS of the client state machine.                          *)
ValidTransitions ==
  [disconnected |-> {"connecting"},
   connecting   |-> {"connected", "disconnected", "reconnecting"},
   connected    |-> {"ready", "disconnected", "reconnecting"},
   ready        |-> {"disconnected", "reconnecting"},
   reconnecting |-> {"connecting", "disconnected"}]

(* A transition that is not valid throws and changes nothing.              *)
Goes(c, to) ==
  IF to \in ValidTransitions[c.status] THEN [c EXCEPT !.status = to]
  ELSE [c EXCEPT !.threw = TRUE]

(* Bug: the attempts before the last successful connection count too.      *)
AttemptsEver(c) == c.attempt

(* The attempts made since the client was last connected.                  *)
AttemptsMade(c) ==
  IF c.status \in {"reconnecting", "connecting"} THEN c.attempt ELSE 0

(* Bug: attempts without limit.                                            *)
RescheduledAlways(c) ==
  IF c.status = "disconnected" THEN c
  ELSE [c EXCEPT !.status = "reconnecting", !.attempt = AttemptsMade(c) + 1,
                 !.timer = TRUE]

(* scheduleReconnect: nothing when disconnected; give up when told not to  *)
(* reconnect or after the last attempt; otherwise set the timer.           *)
Rescheduled(c) ==
  IF c.status = "disconnected" THEN c
  ELSE IF ~ c.started \/ AttemptsMade(c) >= MaxAttempts
    THEN Goes(c, "disconnected")
  ELSE IF "reconnecting" \in ValidTransitions[c.status]
    THEN [c EXCEPT !.status = "reconnecting", !.attempt = AttemptsMade(c) + 1,
                   !.timer = TRUE]
  ELSE Goes(c, "reconnecting")

(* connect(): keep the attempt of a reconnect, start over otherwise.       *)
Connecting(c) ==
  [Goes(c, "connecting") EXCEPT
     !.attempt = IF c.status = "reconnecting" THEN c.attempt ELSE 1]

Unused == {s \in Sockets : cside[s] = "unused"}

(* connect() returns at once while connecting; otherwise it opens a socket *)
(* and awaits its open, error or close event.                              *)
Connects(c) ==
  \/ /\ c.status = "connecting"
     /\ client' = c
     /\ UNCHANGED <<socket, cside, connects>>
  \/ /\ c.status # "connecting" /\ Unused # {}
     /\ LET s == CHOOSE u \in Unused : \A v \in Unused : u <= v
        IN /\ client' = Connecting(c)
           /\ socket' = s
           /\ cside' = [cside EXCEPT ![s] = "connecting"]
           /\ connects' = [connects EXCEPT ![s] = "waiting"]

NotStarted == [status |-> "disconnected", attempt |-> 0, channel |-> "none",
               timer |-> FALSE, started |-> FALSE, disposed |-> FALSE,
               threw |-> FALSE]

Init ==
  /\ client = NotStarted /\ starts = 0 /\ socket = None
  /\ cside = [s \in Sockets |-> "unused"]
  /\ connects = [s \in Sockets |-> "none"]
  /\ onclose = {}
  /\ sside = [s \in Sockets |-> "unused"]
  /\ connection = None /\ serverChan = "none"
  /\ broken = {}
  /\ toClient = [s \in Sockets |-> <<>>]
  /\ toServer = [s \in Sockets |-> <<>>]

(* A continuation is a microtask: it runs before the next event.           *)
NoContinuation == \A s \in Sockets : connects[s] \notin {"resolved", "rejected"}

-----------------------------------------------------------------------------
(* The client.                                                             *)

(* onStart.                                                                *)
Start ==
  /\ ~ client.started /\ starts < MaxStarts
  /\ starts' = starts + 1
  /\ Connects([client EXCEPT !.started = TRUE])
  /\ UNCHANGED <<onclose, serverVars, broken, toClient, toServer>>

(* The reconnect timer fires.                                              *)
ReconnectTimer ==
  /\ client.timer
  /\ Connects([client EXCEPT !.timer = FALSE])
  /\ UNCHANGED <<starts, onclose, serverVars, broken, toClient, toServer>>

(* onStop and disconnect(): timer off, socket closed, channel removed.     *)
OnStop ==
  /\ client.started
  /\ client' = [client EXCEPT !.started = FALSE, !.disposed = TRUE,
                              !.timer = FALSE, !.channel = "none",
                              !.status = "disconnected"]
  /\ cside' = IF socket # None /\ cside[socket] \in {"connecting", "open"}
                THEN [cside EXCEPT ![socket] = "closing"] ELSE cside
  /\ socket' = None
  /\ UNCHANGED <<starts, connects, onclose, serverVars, broken, toClient, toServer>>

(* The open event: the server has answered the upgrade.                    *)
OpenEvent(s) ==
  /\ NoContinuation
  /\ cside[s] = "connecting" /\ sside[s] # "unused" /\ s \notin broken
  /\ cside' = [cside EXCEPT ![s] = "open"]
  /\ connects' = [connects EXCEPT ![s] = "resolved"]
  /\ UNCHANGED <<client, starts, socket, onclose, serverVars, broken, toClient, toServer>>

(* connect() goes on after the open event: the transition, and only then   *)
(* the close handler, on whatever this.socket is by now.                   *)
ConnectGoesOn(s) ==
  LET c == Goes(client, "connected")
  IN /\ connects[s] = "resolved"
     /\ connects' = [connects EXCEPT ![s] = "connected"]
     /\ IF client.status = "connecting"
          THEN client' = c /\ onclose' = onclose \cup {socket}
          ELSE client' = Rescheduled(c) /\ UNCHANGED onclose
     /\ UNCHANGED <<starts, socket, cside, serverVars, broken, toClient, toServer>>

(* connect() goes on after an error or close event.                        *)
ConnectFailed(s) ==
  /\ connects[s] = "rejected"
  /\ connects' = [connects EXCEPT ![s] = "failed"]
  /\ client' = Rescheduled(client)
  /\ UNCHANGED <<starts, socket, cside, onclose, serverVars, broken, toClient, toServer>>

(* "ready" may come before connect() goes on: through connected to ready.  *)
BecomesReady(c) ==
  Goes(IF c.status = "connecting" THEN Goes(c, "connected") ELSE c, "ready")

(* handleServerReady: a fresh channel replaces the one there is, and its   *)
(* establish-request is sent on this.socket.                               *)
ServerReady ==
  LET c == BecomesReady(client)
  IN IF client.status = "ready" THEN UNCHANGED <<client, toServer>>
     ELSE IF c.threw THEN client' = c /\ UNCHANGED toServer
     ELSE /\ client' = [c EXCEPT !.channel = "connected"]
          /\ toServer' = IF cside[socket] = "open"
                           THEN [toServer EXCEPT ![socket] = Append(@, "establish-request")]
                           ELSE toServer

(* handleMessage: a disposed reassembler answers everything with an error. *)
ClientReceives(s) ==
  /\ NoContinuation \/ EarlyReady
  /\ cside[s] = "open" /\ toClient[s] # <<>>
  /\ toClient' = [toClient EXCEPT ![s] = Tail(@)]
  /\ IF Head(toClient[s]) = "ready" THEN ServerReady
     ELSE /\ client' = IF client.disposed \/ client.channel = "none" THEN client
                       ELSE [client EXCEPT !.channel = "established"]
          /\ UNCHANGED toServer
  /\ UNCHANGED <<starts, socket, cside, connects, onclose, serverVars, broken>>

(* Bug: the channel of the closed socket stays.                            *)
KeepsChannel(c) == Rescheduled(c)

(* Bug: no reconnect is scheduled.                                         *)
ClosedForGood(c) == [c EXCEPT !.channel = "none"]

(* handleClose.                                                            *)
Closed(c) == Rescheduled([c EXCEPT !.channel = "none"])

(* The close event: the network is gone, or a closing handshake is over    *)
(* and every message before it has been delivered.                         *)
CloseEvent(s) ==
  /\ NoContinuation
  /\ cside[s] \in {"connecting", "open", "closing"}
  /\ \/ s \in broken \/ cside[s] = "closing"
     \/ sside[s] \in {"closing", "closed"} /\ toClient[s] = <<>>
  /\ cside' = [cside EXCEPT ![s] = "closed"]
  /\ connects' = IF connects[s] = "waiting"
                   THEN [connects EXCEPT ![s] = "rejected"] ELSE connects
  /\ client' = IF s \in onclose THEN Closed(client) ELSE client
  /\ UNCHANGED <<starts, socket, onclose, serverVars, broken, toClient, toServer>>

-----------------------------------------------------------------------------
(* The server.                                                             *)

(* handleConnection and start(): a connection under the same peer id is    *)
(* closed and unregistered; the new one gets a channel and sends "ready".  *)
(* The server may not have heard yet that earlier sockets are gone.        *)
Accept(s) ==
  /\ sside[s] = "unused" /\ cside[s] # "unused" /\ s \notin broken
  /\ sside' = [r \in Sockets |->
                 IF r = s THEN "open"
                 ELSE IF r = connection /\ sside[r] = "open" THEN "closing" ELSE sside[r]]
  /\ connection' = s /\ serverChan' = "connected"
  /\ toClient' = [toClient EXCEPT ![s] = Append(@, "ready")]
  /\ UNCHANGED <<clientVars, broken, toServer>>

(* A message of a connection whose channel is gone is dropped; the answer  *)
(* goes out on connections.get(peerId).                                    *)
ServerReceives(s) ==
  /\ sside[s] \in {"open", "orphaned"} /\ toServer[s] # <<>>
  /\ toServer' = [toServer EXCEPT ![s] = Tail(@)]
  /\ IF connection = s
       THEN /\ serverChan' = "established"
            /\ toClient' = [toClient EXCEPT ![connection] = Append(@, "establish-response")]
       ELSE UNCHANGED <<serverChan, toClient>>
  /\ UNCHANGED <<clientVars, sside, connection, broken>>

(* unregisterConnection(peerId), whichever socket the event is of.         *)
Unregistered(s) == None

(* The close or error event of a socket.  The connection it unregisters    *)
(* may be one that replaced this socket's: that one's socket stays open.   *)
ServerCloseEvent(s) ==
  /\ sside[s] \in {"open", "orphaned", "closing"}
  /\ \/ s \in broken
     \/ cside[s] \in {"closing", "closed"} /\ toServer[s] = <<>>
  /\ sside' = [r \in Sockets |->
                 IF r = s THEN "closed"
                 ELSE IF r = connection THEN "orphaned" ELSE sside[r]]
  /\ connection' = Unregistered(s)
  /\ serverChan' = "none"
  /\ UNCHANGED <<clientVars, broken, toClient, toServer>>

(* The network loses a socket; the last one stays, which bounds the losses. *)
Break(s) ==
  /\ s < Last /\ s \notin broken
  /\ cside[s] \in {"connecting", "open"} \/ sside[s] \in {"open", "orphaned"}
  /\ broken' = broken \cup {s}
  /\ UNCHANGED <<clientVars, serverVars, toClient, toServer>>

ClientEvent(s) ==
  \/ OpenEvent(s) \/ ConnectGoesOn(s) \/ ConnectFailed(s)
  \/ ClientReceives(s) \/ CloseEvent(s)

ServerEvent(s) == Accept(s) \/ ServerReceives(s) \/ ServerCloseEvent(s)

Next ==
  \/ Start \/ ReconnectTimer \/ OnStop
  \/ \E s \in Sockets : ClientEvent(s) \/ ServerEvent(s) \/ Break(s)

Spec == Init /\ [][Next]_vars

(* Events are delivered, continuations run and timers fire.                *)
FairSpec ==
  /\ Spec
  /\ WF_vars(Start) /\ WF_vars(ReconnectTimer)
  /\ \A s \in Sockets : WF_vars(ClientEvent(s)) /\ WF_vars(ServerEvent(s))

-----------------------------------------------------------------------------
Statuses == {"disconnected", "connecting", "connected", "ready", "reconnecting"}
SideStates == {"unused", "connecting", "open", "orphaned", "closing", "closed"}
ChannelStates == {"none", "connected", "established"}

(* The values of the state of the link (client.ts:96, server-adapter.ts:73). *)
TypeOK ==
  /\ client \in [status : Statuses, attempt : 0 .. MaxAttempts,
                 channel : ChannelStates, timer : BOOLEAN, started : BOOLEAN,
                 disposed : BOOLEAN, threw : BOOLEAN]
  /\ starts \in 0 .. MaxStarts
  /\ socket \in Sockets \cup {None} /\ connection \in Sockets \cup {None}
  /\ cside \in [Sockets -> SideStates] /\ sside \in [Sockets -> SideStates]
  /\ connects \in [Sockets -> {"none", "waiting", "resolved", "rejected",
                               "connected", "failed"}]
  /\ serverChan \in ChannelStates
  /\ onclose \subseteq Sockets /\ broken \subseteq Sockets

(* While it runs, the adapter asks its state machine for no transition     *)
(* that is invalid, in whatever order opening, messages, closing and       *)
(* timers come (client-state-machine.ts:147, transition throws).           *)
NeverThrows == client.started => ~ client.threw

(* The client offers the synchronizer a channel exactly while it is ready, *)
(* and a client that is connected or ready will hear its socket close:     *)
(* otherwise it would wait on a dead link for ever (client.ts:517).        *)
ChannelWhileReady ==
  /\ client.channel # "none" <=> client.status = "ready"
  /\ client.status \in {"connected", "ready"} => socket \in onclose /\ cside[socket] # "closed"

(* The client gives up on its own only after MaxAttempts attempts in a row *)
(* failed (client.ts:741).                                                 *)
GivesUpLate ==
  client.started /\ client.status = "disconnected"
    => LET tried == Sockets \ Unused
       IN \E s \in tried :
            /\ \A r \in tried : r > s => connects[r] = "failed"
            /\ Cardinality({r \in tried : r >= s /\ connects[r] = "failed"}) >= MaxAttempts

Settled(s) ==
  /\ cside[s] \in {"unused", "open", "closed"}
  /\ connects[s] \notin {"waiting", "resolved", "rejected"}
  /\ cside[s] = "open" =>
       s \notin broken /\ sside[s] \in {"open", "orphaned"} /\ toClient[s] = <<>>
  /\ sside[s] \in {"unused", "open", "orphaned", "closed"}
  /\ sside[s] \in {"open", "orphaned"} => cside[s] = "open" /\ toServer[s] = <<>>

Linked ==
  /\ client.status = "ready" /\ client.channel = "established"
  /\ connection = socket /\ serverChan = "established"

(* The close event of a socket that was replaced came late and took away   *)
(* the connection on the present one.                                      *)
Overtaken == socket # None /\ sside[socket] = "orphaned"

(* When no event is outstanding the client is not half way to a link: it   *)
(* has stopped or given up, or both ends have an established channel on    *)
(* the same socket - unless the late close of a socket it had before took  *)
(* the server's connection away (client.ts:624, server-adapter.ts:143).    *)
QuietAgree ==
  client.started /\ ~ client.timer /\ (\A s \in Sockets : Settled(s))
    => Linked \/ client.status = "disconnected" \/ Overtaken

(* While the network stays up, the client reaches an established channel   *)
(* for good, gives up, is stopped or is overtaken (client.ts:385).         *)
Recovers == <>[](Linked \/ client.status = "disconnected" \/ Overtaken)
=============================================================================
