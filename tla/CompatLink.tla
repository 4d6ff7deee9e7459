----------------------------- MODULE CompatLink -----------------------------
(***************************************************************************)
(* The client and the server of the WebSocket compatibility adapter        *)
(* (websocket-compat/src/client.ts, server-adapter.ts, connection.ts), for *)
(* one peer id.  Neither sends a handshake: each side tells its own Repo   *)
(* that the channel is established.  Removing a channel stops it, and that *)
(* disconnects the client, whatever its present socket is.                 *)
(***************************************************************************)
EXTENDS Naturals, FiniteSets

CONSTANTS
  Last,         \* bound: sockets 1 .. Last that are not closed at both sides
  MaxAttempts,  \* reconnect.maxAttempts
  MaxStarts,    \* bound: how often the client adapter is started
  MaxLosses,    \* bound: how many sockets the network refuses or breaks
  StopsSettled  \* the adapter is not stopped while it is connecting

CompatAssumption ==
  /\ {Last, MaxAttempts, MaxStarts, MaxLosses} \subseteq Nat
  /\ StopsSettled \in BOOLEAN

Sockets == 1 .. Last

VARIABLES
  client,      \* the client adapter, see NotStarted
  cside,       \* [Sockets -> ...]: readyState of each socket at the client
  hears,       \* the sockets whose close event reaches handleClose
  sside,       \* [Sockets -> ...]: readyState of each socket at the server;
               \*   "orphaned" is open, its connection unregistered by the
               \*   close event of another
  connection,  \* the server's connections at the peer id: a socket or 0
  starts, losses
vars == <<client, cside, hears, sside, connection, starts, losses>>

NotStarted ==
  [started |-> FALSE,     \* life cycle state, and shouldReconnect
   connecting |-> FALSE,  \* isConnecting
   socket |-> 0,          \* this.socket
   channel |-> FALSE,     \* serverChannel is there, established by its Repo
   attempts |-> 0,        \* reconnectAttempts
   timer |-> FALSE,       \* the timer under reconnectTimer is pending
   stray |-> 0]           \* pending timers whose handle was overwritten

Init ==
  /\ client = NotStarted
  /\ cside = [n \in Sockets |-> "unused"]
  /\ hears = {}
  /\ sside = [n \in Sockets |-> "unused"]
  /\ connection = 0
  /\ starts = 0 /\ losses = 0

(* Sockets whose life is over are used again for new ones.                 *)
Free == {n \in Sockets : cside[n] \in {"unused", "closed"}
                          /\ sside[n] \in {"unused", "refused", "closed"}}

-----------------------------------------------------------------------------
(* Bug: one attempt too many.                                              *)
ScheduledOften(c) ==
  IF c.attempts > MaxAttempts THEN c
  ELSE [c EXCEPT !.attempts = @ + 1, !.timer = TRUE]
(* scheduleReconnect: it does not ask whether the adapter was stopped.     *)
Scheduled(c) ==
  IF c.attempts >= MaxAttempts THEN c
  ELSE [c EXCEPT !.attempts = @ + 1, !.timer = TRUE,
                 !.stray = IF c.timer THEN @ + 1 ELSE @]

(* disconnect: timer off, socket closed, channel removed.                  *)
Disconnected(c) ==
  [c EXCEPT !.timer = FALSE, !.socket = 0, !.channel = FALSE]
(* Bug: the socket is forgotten, not closed.                               *)
LeftOpen(c) == cside
Closing(c) ==
  IF c.socket # 0 /\ cside[c.socket] \in {"connecting", "open"}
  THEN [cside EXCEPT ![c.socket] = "closing"] ELSE cside

(* connect: returns at once while connecting.                              *)
Connect(c) ==
  \/ c.connecting /\ client' = c /\ UNCHANGED <<cside, sside, hears>>
  \/ /\ ~ c.connecting /\ Free # {}
     /\ \E n \in Free :
          /\ \A u \in Free : n <= u
          /\ client' = [c EXCEPT !.connecting = TRUE, !.socket = n]
          /\ cside' = [cside EXCEPT ![n] = "connecting"]
          /\ sside' = [sside EXCEPT ![n] = "unused"]
          /\ hears' = hears \ {n}

Start ==
  /\ ~ client.started /\ starts < MaxStarts
  /\ starts' = starts + 1
  /\ Connect([client EXCEPT !.started = TRUE])
  /\ UNCHANGED <<connection, losses>>

Stop ==
  /\ client.started
  /\ StopsSettled => ~ client.connecting
  /\ client' = [Disconnected(client) EXCEPT !.started = FALSE]
  /\ cside' = Closing(client)
  /\ UNCHANGED <<hears, sside, connection, starts, losses>>

Timer ==
  \/ /\ client.timer
     /\ Connect([client EXCEPT !.timer = FALSE])
     /\ UNCHANGED <<connection, starts, losses>>
  \/ /\ client.stray > 0
     /\ Connect([client EXCEPT !.stray = @ - 1])
     /\ UNCHANGED <<connection, starts, losses>>

(* The socket is open: a channel that is still there is removed, which     *)
(* disconnects, and a new one added; addChannel throws when the adapter is *)
(* not started, the socket stays open then and the catch reschedules.      *)
Opened(n) ==
  LET c == [client EXCEPT !.connecting = FALSE, !.attempts = 0]
  IN IF ~ c.started
     THEN client' = Scheduled(c) /\ cside' = [cside EXCEPT ![n] = "open"]
     ELSE IF c.channel
     THEN /\ client' = [Disconnected(c) EXCEPT !.channel = TRUE]
          /\ cside' = [cside EXCEPT ![n] = "closing"]
     ELSE client' = [c EXCEPT !.channel = TRUE] /\ cside' = [cside EXCEPT ![n] = "open"]

Open(n) ==
  /\ cside[n] = "connecting" /\ sside[n] \in {"open", "orphaned"}
  /\ client.socket = n
  /\ Opened(n)
  /\ hears' = hears \cup {n}
  /\ UNCHANGED <<sside, connection, starts, losses>>

(* The close event of a socket that was open.                              *)
HandleClose(n) ==
  LET c == IF client.channel THEN Disconnected(client) ELSE client
  IN /\ client' = IF c.started THEN Scheduled(c) ELSE c
     /\ cside' = [IF client.channel THEN Closing(client) ELSE cside
                    EXCEPT ![n] = "closed"]

(* Bug: a connection that failed is not tried again.                       *)
GiveUp(n) ==
  /\ client' = [client EXCEPT !.connecting = FALSE]
  /\ cside' = [cside EXCEPT ![n] = "closed"]
(* The close or error event of a socket that was not: the promise of       *)
(* connect is rejected, and the catch reschedules.                         *)
ConnectFailed(n) ==
  /\ client' = Scheduled([client EXCEPT !.connecting = FALSE])
  /\ cside' = [cside EXCEPT ![n] = "closed"]

(* A socket closes at the client when either side has closed it or the     *)
(* network lost it.                                                        *)
Closed(n) ==
  /\ cside[n] = "closing" \/ (cside[n] = "open" /\ sside[n] \in {"closing", "closed"})
     \/ (cside[n] = "connecting" /\ sside[n] \in {"refused", "closing", "closed"})
  /\ IF n \in hears THEN HandleClose(n) ELSE ConnectFailed(n)
  /\ UNCHANGED <<hears, sside, connection, starts, losses>>

-----------------------------------------------------------------------------
(* handleConnection: an existing connection of the peer is closed and      *)
(* unregistered, whether or not the server has heard of its end.           *)
Accept(n) ==
  /\ cside[n] = "connecting" /\ sside[n] = "unused"
  /\ sside' = [m \in Sockets |->
                 IF m = n THEN "open"
                 ELSE IF m = connection /\ sside[m] = "open" THEN "closing"
                 ELSE sside[m]]
  /\ connection' = n
  /\ UNCHANGED <<client, cside, hears, starts, losses>>

Lose(n) ==
  /\ losses < MaxLosses
  /\ losses' = losses + 1
  /\ \/ /\ cside[n] = "connecting" /\ sside[n] = "unused"
        /\ sside' = [sside EXCEPT ![n] = "refused"]
        /\ UNCHANGED <<client, cside, hears, connection, starts>>
     \/ /\ sside[n] \in {"open", "orphaned"}
        /\ sside' = [sside EXCEPT ![n] = "closing"]
        /\ UNCHANGED <<client, cside, hears, connection, starts>>

(* The close event of a socket at the server: unregisterConnection, by     *)
(* peer id, also of a connection that replaced this socket's.              *)
ServerClosed(n) ==
  /\ \/ sside[n] = "closing"
     \/ sside[n] \in {"open", "orphaned"} /\ cside[n] \in {"closing", "closed"}
  /\ sside' = [m \in Sockets |->
                 IF m = n THEN "closed"
                 ELSE IF m = connection /\ sside[m] = "open" THEN "orphaned"
                 ELSE sside[m]]
  /\ connection' = 0
  /\ UNCHANGED <<client, cside, hears, starts, losses>>

(* A socket the client gave up before the server saw it.                   *)
NeverSeen(n) ==
  /\ sside[n] = "unused" /\ cside[n] \in {"closing", "closed"}
  /\ sside' = [sside EXCEPT ![n] = "closed"]
  /\ UNCHANGED <<client, cside, hears, connection, starts, losses>>

System ==
  \/ Timer
  \/ \E n \in Sockets :
       Open(n) \/ Closed(n) \/ Accept(n) \/ ServerClosed(n) \/ NeverSeen(n)

Next == Start \/ Stop \/ System \/ \E n \in Sockets : Lose(n)

Spec == Init /\ [][Next]_vars
(* Timers fire and the events of the sockets come.                         *)
FairSpec == Spec /\ WF_vars(Timer) /\ \A n \in Sockets :
  WF_vars(Open(n) \/ Closed(n)) /\ WF_vars(Accept(n) \/ NeverSeen(n)) /\ WF_vars(ServerClosed(n))

-----------------------------------------------------------------------------
TypeOK ==
  /\ client.socket \in 0 .. Last /\ client.attempts \in 0 .. MaxAttempts
  /\ client.stray \in Nat
  /\ {client.started, client.connecting, client.channel, client.timer} \subseteq BOOLEAN
  /\ cside \in [Sockets -> {"unused", "connecting", "open", "closing", "closed"}]
  /\ sside \in [Sockets -> {"unused", "open", "orphaned", "refused", "closing",
                           "closed"}]
  /\ hears \subseteq {n \in Sockets : cside[n] \notin {"unused", "connecting"}}
  /\ connection \in 0 .. Last

Linked ==
  /\ client.channel /\ client.socket # 0
  /\ cside[client.socket] = "open" /\ sside[client.socket] = "open"
  /\ connection = client.socket

(* No event of a socket is outstanding and no timer is pending.            *)
Settled ==
  /\ ~ client.connecting /\ ~ client.timer /\ client.stray = 0
  /\ \A n \in Sockets : <<cside[n], sside[n]>> \in
       {<<"unused", "unused">>, <<"open", "open">>, <<"open", "orphaned">>,
        <<"closed", "closed">>, <<"closed", "refused">>}

(* The close event of a socket that was replaced came late and took away   *)
(* the connection on the present one.                                      *)
Overtaken == client.socket # 0 /\ sside[client.socket] = "orphaned"

(* When the events of the sockets are over, a client that has not used up  *)
(* its attempts is linked: both sides have a channel, over the same socket *)
(* - there is no further event that could mend it -, or it was overtaken.  *)
QuietAgree ==
  client.started /\ Settled => Linked \/ client.attempts >= MaxAttempts \/ Overtaken

(* The client uses no socket but the last: none stays open behind its back *)
(* with handlers that act on the channel of another.                       *)
OneOpen ==
  \A n \in Sockets : cside[n] = "open" => n = client.socket

(* docs/creating-adapters.md:172: an adapter that was stopped is inactive, *)
(* once it has heard of its last socket.                                   *)
StoppedIsInactive ==
  ~ client.started => ~ client.timer /\ client.stray = 0

(* A client that is started and not stopped again gets its link back       *)
(* whenever the network lets it, or has tried MaxAttempts times in vain,   *)
(* or is overtaken.                                                        *)
Recovers ==
  <>[]client.started =>
    <>[](Linked \/ client.attempts >= MaxAttempts \/ Overtaken)
=============================================================================
