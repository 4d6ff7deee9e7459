------------------------------ MODULE WsEvents ------------------------------
(***************************************************************************)
(* What an application hears of a WebSocket client: the transitions of its *)
(* state machine (adapters/websocket/src/client-state-machine.ts), handed  *)
(* to listeners by a microtask, the lifecycle callbacks derived from them  *)
(* (client.ts), and promises that wait for a status.  The socket is        *)
(* reduced to what drives the state machine; WsLink has the rest.          *)
(***************************************************************************)
EXTENDS Naturals, Sequences

CONSTANTS
  Waits,    \* calls of waitForStatus
  MaxSteps, \* bound: transitions
  Risks     \* "early": the server's ready signal is handled before the
            \*   continuation of the promise the open event resolves;
            \* "between": the application stops the adapter or waits while
            \*   a microtask is queued

EventsAssumption == MaxSteps \in Nat /\ Risks \subseteq {"early", "between"}

VARIABLES
  status,    \* currentState
  pending,   \* pendingTransitions: pairs of statuses
  connected, \* wasConnectedBefore
  heard,     \* the last status listeners heard of
  ready,     \* onReady was called since the adapter was started
  falsely,   \* onReconnected was called before onReady
  wait,      \* the status each wait is for, "" before the call
  met,       \* the statuses that were current since each call
  got,       \* the status each wait resolved with, "timeout" or ""
  steps      \* transitions made

vars == <<status, pending, connected, heard, ready, falsely, wait, met, got, steps>>

Statuses == {"disconnected", "connecting", "connected", "ready", "reconnecting"}

-----------------------------------------------------------------------------
Waiting(w) == wait[w] # "" /\ got[w] = ""

(* transition: the state changes at once, listeners hear of it later.      *)
Along(path) ==
  /\ steps + Len(path) - 1 <= MaxSteps /\ steps' = steps + Len(path) - 1
  /\ status' = path[Len(path)]
  /\ pending' = pending \o [i \in 1 .. Len(path) - 1 |-> <<path[i], path[i + 1]>>]
  /\ met' = [w \in Waits |-> IF Waiting(w) THEN met[w] \cup {path[i] : i \in 2 .. Len(path)} ELSE met[w]]
  /\ UNCHANGED <<heard, falsely, wait, got>>

Quiet == pending = <<>>
AppMay == Quiet \/ "between" \in Risks

Init ==
  /\ status = "disconnected" /\ pending = <<>> /\ connected = FALSE
  /\ heard = "disconnected" /\ ready = FALSE /\ falsely = FALSE
  /\ wait = [w \in Waits |-> ""] /\ got = wait /\ met = [w \in Waits |-> {}]
  /\ steps = 0

(* Bug: a client started again remembers the connection before it stopped. *)
StartRemembers ==
  /\ status = "disconnected" /\ Quiet
  /\ connected' = connected /\ ready' = FALSE
  /\ Along(<<status, "connecting">>)

(* onStart, which forgets earlier connections, and the reconnect timer.    *)
Start ==
  /\ status = "disconnected" /\ Quiet
  /\ connected' = FALSE /\ ready' = FALSE
  /\ Along(<<status, "connecting">>)
Timer ==
  /\ status = "reconnecting" /\ Quiet
  /\ Along(<<status, "connecting">>) /\ UNCHANGED <<connected, ready>>

(* connect() goes on after the socket has opened.                          *)
Opened ==
  /\ status = "connecting" /\ Quiet
  /\ Along(<<status, "connected">>) /\ UNCHANGED <<connected, ready>>

(* handleServerReady, which first makes up for a missing "connected".      *)
HandleServerReady ==
  /\ Quiet /\ status \in {"connected"} \cup (IF "early" \in Risks THEN {"connecting"} ELSE {})
  /\ Along(IF status = "connecting" THEN <<status, "connected", "ready">> ELSE <<status, "ready">>)
  /\ connected' = TRUE /\ UNCHANGED ready

(* scheduleReconnect, and when it gives up.                                *)
ScheduleReconnect ==
  /\ status \in {"connecting", "connected", "ready"} /\ Quiet
  /\ \E to \in {"reconnecting", "disconnected"} : Along(<<status, to>>)
  /\ UNCHANGED <<connected, ready>>

(* onStop.                                                                 *)
Stop ==
  /\ status # "disconnected" /\ AppMay
  /\ Along(<<status, "disconnected">>) /\ UNCHANGED <<connected, ready>>

(* waitForStatus resolves at once in that status; a wait may time out.     *)
WaitForStatus(w, s) ==
  /\ wait[w] = "" /\ AppMay
  /\ wait' = [wait EXCEPT ![w] = s]
  /\ got' = [got EXCEPT ![w] = IF status = s THEN s ELSE ""]
  /\ met' = [met EXCEPT ![w] = {status}]
  /\ UNCHANGED <<status, pending, connected, heard, ready, falsely, steps>>
Timeout(w) ==
  /\ Waiting(w) /\ Quiet
  /\ got' = [got EXCEPT ![w] = "timeout"]
  /\ UNCHANGED <<status, pending, connected, heard, ready, falsely, wait, met, steps>>

(* Bug: a wait takes the state as it is when it hears of any transition.   *)
ResolvedLate(t, w) == Waiting(w) /\ status = wait[w]

(* A wait resolves when it hears of a transition to its status.            *)
Resolved(t, w) == Waiting(w) /\ t[2] = wait[w]

(* onReconnected: a socket opened, and the client was connected before.    *)
Reconnected(t) ==
  connected /\ t[1] \in {"reconnecting", "connecting"} /\ t[2] \in {"connected", "ready"}

(* deliverPendingTransitions: all that are pending, each to all listeners. *)
Deliver ==
  /\ pending # <<>> /\ pending' = <<>>
  /\ heard' = pending[Len(pending)][2]
  /\ LET readyBefore(i) == ready \/ \E j \in 1 .. i - 1 : pending[j][2] = "ready"
     IN  falsely' = (falsely \/ \E i \in DOMAIN pending : Reconnected(pending[i]) /\ ~readyBefore(i))
  /\ ready' = (ready \/ \E i \in DOMAIN pending : pending[i][2] = "ready")
  /\ got' = [w \in Waits |-> IF \E i \in DOMAIN pending : Resolved(pending[i], w) THEN wait[w] ELSE got[w]]
  /\ UNCHANGED <<status, connected, wait, met, steps>>

Next ==
  \/ Start \/ Timer \/ Opened \/ HandleServerReady \/ ScheduleReconnect \/ Stop \/ Deliver
  \/ \E w \in Waits : Timeout(w) \/ \E s \in Statuses : WaitForStatus(w, s)

Spec == Init /\ [][Next]_vars /\ WF_vars(Deliver)

-----------------------------------------------------------------------------
(* Listeners hear of every state in order: what they heard last is where   *)
(* the transitions still pending begin, and these lead to the state.       *)
NoneSkipped ==
  LET at(i) == IF i = 0 THEN heard ELSE pending[i][2]
  IN  /\ \A i \in DOMAIN pending : pending[i][1] = at(i - 1)
      /\ status = at(Len(pending))

(* onReconnected is called only after onReady: a first connection is never *)
(* reported as a reconnection.                                             *)
FirstIsFirst == ~falsely

(* A wait resolves with a status that was current after the call, and none *)
(* hangs once its status has come.                                         *)
WaitsAreTrue ==
  \A w \in Waits : wait[w] # "" =>
    /\ got[w] \in met[w] \cup {"", "timeout"}
    /\ Quiet /\ got[w] = "" => wait[w] \notin met[w]
=============================================================================
