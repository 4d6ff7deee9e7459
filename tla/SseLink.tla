------------------------------- MODULE SseLink -------------------------------
(***************************************************************************)
(* One SSE client adapter (adapters/sse/src/client.ts) and the server      *)
(* adapter (server-adapter.ts, express-router.ts), for one peer id.        *)
(* Messages to the client go over an event stream that is opened again     *)
(* when it breaks; those to the server are POSTs that share one abort      *)
(* controller.  Streams are numbered as they are opened.                   *)
(***************************************************************************)
EXTENDS Naturals, FiniteSets

CONSTANTS
  Last,         \* bound: streams 1 .. Last are opened
  MaxReconnect, \* reconnect.maxAttempts
  MaxStarts,    \* bound: how often the client adapter starts
  MaxAttempts,  \* postRetry.maxAttempts
  MaxData,      \* bound: messages of the client after the hand shake
  MaxFails      \* bound: POSTs that fail on the way

SseAssumption ==
  /\ {Last, MaxReconnect, MaxStarts, MaxAttempts} \subseteq Nat \ {0}
  /\ {MaxData, MaxFails} \subseteq Nat

Streams == 1 .. Last
None == 0

VARIABLES
  client,  \* started, starts, the stream of its event source and the state
           \*   of that, reconnectAttempts, the state of serverChannel
  stream,  \* [Streams -> "none", "asked", "open", "orphaned" or "closed"]: at
           \*   the server; an orphaned one is open, its connection was
           \*   unregistered by the opening or closing of another
  answer,  \* [Streams -> BOOLEAN]: an establish-response is on the stream
  conn,    \* the stream of the server's connection, None without one
  sChan,   \* the state of that connection's channel
  ctl,     \* the abort controller of the POSTs, None or its number
  posts,   \* POSTs: number, message (0 for establish-request), attempts
           \*   that failed, whether it waits, the controller it listens to
  count,   \* POSTs, controllers, data and failures so far
  dropped  \* how the POSTs that are over ended
vars == <<client, stream, answer, conn, sChan, ctl, posts, count, dropped>>

ChanStates == {"none", "connected", "established"}

Init ==
  /\ client = [started |-> FALSE, starts |-> 0, cur |-> None, at |-> "closed",
               attempts |-> 0, chan |-> "none"]
  /\ stream = [k \in Streams |-> "none"]
  /\ answer = [k \in Streams |-> FALSE]
  /\ conn = None
  /\ sChan = "none"
  /\ ctl = None
  /\ posts = {}
  /\ count = [posts |-> 0, ctls |-> 0, data |-> 0, fails |-> 0]
  /\ dropped = {}

-----------------------------------------------------------------------------
(* POSTs of the client                                                     *)

(* sendBinaryWithRetry takes the controller that is there or makes one.    *)
Controller(c) == IF c = None THEN count.ctls + 1 ELSE c

(* A new POST of message m while the controller is c.                      *)
Posted(ps, m, c) ==
  ps \cup {[nr |-> count.posts + 1, m |-> m, failed |-> 0, waits |-> FALSE,
            ctl |-> Controller(c)]}

Ends(p, how) == dropped \cup {[nr |-> p.nr, how |-> how, failed |-> p.failed]}

ClientSends ==
  /\ client.chan = "established"
  /\ client.at # "closed"
  /\ count.data < MaxData
  /\ posts' = Posted(posts, count.data + 1, ctl)
  /\ ctl' = Controller(ctl)
  /\ count' = [count EXCEPT !.posts = @ + 1, !.data = @ + 1, !.ctls = Controller(ctl)]
  /\ UNCHANGED <<client, stream, answer, conn, sChan, dropped>>

(* Bug: one attempt is all there is.                                       *)
OneAttempt(p) == FALSE
TriesAgain(p) == p.failed + 1 < MaxAttempts

(* What a failed attempt does: without a controller, which another POST    *)
(* may have put away, the POST is given up; so it is after maxAttempts.    *)
Failed(p) ==
  CASE ctl = None ->
         posts' = posts \ {p} /\ dropped' = Ends(p, "reset") /\ UNCHANGED ctl
    [] ctl # None /\ ~ TriesAgain(p) ->
         posts' = posts \ {p} /\ dropped' = Ends(p, "attempts") /\ ctl' = None
    [] OTHER ->
         /\ posts' = (posts \ {p}) \cup
                     {[p EXCEPT !.failed = @ + 1, !.waits = TRUE, !.ctl = ctl]}
         /\ UNCHANGED <<dropped, ctl>>

(* The POST reaches the server: without a connection it is a 404, else the *)
(* handler of the channel runs and the controller is put away.             *)
PostArrives(p) ==
  /\ p \in posts /\ ~ p.waits
  /\ IF conn = None
     THEN Failed(p) /\ UNCHANGED <<sChan, answer>>
     ELSE /\ posts' = posts \ {p}
          /\ dropped' = Ends(p, "arrived")
          /\ ctl' = None
          /\ sChan' = IF p.m = 0 THEN "established" ELSE sChan
          /\ answer' = IF p.m = 0 THEN [answer EXCEPT ![conn] = TRUE] ELSE answer
  /\ UNCHANGED <<client, stream, conn, count>>

PostFails(p) ==
  /\ p \in posts /\ ~ p.waits
  /\ count.fails < MaxFails
  /\ count' = [count EXCEPT !.fails = @ + 1]
  /\ Failed(p)
  /\ UNCHANGED <<client, stream, answer, conn, sChan>>

(* The delay is over: the next attempt.                                    *)
PostAgain(p) ==
  /\ p \in posts /\ p.waits
  /\ posts' = (posts \ {p}) \cup {[p EXCEPT !.waits = FALSE, !.ctl = Controller(ctl)]}
  /\ ctl' = Controller(ctl)
  /\ count' = [count EXCEPT !.ctls = Controller(ctl)]
  /\ UNCHANGED <<client, stream, answer, conn, sChan, dropped>>

-----------------------------------------------------------------------------
(* The event stream at the client                                          *)

Asked(k) == [stream EXCEPT ![k] = "asked"]

Start ==
  /\ ~ client.started
  /\ client.starts < MaxStarts
  /\ client.cur < Last
  /\ client' = [client EXCEPT !.started = TRUE, !.starts = @ + 1, !.cur = @ + 1,
                              !.at = "connecting"]
  /\ stream' = Asked(client.cur + 1)
  /\ UNCHANGED <<answer, conn, sChan, ctl, posts, count, dropped>>

Stop ==
  /\ client.started
  /\ client' = [client EXCEPT !.started = FALSE, !.at = "closed", !.chan = "none"]
  /\ UNCHANGED <<stream, answer, conn, sChan, ctl, posts, count, dropped>>

(* Bug: the channel that is there is taken for established.                *)
EstablishesNew(chan) == chan = "none"
(* establishChannel of every open: the directory's channel stays           *)
(* "connected", the Repo keeps the other state in its model.               *)
Establishes(chan) == TRUE

(* onopen: POSTs under way are aborted, the channel is made if there is    *)
(* none and established.                                                   *)
OpenEvent ==
  /\ client.at = "connecting"
  /\ stream[client.cur] \in {"open", "orphaned"}
  /\ client' = [client EXCEPT !.at = "open", !.attempts = 0,
                              !.chan = IF @ = "none" THEN "connected" ELSE @]
  /\ LET aborted == {p \in posts : ctl # None /\ p.ctl = ctl}
         left == posts \ aborted
     IN /\ dropped' = dropped \cup {[nr |-> p.nr, how |-> "aborted", failed |-> p.failed] :
                                      p \in aborted}
        /\ IF Establishes(client.chan)
           THEN /\ posts' = Posted(left, 0, None)
                /\ ctl' = Controller(None)
                /\ count' = [count EXCEPT !.posts = @ + 1, !.ctls = @ + 1]
           ELSE posts' = left /\ ctl' = None /\ UNCHANGED count
  /\ UNCHANGED <<stream, answer, conn, sChan>>

(* onerror: the stream broke, or could not be opened.  The event source    *)
(* retries by itself until maxAttempts errors in a row.                    *)
ErrorEvent ==
  /\ client.at \in {"connecting", "open"}
  /\ client' = IF client.attempts + 1 >= MaxReconnect
               THEN [client EXCEPT !.attempts = @ + 1, !.at = "closed", !.chan = "none"]
               ELSE [client EXCEPT !.attempts = @ + 1, !.at = "retry"]
  /\ client.cur < Last  \* the last stream does not break
  /\ UNCHANGED <<stream, answer, conn, sChan, ctl, posts, count, dropped>>

Retry ==
  /\ client.at = "retry"
  /\ client' = [client EXCEPT !.at = "connecting", !.cur = @ + 1]
  /\ stream' = Asked(client.cur + 1)
  /\ UNCHANGED <<answer, conn, sChan, ctl, posts, count, dropped>>

(* onmessage with the establish-response.                                  *)
Message ==
  /\ client.at = "open"
  /\ answer[client.cur]
  /\ stream[client.cur] \in {"open", "orphaned"}
  /\ answer' = [answer EXCEPT ![client.cur] = FALSE]
  /\ client' = [client EXCEPT !.chan = IF @ = "none" THEN @ ELSE "established"]
  /\ UNCHANGED <<stream, conn, sChan, ctl, posts, count, dropped>>

-----------------------------------------------------------------------------
(* The server                                                              *)

(* Streams the client has left and the server not yet closed.              *)
Left == {k \in Streams : stream[k] \in {"open", "orphaned"}
           /\ (k # client.cur \/ client.at \in {"closed", "retry"})}

(* The stream of the connection is left without it, and k becomes s.       *)
Becomes(k, s) ==
  [j \in Streams |-> IF j = k THEN s ELSE IF j = conn THEN "orphaned" ELSE stream[j]]

(* GET: registerConnection unregisters the connection of the peer, makes a *)
(* channel and the connection anew; requests may overtake one another.     *)
Accept(k) ==
  /\ stream[k] = "asked"
  /\ stream' = Becomes(k, "open")
  /\ conn' = k
  /\ sChan' = "connected"
  /\ UNCHANGED <<client, answer, ctl, posts, count, dropped>>

(* Bug: the connection goes, its channel stays.                            *)
ChannelStays == sChan
ChannelRemoved == "none"

(* req "close": unregisterConnection of the peer id, whichever stream the  *)
(* connection of that peer is on by now.                                   *)
CloseEvent(k) ==
  /\ k \in Left
  /\ stream' = Becomes(k, "closed")
  /\ conn' = None
  /\ sChan' = IF conn = None THEN sChan ELSE ChannelRemoved
  /\ UNCHANGED <<client, answer, ctl, posts, count, dropped>>

-----------------------------------------------------------------------------
Posts == \E p \in posts : PostArrives(p) \/ PostAgain(p)

Next ==
  \/ Start \/ Stop
  \/ OpenEvent \/ ErrorEvent \/ Retry \/ Message
  \/ ClientSends
  \/ \E p \in posts : PostArrives(p)
  \/ \E p \in posts : PostFails(p)
  \/ \E p \in posts : PostAgain(p)
  \/ \E k \in Streams : Accept(k)
  \/ \E k \in Streams : CloseEvent(k)

Spec == Init /\ [][Next]_vars

(* What is on its way arrives, timers fire, closing is noticed.            *)
FairSpec ==
  /\ Spec
  /\ WF_vars(OpenEvent) /\ WF_vars(Retry) /\ WF_vars(Message) /\ WF_vars(Posts)
  /\ \A k \in Streams : WF_vars(Accept(k)) /\ WF_vars(CloseEvent(k))

-----------------------------------------------------------------------------
TypeOK ==
  /\ client \in [started : BOOLEAN, starts : 0 .. MaxStarts, cur : 0 .. Last,
                 at : {"closed", "connecting", "open", "retry"},
                 attempts : 0 .. Last, chan : ChanStates]
  /\ stream \in [Streams -> {"none", "asked", "open", "orphaned", "closed"}]
  /\ answer \in [Streams -> BOOLEAN]
  /\ conn \in 0 .. Last
  /\ sChan \in ChanStates
  /\ (conn = None) <=> (sChan = "none")
  /\ \A p \in posts : p.m \in 0 .. MaxData /\ p.failed < MaxAttempts

(* Nothing is on its way: the client's stream is open, the server has seen *)
(* the others close, no POST is out and no message on the stream.          *)
Quiet ==
  /\ client.at = "open"
  /\ \A k \in Streams : stream[k] # "asked" /\ k \notin Left
  /\ posts = {} /\ ~ answer[client.cur]

(* Another stream of this client, opened or closed after the present one   *)
(* was accepted, took its connection away.                                 *)
Overtaken == client.cur # None /\ stream[client.cur] = "orphaned"

(* Then the connection of the server is the client's stream, and the       *)
(* channel is established on both sides, or the client was overtaken.      *)
QuietAgree ==
  Quiet =>
    \/ conn = client.cur /\ client.chan = "established" /\ sChan = "established"
    \/ Overtaken

(* A POST is given up after maxAttempts attempts or because the stream was *)
(* opened anew, not because another POST succeeded.                        *)
GivenUpForCause ==
  \A d \in dropped :
    \/ d.how \in {"arrived", "aborted"}
    \/ d.how = "attempts" /\ d.failed + 1 = MaxAttempts

(* An adapter that is started and has not given up gets its channel        *)
(* established on both sides, unless it is overtaken.                      *)
Recovers ==
  <>[](client.started /\ client.at # "closed")
    => <>[]((client.chan = "established" /\ sChan = "established") \/ Overtaken)
=============================================================================
