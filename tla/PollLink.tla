------------------------------ MODULE PollLink ------------------------------
(***************************************************************************)
(* One HTTP polling client adapter (adapters/http-polling/src/client.ts)   *)
(* and the server adapter it polls (server-adapter.ts, express-router.ts), *)
(* for one peer id.  Messages to the server are POSTs of their own, those  *)
(* to the client wait in a queue for the next poll, which the server holds *)
(* until there is a message or its timer fires.                            *)
(*                                                                         *)
(* A message is a number: 0 is the hand shake's (establish-request to the  *)
(* server, establish-response to the client), the others are data.         *)
(***************************************************************************)
EXTENDS Naturals, Sequences, Functions

CONSTANTS
  MaxPolls,    \* bound: polls under way at once
  MaxLoops,    \* bound: runs of pollLoop, one for each start
  MaxData,     \* bound: messages of each side
  MaxAttempts, \* postRetry.maxAttempts
  MaxCuts,     \* bound: polls that infrastructure cuts
  CutFirst     \* whether it may cut one before the client has its channel

PollAssumption ==
  /\ {MaxPolls, MaxLoops, MaxAttempts} \subseteq Nat \ {0}
  /\ {MaxData, MaxCuts} \subseteq Nat
  /\ CutFirst \in BOOLEAN

Polls == 1 .. MaxPolls
Loops == 1 .. MaxLoops
None == 0

VARIABLES
  client,  \* stop (shouldStop), polling (isPolling), starts, the poll whose
           \*   abort controller is kept, and the state of serverChannel
  loop,    \* [Loops -> "off", "sleep" or "poll"] with the poll awaited
  polls,   \* [Polls -> live (the client awaits it), at (where it is on the
           \*   server's side), its messages and isNewConnection]
  conn,    \* the server's connection: there or not, its queue, resolver,
           \*   the timers that run and the one it remembers
  sChan,   \* the state of the connection's channel
  posts,   \* POSTs under way: number, message, failed attempts
  sent,    \* how many POSTs and data messages were sent
  got,     \* the messages the client received since it had established, and
           \*   the data the server received
  cuts
vars == <<client, loop, polls, conn, sChan, posts, sent, got, cuts>>

ChanStates == {"none", "connected", "established"}
NoPoll == [live |-> FALSE, at |-> "none", messages |-> <<>>, new |-> FALSE]
(* A poll that is sent.                                                    *)
NewPoll == [live |-> TRUE, at |-> "sent", messages |-> <<>>, new |-> FALSE]
NoConn == [there |-> FALSE, queue |-> <<>>, resolver |-> None, timers |-> {},
           timeout |-> None]

Init ==
  /\ client = [stop |-> FALSE, polling |-> FALSE, starts |-> 0, abort |-> None,
               chan |-> "none"]
  /\ loop = [l \in Loops |-> [at |-> "off", poll |-> None]]
  /\ polls = [k \in Polls |-> NoPoll]
  /\ conn = NoConn
  /\ sChan = "none"
  /\ posts = {}
  /\ sent = [posts |-> 0, client |-> 0, server |-> 0]
  /\ got = [client |-> <<>>, server |-> <<>>]
  /\ cuts = 0

-----------------------------------------------------------------------------
(* The client                                                              *)

FreePolls ==
  {k \in Polls : ~ polls[k].live /\ polls[k].at = "none" /\ k \notin conn.timers}

(* Loop l awaits a new poll.                                               *)
SendPoll(l) ==
  \E k \in FreePolls :
    /\ \A j \in FreePolls : k <= j
    /\ polls' = [polls EXCEPT ![k] = NewPoll]
    /\ loop' = [loop EXCEPT ![l] = [at |-> "poll", poll |-> k]]
    /\ client' = [client EXCEPT !.abort = k]

Start ==
  /\ ~ client.polling
  /\ client.starts < MaxLoops
  /\ LET l == client.starts + 1
     IN \E k \in FreePolls :
          /\ \A j \in FreePolls : k <= j
          /\ polls' = [polls EXCEPT ![k] = NewPoll]
          /\ loop' = [loop EXCEPT ![l] = [at |-> "poll", poll |-> k]]
          /\ client' = [stop |-> FALSE, polling |-> TRUE, starts |-> l, abort |-> k,
                        chan |-> client.chan]
  /\ UNCHANGED <<conn, sChan, posts, sent, got, cuts>>

(* onStop: the poll whose controller is kept is aborted and its loop ends; *)
(* a loop that sleeps looks at shouldStop when it wakes.                   *)
Stop ==
  /\ client.polling
  /\ client' = [stop |-> TRUE, polling |-> FALSE, starts |-> client.starts,
                abort |-> None, chan |-> "none"]
  /\ LET aborted == {l \in Loops : loop[l].at = "poll" /\ loop[l].poll = client.abort}
     IN /\ loop' = [l \in Loops |-> IF l \in aborted THEN [at |-> "off", poll |-> None]
                                    ELSE loop[l]]
        /\ polls' = [k \in Polls |-> IF \E l \in aborted : loop[l].poll = k
                                     THEN [polls[k] EXCEPT !.live = FALSE] ELSE polls[k]]
  /\ UNCHANGED <<conn, sChan, posts, sent, got, cuts>>

Wake(l) ==
  /\ loop[l].at = "sleep"
  /\ IF client.stop
     THEN /\ loop' = [loop EXCEPT ![l].at = "off"]
          /\ UNCHANGED <<client, polls>>
     ELSE SendPoll(l)
  /\ UNCHANGED <<conn, sChan, posts, sent, got, cuts>>

(* Where loop l goes when its poll has ended.                              *)
Ended(l) == [loop EXCEPT ![l] = [at |-> IF client.stop THEN "off" ELSE "sleep",
                                 poll |-> None]]

Post(m) == {[nr |-> sent.posts + 1, m |-> m, failed |-> 0]}

(* Bug: only a response that brings messages makes the channel.            *)
OpensWithMessages(k) == polls[k].new /\ client.chan = "none" /\ polls[k].messages # <<>>
(* The response of a new connection makes the channel, once.               *)
Opens(k) == polls[k].new /\ client.chan = "none"

(* The response of poll k reaches loop l.                                  *)
Response(l) ==
  LET k == loop[l].poll
      ms == polls[k].messages
      chan == IF Opens(k) THEN "connected" ELSE client.chan
      after == IF chan # "none" /\ 0 \in Range(ms) THEN "established" ELSE chan
  IN /\ loop[l].at = "poll"
     /\ polls[k].at = "answered"
     /\ client' = [client EXCEPT !.abort = None, !.chan = after]
     /\ IF Opens(k)
        THEN posts' = posts \cup Post(0) /\ sent' = [sent EXCEPT !.posts = @ + 1]
        ELSE UNCHANGED <<posts, sent>>
     /\ got' = IF after = "established" THEN [got EXCEPT !.client = @ \o ms] ELSE got
     /\ polls' = [polls EXCEPT ![k] = NoPoll]
     /\ loop' = Ended(l)
     /\ UNCHANGED <<conn, sChan, cuts>>

(* Infrastructure cuts poll k: the client's fetch fails, the server does   *)
(* not look.                                                               *)
Cut(l) ==
  LET k == loop[l].poll
  IN /\ loop[l].at = "poll"
     /\ cuts < MaxCuts
     /\ CutFirst \/ client.chan # "none"
     /\ cuts' = cuts + 1
     /\ \/ polls' = [polls EXCEPT ![k].live = FALSE,
                                  ![k].at = IF @ = "answered" THEN "none" ELSE @]
        \/ polls[k].at = "sent" /\ polls' = [polls EXCEPT ![k] = NoPoll]
     /\ loop' = Ended(l)
     /\ UNCHANGED <<client, conn, sChan, posts, sent, got>>

(* The Repo of the client sends on its channel.                            *)
ClientSends ==
  /\ client.chan = "established"
  /\ sent.client < MaxData
  /\ posts' = posts \cup Post(sent.client + 1)
  /\ sent' = [sent EXCEPT !.posts = @ + 1, !.client = @ + 1]
  /\ UNCHANGED <<client, loop, polls, conn, sChan, got, cuts>>

-----------------------------------------------------------------------------
(* The server                                                              *)

(* A poll that the client gave up takes its response with it.              *)
Answered(ps, k, ms) ==
  [ps EXCEPT ![k] = IF ps[k].live THEN [@ EXCEPT !.at = "answered", !.messages = ms]
                    ELSE NoPoll]

(* Bug: the messages are handed out and stay.                              *)
NotDrained(c) == c.queue
(* The queue after drain.                                                  *)
Drained(c) == <<>>

(* Bug: the timer of a poll that was answered goes on.                     *)
TimerKept(c) == c.timers
TimersLeft(c) == c.timers \ {c.timeout}

(* Bug: the poll that waits is answered with what was queued before.       *)
HandedBefore(queue) == conn.queue
Handed(queue) == queue

(* enqueue: a poll that waits is answered at once.                         *)
Enqueued(m) ==
  LET queue == Append(conn.queue, m)
  IN IF conn.resolver = None
     THEN [conn |-> [conn EXCEPT !.queue = queue], polls |-> polls]
     ELSE [conn |-> [there |-> conn.there, queue |-> Drained([conn EXCEPT !.queue = queue]),
                     resolver |-> None, timers |-> TimersLeft(conn), timeout |-> None],
           polls |-> Answered(polls, conn.resolver, Handed(queue))]

(* GET: the connection is made if there is none, and waitForMessages gives *)
(* what is queued or keeps one resolver and one timer.                     *)
PollArrives(k) ==
  LET c == IF conn.there THEN conn ELSE [NoConn EXCEPT !.there = TRUE]
      p == [polls EXCEPT ![k].new = ~ conn.there]
  IN /\ polls[k].at = "sent"
     /\ sChan' = IF conn.there THEN sChan ELSE "connected"
     /\ IF c.queue # <<>>
        THEN /\ polls' = Answered(p, k, c.queue)
             /\ conn' = [c EXCEPT !.queue = Drained(c)]
        ELSE /\ polls' = [p EXCEPT ![k].at = "held"]
             /\ conn' = [there |-> TRUE, queue |-> <<>>, resolver |-> k,
                         timers |-> c.timers \cup {k}, timeout |-> k]
     /\ UNCHANGED <<client, loop, posts, sent, got, cuts>>

(* The timer of poll k: it answers k, if any poll waits.                   *)
TimerFires(k) ==
  /\ k \in conn.timers
  /\ IF conn.resolver # None
     THEN /\ polls' = Answered(polls, k, conn.queue)
          /\ conn' = [there |-> conn.there, queue |-> Drained(conn), resolver |-> None,
                      timers |-> conn.timers \ {k}, timeout |-> None]
     ELSE /\ conn' = [conn EXCEPT !.timers = @ \ {k}]
          /\ UNCHANGED polls
  /\ UNCHANGED <<client, loop, sChan, posts, sent, got, cuts>>

(* POST: 404 without a connection; the handler of the channel otherwise.   *)
(* When the response is lost the client posts again.                       *)
PostArrives(p) ==
  LET e == Enqueued(0)
  IN /\ p \in posts
     /\ \/ posts' = posts \ {p}
        \/ /\ conn.there /\ p.failed + 1 < MaxAttempts
           /\ posts' = (posts \ {p}) \cup {[p EXCEPT !.failed = @ + 1]}
     /\ IF conn.there /\ p.m = 0
        THEN sChan' = "established" /\ conn' = e.conn /\ polls' = e.polls
        ELSE UNCHANGED <<sChan, conn, polls>>
     /\ got' = IF conn.there /\ p.m # 0 /\ sChan = "established"
               THEN [got EXCEPT !.server = Append(@, p.m)] ELSE got
     /\ UNCHANGED <<client, loop, sent, cuts>>

(* Bug: a POST that fails is not tried again.                              *)
NoRetry(p) == {}
Retry(p) == {[p EXCEPT !.failed = @ + 1]}

(* A POST does not arrive and the client tries again.  Of the maxAttempts  *)
(* attempts one is assumed to succeed: when all fail, the message is lost. *)
PostFails(p) ==
  /\ p \in posts
  /\ p.failed + 1 < MaxAttempts
  /\ posts' = (posts \ {p}) \cup Retry(p)
  /\ UNCHANGED <<client, loop, polls, conn, sChan, sent, got, cuts>>

ServerSends ==
  LET e == Enqueued(sent.server + 1)
  IN /\ sChan = "established"
     /\ sent.server < MaxData
     /\ conn' = e.conn /\ polls' = e.polls
     /\ sent' = [sent EXCEPT !.server = @ + 1]
     /\ UNCHANGED <<client, loop, sChan, posts, got, cuts>>

(* Nothing will drain the queue any more within the connection timeout,    *)
(* which is longer than any poll: no timer that answers runs, no poll is   *)
(* on its way and no loop is about to send one.                            *)
Idle ==
  /\ conn.resolver = None \/ conn.timers = {}
  /\ \A k \in Polls : polls[k].at # "sent"
  /\ \A l \in Loops : loop[l].at # "sleep"
  /\ \A k \in Polls : polls[k].live => polls[k].at = "held"

(* Bug: the channel is not removed.                                        *)
ChannelStays == sChan
ChannelRemoved == "none"

(* cleanupStaleConnections: the connection goes, and its channel.          *)
Cleanup ==
  /\ conn.there
  /\ Idle
  /\ polls' = IF conn.resolver = None THEN polls
              ELSE Answered(polls, conn.resolver, conn.queue)
  /\ conn' = NoConn
  /\ sChan' = ChannelRemoved
  /\ UNCHANGED <<client, loop, posts, sent, got, cuts>>

-----------------------------------------------------------------------------
Server(k) == PollArrives(k) \/ TimerFires(k)
Client(l) == Wake(l) \/ Response(l)

Next ==
  \/ Start \/ Stop
  \/ \E l \in Loops : Wake(l)
  \/ \E l \in Loops : Response(l)
  \/ \E l \in Loops : Cut(l)
  \/ ClientSends
  \/ \E k \in Polls : PollArrives(k)
  \/ \E k \in Polls : TimerFires(k)
  \/ \E p \in posts : PostArrives(p)
  \/ \E p \in posts : PostFails(p)
  \/ ServerSends
  \/ Cleanup

Spec == Init /\ [][Next]_vars

(* Timers fire, requests and responses that are not cut arrive.            *)
FairSpec ==
  /\ Spec
  /\ \A k \in Polls : WF_vars(PollArrives(k)) /\ WF_vars(TimerFires(k))
  /\ \A l \in Loops : WF_vars(Wake(l)) /\ WF_vars(Response(l))
  /\ WF_vars(\E p \in posts : PostArrives(p))

-----------------------------------------------------------------------------
TypeOK ==
  /\ client \in [stop : BOOLEAN, polling : BOOLEAN, starts : 0 .. MaxLoops,
                 abort : 0 .. MaxPolls, chan : ChanStates]
  /\ loop \in [Loops -> [at : {"off", "sleep", "poll"}, poll : 0 .. MaxPolls]]
  /\ \A k \in Polls :
       /\ polls[k].live \in BOOLEAN /\ polls[k].new \in BOOLEAN
       /\ polls[k].at \in {"none", "sent", "held", "answered"}
       /\ polls[k].messages \in Seq(0 .. MaxData)
       /\ polls[k].live <=> \E l \in Loops : loop[l].at = "poll" /\ loop[l].poll = k
  /\ conn.there <=> sChan # "none"
  /\ conn.resolver \in 0 .. MaxPolls /\ conn.timers \subseteq Polls
  /\ sChan \in ChanStates
  /\ \A p \in posts : p.m \in 0 .. MaxData /\ p.failed \in 0 .. MaxAttempts - 1
  /\ cuts \in 0 .. MaxCuts

(* Nothing is under way: the client runs, its poll is held and no POST is  *)
(* out.                                                                    *)
Quiet ==
  /\ client.polling
  /\ posts = {}
  /\ \A l \in Loops : loop[l].at # "sleep"
  /\ \A l \in Loops : loop[l].at = "poll" => polls[loop[l].poll].at = "held"

(* When nothing is under way, and no poll was cut, both ends have the      *)
(* channel established.  (The first poll is held before there is anything  *)
(* to send.)                                                               *)
QuietAgree ==
  cuts = 0 /\ Quiet /\ (\A k \in Polls : polls[k].live => ~ polls[k].new) =>
    client.chan = "established" /\ sChan = "established"

(* What the server sent is received, or in the response of a poll the      *)
(* client awaits, or queued, unless a poll was cut.                        *)
UnderWay ==
  UNION {Range(polls[k].messages) : k \in {k \in Polls : polls[k].at = "answered"}}
NothingLost ==
  cuts = 0 /\ client.polling /\ client.starts = 1 =>
    1 .. sent.server \subseteq Range(got.client) \cup UnderWay \cup Range(conn.queue)

(* The client receives data in the order it was sent, each at most once,   *)
(* whatever polls are cut and connections dropped.                         *)
InOrderOnce ==
  \A i, j \in DOMAIN got.client :
    i < j /\ 0 \notin {got.client[i], got.client[j]} => got.client[i] < got.client[j]

(* A poll that the server holds and the client awaits is answered.         *)
PollsAnswered ==
  \A k \in Polls :
    (polls[k].live /\ polls[k].at = "held") ~> (polls[k].at # "held" \/ ~ polls[k].live)

(* What the client sends on an established link reaches the server, if the *)
(* client goes on.                                                         *)
PostsArrive ==
  \A m \in 1 .. MaxData :
    (sent.client = m) ~>
      (m \in Range(got.server) \/ ~ client.polling \/ sChan # "established")
=============================================================================
