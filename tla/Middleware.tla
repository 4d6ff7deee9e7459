---------------------------- MODULE Middleware ----------------------------
(***************************************************************************)
(* Received messages on their way through the middleware: the sliding      *)
(* window of rate-limiter.ts, then a check that answers later, as one by   *)
(* an external service does; middleware-processor.ts, middleware.ts and    *)
(* what synchronizer.ts does with the outcome.  Every peer has one         *)
(* established channel.                                                    *)
(***************************************************************************)
EXTENDS Integers, Sequences, FiniteSets, Functions, FiniteSetTheorems,
        SequenceTheorems, TLAPS

CONSTANTS
  Peers,
  Limit,        \* effectiveLimit: maxRequests + burstAllowance
  Window,       \* windowMs
  MaxBatch,     \* bound: messages in one channel/batch
  MaxMessages,  \* bound: messages of one peer
  MaxClock      \* bound on the time

BoundAssumption ==
  /\ {Limit, Window, MaxBatch, MaxMessages, MaxClock} \subseteq Nat
  /\ Window > 0 /\ MaxBatch > 0

VARIABLES
  now,
  limiter,   \* the rate state of a peer: timestamps and lastActivity, or None
  received,  \* how many messages a peer has sent; they are numbered
  pending,   \* envelopes whose checks are not all answered
  handled,   \* the messages dispatched to the synchronizer, per peer
  gone,      \* the peers whose channel was removed
  admitted,  \* history: when the limiter let each message pass
  refused    \* history: [at, numbers] of the envelopes the limiter cut

vars == <<now, limiter, received, pending, handled, gone, admitted, refused>>

None == [times |-> <<>>, last |-> 0, known |-> FALSE]

Init ==
  /\ now = 0
  /\ limiter = [p \in Peers |-> None]
  /\ received = [p \in Peers |-> 0]
  /\ pending = {}
  /\ handled = [p \in Peers |-> <<>>]
  /\ gone = {}
  /\ admitted = [p \in Peers |-> <<>>]
  /\ refused = [p \in Peers |-> {}]

-----------------------------------------------------------------------------
Expired(times) == {i \in DOMAIN times : times[i] + Window <= now}

(* The timestamps still in the window: they were pushed as time went by,   *)
(* so the expired ones come first.                                         *)
Current(times) == SubSeq(times, Cardinality(Expired(times)) + 1, Len(times))

(* Of k messages checked at once, how many pass.                           *)
Passes(p, k) ==
  LET free == IF Limit > Len(Current(limiter[p].times))
                THEN Limit - Len(Current(limiter[p].times)) ELSE 0
  IN IF k <= free THEN k ELSE free

Stamped(n) == [i \in 1 .. n |-> now]

(* checkRateLimit, for each message in turn.                               *)
CheckRateLimit(p, k) ==
  limiter' = [limiter EXCEPT ![p] =
    [times |-> Current(@.times) \o Stamped(Passes(p, k)), last |-> now, known |-> TRUE]]

(* A message (k = 1) or a batch: the limiter answers at once, for every    *)
(* message of the batch; what passes it waits for the next check.          *)
Receive(p, k) ==
  /\ p \notin gone /\ received[p] + k <= MaxMessages
  /\ CheckRateLimit(p, k)
  /\ received' = [received EXCEPT ![p] = @ + k]
  /\ admitted' = [admitted EXCEPT ![p] = @ \o Stamped(Passes(p, k))]
  /\ refused' = IF Passes(p, k) = k THEN refused
                ELSE [refused EXCEPT ![p] =
                        @ \cup {[at |-> now, size |-> k, passed |-> Passes(p, k)]}]
  /\ pending' = IF Passes(p, k) = 0 THEN pending
                ELSE LET ms == received[p] + 1 .. received[p] + Passes(p, k)
                     IN pending \cup {[peer |-> p, msgs |-> ms, open |-> ms, dropped |-> {}]}
  /\ UNCHANGED <<now, handled, gone>>

(* The check of one message answers; an error counts as a rejection.       *)
Answer(e, m) ==
  /\ m \in e.open
  /\ \E d \in {{}, {m}} :
       pending' = (pending \ {e}) \cup
                    {[e EXCEPT !.open = @ \ {m}, !.dropped = @ \cup d]}
  /\ UNCHANGED <<now, limiter, received, handled, gone, admitted, refused>>

(* Messages are numbered in the order of the channel and of the batch.     *)
InOrder(ms) ==
  [i \in 1 .. Cardinality(ms) |->
     CHOOSE m \in ms : Cardinality({l \in ms : l <= m}) = i]

(* Bug: one allowed message lets the whole batch pass.                     *)
AllOrNone(e) == IF e.dropped = e.msgs THEN <<>> ELSE InOrder(e.msgs)

(* The messages of an envelope that passed every check, in their order.    *)
Allowed(e) == InOrder(e.msgs \ e.dropped)

(* All its checks have answered: what is left is dispatched, unless the    *)
(* channel is not known any more.                                          *)
Dispatch(e) ==
  /\ e.open = {}
  /\ pending' = pending \ {e}
  /\ handled' = IF e.peer \in gone THEN handled
                ELSE [handled EXCEPT ![e.peer] = @ \o Allowed(e)]
  /\ UNCHANGED <<now, limiter, received, gone, admitted, refused>>

(* Bug: a key is removed however recently it was active.                   *)
RemovesActive ==
  /\ \E p \in Peers : limiter[p].known
  /\ limiter' = [p \in Peers |-> None]
  /\ UNCHANGED <<now, received, pending, handled, gone, admitted, refused>>

(* The interval removes the keys that were not active for two windows.     *)
Cleanup ==
  /\ \E p \in Peers : limiter[p].known /\ limiter[p].last + 2 * Window < now
  /\ limiter' = [p \in Peers |->
       IF limiter[p].last + 2 * Window < now THEN None ELSE limiter[p]]
  /\ UNCHANGED <<now, received, pending, handled, gone, admitted, refused>>

ChannelRemoved(p) ==
  /\ p \notin gone
  /\ gone' = gone \cup {p}
  /\ UNCHANGED <<now, limiter, received, pending, handled, admitted, refused>>

Tick ==
  /\ now < MaxClock
  /\ now' = now + 1
  /\ UNCHANGED <<limiter, received, pending, handled, gone, admitted, refused>>

Next ==
  \/ \E p \in Peers : ChannelRemoved(p) \/ \E k \in 1 .. MaxBatch : Receive(p, k)
  \/ \E e \in pending : Dispatch(e) \/ \E m \in e.open : Answer(e, m)
  \/ Cleanup \/ Tick

Spec == Init /\ [][Next]_vars

(* Every check answers, and what is answered is dispatched.                *)
Settle == \E e \in pending : Dispatch(e) \/ \E m \in e.open : Answer(e, m)
FairSpec == Spec /\ WF_vars(Settle)

-----------------------------------------------------------------------------
Envelopes == [peer : Peers, msgs : SUBSET Nat, open : SUBSET Nat, dropped : SUBSET Nat]
Refusals == [at : Nat, size : Nat, passed : Nat]

(* The values of the state of the limiter and of the processor.            *)
TypeOK ==
  /\ now \in 0 .. MaxClock /\ gone \subseteq Peers /\ pending \subseteq Envelopes
  /\ limiter \in [Peers -> [times : Seq(Nat), last : Nat, known : BOOLEAN]]
  /\ received \in [Peers -> 0 .. MaxMessages]
  /\ handled \in [Peers -> Seq(Nat)] /\ admitted \in [Peers -> Seq(Nat)]
  /\ refused \in [Peers -> SUBSET Refusals]

(* Whatever the interval removes, in no window more messages of a peer     *)
(* pass than the limit (rate-limiter.ts:202, rate-limiter.ts:175).         *)
WindowBound ==
  \A p \in Peers : \A i \in DOMAIN admitted[p] :
    i > Limit => admitted[p][i] >= admitted[p][i - Limit] + Window

(* A message is refused only when the limit was used up in the window      *)
(* before it: refused messages and removed keys cost nobody anything       *)
(* (rate-limiter.ts:209).                                                  *)
RefusedForCause ==
  \A p \in Peers : \A r \in refused[p] :
    Cardinality({i \in DOMAIN admitted[p] :
                   admitted[p][i] <= r.at /\ r.at < admitted[p][i] + Window}) >= Limit

(* What is handled was let pass by both checks, once, however late they    *)
(* answered (middleware-processor.ts:167).                                 *)
HandledOnce ==
  \A p \in Peers :
    /\ IsInjective(handled[p])
    /\ Len(handled[p]) <= Len(admitted[p])
    /\ \A e \in pending : e.peer = p => e.msgs \cap Range(handled[p]) = {}

(* A message its check rejected, or one the check has yet to answer, is    *)
(* not handled (middleware.ts:146).                                        *)
RejectedStay ==
  [][\A e \in pending \ pending' : \A m \in e.msgs :
       e.open = {} /\ (m \in e.dropped => m \notin Range(handled'[e.peer]))]_<<handled>>

(* No message waits for ever once its checks have answered, however those  *)
(* of other messages come out (synchronizer.ts:338).                       *)
AllSettled == <>[](pending = {})

(* A batch counts as one message: it passes or is refused as a whole.      *)
BatchesWhole == \A p \in Peers : \A r \in refused[p] : r.passed = 0

-----------------------------------------------------------------------------
(* Proofs.  A sequence of times is in order.                               *)
Sorted(s) == \A i, j \in 1 .. Len(s) : i <= j => s[i] <= s[j]

(* The expired timestamps of a sequence in order are its first ones.       *)
LEMMA CurrentIsLast ==
  ASSUME NEW times \in Seq(Nat), Sorted(times), now \in Nat, BoundAssumption
  PROVE  \E k \in 0 .. Len(times) :
           /\ Current(times) \in Seq(Nat)
           /\ Len(Current(times)) = Len(times) - k
           /\ \A i \in 1 .. Len(times) - k : Current(times)[i] = times[k + i]
           /\ \A i \in 1 .. k : times[i] + Window <= now
           /\ \A i \in k + 1 .. Len(times) : times[i] + Window > now
<1> DEFINE E == Expired(times)
           n == Len(times)
           c == Cardinality(E)
<1>1. n \in Nat /\ DOMAIN times = 1 .. n /\ \A i \in 1 .. n : times[i] \in Nat
  BY LenProperties, ElementOfSeq
<1>2. Window \in Nat
  BY DEF BoundAssumption
<1>3. E \subseteq 1 .. n /\ IsFiniteSet(1 .. n) /\ Cardinality(1 .. n) = n
  BY <1>1, FS_Interval DEF Expired
<1>4. IsFiniteSet(E) /\ c \in Nat /\ c <= n
  BY <1>3, <1>1, FS_Subset, FS_CardinalityType
<1>5. ASSUME NEW i \in E PROVE i <= c
  <2>0. i \in 1 .. n /\ times[i] + Window <= now
    BY <1>3 DEF Expired
  <2>1. ASSUME NEW j \in 1 .. i PROVE j \in E
    <3>1. j \in 1 .. n /\ j <= i
      BY <2>0, <1>1
    <3>2. times[j] <= times[i]
      BY <3>1, <2>0 DEF Sorted
    <3>3. QED
      BY <3>1, <3>2, <2>0, <1>1, <1>2 DEF Expired
  <2>2. Cardinality(1 .. i) = i
    BY <1>3, FS_Interval
  <2>3. 1 .. i \in SUBSET E
    BY <2>1
  <2> HIDE DEF E
  <2>4. Cardinality(1 .. i) <= Cardinality(E)
    BY <2>3, <1>4, FS_Subset
  <2>5. QED
    BY <2>4, <2>2
<1>6. E = 1 .. c
  <2>1. E \subseteq 1 .. c
    BY <1>3, <1>4, <1>5
  <2>2. IsFiniteSet(1 .. c) /\ Cardinality(1 .. c) = c
    BY <1>4, FS_Interval
  <2>3. QED
    BY <2>1, <2>2, FS_Subset
<1>7. c \in 0 .. n
  BY <1>1, <1>4
<1>8. Current(times) = SubSeq(times, c + 1, n)
  BY DEF Current
<1>9. /\ SubSeq(times, c + 1, n) \in Seq(Nat)
      /\ Len(SubSeq(times, c + 1, n)) = n - c
      /\ \A i \in 1 .. n - c : SubSeq(times, c + 1, n)[i] = times[c + i]
  <2>1. n \in Nat /\ c \in Nat
    BY <1>1, <1>7
  <2>2. QED
    <3>1. c + 1 \in Int /\ n \in Int /\ \A i \in c + 1 .. n : times[i] \in Nat
      BY <1>1, <1>7
    <3> HIDE DEF c, n
    <3>2. /\ SubSeq(times, c + 1, n) \in Seq(Nat)
          /\ Len(SubSeq(times, c + 1, n)) = IF c + 1 <= n THEN n - (c + 1) + 1 ELSE 0
          /\ \A i \in 1 .. n - (c + 1) + 1 :
               SubSeq(times, c + 1, n)[i] = times[(c + 1) + i - 1]
      BY <3>1, SubSeqProperties
    <3>3. QED
      BY <3>2, <1>7, <2>1
<1>10. \A i \in 1 .. c : times[i] + Window <= now
  BY <1>6 DEF Expired
<1>11. \A i \in c + 1 .. n : times[i] + Window > now
  <2>1. ASSUME NEW i \in c + 1 .. n PROVE times[i] + Window > now
    <3>1. i \in 1 .. n /\ i \notin 1 .. c
      BY <1>1, <1>4
    <3>2. ~ (times[i] + Window <= now)
      BY <3>1, <1>6, <1>1 DEF Expired
    <3>3. QED
      BY <3>1, <3>2, <1>1, <1>2
  <2>2. QED
    BY <2>1
<1> HIDE DEF E, n, c
<1>12. QED
  BY <1>7, <1>8, <1>9, <1>10, <1>11 DEF n

(* The messages of a finite set of numbers, in order: each once.           *)
LEMMA InOrderIsPermutation ==
  ASSUME NEW ms \in SUBSET Nat, IsFiniteSet(ms)
  PROVE  /\ InOrder(ms) \in Seq(ms)
         /\ Len(InOrder(ms)) = Cardinality(ms)
         /\ Range(InOrder(ms)) = ms
         /\ IsInjective(InOrder(ms))
<1> DEFINE Upto(m) == {l \in ms : l <= m}
           c == Cardinality(ms)
           rank == [m \in ms |-> Cardinality(Upto(m))]
<1>1. c \in Nat /\ IsFiniteSet(1 .. c) /\ Cardinality(1 .. c) = c
  BY FS_CardinalityType, FS_Interval
<1>2. ASSUME NEW m \in ms
      PROVE  IsFiniteSet(Upto(m)) /\ rank[m] = Cardinality(Upto(m)) /\ rank[m] \in 1 .. c
  <2>1. Upto(m) \in SUBSET ms /\ Upto(m) # {}
    OBVIOUS
  <2>2. IsFiniteSet(Upto(m)) /\ Cardinality(Upto(m)) <= c
    BY <2>1, FS_Subset
  <2>3. Cardinality(Upto(m)) \in Nat /\ Cardinality(Upto(m)) # 0
    BY <2>1, <2>2, FS_CardinalityType, FS_EmptySet
  <2>4. QED
    BY <1>1, <2>2, <2>3
<1>3. ASSUME NEW l \in ms, NEW m \in ms, l < m
      PROVE  rank[l] < rank[m]
  <2>1. Upto(l) \in SUBSET Upto(m) /\ Upto(l) # Upto(m)
    <3>1. l \in Nat /\ m \in Nat /\ ~ (m <= l)
      BY <1>3
    <3>2. m \in Upto(m) /\ m \notin Upto(l)
      BY <3>1
    <3>3. \A j \in Upto(l) : j \in Upto(m)
      BY <3>1, <1>3
    <3>4. QED
      BY <3>2, <3>3
  <2>2. QED
    BY <2>1, <1>2, FS_Subset
<1>4. rank \in [ms -> 1 .. c]
  BY <1>2
<1>5. \A l, m \in ms : rank[l] = rank[m] => l = m
  BY <1>3, <1>2
<1> HIDE DEF rank, c
<1>6. rank \in Injection(ms, 1 .. c)
  BY <1>4, <1>5 DEF Injection, IsInjective
<1>7. rank \in Surjection(ms, 1 .. c)
  BY <1>6, <1>1, FS_Injection DEF c
<1>8. \A i \in 1 .. c : \E m \in ms : rank[m] = i
  BY <1>7, <1>4 DEF Surjection
<1> DEFINE s == InOrder(ms)
<1>9. s = [i \in 1 .. c |-> CHOOSE m \in ms : Cardinality({l \in ms : l <= m}) = i]
  BY DEF InOrder, c
<1> HIDE DEF s
<1>10. ASSUME NEW i \in 1 .. c
       PROVE  s[i] \in ms /\ rank[s[i]] = i
  <2>1. \A m \in ms : rank[m] = Cardinality({l \in ms : l <= m})
    BY DEF rank
  <2>2. \E m \in ms : Cardinality({l \in ms : l <= m}) = i
    BY <1>8, <2>1
  <2>3. s[i] = CHOOSE m \in ms : Cardinality({l \in ms : l <= m}) = i
    BY <1>9
  <2>4. s[i] \in ms /\ Cardinality({l \in ms : l <= s[i]}) = i
    BY <2>2, <2>3
  <2>5. QED
    BY <2>1, <2>4
<1>11. ASSUME NEW m \in ms PROVE rank[m] \in 1 .. c /\ s[rank[m]] = m
  BY <1>4, <1>5, <1>10
<1>12. s \in [1 .. c -> ms] /\ DOMAIN s = 1 .. c
  BY <1>9, <1>10
<1> HIDE DEF s
<1>13. s \in Seq(ms) /\ Len(s) = c
  BY <1>12, <1>1, IsASeq, LenProperties
<1>14. Range(s) = ms
  BY <1>10, <1>11, <1>12 DEF Range
<1>15. IsInjective(s)
  BY <1>10, <1>12 DEF IsInjective
<1>16. QED
  BY <1>13, <1>14, <1>15 DEF s, c

(* What the limiter keeps of a peer, l, are the last of the times a at     *)
(* which messages of the peer passed; the others are out of the window.    *)
Tracked(a, l, t) ==
  LET n == Len(a)  k == Len(l.times) IN
  /\ k <= Limit /\ k <= n /\ l.last <= t
  /\ \A i \in 1 .. k : l.times[i] = a[n - k + i] /\ l.times[i] <= l.last
  /\ \A i \in 1 .. n - k : a[i] + Window <= t
  /\ Sorted(a) /\ \A i \in 1 .. n : a[i] <= t

(* No window holds more than the limit.                                    *)
Spaced(a) == \A i \in 1 .. Len(a) : i > Limit => a[i] >= a[i - Limit] + Window

(* The messages that passed at times a in the window before t.             *)
Within(a, t) == {i \in 1 .. Len(a) : a[i] <= t /\ t < a[i] + Window}

(* c is what is left of times when its first e, which have expired, go.    *)
Rest(c, times, e, t) ==
  /\ e \in 0 .. Len(times) /\ Len(c) = Len(times) - e
  /\ \A i \in 1 .. Len(c) : c[i] = times[e + i]
  /\ \A i \in 1 .. e : times[i] + Window <= t

(* All of m messages passed at time t.                                     *)
AllAt(new, m, t) == Len(new) = m /\ \A i \in 1 .. m : new[i] = t

(* Positions of a sequence of n of which the last k are kept, e of these   *)
(* being dropped.                                                          *)
LEMMA Shifted ==
  ASSUME NEW n \in Nat, NEW k \in Nat, NEW e \in Nat, NEW i \in Nat,
         k <= n, e <= k, i <= n - (k - e), i >= n - k + 1
  PROVE  i - (n - k) \in 1 .. e /\ i - (n - k) \in 1 .. k /\ n - k + (i - (n - k)) = i
OBVIOUS

(* Positions of a sequence of n of which the last k are kept.              *)
LEMMA AmongLast ==
  ASSUME NEW n \in Nat, NEW k \in Nat, k <= n
  PROVE  /\ \A i \in 1 .. n : i > n - k => i - (n - k) \in 1 .. k /\ n - k + (i - (n - k)) = i
         /\ \A i \in 1 .. n : i <= n - k \/ i > n - k
         /\ \A i \in 1 .. n - k : i \in 1 .. n
         /\ \A i \in 1 .. k : n - k + i \in 1 .. n
         /\ \A i, j \in 1 .. k : i <= j => n - k + i <= n - k + j
OBVIOUS

(* What a sequence holds once m times t are appended.                      *)
LEMMA ThenAll ==
  ASSUME NEW s \in Seq(Nat), NEW new \in Seq(Nat), NEW m \in Nat, NEW t \in Nat, AllAt(new, m, t)
  PROVE  /\ s \o new \in Seq(Nat) /\ Len(s \o new) = Len(s) + m
         /\ \A i \in 1 .. Len(s) + m : (s \o new)[i] = IF i <= Len(s) THEN s[i] ELSE t
<1>1. Len(s) \in Nat /\ Len(new) = m
  BY DEF AllAt
<1>2. s \o new \in Seq(Nat) /\ Len(s \o new) = Len(s) + m
  BY <1>1, ConcatProperties
<1>3. ASSUME NEW i \in 1 .. Len(s) + m
      PROVE  (s \o new)[i] = IF i <= Len(s) THEN s[i] ELSE t
  <2>1. CASE i <= Len(s)
    BY <2>1, <1>1
  <2>2. CASE i > Len(s)
    <3>1. i - Len(s) \in 1 .. m /\ ~ (i <= Len(s))
      BY <2>2, <1>1
    <3>2. (s \o new)[i] = new[i - Len(s)]
      BY <3>1, <1>1
    <3>3. QED
      BY <3>1, <3>2 DEF AllAt
  <2>3. QED
    BY <2>1, <2>2, <1>1
<1>4. QED
  BY <1>2, <1>3

(* When m messages pass at time t and the current ones are c, the last of  *)
(* the kept times t0, the times after that are tracked and spaced.         *)
LEMMA PassingTracked ==
  ASSUME BoundAssumption, NEW t \in Nat, NEW m \in Nat, NEW a \in Seq(Nat),
         NEW l, l.times \in Seq(Nat), l.last \in Nat, Tracked(a, l, t), Spaced(a),
         NEW c \in Seq(Nat), NEW e, Rest(c, l.times, e, t), Len(c) + m <= Limit,
         NEW new \in Seq(Nat), AllAt(new, m, t),
         NEW r, r.times = c \o new, r.last = t
  PROVE  /\ a \o new \in Seq(Nat) /\ c \o new \in Seq(Nat)
         /\ Tracked(a \o new, r, t) /\ Spaced(a \o new)
<1> DEFINE n == Len(a)
           k == Len(l.times)
           b == a \o new
           d == c \o new
<1>1. /\ n \in Nat /\ k \in Nat /\ Limit \in Nat /\ Window \in Nat /\ Len(c) \in Nat
      /\ k <= n /\ k <= Limit /\ e \in Nat /\ e <= k /\ Len(c) = k - e /\ Len(c) <= n
  <2>1. n \in Nat /\ k \in Nat /\ Limit \in Nat /\ Window \in Nat /\ Len(c) \in Nat
    BY LenProperties DEF BoundAssumption
  <2>2. k <= n /\ k <= Limit /\ e \in 0 .. k /\ Len(c) = k - e
    BY DEF Tracked, Rest
  <2>3. QED
    BY <2>1, <2>2
<1>2. /\ b \in Seq(Nat) /\ Len(b) = n + m
      /\ \A i \in 1 .. n + m : b[i] = IF i <= n THEN a[i] ELSE t
  BY ThenAll
<1>3. /\ d \in Seq(Nat) /\ Len(d) = Len(c) + m
      /\ \A i \in 1 .. Len(c) + m : d[i] = IF i <= Len(c) THEN c[i] ELSE t
  BY ThenAll
<1>4. \A i \in 1 .. n : a[i] \in Nat /\ a[i] <= t
  BY ElementOfSeq DEF Tracked
<1>5. \A i \in 1 .. n + m : b[i] \in Nat
  BY <1>2, ElementOfSeq
<1> HIDE DEF n, k, b, d
<1>6. ASSUME NEW i \in 1 .. n - Len(c) PROVE a[i] + Window <= t
  <2>1. CASE i <= n - k
    BY <2>1, <1>1 DEF Tracked, n, k
  <2>2. CASE i > n - k
    <3> DEFINE j == i - (n - k)
    <3>0. i \in Nat /\ i <= n - (k - e) /\ i >= n - k + 1
      BY <2>2, <1>1
    <3>1. j \in 1 .. e /\ j \in 1 .. k /\ n - k + j = i
      BY <3>0, <1>1, Shifted
    <3> HIDE DEF j
    <3>2. l.times[j] = a[i]
      BY <3>1 DEF Tracked, n, k
    <3>3. QED
      BY <3>1, <3>2 DEF Rest
  <2>3. QED
    BY <2>1, <2>2, <1>1
<1>7. \A i \in 1 .. Len(c) : c[i] = a[n - Len(c) + i]
  <2>1. ASSUME NEW i \in 1 .. Len(c) PROVE c[i] = a[n - Len(c) + i]
    <3>1. e + i \in 1 .. k /\ n - k + (e + i) = n - Len(c) + i
      BY <1>1
    <3>2. QED
      BY <3>1 DEF Tracked, Rest, n, k
  <2>2. QED
    BY <2>1
<1>8. Sorted(b)
  <2>1. ASSUME NEW i \in 1 .. n + m, NEW j \in 1 .. n + m, i <= j PROVE b[i] <= b[j]
    <3>1. CASE j <= n
      <4>1. i \in 1 .. n /\ j \in 1 .. n
        BY <3>1, <2>1, <1>1
      <4>2. b[i] = a[i] /\ b[j] = a[j]
        BY <4>1, <3>1, <2>1, <1>2
      <4>3. Sorted(a)
        BY DEF Tracked
      <4>4. QED
        BY <4>1, <4>2, <4>3, <2>1 DEF Sorted, n
    <3>2. CASE j > n
      <4>1. b[j] = t /\ (i <= n => i \in 1 .. n)
        BY <3>2, <1>2, <1>1
      <4>2. i <= n => b[i] = a[i] /\ a[i] <= t
        BY <4>1, <1>2, <1>4
      <4>3. ~ (i <= n) => b[i] = t
        BY <1>2
      <4>4. QED
        BY <4>1, <4>2, <4>3
    <3>3. QED
      BY <3>1, <3>2, <1>1
  <2>2. QED
    BY <2>1, <1>2 DEF Sorted
<1>9. Spaced(b)
  <2>1. ASSUME NEW i \in 1 .. n + m, i > Limit PROVE b[i] >= b[i - Limit] + Window
    <3>1. i - Limit \in 1 .. n /\ i - Limit <= n - Len(c)
      BY <2>1, <1>1
    <3>2. CASE i <= n
      <4>1. i \in 1 .. n /\ i - Limit \in 1 .. n + m /\ i - Limit <= n
        BY <3>2, <3>1, <2>1, <1>1
      <4>2. b[i] = a[i] /\ b[i - Limit] = a[i - Limit]
        BY <4>1, <3>2, <1>2
      <4>3. QED
        BY <4>1, <4>2, <2>1 DEF Spaced, n
    <3>3. CASE i > n
      <4>1. b[i] = t /\ b[i - Limit] = a[i - Limit]
        BY <3>3, <3>1, <1>1, <1>2, SMTT(40)
      <4>2. a[i - Limit] + Window <= t
        BY <3>1, <1>6, <1>1
      <4>3. QED
        BY <4>1, <4>2, <3>1, <1>1, <1>4
    <3>4. QED
      BY <3>2, <3>3, <1>1
  <2>2. QED
    BY <2>1, <1>2 DEF Spaced
<1>10. \A i \in 1 .. n + m : b[i] <= t
  <2>1. ASSUME NEW i \in 1 .. n + m PROVE b[i] <= t
    <3>1. i <= n => i \in 1 .. n
      BY <1>1
    <3>2. i <= n => b[i] = a[i] /\ a[i] <= t
      BY <3>1, <1>2, <1>4
    <3>3. ~ (i <= n) => b[i] = t
      BY <1>2
    <3>4. QED
      BY <3>2, <3>3
  <2>2. QED
    BY <2>1
<1>11. \A i \in 1 .. Len(c) + m : d[i] = b[n - Len(c) + i] /\ d[i] <= t
  <2>1. ASSUME NEW i \in 1 .. Len(c) + m
        PROVE  d[i] = b[n - Len(c) + i] /\ d[i] <= t
    <3>1. n - Len(c) + i \in 1 .. n + m
      BY <1>1
    <3>2. CASE i <= Len(c)
      <4>1. i \in 1 .. Len(c) /\ n - Len(c) + i \in 1 .. n /\ n - Len(c) + i <= n
        BY <3>2, <1>1
      <4>2. d[i] = c[i] /\ c[i] = a[n - Len(c) + i]
        BY <3>2, <4>1, <1>3, <1>7
      <4>3. b[n - Len(c) + i] = a[n - Len(c) + i]
        BY <3>1, <4>1, <1>2
      <4>4. QED
        BY <4>1, <4>2, <4>3, <1>4
    <3>3. CASE i > Len(c)
      <4>1. ~ (n - Len(c) + i <= n) /\ ~ (i <= Len(c))
        BY <3>3, <1>1
      <4>2. d[i] = t /\ b[n - Len(c) + i] = t
        BY <4>1, <3>1, <1>2, <1>3
      <4>3. QED
        BY <4>2
    <3>4. QED
      BY <3>2, <3>3, <1>1
  <2>2. QED
    BY <2>1
<1>12. \A i \in 1 .. n - Len(c) : b[i] + Window <= t
  <2>1. ASSUME NEW i \in 1 .. n - Len(c) PROVE b[i] + Window <= t
    <3>1. i <= n /\ i \in 1 .. n + m
      BY <1>1
    <3>2. b[i] = a[i]
      BY <3>1, <1>2
    <3>3. QED
      BY <3>2, <1>6
  <2>2. QED
    BY <2>1
<1>13. Tracked(b, r, t)
  <2>1. r.times = d /\ Len(r.times) = Len(c) + m /\ Len(b) = n + m
    BY <1>2, <1>3 DEF d
  <2>2. Len(c) + m <= n + m /\ (n + m) - (Len(c) + m) = n - Len(c)
    BY <1>1, <1>1
  <2>3. QED
    BY <2>1, <2>2, <1>8, <1>10, <1>11, <1>12 DEF Tracked
<1>14. QED
  BY <1>2, <1>3, <1>9, <1>13 DEF b, d

(* A tracked peer with the limit used up had that many messages pass in    *)
(* the window.                                                             *)
LEMMA FullWindow ==
  ASSUME BoundAssumption, NEW t \in Nat, NEW a \in Seq(Nat),
         NEW l, l.times \in Seq(Nat), Tracked(a, l, t), Len(l.times) = Limit,
         \A i \in 1 .. Limit : t < l.times[i] + Window
  PROVE  Cardinality(Within(a, t)) >= Limit
<1> DEFINE n == Len(a)
           W == Within(a, t)
           I == n - Limit + 1 .. n
<1>1. n \in Nat /\ Limit \in Nat /\ Limit <= n
  BY LenProperties DEF BoundAssumption, Tracked
<1>2. IsFiniteSet(I) /\ Cardinality(I) = Limit
  BY <1>1, FS_Interval
<1>3. ASSUME NEW i \in I PROVE i \in W
  <2>1. i \in 1 .. n /\ i - (n - Limit) \in 1 .. Limit /\ n - Limit + (i - (n - Limit)) = i
    BY <1>1, SMTT(40)
  <2>2. l.times[i - (n - Limit)] = a[i] /\ a[i] <= t
    BY <2>1 DEF Tracked
  <2>3. QED
    BY <2>1, <2>2 DEF Within
<1>4. W \in SUBSET (1 .. n) /\ I \in SUBSET W
  BY <1>3 DEF Within
<1> HIDE DEF W, I
<1>5. IsFiniteSet(W)
  <2>1. IsFiniteSet(1 .. n)
    BY <1>1, FS_Interval
  <2>2. QED
    BY <1>4, <2>1, FS_Subset
<1>6. Cardinality(W) \in Nat /\ Cardinality(I) <= Cardinality(W)
  BY <1>4, <1>5, FS_Subset, FS_CardinalityType
<1>7. QED
  BY <1>1, <1>2, <1>6 DEF W

(* A window holds finitely many messages.                                  *)
LEMMA WithinFinite ==
  ASSUME NEW t, NEW a \in Seq(Nat)
  PROVE  IsFiniteSet(Within(a, t)) /\ Cardinality(Within(a, t)) \in Nat
<1>1. Len(a) \in Int /\ Within(a, t) \in SUBSET (1 .. Len(a))
  BY DEF Within
<1>2. IsFiniteSet(1 .. Len(a))
  BY <1>1, FS_Interval
<1>3. QED
  BY <1>1, <1>2, FS_Subset, FS_CardinalityType

(* What passed in a window stays in it when more is appended.              *)
LEMMA WithinGrows ==
  ASSUME NEW t \in Nat, NEW a \in Seq(Nat), NEW new \in Seq(Nat)
  PROVE  Cardinality(Within(a, t)) <= Cardinality(Within(a \o new, t))
<1>1. /\ Len(a) \in Nat /\ Len(new) \in Nat /\ Len(a \o new) = Len(a) + Len(new)
      /\ \A i \in 1 .. Len(a) : (a \o new)[i] = a[i]
  BY LenProperties, ConcatProperties
<1>2. Within(a, t) \in SUBSET Within(a \o new, t)
  BY <1>1 DEF Within
<1>3. Within(a \o new, t) \in SUBSET (1 .. Len(a \o new))
  BY DEF Within
<1>4. IsFiniteSet(1 .. Len(a \o new))
  <2>1. Len(a \o new) \in Int
    BY <1>1
  <2>2. QED
    BY <2>1, FS_Interval
<1>5. IsFiniteSet(Within(a \o new, t))
  BY <1>3, <1>4, FS_Subset
<1>6. QED
  BY <1>2, <1>5, FS_Subset

(* What the limiter keeps of each peer are the last times at which its     *)
(* messages passed; no window held more than the limit, and where a        *)
(* message was refused the window was full.                                *)
WindowInv ==
  \A p \in Peers :
    /\ Tracked(admitted[p], limiter[p], now) /\ Spaced(admitted[p])
    /\ \A r \in refused[p] : Cardinality(Within(admitted[p], r.at)) >= Limit

(* The times pushed for n messages checked at once.                        *)
LEMMA StampedIs ==
  ASSUME NEW m \in Nat, now \in Nat
  PROVE  Stamped(m) \in Seq(Nat) /\ AllAt(Stamped(m), m, now)
<1>1. \A i \in 1 .. m : now \in Nat
  OBVIOUS
<1>2. Stamped(m) \in Seq(Nat) /\ Len(Stamped(m)) = m /\ \A i \in 1 .. m : Stamped(m)[i] = now
  BY <1>1 DEF Stamped
<1>3. QED
  BY <1>2 DEF AllAt

(* A message or batch leaves the limiter with the last times of a peer,    *)
(* no window with more than the limit, and a full one if it was cut.       *)
LEMMA ReceiveWindow ==
  ASSUME BoundAssumption, TypeOK, WindowInv,
         NEW p \in Peers, NEW k \in 1 .. MaxBatch, Receive(p, k)
  PROVE  /\ Passes(p, k) \in 0 .. k
         /\ limiter'[p] \in [times : Seq(Nat), last : Nat, known : BOOLEAN]
         /\ admitted'[p] = admitted[p] \o Stamped(Passes(p, k)) /\ admitted'[p] \in Seq(Nat)
         /\ Len(admitted'[p]) = Len(admitted[p]) + Passes(p, k)
         /\ Tracked(admitted'[p], limiter'[p], now) /\ Spaced(admitted'[p])
         /\ Passes(p, k) # k => Cardinality(Within(admitted'[p], now)) >= Limit
<1> DEFINE l == limiter[p]
           a == admitted[p]
           c == Current(l.times)
           m == Passes(p, k)
           new == Stamped(m)
           r == [times |-> c \o new, last |-> now, known |-> TRUE]
<1>1. /\ now \in Nat /\ Limit \in Nat /\ Window \in Nat /\ Window > 0 /\ k \in Nat
      /\ l.times \in Seq(Nat) /\ l.last \in Nat /\ a \in Seq(Nat)
      /\ limiter \in [Peers -> [times : Seq(Nat), last : Nat, known : BOOLEAN]]
      /\ admitted \in [Peers -> Seq(Nat)]
  BY DEF TypeOK, BoundAssumption
<1>2. Tracked(a, l, now) /\ Spaced(a)
  BY DEF WindowInv
<1>3. Sorted(l.times)
  <2>1. ASSUME NEW i \in 1 .. Len(l.times), NEW j \in 1 .. Len(l.times), i <= j
        PROVE  l.times[i] <= l.times[j]
    <3>1. Len(l.times) \in Nat /\ Len(a) \in Nat /\ Len(l.times) <= Len(a)
      BY <1>1, <1>2 DEF Tracked
    <3> DEFINE n == Len(a)
               q == Len(l.times)
               d == n - q
    <3> HIDE DEF n, q
    <3>2. d + i \in 1 .. n /\ d + j \in 1 .. n /\ d + i <= d + j
      <4>1. n \in Nat /\ q \in Nat /\ q <= n /\ i \in 1 .. q /\ j \in 1 .. q
        BY <3>1 DEF n, q
      <4>2. QED
        BY <4>1, <2>1, AmongLast
    <3>3. l.times[i] = a[d + i] /\ l.times[j] = a[d + j] /\ Sorted(a)
      BY <1>2 DEF Tracked, n, q
    <3> HIDE DEF d
    <3>4. QED
      BY <3>2, <3>3 DEF Sorted, n
  <2>2. QED
    BY <2>1 DEF Sorted
<1> HIDE DEF l
<1>4. PICK e \in 0 .. Len(l.times) :
        /\ c \in Seq(Nat) /\ Len(c) = Len(l.times) - e
        /\ \A i \in 1 .. Len(l.times) - e : c[i] = l.times[e + i]
        /\ \A i \in 1 .. e : l.times[i] + Window <= now
        /\ \A i \in e + 1 .. Len(l.times) : l.times[i] + Window > now
  BY <1>1, <1>3, CurrentIsLast
<1>5. Rest(c, l.times, e, now)
  BY <1>4 DEF Rest
<1>6. Len(l.times) \in Nat /\ Len(c) \in Nat /\ Len(c) <= Limit /\ Len(l.times) <= Limit
  BY <1>1, <1>2, <1>4 DEF Tracked
<1>7. /\ m \in 0 .. k /\ Len(c) + m <= Limit
      /\ m # k => Len(c) + m = Limit
  <2>1. m = LET free == IF Limit > Len(c) THEN Limit - Len(c) ELSE 0 IN IF k <= free THEN k ELSE free
    BY DEF Passes, l
  <2> HIDE DEF m, c
  <2>2. CASE Limit > Len(c)
    BY <2>1, <2>2, <1>1, <1>6
  <2>3. CASE ~ (Limit > Len(c))
    BY <2>1, <2>3, <1>1, <1>6
  <2>4. QED
    BY <2>2, <2>3
<1> HIDE DEF c, m
<1>8. new \in Seq(Nat) /\ AllAt(new, m, now) /\ m \in Nat
  <2>1. m \in Nat
    BY <1>7, <1>1
  <2>2. QED
    BY <1>1, <2>1, StampedIs
<1>9. limiter'[p] = r /\ admitted'[p] = a \o new
  BY <1>1 DEF Receive, CheckRateLimit, c, m, l
<1>10. /\ a \o new \in Seq(Nat) /\ c \o new \in Seq(Nat)
       /\ Tracked(a \o new, r, now) /\ Spaced(a \o new)
  <2>1. r.times = c \o new /\ r.last = now
    OBVIOUS
  <2> HIDE DEF new, a, r
  <2>2. QED
    BY <1>1, <1>2, <1>4, <1>5, <1>7, <1>8, <2>1, PassingTracked, ZenonT(150)
<1>11. /\ Len(a \o new) = Len(a) + m /\ Len(c \o new) = Len(c) + m
       /\ \A i \in 1 .. Len(c) + m : (c \o new)[i] = IF i <= Len(c) THEN c[i] ELSE now
  <2> HIDE DEF new, a
  <2>1. Len(a \o new) = Len(a) + m
    BY <1>1, <1>8, ThenAll
  <2>2. /\ Len(c \o new) = Len(c) + m
        /\ \A i \in 1 .. Len(c) + m : (c \o new)[i] = IF i <= Len(c) THEN c[i] ELSE now
    <3>1. c \in Seq(Nat) /\ m \in Nat /\ new \in Seq(Nat) /\ AllAt(new, m, now) /\ now \in Nat
      BY <1>1, <1>4, <1>8
    <3> HIDE DEF c, m
    <3> HIDE DEF new
    <3>2. Len(c \o new) = Len(c) + m
      BY <3>1, ThenAll
    <3>3. ASSUME NEW i \in 1 .. Len(c) + m PROVE (c \o new)[i] = IF i <= Len(c) THEN c[i] ELSE now
      BY <3>1, ThenAll
    <3>4. QED
      BY <3>2, <3>3
  <2>3. QED
    BY <2>1, <2>2
<1>12. ASSUME m # k PROVE Cardinality(Within(a \o new, now)) >= Limit
  <2>1. Len(c \o new) = Limit
    BY <1>7, <1>11, <1>12
  <2>2. ASSUME NEW i \in 1 .. Limit PROVE now < (c \o new)[i] + Window
    <3>1. i \in 1 .. Len(c) + m
      BY <1>7, <1>12
    <3>2. CASE i <= Len(c)
      <4>1. e + i \in e + 1 .. Len(l.times) /\ i \in 1 .. Len(l.times) - e
        BY <3>2, <1>4, <1>6
      <4>2. c[i] = l.times[e + i] /\ l.times[e + i] + Window > now /\ c[i] \in Nat
        BY <4>1, <1>4, SMTT(40)
      <4>3. QED
        BY <3>1, <3>2, <4>2, <1>11, <1>1
    <3>3. CASE ~ (i <= Len(c))
      BY <3>1, <3>3, <1>11, <1>1, SMTT(40)
    <3>4. QED
      BY <3>2, <3>3
  <2>3. r.times = c \o new
    OBVIOUS
  <2> HIDE DEF new, a, r
  <2>4. QED
    BY <2>1, <2>2, <2>3, <1>1, <1>10, FullWindow
<1>13. r \in [times : Seq(Nat), last : Nat, known : BOOLEAN]
  BY <1>10, <1>1
<1>14. QED
  BY <1>7, <1>9, <1>10, <1>11, <1>12, <1>13 DEF m

(* Every step keeps WindowInv.                                             *)
LEMMA WindowStep == ASSUME BoundAssumption, TypeOK, WindowInv, [Next]_vars PROVE WindowInv'
<1>1. ASSUME NEW p \in Peers, NEW k \in 1 .. MaxBatch, Receive(p, k) PROVE WindowInv'
  <2>1. now' = now /\ admitted \in [Peers -> Seq(Nat)]
    BY <1>1 DEF Receive, TypeOK
  <2>2. ASSUME NEW q \in Peers
        PROVE  /\ Tracked(admitted'[q], limiter'[q], now) /\ Spaced(admitted'[q])
               /\ \A r \in refused'[q] : Cardinality(Within(admitted'[q], r.at)) >= Limit
    <3>1. CASE q # p
      <4>1. admitted'[q] = admitted[q] /\ limiter'[q] = limiter[q] /\ refused'[q] = refused[q]
        BY <1>1, <3>1 DEF Receive, CheckRateLimit, TypeOK
      <4>2. QED
        BY <4>1 DEF WindowInv
    <3>2. CASE q = p
      <4>1. /\ Tracked(admitted'[p], limiter'[p], now) /\ Spaced(admitted'[p])
            /\ Passes(p, k) # k => Cardinality(Within(admitted'[p], now)) >= Limit
            /\ admitted'[p] = admitted[p] \o Stamped(Passes(p, k))
            /\ Passes(p, k) \in Nat
        BY <1>1, ReceiveWindow
      <4>2. ASSUME NEW r \in refused'[p] PROVE Cardinality(Within(admitted'[p], r.at)) >= Limit
        <5>1. r \in refused[p] \/ (Passes(p, k) # k /\ r.at = now)
          BY <1>1 DEF Receive, TypeOK
        <5>2. CASE r \in refused[p]
          <6>1. r.at \in Nat /\ admitted[p] \in Seq(Nat) /\ Limit \in Nat /\ now \in Nat
            BY <5>2 DEF TypeOK, Refusals, BoundAssumption
          <6>2. Stamped(Passes(p, k)) \in Seq(Nat)
            BY <4>1, <6>1, StampedIs
          <6>3. Cardinality(Within(admitted[p], r.at)) >= Limit
            BY <5>2 DEF WindowInv
          <6>4. Cardinality(Within(admitted[p], r.at)) \in Nat
                /\ Cardinality(Within(admitted'[p], r.at)) \in Nat
            BY <4>1, <6>1, <6>2, WithinFinite, ConcatProperties
          <6>5. QED
            BY <4>1, <6>1, <6>2, <6>3, <6>4, WithinGrows
        <5>3. CASE Passes(p, k) # k /\ r.at = now
          BY <4>1, <5>3
        <5>4. QED
          BY <5>1, <5>2, <5>3
      <4>3. QED
        BY <4>1, <4>2, <3>2
    <3>3. QED
      BY <3>1, <3>2
  <2>3. QED
    BY <2>1, <2>2 DEF WindowInv
<1>2. CASE Tick
  <2>1. now' = now + 1 /\ UNCHANGED <<limiter, admitted, refused>> /\ now \in Nat
    BY <1>2 DEF Tick, TypeOK
  <2>2. ASSUME NEW p \in Peers PROVE Tracked(admitted[p], limiter[p], now + 1)
    <3>1. admitted[p] \in Seq(Nat) /\ limiter[p].last \in Nat
      BY DEF TypeOK
    <3>2. \A i \in 1 .. Len(admitted[p]) : admitted[p][i] \in Nat
      BY <3>1
    <3>3. Tracked(admitted[p], limiter[p], now) /\ Len(admitted[p]) \in Nat
          /\ Len(limiter[p].times) \in Nat /\ Window \in Nat
      BY <3>1 DEF WindowInv, TypeOK, BoundAssumption
    <3> DEFINE a == admitted[p]
              l == limiter[p]
              n == Len(a)
              k == Len(l.times)
    <3>4. /\ \A i \in 1 .. n - k : a[i] + Window <= now
          /\ \A i \in 1 .. n : a[i] <= now
          /\ l.last <= now
          /\ \A i \in 1 .. k : l.times[i] = a[n - k + i] /\ l.times[i] <= l.last
          /\ k <= Limit /\ k <= n /\ Sorted(a)
      BY <3>3 DEF Tracked
    <3>5. \A x \in Int : x <= now => x <= now + 1
      BY <2>1
    <3>6. \A i \in 1 .. n - k : a[i] + Window <= now + 1
      <4>1. \A i \in 1 .. n - k : i \in 1 .. n
        BY <3>3, <3>4, AmongLast
      <4>2. QED
        BY <4>1, <3>2, <3>3, <3>4, <3>5
    <3>7. (\A i \in 1 .. n : a[i] <= now + 1) /\ l.last <= now + 1
      BY <3>1, <3>2, <3>4, <3>5
    <3>8. QED
      BY <3>4, <3>6, <3>7 DEF Tracked
  <2>3. QED
    BY <2>1, <2>2 DEF WindowInv
<1>3. CASE Cleanup
  <2>1. /\ UNCHANGED <<now, admitted, refused>> /\ now \in Nat /\ Window \in Nat /\ Limit \in Nat
        /\ \A p \in Peers : limiter'[p] = IF limiter[p].last + 2 * Window < now THEN None ELSE limiter[p]
    BY <1>3 DEF Cleanup, TypeOK, BoundAssumption
  <2>2. ASSUME NEW p \in Peers PROVE Tracked(admitted[p], limiter'[p], now)
    <3>1. CASE ~ (limiter[p].last + 2 * Window < now)
      BY <2>1, <3>1 DEF WindowInv
    <3>2. CASE limiter[p].last + 2 * Window < now
      <4> DEFINE a == admitted[p]
                 l == limiter[p]
                 k == Len(l.times)
      <4>1. Tracked(a, l, now) /\ a \in Seq(Nat) /\ l.last \in Nat /\ l.times \in Seq(Nat)
        BY DEF WindowInv, TypeOK
      <4>2. Len(a) \in Nat /\ k \in Nat /\ k <= Len(a) /\ \A i \in 1 .. Len(a) : a[i] \in Nat
        BY <4>1 DEF Tracked
      <4>3. ASSUME NEW i \in 1 .. Len(a) PROVE a[i] + Window <= now
        <5>1. CASE i <= Len(a) - k
          BY <5>1, <4>1, <4>2 DEF Tracked
        <5>2. CASE i > Len(a) - k
          <6> DEFINE j == i - (Len(a) - k)
          <6> HIDE DEF a, k
          <6>1. j \in 1 .. k /\ Len(a) - k + j = i
            BY <5>2, <4>2, AmongLast
          <6> HIDE DEF j
          <6>2. a[i] <= l.last
            BY <6>1, <4>1 DEF Tracked, k
          <6>3. l.last + 2 * Window < now
            BY <3>2
          <6> HIDE DEF l
          <6>4. QED
            BY <6>2, <6>3, <4>1, <4>2, <2>1, SMTT(40)
        <5>3. i <= Len(a) - k \/ i > Len(a) - k
          <6> DEFINE n == Len(a)
          <6>1. n \in Nat /\ k \in Nat /\ i \in 1 .. n
            BY <4>2
          <6> HIDE DEF n, k
          <6>2. i <= n - k \/ i > n - k
            BY <6>1
          <6>3. QED
            BY <6>2 DEF n
        <5>4. QED
          BY <5>1, <5>2, <5>3
      <4>4. limiter'[p].times = <<>> /\ limiter'[p].last = 0 /\ Len(limiter'[p].times) = 0
        BY <2>1, <3>2 DEF None
      <4>5. QED
        BY <4>1, <4>2, <4>3, <4>4, <2>1 DEF Tracked
    <3>3. QED
      BY <3>1, <3>2
  <2>3. QED
    BY <2>1, <2>2 DEF WindowInv
<1>4. ASSUME UNCHANGED <<now, limiter, admitted, refused>> PROVE WindowInv'
  BY <1>4 DEF WindowInv
<1>5. QED
  BY <1>1, <1>2, <1>3, <1>4 DEF Next, vars, Dispatch, Answer, ChannelRemoved

(* The messages of a peer that wait for their checks.                      *)
Waiting(p) == UNION {e.msgs : e \in {f \in pending : f.peer = p}}

(* The messages of a peer that passed the limiter and were not rejected,   *)
(* or not yet.                                                             *)
Seen(p) == Range(handled[p]) \cup Waiting(p)

(* What was handled of a peer was received, once, and waits no more; with  *)
(* what waits it is no more than the limiter let pass.                     *)
HandledInv(p) ==
  /\ Range(handled[p]) \subseteq 1 .. received[p] /\ IsInjective(handled[p])
  /\ Cardinality(Seen(p)) <= Len(admitted[p])
  /\ \A e \in pending : e.peer = p => e.msgs \cap Range(handled[p]) = {}

(* Envelopes hold numbers that were given out, each in one envelope.       *)
EnvelopeInv ==
  /\ \A e \in pending : e.msgs \subseteq 1 .. received[e.peer]
  /\ \A e, f \in pending : e.peer = f.peer /\ e # f => e.msgs \cap f.msgs = {}
  /\ \A p \in Peers : HandledInv(p)

(* What is left of an envelope are its messages that were not dropped.     *)
LEMMA AllowedIs ==
  ASSUME BoundAssumption, TypeOK, EnvelopeInv, NEW e \in pending
  PROVE  /\ Allowed(e) \in Seq(Nat) /\ IsInjective(Allowed(e))
         /\ Range(Allowed(e)) = e.msgs \ e.dropped
<1>1. /\ e.peer \in Peers /\ e.msgs \in SUBSET Nat /\ received[e.peer] \in Nat
      /\ e.msgs \in SUBSET (1 .. received[e.peer])
  BY DEF TypeOK, EnvelopeInv, HandledInv, Envelopes, BoundAssumption
<1>2. IsFiniteSet(1 .. received[e.peer])
  BY <1>1, FS_Interval
<1> DEFINE ms == e.msgs \ e.dropped
<1>3. ms \in SUBSET Nat /\ ms \in SUBSET (1 .. received[e.peer])
  BY <1>1
<1> HIDE DEF ms
<1>4. IsFiniteSet(ms)
  BY <1>2, <1>3, FS_Subset
<1>5. InOrder(ms) \in Seq(ms) /\ Range(InOrder(ms)) = ms /\ IsInjective(InOrder(ms))
  BY <1>3, <1>4, InOrderIsPermutation
<1>6. InOrder(ms) \in Seq(Nat)
  <2> DEFINE s == InOrder(ms)
  <2>1. s \in Seq(ms)
    BY <1>5
  <2> HIDE DEF s
  <2>2. s \in [1 .. Len(s) -> Nat] /\ Len(s) \in Nat
    BY <2>1, <1>3, LenProperties, ElementOfSeq
  <2>3. QED
    BY <2>2, IsASeq DEF s
<1>7. Allowed(e) = InOrder(ms)
  BY DEF Allowed, ms
<1>8. QED
  BY <1>5, <1>6, <1>7 DEF ms

(* A sequence without repetition that is followed by another one, of other *)
(* elements, has none either.                                              *)
LEMMA Followed ==
  ASSUME NEW s \in Seq(Nat), NEW t \in Seq(Nat), IsInjective(s), IsInjective(t),
         Range(s) \cap Range(t) = {}
  PROVE  s \o t \in Seq(Nat) /\ IsInjective(s \o t) /\ Range(s \o t) = Range(s) \cup Range(t)
<1> DEFINE n == Len(s)
           k == Len(t)
           u == s \o t
<1>1. n \in Nat /\ k \in Nat /\ DOMAIN s = 1 .. n /\ DOMAIN t = 1 .. k
  OBVIOUS
<1>2. u \in Seq(Nat) /\ Len(u) = n + k /\ DOMAIN u = 1 .. n + k
      /\ \A i \in 1 .. n + k : u[i] = IF i <= n THEN s[i] ELSE t[i - n]
  OBVIOUS
<1> HIDE DEF n, k, u
<1>3. \A i \in 1 .. n + k :
        \/ i \in 1 .. n /\ u[i] = s[i] /\ u[i] \in Range(s)
        \/ i > n /\ i - n \in 1 .. k /\ u[i] = t[i - n] /\ u[i] \in Range(t)
  <2>1. ASSUME NEW i \in 1 .. n + k, i <= n PROVE i \in 1 .. n /\ u[i] = s[i] /\ u[i] \in Range(s)
    BY <1>1, <1>2, <2>1 DEF Range
  <2>2. ASSUME NEW i \in 1 .. n + k, ~ (i <= n)
        PROVE  i > n /\ i - n \in 1 .. k /\ u[i] = t[i - n] /\ u[i] \in Range(t)
    <3>1. i > n /\ i - n \in 1 .. k
      BY <1>1, <2>2
    <3>2. u[i] = t[i - n]
      BY <1>2, <2>2
    <3>3. QED
      BY <3>1, <3>2, <1>1 DEF Range
  <2>3. QED
    BY <2>1, <2>2
<1>4. IsInjective(u)
  <2>1. ASSUME NEW i \in 1 .. n + k, NEW j \in 1 .. n + k, u[i] = u[j] PROVE i = j
    <3>1. CASE i \in 1 .. n /\ j \in 1 .. n /\ u[i] = s[i] /\ u[j] = s[j]
      BY <3>1, <2>1, <1>1 DEF IsInjective
    <3>2. CASE i - n \in 1 .. k /\ j - n \in 1 .. k /\ u[i] = t[i - n] /\ u[j] = t[j - n]
      <4>1. i - n = j - n
        BY <3>2, <2>1, <1>1 DEF IsInjective
      <4>2. QED
        BY <4>1, <1>1
    <3>3. ~ (u[i] \in Range(s) /\ u[j] \in Range(t)) /\ ~ (u[i] \in Range(t) /\ u[j] \in Range(s))
      BY <2>1
    <3>4. QED
      BY <1>3, <3>1, <3>2, <3>3
  <2>2. QED
    BY <2>1, <1>2 DEF IsInjective
<1>5. \A i \in 1 .. n : i \in 1 .. n + k /\ u[i] = s[i]
  BY <1>1, <1>2
<1>6. \A i \in 1 .. k : n + i \in 1 .. n + k /\ u[n + i] = t[i]
  <2>1. ASSUME NEW i \in 1 .. k PROVE n + i \in 1 .. n + k /\ u[n + i] = t[i]
    <3> DEFINE j == n + i
    <3>1. j \in 1 .. n + k
      BY <1>1
    <3>2. ~ (j <= n) /\ j - n = i
      BY <1>1
    <3> HIDE DEF j
    <3>4. u[j] = t[j - n]
      BY <3>1, <3>2, <1>2
    <3>3. QED
      BY <3>1, <3>2, <3>4 DEF j
  <2>2. QED
    BY <2>1
<1>7. Range(u) = Range(s) \cup Range(t)
  <2>1. \A x \in Range(u) : x \in Range(s) \cup Range(t)
    BY <1>2, <1>3 DEF Range
  <2>2. \A x \in Range(s) : x \in Range(u)
    BY <1>1, <1>2, <1>5 DEF Range
  <2>3. ASSUME NEW x \in Range(t) PROVE x \in Range(u)
    <3>1. PICK i \in 1 .. k : x = t[i]
      BY <1>1 DEF Range
    <3>2. n + i \in DOMAIN u /\ u[n + i] = x
      BY <1>2, <1>6, <3>1
    <3>3. QED
      BY <3>2 DEF Range
  <2>4. QED
    BY <2>1, <2>2, <2>3
<1>8. QED
  BY <1>2, <1>4, <1>7 DEF u

(* What was seen of a peer is finite.                                      *)
LEMMA SeenFinite ==
  ASSUME TypeOK, BoundAssumption, EnvelopeInv, NEW p \in Peers
  PROVE  /\ received[p] \in Nat /\ Seen(p) \in SUBSET (1 .. received[p])
         /\ IsFiniteSet(Seen(p)) /\ Cardinality(Seen(p)) \in Nat
<1>1. received[p] \in Nat
  BY DEF TypeOK, BoundAssumption
<1>2. Seen(p) \in SUBSET (1 .. received[p])
  BY DEF Seen, Waiting, EnvelopeInv, HandledInv
<1>3. IsFiniteSet(1 .. received[p])
  BY <1>1, FS_Interval
<1>4. QED
  BY <1>1, <1>2, <1>3, FS_Subset, FS_CardinalityType

(* Initially the limiter has let nothing pass.                             *)
LEMMA InitWindows == ASSUME BoundAssumption, Init PROVE TypeOK /\ WindowInv
<1>1. /\ Limit \in Nat /\ MaxClock \in Nat /\ MaxMessages \in Nat
      /\ now = 0 /\ gone = {} /\ pending = {}
      /\ \A p \in Peers : limiter[p] = None /\ admitted[p] = <<>> /\ refused[p] = {}
  BY DEF BoundAssumption, Init
<1>2. <<>> \in Seq(Nat) /\ Len(<<>>) = 0
  OBVIOUS
<1>3. TypeOK
  <2>1. None \in [times : Seq(Nat), last : Nat, known : BOOLEAN]
    BY DEF None
  <2>2. limiter \in [Peers -> [times : Seq(Nat), last : Nat, known : BOOLEAN]]
    BY <2>1 DEF Init
  <2>3. received \in [Peers -> 0 .. MaxMessages] /\ refused \in [Peers -> SUBSET Refusals]
    BY <1>1 DEF Init
  <2>4. handled \in [Peers -> Seq(Nat)] /\ admitted \in [Peers -> Seq(Nat)]
    BY <1>2 DEF Init
  <2>5. now \in 0 .. MaxClock /\ gone \subseteq Peers /\ pending \subseteq Envelopes
    BY <1>1
  <2>6. QED
    BY <2>2, <2>3, <2>4, <2>5 DEF TypeOK
<1>4. ASSUME NEW p \in Peers
      PROVE  Tracked(admitted[p], limiter[p], now) /\ Spaced(admitted[p])
  <2>1. limiter[p].times = <<>> /\ limiter[p].last = 0 /\ admitted[p] = <<>> /\ now = 0
    BY <1>1 DEF None
  <2>2. QED
    BY <2>1, <1>1 DEF Tracked, Spaced, Sorted
<1>5. QED
  BY <1>1, <1>3, <1>4 DEF WindowInv

(* Every step keeps the types.                                             *)
LEMMA TypeStep == ASSUME BoundAssumption, TypeOK, WindowInv, EnvelopeInv, [Next]_vars PROVE TypeOK'
<1>1. ASSUME NEW p \in Peers, NEW k \in 1 .. MaxBatch, Receive(p, k) PROVE TypeOK'
  <2> DEFINE m == Passes(p, k)
  <2>1. /\ m \in 0 .. k /\ k \in Nat /\ now \in Nat
        /\ limiter'[p] \in [times : Seq(Nat), last : Nat, known : BOOLEAN]
        /\ admitted'[p] \in Seq(Nat)
    BY <1>1, ReceiveWindow, SMTT(40) DEF TypeOK, BoundAssumption
  <2> HIDE DEF m
  <2>2. limiter' \in [Peers -> [times : Seq(Nat), last : Nat, known : BOOLEAN]]
    BY <1>1, <2>1 DEF TypeOK, Receive, CheckRateLimit
  <2>3. admitted' \in [Peers -> Seq(Nat)]
    BY <1>1, <2>1 DEF TypeOK, Receive
  <2>4. received' \in [Peers -> 0 .. MaxMessages]
    <3>1. received[p] \in Nat /\ received[p] + k <= MaxMessages /\ MaxMessages \in Nat
      BY <1>1 DEF TypeOK, Receive, BoundAssumption
    <3>2. received[p] + k \in 0 .. MaxMessages
      BY <3>1, <2>1
    <3>3. QED
      BY <1>1, <3>2 DEF TypeOK, Receive
  <2>5. refused' \in [Peers -> SUBSET Refusals]
    <3>1. [at |-> now, size |-> k, passed |-> m] \in Refusals
      BY <2>1 DEF Refusals
    <3>2. QED
      BY <1>1, <3>1 DEF TypeOK, Receive, m
  <2>6. pending' \subseteq Envelopes
    <3> DEFINE ms == received[p] + 1 .. received[p] + m
    <3>1. received[p] \in Nat
      BY DEF TypeOK, BoundAssumption
    <3>2. ms \in SUBSET Nat
      BY <3>1, <2>1
    <3>3. pending' = pending \/ pending' = pending \cup {[peer |-> p, msgs |-> ms, open |-> ms, dropped |-> {}]}
      BY <1>1 DEF Receive, m
    <3> HIDE DEF ms
    <3>4. [peer |-> p, msgs |-> ms, open |-> ms, dropped |-> {}] \in Envelopes
      BY <3>2 DEF Envelopes
    <3>5. QED
      BY <3>3, <3>4 DEF TypeOK
  <2>7. QED
    BY <1>1, <2>2, <2>3, <2>4, <2>5, <2>6 DEF TypeOK, Receive
<1>2. ASSUME NEW e \in pending, NEW m \in e.open, Answer(e, m) PROVE TypeOK'
  <2>1. e \in Envelopes /\ m \in Nat
    BY DEF TypeOK, Envelopes
  <2>2. ASSUME NEW d \in {{}, {m}}
        PROVE  [e EXCEPT !.open = @ \ {m}, !.dropped = @ \cup d] \in Envelopes
    BY <2>1 DEF Envelopes
  <2>3. pending' \subseteq Envelopes
    BY <1>2, <2>2 DEF Answer, TypeOK
  <2>4. QED
    BY <1>2, <2>3 DEF Answer, TypeOK
<1>3. ASSUME NEW e \in pending, Dispatch(e) PROVE TypeOK'
  <2>1. e \in Envelopes
    BY DEF TypeOK
  <2>2. handled' \in [Peers -> Seq(Nat)]
    <3>1. CASE e.peer \in gone
      BY <1>3, <3>1 DEF Dispatch, TypeOK
    <3>2. CASE e.peer \notin gone
      <4>1. handled[e.peer] \in Seq(Nat) /\ handled' = [handled EXCEPT ![e.peer] = @ \o Allowed(e)]
        BY <1>3, <3>2, <2>1 DEF Dispatch, TypeOK, Envelopes
      <4>2. Allowed(e) \in Seq(Nat)
        BY AllowedIs
      <4>3. handled[e.peer] \o Allowed(e) \in Seq(Nat)
        BY <4>1, <4>2, ConcatProperties
      <4>4. QED
        BY <4>1, <4>3 DEF TypeOK
    <3>3. QED
      BY <3>1, <3>2
  <2>3. QED
    BY <1>3, <2>2 DEF Dispatch, TypeOK
<1>4. ASSUME UNCHANGED <<limiter, received, pending, handled, admitted, refused>>, now' \in 0 .. MaxClock, gone' \subseteq Peers
      PROVE  TypeOK'
  BY <1>4 DEF TypeOK
<1>5. CASE Cleanup
  <2>1. None \in [times : Seq(Nat), last : Nat, known : BOOLEAN]
    BY DEF None
  <2>2. limiter' \in [Peers -> [times : Seq(Nat), last : Nat, known : BOOLEAN]]
    BY <1>5, <2>1 DEF Cleanup, TypeOK
  <2>3. QED
    BY <1>5, <2>2 DEF Cleanup, TypeOK
<1>6. CASE Tick
  <2>1. now' \in 0 .. MaxClock
    BY <1>6 DEF Tick, TypeOK, BoundAssumption
  <2>2. QED
    BY <1>6, <1>4, <2>1 DEF Tick, TypeOK
<1>7. ASSUME NEW p \in Peers, ChannelRemoved(p) PROVE TypeOK'
  BY <1>7, <1>4 DEF ChannelRemoved, TypeOK
<1>8. CASE UNCHANGED vars
  BY <1>8, <1>4 DEF vars, TypeOK
<1>9. QED
  BY <1>1, <1>2, <1>3, <1>5, <1>6, <1>7, <1>8 DEF Next

(* A received batch gets numbers that were not given out before.           *)
LEMMA EnvelopeReceive ==
  ASSUME BoundAssumption, TypeOK, WindowInv, EnvelopeInv,
         NEW p \in Peers, NEW k \in 1 .. MaxBatch, Receive(p, k)
  PROVE  EnvelopeInv'
<1> DEFINE m == Passes(p, k)
           r == received[p]
           ms == r + 1 .. r + m
           env == [peer |-> p, msgs |-> ms, open |-> ms, dropped |-> {}]
<1>1. /\ m \in 0 .. k /\ m \in Nat /\ k \in Nat /\ r \in Nat /\ Len(admitted[p]) \in Nat
      /\ Len(admitted'[p]) = Len(admitted[p]) + m
  <2>1. m \in 0 .. k /\ Len(admitted'[p]) = Len(admitted[p]) + m
    BY ReceiveWindow
  <2> HIDE DEF m
  <2>2. k \in Nat /\ r \in Nat /\ Len(admitted[p]) \in Nat
    BY DEF TypeOK, BoundAssumption
  <2>3. QED
    BY <2>1, <2>2
<1>2. /\ received'[p] = r + k /\ handled' = handled
      /\ \A q \in Peers : q # p => received'[q] = received[q] /\ admitted'[q] = admitted[q]
      /\ pending' = pending \/ pending' = pending \cup {env}
  BY DEF Receive, TypeOK
<1> HIDE DEF m, r, ms
<1>3. /\ 1 .. r \subseteq 1 .. r + k /\ ms \subseteq 1 .. r + k /\ ms \cap (1 .. r) = {}
      /\ IsFiniteSet(ms) /\ Cardinality(ms) = m
  <2>1. ms = r + 1 .. r + m /\ r + 1 \in Int /\ r + m \in Int
    BY <1>1 DEF ms
  <2>2. IsFiniteSet(ms) /\ Cardinality(ms) = m
    BY <1>1, <2>1, FS_Interval
  <2>3. QED
    BY <1>1, <2>1, <2>2
<1>4. r = received[p]
  BY DEF r
<1>5. \A e \in pending : e.msgs \subseteq 1 .. received[e.peer] /\ e.peer \in Peers
  BY DEF EnvelopeInv, HandledInv, TypeOK, Envelopes
<1>6. env.peer = p /\ env.msgs = ms
  OBVIOUS
<1> HIDE DEF env
<1>7. \A e \in pending' : e.msgs \subseteq 1 .. received'[e.peer]
  <2>1. ASSUME NEW e \in pending PROVE e.msgs \subseteq 1 .. received'[e.peer]
    <3>1. CASE e.peer = p
      BY <3>1, <1>2, <1>3, <1>4, <1>5
    <3>2. CASE e.peer # p
      BY <3>2, <1>2, <1>5
    <3>3. QED
      BY <3>1, <3>2
  <2>2. env.msgs \subseteq 1 .. received'[env.peer]
    BY <1>2, <1>3, <1>6
  <2>3. QED
    BY <2>1, <2>2, <1>2
<1>8. \A e, f \in pending' : e.peer = f.peer /\ e # f => e.msgs \cap f.msgs = {}
  <2>1. \A e \in pending : e.peer = p => e.msgs \cap ms = {}
    BY <1>3, <1>4, <1>5
  <2>2. \A e, f \in pending : e.peer = f.peer /\ e # f => e.msgs \cap f.msgs = {}
    BY DEF EnvelopeInv, HandledInv
  <2>3. QED
    BY <2>1, <2>2, <1>2, <1>6
<1>9. ASSUME NEW q \in Peers
      PROVE  /\ Range(handled'[q]) \subseteq 1 .. received'[q] /\ IsInjective(handled'[q])
             /\ Cardinality(Seen(q)') <= Len(admitted'[q])
             /\ \A e \in pending' : e.peer = q => e.msgs \cap Range(handled'[q]) = {}
  <2>1. HandledInv(q)
    BY DEF EnvelopeInv, HandledInv
  <2>2. CASE q # p
    <3>1. Seen(q)' = Seen(q)
      BY <2>2, <1>2, <1>6 DEF Seen, Waiting
    <3>2. \A e \in pending' : e.peer = q => e \in pending
      BY <2>2, <1>2, <1>6
    <3>3. QED
      BY <2>1, <2>2, <3>1, <3>2, <1>2 DEF HandledInv
  <2>3. CASE q = p
    <3>1. Seen(p)' \in SUBSET (Seen(p) \cup ms)
      BY <1>2, <1>6 DEF Seen, Waiting
    <3>2. IsFiniteSet(Seen(p)) /\ Cardinality(Seen(p)) \in Nat
      BY SeenFinite
    <3>3. IsFiniteSet(Seen(p) \cup ms) /\ Cardinality(Seen(p) \cup ms) <= Cardinality(Seen(p)) + m
      <4>1. /\ IsFiniteSet(Seen(p) \cup ms) /\ IsFiniteSet(Seen(p) \cap ms)
            /\ Cardinality(Seen(p) \cup ms)
                 = Cardinality(Seen(p)) + Cardinality(ms) - Cardinality(Seen(p) \cap ms)
        BY <3>2, <1>3, FS_Union, FS_Intersection
      <4>2. Cardinality(Seen(p) \cap ms) \in Nat
        BY <4>1, FS_CardinalityType
      <4>3. QED
        BY <4>1, <4>2, <3>2, <1>3, <1>1
    <3>4. IsFiniteSet(Seen(p)') /\ Cardinality(Seen(p)') <= Cardinality(Seen(p) \cup ms)
      BY <3>1, <3>3, FS_Subset
    <3>5. Cardinality(Seen(p)') \in Nat /\ Cardinality(Seen(p) \cup ms) \in Nat
      BY <3>3, <3>4, FS_CardinalityType
    <3>6. Cardinality(Seen(p)') <= Len(admitted'[p])
      BY <1>1, <2>1, <2>3, <3>2, <3>3, <3>4, <3>5 DEF HandledInv
    <3>7. /\ \A e \in pending : e.peer = p => e.msgs \cap Range(handled[p]) = {}
          /\ ms \cap Range(handled[p]) = {} /\ Range(handled[p]) \subseteq 1 .. r
      BY <2>1, <2>3, <1>3, <1>4 DEF HandledInv
    <3>8. \A e \in pending' : e.peer = p => e.msgs \cap Range(handled[p]) = {}
      BY <3>7, <1>2, <1>6
    <3>9. IsInjective(handled[p]) /\ Range(handled[p]) \subseteq 1 .. r + k
      BY <3>7, <1>3, <2>1, <2>3 DEF HandledInv
    <3>10. QED
      BY <2>3, <3>6, <3>8, <3>9, <1>2
  <2>4. QED
    BY <2>2, <2>3
<1>10. QED
  BY <1>7, <1>8, <1>9 DEF EnvelopeInv, HandledInv

(* An answer changes no envelope's numbers.                                *)
LEMMA EnvelopeAnswer ==
  ASSUME BoundAssumption, TypeOK, EnvelopeInv, NEW e \in pending, NEW m, Answer(e, m)
  PROVE  EnvelopeInv'
<1>1. PICK d \in {{}, {m}} :
        pending' = (pending \ {e}) \cup {[e EXCEPT !.open = @ \ {m}, !.dropped = @ \cup d]}
  BY DEF Answer
<1> DEFINE f == [e EXCEPT !.open = @ \ {m}, !.dropped = @ \cup d]
<1>2. f.peer = e.peer /\ f.msgs = e.msgs /\ e \in Envelopes
  BY DEF TypeOK, Envelopes
<1>3. pending' = (pending \ {e}) \cup {f} /\ UNCHANGED <<received, handled, admitted>>
  BY <1>1 DEF Answer
<1> HIDE DEF f
<1>4. \A p \in Peers : Seen(p)' = Seen(p)
  <2>1. ASSUME NEW p \in Peers PROVE Waiting(p)' = Waiting(p)
    <3>1. \A x : x \in Waiting(p)' => x \in Waiting(p)
      BY <1>2, <1>3 DEF Waiting
    <3>2. \A x : x \in Waiting(p) => x \in Waiting(p)'
      BY <1>2, <1>3 DEF Waiting
    <3>3. QED
      BY <3>1, <3>2
  <2>2. QED
    BY <2>1, <1>3 DEF Seen
<1>5. \A g \in pending' : \E o \in pending : o.peer = g.peer /\ o.msgs = g.msgs
  BY <1>2, <1>3
<1>6. \A g, o \in pending' : g.peer = o.peer /\ g # o => g.msgs \cap o.msgs = {}
  BY <1>2, <1>3 DEF EnvelopeInv, HandledInv
<1>7. QED
  BY <1>3, <1>4, <1>5, <1>6 DEF EnvelopeInv, HandledInv

(* What is dispatched leaves its envelope for good.                        *)
LEMMA EnvelopeDispatch ==
  ASSUME BoundAssumption, TypeOK, EnvelopeInv, NEW e \in pending, Dispatch(e)
  PROVE  EnvelopeInv'
<1>1. pending' = pending \ {e} /\ UNCHANGED <<received, admitted>> /\ e.peer \in Peers
  BY DEF Dispatch, TypeOK, Envelopes
<1>2. /\ \A f \in pending' : f.msgs \subseteq 1 .. received'[f.peer]
      /\ \A f, g \in pending' : f.peer = g.peer /\ f # g => f.msgs \cap g.msgs = {}
  BY <1>1 DEF EnvelopeInv, HandledInv
<1>3. ASSUME NEW q \in Peers
      PROVE  /\ Range(handled'[q]) \subseteq 1 .. received'[q] /\ IsInjective(handled'[q])
             /\ Cardinality(Seen(q)') <= Len(admitted'[q])
             /\ \A f \in pending' : f.peer = q => f.msgs \cap Range(handled'[q]) = {}
  <2>1. HandledInv(q)
    BY DEF EnvelopeInv, HandledInv
  <2>2. IsFiniteSet(Seen(q)) /\ Cardinality(Seen(q)) \in Nat /\ Len(admitted[q]) \in Nat
    BY SeenFinite DEF TypeOK
  <2>3. CASE handled'[q] = handled[q]
    <3>1. Seen(q)' \in SUBSET Seen(q)
      BY <2>3, <1>1 DEF Seen, Waiting
    <3>2. IsFiniteSet(Seen(q)') /\ Cardinality(Seen(q)') <= Cardinality(Seen(q))
      BY <2>2, <3>1, FS_Subset
    <3>3. Cardinality(Seen(q)') \in Nat
      BY <3>2, FS_CardinalityType
    <3>4. Cardinality(Seen(q)') <= Len(admitted'[q])
      BY <2>1, <2>2, <3>2, <3>3, <1>1 DEF HandledInv
    <3>5. QED
      BY <2>1, <2>3, <3>4, <1>1 DEF HandledInv
  <2>4. CASE q = e.peer /\ handled'[q] = handled[q] \o Allowed(e)
    <3>1. /\ Allowed(e) \in Seq(Nat) /\ IsInjective(Allowed(e))
          /\ Range(Allowed(e)) = e.msgs \ e.dropped
      BY AllowedIs
    <3>2. /\ handled[q] \in Seq(Nat) /\ IsInjective(handled[q])
          /\ e.msgs \cap Range(handled[q]) = {}
          /\ e.msgs \subseteq 1 .. received[q] /\ Range(handled[q]) \subseteq 1 .. received[q]
      BY <2>1, <2>4 DEF HandledInv, TypeOK, EnvelopeInv
    <3> DEFINE had == handled[q]
               a == Allowed(e)
    <3> HIDE DEF had, a
    <3>3. had \in Seq(Nat) /\ a \in Seq(Nat) /\ IsInjective(had) /\ IsInjective(a) /\ Range(had) \cap Range(a) = {}
      BY <3>1, <3>2 DEF had, a
    <3>4. IsInjective(had \o a) /\ Range(had \o a) = Range(had) \cup Range(a)
      BY <3>3, Followed
    <3>5. handled'[q] = had \o a
      BY <2>4 DEF had, a
    <3>6. IsInjective(handled'[q]) /\ Range(handled'[q]) = Range(handled[q]) \cup (e.msgs \ e.dropped)
      BY <3>1, <3>4, <3>5 DEF had, a
    <3>7. Seen(q)' \in SUBSET Seen(q)
      BY <3>6, <2>4, <1>1 DEF Seen, Waiting
    <3>8. IsFiniteSet(Seen(q)') /\ Cardinality(Seen(q)') <= Cardinality(Seen(q))
      BY <2>2, <3>7, FS_Subset
    <3>9. Cardinality(Seen(q)') \in Nat
      BY <3>8, FS_CardinalityType
    <3>10. Cardinality(Seen(q)') <= Len(admitted'[q])
      BY <2>1, <2>2, <3>8, <3>9, <1>1 DEF HandledInv
    <3>11. \A f \in pending' : f.peer = q => f.msgs \cap Range(handled'[q]) = {}
      <4>1. \A f \in pending' : f.peer = q => f.msgs \cap e.msgs = {} /\ f.msgs \cap Range(handled[q]) = {}
        BY <1>1, <2>1, <2>4 DEF EnvelopeInv, HandledInv
      <4>2. QED
        BY <4>1, <3>6
    <3>12. QED
      BY <3>2, <3>6, <3>10, <3>11, <1>1
  <2>5. QED
    BY <2>3, <2>4 DEF Dispatch, TypeOK
<1>4. QED
  BY <1>2, <1>3 DEF EnvelopeInv, HandledInv

(* Every step keeps EnvelopeInv.                                           *)
LEMMA EnvelopeStep ==
  ASSUME BoundAssumption, TypeOK, WindowInv, EnvelopeInv, [Next]_vars PROVE EnvelopeInv'
<1>1. ASSUME UNCHANGED <<received, pending, handled, admitted>> PROVE EnvelopeInv'
  BY <1>1 DEF EnvelopeInv, HandledInv, Seen, Waiting
<1>2. QED
  BY <1>1, EnvelopeReceive, EnvelopeAnswer, EnvelopeDispatch
     DEF Next, vars, ChannelRemoved, Cleanup, Tick

(* Initially there is no envelope and nothing is handled.                  *)
LEMMA InitEnvelopes == ASSUME BoundAssumption, Init PROVE EnvelopeInv
<1>1. /\ pending = {}
      /\ \A p \in Peers : received[p] = 0 /\ handled[p] = <<>> /\ admitted[p] = <<>>
  BY DEF Init
<1>2. Range(<<>>) = {} /\ IsInjective(<<>>) /\ Len(<<>>) = 0
  BY DEF Range, IsInjective
<1>3. \A p \in Peers : Seen(p) = {}
  BY <1>1, <1>2 DEF Seen, Waiting
<1>4. Cardinality({}) = 0
  BY FS_EmptySet
<1>5. ASSUME NEW p \in Peers PROVE HandledInv(p)
  <2>1. Cardinality(Seen(p)) = 0 /\ Len(admitted[p]) = 0
    BY <1>1, <1>2, <1>3, <1>4
  <2>2. Cardinality(Seen(p)) <= Len(admitted[p])
    BY <2>1
  <2>3. QED
    BY <1>1, <1>2, <2>2 DEF HandledInv
<1>6. QED
  BY <1>1, <1>5 DEF EnvelopeInv, HandledInv

(* The inductive invariant.                                                *)
IInv == TypeOK /\ WindowInv /\ EnvelopeInv

(* It holds in every reachable state.                                      *)
LEMMA Invariant == ASSUME BoundAssumption PROVE Spec => []IInv
<1>1. Init => IInv
  BY InitWindows, InitEnvelopes DEF IInv
<1>2. IInv /\ [Next]_vars => IInv'
  BY TypeStep, WindowStep, EnvelopeStep DEF IInv
<1>3. QED
  BY <1>1, <1>2, PTL DEF Spec

(* The state of the limiter and of the processor has its types.            *)
THEOREM TypeCorrect == ASSUME BoundAssumption PROVE Spec => []TypeOK
<1>1. IInv => TypeOK
  BY DEF IInv
<1>2. QED
  BY <1>1, Invariant, PTL

(* For any limit, window, batch size and clock: whatever the cleanup       *)
(* interval removed, no window has more messages of a peer than the limit  *)
(* (rate-limiter.ts:202).                                                  *)
THEOREM WindowBounded == ASSUME BoundAssumption PROVE Spec => []WindowBound
<1>1. ASSUME IInv PROVE WindowBound
  <2>1. ASSUME NEW p \in Peers PROVE admitted[p] \in Seq(Nat) /\ Spaced(admitted[p])
    BY <1>1 DEF IInv, TypeOK, WindowInv
  <2>2. \A p \in Peers : DOMAIN admitted[p] = 1 .. Len(admitted[p])
    BY <2>1
  <2>3. QED
    BY <2>1, <2>2 DEF WindowBound, Spaced
<1>2. QED
  BY <1>1, Invariant, PTL

(* For any bounds: a message is refused only when the limit was used up    *)
(* in the window before it (rate-limiter.ts:209).                          *)
THEOREM OnlyFullRefuses == ASSUME BoundAssumption PROVE Spec => []RefusedForCause
<1>1. ASSUME IInv PROVE RefusedForCause
  <2>1. ASSUME NEW p \in Peers, NEW r \in refused[p]
        PROVE  Cardinality({i \in DOMAIN admitted[p] :
                 admitted[p][i] <= r.at /\ r.at < admitted[p][i] + Window}) >= Limit
    <3>1. DOMAIN admitted[p] = 1 .. Len(admitted[p])
      BY <1>1 DEF IInv, TypeOK
    <3>2. Cardinality(Within(admitted[p], r.at)) >= Limit
      BY <1>1 DEF IInv, WindowInv
    <3>3. QED
      BY <3>1, <3>2 DEF Within
  <2>2. QED
    BY <2>1 DEF RefusedForCause
<1>2. QED
  BY <1>1, Invariant, PTL

(* A sequence without repetition has as many elements as it is long.       *)
LEMMA InjectiveLength ==
  ASSUME NEW s \in Seq(Nat), IsInjective(s)
  PROVE  IsFiniteSet(Range(s)) /\ Cardinality(Range(s)) = Len(s)
<1>1. Len(s) \in Nat /\ DOMAIN s = 1 .. Len(s) /\ s \in [1 .. Len(s) -> Range(s)]
  BY DEF Range
<1>2. IsFiniteSet(1 .. Len(s)) /\ Cardinality(1 .. Len(s)) = Len(s)
  BY <1>1, FS_Interval
<1>3. s \in Bijection(1 .. Len(s), Range(s))
  BY <1>1 DEF Bijection, Injection, Surjection, IsInjective, Range
<1>4. QED
  BY <1>2, <1>3, FS_Bijection DEF ExistsBijection

(* However late and in whatever order the checks of the messages answer:   *)
(* what is handled was let pass, once, and no message both waits and is    *)
(* handled (middleware-processor.ts:167).                                  *)
THEOREM EachHandledOnce == ASSUME BoundAssumption PROVE Spec => []HandledOnce
<1>1. ASSUME IInv PROVE HandledOnce
  <2>1. ASSUME NEW p \in Peers
        PROVE  /\ IsInjective(handled[p]) /\ Len(handled[p]) <= Len(admitted[p])
               /\ \A e \in pending : e.peer = p => e.msgs \cap Range(handled[p]) = {}
    <3>1. HandledInv(p) /\ handled[p] \in Seq(Nat) /\ Len(admitted[p]) \in Nat
      BY <1>1 DEF IInv, TypeOK, EnvelopeInv, HandledInv
    <3>2. IsFiniteSet(Seen(p)) /\ Cardinality(Seen(p)) \in Nat
      BY <1>1, SeenFinite DEF IInv
    <3>3. Range(handled[p]) \in SUBSET Seen(p)
      BY DEF Seen
    <3>4. Cardinality(Range(handled[p])) <= Cardinality(Seen(p))
      BY <3>2, <3>3, FS_Subset
    <3>5. Cardinality(Range(handled[p])) = Len(handled[p]) /\ Len(handled[p]) \in Nat
      BY <3>1, InjectiveLength DEF HandledInv
    <3>6. QED
      BY <3>1, <3>2, <3>4, <3>5 DEF HandledInv
  <2>2. QED
    BY <2>1 DEF HandledOnce
<1>2. QED
  BY <1>1, Invariant, PTL

(* A message that its check rejected, or one of an envelope with open      *)
(* checks, is not handled, whatever the other messages of its batch do     *)
(* (middleware.ts:146).                                                    *)
THEOREM NoneWhileOpen == ASSUME BoundAssumption PROVE Spec => RejectedStay
<1> DEFINE Only == \A e \in pending \ pending' : \A m \in e.msgs :
                     e.open = {} /\ (m \in e.dropped => m \notin Range(handled'[e.peer]))
<1>1. ASSUME IInv, [Next]_vars PROVE [Only]_<<handled>>
  <2>1. ASSUME NEW e \in pending, Dispatch(e) PROVE Only
    <3>1. pending \ pending' = {e} /\ e.open = {} /\ e.peer \in Peers
      BY <1>1, <2>1 DEF Dispatch, IInv, TypeOK, Envelopes
    <3>2. ASSUME NEW m \in e.msgs, m \in e.dropped PROVE m \notin Range(handled'[e.peer])
      <4>1. /\ Allowed(e) \in Seq(Nat) /\ IsInjective(Allowed(e))
            /\ Range(Allowed(e)) = e.msgs \ e.dropped
        BY <1>1, AllowedIs DEF IInv
      <4>2. /\ handled[e.peer] \in Seq(Nat) /\ IsInjective(handled[e.peer])
            /\ e.msgs \cap Range(handled[e.peer]) = {}
        BY <1>1, <3>1 DEF IInv, TypeOK, EnvelopeInv, HandledInv
      <4>3. \/ handled'[e.peer] = handled[e.peer]
            \/ handled'[e.peer] = handled[e.peer] \o Allowed(e)
        BY <1>1, <2>1, <3>1 DEF Dispatch, IInv, TypeOK
      <4>4. Range(handled[e.peer] \o Allowed(e)) = Range(handled[e.peer]) \cup (e.msgs \ e.dropped)
        BY <4>1, <4>2, Followed
      <4>5. QED
        BY <3>2, <4>2, <4>3, <4>4
    <3>3. QED
      BY <3>1, <3>2
  <2>2. UNCHANGED handled \/ \E e \in pending : Dispatch(e)
    BY <1>1 DEF Next, vars, Receive, Answer, ChannelRemoved, Cleanup, Tick
  <2>3. QED
    BY <2>1, <2>2
<1>2. QED
  BY <1>1, Invariant, PTL DEF Spec, RejectedStay
=============================================================================
