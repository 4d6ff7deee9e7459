----------------------------- MODULE MCPipeline -----------------------------
(***************************************************************************)
(* What a message meets inside one Repo and on the way to another, of      *)
(* which each behaviour is about one: the work queue of a synchronizer,    *)
(* whose imports and sends may throw in a second instance; the middleware  *)
(* in front of it; the fragments of a message that is longer than a frame, *)
(* delivered once or twice; presence on a hub with two clients, with one   *)
(* link lost, with several values while a client joins, and on a triangle; *)
(* the frames of the compatible protocol; the interceptors of an adapter;  *)
(* and a document that several Repos have, as their applications see it.   *)
(***************************************************************************)
EXTENDS Integers, Sequences, FiniteSets, FiniteSetTheorems,
        SequenceTheorems, TLAPS

CONSTANTS
  n1, n2, disk, m1, m2, m3, h, p1, p2, v1, v2, nil, A, B, S, Db, a1, a2, s1,
  net1, sto1,
  Hooks,      \* the interceptors of an adapter
  Slow,       \* those that call the next late, or not at all
  MaxHooked,  \* bound: messages they are given
  MaxAdds     \* bound: how often one is added

VARIABLES
  part,  \* what a behaviour is about
  queueQueue, queuePhase, queueCmds, queueBuffer, queueSnapshot, queueSent,
  queueMade, queueModel, queueCached, queueReplies, queueThrows,
  throwsQueue, throwsPhase, throwsCmds, throwsBuffer, throwsSnapshot,
  throwsSent, throwsMade, throwsModel, throwsCached, throwsReplies,
  throwsThrows,
  checksNow, limiter, received, pending, handled, gone, admitted, refused,
  partsSent, partsArrived, partsBatches, partsTotalBytes, partsTimers,
  partsDisposed, partsComplete, partsDropped, partsEarly,
  copiesSent, copiesArrived, copiesBatches, copiesTotalBytes, copiesTimers,
  copiesDisposed, copiesComplete, copiesDropped, copiesEarly,
  shownNow, shownStore, shownOwn, shownUp, shownSubs, shownNet, shownCount,
  shownRaced,
  ownedNow, ownedStore, ownedOwn, ownedUp, ownedSubs, ownedNet, ownedCount,
  ownedRaced,
  relayedNow, relayedStore, relayedOwn, relayedUp, relayedSubs, relayedNet,
  relayedCount, relayedRaced,
  msg, frame, read, step,
  chain, chainedChannel, held, chainedSent, count, adds,
  docs, oplog, channel, known, subs, awareness, up, net, made, deps,
  breaks, restarts, overtakes, handle, deletes, shown, calls

queueVars == <<queueQueue, queuePhase, queueCmds, queueBuffer, queueSnapshot,
               queueSent, queueMade, queueModel, queueCached,
               queueReplies, queueThrows>>
throwsVars == <<throwsQueue, throwsPhase, throwsCmds, throwsBuffer,
                throwsSnapshot, throwsSent, throwsMade,
                throwsModel, throwsCached, throwsReplies,
                throwsThrows>>
checksVars == <<checksNow, limiter, received, pending, handled, gone,
                admitted, refused>>
partsVars == <<partsSent, partsArrived, partsBatches, partsTotalBytes,
               partsTimers, partsDisposed, partsComplete,
               partsDropped, partsEarly>>
copiesVars == <<copiesSent, copiesArrived, copiesBatches, copiesTotalBytes,
                copiesTimers, copiesDisposed, copiesComplete,
                copiesDropped, copiesEarly>>
shownVars == <<shownNow, shownStore, shownOwn, shownUp, shownSubs, shownNet,
               shownCount, shownRaced>>
ownedVars == <<ownedNow, ownedStore, ownedOwn, ownedUp, ownedSubs, ownedNet,
               ownedCount, ownedRaced>>
relayedVars == <<relayedNow, relayedStore, relayedOwn, relayedUp, relayedSubs,
                 relayedNet, relayedCount, relayedRaced>>
codecVars == <<msg, frame, read, step>>
chainedVars == <<chain, chainedChannel, held, chainedSent, count, adds>>
docVars == <<docs, oplog, channel, known, subs, awareness, up, net, made, deps,
             breaks, restarts, overtakes>>
deletionVars == <<handle, deletes>>
apiVars == <<shown, calls>>
appsVars == <<docVars, deletionVars, apiVars>>
vars == <<part, queueVars, throwsVars, checksVars, partsVars, copiesVars,
               shownVars, ownedVars, relayedVars, codecVars,
               chainedVars, appsVars>>

On(x) == part = x

(* A request that is answered, data from a peer, a batch with data between *)
(* two requests, a channel that establishes.                               *)
Item(op, c) == [op |-> op, channel |-> c]
Batches ==
  {<<Item("send", n1)>>, <<Item("import", n1)>>,
   <<Item("send", n2), Item("import", n2), Item("send", disk)>>, <<Item("hello", disk)>>}

Fragments == [m \in {m1, m2, m3} |-> IF m = m3 THEN 3 ELSE 2]

Star == {<<p1, h>>, <<p2, h>>}
Triangle == Star \cup {<<p1, p2>>}

(* Strings whose lengths are at the boundaries of one and two bytes.       *)
Bytes(n) == [i \in 1 .. n |-> (i + 6) % 256]

(* Repos around a server.                                                  *)
SpokesOf(repos) == {{r, S} : r \in repos \ {S}}
ClientsInitiate(repos) == {<<r, S>> : r \in repos \ {S}}
AuthorOf(ops) == [o \in ops |-> IF o = s1 THEN S ELSE A]
KindOf(some) == [c \in some |-> IF c = net1 THEN "network" ELSE "storage"]

-----------------------------------------------------------------------------
(* The interceptors of an adapter, and what is proved of them; the other   *)
(* members of which something is proved have their proofs beside them.     *)
Chained == INSTANCE Interceptors WITH
  Names <- Hooks, Delaying <- Slow, MaxMessages <- MaxHooked,
  MaxAdds <- MaxAdds, Risks <- {}, channel <- chainedChannel, sent <- chainedSent

(* What the chain holds, and what the channel is given.                    *)
Hooked == [nr : Nat, at : Nat, seen : Seq(Hooks), due : SUBSET Hooks]
Given == [nr : Nat, seen : Seq(Hooks), due : SUBSET Hooks]

(* A message that an interceptor holds saw the chain up to that one. *)
Underway(m) ==
  /\ m.nr <= count /\ m.at \in 1 .. Len(chain) + 1
  /\ m.seen = SubSeq(chain, 1, m.at - 1) /\ m.due = Chained!Range(chain)

(* The inductive invariant of the chain: it has an interceptor once; a     *)
(* message that is held saw the chain up to an interceptor that delays,    *)
(* and the chain has not changed since; no message is twice in what is     *)
(* held and sent.                                                          *)
ChainInv ==
  /\ chain \in Seq(Hooks) /\ Chained!IsInjective(chain) /\ chainedChannel \in BOOLEAN
  /\ count \in Nat /\ held \subseteq Hooked /\ chainedSent \in Seq(Given)
  /\ \A m \in held : Underway(m) /\ Chained!Range(m.seen) \cap Slow # {}
  /\ \A m, o \in held : m.nr = o.nr => m = o
  /\ \A m \in held : \A k \in DOMAIN chainedSent : chainedSent[k].nr # m.nr
  /\ \A k \in DOMAIN chainedSent : chainedSent[k].nr <= count
  /\ Chained!PassesAll

(* The beginning of a sequence without repetitions.                        *)
LEMMA PrefixIs ==
  ASSUME NEW X, NEW s \in Seq(X), Chained!IsInjective(s), NEW n \in 0 .. Len(s)
  PROVE  /\ SubSeq(s, 1, n) \in Seq(X) /\ Chained!IsInjective(SubSeq(s, 1, n))
         /\ \A i \in 1 .. n : s[i] \in Chained!Range(SubSeq(s, 1, n))
         /\ SubSeq(s, 1, Len(s)) = s
<1>1. /\ SubSeq(s, 1, n) \in Seq(X) /\ DOMAIN SubSeq(s, 1, n) = 1 .. n
      /\ \A i \in 1 .. n : SubSeq(s, 1, n)[i] = s[i]
  OBVIOUS
<1>2. 1 .. n \subseteq DOMAIN s
  OBVIOUS
<1>3. Chained!IsInjective(SubSeq(s, 1, n))
  BY <1>1, <1>2 DEF Chained!IsInjective
<1>4. SubSeq(s, 1, Len(s)) = s
  OBVIOUS
<1>5. QED
  BY <1>1, <1>3, <1>4 DEF Chained!Range

(* A chain with one interceptor more has none twice.                       *)
LEMMA AddedIs ==
  ASSUME NEW s \in Seq(Hooks), Chained!IsInjective(s), NEW i \in Hooks, i \notin Chained!Range(s)
  PROVE  Append(s, i) \in Seq(Hooks) /\ Chained!IsInjective(Append(s, i))
<1> DEFINE a == Append(s, i)
           n == Len(s)
<1>1. /\ a \in Seq(Hooks) /\ DOMAIN a = 1 .. n + 1 /\ n \in Nat /\ DOMAIN s = 1 .. n
      /\ (\A j \in 1 .. n : a[j] = s[j]) /\ a[n + 1] = i
  BY AppendProperties
<1> HIDE DEF a, n
<1>2. \A j \in 1 .. n + 1 : j \in 1 .. n \/ j = n + 1
  BY <1>1
<1>3. \A j \in 1 .. n : s[j] # i
  BY <1>1 DEF Chained!Range
<1>4. Chained!IsInjective(a)
  BY <1>1, <1>2, <1>3 DEF Chained!IsInjective
<1>5. QED
  BY <1>1, <1>4 DEF a

(* A chain with one interceptor less has none twice either.                *)
LEMMA RemovedIs ==
  ASSUME NEW s \in Seq(Hooks), Chained!IsInjective(s), NEW j \in DOMAIN s
  PROVE  Chained!RemoveAt(s, j) \in Seq(Hooks) /\ Chained!IsInjective(Chained!RemoveAt(s, j))
<1> DEFINE p == SubSeq(s, 1, j - 1)
           q == SubSeq(s, j + 1, Len(s))
           a == p \o q
           n == Len(s)
<1>1. n \in Nat /\ j \in 1 .. n /\ DOMAIN s = 1 .. n
  OBVIOUS
<1>2. /\ p \in Seq(Hooks) /\ Len(p) = j - 1 /\ \A i \in 1 .. j - 1 : p[i] = s[i]
  <2>1. 1 \in 1 .. n + 1 /\ j - 1 \in 0 .. n /\ 1 <= j - 1 + 1
    BY <1>1
  <2>2. QED
    BY <1>1, <2>1
<1>3. /\ q \in Seq(Hooks) /\ Len(q) = n - j /\ \A i \in 1 .. n - j : q[i] = s[j + i]
  BY <1>1
<1>4. /\ a \in Seq(Hooks) /\ DOMAIN a = 1 .. n - 1
      /\ \A i \in 1 .. n - 1 : a[i] = IF i < j THEN s[i] ELSE s[i + 1]
  <2>1. a \in Seq(Hooks) /\ Len(a) = Len(p) + Len(q) /\ \A i \in 1 .. Len(p) + Len(q) : a[i] = IF i <= Len(p) THEN p[i] ELSE q[i - Len(p)]
    BY <1>2, <1>3, ConcatProperties
  <2> HIDE DEF p, q, a, n
  <2>2. Len(p) + Len(q) = n - 1
    BY <1>1, <1>2, <1>3
  <2>3. ASSUME NEW i \in 1 .. n - 1 PROVE a[i] = IF i < j THEN s[i] ELSE s[i + 1]
    <3>1. CASE i < j
      <4>1. i <= Len(p) /\ i \in 1 .. j - 1
        BY <3>1, <1>1, <1>2
      <4>2. QED
        BY <4>1, <3>1, <1>2, <2>1, <2>2
    <3>2. CASE ~ (i < j)
      <4> DEFINE x == i - (j - 1)
      <4>1. ~ (i <= Len(p)) /\ x \in 1 .. n - j /\ j + x = i + 1 /\ i - Len(p) = x
        BY <3>2, <1>1, <1>2
      <4> HIDE DEF x
      <4>2. a[i] = q[x]
        BY <4>1, <2>1, <2>2
      <4>3. q[x] = s[i + 1]
        BY <4>1, <1>3
      <4>4. QED
        BY <3>2, <4>2, <4>3
    <3>3. QED
      BY <3>1, <3>2
  <2>4. QED
    BY <2>1, <2>2, <2>3
<1> HIDE DEF p, q, a, n
<1>5. ASSUME NEW i \in 1 .. n - 1, NEW k \in 1 .. n - 1, a[i] = a[k] PROVE i = k
  <2>1. i \in 1 .. n /\ k \in 1 .. n /\ i + 1 \in 1 .. n /\ k + 1 \in 1 .. n
    BY <1>1
  <2>2. \A x, y \in 1 .. n : s[x] = s[y] => x = y
    BY <1>1 DEF Chained!IsInjective
  <2> DEFINE x == IF i < j THEN i ELSE i + 1
             y == IF k < j THEN k ELSE k + 1
  <2>3. x \in 1 .. n /\ y \in 1 .. n /\ a[i] = s[x] /\ a[k] = s[y]
    BY <2>1, <1>4
  <2>4. x = y
    <3> HIDE DEF x, y
    <3> QED
      BY <2>2, <2>3, <1>5
  <2>5. QED
    BY <2>4, <1>1
<1>6. Chained!IsInjective(a)
  BY <1>4, <1>5 DEF Chained!IsInjective
<1>7. Chained!RemoveAt(s, j) = a
  BY DEF Chained!RemoveAt, a, p, q, n
<1>8. QED
  BY <1>4, <1>6, <1>7

(* A message runs on where it stood, so that it saw the chain from its     *)
(* beginning.                                                              *)
LEMMA RanIs ==
  ASSUME chain \in Seq(Hooks), NEW m \in Hooked, m.at \in 1 .. Len(chain) + 1,
         m.seen = SubSeq(chain, 1, m.at - 1), NEW here \in m.at - 1 .. Len(chain)
  PROVE  /\ Chained!Ran(m, here) \in Hooked
         /\ Chained!Ran(m, here).nr = m.nr /\ Chained!Ran(m, here).due = m.due
         /\ Chained!Ran(m, here).at = here + 1 /\ Chained!Ran(m, here).seen = SubSeq(chain, 1, here)
<1> DEFINE a == m.at - 1
<1>1. Len(chain) \in Nat /\ a \in 0 .. Len(chain) /\ m.at = a + 1 /\ here \in a .. Len(chain)
  OBVIOUS
<1>2. m.seen \o SubSeq(chain, m.at, here) = SubSeq(chain, 1, here)
  <2> HIDE DEF a
  <2>1. SubSeq(chain, 1, a) \o SubSeq(chain, a + 1, here) = SubSeq(chain, 1, here)
    <3>1. 1 \in 1 .. Len(chain) + 1 /\ a \in 1 - 1 .. Len(chain)
      BY <1>1
    <3>2. QED
      BY <3>1, <1>1, ConcatAdjacentSubSeq
  <2>2. m.seen = SubSeq(chain, 1, a)
    BY DEF a
  <2>3. QED
    BY <2>1, <2>2, <1>1
<1>3. SubSeq(chain, 1, here) \in Seq(Hooks) /\ here + 1 \in Nat
  BY <1>1
<1>4. Chained!Ran(m, here) = [nr |-> m.nr, at |-> here + 1, seen |-> SubSeq(chain, 1, here), due |-> m.due]
  <2>1. m = [nr |-> m.nr, at |-> m.at, seen |-> m.seen, due |-> m.due]
    BY DEF Hooked
  <2>2. Chained!Ran(m, here) = [m EXCEPT !.at = here + 1, !.seen = SubSeq(chain, 1, here)]
    BY <1>2, <2>1 DEF Chained!Ran
  <2>3. QED
    BY <2>1, <2>2
<1>5. QED
  BY <1>3, <1>4 DEF Hooked

(* runChain keeps the invariant: what reaches the channel saw all of the   *)
(* chain, and what none delayed is the latest message.                     *)
LEMMA ChainRuns ==
  ASSUME ChainInv, NEW m \in Hooked, NEW rest \in SUBSET held,
         Chained!RunChain(m, rest), UNCHANGED <<chain, chainedChannel>>, count' \in Nat, count <= count',
         m.nr <= count', m.at \in 1 .. Len(chain) + 1,
         m.seen = SubSeq(chain, 1, m.at - 1), m.due = Chained!Range(chain),
         \A o \in rest : o.nr # m.nr, \A k \in DOMAIN chainedSent : chainedSent[k].nr # m.nr,
         (\A k \in DOMAIN chainedSent : chainedSent[k].nr < m.nr) \/ Chained!Range(m.seen) \cap Slow # {}
  PROVE  ChainInv'
<1>1. /\ chain \in Seq(Hooks) /\ Chained!IsInjective(chain) /\ chainedChannel \in BOOLEAN
      /\ count \in Nat /\ held \subseteq Hooked /\ chainedSent \in Seq(Given)
      /\ \A o \in held : Underway(o) /\ Chained!Range(o.seen) \cap Slow # {}
      /\ \A o, p \in held : o.nr = p.nr => o = p
      /\ \A o \in held : \A k \in DOMAIN chainedSent : chainedSent[k].nr # o.nr
      /\ \A k \in DOMAIN chainedSent : chainedSent[k].nr <= count
      /\ Chained!PassesAll
  BY DEF ChainInv
<1>2. \A o \in held : Underway(o)'
  <2>1. ASSUME NEW o \in held PROVE Underway(o)'
    <3>1. Underway(o) /\ o.nr \in Nat
      BY <1>1 DEF Hooked
    <3>2. QED
      BY <3>1, <1>1 DEF Underway
  <2>2. QED
    BY <2>1
<1>3. \A k \in DOMAIN chainedSent : chainedSent[k].nr \in Nat /\ chainedSent[k].nr <= count'
  <2>1. ASSUME NEW k \in DOMAIN chainedSent PROVE chainedSent[k].nr \in Nat
    <3>1. chainedSent[k] \in Given
      BY <1>1, ElementOfSeq
    <3>2. QED
      BY <3>1 DEF Given
  <2>2. ASSUME NEW k \in DOMAIN chainedSent PROVE chainedSent[k].nr <= count'
    BY <2>1, <1>1
  <2>3. QED
    BY <2>1, <2>2
<1>4. Len(chain) \in Nat /\ m.at - 1 <= Len(chain) /\ m.at - 1 \in Nat /\ m.nr \in Nat
  BY <1>1 DEF Hooked
<1>5. CASE Chained!Stops(m.at) = {} /\ chainedSent' = Chained!DoSend(Chained!Ran(m, Len(chain))) /\ held' = rest
  <2> DEFINE r == Chained!Ran(m, Len(chain))
             g == [nr |-> r.nr, seen |-> r.seen, due |-> r.due]
             n == Len(chainedSent)
  <2>1. r \in Hooked /\ r.nr = m.nr /\ r.due = Chained!Range(chain) /\ r.seen = chain
    <3>1. Len(chain) \in m.at - 1 .. Len(chain) /\ SubSeq(chain, 1, Len(chain)) = chain
      BY <1>4, <1>1
    <3>2. QED
      BY <3>1, <1>1, RanIs
  <2> HIDE DEF r
  <2>2. g \in Given /\ g.nr = m.nr /\ g.due = Chained!Range(chain) /\ g.seen = chain
    BY <2>1 DEF Hooked, Given
  <2> HIDE DEF g
  <2>3. CASE chainedChannel
    <3>1. chainedSent' = Append(chainedSent, g)
      BY <1>5, <2>3 DEF Chained!DoSend, r, g
    <3>2. /\ chainedSent' \in Seq(Given) /\ DOMAIN chainedSent' = 1 .. n + 1 /\ n \in Nat /\ DOMAIN chainedSent = 1 .. n
          /\ (\A k \in 1 .. n : chainedSent'[k] = chainedSent[k]) /\ chainedSent'[n + 1] = g
      BY <3>1, <1>1, <2>2, AppendProperties
    <3> HIDE DEF n
    <3>3. \A k \in 1 .. n + 1 : k \in 1 .. n \/ k = n + 1
      BY <3>2
    <3>4. Chained!PassesAll'
      <4>1. ASSUME NEW k \in 1 .. n + 1
            PROVE  chainedSent'[k].due \subseteq Chained!Range(chainedSent'[k].seen) /\ Chained!IsInjective(chainedSent'[k].seen)
        <5>1. CASE k \in 1 .. n
          BY <5>1, <3>2, <1>1 DEF Chained!PassesAll
        <5>2. CASE k = n + 1
          BY <5>2, <3>2, <2>2, <1>1
        <5>3. QED
          BY <5>1, <5>2, <3>3
      <4>2. ASSUME NEW k \in 1 .. n + 1, NEW l \in 1 .. n + 1, k < l
            PROVE  /\ chainedSent'[k].nr # chainedSent'[l].nr
                   /\ (Chained!Range(chainedSent'[k].seen) \cup Chained!Range(chainedSent'[l].seen)) \cap Slow = {} => chainedSent'[k].nr < chainedSent'[l].nr
        <5>1. k \in 1 .. n
          BY <4>2, <3>2
        <5>2. CASE l \in 1 .. n
          <6>1. k \in DOMAIN chainedSent /\ l \in DOMAIN chainedSent /\ chainedSent'[k] = chainedSent[k] /\ chainedSent'[l] = chainedSent[l]
            BY <5>1, <5>2, <3>2
          <6>2. QED
            BY <6>1, <4>2, <1>1 DEF Chained!PassesAll
        <5>3. CASE l = n + 1
          <6>1. chainedSent'[k] = chainedSent[k] /\ chainedSent'[l] = g /\ chainedSent[k].nr # m.nr
            BY <5>1, <5>3, <3>2
          <6>2. Chained!Range(m.seen) \subseteq Chained!Range(chain)
            BY <1>1, <1>4, SMTT(40) DEF Chained!Range
          <6>3. Chained!Range(m.seen) \cap Slow # {} => Chained!Range(g.seen) \cap Slow # {}
            BY <6>2, <2>2
          <6>4. QED
            BY <6>1, <6>3, <2>2, <5>1, <3>2
        <5>4. QED
          BY <5>2, <5>3, <3>3
      <4>3. QED
        BY <4>1, <4>2, <3>2 DEF Chained!PassesAll
    <3>5. ASSUME NEW k \in 1 .. n + 1
          PROVE  chainedSent'[k].nr <= count' /\ \A o \in rest : chainedSent'[k].nr # o.nr
      <4>1. CASE k \in 1 .. n
        BY <4>1, <3>2, <1>1, <1>3
      <4>2. CASE k = n + 1
        BY <4>2, <3>2, <2>2
      <4>3. QED
        BY <4>1, <4>2, <3>3
    <3>6. QED
      BY <3>2, <3>4, <3>5, <1>1, <1>2, <1>5 DEF ChainInv
  <2>4. CASE ~ chainedChannel
    <3>1. chainedSent' = chainedSent
      BY <1>5, <2>4 DEF Chained!DoSend
    <3>2. Chained!PassesAll'
      BY <3>1, <1>1 DEF Chained!PassesAll
    <3>3. QED
      BY <3>1, <3>2, <1>1, <1>2, <1>3, <1>5 DEF ChainInv
  <2>5. QED
    BY <2>3, <2>4, <1>1
<1>6. ASSUME NEW here \in Chained!Stops(m.at), held' = rest \cup {Chained!Ran(m, here)}, chainedSent' = chainedSent
      PROVE  ChainInv'
  <2>0. PICK r : r = Chained!Ran(m, here)
    OBVIOUS
  <2>1. here \in m.at .. Len(chain) /\ chain[here] \in Slow
    BY <1>6 DEF Chained!Stops
  <2>2. /\ r \in Hooked /\ r.nr = m.nr /\ r.due = Chained!Range(chain)
        /\ r.at = here + 1 /\ r.seen = SubSeq(chain, 1, here)
    <3>1. here \in m.at - 1 .. Len(chain)
      BY <2>1, <1>4
    <3>2. QED
      BY <3>1, <1>1, <2>0, RanIs
  <2>3. here \in 1 .. Len(chain) /\ here \in 0 .. Len(chain)
    BY <2>1, <1>4
  <2>4. Chained!Range(r.seen) \cap Slow # {}
    <3>1. chain[here] \in Chained!Range(SubSeq(chain, 1, here))
      BY <2>3, <1>1, PrefixIs
    <3>2. QED
      BY <3>1, <2>1, <2>2
  <2>5. Underway(r)'
    <3>1. r.nr <= count' /\ r.at \in 1 .. Len(chain) + 1 /\ r.at - 1 = here
      BY <2>2, <2>3, <1>4
    <3>2. QED
      BY <3>1, <2>2 DEF Underway
  <2>6. Chained!PassesAll'
    BY <1>6, <1>1 DEF Chained!PassesAll
  <2>7. held' = rest \cup {r} /\ r.nr = m.nr
    BY <1>6, <2>2, <2>0
  <2>8. /\ \A o, p \in held' : o.nr = p.nr => o = p
        /\ \A o \in held' : \A k \in DOMAIN chainedSent : chainedSent[k].nr # o.nr
    BY <2>7, <1>1
  <2>9. /\ held' \subseteq Hooked
        /\ \A o \in held' : Underway(o)' /\ Chained!Range(o.seen) \cap Slow # {}
    BY <2>7, <2>2, <2>4, <2>5, <1>1, <1>2
  <2>10. QED
    BY <2>6, <2>8, <2>9, <1>1, <1>3, <1>6 DEF ChainInv
<1>7. QED
  BY <1>5, <1>6 DEF Chained!RunChain

(* At the start there is no interceptor and no message.                    *)
LEMMA ChainStart == ASSUME Chained!Init PROVE ChainInv
BY DEF Chained!Init, ChainInv, Chained!PassesAll, Chained!IsInjective, Chained!Range

(* Every step keeps the invariant; the chain changes only while nothing    *)
(* is held.                                                                *)
LEMMA ChainStep == ASSUME ChainInv, [Chained!Next]_(Chained!vars) PROVE ChainInv'
<1>1. /\ chain \in Seq(Hooks) /\ Chained!IsInjective(chain) /\ chainedChannel \in BOOLEAN
      /\ count \in Nat /\ held \subseteq Hooked /\ chainedSent \in Seq(Given)
      /\ \A o \in held : Underway(o) /\ Chained!Range(o.seen) \cap Slow # {}
      /\ \A o, p \in held : o.nr = p.nr => o = p
      /\ \A o \in held : \A k \in DOMAIN chainedSent : chainedSent[k].nr # o.nr
      /\ \A k \in DOMAIN chainedSent : chainedSent[k].nr <= count
      /\ Chained!PassesAll
  BY DEF ChainInv
<1>2. ASSUME chain' \in Seq(Hooks), Chained!IsInjective(chain'), held = {}, held' = {}, UNCHANGED <<chainedChannel, chainedSent, count>>
      PROVE  ChainInv'
  BY <1>1, <1>2 DEF ChainInv, Chained!PassesAll
<1>3. ASSUME held' \subseteq held, UNCHANGED <<chain, chainedSent, count>>, chainedChannel' \in BOOLEAN
      PROVE  ChainInv'
  <2>1. Chained!PassesAll'
    BY <1>1, <1>3 DEF Chained!PassesAll
  <2>2. \A o \in held' : Underway(o)'
    BY <1>1, <1>3 DEF Underway
  <2>3. QED
    BY <1>1, <1>3, <2>1, <2>2 DEF ChainInv
<1>4. Chained!MayChange => held = {} /\ \A names : Chained!Due(names) = {}
  BY DEF Chained!MayChange, Chained!Due
<1>5. ASSUME NEW i \in Hooks, Chained!AddSendInterceptor(i) PROVE ChainInv'
  <2>1. chain' \in Seq(Hooks) /\ Chained!IsInjective(chain')
    BY <1>1, <1>5, AddedIs DEF Chained!AddSendInterceptor
  <2>2. QED
    BY <2>1, <1>2, <1>4, <1>5 DEF Chained!AddSendInterceptor
<1>6. ASSUME NEW i \in Hooks, Chained!RemoveSendInterceptor(i) PROVE ChainInv'
  <2>1. chain' \in Seq(Hooks) /\ Chained!IsInjective(chain')
    BY <1>1, <1>6, RemovedIs DEF Chained!RemoveSendInterceptor
  <2>2. QED
    BY <2>1, <1>2, <1>4, <1>6 DEF Chained!RemoveSendInterceptor
<1>7. CASE Chained!ClearSendInterceptors
  <2>1. chain' \in Seq(Hooks) /\ Chained!IsInjective(chain')
    BY <1>7 DEF Chained!ClearSendInterceptors, Chained!IsInjective
  <2>2. QED
    BY <2>1, <1>2, <1>4, <1>7 DEF Chained!ClearSendInterceptors
<1>8. CASE Chained!Send
  <2> DEFINE m == [nr |-> count + 1, at |-> 1, seen |-> <<>>, due |-> Chained!Range(chain)]
  <2>1. Chained!RunChain(m, held) /\ count' = count + 1 /\ UNCHANGED <<chain, chainedChannel>>
    BY <1>8 DEF Chained!Send
  <2>2. /\ m \in Hooked /\ m.nr = count + 1 /\ m.at = 1 /\ m.seen = <<>> /\ m.due = Chained!Range(chain)
    BY <1>1 DEF Hooked, Chained!Range
  <2>3. m.at \in 1 .. Len(chain) + 1 /\ m.seen = SubSeq(chain, 1, m.at - 1)
    BY <2>2, <1>1
  <2> HIDE DEF m
  <2>4. /\ \A o \in held : o.nr # m.nr
        /\ \A k \in DOMAIN chainedSent : chainedSent[k].nr < m.nr /\ chainedSent[k].nr # m.nr
    <3>1. \A o \in held : o.nr \in Nat /\ o.nr <= count
      BY <1>1 DEF Hooked, Underway
    <3>2. ASSUME NEW k \in DOMAIN chainedSent PROVE chainedSent[k].nr \in Nat /\ chainedSent[k].nr <= count
      <4>1. chainedSent[k] \in Given
        BY <1>1, ElementOfSeq
      <4>2. QED
        BY <4>1, <1>1 DEF Given
    <3>3. QED
      BY <3>1, <3>2, <2>2, <1>1
  <2>5. count' \in Nat /\ count <= count' /\ m.nr <= count'
    BY <2>1, <2>2, <1>1
  <2>6. QED
    BY <2>1, <2>2, <2>3, <2>4, <2>5, ChainRuns
<1>9. ASSUME NEW m \in held, Chained!CallNext(m) PROVE ChainInv'
  <2>1. Chained!RunChain(m, held \ {m}) /\ UNCHANGED <<chain, chainedChannel, count>>
    BY <1>9 DEF Chained!CallNext
  <2>2. /\ m \in Hooked /\ m.nr <= count /\ m.at \in 1 .. Len(chain) + 1
        /\ m.seen = SubSeq(chain, 1, m.at - 1) /\ m.due = Chained!Range(chain)
        /\ Chained!Range(m.seen) \cap Slow # {}
    BY <1>1 DEF Underway
  <2>3. /\ \A o \in held \ {m} : o.nr # m.nr
        /\ \A k \in DOMAIN chainedSent : chainedSent[k].nr # m.nr
        /\ held \ {m} \in SUBSET held
    BY <1>1
  <2>4. count' \in Nat /\ count <= count' /\ m.nr <= count'
    BY <2>1, <2>2, <1>1
  <2>5. QED
    BY <2>1, <2>2, <2>3, <2>4, ChainRuns
<1>10. ASSUME NEW m \in held, Chained!Drop(m) PROVE ChainInv'
  BY <1>1, <1>3, <1>10 DEF Chained!Drop
<1>11. CASE Chained!RemoveChannel
  BY <1>3, <1>11 DEF Chained!RemoveChannel
<1>12. CASE UNCHANGED Chained!vars
  BY <1>1, <1>3, <1>12 DEF Chained!vars
<1>13. QED
  BY <1>5, <1>6, <1>7, <1>8, <1>9, <1>10, <1>11, <1>12 DEF Chained!Next

(* So what a channel is given went through the whole chain, once.          *)
LEMMA ChainHolds == Chained!Spec => []Chained!PassesAll
<1>1. Chained!Init => ChainInv
  BY ChainStart
<1>2. ChainInv /\ [Chained!Next]_(Chained!vars) => ChainInv'
  BY ChainStep
<1>3. ChainInv => Chained!PassesAll
  BY DEF ChainInv
<1>4. QED
  BY <1>1, <1>2, <1>3, PTL DEF Chained!Spec

-----------------------------------------------------------------------------
Queue == INSTANCE WorkQueue WITH
  Channels <- {n1, n2, disk}, Works <- Batches, Replying <- {disk, n2},
  Failing <- {}, MaxThrows <- 0, MaxMade <- 6, MaxReplies <- 4,
  queue <- queueQueue, phase <- queuePhase, cmds <- queueCmds,
  buffer <- queueBuffer, snapshot <- queueSnapshot, sent <- queueSent,
  made <- queueMade, model <- queueModel, cached <- queueCached,
  replies <- queueReplies, throws <- queueThrows

Throws == INSTANCE WorkQueue WITH
  Channels <- {n1, n2, disk}, Works <- Batches, Replying <- {disk},
  Failing <- {n1}, MaxThrows <- 2, MaxMade <- 4, MaxReplies <- 2,
  queue <- throwsQueue, phase <- throwsPhase, cmds <- throwsCmds,
  buffer <- throwsBuffer, snapshot <- throwsSnapshot, sent <- throwsSent,
  made <- throwsMade, model <- throwsModel, cached <- throwsCached,
  replies <- throwsReplies, throws <- throwsThrows

Checks == INSTANCE Middleware WITH
  Peers <- {p1}, Limit <- 2, Window <- 2, MaxBatch <- 2, MaxMessages <- 3,
  MaxClock <- 5, now <- checksNow

Parts == INSTANCE Reassembler WITH
  Msgs <- {m1, m2, m3}, Count <- Fragments, MaxBatches <- 2, MaxBytes <- 3,
  Copies <- 1, sent <- partsSent, arrived <- partsArrived,
  batches <- partsBatches, totalBytes <- partsTotalBytes,
  timers <- partsTimers, disposed <- partsDisposed,
  complete <- partsComplete, dropped <- partsDropped, early <- partsEarly

Copies == INSTANCE Reassembler WITH
  Msgs <- {m1, m2}, Count <- [m \in {m1, m2} |-> 2], MaxBatches <- 1,
  MaxBytes <- 3, Copies <- 2, sent <- copiesSent, arrived <- copiesArrived,
  batches <- copiesBatches, totalBytes <- copiesTotalBytes,
  timers <- copiesTimers, disposed <- copiesDisposed,
  complete <- copiesComplete, dropped <- copiesDropped, early <- copiesEarly

Shown == INSTANCE Presence WITH
  Peers <- {h, p1, p2}, Absent <- nil, Links <- Star, Joined <- Star,
  Values <- {v1}, Shows <- {p1, p2}, MaxSets <- 1, MaxBeats <- 1,
  MaxLosses <- 1, now <- shownNow, store <- shownStore, own <- shownOwn,
  up <- shownUp, subs <- shownSubs, net <- shownNet, count <- shownCount,
  raced <- shownRaced

Owned == INSTANCE Presence WITH
  Peers <- {h, p1, p2}, Absent <- nil, Links <- Star, Joined <- {<<p1, h>>},
  Values <- {v1, v2}, Shows <- {p1}, MaxSets <- 2, MaxBeats <- 0,
  MaxLosses <- 0, now <- ownedNow, store <- ownedStore, own <- ownedOwn,
  up <- ownedUp, subs <- ownedSubs, net <- ownedNet, count <- ownedCount,
  raced <- ownedRaced

Relayed == INSTANCE Presence WITH
  Peers <- {h, p1, p2}, Absent <- nil, Links <- Triangle, Joined <- Triangle,
  Values <- {v1}, Shows <- {p1}, MaxSets <- 1, MaxBeats <- 0, MaxLosses <- 1,
  now <- relayedNow, store <- relayedStore, own <- relayedOwn,
  up <- relayedUp, subs <- relayedSubs, net <- relayedNet,
  count <- relayedCount, raced <- relayedRaced

Codec == INSTANCE CompatCodec WITH
  Rooms <- {Bytes(1), Bytes(127), Bytes(128)},
  Payloads <- {Bytes(0), Bytes(1), Bytes(127), Bytes(128), Bytes(256)},
  Numbers <- {0, 127, 128, 16383, 16384, 2097152}, MaxNumber <- 2097152

(* What Repos, and the applications on them, see of one document beyond    *)
(* plain synchronization: clients over the compatible protocol; a client   *)
(* that is reloaded; the calls of waitForSync on a client with storage,    *)
(* made at any time or when the document is opened; a document that is     *)
(* deleted, where peers refuse to follow, or do.  All are DocSync          *)
(* underneath and share its variables.                                     *)
Compat == INSTANCE DocSync WITH
  Repos <- {A, S}, Links <- SpokesOf({A, S}), Initiates <- ClientsInitiate({A, S}),
  Holders <- {A}, Ops <- {a1, a2, s1}, Author <- AuthorOf({a1, a2, s1}),
  MaxBreaks <- 1, MaxRestarts <- 0, MaxOvertakes <- 0, Restartable <- {}

Reload == INSTANCE DocSync WITH
  Repos <- {A, B, S}, Links <- SpokesOf({A, B, S}), Initiates <- ClientsInitiate({A, B, S}),
  Holders <- {A}, Ops <- {a1}, Author <- AuthorOf({a1}),
  MaxBreaks <- 0, MaxRestarts <- 1, MaxOvertakes <- 0, Restartable <- {A}

Late == INSTANCE SyncApi WITH
  Repos <- {A, S, Db}, Links <- SpokesOf({A, S}), Initiates <- ClientsInitiate({A, S}),
  Holders <- {A, S}, Ops <- {a1, s1}, Author <- AuthorOf({a1, s1}),
  MaxBreaks <- 1, MaxRestarts <- 0, MaxOvertakes <- 0, Restartable <- {},
  Waiter <- A, Store <- Db, Saved <- {a1}, Served <- {s1},
  Calls <- {net1, sto1}, Kind <- KindOf({net1, sto1}), LateCalls <- TRUE

Early == INSTANCE SyncApi WITH
  Repos <- {A, S, Db}, Links <- SpokesOf({A, S}), Initiates <- ClientsInitiate({A, S}),
  Holders <- {A, S}, Ops <- {s1}, Author <- AuthorOf({s1}),
  MaxBreaks <- 1, MaxRestarts <- 0, MaxOvertakes <- 0, Restartable <- {},
  Waiter <- A, Store <- Db, Saved <- {}, Served <- {s1},
  Calls <- {net1, sto1}, Kind <- KindOf({net1, sto1}), LateCalls <- FALSE

Refused == INSTANCE Deletion WITH
  Repos <- {A, S}, Links <- SpokesOf({A, S}), Initiates <- ClientsInitiate({A, S}),
  Holders <- {A}, Ops <- {a1, s1}, Author <- AuthorOf({a1, s1}),
  MaxBreaks <- 1, MaxRestarts <- 0, MaxOvertakes <- 0, Restartable <- {},
  Grants <- {}, MaxDeletes <- 2, Calm <- TRUE

Granted == INSTANCE Deletion WITH
  Repos <- {A, S}, Links <- SpokesOf({A, S}), Initiates <- ClientsInitiate({A, S}),
  Holders <- {A, S}, Ops <- {a1, s1}, Author <- AuthorOf({a1, s1}),
  MaxBreaks <- 1, MaxRestarts <- 0, MaxOvertakes <- 0, Restartable <- {},
  Grants <- {A, S} \X {A, S}, MaxDeletes <- 1, Calm <- TRUE

-----------------------------------------------------------------------------
ClientParts == {"compat", "reload", "late", "early", "refused", "granted"}

NoDeletion == handle = "none" /\ deletes = 0
NoApi == shown = "none" /\ calls = "none"

ClientsInit ==
  \/ On("compat") /\ Compat!Init /\ NoDeletion /\ NoApi
  \/ On("reload") /\ Reload!Init /\ NoDeletion /\ NoApi
  \/ On("late") /\ Late!ApiInit /\ NoDeletion
  \/ On("early") /\ Early!ApiInit /\ NoDeletion
  \/ On("refused") /\ Refused!DeletionInit /\ NoApi
  \/ On("granted") /\ Granted!DeletionInit /\ NoApi

(* No client at all.                                                       *)
Nobody ==
  /\ NoDeletion /\ NoApi
  /\ docs = {} /\ oplog = <<>> /\ channel = <<>> /\ known = <<>> /\ subs = <<>>
  /\ awareness = <<>> /\ up = {} /\ net = <<>> /\ made = <<>> /\ deps = <<>>
  /\ breaks = 0 /\ restarts = 0 /\ overtakes = 0

ClientsNext ==
  \/ On("compat") /\ Compat!CompatNext /\ UNCHANGED <<deletionVars, apiVars>>
  \/ On("reload") /\ Reload!Next /\ UNCHANGED <<deletionVars, apiVars>>
  \/ On("late") /\ Late!ApiNext /\ UNCHANGED deletionVars
  \/ On("early") /\ Early!ApiNext /\ UNCHANGED deletionVars
  \/ On("refused") /\ Refused!DeletionNext /\ UNCHANGED apiVars
  \/ On("granted") /\ Granted!DeletionNext /\ UNCHANGED apiVars

(* A behaviour is about one of them; the others stay where they start.     *)
Init ==
  /\ part \in {"queue", "throws", "middleware", "fragments", "copies",
                "presence", "values", "relay", "codec",
                "interceptors"} \cup ClientParts
  /\ Queue!Init
  /\ Throws!Init
  /\ Checks!Init
  /\ Parts!Init
  /\ Copies!Init
  /\ Shown!Init
  /\ Owned!Init
  /\ Relayed!Init
  /\ \/ On("codec") /\ Codec!Init
     \/ ~ On("codec") /\ msg = nil /\ frame = <<>> /\ read = <<>> /\ step = "chosen"
  /\ Chained!Init
  /\ IF part \in ClientParts THEN ClientsInit ELSE Nobody

Next ==
  \/ /\ On("queue") /\ Queue!Next
     /\ UNCHANGED <<part, throwsVars, checksVars, partsVars, copiesVars,
                    shownVars, ownedVars, relayedVars,
                    codecVars, chainedVars, appsVars>>
  \/ /\ On("throws") /\ Throws!Next
     /\ UNCHANGED <<part, queueVars, checksVars, partsVars, copiesVars,
                    shownVars, ownedVars, relayedVars,
                    codecVars, chainedVars, appsVars>>
  \/ /\ On("middleware") /\ Checks!Next
     /\ UNCHANGED <<part, queueVars, throwsVars, partsVars, copiesVars,
                    shownVars, ownedVars, relayedVars,
                    codecVars, chainedVars, appsVars>>
  \/ /\ On("fragments") /\ Parts!Next
     /\ UNCHANGED <<part, queueVars, throwsVars, checksVars, copiesVars,
                    shownVars, ownedVars, relayedVars,
                    codecVars, chainedVars, appsVars>>
  \/ /\ On("copies") /\ Copies!Next
     /\ UNCHANGED <<part, queueVars, throwsVars, checksVars, partsVars,
                    shownVars, ownedVars, relayedVars,
                    codecVars, chainedVars, appsVars>>
  \/ /\ On("presence") /\ Shown!Next
     /\ UNCHANGED <<part, queueVars, throwsVars, checksVars, partsVars,
                    copiesVars, ownedVars, relayedVars,
                    codecVars, chainedVars, appsVars>>
  \/ /\ On("values") /\ Owned!Next
     /\ UNCHANGED <<part, queueVars, throwsVars, checksVars, partsVars,
                    copiesVars, shownVars, relayedVars,
                    codecVars, chainedVars, appsVars>>
  \/ /\ On("relay") /\ Relayed!Next
     /\ UNCHANGED <<part, queueVars, throwsVars, checksVars, partsVars,
                    copiesVars, shownVars, ownedVars,
                    codecVars, chainedVars, appsVars>>
  \/ /\ On("codec") /\ Codec!Next
     /\ UNCHANGED <<part, queueVars, throwsVars, checksVars, partsVars,
                    copiesVars, shownVars, ownedVars,
                    relayedVars, chainedVars, appsVars>>
  \/ /\ On("interceptors") /\ Chained!Next
     /\ UNCHANGED <<part, queueVars, throwsVars, checksVars, partsVars,
                    copiesVars, shownVars, ownedVars,
                    relayedVars, codecVars, appsVars>>
  \/ /\ ClientsNext
     /\ UNCHANGED <<part, queueVars, throwsVars, checksVars, partsVars,
                    copiesVars, shownVars, ownedVars,
                    relayedVars, codecVars, chainedVars>>

(* Each member is as fair as its own specification says.                   *)
CompatFair(r, p) ==
  /\ WF_docVars(On("compat") /\ Compat!Arrives(r, p))
  /\ WF_docVars(On("compat") /\ Compat!ServerStart(r, p))
  /\ WF_docVars(On("compat") /\ Compat!ClientOpen(r, p))
  /\ WF_docVars(On("compat") /\ Compat!ChannelRemoved(r, p))

EarlyFair(r, p) ==
  /\ WF_docVars(On("early") /\ Early!Step(Early!Receive(r, p)))
  /\ WF_docVars(On("early") /\ Early!Step(Early!Connect(r, p)))
  /\ WF_docVars(On("early") /\ Early!Step(Early!ChannelRemoved(r, p)))

RefusedFair(r, p) ==
  /\ WF_docVars(On("refused") /\ Refused!Network(r, p))
  /\ WF_docVars(On("refused") /\ Refused!Connect(r, p) /\ UNCHANGED deletionVars)
  /\ WF_docVars(On("refused") /\ Refused!ChannelRemoved(r, p) /\ UNCHANGED deletionVars)

GrantedFair(r, p) ==
  /\ WF_docVars(On("granted") /\ Granted!Network(r, p))
  /\ WF_docVars(On("granted") /\ Granted!Connect(r, p) /\ UNCHANGED deletionVars)
  /\ WF_docVars(On("granted") /\ Granted!ChannelRemoved(r, p) /\ UNCHANGED deletionVars)

ClientsFairness ==
  /\ \A e \in {<<A, S>>, <<S, A>>} :
       /\ CompatFair(e[1], e[2]) /\ EarlyFair(e[1], e[2])
       /\ RefusedFair(e[1], e[2]) /\ GrantedFair(e[1], e[2])
  /\ WF_docVars(On("early") /\ Early!Step(Early!StorageReceives))
  /\ WF_docVars(On("early") /\ Early!Step(\/ Early!HandleUnavailable(A, Db)
                                         \/ Early!HandleSyncRequest(A, Db)
                                         \/ Early!HandleSyncResponse(A, Db)))

Spec ==
  /\ Init /\ [][Next]_vars
  /\ WF_throwsVars(On("throws") /\ Throws!Runs)
  /\ WF_throwsVars(On("throws") /\ Throws!Heartbeat)
  /\ WF_checksVars(On("middleware") /\ Checks!Settle)
  /\ WF_partsVars(On("fragments") /\ (\E t \in partsTimers : Parts!HandleTimeout(t)))
  /\ \A e \in Relayed!Ends : WF_relayedVars(On("relay") /\ Relayed!Receive(e[1], e[2]))
  /\ ClientsFairness

-----------------------------------------------------------------------------
ASSUME /\ Queue!ChannelAssumption /\ Throws!ChannelAssumption
       /\ Queue!WorkAssumption /\ Queue!BoundAssumption /\ Throws!BoundAssumption
       /\ Checks!BoundAssumption /\ Parts!CountAssumption /\ Parts!LimitAssumption
       /\ Copies!CountAssumption /\ Copies!LimitAssumption
       /\ Shown!ValueAssumption /\ Shown!LinkAssumption /\ Relayed!LinkAssumption
       /\ Shown!BoundAssumption /\ Codec!CodecAssumption
       /\ Chained!InterceptorsAssumption
       /\ Late!WaitAssumption /\ Early!WaitAssumption
       /\ Refused!DeletionAssumption /\ Granted!DeletionAssumption
       /\ \A ops \in {{a1, a2, s1}, {a1, s1}} : AuthorOf(ops) \in [ops -> {A, S}]

(* Nothing is lost, repeated or overtaken between what made a message and  *)
(* what handles it: in the queue while adapters answer within a send, in   *)
(* the buffer when a send throws, behind checks that answer late, among    *)
(* fragments that arrive in any order or twice, behind interceptors that   *)
(* call the next late or not at all.                                       *)
OnceInOrder ==
  /\ Queue!AllInOrder /\ Throws!NeverTwice /\ Checks!HandledOnce
  /\ Copies!NeverMadeUp /\ Parts!NeverMadeUp /\ Parts!HandedOn
  /\ Chained!PassesAll

(* At rest nothing is left behind: no work item, message or ready state in *)
(* the queue, no timer without its batch.                                  *)
NothingLeft == Queue!RestIsQuiet /\ Parts!OwnTimers /\ Copies!OwnTimers

(* The limits hold, and cost nobody more than they must: batches and bytes *)
(* of a reassembler, messages in a window of the rate limiter.             *)
Limits ==
  /\ Parts!WithinLimits /\ Copies!WithinLimits
  /\ Checks!WindowBound /\ Checks!RefusedForCause

(* At rest linked peers show the same.  What a peer shows of itself is its *)
(* own to change, and is shown no more once every link of that peer is     *)
(* gone, unless somebody once stamped an outdated copy of it or took the   *)
(* loss of one of its links for its leaving.                               *)
PresenceIsOwn ==
  /\ Shown!QuietAgree /\ Owned!QuietAgree /\ Relayed!QuietAgree
  /\ Shown!OwnValueStays /\ Owned!OwnValueStays /\ Relayed!OwnValueStays
  /\ Shown!GoneIsGone /\ Relayed!GoneIsGone

(* A message that its check rejected, or has yet to answer, is not handled. *)
RejectedStay == Checks!RejectedStay

(* What was held up ends: what a throw left behind leaves with a later run *)
(* of the loop, checks are all settled, a batch of fragments completes or  *)
(* is given up, relays of presence die out.                                *)
HeldUp ==
  CASE On("throws")     -> ~ Throws!Quiet
    [] On("middleware") -> pending # {}
    [] On("relay")      -> ~ Relayed!Idle
    [] OTHER            -> FALSE
HoldsEnd ==
  /\ []<>(~ HeldUp)
  /\ \A m \in {m1, m2, m3} : []<>(m \notin Parts!Keys)

(* At rest linked Repos that have the document have the same of it: after  *)
(* batches were taken apart and answers without data dropped for the       *)
(* compatible protocol, whose messages arrive as they were sent, in frames *)
(* of just their size; after a client was reloaded, after deletions that   *)
(* peers followed or refused and after the document was opened anew.       *)
Agree ==
  /\ On("compat") => Compat!HoldersConverged /\ Compat!BeliefsHold
  /\ On("codec") => Codec!RoundTrip /\ Codec!SizeExact /\ Codec!StoresSurvive
  /\ On("reload") => Reload!QuietConverged /\ Reload!QuietSubscribed /\ Reload!NoneRejected
  /\ On("refused") => Refused!HoldersAgree
  /\ On("granted") => Granted!HoldersAgree

(* waitForSync: no call waits in a state it waits for; who waited for      *)
(* storage has what it held, and who waited from the beginning has what    *)
(* its peers had.                                                          *)
WaitsHold ==
  /\ On("late") => Late!NoneMissed /\ Late!ResolvedHasSaved
  /\ On("early") => Early!NoneMissed /\ Early!ResolvedHasServed

(* What was begun comes to its end: over the compatible protocol the Repos *)
(* agree for good, deletions and requests die out, early calls resolve.    *)
Ended ==
  CASE On("compat")  -> \A r, p \in docs : Compat!Version(r) = Compat!Version(p)
    [] On("refused") -> \A x, y \in {A, S} : net[x][y] = <<>>
    [] On("granted") -> \A x, y \in {A, S} : net[x][y] = <<>>
    [] On("early")   -> \A c \in {net1, sto1} : calls[c] = "resolved"
    [] OTHER         -> TRUE
EndsWell == <>[]Ended

-----------------------------------------------------------------------------
(* What is proved of the members is proved of the whole: it starts as      *)
(* they do,                                                                *)
LEMMA Starts ==
  ASSUME Init
  PROVE  Queue!Init /\ Throws!Init /\ Checks!Init /\ Parts!Init /\ Copies!Init /\ Chained!Init
BY DEF Init

(* each step is a step of a member or leaves it alone,                     *)
LEMMA Steps ==
  ASSUME [Next]_vars
  PROVE  /\ [Queue!Next]_(Queue!vars) /\ [Throws!Next]_(Throws!vars) /\ [Checks!Next]_(Checks!vars)
         /\ [Parts!Next]_(Parts!vars) /\ [Copies!Next]_(Copies!vars) /\ [Chained!Next]_(Chained!vars)
<1>1. UNCHANGED vars => UNCHANGED <<queueVars, throwsVars, checksVars, partsVars, copiesVars, chainedVars>>
  BY DEF vars
<1>2. /\ Queue!Next \/ UNCHANGED queueVars
      /\ Throws!Next \/ UNCHANGED throwsVars
      /\ Checks!Next \/ UNCHANGED checksVars
      /\ Parts!Next \/ UNCHANGED partsVars
      /\ Copies!Next \/ UNCHANGED copiesVars
      /\ Chained!Next \/ UNCHANGED chainedVars
  BY <1>1 DEF Next
<1>3. /\ UNCHANGED queueVars => UNCHANGED Queue!vars
      /\ UNCHANGED throwsVars => UNCHANGED Throws!vars
      /\ UNCHANGED checksVars => UNCHANGED Checks!vars
      /\ UNCHANGED partsVars => UNCHANGED Parts!vars
      /\ UNCHANGED copiesVars => UNCHANGED Copies!vars
      /\ UNCHANGED chainedVars => UNCHANGED Chained!vars
  BY DEF queueVars, throwsVars, checksVars, partsVars, copiesVars, chainedVars,
         Queue!vars, Throws!vars, Checks!vars, Parts!vars, Copies!vars, Chained!vars
<1>4. QED
  BY <1>2, <1>3

(* so that each behaviour is one of every member.                          *)
LEMMA Members ==
  Spec => /\ Queue!Spec /\ Throws!Spec /\ Checks!Spec /\ Parts!Spec /\ Copies!Spec /\ Chained!Spec
BY Starts, Steps, PTL DEF Spec, Queue!Spec, Throws!Spec, Checks!Spec, Parts!Spec, Copies!Spec, Chained!Spec

(* The constants of the members are what their theorems assume.            *)
LEMMA Constants ==
  /\ Queue!ChannelAssumption /\ Queue!WorkAssumption /\ Queue!BoundAssumption
  /\ Throws!ChannelAssumption /\ Throws!WorkAssumption /\ Throws!BoundAssumption
  /\ Checks!BoundAssumption
  /\ Parts!CountAssumption /\ Parts!LimitAssumption
  /\ Copies!CountAssumption /\ Copies!LimitAssumption
<1>1. IsFiniteSet({n1, n2, disk})
  <2>1. IsFiniteSet({n1})
    BY FS_Singleton
  <2>2. IsFiniteSet({n1} \cup {n2})
    BY <2>1, FS_AddElement
  <2>3. IsFiniteSet(({n1} \cup {n2}) \cup {disk})
    BY <2>2, FS_AddElement
  <2>4. {n1, n2, disk} = ({n1} \cup {n2}) \cup {disk}
    OBVIOUS
  <2>5. QED
    BY <2>3, <2>4
<1>2. Queue!ChannelAssumption /\ Throws!ChannelAssumption
  <2>1. {disk, n2} \subseteq {n1, n2, disk} /\ {disk} \subseteq {n1, n2, disk} /\ {n1} \subseteq {n1, n2, disk}
    OBVIOUS
  <2>2. Queue!IsFiniteSet({n1, n2, disk}) /\ Throws!IsFiniteSet({n1, n2, disk})
    BY <1>1 DEF IsFiniteSet, Queue!IsFiniteSet, Throws!IsFiniteSet
  <2>3. QED
    BY <2>1, <2>2, Zenon DEF Queue!ChannelAssumption, Throws!ChannelAssumption
<1>3. Queue!WorkAssumption /\ Throws!WorkAssumption
  BY DEF Queue!WorkAssumption, Throws!WorkAssumption, Batches, Item, Queue!Commands, Throws!Commands
<1>4. Queue!BoundAssumption /\ Throws!BoundAssumption
  BY DEF Queue!BoundAssumption, Throws!BoundAssumption
<1>5. Checks!BoundAssumption
  BY DEF Checks!BoundAssumption
<1>6. Parts!CountAssumption /\ Parts!LimitAssumption
  BY DEF Parts!CountAssumption, Parts!LimitAssumption, Fragments
<1>7. Copies!CountAssumption /\ Copies!LimitAssumption
  BY DEF Copies!CountAssumption, Copies!LimitAssumption
<1>8. QED
  BY <1>2, <1>3, <1>4, <1>5, <1>6, <1>7

(* The limits of the reassemblers and of the rate limiter hold, whatever   *)
(* is delivered, times out or is dropped.                                  *)
THEOREM LimitsHold == Spec => []Limits
<1>1. /\ Parts!Spec => []Parts!WithinLimits
      /\ Copies!Spec => []Copies!WithinLimits
  BY Constants, Parts!LimitsKept, Copies!LimitsKept
<1>2. /\ Checks!Spec => []Checks!WindowBound
      /\ Checks!Spec => []Checks!RefusedForCause
  BY Constants, Checks!WindowBounded, Checks!OnlyFullRefuses
<1>3. Parts!WithinLimits /\ Copies!WithinLimits /\ Checks!WindowBound /\ Checks!RefusedForCause => Limits
  BY DEF Limits
<1>4. QED
  BY <1>1, <1>2, <1>3, Members, PTL

(* No message is handled that its check rejected or has yet to answer.     *)
THEOREM RejectedStays == Spec => RejectedStay
<1>1. Checks!Spec => Checks!RejectedStay
  BY Constants, Checks!NoneWhileOpen
<1>2. QED
  BY <1>1, Members, PTL DEF RejectedStay

(* At rest no work item, message or ready state is left in the queue, and  *)
(* never a timer without its batch.                                        *)
THEOREM NothingIsLeft == Spec => []NothingLeft
<1>1. /\ Queue!Spec => [](queueThrows = 0 => Queue!RestIsQuiet)
      /\ Queue!Spec => []Queue!TypeOK
  BY Constants, Queue!RestsQuiet, Queue!TypeCorrect
<1>2. (Parts!Spec => []Parts!OwnTimers) /\ (Copies!Spec => []Copies!OwnTimers)
  BY Constants, Parts!TimersOwned, Copies!TimersOwned
<1>3. Queue!TypeOK => queueThrows = 0
  BY DEF Queue!TypeOK
<1>4. Queue!RestIsQuiet /\ Parts!OwnTimers /\ Copies!OwnTimers => NothingLeft
  BY DEF NothingLeft
<1>5. QED
  BY <1>1, <1>2, <1>3, <1>4, Members, PTL

(* Nothing is lost, repeated or overtaken in the queue, in a buffer whose  *)
(* sends may throw, behind checks, among fragments, and behind             *)
(* interceptors.                                                           *)
THEOREM OnceAndInOrder == Spec => []OnceInOrder
<1>1. /\ Queue!Spec => [](queueThrows = 0 => Queue!AllInOrder)
      /\ Queue!Spec => []Queue!TypeOK
      /\ Throws!Spec => []Throws!NeverTwice
  BY Constants, Queue!AllGoOut, Queue!TypeCorrect, Throws!NoneTwice
<1>2. Checks!Spec => []Checks!HandledOnce
  BY Constants, Checks!EachHandledOnce
<1>3. /\ Parts!Spec => []Parts!NeverMadeUp
      /\ Parts!Spec => []Parts!HandedOn
      /\ Copies!Spec => []Copies!NeverMadeUp
  BY Constants, Parts!NoneMadeUp, Parts!WholeHandedOn, Copies!NoneMadeUp
<1>4. Queue!TypeOK => queueThrows = 0
  BY DEF Queue!TypeOK
<1>5. /\ Queue!AllInOrder /\ Throws!NeverTwice /\ Checks!HandledOnce /\ Parts!NeverMadeUp
      /\ Parts!HandedOn /\ Copies!NeverMadeUp /\ Chained!PassesAll
      => OnceInOrder
  BY DEF OnceInOrder
<1>6. QED
  BY <1>1, <1>2, <1>3, <1>4, <1>5, ChainHolds, Members, PTL
=============================================================================
