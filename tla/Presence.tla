------------------------------ MODULE Presence ------------------------------
(***************************************************************************)
(* Ephemeral (presence) data of one document and one namespace:            *)
(* ephemeral-store-manager.ts, timerless-ephemeral-store.ts, the           *)
(* ephemeral commands of the synchronizer, handle-ephemeral.ts and what    *)
(* establishment, sync-request, sync-response and channel-removed do with  *)
(* it.  Every peer writes the entry under its own id.  A store keeps, per  *)
(* key, the value with the latest timestamp; a deletion is a value with a  *)
(* timestamp too.  Whatever a handler sends over a channel before the work *)
(* queue is empty leaves as one batch, which is handled as one.            *)
(***************************************************************************)
EXTENDS Naturals, Sequences, FiniteSets, Functions

CONSTANTS
  Peers,
  Links,     \* the pairs <<initiator, acceptor>> that may connect
  Joined,    \* those of them that have, before anything is shown
  Values,    \* what a peer may show of itself
  Shows,     \* the peers that show something of themselves
  MaxSets,   \* bound: how often something is shown
  MaxBeats,  \* bound: heartbeats
  MaxLosses, \* bound: how often an end notices the loss of a link
  Absent     \* no value

ValueAssumption == Absent \notin Values
LinkAssumption == Links \subseteq Peers \X Peers /\ Joined \subseteq Links /\ Shows \subseteq Peers
BoundAssumption == {MaxSets, MaxBeats, MaxLosses} \subseteq Nat

VARIABLES
  now,     \* Date.now() of everybody; no two timestamps are the same
  store,   \* store[p][k]: the entry of key k at peer p
  own,     \* what each peer last set for itself
  up,      \* <<p, q>>: p has an established channel to q
  subs,    \* <<p, q>>: p knows that q subscribed to the document
  net,     \* net[p][q]: the batches from p to q
  count,   \* how often something was shown, heartbeats, losses
  raced    \* history: the peers whose entry was overtaken by an older one

vars == <<now, store, own, up, subs, net, count, raced>>

Ends == {e \in Peers \X Peers : e \in Links \/ <<e[2], e[1]>> \in Links}

-----------------------------------------------------------------------------
Nothing == [k \in Peers |-> [val |-> Absent, ts |-> 0]]

(* EphemeralStore.apply: per key, the later timestamp wins.                *)
Applied(s, d) == [k \in Peers |-> IF d[k].ts > s[k].ts THEN d[k] ELSE s[k]]

(* touch(): every entry that has a value is set again, whoever it is of.   *)
Touched(s, t) ==
  [k \in Peers |-> IF s[k].val = Absent THEN s[k] ELSE [val |-> s[k].val, ts |-> t]]

Entry(v) == [val |-> v, ts |-> now + 1]

(* getEstablishedChannelsForDoc.                                           *)
Reach(p) == {q \in Peers : <<p, q>> \in up /\ <<p, q>> \in subs}

(* What p stamps, or deletes and tells others, overtakes what is later in  *)
(* fact: the copies in s of which somebody has a later entry that says     *)
(* something else, and the entry of a peer that is still linked elsewhere. *)
Outdated(p, s) ==
  {k \in Peers \ {p} :
     /\ s[k].val # Absent
     /\ \E r \in Peers : store[r][k].ts > s[k].ts /\ store[r][k].val # s[k].val}
LeftOneOf(p, q) ==
  {k \in {q} : store[p][k].val # Absent /\ Reach(p) \ {k} # {} /\ Reach(k) \ {p} # {}}

(* A batch: the entries to be applied, those to be passed on to others     *)
(* without further hops, and whether data is requested: "both" and "first" *)
(* want to be requested back, and "first" comes before the entries.        *)
Batch(s, passed, ask) == [states |-> s, passed |-> passed, ask |-> ask]

(* An ephemeral message with one hop left.                                 *)
Broadcast(s) == Batch(s, s, "no")

(* Stamping entries takes a timestamp, if there are any.                   *)
Stamps(s) == IF Touched(s, now + 1) = s THEN now ELSE now + 1

(* What p sends to a peer that has no channel to it any more is lost; a    *)
(* message without data is not sent.                                       *)
Sent(n, p, tos, m) ==
  [n EXCEPT ![p] = [q \in Peers |->
     IF q \in tos /\ <<q, p>> \in up' /\ m # Broadcast(Nothing)
       THEN Append(@[q], m) ELSE @[q]]]

Init ==
  /\ now = 0
  /\ store = [p \in Peers |-> Nothing]
  /\ own = [p \in Peers |-> Absent]
  /\ up = {e \in Ends : e \in Joined \/ <<e[2], e[1]>> \in Joined}
  /\ subs = up /\ raced = {}
  /\ net = [p \in Peers |-> [q \in Peers |-> <<>>]]
  /\ count = [sets |-> 0, beats |-> 0, losses |-> 0]

-----------------------------------------------------------------------------
(* setSelf: the store's local event broadcasts the whole namespace.        *)
SetSelf(p, v) ==
  /\ p \in Shows /\ count.sets < MaxSets
  /\ count' = [count EXCEPT !.sets = @ + 1]
  /\ now' = now + 1
  /\ own' = [own EXCEPT ![p] = v]
  /\ store' = [store EXCEPT ![p][p] = Entry(v)]
  /\ UNCHANGED <<up, subs, raced>>
  /\ net' = Sent(net, p, Reach(p), Broadcast(store'[p]))

(* The heartbeat touches every entry and sends it to every channel.        *)
Heartbeat(p) ==
  /\ count.beats < MaxBeats /\ Reach(p) # {} /\ store[p] # Nothing
  /\ count' = [count EXCEPT !.beats = @ + 1]
  /\ now' = now + 1
  /\ store' = [store EXCEPT ![p] = Touched(@, now + 1)]
  /\ raced' = raced \cup Outdated(p, store[p])
  /\ UNCHANGED <<own, up, subs>>
  /\ net' = Sent(net, p, Reach(p), Broadcast(store'[p]))

(* The handshake: the acceptor requests the document and sends its         *)
(* entries; then the initiator does, in one batch.  A peer it knows it     *)
(* need not ask again.  Both stamp their entries, and the store's events   *)
(* tell the other channels.                                                *)
Connect(p, q) ==
  /\ <<p, q>> \in Links /\ <<p, q>> \notin up /\ <<q, p>> \notin up
  /\ up' = up \cup {<<p, q>>, <<q, p>>}
  /\ now' = Stamps(store[q]) + Stamps(store[p]) - now
  /\ store' = [store EXCEPT ![p] = Touched(@, now'), ![q] = Touched(@, now + 1)]
  /\ raced' = raced \cup Outdated(p, store[p]) \cup Outdated(q, store[q])
  /\ \E ask \in IF <<q, p>> \in subs THEN {"no", "both"} ELSE {"both"} :
       LET accepted == Sent(Sent(net, q, {p}, Batch(store'[q], store'[q], "first")),
                            q, Reach(q), Broadcast(store'[q]))
       IN net' = Sent(Sent(accepted, p, {q}, Batch(store'[p], store'[p], ask)),
                      p, Reach(p), Broadcast(store'[p]))
  /\ UNCHANGED <<own, subs, count>>

(* Relays have no hops left.                                               *)
Relay(m) == Batch(m.passed, Nothing, "no")

(* Everybody but the channel the message came from.                        *)
Others(p, q) == Reach(p) \ {q}

(* handleEphemeral, handleSyncResponse and the part of handleSyncRequest   *)
(* that applies and relays what a request carries.                         *)
Apply(q, p) ==
  LET m == Head(net[q][p])
      rest == [net EXCEPT ![q][p] = Tail(@)]
  IN /\ net[q][p] # <<>> /\ m.ask = "no"
     /\ store' = [store EXCEPT ![p] = Applied(@, m.states)]
     /\ UNCHANGED <<now, own, up, subs, count, raced>>
     /\ net' = Sent(rest, p, Others(p, q), Relay(m))

(* handleSyncRequest: apply, relay without further hops, answer with a     *)
(* fresh snapshot and ask back when asked to.  The snapshot is stamped,    *)
(* which the store's event tells every subscriber.                         *)
Answer(q, p) ==
  LET m == Head(net[q][p])
      rest == [net EXCEPT ![q][p] = Tail(@)]
      before == IF m.ask = "first" THEN store[p] ELSE Applied(store[p], m.states)
      back == IF m.ask = "one" THEN "no" ELSE "one"
  IN /\ net[q][p] # <<>> /\ m.ask # "no"
     /\ subs' = subs \cup {<<p, q>>}
     /\ now' = Stamps(before)
     /\ store' = [store EXCEPT ![p] = Applied(Touched(before, now + 1), m.states)]
     /\ raced' = raced \cup Outdated(p, before)
     /\ UNCHANGED <<own, up, count>>
     /\ net' = Sent(Sent(rest, p, {q}, Batch(store'[p], store'[p], back)),
                    p, Others(p, q), Broadcast(store'[p]))

(* Bug: the entry of a peer that left stays.                               *)
NotRemoved(s, q) == s

(* cmd/remove-ephemeral-peer deletes the entry of the peer that left.      *)
Removed(s, q) == IF s[q].val = Absent THEN s ELSE [s EXCEPT ![q] = Entry(Absent)]

(* What channel-removed does at p: what is under way to it is lost; the    *)
(* deletion is told to the others by the store's local event (the message  *)
(* with empty data that goes before it changes nothing at its receivers).  *)
Remove(p, q) ==
  /\ <<p, q>> \in up
  /\ up' = up \ {<<p, q>>}
  /\ store' = [store EXCEPT ![p] = Removed(@, q)]
  /\ now' = IF store' = store THEN now ELSE now + 1
  /\ LET rest == [net EXCEPT ![q][p] = <<>>]
     IN net' = IF store' = store THEN rest
               ELSE Sent(rest, p, Reach(p) \ {q}, Broadcast(store'[p]))
  /\ raced' = raced \cup LeftOneOf(p, q)
  /\ UNCHANGED <<own, subs>>

(* An end notices the loss of the link: what it sent may still arrive.     *)
ChannelRemoved(p, q) ==
  /\ <<q, p>> \in up /\ count.losses < MaxLosses
  /\ count' = [count EXCEPT !.losses = @ + 1]
  /\ Remove(p, q)

(* The other end notices too, sooner or later.                             *)
AlsoRemoved(p, q) ==
  /\ <<q, p>> \notin up
  /\ Remove(p, q)
  /\ UNCHANGED count

Receive(q, p) == Apply(q, p) \/ Answer(q, p)

Next ==
  \/ \E p \in Peers : Heartbeat(p) \/ \E v \in Values : SetSelf(p, v)
  \/ \E e \in Ends : \/ Connect(e[1], e[2]) \/ Receive(e[1], e[2])
                     \/ ChannelRemoved(e[1], e[2]) \/ AlsoRemoved(e[1], e[2])

Spec == Init /\ [][Next]_vars

(* Messages are delivered.                                                 *)
FairSpec == Spec /\ \A e \in Ends : WF_vars(Receive(e[1], e[2]))

-----------------------------------------------------------------------------
Entries == [val : Values \cup {Absent}, ts : 0 .. now]

(* The values of the stores and batches; nothing is stamped later than now *)
(* (ephemeral-store-manager.ts:36).                                        *)
TypeOK ==
  /\ now \in Nat /\ raced \subseteq Peers
  /\ count \in [sets : 0 .. MaxSets, beats : 0 .. MaxBeats, losses : 0 .. MaxLosses]
  /\ store \in [Peers -> [Peers -> Entries]]
  /\ own \in [Peers -> Values \cup {Absent}]
  /\ up \subseteq Ends /\ subs \subseteq Ends
  /\ \A p, q \in Peers : \A m \in {net[p][q][i] : i \in DOMAIN net[p][q]} :
       m \in [states : [Peers -> Entries], passed : [Peers -> Entries],
             ask : {"no", "one", "both", "first"}]

View(p) == {<<k, store[p][k].val>> : k \in {j \in Peers : store[p][j].val # Absent}}

Idle == \A e \in Ends : net[e[1]][e[2]] = <<>>
Noticed == \A e \in up : <<e[2], e[1]>> \in up
Quiet == Idle /\ Noticed

(* When nothing is under way, peers that are linked show the same presence *)
(* (handle-ephemeral.ts:36, handle-sync-request.ts:262).                   *)
QuietAgree == Quiet => \A e \in up : View(e[1]) = View(e[2])

(* What a peer shows of itself is its own to change: neither the copies    *)
(* others hold nor a deletion made while it was away wins over it, unless  *)
(* somebody once stamped an outdated copy of it, or took the loss of one   *)
(* of its links for its leaving (timerless-ephemeral-store.ts:74).         *)
OwnValueStays == \A p \in Peers \ raced : store[p][p].val = own[p]

(* A peer whose every link is gone is not shown any more by the peers that *)
(* have one, with the same exceptions                                      *)
(* (handle-channel-removed.ts:92, ephemeral-store-manager.ts:198).         *)
GoneIsGone ==
  Quiet => \A p \in Peers \ raced : Reach(p) = {}
             => \A q \in Peers \ {p} : Reach(q) # {} => store[q][p].val = Absent

(* Relays die out whatever the topology: when nothing more is shown the    *)
(* network becomes idle (handle-ephemeral.ts:43).                          *)
RelaysEnd == <>[]Idle
=============================================================================
